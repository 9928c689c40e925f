\* One request at a time on one session.
SPECIFICATION Spec
CONSTANTS
  alice = alice
  None = None
  Users <- MCUsers
  Logins = {l1}
  Owner <- MCOwner
  Requests = {r1}
  SESSION_TTL = 3
  REFRESH_TTL = 2
  REFRESH_EXPIRES = 2
  MaxTime = 3
  FailsAt = {}
  ResendsFrom = {}
\* It stops when every login has been used, its tokens have expired or the
\* clock has reached its bound.
CHECK_DEADLOCK FALSE
INVARIANT TokensExchangedOnce
