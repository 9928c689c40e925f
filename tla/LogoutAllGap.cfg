\* Two requests at once on two sessions of one user, none cut short.
SPECIFICATION Spec
CONSTANTS
  alice = alice
  None = None
  Users <- MCUsers
  Logins = {l1, l2}
  Owner <- MCOwner
  Requests = {r1, r2}
  SESSION_TTL = 3
  REFRESH_TTL = 2
  REFRESH_EXPIRES = 2
  MaxTime = 1
  FailsAt = {}
  ResendsFrom = {}
\* It stops when every login has been used, its tokens have expired or the
\* clock has reached its bound.
CHECK_DEADLOCK FALSE
INVARIANT LogoutAllIsComplete
