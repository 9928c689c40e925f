\* Two requests at once on one session, up to the expiry of everything.
SPECIFICATION FairSpec
CONSTANTS
  alice = alice
  None = None
  Users <- MCUsers
  Logins = {l1}
  Owner <- MCOwner
  Requests = {r1, r2}
  SESSION_TTL = 2
  REFRESH_TTL = 2
  REFRESH_EXPIRES = 2
  MaxTime = 2
  FailsAt <- HalfDone
  ResendsFrom <- SetOfRecord
\* It stops when every login has been used, its tokens have expired or the
\* clock has reached its bound.
CHECK_DEADLOCK FALSE
INVARIANTS
  TypeOK
  RevocationSticks
  ReuseReportJustified
  MissingReportJustified
PROPERTIES
  RequestsEnd
  ReuseEndsSession
  ImplementsRotation
