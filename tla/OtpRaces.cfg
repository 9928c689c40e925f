\* Two requests at once on one key, three codes.
SPECIFICATION Spec
CONSTANTS
  Codes = {c1, c2, c3}
  Requests = {r1, r2}
  MAX_OTP_ATTEMPTS = 2
  OTP_TTL = 2
  MaxTime = 2
  None = None
SYMMETRY Symmetry
\* It stops when every code has been generated and the clock has reached its bound.
CHECK_DEADLOCK FALSE
INVARIANTS
  TypeOK
  AcceptedOnce
  AttemptsLimited
  LatestAccepted
  FreshCodeUsable
  OtpInv
PROPERTY ImplementsOneTimeCode
