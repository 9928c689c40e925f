\* One request at a time; the code's own number of attempts.
SPECIFICATION Spec
CONSTANTS
  Codes = {c1, c2}
  Requests = {r1}
  MAX_OTP_ATTEMPTS = 5
  OTP_TTL = 2
  MaxTime = 4
  None = None
CHECK_DEADLOCK FALSE
INVARIANT CodeEndsAfterTtl
