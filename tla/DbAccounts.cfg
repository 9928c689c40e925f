\* Two requests at once on one account, three tokens, two sessions.
SPECIFICATION Spec
CONSTANTS
  None = None
  Passwords = {p1, p2}
  Tokens = {t1, t2, t3}
  Jtis = {j1, j2}
  Requests = {r1, r2}
SYMMETRY Symmetry
\* It stops when every token has been generated and has lapsed.
CHECK_DEADLOCK FALSE
INVARIANTS
  TypeOK
  OneToken
  LatestTokenKept
  RedeemedOnce
  OldSessionsEnd
  DbAccountInv
