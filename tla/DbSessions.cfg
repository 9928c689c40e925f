\* Two requests at once, four pairs of tokens.
SPECIFICATION Spec
CONSTANTS
  None = None
  Jtis = {j1, j2, j3, j4}
  Requests = {r1, r2}
SYMMETRY Symmetry
\* It stops when every jti has been minted and has expired.
CHECK_DEADLOCK FALSE
INVARIANTS
  TypeOK
  DeletedNeverReturns
  OneRowPerLogin
  EndedLoginsStayEnded
  ClientsKeepTheirSession
PROPERTIES
  ImplementsRotation
