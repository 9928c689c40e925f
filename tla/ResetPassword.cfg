\* Two requests at once on one account, two codes, two passwords.
SPECIFICATION Spec
CONSTANTS
  None = None
  Passwords = {p1, p2}
  Codes = {c1, c2}
  Requests = {r1, r2}
SYMMETRY Symmetry
INVARIANT ResetTakesEffect
