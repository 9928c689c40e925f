\* Two requests at once on one account, three codes, two passwords.
SPECIFICATION Spec
CONSTANTS
  None = None
  Passwords = {p1, p2}
  Codes = {c1, c2, c3}
  Requests = {r1, r2}
SYMMETRY Symmetry
INVARIANTS
  TypeOK
  CodesBelongToAccounts
  AcceptedCodeActivates
  OneRegistration
  MailboxProved
  AccountInv
