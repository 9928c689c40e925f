\* Two requests at once in one worker.  The main client stops after two
\* attempts, not ten, and gives a command up after two, not four.
SPECIFICATION FairSpec

CONSTANTS
  any = any
  other = other
  Requests = {any, other}
  RoutesOf <- AnyAndOther
  STOPS_AFTER = 2
  PER_REQUEST <- RetriesPerRequest

INVARIANTS
  TypeOK
  SuccessIsDone
  EndIsForGood

PROPERTIES
  RequestsAnswered
  ClientSettles
