\* One request of any route and one that uses either client, as in HttpRequests.
SPECIFICATION FairSpec

CONSTANTS
  any = any
  other = other
  Requests = {any, other}
  RoutesOf <- AnyAndOther
  STOPS_AFTER = 2
  PER_REQUEST <- RetriesPerRequest

INVARIANT LogoutServed
