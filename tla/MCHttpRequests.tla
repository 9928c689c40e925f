--------------------------- MODULE MCHttpRequests ---------------------------
(* Instances of HttpRequests for TLC. *)
EXTENDS HttpRequests

CONSTANTS any, other

RetriesPerRequest == [c \in Clients |-> 1]

\* Requests meet in the two clients only: one of any route, and one that uses
\* either client.
AnyAndOther == [r \in Requests |-> IF r = any THEN Route ELSE {"login", "ready"}]
=============================================================================
