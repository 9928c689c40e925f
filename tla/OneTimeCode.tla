---------------------------- MODULE OneTimeCode ----------------------------
(***************************************************************************)
(* What a one-time code promises: one code is current at a time, it can be *)
(* refused Tries times at the most, and accepting it ends it.              *)
(***************************************************************************)
EXTENDS Naturals

CONSTANTS Codes, Tries, None

VARIABLES current,    \* the code that can be accepted, or None
          refused,    \* how often the current code's owner has been refused
          issued,     \* the codes issued so far
          accepted    \* the codes accepted so far

vars == <<current, refused, issued, accepted>>

Init ==
  /\ current = None
  /\ refused = 0
  /\ issued = {}
  /\ accepted = {}

Issue(c) ==
  /\ c \notin issued
  /\ current' = c
  /\ refused' = 0
  /\ issued' = issued \union {c}
  /\ UNCHANGED accepted

Refuse ==
  /\ current # None
  /\ refused < Tries
  /\ refused' = refused + 1
  /\ UNCHANGED <<current, issued, accepted>>

Accept ==
  /\ current # None
  /\ current \notin accepted
  /\ refused < Tries
  /\ accepted' = accepted \union {current}
  /\ current' = None
  /\ refused' = 0
  /\ UNCHANGED issued

\* The code expires, or is withdrawn after too many tries.
Lapse ==
  /\ current # None
  /\ current' = None
  /\ refused' = 0
  /\ UNCHANGED <<issued, accepted>>

Next == (\E c \in Codes : Issue(c)) \/ Refuse \/ Accept \/ Lapse

Spec == Init /\ [][Next]_vars
=============================================================================
