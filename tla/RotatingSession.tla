-------------------------- MODULE RotatingSession --------------------------
(***************************************************************************)
(* What rotation promises of a session: its client has one token at a time *)
(* that can be exchanged for the next one, a token is exchanged once, and  *)
(* a session that has ended hands out nothing any more.                    *)
(*                                                                         *)
(* The promise is void in a race.  A contended session may exchange tokens *)
(* twice, but still ends for good; an excused one may even come back.      *)
(***************************************************************************)
EXTENDS FiniteSets

CONSTANTS Logins,    \* the logins, one for each session
          Tokens     \* the refresh tokens of a session

VARIABLES right,      \* right[l]: where the right to a token of l's session is
          handed,     \* handed[l]: the tokens handed to l's client
          exchanged   \* exchanged[l]: those exchanged for a new one

vars == <<right, handed, exchanged>>

\* With a request that will hand out a token, with the token handed out last,
\* or with nobody: the request was cut short, and the client must log in again.
Live == {"issuing", "held", "stranded"}

Right == {"new"} \union Live \union {"contended", "ended", "excused"}

Init ==
  /\ right = [l \in Logins |-> "new"]
  /\ handed = [l \in Logins |-> {}]
  /\ exchanged = [l \in Logins |-> {}]

Begin(l) ==
  /\ right[l] = "new"
  /\ right' = [right EXCEPT ![l] = "issuing"]
  /\ UNCHANGED <<handed, exchanged>>

HandOut(l, t) ==
  /\ right[l] = "issuing"
  /\ t \notin handed[l]
  /\ right' = [right EXCEPT ![l] = "held"]
  /\ handed' = [handed EXCEPT ![l] = @ \union {t}]
  /\ UNCHANGED exchanged

Exchange(l, t) ==
  /\ right[l] = "held"
  /\ handed[l] \ exchanged[l] = {t}
  /\ right' = [right EXCEPT ![l] = "issuing"]
  /\ exchanged' = [exchanged EXCEPT ![l] = @ \union {t}]
  /\ UNCHANGED handed

Strand(l) ==
  /\ right[l] = "issuing"
  /\ right' = [right EXCEPT ![l] = "stranded"]
  /\ UNCHANGED <<handed, exchanged>>

\* Sessions end, by logout or expiry, or meet a race; never the other way.
Closing ==
  (Live \X {"contended", "ended", "excused"})
    \union ({"contended"} \X {"ended", "excused"}) \union {<<"ended", "excused">>}

Close ==
  /\ right' \in [Logins -> Right]
  /\ \A l \in Logins : right'[l] # right[l] => <<right[l], right'[l]>> \in Closing
  /\ handed' = [l \in Logins |-> IF right'[l] = right[l] THEN handed[l] ELSE {}]
  /\ exchanged' = [l \in Logins |-> IF right'[l] = right[l] THEN exchanged[l] ELSE {}]

Next ==
  \/ \E l \in Logins :
       \/ Begin(l) \/ Strand(l)
       \/ \E t \in Tokens : HandOut(l, t) \/ Exchange(l, t)
  \/ Close

Spec == Init /\ [][Next]_vars
=============================================================================
