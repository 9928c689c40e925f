--------------------------- MODULE SessionsService ---------------------------
(***************************************************************************)
(* src/psql-sessions/sessions.service.ts, one operator per SQL statement:  *)
(* the rows of the table "sessions" of one user, by their jti.  expiresAt  *)
(* is left out: it is stored and never read.                               *)
(***************************************************************************)
CONSTANT Jtis         \* the jtis that generateTokens ever mints, all distinct

VARIABLE sessions     \* the jtis with a row

SessionsTypeOK == sessions \in SUBSET Jtis

\* Slips: the session would not be asked for, one logout would delete all, or
\* a reset none.
AnySession(jti) == jti \in Jtis
DeleteEverySession(jti) == jti \in Jtis /\ sessions' = {}
KeepSessions == UNCHANGED sessions

CreateSession(jti) == sessions' = sessions \union {jti}
DeleteSessionByJti(jti) == sessions' = sessions \ {jti}
DeleteSessionsByUserId == sessions' = {}
SessionByJti(jti) == jti \in sessions
=============================================================================
