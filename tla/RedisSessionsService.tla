------------------------ MODULE RedisSessionsService ------------------------
(***************************************************************************)
(* src/redis-sessions/redis-sessions.service.ts, one operator per Redis    *)
(* command it sends: the keys session:<id> and the index sessions:<user>,  *)
(* a set without a TTL.                                                    *)
(*                                                                         *)
(* A login request mints one session id and one token family id, both      *)
(* fresh UUIDs, and every token it leads to carries that pair; the model   *)
(* names both by the login itself.                                         *)
(***************************************************************************)
EXTENDS RedisService

CONSTANTS Users,
          Logins,       \* the login requests that ever reach createSession
          Owner,        \* Owner[l]: the user who logs in by l
          SESSION_TTL   \* REDIS_TTL.SESSION

ASSUME SessionsAssumption ==
  /\ Owner \in [Logins -> Users]
  /\ SESSION_TTL \in Nat \ {0}

VARIABLES session,       \* session[l]: the deadline of session:<l>
          userSessions   \* userSessions[u]: the members of sessions:<u>

SessionsTypeOK ==
  /\ session \in [Logins -> Nat]
  /\ userSessions \in [Users -> SUBSET Logins]

SessionsInit ==
  /\ session = [l \in Logins |-> Gone]
  /\ userSessions = [u \in Users |-> {}]

\* A slip DeleteSessions must not make: only the index would be deleted.
DeleteIndexOnly(u, listed) ==
  /\ userSessions' = [userSessions EXCEPT ![u] = {}]
  /\ UNCHANGED session

\* createSession: SET session:<l>, then SADD sessions:<u>.
SetSession(l) ==
  /\ session' = [session EXCEPT ![l] = ExpiresIn(SESSION_TTL)]
  /\ UNCHANGED userSessions

IndexSession(l) ==
  /\ userSessions' = [userSessions EXCEPT ![Owner[l]] = @ \union {l}]
  /\ UNCHANGED session

\* getSession: GET session:<l> is not null.
SessionFound(l) == Alive(session[l])

\* revoke: SREM sessions:<u>, then DEL session:<l>.
UnindexSession(l) ==
  /\ userSessions' = [userSessions EXCEPT ![Owner[l]] = @ \ {l}]
  /\ UNCHANGED session

DeleteSession(l) ==
  /\ session' = [session EXCEPT ![l] = Gone]
  /\ UNCHANGED userSessions

\* revokeAllSessions: one DEL of the listed sessions and of the index, which
\* is not sent when SMEMBERS listed nothing.
DeleteSessions(u, listed) ==
  /\ session' = [l \in Logins |-> IF l \in listed THEN Gone ELSE session[l]]
  /\ userSessions' = IF listed = {} THEN userSessions
                     ELSE [userSessions EXCEPT ![u] = {}]
=============================================================================
