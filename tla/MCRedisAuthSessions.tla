------------------------ MODULE MCRedisAuthSessions ------------------------
\* Small instances of RedisAuthSessions for TLC.
EXTENDS RedisAuthSessions, TLC

CONSTANTS alice

\* Every login is of one user: only logins of one user share keys.
MCUsers == {alice}
MCOwner == [l \in Logins |-> alice]

\* Where a request that is cut short has done a part of what it does, but for
\* a revocation: a detected reuse ends the session only if it is not cut short.
HalfDone ==
  {"createSession.sadd", "issue.set", "issue.sadd", "issue.reply",
   "revokeFamily.del", "all.delSessions", "all.delFamilies"}

\* A token's record is written again, over that of a later token perhaps.
SetOfRecord == {"issue.set"}

\* The commands that write session keys and the index, and the last one of a
\* revocation, after which the request is gone.
IndexCommands ==
  {"createSession.set", "createSession.sadd", "revoke.srem", "revoke.del",
   "revokeFamily.srem", "all.delSessions"}

\* The properties about the index, and all actions, do without the history of
\* the tokens.
IndexView == <<now, stores, req, used, held, revoked, missed, resent>>

Symmetry == Permutations(Requests) \union Permutations(Logins)
=============================================================================
