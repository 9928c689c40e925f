---------------------------- MODULE TokenService ----------------------------
(***************************************************************************)
(* src/redis-token/token.service.ts, one operator per Redis command: the   *)
(* key refresh-token:<user>:<family>, which keeps the hash of the one      *)
(* redeemable refresh token of the family, and token-families:<user>.      *)
(*                                                                         *)
(* A refresh token is a JWT over sub, sessionId, family and the time iat   *)
(* in whole seconds, and nothing else: within a family iat is the token's  *)
(* identity, and two tokens signed in the same second are the same string  *)
(* and have the same hash.                                                 *)
(***************************************************************************)
EXTENDS RedisSessionsService

CONSTANTS REFRESH_TTL,      \* REDIS_TTL.REFRESH_TOKEN, of the record
          REFRESH_EXPIRES   \* JWT_REFRESH_EXPIRES, of the token itself

ASSUME TokensAssumption ==
  /\ REFRESH_TTL \in Nat \ {0}
  /\ REFRESH_EXPIRES \in Nat \ {0}

\* Both are 7 days (JWT_REFRESH_EXPIRES of .env.example, REDIS_TTL).
ASSUME ExpiryAssumption == REFRESH_EXPIRES <= REFRESH_TTL

VARIABLES record,          \* record[l]: the token record of l's family
          tokenFamilies    \* tokenFamilies[u]: the members of token-families:<u>

TokenRecord == [iat: Nat, deadline: Nat]
NoRecord == [iat |-> 0, deadline |-> Gone]

TokensTypeOK ==
  /\ record \in [Logins -> TokenRecord]
  /\ tokenFamilies \in [Users -> SUBSET Logins]

TokensInit ==
  /\ record = [l \in Logins |-> NoRecord]
  /\ tokenFamilies = [u \in Users |-> {}]

\* verifyAsync accepts a token until its exp claim, iat + JWT_REFRESH_EXPIRES.
JwtExpired(iat) == now >= iat + REFRESH_EXPIRES

\* Slips SetRecord must not make: SET ... NX would keep a live record, and
\* SET ... KEEPTTL would keep its deadline.
SetRecordIfAbsent(l, iat) ==
  /\ record' = IF Alive(record[l].deadline) THEN record
               ELSE [record EXCEPT
                       ![l] = [iat |-> iat, deadline |-> ExpiresIn(REFRESH_TTL)]]
  /\ UNCHANGED tokenFamilies

SetRecordKeepingTtl(l, iat) ==
  /\ record' = [record EXCEPT
                  ![l] = [iat |-> iat,
                          deadline |-> IF Alive(@.deadline) THEN @.deadline
                                       ELSE ExpiresIn(REFRESH_TTL)]]
  /\ UNCHANGED tokenFamilies

\* createToken: SET refresh-token:<u>:<l>, then SADD token-families:<u>.
SetRecord(l, iat) ==
  /\ record' = [record EXCEPT
                  ![l] = [iat |-> iat, deadline |-> ExpiresIn(REFRESH_TTL)]]
  /\ UNCHANGED tokenFamilies

IndexFamily(l) ==
  /\ tokenFamilies' = [tokenFamilies EXCEPT ![Owner[l]] = @ \union {l}]
  /\ UNCHANGED record

\* verifyRefreshToken: compares the presented token with the record.
Verdict(l, iat) ==
  CASE ~Alive(record[l].deadline)                           -> "missing"
    [] Alive(record[l].deadline) /\ record[l].iat = iat     -> "valid"
    [] Alive(record[l].deadline) /\ record[l].iat # iat     -> "mismatch"

\* revokeTokenFamily: DEL refresh-token:<u>:<l>, then SREM token-families:<u>.
DeleteRecord(l) ==
  /\ record' = [record EXCEPT ![l] = NoRecord]
  /\ UNCHANGED tokenFamilies

UnindexFamily(l) ==
  /\ tokenFamilies' = [tokenFamilies EXCEPT ![Owner[l]] = @ \ {l}]
  /\ UNCHANGED record

\* revokeAllFamilies: one DEL of the listed records and of the index.
DeleteRecords(u, listed) ==
  /\ record' = [l \in Logins |-> IF l \in listed THEN NoRecord ELSE record[l]]
  /\ tokenFamilies' = IF listed = {} THEN tokenFamilies
                      ELSE [tokenFamilies EXCEPT ![u] = {}]
=============================================================================
