------------------------- MODULE RefreshTokenProofs -------------------------
(***************************************************************************)
(* Proofs about the refresh tokens of RedisAuthSessions, for any users,    *)
(* logins, requests and for any lifetimes with JWT_REFRESH_EXPIRES <=      *)
(* REDIS_TTL.REFRESH_TOKEN.                                                *)
(*                                                                         *)
(* Lifetime: a record outlives every token of its family that a client     *)
(* holds, whatever the order in which concurrent rotations write it, so    *)
(* "Refresh token revoked" is told of revoked families and expired tokens  *)
(* only.                                                                   *)
(*                                                                         *)
(* Exchange: a token is exchanged once, but for the recorded ways in which *)
(* it can be valid again.                                                  *)
(*                                                                         *)
(* Promise: until its refreshes race, each session is a RotatingSession.   *)
(***************************************************************************)
EXTENDS RedisAuthSessionsProofs

\* The record of l, if no revocation deleted it, outlives the token iat.
Outlives(l, iat) == l \in dropped \/ iat + REFRESH_EXPIRES <= record[l].deadline

\* Tokens are not signed in the future; a record is written before its token
\* is handed out, and outlives it from then on.
HeldInv == \A l \in Logins : \A iat \in held[l] : iat <= now /\ Outlives(l, iat)

SignedInv(r) ==
  /\ req[r].at \in {"issue.set", "issue.sadd", "issue.reply"} => req[r].token <= now
  /\ req[r].at \in {"issue.sadd", "issue.reply"} => Outlives(req[r].login, req[r].token)

LifetimeInv ==
  /\ HeldInv
  /\ \A r \in Requests : SignedInv(r)
  /\ MissingReportJustified

\* A token that was signed by now is outlived by a record written now.
LEMMA WrittenNow ==
  ASSUME TypeOK, NEW iat \in Nat, iat <= now
  PROVE  iat + REFRESH_EXPIRES <= ExpiresIn(REFRESH_TTL)
BY TokensAssumption, ExpiryAssumption DEF ExpiresIn, TypeOK

\* LifetimeInv survives a step of r at which clients are handed nothing, the
\* clock stands, and records are deleted only by a revocation.
LEMMA LifetimeKept ==
  ASSUME TypeOK, LifetimeInv, NEW r \in Requests, Others(r),
         UNCHANGED <<now, held>>, dropped \subseteq dropped',
         \A l \in Logins : record'[l] = record[l] \/ l \in dropped',
         req'[r].at \in {"issue.set", "issue.sadd", "issue.reply"} => req'[r].token <= now,
         req'[r].at \in {"issue.sadd", "issue.reply"} =>
           /\ req[r].at \in {"issue.sadd", "issue.reply"}
           /\ req'[r].token = req[r].token /\ req'[r].login = req[r].login,
         req'[r].verdict = "missing" =>
           req'[r].login \in dropped \/ JwtExpired(req'[r].token)
  PROVE  LifetimeInv'
<1> USE DEF Others, Outlives, HeldInv, SignedInv
<1>1. HeldInv'
  BY DEF LifetimeInv
<1>2. ASSUME NEW q \in Requests
      PROVE  SignedInv(q)'
  <2>1. req[q].at \in {"issue.sadd", "issue.reply"} => req[q].login \in Logins
    BY DEF TypeOK, Request
  <2>2. CASE q = r
    BY <2>1, <2>2 DEF LifetimeInv
  <2>3. CASE q # r
    BY <2>1, <2>3 DEF LifetimeInv
  <2> QED
    BY <2>2, <2>3
<1>3. MissingReportJustified'
  <2>1. ASSUME NEW q \in Requests, req'[q].verdict = "missing"
        PROVE  req'[q].login \in dropped' \/ now' >= req'[q].token + REFRESH_EXPIRES
    BY <2>1 DEF LifetimeInv, MissingReportJustified, JwtExpired
  <2> QED
    BY <2>1 DEF MissingReportJustified, JwtExpired
<1> QED
  BY <1>1, <1>2, <1>3 DEF LifetimeInv

\* The initial states satisfy LifetimeInv.
LEMMA InitLifetime == Init => LifetimeInv
BY DEF Init, LifetimeInv, HeldInv, SignedInv, MissingReportJustified, Idle

\* Every step keeps LifetimeInv.
LEMMA LifetimeStep ==
  TypeOK /\ RotationInv /\ LifetimeInv /\ [Next]_vars => LifetimeInv'
<1> SUFFICES ASSUME TypeOK, RotationInv, LifetimeInv, [Next]_vars PROVE LifetimeInv'
  OBVIOUS
<1> USE DEF stores, history, HeldInv, SignedInv
<1>1. ASSUME NEW r \in Requests, NEW l \in Logins, LoginCreatesSession(r, l)
      PROVE  LifetimeInv'
  <2>1. Others(r) /\ req'[r].at = "createSession.set" /\ req'[r].verdict = "none"
    <3>1. Others(r) /\ req'[r] = [Idle EXCEPT !.at = "createSession.set", !.login = l]
      BY <1>1, BecomesEffect DEF LoginCreatesSession
    <3> QED
      BY <3>1 DEF Idle
  <2> QED
    BY <1>1, <2>1, LifetimeKept DEF LoginCreatesSession
<1>2. ASSUME NEW r \in Requests, NEW l \in Logins, NEW iat \in held[l],
             RefreshGuard(r, l, iat)
      PROVE  LifetimeInv'
  <2>1. Others(r) /\ req'[r].at = "refresh.verify" /\ req'[r].verdict = "none"
    <3>1. Others(r) /\ req'[r] = [Idle EXCEPT !.at = "refresh.verify", !.login = l, !.token = iat,
                                              !.late = l \in revoked]
      BY <1>2, BecomesEffect DEF RefreshGuard
    <3> QED
      BY <3>1 DEF Idle
  <2> QED
    BY <1>2, <2>1, LifetimeKept DEF RefreshGuard
<1>3. ASSUME NEW r \in Requests, NEW l \in Logins, LogoutFindsSession(r, l)
      PROVE  LifetimeInv'
  <2>1. Others(r) /\ req'[r].at = "revoke.srem" /\ req'[r].verdict = "none"
    <3>1. Others(r) /\ req'[r] = [Idle EXCEPT !.at = "revoke.srem", !.login = l]
      BY <1>3, BecomesEffect DEF LogoutFindsSession
    <3> QED
      BY <3>1 DEF Idle
  <2> QED
    BY <1>3, <2>1, LifetimeKept DEF LogoutFindsSession
<1>4. ASSUME NEW r \in Requests, NEW l \in Logins, LogoutAllListsSessions(r, l)
      PROVE  LifetimeInv'
  <2>1. Others(r) /\ req'[r].at = "all.families" /\ req'[r].verdict = "none"
    <3>1. Others(r) /\ req'[r] = [Idle EXCEPT !.at = "all.families", !.login = l,
                                              !.sessions = userSessions[Owner[l]],
                                              !.before = Established(Owner[l])]
      BY <1>4, BecomesEffect DEF LogoutAllListsSessions
    <3> QED
      BY <3>1 DEF Idle
  <2> QED
    BY <1>4, <2>1, LifetimeKept DEF LogoutAllListsSessions
<1>5. ASSUME NEW r \in Requests, CreateSessionSet(r) PROVE LifetimeInv'
  <2>1. /\ Others(r) /\ req'[r].login = req[r].login /\ req'[r].token = req[r].token
        /\ req'[r].verdict = req[r].verdict /\ req'[r].at = "createSession.sadd"
    BY <1>5, GotoEffect DEF CreateSessionSet
  <2> QED
    BY <1>5, <2>1, LifetimeKept DEF CreateSessionSet, SetSession, At, LifetimeInv, MissingReportJustified
<1>6. ASSUME NEW r \in Requests, CreateSessionSadd(r) PROVE LifetimeInv'
  <2>1. /\ Others(r) /\ req'[r].login = req[r].login /\ req'[r].token = req[r].token
        /\ req'[r].verdict = req[r].verdict /\ req'[r].at = "issue.sign"
    BY <1>6, GotoEffect DEF CreateSessionSadd
  <2> QED
    BY <1>6, <2>1, LifetimeKept DEF CreateSessionSadd, IndexSession, At, LifetimeInv, MissingReportJustified
<1>7. ASSUME NEW r \in Requests, IssueSign(r) PROVE LifetimeInv'
  <2>1. /\ Others(r) /\ req'[r].login = req[r].login /\ req'[r].token = now
        /\ req'[r].verdict = req[r].verdict /\ req'[r].at = "issue.set"
    <3>1. Others(r) /\ req'[r] = [req[r] EXCEPT !.at = "issue.set", !.token = now]
      BY <1>7, BecomesEffect DEF IssueSign
    <3> QED
      BY <3>1 DEF TypeOK, Request, Fields
  <2>2. req'[r].verdict # "missing"
    BY <1>7, <2>1 DEF IssueSign, At, RotationInv, RefusedInv
  <2>3. now <= now
    BY DEF TypeOK
  <2> QED
    BY <1>7, <2>1, <2>2, <2>3, LifetimeKept DEF IssueSign
<1>8. ASSUME NEW r \in Requests, IssueSet(r) PROVE LifetimeInv'
  <2> DEFINE l == req[r].login
             iat == req[r].token
  <2>1. /\ Others(r) /\ req'[r].login = l /\ req'[r].token = iat
        /\ req'[r].verdict = req[r].verdict /\ req'[r].at = "issue.sadd"
    BY <1>8, GotoEffect DEF IssueSet
  <2>2. /\ req[r].at = "issue.set" /\ UNCHANGED <<now, held, dropped>> /\ l \in Logins
        /\ SetRecord(l, iat)
    BY <1>8 DEF IssueSet, At, TypeOK, Request
  <2>3. /\ record'[l].deadline = ExpiresIn(REFRESH_TTL)
        /\ \A m \in Logins \ {l} : record'[m] = record[m]
    BY <2>2 DEF SetRecord, TypeOK, TokensTypeOK
  <2>4. ASSUME NEW token \in Nat, token <= now
        PROVE  token + REFRESH_EXPIRES <= record'[l].deadline
    BY <2>3, <2>4, WrittenNow
  <2>5. ASSUME NEW m \in Logins, NEW token \in held'[m]
        PROVE  token <= now' /\ Outlives(m, token)'
    <3>1. token \in Nat /\ token <= now /\ Outlives(m, token)
      BY <2>2, <2>5 DEF LifetimeInv, TypeOK
    <3>2. CASE m = l
      BY <2>2, <2>4, <3>1, <3>2 DEF Outlives
    <3>3. CASE m # l
      BY <2>2, <2>3, <3>1, <3>3 DEF Outlives
    <3> QED
      BY <3>2, <3>3
  <2>6. ASSUME NEW q \in Requests
        PROVE  SignedInv(q)'
    <3>1. req'[q].token = req[q].token /\ req'[q].login = req[q].login
          /\ (req'[q].at \in {"issue.set", "issue.sadd", "issue.reply"} =>
                req[q].at \in {"issue.set", "issue.sadd", "issue.reply"})
          /\ (q # r => req'[q] = req[q])
      BY <2>1, <2>2 DEF Others
    <3>2. req[q].token \in Nat /\ (req[q].at # "idle" => req[q].login \in Logins)
      BY DEF TypeOK, Request, Fields
    <3>3. req[q].at \in {"issue.set", "issue.sadd", "issue.reply"} => req[q].token <= now
      BY DEF LifetimeInv
    <3>4. CASE req[q].login = l
      BY <2>2, <2>4, <3>1, <3>2, <3>3, <3>4 DEF Outlives
    <3>5. CASE req[q].login # l
      BY <2>2, <2>3, <3>1, <3>2, <3>3, <3>5 DEF Outlives, LifetimeInv
    <3> QED
      BY <3>4, <3>5
  <2>7. MissingReportJustified'
    BY <2>1, <2>2 DEF LifetimeInv, MissingReportJustified, JwtExpired, Others
  <2> QED
    BY <2>5, <2>6, <2>7 DEF LifetimeInv, Outlives
<1>9. ASSUME NEW r \in Requests, IssueSadd(r) PROVE LifetimeInv'
  <2>1. /\ Others(r) /\ req'[r].login = req[r].login /\ req'[r].token = req[r].token
        /\ req'[r].verdict = req[r].verdict /\ req'[r].at = "issue.reply"
    BY <1>9, GotoEffect DEF IssueSadd
  <2> QED
    BY <1>9, <2>1, LifetimeKept DEF IssueSadd, IndexFamily, At, LifetimeInv, MissingReportJustified
<1>10. ASSUME NEW r \in Requests, IssueReply(r) PROVE LifetimeInv'
  <2> DEFINE l == req[r].login
             iat == req[r].token
  <2>1. Others(r) /\ req'[r].at = "idle" /\ req'[r].verdict = "none"
    BY <1>10, IdleEffect DEF IssueReply
  <2>2. /\ req[r].at = "issue.reply" /\ UNCHANGED <<now, record, dropped>>
        /\ \A m \in Logins : held'[m] \subseteq held[m] \union (IF m = l THEN {iat} ELSE {})
    BY <1>10 DEF IssueReply, At, TypeOK
  <2>3. iat <= now /\ Outlives(l, iat)
    BY <2>2 DEF LifetimeInv
  <2>4. ASSUME NEW m \in Logins, NEW token \in held'[m]
        PROVE  token <= now' /\ Outlives(m, token)'
    <3>1. token \in held[m] \/ (m = l /\ token = iat)
      BY <2>2
    <3> QED
      BY <2>2, <2>3, <3>1 DEF LifetimeInv, Outlives
  <2>5. ASSUME NEW q \in Requests
        PROVE  SignedInv(q)'
    BY <2>1, <2>2 DEF LifetimeInv, Outlives, Others
  <2>6. MissingReportJustified'
    BY <2>1, <2>2 DEF LifetimeInv, MissingReportJustified, JwtExpired, Others
  <2> QED
    BY <2>4, <2>5, <2>6 DEF LifetimeInv, Outlives
<1>11. ASSUME NEW r \in Requests, RefreshVerify(r) PROVE LifetimeInv'
  <2>1. /\ Others(r) /\ req'[r].login = req[r].login /\ req'[r].token = req[r].token
        /\ req'[r].verdict = req[r].verdict /\ req'[r].at = (IF JwtExpired(req[r].token) THEN "revoke.srem" ELSE "refresh.record")
    BY <1>11, GotoEffect DEF RefreshVerify
  <2> QED
    BY <1>11, <2>1, LifetimeKept DEF RefreshVerify, At, LifetimeInv, MissingReportJustified
<1>12. ASSUME NEW r \in Requests, RefreshRejected(r) PROVE LifetimeInv'
  <2> DEFINE l == req[r].login
             iat == req[r].token
  <2>1. /\ Others(r) /\ req'[r].login = l /\ req'[r].token = iat
        /\ req'[r].verdict = Verdict(l, iat) /\ req'[r].at = "revoke.srem"
    <3>1. Others(r) /\ req'[r] = [req[r] EXCEPT !.at = "revoke.srem",
                                                !.verdict = Verdict(l, iat)]
      BY <1>12, BecomesEffect DEF RefreshRejected
    <3> QED
      BY <3>1 DEF TypeOK, Request, Fields
  <2>2. iat \in held[l] /\ l \in Logins
    BY <1>12 DEF RefreshRejected, At, RotationInv, PresentedInv, TypeOK, Request
  <2>3. iat \in Nat /\ now \in Nat /\ record[l].deadline \in Nat /\ REFRESH_EXPIRES \in Nat
    BY <2>2, TokensAssumption DEF TypeOK, TokensTypeOK, TokenRecord
  <2>4. Verdict(l, iat) = "missing" => l \in dropped \/ JwtExpired(iat)
    <3>1. Verdict(l, iat) = "missing" => ~(now < record[l].deadline)
      BY DEF Verdict, Alive
    <3>2. Outlives(l, iat)
      BY <2>2 DEF LifetimeInv
    <3> QED
      BY <2>3, <3>1, <3>2 DEF Outlives, JwtExpired
  <2> QED
    BY <1>12, <2>1, <2>4, LifetimeKept DEF RefreshRejected
<1>13. ASSUME NEW r \in Requests, RefreshAccepted(r) PROVE LifetimeInv'
  <2>1. Others(r) /\ req'[r].verdict = "valid" /\ req'[r].at = "refresh.session"
    <3>1. Others(r) /\ req'[r] = [req[r] EXCEPT !.at = "refresh.session", !.verdict = "valid"]
      BY <1>13, BecomesEffect DEF RefreshAccepted
    <3> QED
      BY <3>1 DEF TypeOK, Request, Fields
  <2> QED
    BY <1>13, <2>1, LifetimeKept DEF RefreshAccepted
<1>14. ASSUME NEW r \in Requests, RefreshFindsSession(r) PROVE LifetimeInv'
  <2>1. /\ Others(r) /\ req'[r].login = req[r].login /\ req'[r].token = req[r].token
        /\ req'[r].verdict = req[r].verdict /\ req'[r].at = "issue.sign"
    BY <1>14, GotoEffect DEF RefreshFindsSession
  <2> QED
    BY <1>14, <2>1, LifetimeKept DEF RefreshFindsSession, At, LifetimeInv, MissingReportJustified
<1>15. ASSUME NEW r \in Requests, RefreshMissesSession(r) PROVE LifetimeInv'
  <2>1. Others(r) /\ req'[r].at = "idle" /\ req'[r].verdict = "none"
    BY <1>15, IdleEffect DEF RefreshMissesSession
  <2> QED
    BY <1>15, <2>1, LifetimeKept DEF RefreshMissesSession
<1>16. ASSUME NEW r \in Requests, RevokeSrem(r) PROVE LifetimeInv'
  <2>1. /\ Others(r) /\ req'[r].login = req[r].login /\ req'[r].token = req[r].token
        /\ req'[r].verdict = req[r].verdict /\ req'[r].at = "revoke.del"
    BY <1>16, GotoEffect DEF RevokeSrem
  <2> QED
    BY <1>16, <2>1, LifetimeKept DEF RevokeSrem, UnindexSession, At, LifetimeInv, MissingReportJustified
<1>17. ASSUME NEW r \in Requests, RevokeDel(r) PROVE LifetimeInv'
  <2>1. /\ Others(r) /\ req'[r].login = req[r].login /\ req'[r].token = req[r].token
        /\ req'[r].verdict = req[r].verdict /\ req'[r].at = "revokeFamily.del"
    BY <1>17, GotoEffect DEF RevokeDel
  <2> QED
    BY <1>17, <2>1, LifetimeKept DEF RevokeDel, DeleteSession, At, LifetimeInv, MissingReportJustified
<1>18. ASSUME NEW r \in Requests, RevokeFamilyDel(r) PROVE LifetimeInv'
  <2>1. /\ Others(r) /\ req'[r].login = req[r].login /\ req'[r].token = req[r].token
        /\ req'[r].verdict = req[r].verdict /\ req'[r].at = "revokeFamily.srem"
    BY <1>18, GotoEffect DEF RevokeFamilyDel
  <2>2. \A l \in Logins : record'[l] = record[l] \/ l \in dropped'
    BY <1>18 DEF RevokeFamilyDel, DeleteRecord, TypeOK, TokensTypeOK
  <2> QED
    BY <1>18, <2>1, <2>2, LifetimeKept
    DEF RevokeFamilyDel, At, LifetimeInv, MissingReportJustified
<1>19. ASSUME NEW r \in Requests, RevokeFamilySrem(r) PROVE LifetimeInv'
  <2>1. Others(r) /\ req'[r].at = "idle" /\ req'[r].verdict = "none"
    BY <1>19, IdleEffect DEF RevokeFamilySrem
  <2> QED
    BY <1>19, <2>1, LifetimeKept DEF RevokeFamilySrem, UnindexFamily
<1>20. ASSUME NEW r \in Requests, LogoutAllListsFamilies(r) PROVE LifetimeInv'
  <2>1. /\ Others(r) /\ req'[r].login = req[r].login /\ req'[r].token = req[r].token
        /\ req'[r].verdict = req[r].verdict /\ req'[r].at = "all.delSessions"
    <3>1. Others(r) /\ req'[r] = [req[r] EXCEPT !.at = "all.delSessions",
                                     !.families = tokenFamilies[Owner[req[r].login]]]
      BY <1>20, BecomesEffect DEF LogoutAllListsFamilies
    <3> QED
      BY <3>1 DEF TypeOK, Request, Fields
  <2> QED
    BY <1>20, <2>1, LifetimeKept DEF LogoutAllListsFamilies, At, LifetimeInv, MissingReportJustified
<1>21. ASSUME NEW r \in Requests, LogoutAllDeletesSessions(r) PROVE LifetimeInv'
  <2>1. /\ Others(r) /\ req'[r].login = req[r].login /\ req'[r].token = req[r].token
        /\ req'[r].verdict = req[r].verdict /\ req'[r].at = "all.delFamilies"
    BY <1>21, GotoEffect DEF LogoutAllDeletesSessions
  <2> QED
    BY <1>21, <2>1, LifetimeKept DEF LogoutAllDeletesSessions, At, LifetimeInv, MissingReportJustified
<1>22. ASSUME NEW r \in Requests, LogoutAllDeletesFamilies(r) PROVE LifetimeInv'
  <2>1. /\ Others(r) /\ req'[r].login = req[r].login /\ req'[r].token = req[r].token
        /\ req'[r].verdict = req[r].verdict /\ req'[r].at = "all.reply"
    BY <1>22, GotoEffect DEF LogoutAllDeletesFamilies
  <2>2. \A l \in Logins : record'[l] = record[l] \/ l \in dropped'
    BY <1>22 DEF LogoutAllDeletesFamilies, DeleteRecords, TypeOK, TokensTypeOK
  <2> QED
    BY <1>22, <2>1, <2>2, LifetimeKept
    DEF LogoutAllDeletesFamilies, At, LifetimeInv, MissingReportJustified
<1>23. ASSUME NEW r \in Requests, LogoutAllReply(r) PROVE LifetimeInv'
  <2>1. Others(r) /\ req'[r].at = "idle" /\ req'[r].verdict = "none"
    BY <1>23, IdleEffect DEF LogoutAllReply
  <2> QED
    BY <1>23, <2>1, LifetimeKept DEF LogoutAllReply
<1>24. ASSUME NEW r \in Requests, Fail(r) PROVE LifetimeInv'
  <2>1. Others(r) /\ req'[r].at = "idle" /\ req'[r].verdict = "none"
    BY <1>24, IdleEffect DEF Fail
  <2> QED
    BY <1>24, <2>1, LifetimeKept DEF Fail
<1>25. ASSUME NEW r \in Requests, Resend(r) PROVE LifetimeInv'
  <2>1. PICK step \in Unanswered(r) :
          Goto(r, step) /\ UNCHANGED <<now, held, record, dropped>>
    BY <1>25 DEF Resend
  <2>2. /\ Others(r) /\ req'[r].at = step /\ req'[r].login = req[r].login
        /\ req'[r].token = req[r].token /\ req'[r].verdict = req[r].verdict
    BY <2>1, GotoEffect
  <2>3. /\ step \in {"issue.set", "issue.sadd"} => req[r].at \in {"issue.sadd", "issue.reply"}
        /\ step # "issue.reply"
    BY DEF Unanswered, At
  <2> QED
    BY <2>1, <2>2, <2>3, LifetimeKept DEF LifetimeInv, MissingReportJustified
<1>26. ASSUME NEW r \in Requests, ResendFamilySrem(r) PROVE LifetimeInv'
  BY <1>26 DEF ResendFamilySrem, UnindexFamily, LifetimeInv, Outlives, MissingReportJustified,
               JwtExpired
<1>27. CASE Tick
  <2>1. now \in Nat /\ now' = now + 1 /\ UNCHANGED <<record, req, held, dropped>>
    BY <1>27 DEF Tick, TypeOK
  <2>2. ASSUME NEW iat \in Nat
        PROVE  /\ iat <= now => iat <= now'
               /\ JwtExpired(iat) => JwtExpired(iat)'
    BY <2>1, TokensAssumption DEF JwtExpired
  <2>3. \A l \in Logins : held[l] \subseteq Nat
    BY DEF TypeOK
  <2>4. \A r \in Requests : req[r].token \in Nat
    BY DEF TypeOK, Request, Fields
  <2>5. \A l \in Logins : \A iat \in held'[l] : iat <= now' /\ Outlives(l, iat)'
    BY <2>1, <2>2, <2>3 DEF LifetimeInv, Outlives
  <2>6. ASSUME NEW r \in Requests PROVE SignedInv(r)'
    BY <2>1, <2>2, <2>4 DEF LifetimeInv, Outlives
  <2>7. MissingReportJustified'
    BY <2>1, <2>2, <2>4 DEF LifetimeInv, MissingReportJustified, JwtExpired
  <2> QED
    BY <2>5, <2>6, <2>7 DEF LifetimeInv, Outlives
<1>28. CASE UNCHANGED vars
  BY <1>28 DEF vars, LifetimeInv, Outlives, MissingReportJustified, JwtExpired
<1> QED
  BY <1>1, <1>2, <1>3, <1>4, <1>5, <1>6, <1>7, <1>8, <1>9, <1>10, <1>11, <1>12, <1>13,
     <1>14, <1>15, <1>16, <1>17, <1>18, <1>19, <1>20, <1>21, <1>22, <1>23, <1>24, <1>25,
     <1>26, <1>27, <1>28
  DEF Next, Arrive, Progress

\* For any number of requests and any lifetimes, a record outlives the tokens
\* that clients hold, unless a revocation deleted it.
THEOREM LifetimeCorrect == Spec => []LifetimeInv
<1> QED
  BY InitType, TypeStep, InitSession, SessionStep, InitRotation, RotationStep, InitLifetime,
     LifetimeStep, PTL DEF Spec

\* "Refresh token revoked" is never told of a token that is good.
THEOREM MissingReportCorrect == Spec => []MissingReportJustified
<1>1. LifetimeInv => MissingReportJustified
  BY DEF LifetimeInv
<1> QED
  BY <1>1, LifetimeCorrect, PTL

-----------------------------------------------------------------------------
(* Exchange: a token is exchanged once, but for the three known races. *)

\* A request that claims its family's right is in progress, and its login used.
LEMMA ClaimantsUsed ==
  ASSUME TypeOK, SessionInv, NEW r \in Requests, ~At(r, "idle")
  PROVE  req[r].login \in Logins /\ req[r].login \in used
BY DEF TypeOK, Request, Fields, At, SessionInv, BegunInv

\* ExchangeInv survives a step of r that makes no new claim on l's right, takes
\* up no token that was exchanged, and leaves such a token in the record only
\* for a refresh to replace.
LEMMA ExchangeKept ==
  ASSUME NEW l \in Logins, ExchangeInv(l), NEW r \in Requests, Others(r),
         spent'[l] = spent[l],
         Claiming(r)' /\ req'[r].login = l => Claiming(r) /\ req[r].login = l,
         /\ req'[r].login = l
         /\ req'[r].at \in {"refresh.session", "issue.set", "issue.sadd", "issue.reply"}
         => req'[r].token \notin spent[l],
         \/ record'[l].deadline # Gone => record'[l].iat \notin spent[l]
         \/ /\ record'[l] = record[l]
            /\ Replacing(r) /\ req[r].login = l => Replacing(r)' /\ req'[r].login = l
  PROVE  ExchangeInv(l)'
<1> USE DEF Others
<1>1. ASSUME NEW p \in Requests, Claiming(p)', req'[p].login = l
      PROVE  Claiming(p) /\ req[p].login = l
  BY <1>1 DEF Claiming, Renewing, At
<1>2. \A p, q \in Requests :
        Claiming(p)' /\ req'[p].login = l /\ Claiming(q)' /\ req'[q].login = l => q = p
  BY <1>1 DEF ExchangeInv
<1>3. ASSUME NEW p \in Requests, req'[p].login = l,
             req'[p].at \in {"refresh.session", "issue.set", "issue.sadd", "issue.reply"}
      PROVE  req'[p].token \notin spent'[l]
  BY <1>3 DEF ExchangeInv
<1>4. record'[l].deadline # Gone =>
        \/ record'[l].iat \notin spent'[l]
        \/ \E p \in Requests : Replacing(p)' /\ req'[p].login = l
  <2>1. ASSUME NEW p \in Requests, p # r, Replacing(p), req[p].login = l
        PROVE  Replacing(p)' /\ req'[p].login = l
    BY <2>1 DEF Replacing
  <2> QED
    BY <2>1 DEF ExchangeInv
<1> QED
  BY <1>2, <1>3, <1>4 DEF ExchangeInv

\* So does all of ReplayInv, under a step of r that exchanges no token.
LEMMA ReplayKept ==
  ASSUME TypeOK, SessionInv, ReplayInv, NEW r \in Requests, Others(r),
         UNCHANGED <<spent, twice>>,
         used \subseteq used', replayable \subseteq replayable',
         replayable' \subseteq replayable \union ({req[r].login} \intersect used),
         \A l \in Logins : held[l] \subseteq held'[l],
         Claiming(r)' => \/ Claiming(r) /\ req'[r].login = req[r].login
                         \/ req'[r].login \in replayable',
         req'[r].at \in {"refresh.session", "issue.set", "issue.sadd", "issue.reply"} =>
           \/ req'[r].login \in replayable'
           \/ req'[r].token \notin spent[req'[r].login],
         \A l \in Logins \ replayable' :
           \/ record'[l].deadline # Gone => record'[l].iat \notin spent[l]
           \/ /\ record'[l] = record[l]
              /\ Replacing(r) /\ req[r].login = l => Replacing(r)' /\ req'[r].login = l
  PROVE  ReplayInv'
<1>1. replayable' \subseteq used' /\ \A l \in Logins : spent'[l] \subseteq held'[l]
  BY DEF ReplayInv
<1>2. ASSUME NEW l \in Logins \ replayable' PROVE ExchangeInv(l)'
  <2>1. ExchangeInv(l) /\ spent'[l] = spent[l]
    BY DEF ReplayInv
  <2> QED
    BY <1>2, <2>1, ExchangeKept
<1>3. ExchangedOnce'
  BY DEF ReplayInv, ExchangedOnce
<1> QED
  BY <1>1, <1>2, <1>3 DEF ReplayInv

\* A step of r that claims nothing that it did not claim, with the same token,
\* and at most deletes records.
LEMMA ReplayQuiet ==
  ASSUME TypeOK, SessionInv, ReplayInv, NEW r \in Requests, Others(r),
         UNCHANGED <<spent, twice, replayable, used, held>>,
         Claiming(r)' => Claiming(r) /\ req'[r].login = req[r].login,
         req'[r].at \in {"refresh.session", "issue.set", "issue.sadd", "issue.reply"} =>
           /\ req[r].at \in {"refresh.session", "issue.set", "issue.sadd", "issue.reply"}
           /\ req'[r].token = req[r].token,
         \A l \in Logins : record'[l] = record[l] \/ record'[l].deadline = Gone,
         ~Replacing(r)
  PROVE  ReplayInv'
<1>1. req'[r].at \in {"refresh.session", "issue.set", "issue.sadd", "issue.reply"} =>
        \/ req'[r].login \in replayable'
        \/ req'[r].token \notin spent[req'[r].login]
  <2> SUFFICES ASSUME req'[r].at \in {"refresh.session", "issue.set", "issue.sadd", "issue.reply"},
                      req'[r].login \notin replayable
               PROVE  req'[r].token \notin spent[req'[r].login]
    OBVIOUS
  <2>1. req'[r].login = req[r].login /\ ~At(r, "idle")
    BY DEF Claiming, Renewing, Issuing, At
  <2> QED
    BY <2>1, ClaimantsUsed DEF ReplayInv, ExchangeInv
<1> QED
  BY <1>1, ReplayKept

\* The initial states satisfy ReplayInv.
LEMMA InitReplay == Init => ReplayInv
BY DEF Init, ReplayInv, ExchangeInv, ExchangedOnce, Claiming, Renewing, Replacing, Issuing, Idle,
       TokensInit, NoRecord, At

\* A refresh is accepted: if no other refresh has read or is replacing the
\* record, nobody else claims the right, and the token was never exchanged.
LEMMA AcceptedAlone ==
  ASSUME TypeOK, SessionInv, RotationInv, ReplayInv, NEW r \in Requests,
         At(r, "refresh.record"), Verdict(req[r].login, req[r].token) = "valid",
         req[r].login \notin replayable,
         \A q \in Requests : At(q, "refresh.session") \/ Replacing(q) =>
           req[q].login # req[r].login
  PROVE  /\ req[r].token \notin spent[req[r].login]
         /\ \A q \in Requests : Claiming(q) => req[q].login # req[r].login
<1> DEFINE l == req[r].login
           iat == req[r].token
<1>1. l \in Logins /\ iat \in held[l]
  BY ClaimantsUsed DEF At, RotationInv, PresentedInv
<1>2. record[l].deadline # Gone /\ record[l].iat = iat
  BY <1>1 DEF Verdict, Alive, Gone, TypeOK
<1>3. ExchangeInv(l) /\ FamilyInv(l)
  BY <1>1 DEF ReplayInv, ExchangedOnce, RotationInv
<1>4. iat \notin spent[l]
  BY <1>2, <1>3 DEF ExchangeInv
<1>5. ASSUME NEW q \in Requests, Claiming(q), req[q].login = l PROVE FALSE
  <2>1. Renewing(q) /\ ~Replacing(q)
    BY <1>5 DEF Claiming
  <2>2. iat \in Outstanding(l)
    BY <1>1, <1>4 DEF Outstanding
  <2> QED
    BY <1>3, <1>5, <2>1, <2>2 DEF FamilyInv
<1> QED
  BY <1>4, <1>5

\* Every step keeps ReplayInv.
LEMMA ReplayStep ==
  TypeOK /\ SessionInv /\ RotationInv /\ ReplayInv /\ [Next]_vars => ReplayInv'
<1> SUFFICES ASSUME TypeOK, SessionInv, RotationInv, ReplayInv, [Next]_vars PROVE ReplayInv'
  OBVIOUS
<1> USE DEF stores, history
<1>1. ASSUME NEW r \in Requests, NEW l \in Logins, LoginCreatesSession(r, l) PROVE ReplayInv'
  <2>1. Others(r) /\ req'[r].at = "createSession.set" /\ req'[r].login = l
    <3>1. Others(r) /\ req'[r] = [Idle EXCEPT !.at = "createSession.set", !.login = l]
      BY <1>1, BecomesEffect DEF LoginCreatesSession
    <3> QED
      BY <3>1 DEF Idle
  <2>2. /\ At(r, "idle") /\ l \notin used /\ used \subseteq used'
        /\ UNCHANGED <<held, spent, twice, replayable, record>>
    BY <1>1 DEF LoginCreatesSession
  <2>3. /\ spent[l] = {} /\ l \notin replayable
        /\ \A q \in Requests : ~At(q, "idle") => req[q].login # l
    BY <2>2 DEF SessionInv, BegunInv, ReplayInv
  <2>4. ASSUME NEW m \in Logins \ replayable' PROVE ExchangeInv(m)'
    <3>1. ExchangeInv(m)
      BY <2>2 DEF ReplayInv
    <3>2. CASE m = l
      <4>1. ASSUME NEW q \in Requests, Claiming(q)', req'[q].login = l PROVE q = r
        BY <2>1, <2>3, <4>1 DEF Claiming, Renewing, Issuing, At, Others
      <4>2. spent'[l] = {}
        BY <2>2, <2>3
      <4> QED
        BY <3>2, <4>1, <4>2 DEF ExchangeInv
    <3>3. CASE m # l
      BY <2>1, <2>2, <3>1, <3>3, ExchangeKept DEF Claiming, Renewing, Replacing, At
    <3> QED
      BY <3>2, <3>3
  <2> QED
    BY <2>2, <2>4 DEF ReplayInv, ExchangedOnce
<1>2. ASSUME NEW r \in Requests, NEW l \in Logins, NEW iat \in held[l], RefreshGuard(r, l, iat)
      PROVE  ReplayInv'
  <2>1. Others(r) /\ req'[r].at = "refresh.verify"
    <3>1. Others(r) /\ req'[r] = [Idle EXCEPT !.at = "refresh.verify", !.login = l, !.token = iat,
                                              !.late = l \in revoked]
      BY <1>2, BecomesEffect DEF RefreshGuard
    <3> QED
      BY <3>1 DEF Idle
  <2> QED
    BY <1>2, <2>1, ReplayQuiet DEF RefreshGuard, Claiming, Renewing, Issuing, Replacing, At
<1>3. ASSUME NEW r \in Requests, NEW l \in Logins, LogoutFindsSession(r, l) PROVE ReplayInv'
  <2>1. Others(r) /\ req'[r].at = "revoke.srem"
    <3>1. Others(r) /\ req'[r] = [Idle EXCEPT !.at = "revoke.srem", !.login = l]
      BY <1>3, BecomesEffect DEF LogoutFindsSession
    <3> QED
      BY <3>1 DEF Idle
  <2> QED
    BY <1>3, <2>1, ReplayQuiet DEF LogoutFindsSession, Claiming, Renewing, Issuing, Replacing, At
<1>4. ASSUME NEW r \in Requests, NEW l \in Logins, LogoutAllListsSessions(r, l) PROVE ReplayInv'
  <2>1. Others(r) /\ req'[r].at = "all.families"
    <3>1. Others(r) /\ req'[r] = [Idle EXCEPT !.at = "all.families", !.login = l,
                                              !.sessions = userSessions[Owner[l]],
                                              !.before = Established(Owner[l])]
      BY <1>4, BecomesEffect DEF LogoutAllListsSessions
    <3> QED
      BY <3>1 DEF Idle
  <2> QED
    BY <1>4, <2>1, ReplayQuiet
    DEF LogoutAllListsSessions, Claiming, Renewing, Issuing, Replacing, At
<1>5. ASSUME NEW r \in Requests, CreateSessionSet(r) \/ CreateSessionSadd(r) PROVE ReplayInv'
  <2>1. /\ Others(r) /\ req'[r].login = req[r].login
        /\ req'[r].at \in {"createSession.sadd", "issue.sign"}
    BY <1>5, GotoEffect DEF CreateSessionSet, CreateSessionSadd
  <2> QED
    BY <1>5, <2>1, ReplayQuiet
    DEF CreateSessionSet, CreateSessionSadd, Claiming, Renewing, Issuing, Replacing, At
<1>6. ASSUME NEW r \in Requests, IssueSign(r) PROVE ReplayInv'
  <2>1. /\ Others(r) /\ req'[r].at = "issue.set" /\ req'[r].login = req[r].login
        /\ req'[r].verdict = req[r].verdict /\ req'[r].token = now
    <3>1. req'[r] = [req[r] EXCEPT !.at = "issue.set", !.token = now] /\ Others(r)
      BY <1>6, BecomesEffect DEF IssueSign
    <3> QED
      BY <3>1 DEF TypeOK, Request, Fields
  <2>2. /\ At(r, "issue.sign")
        /\ replayable' = IF now \in spent[req[r].login]
                         THEN replayable \union {req[r].login} ELSE replayable
        /\ UNCHANGED <<held, used, spent, twice, record>>
    BY <1>6 DEF IssueSign
  <2>3. req[r].login \in used
    BY <2>2, ClaimantsUsed DEF At
  <2>4. Claiming(r) /\ (Replacing(r) => Replacing(r)')
    BY <2>1, <2>2 DEF Claiming, Renewing, Issuing, Replacing, At
  <2> QED
    BY <2>1, <2>2, <2>3, <2>4, ReplayKept
<1>7. ASSUME NEW r \in Requests, IssueSet(r) PROVE ReplayInv'
  <2>1. /\ Others(r) /\ req'[r].at = "issue.sadd" /\ req'[r].login = req[r].login
        /\ req'[r].token = req[r].token
    BY <1>7, GotoEffect DEF IssueSet
  <2>2. /\ At(r, "issue.set") /\ UNCHANGED <<held, used, spent, twice, replayable>>
        /\ Claiming(r)
    BY <1>7 DEF IssueSet, Claiming, Renewing, Issuing, At
  <2>3. req[r].login \in Logins
    BY <2>2, ClaimantsUsed DEF At
  <2>4. \A l \in Logins :
          IF l = req[r].login THEN record'[l].iat = req[r].token ELSE record'[l] = record[l]
    BY <1>7, <2>3 DEF IssueSet, SetRecord, TypeOK, TokensTypeOK
  <2>5. req[r].login \notin replayable => req[r].token \notin spent[req[r].login]
    BY <2>2, <2>3 DEF ReplayInv, ExchangeInv, At
  <2> QED
    BY <2>1, <2>2, <2>4, <2>5, ReplayKept
<1>8. ASSUME NEW r \in Requests, IssueSadd(r) PROVE ReplayInv'
  <2>1. /\ Others(r) /\ req'[r].at = "issue.reply" /\ req'[r].login = req[r].login
        /\ req'[r].token = req[r].token
    BY <1>8, GotoEffect DEF IssueSadd
  <2> QED
    BY <1>8, <2>1, ReplayQuiet
    DEF IssueSadd, IndexFamily, Claiming, Renewing, Issuing, Replacing, At
<1>9. ASSUME NEW r \in Requests, IssueReply(r) PROVE ReplayInv'
  <2>1. Others(r) /\ req'[r].at = "idle"
    BY <1>9, IdleEffect DEF IssueReply
  <2>2. /\ At(r, "issue.reply") /\ UNCHANGED <<used, spent, twice, replayable, record>>
        /\ \A l \in Logins : held[l] \subseteq held'[l]
    BY <1>9 DEF IssueReply, TypeOK
  <2> QED
    BY <2>1, <2>2, ReplayKept DEF Claiming, Renewing, Issuing, Replacing, At
<1>10. ASSUME NEW r \in Requests, RefreshVerify(r) PROVE ReplayInv'
  <2>1. Others(r) /\ req'[r].at \in {"revoke.srem", "refresh.record"}
    BY <1>10, GotoEffect DEF RefreshVerify
  <2> QED
    BY <1>10, <2>1, ReplayQuiet DEF RefreshVerify, Claiming, Renewing, Issuing, Replacing, At
<1>11. ASSUME NEW r \in Requests, RefreshRejected(r) PROVE ReplayInv'
  <2>1. Others(r) /\ req'[r].at = "revoke.srem"
    <3>1. /\ Others(r)
          /\ req'[r] = [req[r] EXCEPT !.at = "revoke.srem",
                                      !.verdict = Verdict(req[r].login, req[r].token)]
      BY <1>11, BecomesEffect DEF RefreshRejected
    <3> QED
      BY <3>1 DEF TypeOK, Request, Fields
  <2> QED
    BY <1>11, <2>1, ReplayQuiet DEF RefreshRejected, Claiming, Renewing, Issuing, Replacing, At
<1>12. ASSUME NEW r \in Requests, RefreshAccepted(r) PROVE ReplayInv'
  <2> PICK l, iat : l = req[r].login /\ iat = req[r].token
    OBVIOUS
  <2>1. /\ Others(r) /\ req'[r].at = "refresh.session" /\ req'[r].login = l
        /\ req'[r].token = iat
    <3>1. /\ Others(r)
          /\ req'[r] = [req[r] EXCEPT !.at = "refresh.session", !.verdict = "valid"]
      BY <1>12, BecomesEffect DEF RefreshAccepted
    <3> QED
      BY <3>1 DEF TypeOK, Request, Fields
  <2>2. /\ At(r, "refresh.record") /\ Verdict(l, iat) = "valid"
        /\ UNCHANGED <<held, used, spent, twice, record>>
        /\ replayable \subseteq replayable' /\ replayable' \subseteq replayable \union {l}
        /\ (\E q \in Requests : (At(q, "refresh.session") \/ Replacing(q)) /\ req[q].login = l)
             => l \in replayable'
    BY <1>12 DEF RefreshAccepted
  <2>3. l \in used
    BY <2>2, ClaimantsUsed DEF At
  <2>4. ASSUME NEW m \in Logins \ replayable' PROVE ExchangeInv(m)'
    <3>1. ExchangeInv(m)
      BY <2>2 DEF ReplayInv
    <3>2. CASE m = l
      <4>1. /\ iat \notin spent[l]
            /\ \A q \in Requests : Claiming(q) => req[q].login # l
        BY <2>2, <2>4, <3>2, AcceptedAlone
      <4>2. ASSUME NEW q \in Requests, Claiming(q)', req'[q].login = l PROVE q = r
        BY <2>1, <4>1, <4>2 DEF Claiming, Renewing, Issuing, At, Others
      <4>3. \A q \in Requests : ~(Replacing(q) /\ req[q].login = l)
        BY <4>1 DEF Claiming, Renewing, Issuing, Replacing
      <4>4. record'[l].deadline # Gone => record'[l].iat \notin spent'[l]
        BY <2>2, <3>1, <3>2, <4>3 DEF ExchangeInv
      <4>5. ASSUME NEW q \in Requests, req'[q].login = l,
                   req'[q].at \in {"refresh.session", "issue.set", "issue.sadd", "issue.reply"}
            PROVE  req'[q].token \notin spent'[l]
        BY <2>1, <2>2, <4>1, <4>2, <4>5 DEF Claiming, Renewing, Issuing, At
      <4> QED
        BY <3>2, <4>2, <4>4, <4>5 DEF ExchangeInv
    <3>3. CASE m # l
      BY <2>1, <2>2, <3>1, <3>3, ExchangeKept DEF Claiming, Renewing, Replacing, At
    <3> QED
      BY <3>2, <3>3
  <2> QED
    BY <2>2, <2>3, <2>4 DEF ReplayInv, ExchangedOnce
<1>13. ASSUME NEW r \in Requests, RefreshFindsSession(r) PROVE ReplayInv'
  <2> PICK l, iat : l = req[r].login /\ iat = req[r].token
    OBVIOUS
  <2>1. /\ Others(r) /\ req'[r].at = "issue.sign" /\ req'[r].login = l
        /\ req'[r].verdict = req[r].verdict
    BY <1>13, GotoEffect DEF RefreshFindsSession
  <2>2. /\ At(r, "refresh.session") /\ UNCHANGED <<held, used, record, replayable>>
        /\ twice' = IF iat \in spent[l] THEN twice \union {l} ELSE twice
    BY <1>13 DEF RefreshFindsSession
  <2>3. l \in Logins /\ iat \in held[l] /\ req[r].verdict = "valid"
    BY <2>2, ClaimantsUsed DEF At, RotationInv, PresentedInv, SessionInv, AcceptedInv
  <2>4. \A m \in Logins : spent'[m] = IF m = l THEN spent[m] \union {iat} ELSE spent[m]
    BY <1>13 DEF RefreshFindsSession, TypeOK
  <2>5. Claiming(r) /\ Replacing(r)'
    BY <2>1, <2>2, <2>3 DEF Claiming, Replacing
  <2>6. ASSUME NEW m \in Logins \ replayable' PROVE ExchangeInv(m)'
    <3>1. ExchangeInv(m)
      BY <2>2 DEF ReplayInv
    <3>2. CASE m = l
      <4>1. \A q \in Requests : Claiming(q) /\ req[q].login = l => q = r
        BY <2>5, <3>1, <3>2 DEF ExchangeInv
      <4>2. ASSUME NEW q \in Requests, Claiming(q)', req'[q].login = l PROVE q = r
        BY <2>1, <4>1, <4>2 DEF Claiming, Renewing, Issuing, At, Others
      <4>3. ASSUME NEW q \in Requests, req'[q].login = l,
                   req'[q].at \in {"refresh.session", "issue.set", "issue.sadd", "issue.reply"}
            PROVE  FALSE
        BY <2>1, <4>2, <4>3 DEF Claiming, Renewing, Issuing, At
      <4> QED
        BY <2>1, <2>5, <3>2, <4>2, <4>3 DEF ExchangeInv
    <3>3. CASE m # l
      BY <2>1, <2>2, <2>4, <3>1, <3>3, ExchangeKept
    <3> QED
      BY <3>2, <3>3
  <2>7. iat \in spent[l] => l \in replayable
    BY <2>2, <2>3 DEF ReplayInv, ExchangeInv, At
  <2>8. \A m \in Logins : spent'[m] \subseteq held'[m]
    BY <2>2, <2>3, <2>4 DEF ReplayInv
  <2> QED
    BY <2>2, <2>6, <2>7, <2>8 DEF ReplayInv, ExchangedOnce
<1>14. ASSUME NEW r \in Requests, RefreshMissesSession(r) PROVE ReplayInv'
  <2>1. Others(r) /\ req'[r].at = "idle"
    BY <1>14, IdleEffect DEF RefreshMissesSession
  <2> QED
    BY <1>14, <2>1, ReplayQuiet
    DEF RefreshMissesSession, Claiming, Renewing, Issuing, Replacing, At
<1>15. ASSUME NEW r \in Requests, RevokeSrem(r) \/ RevokeDel(r) PROVE ReplayInv'
  <2>1. Others(r) /\ req'[r].at \in {"revoke.del", "revokeFamily.del"}
    BY <1>15, GotoEffect DEF RevokeSrem, RevokeDel
  <2> QED
    BY <1>15, <2>1, ReplayQuiet DEF RevokeSrem, RevokeDel, Claiming, Renewing, Issuing, Replacing, At
<1>16. ASSUME NEW r \in Requests, RevokeFamilyDel(r) PROVE ReplayInv'
  <2>1. Others(r) /\ req'[r].at = "revokeFamily.srem"
    BY <1>16, GotoEffect DEF RevokeFamilyDel
  <2>2. \A l \in Logins : record'[l] = record[l] \/ record'[l].deadline = Gone
    BY <1>16 DEF RevokeFamilyDel, DeleteRecord, NoRecord, TypeOK, TokensTypeOK
  <2> QED
    BY <1>16, <2>1, <2>2, ReplayQuiet
    DEF RevokeFamilyDel, Claiming, Renewing, Issuing, Replacing, At
<1>17. ASSUME NEW r \in Requests, RevokeFamilySrem(r) PROVE ReplayInv'
  <2>1. Others(r) /\ req'[r].at = "idle"
    BY <1>17, IdleEffect DEF RevokeFamilySrem
  <2> QED
    BY <1>17, <2>1, ReplayQuiet
    DEF RevokeFamilySrem, UnindexFamily, Claiming, Renewing, Issuing, Replacing, At
<1>18. ASSUME NEW r \in Requests, LogoutAllListsFamilies(r) PROVE ReplayInv'
  <2>1. Others(r) /\ req'[r].at = "all.delSessions"
    <3>1. req'[r] = [req[r] EXCEPT !.at = "all.delSessions",
                                 !.families = tokenFamilies[Owner[req[r].login]]] /\ Others(r)
      BY <1>18, BecomesEffect DEF LogoutAllListsFamilies
    <3> QED
      BY <3>1 DEF TypeOK, Request, Fields
  <2> QED
    BY <1>18, <2>1, ReplayQuiet
    DEF LogoutAllListsFamilies, Claiming, Renewing, Issuing, Replacing, At
<1>19. ASSUME NEW r \in Requests, LogoutAllDeletesSessions(r) PROVE ReplayInv'
  <2>1. Others(r) /\ req'[r].at = "all.delFamilies"
    BY <1>19, GotoEffect DEF LogoutAllDeletesSessions
  <2> QED
    BY <1>19, <2>1, ReplayQuiet
    DEF LogoutAllDeletesSessions, Claiming, Renewing, Issuing, Replacing, At
<1>20. ASSUME NEW r \in Requests, LogoutAllDeletesFamilies(r) PROVE ReplayInv'
  <2>1. Others(r) /\ req'[r].at = "all.reply"
    BY <1>20, GotoEffect DEF LogoutAllDeletesFamilies
  <2>2. \A l \in Logins : record'[l] = record[l] \/ record'[l].deadline = Gone
    BY <1>20 DEF LogoutAllDeletesFamilies, DeleteRecords, NoRecord, TypeOK, TokensTypeOK
  <2> QED
    BY <1>20, <2>1, <2>2, ReplayQuiet
    DEF LogoutAllDeletesFamilies, Claiming, Renewing, Issuing, Replacing, At
<1>21. ASSUME NEW r \in Requests, LogoutAllReply(r) PROVE ReplayInv'
  <2>1. Others(r) /\ req'[r].at = "idle"
    BY <1>21, IdleEffect DEF LogoutAllReply
  <2> QED
    BY <1>21, <2>1, ReplayQuiet DEF LogoutAllReply, Claiming, Renewing, Issuing, Replacing, At
<1>22. ASSUME NEW r \in Requests, Fail(r) PROVE ReplayInv'
  <2>1. Others(r) /\ req'[r].at = "idle"
    BY <1>22, IdleEffect DEF Fail
  <2>2. /\ ~At(r, "idle") /\ UNCHANGED <<held, used, spent, twice, record>>
        /\ replayable' = IF Replacing(r) THEN replayable \union {req[r].login} ELSE replayable
    BY <1>22 DEF Fail
  <2>3. req[r].login \in used
    BY <2>2, ClaimantsUsed
  <2> QED
    BY <2>1, <2>2, <2>3, ReplayKept DEF Claiming, Renewing, Issuing, At
<1>23. ASSUME NEW r \in Requests, Resend(r) PROVE ReplayInv'
  <2>1. PICK step \in Unanswered(r) :
          Goto(r, step) /\ UNCHANGED <<held, used, spent, twice, replayable, record>>
    BY <1>23 DEF Resend
  <2>2. /\ Others(r) /\ req'[r].at = step /\ req'[r].login = req[r].login
        /\ req'[r].token = req[r].token
    BY <2>1, GotoEffect
  <2>3. /\ step \in {"createSession.set", "createSession.sadd", "issue.set", "issue.sadd",
                     "revoke.srem", "revoke.del", "revokeFamily.del",
                     "all.delSessions", "all.delFamilies"}
        /\ step \in {"createSession.set", "createSession.sadd", "issue.set", "issue.sadd"}
             => Claiming(r)
        /\ step \in {"issue.set", "issue.sadd"} => req[r].at \in {"issue.sadd", "issue.reply"}
        /\ ~Replacing(r)
    BY DEF Unanswered, Claiming, Renewing, Issuing, Replacing, At
  <2> QED
    BY <2>1, <2>2, <2>3, ReplayQuiet DEF Claiming, Renewing, Issuing, At
<1>24. ASSUME NEW r \in Requests, ResendFamilySrem(r) PROVE ReplayInv'
  BY <1>24, ReplayQuiet
  DEF ResendFamilySrem, UnindexFamily, Others, Claiming, Renewing, Issuing, Replacing, At
<1>25. CASE Tick \/ UNCHANGED vars
  BY <1>25 DEF Tick, vars, ReplayInv, ExchangeInv, ExchangedOnce, Claiming, Renewing, Replacing, At
<1> QED
  BY <1>1, <1>2, <1>3, <1>4, <1>5, <1>6, <1>7, <1>8, <1>9, <1>10, <1>11, <1>12, <1>13,
     <1>14, <1>15, <1>16, <1>17, <1>18, <1>19, <1>20, <1>21, <1>22, <1>23, <1>24, <1>25
  DEF Next, Arrive, Progress

\* While a family is not replayable, one request at the most claims its right,
\* and what its record, a refresh or a login carries was never exchanged.
THEOREM ExchangeCorrect == Spec => []ReplayInv
BY InitType, TypeStep, InitSession, SessionStep, InitRotation, RotationStep, InitReplay,
   ReplayStep, PTL DEF Spec

\* A token is exchanged twice only after two refreshes raced, one was cut short
\* before it replaced the record, or two tokens were signed in one second.
THEOREM ExchangedOnceCorrect == Spec => []ExchangedOnce
<1>1. ReplayInv => ExchangedOnce
  BY DEF ReplayInv
<1> QED
  BY <1>1, ExchangeCorrect, PTL

-----------------------------------------------------------------------------
(* Rotation.  The mapping is followed login by login: a step of the code   *)
(* leaves each login to RotatingSession as it was, or moves one login, or  *)
(* closes some of them.                                                    *)

\* The clock stops at its bound, which bounds the tokens of RotatingSession.
ClockInv == now <= MaxTime

\* RotatingSession does not see a change of the login l.
Same(l) == UNCHANGED <<RightOf(l), HandedOf(l), ExchangedOf(l)>>

\* RotatingSession begins l, hands out or exchanges a token of l, or strands it.
Moves(l) ==
  \/ /\ RightOf(l) = "new" /\ RightOf(l)' = "issuing"
     /\ UNCHANGED <<HandedOf(l), ExchangedOf(l)>>
  \/ /\ RightOf(l) = "issuing" /\ RightOf(l)' = "held"
     /\ \E t \in (0 .. MaxTime) \ HandedOf(l) : HandedOf(l)' = HandedOf(l) \union {t}
     /\ UNCHANGED ExchangedOf(l)
  \/ /\ RightOf(l) = "held" /\ RightOf(l)' = "issuing"
     /\ \E t \in 0 .. MaxTime : /\ HandedOf(l) \ ExchangedOf(l) = {t}
                                /\ ExchangedOf(l)' = ExchangedOf(l) \union {t}
     /\ UNCHANGED HandedOf(l)
  \/ /\ RightOf(l) = "issuing" /\ RightOf(l)' = "stranded"
     /\ UNCHANGED <<HandedOf(l), ExchangedOf(l)>>

\* RotatingSession ends, contends or excuses l.
Closes(l) == <<RightOf(l), RightOf(l)'>> \in Rotation!Closing

\* One login moves: a step of RotatingSession.
LEMMA OneMoves ==
  ASSUME NEW l \in Logins, Moves(l), \A k \in Logins \ {l} : Same(k)
  PROVE  Rotation!Next
<1>1. /\ [k \in Logins |-> RightOf(k)]' = [[k \in Logins |-> RightOf(k)] EXCEPT ![l] = RightOf(l)']
      /\ [k \in Logins |-> HandedOf(k)]'
           = [[k \in Logins |-> HandedOf(k)] EXCEPT ![l] = HandedOf(l)']
      /\ [k \in Logins |-> ExchangedOf(k)]'
           = [[k \in Logins |-> ExchangedOf(k)] EXCEPT ![l] = ExchangedOf(l)']
  BY DEF Same
<1>2. /\ HandedOf(l)' = HandedOf(l) => UNCHANGED [k \in Logins |-> HandedOf(k)]
      /\ ExchangedOf(l)' = ExchangedOf(l) => UNCHANGED [k \in Logins |-> ExchangedOf(k)]
  BY DEF Same
<1>3. CASE RightOf(l) = "new"
  <2>1. Rotation!Begin(l)
    BY <1>1, <1>2, <1>3 DEF Moves, Rotation!Begin
  <2> QED
    BY <2>1 DEF Rotation!Next
<1>4. CASE RightOf(l) = "issuing" /\ RightOf(l)' = "held"
  <2>1. PICK t \in (0 .. MaxTime) \ HandedOf(l) : HandedOf(l)' = HandedOf(l) \union {t}
    BY <1>4 DEF Moves
  <2>2. Rotation!HandOut(l, t)
    BY <1>1, <1>2, <1>4, <2>1 DEF Moves, Rotation!HandOut
  <2> QED
    BY <2>1, <2>2 DEF Rotation!Next
<1>5. CASE RightOf(l) = "held"
  <2>1. PICK t \in 0 .. MaxTime : /\ HandedOf(l) \ ExchangedOf(l) = {t}
                                  /\ ExchangedOf(l)' = ExchangedOf(l) \union {t}
    BY <1>5 DEF Moves
  <2>2. Rotation!Exchange(l, t)
    BY <1>1, <1>2, <1>5, <2>1 DEF Moves, Rotation!Exchange
  <2> QED
    BY <2>2 DEF Rotation!Next
<1>6. CASE RightOf(l) = "issuing" /\ RightOf(l)' = "stranded"
  <2>1. Rotation!Strand(l)
    BY <1>1, <1>2, <1>6 DEF Moves, Rotation!Strand
  <2> QED
    BY <2>1 DEF Rotation!Next
<1> QED
  BY <1>3, <1>4, <1>5, <1>6 DEF Moves

\* Some logins end, or meet a race, and the others stay.
LEMMA SomeClose ==
  ASSUME \A l \in Logins : Same(l) \/ Closes(l)
  PROVE  Rotation!Next
<1>1. \A l \in Logins : RightOf(l)' \in Rotation!Right
  BY DEF RightOf, Rotation!Right, Rotation!Live
<1>2. \A l \in Logins : RightOf(l)' # RightOf(l) => Closes(l)
  BY DEF Same
<1>3. \A l \in Logins : Closes(l) => /\ RightOf(l)' # RightOf(l)
                                     /\ HandedOf(l)' = {} /\ ExchangedOf(l)' = {}
  BY DEF Closes, Rotation!Closing, Rotation!Live, HandedOf, ExchangedOf, KeepsPromise
<1>4. \A l \in Logins :
        /\ HandedOf(l)' = IF RightOf(l)' = RightOf(l) THEN HandedOf(l) ELSE {}
        /\ ExchangedOf(l)' = IF RightOf(l)' = RightOf(l) THEN ExchangedOf(l) ELSE {}
  BY <1>2, <1>3 DEF Same
<1>5. Rotation!Close
  BY <1>1, <1>2, <1>4 DEF Rotation!Close, Closes
<1> QED
  BY <1>5 DEF Rotation!Next

\* A step that RotatingSession does not see.
LEMMA NoneMoves ==
  ASSUME \A l \in Logins : Same(l)
  PROVE  UNCHANGED Rotation!vars
BY DEF Same, Rotation!vars

\* Some request is on its way to hand out a token of l.
Renewed(l) == \E r \in Requests : Renewing(r) /\ req[r].login = l

\* What RotatingSession sees of a login.
LEMMA Unmoved ==
  ASSUME NEW l \in Logins,
         l \in resent' <=> l \in resent, l \in used' <=> l \in used, Over(l)' <=> Over(l),
         l \in replayable' <=> l \in replayable, Renewed(l)' <=> Renewed(l),
         held'[l] = held[l], spent'[l] = spent[l]
  PROVE  Same(l)
BY DEF Same, RightOf, HandedOf, ExchangedOf, KeepsPromise, Outstanding, Renewed

\* A login that is excused, or has ended, or is contended, stays where it is.
LEMMA FinalStays ==
  ASSUME NEW l \in Logins,
         \/ l \in resent /\ l \in resent'
         \/ /\ l \notin resent /\ l \notin resent' /\ l \in used /\ l \in used'
            /\ \/ Over(l) /\ Over(l)'
               \/ ~Over(l) /\ ~Over(l)' /\ l \in replayable /\ l \in replayable'
  PROVE  Same(l)
BY DEF Same, RightOf, HandedOf, ExchangedOf, KeepsPromise

\* A step of r is not seen of a login whose session it neither finds nor ends,
\* and for which it is as much on its way as it was.
LEMMA UnmovedBy ==
  ASSUME NEW l \in Logins, NEW r \in Requests, Others(r),
         l \in resent' <=> l \in resent, l \in used' <=> l \in used,
         SessionFound(l)' <=> SessionFound(l),
         At(r, "createSession.set")' /\ req'[r].login = l
           <=> At(r, "createSession.set") /\ req[r].login = l,
         l \in replayable' <=> l \in replayable,
         Renewing(r)' /\ req'[r].login = l <=> Renewing(r) /\ req[r].login = l,
         held'[l] = held[l], spent'[l] = spent[l]
  PROVE  Same(l)
<1> USE DEF Others
<1>1. Renewed(l)' <=> Renewed(l)
  BY DEF Renewed, Renewing, Issuing
<1>2. Over(l)' <=> Over(l)
  BY DEF Over, Unborn, At
<1> QED
  BY <1>1, <1>2, Unmoved

\* So it is with most steps of a request, of every login.
LEMMA QuietStep ==
  ASSUME NEW r \in Requests, Others(r),
         UNCHANGED <<now, session, used, held, spent, replayable, resent>>,
         Renewing(r)' <=> Renewing(r),
         Renewing(r) => req'[r].login = req[r].login,
         ~At(r, "createSession.set"), ~At(r, "createSession.set")'
  PROVE  UNCHANGED Rotation!vars
<1>1. \A l \in Logins : SessionFound(l)' <=> SessionFound(l)
  BY DEF SessionFound, Alive
<1>2. \A l \in Logins : Renewing(r)' /\ req'[r].login = l <=> Renewing(r) /\ req[r].login = l
  OBVIOUS
<1> QED
  BY <1>1, <1>2, UnmovedBy, NoneMoves

\* A session that was never set, and not sent twice, is not found.
LEMMA UnbornGone ==
  ASSUME TypeOK, SessionInv, NEW l \in Logins, l \notin resent, Unborn(l)
  PROVE  ~SessionFound(l)
BY DEF SessionInv, UnbornInv, Untouched, SessionFound, Alive, Gone, TypeOK

\* Of a login that keeps its promise, the request that renews is alone, and
\* every token that the client holds is spent.
LEMMA OneRenewing ==
  ASSUME TypeOK, RotationInv, ReplayInv, NEW r \in Requests, NEW l \in Logins,
         Renewing(r), req[r].login = l, l \notin replayable
  PROVE  /\ \A q \in Requests : Renewing(q) /\ req[q].login = l => q = r
         /\ Outstanding(l) = {}
         /\ held[l] = spent[l]
<1>1. FamilyInv(l)
  BY DEF ReplayInv, ExchangedOnce, RotationInv
<1> QED
  BY <1>1 DEF FamilyInv, Outstanding, ReplayInv

-----------------------------------------------------------------------------
(* What each action does to each login. *)

\* login begins a session.
LEMMA LoginBegins ==
  ASSUME TypeOK, SessionInv, ReplayInv, NEW r \in Requests, NEW l \in Logins,
         LoginCreatesSession(r, l)
  PROVE  Rotation!Next
<1> USE DEF stores, history
<1>1. /\ Others(r) /\ req'[r].at = "createSession.set" /\ req'[r].login = l
  <2>1. Others(r) /\ req'[r] = [Idle EXCEPT !.at = "createSession.set", !.login = l]
    BY BecomesEffect DEF LoginCreatesSession
  <2> QED
    BY <2>1 DEF Idle
<1>2. /\ At(r, "idle") /\ l \notin used /\ used' = used \union {l}
      /\ UNCHANGED <<now, session, held, spent, replayable, resent>>
  BY DEF LoginCreatesSession
<1>3. l \notin replayable
  BY <1>2 DEF ReplayInv
<1>4. \A k \in Logins : SessionFound(k)' <=> SessionFound(k)
  BY <1>2 DEF SessionFound, Alive
<1>5. ASSUME NEW k \in Logins \ {l} PROVE Same(k)
  BY <1>1, <1>2, <1>4, UnmovedBy DEF At, Renewing, Issuing
<1>6. CASE l \in resent
  <2>1. Same(l)
    BY <1>2, <1>6, FinalStays
  <2> QED
    BY <1>5, <2>1, SomeClose
<1>7. CASE l \notin resent
  <2>1. RightOf(l) = "new"
    BY <1>2, <1>7 DEF RightOf
  <2>2. ~Over(l)' /\ (\E q \in Requests : Renewing(q) /\ req[q].login = l)'
    BY <1>1 DEF Over, Unborn, At, Renewing
  <2>3. RightOf(l)' = "issuing"
    BY <1>2, <1>3, <1>7, <2>2 DEF RightOf
  <2>4. Moves(l)
    BY <1>2, <2>1, <2>3 DEF Moves, HandedOf, ExchangedOf, KeepsPromise
  <2> QED
    BY <1>5, <2>4, OneMoves
<1> QED
  BY <1>6, <1>7

\* createSession sets the session: not seen, the login is on its way.
LEMMA CreateUnseen ==
  ASSUME TypeOK, SessionInv, NEW r \in Requests, CreateSessionSet(r)
  PROVE  UNCHANGED Rotation!vars
<1> USE DEF stores, history
<1> PICK l : l = req[r].login
  OBVIOUS
<1>1. /\ Others(r) /\ req'[r].at = "createSession.sadd" /\ req'[r].login = l
  BY GotoEffect DEF CreateSessionSet
<1>2. /\ At(r, "createSession.set")
      /\ UNCHANGED <<now, used, held, spent, replayable, resent>>
  BY DEF CreateSessionSet
<1>3. l \in Logins
  BY <1>2, ClaimantsUsed DEF At
<1>4. \A k \in Logins :
        session'[k] = IF k = l THEN now + SESSION_TTL ELSE session[k]
  BY <1>3 DEF CreateSessionSet, SetSession, ExpiresIn, TypeOK, SessionsTypeOK
<1>5. ASSUME NEW k \in Logins \ {l} PROVE Same(k)
  <2>1. SessionFound(k)' <=> SessionFound(k)
    BY <1>2, <1>4 DEF SessionFound, Alive
  <2> QED
    BY <1>1, <1>2, <2>1, UnmovedBy
<1>6. ~Over(l)
  BY <1>2 DEF Over, Unborn
<1>7. ~Over(l)'
  BY <1>2, <1>3, <1>4, SessionsAssumption DEF Over, SessionFound, Alive, TypeOK
<1>8. Renewed(l) /\ Renewed(l)'
  BY <1>1, <1>2 DEF Renewed, Renewing, At
<1>9. Same(l)
  BY <1>2, <1>3, <1>6, <1>7, <1>8, Unmoved
<1> QED
  BY <1>5, <1>9, NoneMoves

\* IssueSign and RefreshAccepted make the family of r replayable, if anything.
LEMMA MayContend ==
  ASSUME TypeOK, SessionInv, NEW r \in Requests, Others(r), ~At(r, "idle"),
         replayable \subseteq replayable',
         replayable' \subseteq replayable \union {req[r].login},
         UNCHANGED <<now, session, used, held, spent, resent>>,
         Renewing(r)' <=> Renewing(r),
         req'[r].login = req[r].login,
         ~At(r, "createSession.set"), ~At(r, "createSession.set")'
  PROVE  Rotation!Next
<1> PICK l : l = req[r].login
  OBVIOUS
<1>1. l \in Logins /\ l \in used
  BY ClaimantsUsed
<1>2. \A k \in Logins : SessionFound(k)' <=> SessionFound(k)
  BY DEF SessionFound, Alive
<1>3. ASSUME NEW k \in Logins, k # l \/ l \in replayable \/ l \notin replayable' PROVE Same(k)
  BY <1>2, <1>3, UnmovedBy
<1>4. CASE l \notin replayable /\ l \in replayable'
  <2>1. Over(l)' <=> Over(l)
    BY <1>1, <1>2 DEF Over, Unborn, At, Others
  <2>2. CASE l \in resent \/ Over(l)
    BY <1>1, <1>3, <2>1, <2>2, FinalStays, SomeClose
  <2>3. CASE l \notin resent /\ ~Over(l)
    <3>1. RightOf(l)' = "contended"
      BY <1>1, <1>4, <2>1, <2>3 DEF RightOf
    <3>2. Closes(l)
      BY <1>1, <1>4, <2>3, <3>1 DEF Closes, RightOf, Rotation!Closing, Rotation!Live
    <3> QED
      BY <1>3, <3>2, SomeClose
  <2> QED
    BY <2>2, <2>3
<1> QED
  BY <1>3, <1>4, SomeClose

\* The token reaches the client.
LEMMA ReplyHandsOut ==
  ASSUME TypeOK, SessionInv, RotationInv, ReplayInv, LifetimeInv, ClockInv,
         NEW r \in Requests, IssueReply(r)
  PROVE  Rotation!Next
<1> USE DEF stores, history
<1> PICK l, iat : l = req[r].login /\ iat = req[r].token
  OBVIOUS
<1>1. Others(r) /\ req'[r].at = "idle"
  BY IdleEffect DEF IssueReply
<1>2. /\ At(r, "issue.reply") /\ held' = [held EXCEPT ![l] = @ \union {iat}]
      /\ UNCHANGED <<now, session, used, spent, replayable, resent>>
  BY DEF IssueReply
<1>3. l \in Logins /\ l \in used /\ Renewing(r)
  BY <1>2, ClaimantsUsed DEF At, Renewing, Issuing
<1>4. \A k \in Logins : held'[k] = IF k = l THEN held[k] \union {iat} ELSE held[k]
  BY <1>2 DEF TypeOK
<1>5. \A k \in Logins : SessionFound(k)' <=> SessionFound(k)
  BY <1>2 DEF SessionFound, Alive
<1>6. ASSUME NEW k \in Logins \ {l} PROVE Same(k)
  BY <1>1, <1>2, <1>4, <1>5, UnmovedBy DEF At, Renewing, Issuing
<1>7. Over(l)' <=> Over(l)
  BY <1>1, <1>2, <1>3, <1>5 DEF Over, Unborn, At, Others
<1>8. CASE l \in resent \/ Over(l) \/ l \in replayable
  BY <1>2, <1>3, <1>6, <1>7, <1>8, FinalStays, SomeClose
<1>9. CASE l \notin resent /\ ~Over(l) /\ l \notin replayable
  <2>1. /\ \A q \in Requests : Renewing(q) /\ req[q].login = l => q = r
        /\ held[l] = spent[l]
    BY <1>3, <1>9, OneRenewing
  <2>2. iat \notin held[l]
    BY <1>2, <1>3, <1>9, <2>1 DEF ReplayInv, ExchangeInv, At
  <2>3. iat \in 0 .. MaxTime
    BY <1>2, <1>3, FlowAssumption
       DEF LifetimeInv, SignedInv, ClockInv, TypeOK, Request, Fields, At
  <2>4. RightOf(l) = "issuing"
    BY <1>3, <1>9 DEF RightOf
  <2>5. ~(\E q \in Requests : Renewing(q) /\ req[q].login = l)'
    BY <1>1, <2>1 DEF Renewing, Issuing, Others
  <2>6. RightOf(l)' = "held"
    BY <1>2, <1>3, <1>4, <1>7, <1>9, <2>1, <2>2, <2>5 DEF RightOf, Outstanding
  <2>7. Moves(l)
    BY <1>2, <1>3, <1>4, <2>2, <2>3, <2>4, <2>6 DEF Moves, HandedOf, ExchangedOf, KeepsPromise
  <2> QED
    BY <1>3, <1>6, <2>7, OneMoves
<1> QED
  BY <1>8, <1>9

\* The presented token is exchanged.
LEMMA RefreshExchanges ==
  ASSUME TypeOK, SessionInv, RotationInv, ReplayInv, LifetimeInv, ClockInv,
         NEW r \in Requests, RefreshFindsSession(r)
  PROVE  Rotation!Next
<1> USE DEF stores, history
<1> PICK l, iat : l = req[r].login /\ iat = req[r].token
  OBVIOUS
<1>1. Others(r) /\ req'[r].at = "issue.sign" /\ req'[r].login = l
  BY GotoEffect DEF RefreshFindsSession
<1>2. /\ At(r, "refresh.session") /\ SessionFound(l)
      /\ spent' = [spent EXCEPT ![l] = @ \union {iat}]
      /\ UNCHANGED <<now, session, used, held, replayable, resent>>
  BY DEF RefreshFindsSession
<1>3. l \in Logins /\ l \in used /\ iat \in held[l] /\ Claiming(r)
  BY <1>2, ClaimantsUsed DEF At, Claiming, RotationInv, PresentedInv
<1>4. \A k \in Logins : spent'[k] = IF k = l THEN spent[k] \union {iat} ELSE spent[k]
  BY <1>2 DEF TypeOK
<1>5. \A k \in Logins : SessionFound(k)' <=> SessionFound(k)
  BY <1>2 DEF SessionFound, Alive
<1>6. ASSUME NEW k \in Logins \ {l} PROVE Same(k)
  BY <1>1, <1>2, <1>4, <1>5, UnmovedBy DEF At
<1>7. ~Over(l) /\ ~Over(l)'
  BY <1>2, <1>3, <1>5 DEF Over
<1>8. CASE l \in resent \/ l \in replayable
  BY <1>2, <1>3, <1>6, <1>7, <1>8, FinalStays, SomeClose
<1>9. CASE l \notin resent /\ l \notin replayable
  <2>1. FamilyInv(l) /\ ExchangeInv(l) /\ spent[l] \subseteq held[l]
    BY <1>3, <1>9 DEF ReplayInv, ExchangedOnce, RotationInv
  <2>2. iat \notin spent[l]
    BY <1>2, <2>1 DEF ExchangeInv, At
  <2>3. held[l] \ spent[l] = {iat}
    BY <1>3, <2>1, <2>2 DEF FamilyInv, Outstanding
  <2>4. ~(\E q \in Requests : Renewing(q) /\ req[q].login = l)
    BY <2>1, <2>3 DEF FamilyInv, Outstanding
  <2>5. RightOf(l) = "held"
    BY <1>3, <1>7, <1>9, <2>3, <2>4 DEF RightOf, Outstanding
  <2>6. (\E q \in Requests : Renewing(q) /\ req[q].login = l)'
    BY <1>1 DEF Renewing, Issuing
  <2>7. RightOf(l)' = "issuing"
    BY <1>2, <1>3, <1>7, <1>9, <2>6 DEF RightOf
  <2>8. iat \in 0 .. MaxTime
    BY <1>3, FlowAssumption DEF LifetimeInv, HeldInv, ClockInv, TypeOK
  <2>9. Moves(l)
    BY <1>2, <1>3, <1>4, <2>3, <2>5, <2>7, <2>8 DEF Moves, HandedOf, ExchangedOf, KeepsPromise
  <2> QED
    BY <1>3, <1>6, <2>9, OneMoves
<1> QED
  BY <1>8, <1>9

\* RevokeDel, LogoutAllDeletesSessions and Tick end sessions.
LEMMA MayEnd ==
  ASSUME \A l \in Logins : SessionFound(l)' => SessionFound(l),
         \A l \in Logins : (Unborn(l)' <=> Unborn(l)) /\ (Renewed(l)' <=> Renewed(l)),
         UNCHANGED <<used, held, spent, replayable, resent>>
  PROVE  Rotation!Next
<1> SUFFICES ASSUME NEW l \in Logins PROVE Same(l) \/ Closes(l)
  BY SomeClose
<1>1. CASE Over(l)' <=> Over(l)
  BY <1>1, Unmoved
<1>2. CASE l \in resent
  BY <1>2, FinalStays
<1>3. CASE l \notin resent /\ ~(Over(l)' <=> Over(l))
  <2>1. ~Over(l) /\ Over(l)' /\ l \in used
    BY <1>3 DEF Over, Unborn
  <2>2. RightOf(l)' = "ended"
    BY <1>3, <2>1 DEF RightOf
  <2>3. Closes(l)
    BY <1>3, <2>1, <2>2 DEF Closes, RightOf, Rotation!Closing, Rotation!Live
  <2> QED
    BY <2>3
<1> QED
  BY <1>1, <1>2, <1>3

\* A failure strands a session whose next token it takes along, contends one
\* whose record it leaves to an exchanged token, and ends one never set.
LEMMA FailStrands ==
  ASSUME TypeOK, SessionInv, RotationInv, ReplayInv, NEW r \in Requests, Fail(r)
  PROVE  Rotation!Next
<1> USE DEF stores, history
<1> PICK l : l = req[r].login
  OBVIOUS
<1>1. Others(r) /\ req'[r].at = "idle"
  BY IdleEffect DEF Fail
<1>2. /\ ~At(r, "idle")
      /\ replayable' = IF Replacing(r) THEN replayable \union {l} ELSE replayable
      /\ UNCHANGED <<now, session, used, held, spent, resent>>
  BY DEF Fail
<1>3. l \in Logins /\ l \in used
  BY <1>2, ClaimantsUsed
<1>4. \A k \in Logins : SessionFound(k)' <=> SessionFound(k)
  BY <1>2 DEF SessionFound, Alive
<1>5. ASSUME NEW k \in Logins, k # l \/ ~Renewing(r) PROVE Same(k)
  BY <1>1, <1>2, <1>4, <1>5, UnmovedBy DEF At, Renewing, Replacing, Issuing
<1>6. CASE l \in resent
  BY <1>2, <1>3, <1>5, <1>6, FinalStays, SomeClose
<1>7. CASE l \notin resent /\ At(r, "createSession.set")
  <2>1. Unborn(l) /\ ~SessionFound(l) /\ ~Over(l)
    BY <1>3, <1>7, UnbornGone DEF Unborn, Over
  <2>2. \A q \in Requests : At(q, "createSession.set") /\ req[q].login = l => q = r
    BY <1>7 DEF SessionInv, OpeningInv, Opening, At
  <2>3. Over(l)'
    BY <1>1, <1>2, <1>3, <1>4, <2>1, <2>2 DEF Over, Unborn, At, Others
  <2>4. RightOf(l)' = "ended"
    BY <1>2, <1>3, <1>7, <2>3 DEF RightOf
  <2>5. Closes(l)
    BY <1>3, <1>7, <2>1, <2>4 DEF Closes, RightOf, Rotation!Closing, Rotation!Live
  <2> QED
    BY <1>5, <2>5, SomeClose
<1>8. CASE l \notin resent /\ ~At(r, "createSession.set") /\ Renewing(r)
  <2>1. Over(l)' <=> Over(l)
    BY <1>1, <1>2, <1>3, <1>4, <1>8 DEF Over, Unborn, At, Others
  <2>2. CASE Over(l) \/ l \in replayable
    <3>1. l \in replayable => l \in replayable'
      BY <1>2
    <3>2. Same(l)
      BY <1>2, <1>3, <1>8, <2>1, <2>2, <3>1, FinalStays
    <3> QED
      BY <1>5, <3>2, SomeClose
  <2>3. CASE ~Over(l) /\ l \notin replayable
    <3>1. RightOf(l) = "issuing"
      BY <1>3, <1>8, <2>3 DEF RightOf
    <3>2. CASE Replacing(r)
      <4>1. RightOf(l)' = "contended"
        BY <1>2, <1>3, <1>8, <2>1, <2>3, <3>2 DEF RightOf
      <4>2. Closes(l)
        BY <3>1, <4>1 DEF Closes, Rotation!Closing, Rotation!Live
      <4> QED
        BY <1>5, <4>2, SomeClose
    <3>3. CASE ~Replacing(r)
      <4>1. /\ \A q \in Requests : Renewing(q) /\ req[q].login = l => q = r
            /\ Outstanding(l) = {}
        BY <1>3, <1>8, <2>3, OneRenewing
      <4>2. ~(\E q \in Requests : Renewing(q) /\ req[q].login = l)' /\ Outstanding(l)' = {}
        BY <1>1, <1>2, <4>1 DEF Renewing, Issuing, Others, Outstanding
      <4>3. RightOf(l)' = "stranded"
        BY <1>2, <1>3, <1>8, <2>1, <2>3, <3>3, <4>2 DEF RightOf
      <4>4. Moves(l)
        BY <1>2, <3>1, <4>3 DEF Moves, HandedOf, ExchangedOf, KeepsPromise
      <4> QED
        BY <1>3, <1>5, <4>4, OneMoves
    <3> QED
      BY <3>2, <3>3
  <2> QED
    BY <2>2, <2>3
<1>9. CASE ~Renewing(r)
  BY <1>5, <1>9, SomeClose
<1> QED
  BY <1>6, <1>7, <1>8, <1>9 DEF At, Renewing

\* The SET of a session that is sent again excuses it; other commands that are
\* sent again are not seen.
LEMMA ResendExcuses ==
  ASSUME TypeOK, SessionInv, NEW r \in Requests, Resend(r)
  PROVE  Rotation!Next \/ UNCHANGED Rotation!vars
<1> USE DEF stores, history
<1>1. PICK step \in Unanswered(r) :
        /\ Goto(r, step)
        /\ resent' = IF step = "createSession.set" THEN resent \union {req[r].login} ELSE resent
        /\ UNCHANGED <<now, session, used, held, spent, replayable>>
  BY DEF Resend
<1> PICK l : l = req[r].login
  OBVIOUS
<1>2. Others(r) /\ req'[r].at = step /\ req'[r].login = l
  BY <1>1, GotoEffect
<1>3. /\ ~At(r, "idle") /\ ~At(r, "createSession.set")
      /\ Renewing(r) <=>
           step \in {"createSession.set", "createSession.sadd", "issue.set", "issue.sadd"}
      /\ step \in {"createSession.set", "createSession.sadd", "issue.set", "issue.sadd",
                   "revoke.srem", "revoke.del", "revokeFamily.del",
                   "all.delSessions", "all.delFamilies"}
  BY DEF Unanswered, Renewing, Issuing, At
<1>4. l \in Logins /\ l \in used
  BY <1>3, ClaimantsUsed
<1>5. Renewing(r)' <=> Renewing(r)
  BY <1>2, <1>3 DEF Renewing, Issuing
<1>6. CASE step # "createSession.set"
  BY <1>1, <1>2, <1>3, <1>5, <1>6, QuietStep DEF At
<1>7. CASE step = "createSession.set"
  <2>1. \A k \in Logins : SessionFound(k)' <=> SessionFound(k)
    BY <1>1 DEF SessionFound, Alive
  <2>2. ASSUME NEW k \in Logins \ {l} PROVE Same(k)
    BY <1>1, <1>2, <1>3, <1>5, <1>7, <2>1, UnmovedBy DEF At
  <2>3. CASE l \in resent
    BY <1>1, <1>4, <2>2, <2>3, FinalStays, SomeClose
  <2>4. CASE l \notin resent
    <3>1. RightOf(l)' = "excused"
      BY <1>1, <1>7 DEF RightOf
    <3>2. Closes(l)
      BY <1>4, <2>4, <3>1 DEF Closes, RightOf, Rotation!Closing, Rotation!Live
    <3> QED
      BY <2>2, <3>2, SomeClose
  <2> QED
    BY <2>3, <2>4
<1> QED
  BY <1>6, <1>7

\* Every step of the code is one of RotatingSession, or none.
LEMMA PromiseStep ==
  TypeOK /\ SessionInv /\ RotationInv /\ ReplayInv /\ LifetimeInv /\ ClockInv /\ [Next]_vars
    => [Rotation!Next]_(Rotation!vars)
<1> SUFFICES ASSUME TypeOK, SessionInv, RotationInv, ReplayInv, LifetimeInv, ClockInv,
                    [Next]_vars
             PROVE  Rotation!Next \/ UNCHANGED Rotation!vars
  OBVIOUS
<1> USE DEF stores, history
<1>1. ASSUME NEW r \in Requests, Others(r),
             UNCHANGED <<now, session, used, held, spent, replayable, resent>>,
             ~Renewing(r), ~Renewing(r)'
      PROVE  UNCHANGED Rotation!vars
  BY <1>1, QuietStep DEF Renewing, At
<1>2. ASSUME NEW r \in Requests, Arrive(r)
      PROVE  Rotation!Next \/ UNCHANGED Rotation!vars
  <2>1. ASSUME NEW l \in Logins, NEW iat \in held[l], RefreshGuard(r, l, iat)
        PROVE  UNCHANGED Rotation!vars
    <3>1. Others(r) /\ req'[r] = [Idle EXCEPT !.at = "refresh.verify", !.login = l, !.token = iat,
                                              !.late = l \in revoked]
      BY <2>1, BecomesEffect DEF RefreshGuard
    <3>2. req'[r].at = "refresh.verify"
      BY <3>1 DEF Idle
    <3> QED
      BY <1>1, <2>1, <3>1, <3>2 DEF RefreshGuard, Renewing, Issuing, At
  <2>2. ASSUME NEW l \in Logins, LogoutFindsSession(r, l) PROVE UNCHANGED Rotation!vars
    <3>1. Others(r) /\ req'[r] = [Idle EXCEPT !.at = "revoke.srem", !.login = l]
      BY <2>2, BecomesEffect DEF LogoutFindsSession
    <3>2. req'[r].at = "revoke.srem"
      BY <3>1 DEF Idle
    <3> QED
      BY <1>1, <2>2, <3>1, <3>2 DEF LogoutFindsSession, Renewing, Issuing, At
  <2>3. ASSUME NEW l \in Logins, LogoutAllListsSessions(r, l) PROVE UNCHANGED Rotation!vars
    <3>1. Others(r) /\ req'[r] = [Idle EXCEPT !.at = "all.families", !.login = l,
                                              !.sessions = userSessions[Owner[l]],
                                              !.before = Established(Owner[l])]
      BY <2>3, BecomesEffect DEF LogoutAllListsSessions
    <3>2. req'[r].at = "all.families"
      BY <3>1 DEF Idle
    <3> QED
      BY <1>1, <2>3, <3>1, <3>2 DEF LogoutAllListsSessions, Renewing, Issuing, At
  <2> QED
    BY <1>2, <2>1, <2>2, <2>3, LoginBegins DEF Arrive
<1>3. ASSUME NEW r \in Requests, CreateSessionSadd(r) \/ IssueSet(r) \/ IssueSadd(r)
      PROVE  UNCHANGED Rotation!vars
  <2>1. /\ Others(r) /\ req'[r].login = req[r].login
        /\ req'[r].at \in {"issue.sign", "issue.sadd", "issue.reply"}
    BY <1>3, GotoEffect DEF CreateSessionSadd, IssueSet, IssueSadd
  <2> QED
    BY <1>3, <2>1, QuietStep
    DEF CreateSessionSadd, IssueSet, IssueSadd, IndexSession, Renewing, Issuing, At
<1>4. ASSUME NEW r \in Requests, IssueSign(r) PROVE Rotation!Next
  <2>1. Others(r) /\ req'[r] = [req[r] EXCEPT !.at = "issue.set", !.token = now]
    BY <1>4, BecomesEffect DEF IssueSign
  <2>2. req'[r].at = "issue.set" /\ req'[r].login = req[r].login
    BY <2>1 DEF TypeOK, Request, Fields
  <2> QED
    BY <1>4, <2>1, <2>2, MayContend DEF IssueSign, Renewing, Issuing, At
<1>5. ASSUME NEW r \in Requests, RefreshAccepted(r) PROVE Rotation!Next
  <2>1. Others(r) /\ req'[r] = [req[r] EXCEPT !.at = "refresh.session", !.verdict = "valid"]
    BY <1>5, BecomesEffect DEF RefreshAccepted
  <2>2. req'[r].at = "refresh.session" /\ req'[r].login = req[r].login
    BY <2>1 DEF TypeOK, Request, Fields
  <2> QED
    BY <1>5, <2>1, <2>2, MayContend DEF RefreshAccepted, Renewing, Issuing, At
<1>6. ASSUME NEW r \in Requests, RefreshRejected(r) PROVE UNCHANGED Rotation!vars
  <2>1. Others(r) /\ req'[r] = [req[r] EXCEPT !.at = "revoke.srem",
                                              !.verdict = Verdict(req[r].login, req[r].token)]
    BY <1>6, BecomesEffect DEF RefreshRejected
  <2>2. req'[r].at = "revoke.srem"
    BY <2>1 DEF TypeOK, Request, Fields
  <2> QED
    BY <1>1, <1>6, <2>1, <2>2 DEF RefreshRejected, Renewing, Issuing, At
<1>7. ASSUME NEW r \in Requests,
             RefreshVerify(r) \/ RevokeSrem(r) \/ RevokeFamilyDel(r) \/ LogoutAllDeletesFamilies(r)
      PROVE  UNCHANGED Rotation!vars
  <2>1. /\ Others(r)
        /\ req'[r].at \in {"revoke.srem", "refresh.record", "revoke.del", "revokeFamily.srem",
                           "all.reply"}
    BY <1>7, GotoEffect DEF RefreshVerify, RevokeSrem, RevokeFamilyDel, LogoutAllDeletesFamilies
  <2> QED
    BY <1>1, <1>7, <2>1
    DEF RefreshVerify, RevokeSrem, RevokeFamilyDel, LogoutAllDeletesFamilies, UnindexSession,
        Renewing, Issuing, At
<1>8. ASSUME NEW r \in Requests,
             RefreshMissesSession(r) \/ RevokeFamilySrem(r) \/ LogoutAllReply(r)
      PROVE  UNCHANGED Rotation!vars
  <2>1. Others(r) /\ req'[r].at = "idle"
    BY <1>8, IdleEffect DEF RefreshMissesSession, RevokeFamilySrem, LogoutAllReply
  <2> QED
    BY <1>1, <1>8, <2>1
    DEF RefreshMissesSession, RevokeFamilySrem, LogoutAllReply, Renewing, Issuing, At
<1>9. ASSUME NEW r \in Requests, LogoutAllListsFamilies(r) PROVE UNCHANGED Rotation!vars
  <2>1. Others(r) /\ req'[r] = [req[r] EXCEPT !.at = "all.delSessions",
                                              !.families = tokenFamilies[Owner[req[r].login]]]
    BY <1>9, BecomesEffect DEF LogoutAllListsFamilies
  <2>2. req'[r].at = "all.delSessions"
    BY <2>1 DEF TypeOK, Request, Fields
  <2> QED
    BY <1>1, <1>9, <2>1, <2>2 DEF LogoutAllListsFamilies, Renewing, Issuing, At
<1>10. ASSUME NEW r \in Requests, RevokeDel(r) \/ LogoutAllDeletesSessions(r)
       PROVE  Rotation!Next
  <2>1. Others(r) /\ req'[r].at \in {"revokeFamily.del", "all.delFamilies"}
    BY <1>10, GotoEffect DEF RevokeDel, LogoutAllDeletesSessions
  <2>2. /\ req[r].at \in {"revoke.del", "all.delSessions"}
        /\ UNCHANGED <<now, used, held, spent, replayable, resent>>
    BY <1>10 DEF RevokeDel, LogoutAllDeletesSessions, At
  <2>3. \A l \in Logins : session'[l] \in {session[l], Gone}
    BY <1>10
    DEF RevokeDel, LogoutAllDeletesSessions, DeleteSession, DeleteSessions, TypeOK, SessionsTypeOK
  <2>4. \A l \in Logins : SessionFound(l)' => SessionFound(l)
    BY <2>2, <2>3 DEF SessionFound, Alive, Gone, TypeOK
  <2>5. \A l \in Logins : (Unborn(l)' <=> Unborn(l)) /\ (Renewed(l)' <=> Renewed(l))
    BY <2>1, <2>2 DEF Unborn, Renewed, Renewing, Issuing, At, Others
  <2> QED
    BY <2>2, <2>4, <2>5, MayEnd
<1>11. CASE Tick
  <2>1. \A l \in Logins : SessionFound(l)' => SessionFound(l)
    BY <1>11 DEF Tick, SessionFound, Alive, TypeOK, SessionsTypeOK
  <2>2. \A l \in Logins : (Unborn(l)' <=> Unborn(l)) /\ (Renewed(l)' <=> Renewed(l))
    BY <1>11 DEF Tick, Unborn, Renewed, Renewing, At
  <2> QED
    BY <1>11, <2>1, <2>2, MayEnd DEF Tick
<1>12. ASSUME NEW r \in Requests, ResendFamilySrem(r) PROVE UNCHANGED Rotation!vars
  BY <1>1, <1>12 DEF ResendFamilySrem, Others, Renewing, Issuing, At
<1>13. CASE UNCHANGED vars
  <2>1. \A l \in Logins : /\ Over(l)' <=> Over(l)
                          /\ Renewed(l)' <=> Renewed(l)
    BY <1>13 DEF vars, Over, Unborn, SessionFound, Alive, Renewed, Renewing, At
  <2> QED
    BY <1>13, <2>1, Unmoved, NoneMoves DEF vars
<1>14. ASSUME NEW r \in Requests, Progress(r)
       PROVE  Rotation!Next \/ UNCHANGED Rotation!vars
  BY <1>3, <1>4, <1>5, <1>6, <1>7, <1>8, <1>9, <1>10, <1>14, CreateUnseen, ReplyHandsOut,
     RefreshExchanges
  DEF Progress
<1> QED
  BY <1>2, <1>11, <1>12, <1>13, <1>14, FailStrands, ResendExcuses DEF Next

\* It begins as RotatingSession does, and the clock stops at its bound.
LEMMA PromiseInit == Init => Rotation!Init /\ ClockInv
BY FlowAssumption
   DEF Init, Rotation!Init, ClockInv, RightOf, HandedOf, ExchangedOf, KeepsPromise

\* Only Tick moves the clock.
LEMMA ClockStep == TypeOK /\ ClockInv /\ [Next]_vars => ClockInv'
<1> SUFFICES ASSUME TypeOK, ClockInv, [Next]_vars PROVE ClockInv'
  OBVIOUS
<1>1. CASE Tick
  BY <1>1, FlowAssumption DEF Tick, ClockInv, TypeOK
<1>2. CASE ~Tick
  <2>1. now' = now
    BY <1>2
    DEF Next, vars, Arrive, Progress, LoginCreatesSession, LogoutFindsSession,
        LogoutAllListsSessions, RefreshGuard, CreateSessionSet, CreateSessionSadd, IssueSign,
        IssueSet, IssueSadd, IssueReply, RefreshVerify, RefreshRejected, RefreshAccepted,
        RefreshFindsSession, RefreshMissesSession, RevokeSrem, RevokeDel, RevokeFamilyDel,
        RevokeFamilySrem, LogoutAllListsFamilies, LogoutAllDeletesSessions,
        LogoutAllDeletesFamilies, LogoutAllReply, Fail, Resend, ResendFamilySrem
  <2> QED
    BY <2>1 DEF ClockInv
<1> QED
  BY <1>1, <1>2

\* The Redis flow keeps the promise of rotation: for any number of requests,
\* whatever order they run in, wherever one fails or a command is sent again,
\* each session has one right to the next token at a time until its refreshes
\* race, and one that has ended stays ended.
THEOREM PromiseKept == Spec => ImplementsRotation
<1>1. Spec => [](TypeOK /\ SessionInv /\ RotationInv /\ ReplayInv /\ LifetimeInv)
  BY TypeCorrect, SessionsCorrect, RotationCorrect, ExchangeCorrect, LifetimeCorrect, PTL
<1>2. Spec => []ClockInv
  BY PromiseInit, ClockStep, TypeCorrect, PTL DEF Spec
<1> QED
  BY <1>1, <1>2, PromiseInit, PromiseStep, PTL DEF Spec, ImplementsRotation, Rotation!Spec
=============================================================================
