----------------------- MODULE RedisAuthSessionsProofs -----------------------
(***************************************************************************)
(* Proofs, for any users, logins, requests and TTLs, of the invariants of  *)
(* RedisAuthSessions: each is inductive, and is proved action by action.   *)
(***************************************************************************)
EXTENDS RedisAuthSessions, TLAPS

-----------------------------------------------------------------------------
(* Type correctness. *)

\* The idle record is a request's.
LEMMA IdleType == Idle \in Request
BY DEF Idle, Request, Fields, Step

\* A request that begins with nothing but its login and, for a refresh, the
\* token it presents.
LEMMA ArrivalType ==
  ASSUME NEW step \in Step, NEW l \in Logins, NEW iat \in Nat, NEW late \in BOOLEAN
  PROVE  [Idle EXCEPT !.at = step, !.login = l, !.token = iat, !.late = late]
           \in Request
BY IdleType DEF Request, Fields

\* Becomes keeps the requests' type.
LEMMA BecomesType ==
  ASSUME req \in [Requests -> Request],
         NEW r \in Requests, NEW local \in Request, Becomes(r, local)
  PROVE  req' \in [Requests -> Request]
BY DEF Becomes

\* Goto keeps it for a request in progress.
LEMMA GotoType ==
  ASSUME req \in [Requests -> Request],
         NEW r \in Requests, ~At(r, "idle"), NEW step \in Step, Goto(r, step)
  PROVE  req' \in [Requests -> Request]
<1>1. [req[r] EXCEPT !.at = step] \in Request
  BY DEF At, Request, Fields
<1> QED
  BY <1>1, BecomesType DEF Goto

\* The initial states have their types.
LEMMA InitType == Init => TypeOK
BY IdleType, SessionsAssumption
DEF Init, TypeOK, SessionsInit, TokensInit, SessionsTypeOK, TokensTypeOK,
    TokenRecord, NoRecord, Gone

\* Each step of a request, and the clock, keep them.
LEMMA TypeStep == TypeOK /\ [Next]_vars => TypeOK'
<1> SUFFICES ASSUME TypeOK, [Next]_vars PROVE TypeOK'
  OBVIOUS
<1>0. req \in [Requests -> Request]
  BY DEF TypeOK
<1> USE DEF stores, history
<1>1. ASSUME NEW r \in Requests, NEW l \in Logins, LoginCreatesSession(r, l) PROVE TypeOK'
  <2>1. req' \in [Requests -> Request]
    <3>1. "createSession.set" \in Step
      BY DEF Step
    <3>2. [Idle EXCEPT !.at = "createSession.set", !.login = l] \in Request
      BY <3>1, IdleType DEF Request, Fields
    <3> QED
      BY <1>0, <1>1, <3>2, BecomesType DEF LoginCreatesSession
  <2> QED
    BY <1>1, <2>1 DEF TypeOK, SessionsTypeOK, TokensTypeOK, LoginCreatesSession
<1>2. ASSUME NEW r \in Requests, NEW l \in Logins, LogoutFindsSession(r, l) PROVE TypeOK'
  <2>1. req' \in [Requests -> Request]
    <3>1. "revoke.srem" \in Step
      BY DEF Step
    <3>2. [Idle EXCEPT !.at = "revoke.srem", !.login = l] \in Request
      BY <3>1, IdleType DEF Request, Fields
    <3> QED
      BY <1>0, <1>2, <3>2, BecomesType DEF LogoutFindsSession
  <2> QED
    BY <1>2, <2>1 DEF TypeOK, SessionsTypeOK, TokensTypeOK, LogoutFindsSession
<1>3. ASSUME NEW r \in Requests, NEW l \in Logins, LogoutAllListsSessions(r, l) PROVE TypeOK'
  <2>1. req' \in [Requests -> Request]
    <3>1. "all.families" \in Step
      BY DEF Step
    <3>2. userSessions[Owner[l]] \in SUBSET Logins /\ Established(Owner[l]) \in SUBSET Logins
      BY SessionsAssumption DEF TypeOK, SessionsTypeOK, Established
    <3>3. [Idle EXCEPT !.at = "all.families", !.login = l,
                       !.sessions = userSessions[Owner[l]],
                       !.before = Established(Owner[l])] \in Request
      BY <3>1, <3>2, IdleType DEF Request, Fields
    <3> QED
      BY <1>0, <1>3, <3>3, BecomesType DEF LogoutAllListsSessions
  <2> QED
    BY <1>3, <2>1 DEF TypeOK, SessionsTypeOK, TokensTypeOK, LogoutAllListsSessions
<1>4. ASSUME NEW r \in Requests, NEW l \in Logins, NEW iat \in held[l],
             RefreshGuard(r, l, iat)
      PROVE  TypeOK'
  <2>1. req' \in [Requests -> Request]
    <3>1. "refresh.verify" \in Step /\ iat \in Nat /\ (l \in revoked) \in BOOLEAN
      BY DEF Step, TypeOK
    <3>2. [Idle EXCEPT !.at = "refresh.verify", !.login = l, !.token = iat,
                       !.late = l \in revoked] \in Request
      BY <3>1, ArrivalType
    <3> QED
      BY <1>0, <1>4, <3>2, BecomesType DEF RefreshGuard
  <2> QED
    BY <1>4, <2>1 DEF TypeOK, SessionsTypeOK, TokensTypeOK, RefreshGuard
<1>5. ASSUME NEW r \in Requests, CreateSessionSet(r) PROVE TypeOK'
  <2>1. req' \in [Requests -> Request]
    <3>1. "createSession.sadd" \in Step
      BY DEF Step
    <3> QED
      BY <1>0, <1>5, <3>1, GotoType DEF CreateSessionSet, At
  <2>2. ExpiresIn(SESSION_TTL) \in Nat
    BY SessionsAssumption DEF ExpiresIn, TypeOK
  <2> QED
    BY <1>5, <2>1, <2>2 DEF TypeOK, SessionsTypeOK, TokensTypeOK, CreateSessionSet, SetSession
<1>6. ASSUME NEW r \in Requests, CreateSessionSadd(r) PROVE TypeOK'
  <2>1. req' \in [Requests -> Request]
    <3>1. "issue.sign" \in Step
      BY DEF Step
    <3> QED
      BY <1>0, <1>6, <3>1, GotoType DEF CreateSessionSadd, At
  <2>2. req[r].login \in Logins /\ Owner[req[r].login] \in Users
    BY <1>0, <1>6, SessionsAssumption DEF CreateSessionSadd, At, Request, Fields
  <2> QED
    BY <1>6, <2>1, <2>2 DEF TypeOK, SessionsTypeOK, TokensTypeOK, CreateSessionSadd, IndexSession
<1>7. ASSUME NEW r \in Requests, IssueSign(r) PROVE TypeOK'
  <2>1. req' \in [Requests -> Request]
    <3>1. "issue.set" \in Step
      BY DEF Step
    <3>2. [req[r] EXCEPT !.at = "issue.set", !.token = now] \in Request
      BY <1>0, <1>7, <3>1 DEF IssueSign, At, TypeOK, Request, Fields
    <3> QED
      BY <1>0, <1>7, <3>2, BecomesType DEF IssueSign
  <2>2. req[r].login \in Logins
    BY <1>0, <1>7 DEF IssueSign, At, Request, Fields
  <2> QED
    BY <1>7, <2>1, <2>2 DEF TypeOK, SessionsTypeOK, TokensTypeOK, IssueSign
<1>8. ASSUME NEW r \in Requests, IssueSet(r) PROVE TypeOK'
  <2>1. req' \in [Requests -> Request]
    <3>1. "issue.sadd" \in Step
      BY DEF Step
    <3> QED
      BY <1>0, <1>8, <3>1, GotoType DEF IssueSet, At
  <2>2. [iat |-> req[r].token, deadline |-> ExpiresIn(REFRESH_TTL)] \in TokenRecord
    <3>1. req[r].token \in Nat /\ ExpiresIn(REFRESH_TTL) \in Nat
      BY <1>0, TokensAssumption DEF ExpiresIn, TypeOK, Request, Fields
    <3> QED
      BY <3>1 DEF TokenRecord
  <2> QED
    BY <1>8, <2>1, <2>2 DEF TypeOK, SessionsTypeOK, TokensTypeOK, IssueSet, SetRecord
<1>9. ASSUME NEW r \in Requests, IssueSadd(r) PROVE TypeOK'
  <2>1. req' \in [Requests -> Request]
    <3>1. "issue.reply" \in Step
      BY DEF Step
    <3> QED
      BY <1>0, <1>9, <3>1, GotoType DEF IssueSadd, At
  <2>2. req[r].login \in Logins /\ Owner[req[r].login] \in Users
    BY <1>0, <1>9, SessionsAssumption DEF IssueSadd, At, Request, Fields
  <2> QED
    BY <1>9, <2>1, <2>2 DEF TypeOK, SessionsTypeOK, TokensTypeOK, IssueSadd, IndexFamily
<1>10. ASSUME NEW r \in Requests, IssueReply(r) PROVE TypeOK'
  <2>1. req' \in [Requests -> Request]
    BY <1>0, <1>10, IdleType, BecomesType DEF IssueReply
  <2>2. req[r].token \in Nat
    BY <1>0 DEF Request, Fields
  <2> QED
    BY <1>10, <2>1, <2>2 DEF TypeOK, SessionsTypeOK, TokensTypeOK, IssueReply
<1>11. ASSUME NEW r \in Requests, RefreshVerify(r) PROVE TypeOK'
  <2>1. req' \in [Requests -> Request]
    <3>1. "revoke.srem" \in Step /\ "refresh.record" \in Step
      BY DEF Step
    <3> QED
      BY <1>0, <1>11, <3>1, GotoType DEF RefreshVerify, At
  <2> QED
    BY <1>11, <2>1 DEF TypeOK, SessionsTypeOK, TokensTypeOK, RefreshVerify
<1>12. ASSUME NEW r \in Requests, RefreshRejected(r) PROVE TypeOK'
  <2>1. req' \in [Requests -> Request]
    <3>1. "revoke.srem" \in Step
      BY DEF Step
    <3>2. [req[r] EXCEPT !.at = "revoke.srem", !.verdict = Verdict(req[r].login, req[r].token)] \in Request
      BY <1>0, <1>12, <3>1 DEF RefreshRejected, At, Verdict, Alive, Request, Fields
    <3> QED
      BY <1>0, <1>12, <3>2, BecomesType DEF RefreshRejected
  <2> QED
    BY <1>12, <2>1 DEF TypeOK, SessionsTypeOK, TokensTypeOK, RefreshRejected
<1>13. ASSUME NEW r \in Requests, RefreshAccepted(r) PROVE TypeOK'
  <2>1. req' \in [Requests -> Request]
    <3>1. "refresh.session" \in Step
      BY DEF Step
    <3>2. [req[r] EXCEPT !.at = "refresh.session", !.verdict = "valid"] \in Request
      BY <1>0, <1>13, <3>1 DEF RefreshAccepted, At, Request, Fields
    <3> QED
      BY <1>0, <1>13, <3>2, BecomesType DEF RefreshAccepted
  <2>2. req[r].login \in Logins
    BY <1>0, <1>13 DEF RefreshAccepted, At, Request, Fields
  <2> QED
    BY <1>13, <2>1, <2>2 DEF TypeOK, SessionsTypeOK, TokensTypeOK, RefreshAccepted
<1>14. ASSUME NEW r \in Requests, RefreshFindsSession(r) PROVE TypeOK'
  <2>1. req' \in [Requests -> Request]
    <3>1. "issue.sign" \in Step
      BY DEF Step
    <3> QED
      BY <1>0, <1>14, <3>1, GotoType DEF RefreshFindsSession, At
  <2>2. req[r].login \in Logins /\ req[r].token \in Nat
    BY <1>0, <1>14, SessionsAssumption DEF RefreshFindsSession, At, Request, Fields
  <2> QED
    BY <1>14, <2>1, <2>2 DEF TypeOK, SessionsTypeOK, TokensTypeOK, RefreshFindsSession
<1>15. ASSUME NEW r \in Requests, RefreshMissesSession(r) PROVE TypeOK'
  <2>1. req' \in [Requests -> Request]
    BY <1>0, <1>15, IdleType, BecomesType DEF RefreshMissesSession
  <2> QED
    BY <1>15, <2>1 DEF TypeOK, SessionsTypeOK, TokensTypeOK, RefreshMissesSession
<1>16. ASSUME NEW r \in Requests, RevokeSrem(r) PROVE TypeOK'
  <2>1. req' \in [Requests -> Request]
    <3>1. "revoke.del" \in Step
      BY DEF Step
    <3> QED
      BY <1>0, <1>16, <3>1, GotoType DEF RevokeSrem, At
  <2> QED
    BY <1>16, <2>1 DEF TypeOK, SessionsTypeOK, TokensTypeOK, RevokeSrem, UnindexSession
<1>17. ASSUME NEW r \in Requests, RevokeDel(r) PROVE TypeOK'
  <2>1. req' \in [Requests -> Request]
    <3>1. "revokeFamily.del" \in Step
      BY DEF Step
    <3> QED
      BY <1>0, <1>17, <3>1, GotoType DEF RevokeDel, At
  <2>2. req[r].login \in Logins
    BY <1>0, <1>17, SessionsAssumption DEF RevokeDel, At, Request, Fields
  <2> QED
    BY <1>17, <2>1, <2>2 DEF TypeOK, SessionsTypeOK, TokensTypeOK, RevokeDel, DeleteSession, Gone
<1>18. ASSUME NEW r \in Requests, RevokeFamilyDel(r) PROVE TypeOK'
  <2>1. req' \in [Requests -> Request]
    <3>1. "revokeFamily.srem" \in Step
      BY DEF Step
    <3> QED
      BY <1>0, <1>18, <3>1, GotoType DEF RevokeFamilyDel, At
  <2>2. req[r].login \in Logins
    BY <1>0, <1>18, SessionsAssumption DEF RevokeFamilyDel, At, Request, Fields
  <2> QED
    BY <1>18, <2>1, <2>2 DEF TypeOK, SessionsTypeOK, TokensTypeOK, RevokeFamilyDel, DeleteRecord, NoRecord, TokenRecord, Gone
<1>19. ASSUME NEW r \in Requests, RevokeFamilySrem(r) PROVE TypeOK'
  <2>1. req' \in [Requests -> Request]
    BY <1>0, <1>19, IdleType, BecomesType DEF RevokeFamilySrem
  <2> QED
    BY <1>19, <2>1 DEF TypeOK, SessionsTypeOK, TokensTypeOK, RevokeFamilySrem, UnindexFamily
<1>20. ASSUME NEW r \in Requests, LogoutAllListsFamilies(r) PROVE TypeOK'
  <2>1. req' \in [Requests -> Request]
    <3>1. "all.delSessions" \in Step
      BY DEF Step
    <3>2. req[r].login \in Logins
      BY <1>0, <1>20 DEF LogoutAllListsFamilies, At, Request, Fields
    <3>3. tokenFamilies[Owner[req[r].login]] \in SUBSET Logins
      BY <3>2, SessionsAssumption DEF TypeOK, TokensTypeOK
    <3>4. [req[r] EXCEPT !.at = "all.delSessions",
                         !.families = tokenFamilies[Owner[req[r].login]]] \in Request
      BY <1>0, <3>1, <3>2, <3>3 DEF Request, Fields
    <3> QED
      BY <1>0, <1>20, <3>4, BecomesType DEF LogoutAllListsFamilies
  <2> QED
    BY <1>20, <2>1 DEF TypeOK, SessionsTypeOK, TokensTypeOK, LogoutAllListsFamilies
<1>21. ASSUME NEW r \in Requests, LogoutAllDeletesSessions(r) PROVE TypeOK'
  <2>1. req' \in [Requests -> Request]
    <3>1. "all.delFamilies" \in Step
      BY DEF Step
    <3> QED
      BY <1>0, <1>21, <3>1, GotoType DEF LogoutAllDeletesSessions, At
  <2>2. req[r].sessions \in SUBSET Logins
    BY <1>0 DEF Request, Fields
  <2> QED
    BY <1>21, <2>1, <2>2 DEF TypeOK, SessionsTypeOK, TokensTypeOK, LogoutAllDeletesSessions, DeleteSessions, Gone
<1>22. ASSUME NEW r \in Requests, LogoutAllDeletesFamilies(r) PROVE TypeOK'
  <2>1. req' \in [Requests -> Request]
    <3>1. "all.reply" \in Step
      BY DEF Step
    <3> QED
      BY <1>0, <1>22, <3>1, GotoType DEF LogoutAllDeletesFamilies, At
  <2>2. req[r].families \in SUBSET Logins
    BY <1>0 DEF Request, Fields
  <2> QED
    BY <1>22, <2>1, <2>2 DEF TypeOK, SessionsTypeOK, TokensTypeOK, LogoutAllDeletesFamilies, DeleteRecords, NoRecord, TokenRecord, Gone
<1>23. ASSUME NEW r \in Requests, LogoutAllReply(r) PROVE TypeOK'
  <2>1. req' \in [Requests -> Request]
    BY <1>0, <1>23, IdleType, BecomesType DEF LogoutAllReply
  <2> QED
    BY <1>23, <2>1 DEF TypeOK, SessionsTypeOK, TokensTypeOK, LogoutAllReply
<1>24. ASSUME NEW r \in Requests, Fail(r) PROVE TypeOK'
  <2>1. req' \in [Requests -> Request]
    BY <1>0, <1>24, IdleType, BecomesType DEF Fail
  <2>2. req[r].login \in Logins
    BY <1>0, <1>24, SessionsAssumption DEF Fail, At, Request, Fields
  <2> QED
    BY <1>24, <2>1, <2>2 DEF TypeOK, SessionsTypeOK, TokensTypeOK, Fail
<1>25. ASSUME NEW r \in Requests, Resend(r) PROVE TypeOK'
  <2>1. PICK step \in Unanswered(r) :
          /\ Goto(r, step)
          /\ resent' \in {resent, resent \union {req[r].login}}
    BY <1>25 DEF Resend
  <2>2. step \in Step /\ ~At(r, "idle")
    BY <2>1 DEF Unanswered, Step, At
  <2>3. req' \in [Requests -> Request] /\ req[r].login \in Logins
    BY <1>0, <2>1, <2>2, GotoType DEF At, Request, Fields
  <2> QED
    BY <1>25, <2>1, <2>3 DEF TypeOK, SessionsTypeOK, TokensTypeOK, Resend
<1>26. ASSUME NEW r \in Requests, ResendFamilySrem(r) PROVE TypeOK'
  BY <1>26 DEF TypeOK, SessionsTypeOK, TokensTypeOK, ResendFamilySrem, UnindexFamily
<1>27. CASE Tick
  BY <1>27 DEF TypeOK, SessionsTypeOK, TokensTypeOK, Tick
<1>28. CASE UNCHANGED vars
  BY <1>28 DEF TypeOK, SessionsTypeOK, TokensTypeOK, vars
<1> QED
  BY <1>1, <1>2, <1>3, <1>4, <1>5, <1>6, <1>7, <1>8, <1>9, <1>10, <1>11, <1>12, <1>13, <1>14, <1>15, <1>16, <1>17, <1>18, <1>19, <1>20, <1>21, <1>22, <1>23, <1>24, <1>25, <1>26, <1>27, <1>28
  DEF Next, Arrive, Progress

\* Every reachable state of the session flow has its types.
THEOREM TypeCorrect == Spec => []TypeOK
<1> QED
  BY InitType, TypeStep, PTL DEF Spec

-----------------------------------------------------------------------------
(* Revocation. *)

\* The requests other than r stay as they are.
Others(r) == \A q \in Requests \ {r} : req'[q] = req[q]

\* What Becomes, Goto and a return to Idle do to the requests.
LEMMA BecomesEffect ==
  ASSUME TypeOK, NEW r \in Requests, NEW local, Becomes(r, local)
  PROVE  req'[r] = local /\ Others(r)
BY DEF TypeOK, Becomes, Others

\* Goto changes the request's step only.
LEMMA GotoEffect ==
  ASSUME TypeOK, NEW r \in Requests, NEW step, Goto(r, step)
  PROVE  /\ Others(r)
         /\ req'[r].at = step
         /\ req'[r].login = req[r].login
         /\ req'[r].token = req[r].token
         /\ req'[r].verdict = req[r].verdict
         /\ req'[r].sessions = req[r].sessions
         /\ req'[r].families = req[r].families
         /\ req'[r].late = req[r].late
         /\ req'[r].before = req[r].before
<1>1. req[r] \in Fields
  BY DEF TypeOK, Request
<1> QED
  BY <1>1, BecomesEffect DEF Goto, Fields

\* A request that ends is Idle again.
LEMMA IdleEffect ==
  ASSUME TypeOK, NEW r \in Requests, Becomes(r, Idle)
  PROVE  /\ Others(r)
         /\ req'[r].at = "idle"
         /\ req'[r].sessions = {}
         /\ req'[r].late = FALSE
         /\ req'[r].before = {}
         /\ req'[r].verdict = "none"
BY BecomesEffect DEF Idle

\* A step of a request in progress keeps SessionInv, whatever it writes about
\* its own login, if it only deletes what belongs to others.
LEMMA SessionContinues ==
  ASSUME TypeOK, SessionInv,
         NEW r \in Requests, Others(r),
         ~At(r, "idle"),
         req'[r].at = "createSession.set" => req'[r].login \in resent',
         req'[r].at # "idle" => req'[r].login = req[r].login,
         Opening(r)' => Opening(r) /\ held'[req[r].login] = held[req[r].login],
         req'[r].at = "refresh.session" => req'[r].verdict = "valid",
         req'[r].sessions \subseteq req[r].sessions,
         req'[r].late => req[r].late /\ req'[r].login = req[r].login,
         req'[r].late /\ req'[r].at \in Issuing =>
           req[r].at \in Issuing \/ req[r].login \in resent,
         used' = used,
         resent \subseteq resent',
         revoked \subseteq revoked',
         \A l \in revoked' \ resent' : session'[l] = Gone,
         \A l \in Logins \ {req[r].login} :
           /\ session'[l] \in {session[l], Gone}
           /\ held'[l] = held[l]
           /\ l \in revoked' => l \in revoked \/ ~Unborn(l) \/ l \in resent
           /\ \A u \in Users : l \in userSessions'[u] => l \in userSessions[u]
  PROVE  SessionInv'
<1> USE DEF Others
<1>1. BegunInv'
  BY DEF SessionInv, BegunInv, At
<1>2. OpeningInv'
  <2> SUFFICES ASSUME NEW p \in Requests, Opening(p)'
               PROVE  /\ held'[req'[p].login] = {}
                      /\ \A q \in Requests : q # p /\ req'[q].at # "idle" =>
                           req'[q].login # req'[p].login
    BY DEF OpeningInv, At
  <2>1. Opening(p)
    BY DEF Opening
  <2>2. req'[p].login = req[p].login /\ ~At(p, "idle") /\ req[p].login \in Logins
    BY <2>1 DEF Opening, At, Issuing, TypeOK, Request, Fields
  <2>3. /\ held[req[p].login] = {}
        /\ \A q \in Requests : q # p /\ ~At(q, "idle") => req[q].login # req[p].login
    BY <2>1 DEF SessionInv, OpeningInv
  <2>4. held'[req[p].login] = {}
    BY <2>2, <2>3 DEF At
  <2> QED
    BY <2>2, <2>3, <2>4 DEF At
<1>3. AcceptedInv'
  BY DEF SessionInv, AcceptedInv, At
<1>4. UnbornInv'
  <2> SUFFICES ASSUME NEW l \in Logins, l \notin resent', Unborn(l)' PROVE Untouched(l)'
    BY DEF UnbornInv
  <2>1. l # req[r].login /\ Unborn(l) /\ l \notin resent
    <3>1. CASE l \notin used
      BY <3>1 DEF Unborn, SessionInv, BegunInv
    <3>2. CASE l \in used
      <4>1. PICK q \in Requests : req'[q].at = "createSession.set" /\ req'[q].login = l
        BY <3>2 DEF Unborn, At
      <4>2. q # r /\ Opening(q) /\ req[q].at = "createSession.set" /\ req[q].login = l
        BY <4>1 DEF Opening
      <4> QED
        BY <4>2 DEF Unborn, At, SessionInv, OpeningInv
    <3> QED
      BY <3>1, <3>2
  <2>2. Untouched(l)
    BY <2>1 DEF SessionInv, UnbornInv
  <2> QED
    BY <2>1, <2>2 DEF Untouched
<1>5. RevokedInv'
  BY DEF RevokedInv
<1>6. LateInv'
  <2> SUFFICES ASSUME NEW q \in Requests, req'[q].late
               PROVE  req'[q].login \in revoked' /\ ~Opening(q)'
    BY DEF LateInv
  <2>1. req[q].late /\ req'[q].login = req[q].login
    OBVIOUS
  <2>2. req[q].login \in revoked /\ ~Opening(q)
    BY <2>1 DEF SessionInv, LateInv
  <2>3. ~Opening(q)'
    BY <2>2 DEF Opening
  <2> QED
    BY <2>1, <2>2, <2>3
<1>7. RevocationSticks'
  BY DEF SessionInv, RevocationSticks
<1> QED
  BY <1>1, <1>2, <1>3, <1>4, <1>5, <1>6, <1>7 DEF SessionInv

\* So does an arrival that refers to a login a client has a token of, and to
\* logins whose session was set.
LEMMA SessionArrives ==
  ASSUME TypeOK, SessionInv,
         NEW r \in Requests, Others(r),
         At(r, "idle"),
         held[req'[r].login] # {}, req'[r].login \in Logins,
         req'[r].at \notin Issuing \union {"createSession.set", "createSession.sadd",
                                         "refresh.session"},
         req'[r].late => req'[r].login \in revoked,
         \A l \in req'[r].sessions : ~Unborn(l) \/ l \in resent,
         UNCHANGED <<used, session, userSessions, held, revoked, resent>>
  PROVE  SessionInv'
<1> USE DEF Others
<1>1. BegunInv'
  BY DEF SessionInv, BegunInv, At
<1>2. OpeningInv'
  <2> SUFFICES ASSUME NEW p \in Requests, Opening(p)'
               PROVE  /\ held'[req'[p].login] = {}
                      /\ \A q \in Requests : q # p /\ req'[q].at # "idle" =>
                           req'[q].login # req'[p].login
    BY DEF OpeningInv, At
  <2>1. p # r /\ Opening(p) /\ req'[p] = req[p]
    BY DEF Opening
  <2> QED
    BY <2>1 DEF SessionInv, OpeningInv, At
<1>3. AcceptedInv'
  BY DEF SessionInv, AcceptedInv, At
<1>4. UnbornInv'
  BY DEF SessionInv, UnbornInv, Unborn, Untouched, At
<1>5. RevokedInv'
  BY DEF SessionInv, RevokedInv
<1>6. LateInv'
  <2> SUFFICES ASSUME NEW q \in Requests, req'[q].late
               PROVE  req'[q].login \in revoked' /\ ~Opening(q)'
    BY DEF LateInv
  <2> QED
    BY DEF SessionInv, LateInv, Opening
<1>7. RevocationSticks'
  BY DEF SessionInv, RevocationSticks
<1> QED
  BY <1>1, <1>2, <1>3, <1>4, <1>5, <1>6, <1>7 DEF SessionInv

\* The initial states satisfy SessionInv.
LEMMA InitSession == Init => SessionInv
BY DEF Init, SessionsInit, SessionInv, BegunInv, OpeningInv, AcceptedInv, UnbornInv,
       RevokedInv, LateInv, RevocationSticks, Opening, Unborn, Untouched, Idle, At, Issuing

\* Every step keeps SessionInv: an arrival refers only to born logins, and a
\* request in progress writes about its own.
LEMMA SessionStep == TypeOK /\ SessionInv /\ [Next]_vars => SessionInv'
<1> SUFFICES ASSUME TypeOK, SessionInv, [Next]_vars PROVE SessionInv'
  OBVIOUS
<1> USE DEF stores, history
<1>1. ASSUME NEW r \in Requests, NEW l \in Logins, LoginCreatesSession(r, l)
      PROVE  SessionInv'
  <2>1. /\ Others(r) /\ req'[r].at = "createSession.set" /\ req'[r].login = l
        /\ req'[r].sessions = {} /\ ~req'[r].late
    <3>1. Others(r) /\ req'[r] = [Idle EXCEPT !.at = "createSession.set", !.login = l]
      BY <1>1, BecomesEffect DEF LoginCreatesSession
    <3> QED
      BY <3>1 DEF Idle
  <2>2. l \notin used /\ At(r, "idle") /\ used' = used \union {l}
        /\ UNCHANGED <<session, userSessions, held, revoked, resent>>
    BY <1>1 DEF LoginCreatesSession
  <2> USE DEF Others
  <2>3. BegunInv' /\ AcceptedInv'
    BY <2>1, <2>2 DEF SessionInv, BegunInv, AcceptedInv, At
  <2>4. OpeningInv'
    <3> SUFFICES ASSUME NEW p \in Requests, Opening(p)'
                 PROVE  /\ held'[req'[p].login] = {}
                        /\ \A q \in Requests : q # p /\ req'[q].at # "idle" =>
                             req'[q].login # req'[p].login
      BY DEF OpeningInv, At
    <3>1. held[l] = {} /\ \A q \in Requests : ~At(q, "idle") => req[q].login # l
      BY <2>2 DEF SessionInv, BegunInv
    <3>2. CASE p = r
      BY <2>1, <2>2, <3>1, <3>2 DEF At
    <3>3. CASE p # r
      <4>1. Opening(p) /\ req'[p] = req[p] /\ ~At(p, "idle")
        BY <2>1, <3>3 DEF Opening, At, Issuing
      <4> QED
        BY <2>1, <2>2, <3>1, <3>3, <4>1 DEF SessionInv, OpeningInv, At
    <3> QED
      BY <3>2, <3>3
  <2>5. UnbornInv'
    <3> SUFFICES ASSUME NEW m \in Logins \ resent', Unborn(m)' PROVE Untouched(m)'
      BY DEF UnbornInv
    <3>1. Unborn(m)
      BY <2>1, <2>2 DEF Unborn, At
    <3> QED
      BY <2>1, <2>2, <3>1 DEF SessionInv, UnbornInv, Untouched
  <2>6. RevokedInv' /\ RevocationSticks'
    BY <2>1, <2>2 DEF SessionInv, RevokedInv, RevocationSticks
  <2>7. LateInv'
    <3> SUFFICES ASSUME NEW q \in Requests, req'[q].late
                 PROVE  req'[q].login \in revoked' /\ ~Opening(q)'
      BY DEF LateInv
    <3> QED
      BY <2>1, <2>2 DEF SessionInv, LateInv, Opening
  <2> QED
    BY <2>3, <2>4, <2>5, <2>6, <2>7 DEF SessionInv
<1>2. ASSUME NEW r \in Requests, NEW l \in Logins, NEW iat \in held[l],
             RefreshGuard(r, l, iat)
      PROVE  SessionInv'
  <2>1. /\ Others(r) /\ req'[r].at = "refresh.verify" /\ req'[r].login = l
        /\ req'[r].sessions = {} /\ (req'[r].late <=> l \in revoked)
    <3>1. Others(r) /\ req'[r] = [Idle EXCEPT !.at = "refresh.verify", !.login = l, !.token = iat,
                                            !.late = l \in revoked]
      BY <1>2, BecomesEffect DEF RefreshGuard
    <3> QED
      BY <3>1 DEF Idle
  <2> QED
    BY <1>2, <2>1, SessionArrives DEF RefreshGuard, Issuing
<1>3. ASSUME NEW r \in Requests, NEW l \in Logins, LogoutFindsSession(r, l)
      PROVE  SessionInv'
  <2>1. /\ Others(r) /\ req'[r].at = "revoke.srem" /\ req'[r].login = l
        /\ req'[r].sessions = {} /\ (req'[r].late <=> FALSE)
    <3>1. Others(r) /\ req'[r] = [Idle EXCEPT !.at = "revoke.srem", !.login = l]
      BY <1>3, BecomesEffect DEF LogoutFindsSession
    <3> QED
      BY <3>1 DEF Idle
  <2> QED
    BY <1>3, <2>1, SessionArrives DEF LogoutFindsSession, Issuing
<1>4. ASSUME NEW r \in Requests, NEW l \in Logins, LogoutAllListsSessions(r, l)
      PROVE  SessionInv'
  <2>1. /\ Others(r) /\ req'[r].at = "all.families" /\ req'[r].login = l
        /\ req'[r].sessions = userSessions[Owner[l]] /\ (req'[r].late <=> FALSE)
    <3>1. Others(r) /\ req'[r] = [Idle EXCEPT !.at = "all.families", !.login = l,
                                            !.sessions = userSessions[Owner[l]],
                                            !.before = Established(Owner[l])]
      BY <1>4, BecomesEffect DEF LogoutAllListsSessions
    <3> QED
      BY <3>1 DEF Idle
  <2>2. \A m \in userSessions[Owner[l]] : ~Unborn(m) \/ m \in resent
    BY SessionsAssumption DEF TypeOK, SessionsTypeOK, SessionInv, UnbornInv, Untouched
  <2> QED
    BY <1>4, <2>1, <2>2, SessionArrives DEF LogoutAllListsSessions, Issuing
<1>5. ASSUME NEW r \in Requests, CreateSessionSet(r) PROVE SessionInv'
  <2>1. ~At(r, "idle")
    BY <1>5 DEF CreateSessionSet, At
  <2>2. /\ Others(r) /\ req'[r].at = "createSession.sadd" /\ req'[r].login = req[r].login
        /\ req'[r].sessions = req[r].sessions /\ req'[r].late = req[r].late
        /\ req'[r].verdict = req[r].verdict
    BY <1>5, GotoEffect DEF CreateSessionSet
  <2>3. \A l \in Logins \ {req[r].login} : session'[l] = session[l]
    BY <1>5 DEF CreateSessionSet, SetSession, TypeOK, SessionsTypeOK
  <2>4. req[r].login \in Logins /\ (req[r].login \notin revoked \/ req[r].login \in resent)
    BY <1>5, <2>1 DEF CreateSessionSet, At, SessionInv, UnbornInv, Unborn, Untouched,
                      TypeOK, Request, Fields
  <2>5. \A l \in revoked' \ resent' : session'[l] = Gone
    BY <1>5, <2>3, <2>4 DEF CreateSessionSet, SessionInv, RevokedInv, TypeOK
  <2> QED
    BY <1>5, <2>1, <2>2, <2>3, <2>5, SessionContinues
    DEF CreateSessionSet, At, Opening, Issuing, SetSession
<1>6. ASSUME NEW r \in Requests, CreateSessionSadd(r) PROVE SessionInv'
  <2>1. ~At(r, "idle")
    BY <1>6 DEF CreateSessionSadd, At
  <2>2. /\ Others(r) /\ req'[r].at = "issue.sign" /\ req'[r].login = req[r].login
        /\ req'[r].sessions = req[r].sessions /\ req'[r].late = req[r].late
        /\ req'[r].verdict = req[r].verdict
    BY <1>6, GotoEffect DEF CreateSessionSadd
  <2>3. ~req[r].late
    BY <1>6 DEF CreateSessionSadd, At, Opening, SessionInv, LateInv
  <2>4. \A l \in Logins \ {req[r].login}, u \in Users :
          l \in userSessions'[u] => l \in userSessions[u]
    BY <1>6, SessionsAssumption DEF CreateSessionSadd, IndexSession, TypeOK, SessionsTypeOK
  <2> QED
    BY <1>6, <2>1, <2>2, <2>3, <2>4, SessionContinues
    DEF CreateSessionSadd, At, Opening, Issuing, IndexSession, SessionInv, RevokedInv
<1>7. ASSUME NEW r \in Requests, IssueSign(r) PROVE SessionInv'
  <2>1. ~At(r, "idle")
    BY <1>7 DEF IssueSign, At
  <2>2. /\ Others(r) /\ req'[r].at = "issue.set" /\ req'[r].login = req[r].login
        /\ req'[r].sessions = req[r].sessions /\ req'[r].late = req[r].late
        /\ req'[r].verdict = req[r].verdict
    <3>1. req'[r] = [req[r] EXCEPT !.at = "issue.set", !.token = now] /\ Others(r)
      BY <1>7, BecomesEffect DEF IssueSign
    <3> QED
      BY <3>1 DEF TypeOK, Request, Fields
  <2> QED
    BY <1>7, <2>1, <2>2, SessionContinues
    DEF IssueSign, At, Opening, Issuing, SessionInv, RevokedInv
<1>8. ASSUME NEW r \in Requests, IssueSet(r) PROVE SessionInv'
  <2>1. ~At(r, "idle")
    BY <1>8 DEF IssueSet, At
  <2>2. /\ Others(r) /\ req'[r].at = "issue.sadd" /\ req'[r].login = req[r].login
        /\ req'[r].sessions = req[r].sessions /\ req'[r].late = req[r].late
        /\ req'[r].verdict = req[r].verdict
    BY <1>8, GotoEffect DEF IssueSet
  <2> QED
    BY <1>8, <2>1, <2>2, SessionContinues
    DEF IssueSet, At, Opening, Issuing, SessionInv, RevokedInv
<1>9. ASSUME NEW r \in Requests, IssueSadd(r) PROVE SessionInv'
  <2>1. ~At(r, "idle")
    BY <1>9 DEF IssueSadd, At
  <2>2. /\ Others(r) /\ req'[r].at = "issue.reply" /\ req'[r].login = req[r].login
        /\ req'[r].sessions = req[r].sessions /\ req'[r].late = req[r].late
        /\ req'[r].verdict = req[r].verdict
    BY <1>9, GotoEffect DEF IssueSadd
  <2> QED
    BY <1>9, <2>1, <2>2, SessionContinues
    DEF IssueSadd, At, Opening, Issuing, SessionInv, RevokedInv
<1>10. ASSUME NEW r \in Requests, IssueReply(r) PROVE SessionInv'
  <2>1. ~At(r, "idle")
    BY <1>10 DEF IssueReply, At
  <2>2. /\ Others(r) /\ req'[r].at = "idle"
        /\ req'[r].sessions = {} /\ ~req'[r].late
    BY <1>10, IdleEffect DEF IssueReply
  <2>3. \A l \in Logins \ {req[r].login} : held'[l] = held[l]
    BY <1>10 DEF IssueReply, TypeOK
  <2> QED
    BY <1>10, <2>1, <2>2, <2>3, SessionContinues
    DEF IssueReply, Opening, Issuing, SessionInv, RevokedInv
<1>11. ASSUME NEW r \in Requests, RefreshVerify(r) PROVE SessionInv'
  <2>1. ~At(r, "idle")
    BY <1>11 DEF RefreshVerify, At
  <2>2. /\ Others(r) /\ req'[r].at \in {"revoke.srem", "refresh.record"} /\ req'[r].login = req[r].login
        /\ req'[r].sessions = req[r].sessions /\ req'[r].late = req[r].late
        /\ req'[r].verdict = req[r].verdict
    BY <1>11, GotoEffect DEF RefreshVerify
  <2> QED
    BY <1>11, <2>1, <2>2, SessionContinues
    DEF RefreshVerify, At, Opening, Issuing, SessionInv, RevokedInv
<1>12. ASSUME NEW r \in Requests, RefreshRejected(r) PROVE SessionInv'
  <2>1. ~At(r, "idle")
    BY <1>12 DEF RefreshRejected, At
  <2>2. /\ Others(r) /\ req'[r].at = "revoke.srem" /\ req'[r].login = req[r].login
        /\ req'[r].sessions = req[r].sessions /\ req'[r].late = req[r].late
    <3>1. req'[r] = [req[r] EXCEPT !.at = "revoke.srem",
                                 !.verdict = Verdict(req[r].login, req[r].token)] /\ Others(r)
      BY <1>12, BecomesEffect DEF RefreshRejected
    <3> QED
      BY <3>1 DEF TypeOK, Request, Fields
  <2> QED
    BY <1>12, <2>1, <2>2, SessionContinues
    DEF RefreshRejected, At, Opening, Issuing, SessionInv, RevokedInv
<1>13. ASSUME NEW r \in Requests, RefreshAccepted(r) PROVE SessionInv'
  <2>1. ~At(r, "idle")
    BY <1>13 DEF RefreshAccepted, At
  <2>2. /\ Others(r) /\ req'[r].at = "refresh.session" /\ req'[r].login = req[r].login
        /\ req'[r].sessions = req[r].sessions /\ req'[r].late = req[r].late
        /\ req'[r].verdict = "valid"
    <3>1. req'[r] = [req[r] EXCEPT !.at = "refresh.session", !.verdict = "valid"] /\ Others(r)
      BY <1>13, BecomesEffect DEF RefreshAccepted
    <3> QED
      BY <3>1 DEF TypeOK, Request, Fields
  <2> QED
    BY <1>13, <2>1, <2>2, SessionContinues
    DEF RefreshAccepted, At, Opening, Issuing, SessionInv, RevokedInv
<1>14. ASSUME NEW r \in Requests, RefreshFindsSession(r) PROVE SessionInv'
  <2>1. ~At(r, "idle")
    BY <1>14 DEF RefreshFindsSession, At
  <2>2. /\ Others(r) /\ req'[r].at = "issue.sign" /\ req'[r].login = req[r].login
        /\ req'[r].sessions = req[r].sessions /\ req'[r].late = req[r].late
        /\ req'[r].verdict = req[r].verdict
    BY <1>14, GotoEffect DEF RefreshFindsSession
  <2>3. req[r].late => req[r].login \in resent
    BY <1>14 DEF RefreshFindsSession, SessionFound, Alive, Gone, TypeOK,
                  SessionInv, RevokedInv, LateInv
  <2>4. req[r].verdict = "valid"
    BY <1>14 DEF RefreshFindsSession, SessionInv, AcceptedInv
  <2> QED
    BY <1>14, <2>1, <2>2, <2>3, <2>4, SessionContinues
    DEF RefreshFindsSession, At, Opening, Issuing, SessionInv, RevokedInv
<1>15. ASSUME NEW r \in Requests, RefreshMissesSession(r) PROVE SessionInv'
  <2>1. ~At(r, "idle")
    BY <1>15 DEF RefreshMissesSession, At
  <2>2. /\ Others(r) /\ req'[r].at = "idle"
        /\ req'[r].sessions = {} /\ ~req'[r].late
    BY <1>15, IdleEffect DEF RefreshMissesSession
  <2> QED
    BY <1>15, <2>1, <2>2, SessionContinues
    DEF RefreshMissesSession, Opening, Issuing, SessionInv, RevokedInv
<1>16. ASSUME NEW r \in Requests, RevokeSrem(r) PROVE SessionInv'
  <2>1. ~At(r, "idle")
    BY <1>16 DEF RevokeSrem, At
  <2>2. /\ Others(r) /\ req'[r].at = "revoke.del" /\ req'[r].login = req[r].login
        /\ req'[r].sessions = req[r].sessions /\ req'[r].late = req[r].late
        /\ req'[r].verdict = req[r].verdict
    BY <1>16, GotoEffect DEF RevokeSrem
  <2>3. \A l \in Logins \ {req[r].login}, u \in Users :
          l \in userSessions'[u] => l \in userSessions[u]
    BY <1>16, SessionsAssumption DEF RevokeSrem, UnindexSession, TypeOK, SessionsTypeOK
  <2> QED
    BY <1>16, <2>1, <2>2, <2>3, SessionContinues
    DEF RevokeSrem, At, Opening, Issuing, UnindexSession, SessionInv, RevokedInv
<1>17. ASSUME NEW r \in Requests, RevokeDel(r) PROVE SessionInv'
  <2>1. ~At(r, "idle")
    BY <1>17 DEF RevokeDel, At
  <2>2. /\ Others(r) /\ req'[r].at = "revokeFamily.del" /\ req'[r].login = req[r].login
        /\ req'[r].sessions = req[r].sessions /\ req'[r].late = req[r].late
        /\ req'[r].verdict = req[r].verdict
    BY <1>17, GotoEffect DEF RevokeDel
  <2>3. req[r].login \in Logins
    BY <2>1 DEF At, TypeOK, Request, Fields
  <2>4. \A l \in Logins : session'[l] = IF l = req[r].login THEN Gone ELSE session[l]
    BY <1>17 DEF RevokeDel, DeleteSession, TypeOK, SessionsTypeOK
  <2>5. \A l \in revoked' \ resent' : session'[l] = Gone
    BY <1>17, <2>3, <2>4 DEF RevokeDel, SessionInv, RevokedInv, TypeOK
  <2> QED
    BY <1>17, <2>1, <2>2, <2>4, <2>5, SessionContinues
    DEF RevokeDel, At, Opening, Issuing, DeleteSession
<1>18. ASSUME NEW r \in Requests, RevokeFamilyDel(r) PROVE SessionInv'
  <2>1. ~At(r, "idle")
    BY <1>18 DEF RevokeFamilyDel, At
  <2>2. /\ Others(r) /\ req'[r].at = "revokeFamily.srem" /\ req'[r].login = req[r].login
        /\ req'[r].sessions = req[r].sessions /\ req'[r].late = req[r].late
        /\ req'[r].verdict = req[r].verdict
    BY <1>18, GotoEffect DEF RevokeFamilyDel
  <2> QED
    BY <1>18, <2>1, <2>2, SessionContinues
    DEF RevokeFamilyDel, At, Opening, Issuing, SessionInv, RevokedInv
<1>19. ASSUME NEW r \in Requests, RevokeFamilySrem(r) PROVE SessionInv'
  <2>1. ~At(r, "idle")
    BY <1>19 DEF RevokeFamilySrem, At
  <2>2. /\ Others(r) /\ req'[r].at = "idle"
        /\ req'[r].sessions = {} /\ ~req'[r].late
    BY <1>19, IdleEffect DEF RevokeFamilySrem
  <2> QED
    BY <1>19, <2>1, <2>2, SessionContinues
    DEF RevokeFamilySrem, Opening, Issuing, SessionInv, RevokedInv
<1>20. ASSUME NEW r \in Requests, LogoutAllListsFamilies(r) PROVE SessionInv'
  <2>1. ~At(r, "idle")
    BY <1>20 DEF LogoutAllListsFamilies, At
  <2>2. /\ Others(r) /\ req'[r].at = "all.delSessions" /\ req'[r].login = req[r].login
        /\ req'[r].sessions = req[r].sessions /\ req'[r].late = req[r].late
        /\ req'[r].verdict = req[r].verdict
    <3>1. req'[r] = [req[r] EXCEPT !.at = "all.delSessions",
                                 !.families = tokenFamilies[Owner[req[r].login]]] /\ Others(r)
      BY <1>20, BecomesEffect DEF LogoutAllListsFamilies
    <3> QED
      BY <3>1 DEF TypeOK, Request, Fields
  <2> QED
    BY <1>20, <2>1, <2>2, SessionContinues
    DEF LogoutAllListsFamilies, At, Opening, Issuing, SessionInv, RevokedInv
<1>21. ASSUME NEW r \in Requests, LogoutAllDeletesSessions(r) PROVE SessionInv'
  <2>1. ~At(r, "idle")
    BY <1>21 DEF LogoutAllDeletesSessions, At
  <2>2. /\ Others(r) /\ req'[r].at = "all.delFamilies" /\ req'[r].login = req[r].login
        /\ req'[r].sessions = req[r].sessions /\ req'[r].late = req[r].late
        /\ req'[r].verdict = req[r].verdict
    BY <1>21, GotoEffect DEF LogoutAllDeletesSessions
  <2>3. /\ req[r].sessions \in SUBSET Logins
        /\ \A l \in req[r].sessions : ~Unborn(l) \/ l \in resent
    BY DEF TypeOK, Request, Fields, SessionInv, UnbornInv, Untouched
  <2>4. \A l \in Logins :
          session'[l] = IF l \in req[r].sessions THEN Gone ELSE session[l]
    BY <1>21 DEF LogoutAllDeletesSessions, DeleteSessions
  <2>5. revoked' = revoked \union req[r].sessions
    BY <1>21 DEF LogoutAllDeletesSessions
  <2>6. \A l \in revoked' \ resent' : session'[l] = Gone
    BY <1>21, <2>3, <2>4, <2>5 DEF LogoutAllDeletesSessions, SessionInv, RevokedInv, TypeOK
  <2>7. \A l \in Logins, u \in Users : l \in userSessions'[u] => l \in userSessions[u]
    BY <1>21 DEF LogoutAllDeletesSessions, DeleteSessions, TypeOK, SessionsTypeOK
  <2> QED
    BY <1>21, <2>1, <2>2, <2>3, <2>4, <2>5, <2>6, <2>7, SessionContinues
    DEF LogoutAllDeletesSessions, At, Opening, Issuing
<1>22. ASSUME NEW r \in Requests, LogoutAllDeletesFamilies(r) PROVE SessionInv'
  <2>1. ~At(r, "idle")
    BY <1>22 DEF LogoutAllDeletesFamilies, At
  <2>2. /\ Others(r) /\ req'[r].at = "all.reply" /\ req'[r].login = req[r].login
        /\ req'[r].sessions = req[r].sessions /\ req'[r].late = req[r].late
        /\ req'[r].verdict = req[r].verdict
    BY <1>22, GotoEffect DEF LogoutAllDeletesFamilies
  <2> QED
    BY <1>22, <2>1, <2>2, SessionContinues
    DEF LogoutAllDeletesFamilies, At, Opening, Issuing, SessionInv, RevokedInv
<1>23. ASSUME NEW r \in Requests, LogoutAllReply(r) PROVE SessionInv'
  <2>1. ~At(r, "idle")
    BY <1>23 DEF LogoutAllReply, At
  <2>2. /\ Others(r) /\ req'[r].at = "idle"
        /\ req'[r].sessions = {} /\ ~req'[r].late
    BY <1>23, IdleEffect DEF LogoutAllReply
  <2> QED
    BY <1>23, <2>1, <2>2, SessionContinues
    DEF LogoutAllReply, Opening, Issuing, SessionInv, RevokedInv
<1>24. ASSUME NEW r \in Requests, Fail(r) PROVE SessionInv'
  <2>1. ~At(r, "idle")
    BY <1>24 DEF Fail, At
  <2>2. /\ Others(r) /\ req'[r].at = "idle"
        /\ req'[r].sessions = {} /\ ~req'[r].late
    BY <1>24, IdleEffect DEF Fail
  <2> QED
    BY <1>24, <2>1, <2>2, SessionContinues
    DEF Fail, Opening, Issuing, SessionInv, RevokedInv
<1>25. ASSUME NEW r \in Requests, Resend(r) PROVE SessionInv'
  <2>1. PICK step \in Unanswered(r) :
          /\ Goto(r, step)
          /\ resent' = IF step = "createSession.set"
                       THEN resent \union {req[r].login} ELSE resent
    BY <1>25 DEF Resend
  <2>2. /\ Others(r) /\ req'[r].at = step /\ req'[r].login = req[r].login
        /\ req'[r].sessions = req[r].sessions /\ req'[r].late = req[r].late
        /\ req'[r].verdict = req[r].verdict
    BY <2>1, GotoEffect
  <2>3. /\ ~At(r, "idle")
        /\ step \in {"issue.set", "issue.sadd"} => req[r].at \in {"issue.sadd", "issue.reply"}
        /\ step \in {"createSession.set", "createSession.sadd"} =>
             \/ req[r].at = "createSession.sadd"
             \/ req[r].at = "issue.sign" /\ req[r].verdict = "none"
        /\ step \in {"createSession.set", "createSession.sadd", "issue.set", "issue.sadd",
                     "revoke.srem", "revoke.del", "revokeFamily.del",
                     "all.delSessions", "all.delFamilies"}
    BY DEF Unanswered, At
  <2>4. /\ Opening(r)' => Opening(r)
        /\ step \in Issuing => req[r].at \in Issuing
        /\ step # "refresh.session"
    BY <2>2, <2>3 DEF Opening, Issuing
  <2>5. \A l \in revoked' \ resent' : session'[l] = Gone
    BY <1>25, <2>1 DEF Resend, SessionInv, RevokedInv
  <2> QED
    BY <1>25, <2>1, <2>2, <2>3, <2>4, <2>5, SessionContinues DEF Resend
<1>26. ASSUME NEW r \in Requests, ResendFamilySrem(r) PROVE SessionInv'
  BY <1>26 DEF ResendFamilySrem, SessionInv, BegunInv, OpeningInv, AcceptedInv, UnbornInv,
            RevokedInv, LateInv, RevocationSticks, Opening, Unborn, Untouched, At
<1>27. CASE Tick \/ UNCHANGED vars
  BY <1>27 DEF Tick, vars, SessionInv, BegunInv, OpeningInv, AcceptedInv, UnbornInv,
            RevokedInv, LateInv, RevocationSticks, Opening, Unborn, Untouched, At
<1> QED
  BY <1>1, <1>2, <1>3, <1>4, <1>5, <1>6, <1>7, <1>8, <1>9, <1>10, <1>11, <1>12, <1>13,
     <1>14, <1>15, <1>16, <1>17, <1>18, <1>19, <1>20, <1>21, <1>22, <1>23, <1>24, <1>25, <1>26, <1>27
  DEF Next, Arrive, Progress

\* For any number of requests, a session that was revoked stays revoked, and
\* no refresh that arrives after a revocation obtains a token.
THEOREM SessionsCorrect == Spec => []SessionInv
<1> QED
  BY InitType, TypeStep, TypeCorrect, InitSession, SessionStep, PTL DEF Spec

\* Revocation is final, whatever was in progress when it happened.
THEOREM RevocationCorrect == Spec => []RevocationSticks
<1>1. SessionInv => RevocationSticks
  BY DEF SessionInv
<1> QED
  BY <1>1, SessionsCorrect, PTL

-----------------------------------------------------------------------------
(* Rotation. *)

\* A client's tokens stay outstanding, or are spent.
LEMMA OutstandingKept ==
  ASSUME NEW l \in Logins, held'[l] = held[l], spent[l] \subseteq spent'[l]
  PROVE  Outstanding(l)' \subseteq Outstanding(l)
BY DEF Outstanding

\* FamilyInv survives what creates no new right to a token: whoever renews,
\* or has written a record that it has not handed out, did so before.
LEMMA FamilyKept ==
  ASSUME NEW l \in Logins, FamilyInv(l),
         \A q \in Requests : Renewing(q)' /\ req'[q].login = l =>
            /\ Renewing(q) /\ req[q].login = l
            /\ req'[q].at \in {"issue.sadd", "issue.reply"} =>
                 /\ req[q].at \in {"issue.sadd", "issue.reply"}
                 /\ req'[q].token = req[q].token,
         Outstanding(l)' \subseteq Outstanding(l),
         record'[l] = record[l] \/ record'[l].deadline = Gone
  PROVE  FamilyInv(l)'
<1>1. ASSUME NEW r \in Requests, Renewing(r)', req'[r].login = l
      PROVE  /\ Outstanding(l)' = {}
             /\ \A q \in Requests : Renewing(q)' /\ req'[q].login = l => q = r
             /\ req'[r].at \in {"issue.sadd", "issue.reply"} /\ record'[l].deadline # Gone
                  => record'[l].iat = req'[r].token
  BY <1>1 DEF FamilyInv
<1>2. /\ \A iat, iat2 \in Outstanding(l)' : iat = iat2
      /\ record'[l].deadline # Gone => Outstanding(l)' \subseteq {record'[l].iat}
  BY DEF FamilyInv
<1> QED
  BY <1>1, <1>2 DEF FamilyInv

\* So does all of RotationInv, under a step of r that neither begins to renew
\* nor presents a token, and that leaves what clients hold.
LEMMA RotationKept ==
  ASSUME TypeOK, RotationInv,
         NEW r \in Requests, Others(r),
         Renewing(r)' =>
            /\ Renewing(r) /\ req'[r].login = req[r].login
            /\ req'[r].at \in {"issue.sadd", "issue.reply"} =>
                 /\ req[r].at \in {"issue.sadd", "issue.reply"}
                 /\ req'[r].token = req[r].token,
         req'[r].at \in {"refresh.verify", "refresh.record", "refresh.session"} =>
           req'[r].token \in held[req'[r].login],
         req'[r].verdict \in {"mismatch", "missing"} =>
           req'[r].at \in {"revoke.srem", "revoke.del", "revokeFamily.del", "revokeFamily.srem"},
         req'[r].verdict = "mismatch" =>
           req'[r].token \in spent[req'[r].login] \/ req'[r].login \in twice,
         UNCHANGED <<held, spent, twice>>,
         \A l \in Logins : record'[l] = record[l] \/ record'[l].deadline = Gone
  PROVE  RotationInv'
<1> USE DEF Others
<1>1. PresentedInv' /\ RefusedInv' /\ ReuseReportJustified'
  BY DEF RotationInv, PresentedInv, RefusedInv, ReuseReportJustified
<1>2. ASSUME NEW l \in Logins \ twice' PROVE FamilyInv(l)'
  <2>1. FamilyInv(l)
    BY DEF RotationInv
  <2>2. Outstanding(l)' \subseteq Outstanding(l)
    BY OutstandingKept
  <2>3. \A q \in Requests : Renewing(q)' /\ req'[q].login = l =>
            /\ Renewing(q) /\ req[q].login = l
            /\ req'[q].at \in {"issue.sadd", "issue.reply"} =>
                 /\ req[q].at \in {"issue.sadd", "issue.reply"}
                 /\ req'[q].token = req[q].token
    BY DEF Renewing, Issuing
  <2> QED
    BY <2>1, <2>2, <2>3, FamilyKept
<1> QED
  BY <1>1, <1>2 DEF RotationInv

\* The initial states satisfy RotationInv.
LEMMA InitRotation == Init => RotationInv
BY DEF Init, RotationInv, PresentedInv, RefusedInv, ReuseReportJustified, FamilyInv,
       Outstanding, Renewing, Issuing, Idle

\* Every step keeps RotationInv.
LEMMA RotationStep == TypeOK /\ SessionInv /\ RotationInv /\ [Next]_vars => RotationInv'
<1> SUFFICES ASSUME TypeOK, SessionInv, RotationInv, [Next]_vars PROVE RotationInv'
  OBVIOUS
<1> USE DEF stores, history
<1>1. ASSUME NEW r \in Requests, NEW l \in Logins, LoginCreatesSession(r, l)
      PROVE  RotationInv'
  <2>1. /\ Others(r) /\ req'[r].at = "createSession.set" /\ req'[r].login = l
        /\ req'[r].verdict = "none"
    <3>1. Others(r) /\ req'[r] = [Idle EXCEPT !.at = "createSession.set", !.login = l]
      BY <1>1, BecomesEffect DEF LoginCreatesSession
    <3> QED
      BY <3>1 DEF Idle
  <2>2. UNCHANGED <<held, spent, twice, record>>
    BY <1>1 DEF LoginCreatesSession
  <2> USE DEF Others
  <2>3. PresentedInv' /\ RefusedInv' /\ ReuseReportJustified'
    BY <2>1, <2>2 DEF RotationInv, PresentedInv, RefusedInv, ReuseReportJustified
  <2>4. held[l] = {} /\ \A q \in Requests : ~At(q, "idle") => req[q].login # l
    BY <1>1 DEF LoginCreatesSession, SessionInv, BegunInv
  <2>5. ASSUME NEW m \in Logins \ twice' PROVE FamilyInv(m)'
    <3>1. FamilyInv(m)
      BY <2>2 DEF RotationInv
    <3>2. Outstanding(m)' \subseteq Outstanding(m)
      BY <2>2, OutstandingKept
    <3>3. CASE m = l
      <4>1. Outstanding(l)' = {}
        BY <2>2, <2>4 DEF Outstanding
      <4>2. \A q \in Requests : Renewing(q)' /\ req'[q].login = l => q = r
        BY <2>1, <2>4 DEF Renewing, Issuing, At
      <4> QED
        BY <2>1, <3>3, <4>1, <4>2 DEF FamilyInv
    <3>4. CASE m # l
      BY <2>1, <2>2, <3>1, <3>2, <3>4, FamilyKept DEF Renewing, Issuing
    <3> QED
      BY <3>3, <3>4
  <2> QED
    BY <2>3, <2>5 DEF RotationInv
<1>2. ASSUME NEW r \in Requests, NEW l \in Logins, NEW iat \in held[l],
             RefreshGuard(r, l, iat)
      PROVE  RotationInv'
  <2>1. /\ Others(r) /\ req'[r].at = "refresh.verify" /\ req'[r].login = l
        /\ req'[r].verdict = "none" /\ req'[r].token = iat
    <3>1. Others(r) /\ req'[r] = [Idle EXCEPT !.at = "refresh.verify", !.login = l, !.token = iat,
                                            !.late = l \in revoked]
      BY <1>2, BecomesEffect DEF RefreshGuard
    <3> QED
      BY <3>1 DEF Idle
  <2> QED
    BY <1>2, <2>1, RotationKept DEF RefreshGuard, Renewing, Issuing
<1>3. ASSUME NEW r \in Requests, NEW l \in Logins, LogoutFindsSession(r, l)
      PROVE  RotationInv'
  <2>1. /\ Others(r) /\ req'[r].at = "revoke.srem" /\ req'[r].login = l
        /\ req'[r].verdict = "none"
    <3>1. Others(r) /\ req'[r] = [Idle EXCEPT !.at = "revoke.srem", !.login = l]
      BY <1>3, BecomesEffect DEF LogoutFindsSession
    <3> QED
      BY <3>1 DEF Idle
  <2> QED
    BY <1>3, <2>1, RotationKept DEF LogoutFindsSession, Renewing, Issuing
<1>4. ASSUME NEW r \in Requests, NEW l \in Logins, LogoutAllListsSessions(r, l)
      PROVE  RotationInv'
  <2>1. /\ Others(r) /\ req'[r].at = "all.families" /\ req'[r].login = l
        /\ req'[r].verdict = "none"
    <3>1. Others(r) /\ req'[r] = [Idle EXCEPT !.at = "all.families", !.login = l,
                                            !.sessions = userSessions[Owner[l]],
                                            !.before = Established(Owner[l])]
      BY <1>4, BecomesEffect DEF LogoutAllListsSessions
    <3> QED
      BY <3>1 DEF Idle
  <2> QED
    BY <1>4, <2>1, RotationKept DEF LogoutAllListsSessions, Renewing, Issuing
<1>5. ASSUME NEW r \in Requests, CreateSessionSet(r) PROVE RotationInv'
  <2>1. /\ Others(r) /\ req'[r].at = "createSession.sadd" /\ req'[r].login = req[r].login
        /\ req'[r].token = req[r].token /\ req'[r].verdict = req[r].verdict
    BY <1>5, GotoEffect DEF CreateSessionSet
  <2> QED
    BY <1>5, <2>1, RotationKept
    DEF CreateSessionSet, At, Renewing, Issuing, RotationInv, PresentedInv, RefusedInv, ReuseReportJustified
<1>6. ASSUME NEW r \in Requests, CreateSessionSadd(r) PROVE RotationInv'
  <2>1. /\ Others(r) /\ req'[r].at = "issue.sign" /\ req'[r].login = req[r].login
        /\ req'[r].token = req[r].token /\ req'[r].verdict = req[r].verdict
    BY <1>6, GotoEffect DEF CreateSessionSadd
  <2> QED
    BY <1>6, <2>1, RotationKept
    DEF CreateSessionSadd, At, Renewing, Issuing, RotationInv, PresentedInv, RefusedInv, ReuseReportJustified
<1>7. ASSUME NEW r \in Requests, IssueSign(r) PROVE RotationInv'
  <2>1. /\ Others(r) /\ req'[r].at = "issue.set" /\ req'[r].login = req[r].login
        /\ req'[r].verdict = req[r].verdict
    <3>1. req'[r] = [req[r] EXCEPT !.at = "issue.set", !.token = now] /\ Others(r)
      BY <1>7, BecomesEffect DEF IssueSign
    <3> QED
      BY <3>1 DEF TypeOK, Request, Fields
  <2> QED
    BY <1>7, <2>1, RotationKept DEF IssueSign, At, Renewing, Issuing, RotationInv, RefusedInv
<1>8. ASSUME NEW r \in Requests, IssueSet(r) PROVE RotationInv'
  <2> DEFINE l == req[r].login
  <2>1. /\ Others(r) /\ req'[r].at = "issue.sadd" /\ req'[r].login = l
        /\ req'[r].token = req[r].token /\ req'[r].verdict = req[r].verdict
    BY <1>8, GotoEffect DEF IssueSet
  <2>2. At(r, "issue.set") /\ Renewing(r) /\ UNCHANGED <<held, spent, twice>>
    BY <1>8 DEF IssueSet, Renewing, Issuing, At
  <2>3. l \in Logins
    BY <2>2 DEF TypeOK, Request, Fields, At
  <2>4. /\ record'[l].iat = req[r].token
        /\ \A m \in Logins \ {l} : record'[m] = record[m]
    BY <1>8, <2>3 DEF IssueSet, SetRecord, TypeOK, TokensTypeOK
  <2>5. PresentedInv' /\ RefusedInv' /\ ReuseReportJustified'
    BY <2>1, <2>2 DEF RotationInv, PresentedInv, RefusedInv, ReuseReportJustified, Others, At
  <2>6. ASSUME NEW m \in Logins \ twice' PROVE FamilyInv(m)'
    <3>1. FamilyInv(m)
      BY <2>2 DEF RotationInv
    <3>2. CASE m = l
      <4>1. Outstanding(m) = {} /\ \A q \in Requests : Renewing(q) /\ req[q].login = m => q = r
        BY <2>2, <3>1, <3>2 DEF FamilyInv
      <4>2. Outstanding(m)' = {}
        BY <2>2, <4>1 DEF Outstanding
      <4>3. \A q \in Requests : Renewing(q)' /\ req'[q].login = m => q = r
        BY <2>1, <4>1 DEF Renewing, Issuing, Others
      <4>4. record'[m].iat = req'[r].token
        BY <2>1, <2>4, <3>2
      <4> QED
        BY <4>2, <4>3, <4>4 DEF FamilyInv
    <3>3. CASE m # l
      <4>1. Outstanding(m)' \subseteq Outstanding(m)
        BY <2>2, OutstandingKept
      <4> QED
        BY <2>1, <2>4, <3>1, <3>3, <4>1, FamilyKept DEF Renewing, Issuing, Others
    <3> QED
      BY <3>2, <3>3
  <2> QED
    BY <2>5, <2>6 DEF RotationInv
<1>9. ASSUME NEW r \in Requests, IssueSadd(r) PROVE RotationInv'
  <2>1. /\ Others(r) /\ req'[r].at = "issue.reply" /\ req'[r].login = req[r].login
        /\ req'[r].token = req[r].token /\ req'[r].verdict = req[r].verdict
    BY <1>9, GotoEffect DEF IssueSadd
  <2>2. \A l \in Logins : record'[l] = record[l] \/ record'[l].deadline = Gone
    BY <1>9 DEF IssueSadd, IndexFamily, NoRecord, TypeOK, TokensTypeOK
  <2> QED
    BY <1>9, <2>1, <2>2, RotationKept
    DEF IssueSadd, At, Renewing, Issuing, RotationInv, PresentedInv, RefusedInv, ReuseReportJustified
<1>10. ASSUME NEW r \in Requests, IssueReply(r) PROVE RotationInv'
  <2>1. Others(r) /\ req'[r].at = "idle" /\ req'[r].verdict = "none"
    BY <1>10, IdleEffect DEF IssueReply
  <2>2. At(r, "issue.reply") /\ UNCHANGED <<spent, twice, record>>
    BY <1>10 DEF IssueReply
  <2>3. \A m \in Logins :
          held'[m] = IF m = req[r].login THEN held[m] \union {req[r].token} ELSE held[m]
    BY <1>10 DEF IssueReply, TypeOK
  <2>4. \A q \in Requests : ~At(q, "idle") => req[q].login \in Logins
    BY DEF TypeOK, Request, Fields, At
  <2>5. PresentedInv'
    BY <2>1, <2>3, <2>4 DEF RotationInv, PresentedInv, Others, At
  <2>6. RefusedInv' /\ ReuseReportJustified'
    BY <2>1, <2>2 DEF RotationInv, RefusedInv, ReuseReportJustified, Others
  <2>7. ASSUME NEW m \in Logins \ twice' PROVE FamilyInv(m)'
    <3>1. FamilyInv(m)
      BY <2>2 DEF RotationInv
    <3>2. CASE m = req[r].login
      <4>1. /\ Outstanding(m) = {}
            /\ \A q \in Requests : Renewing(q) /\ req[q].login = m => q = r
            /\ record[m].deadline # Gone => record[m].iat = req[r].token
        BY <2>2, <3>1, <3>2 DEF FamilyInv, Renewing, Issuing, At
      <4>2. Outstanding(m)' \subseteq {req[r].token}
        BY <2>2, <2>3, <3>2, <4>1 DEF Outstanding
      <4>3. \A q \in Requests : ~(Renewing(q)' /\ req'[q].login = m)
        BY <2>1, <4>1 DEF Renewing, Issuing, Others
      <4> QED
        BY <2>2, <4>1, <4>2, <4>3 DEF FamilyInv
    <3>3. CASE m # req[r].login
      <4>1. Outstanding(m)' \subseteq Outstanding(m)
        BY <2>2, <2>3, <3>3, OutstandingKept
      <4> QED
        BY <2>1, <2>2, <3>1, <4>1, FamilyKept DEF Renewing, Issuing, Others
    <3> QED
      BY <3>2, <3>3
  <2> QED
    BY <2>5, <2>6, <2>7 DEF RotationInv
<1>11. ASSUME NEW r \in Requests, RefreshVerify(r) PROVE RotationInv'
  <2>1. /\ Others(r) /\ req'[r].at \in {"revoke.srem", "refresh.record"}
        /\ req'[r].login = req[r].login
        /\ req'[r].token = req[r].token /\ req'[r].verdict = req[r].verdict
    BY <1>11, GotoEffect DEF RefreshVerify
  <2> QED
    BY <1>11, <2>1, RotationKept
    DEF RefreshVerify, At, Renewing, Issuing, RotationInv, PresentedInv, RefusedInv
<1>12. ASSUME NEW r \in Requests, RefreshRejected(r) PROVE RotationInv'
  <2> DEFINE l == req[r].login
             iat == req[r].token
  <2>1. /\ Others(r) /\ req'[r].at = "revoke.srem" /\ req'[r].login = l
        /\ req'[r].token = iat /\ req'[r].verdict = Verdict(l, iat)
    <3>1. /\ Others(r)
          /\ req'[r] = [req[r] EXCEPT !.at = "revoke.srem", !.verdict = Verdict(l, iat)]
      BY <1>12, BecomesEffect DEF RefreshRejected
    <3> QED
      BY <3>1 DEF TypeOK, Request, Fields
  <2>2. At(r, "refresh.record") /\ UNCHANGED <<held, spent, twice, record>>
    BY <1>12 DEF RefreshRejected
  <2>3. l \in Logins /\ iat \in held[l]
    BY <2>2 DEF TypeOK, Request, Fields, At, RotationInv, PresentedInv
  <2>4. ASSUME Verdict(l, iat) = "mismatch" PROVE iat \in spent[l] \/ l \in twice
    <3> SUFFICES ASSUME iat \notin spent[l], l \notin twice PROVE FALSE
      OBVIOUS
    <3>1. FamilyInv(l) /\ iat \in Outstanding(l)
      BY <2>3 DEF RotationInv, Outstanding
    <3>2. record[l].deadline # Gone /\ record[l].iat # iat
      BY <2>4 DEF Verdict, Alive, Gone, TypeOK
    <3> QED
      BY <3>1, <3>2 DEF FamilyInv
  <2> QED
    BY <2>1, <2>2, <2>4, RotationKept DEF Renewing, Issuing
<1>13. ASSUME NEW r \in Requests, RefreshAccepted(r) PROVE RotationInv'
  <2>1. /\ Others(r) /\ req'[r].at = "refresh.session" /\ req'[r].login = req[r].login
        /\ req'[r].token = req[r].token /\ req'[r].verdict = "valid"
    <3>1. /\ Others(r)
          /\ req'[r] = [req[r] EXCEPT !.at = "refresh.session", !.verdict = "valid"]
      BY <1>13, BecomesEffect DEF RefreshAccepted
    <3> QED
      BY <3>1 DEF TypeOK, Request, Fields
  <2> QED
    BY <1>13, <2>1, RotationKept DEF RefreshAccepted, At, Renewing, Issuing, RotationInv, PresentedInv
<1>14. ASSUME NEW r \in Requests, RefreshFindsSession(r) PROVE RotationInv'
  <2> DEFINE l == req[r].login
             iat == req[r].token
  <2>1. /\ Others(r) /\ req'[r].at = "issue.sign" /\ req'[r].login = l
        /\ req'[r].token = iat /\ req'[r].verdict = req[r].verdict
    BY <1>14, GotoEffect DEF RefreshFindsSession
  <2>2. /\ At(r, "refresh.session") /\ UNCHANGED <<held, record>>
        /\ twice' = IF iat \in spent[l] THEN twice \union {l} ELSE twice
    BY <1>14 DEF RefreshFindsSession
  <2>3. l \in Logins /\ iat \in held[l]
    BY <2>2 DEF TypeOK, Request, Fields, At, RotationInv, PresentedInv
  <2>4. \A m \in Logins : spent'[m] = IF m = l THEN spent[m] \union {iat} ELSE spent[m]
    BY <1>14 DEF RefreshFindsSession, TypeOK
  <2>5. PresentedInv'
    BY <2>1, <2>2 DEF RotationInv, PresentedInv, Others
  <2>6. RefusedInv'
    BY <2>1, <2>2 DEF RotationInv, RefusedInv, Others, At
  <2>7. ReuseReportJustified'
    <3> SUFFICES ASSUME NEW q \in Requests, req'[q].verdict = "mismatch"
                 PROVE  req'[q].token \in spent'[req'[q].login] \/ req'[q].login \in twice'
      BY DEF ReuseReportJustified
    <3>1. req[q].verdict = "mismatch" /\ req'[q].token = req[q].token
          /\ req'[q].login = req[q].login
      BY <2>1 DEF Others
    <3>2. req[q].login \in Logins
      BY <3>1 DEF RotationInv, RefusedInv, TypeOK, Request, Fields
    <3> QED
      BY <2>2, <2>4, <3>1, <3>2 DEF RotationInv, ReuseReportJustified
  <2>8. ASSUME NEW m \in Logins \ twice' PROVE FamilyInv(m)'
    <3>1. FamilyInv(m)
      BY <2>2 DEF RotationInv
    <3>2. Outstanding(m)' \subseteq Outstanding(m)
      BY <2>2, <2>4, OutstandingKept
    <3>3. CASE m = l
      <4>1. iat \in Outstanding(m)
        BY <2>2, <2>3, <3>3 DEF Outstanding
      <4>2. \A j \in Outstanding(m)' : j = iat
        BY <3>1, <3>2, <4>1 DEF FamilyInv
      <4>3. iat \notin Outstanding(m)'
        BY <2>3, <2>4, <3>3 DEF Outstanding
      <4>4. \A q \in Requests : ~(Renewing(q) /\ req[q].login = m)
        BY <3>1, <4>1 DEF FamilyInv
      <4>5. \A q \in Requests : Renewing(q)' /\ req'[q].login = m => q = r
        BY <2>1, <4>4 DEF Renewing, Issuing, Others
      <4> QED
        BY <2>1, <4>2, <4>3, <4>5 DEF FamilyInv
    <3>4. CASE m # l
      BY <2>1, <2>2, <3>1, <3>2, <3>4, FamilyKept DEF Renewing, Issuing, Others
    <3> QED
      BY <3>3, <3>4
  <2> QED
    BY <2>5, <2>6, <2>7, <2>8 DEF RotationInv
<1>15. ASSUME NEW r \in Requests, RefreshMissesSession(r) PROVE RotationInv'
  <2>1. Others(r) /\ req'[r].at = "idle" /\ req'[r].verdict = "none"
    BY <1>15, IdleEffect DEF RefreshMissesSession
  <2> QED
    BY <1>15, <2>1, RotationKept DEF RefreshMissesSession, Renewing, Issuing
<1>16. ASSUME NEW r \in Requests, RevokeSrem(r) PROVE RotationInv'
  <2>1. /\ Others(r) /\ req'[r].at = "revoke.del" /\ req'[r].login = req[r].login
        /\ req'[r].token = req[r].token /\ req'[r].verdict = req[r].verdict
    BY <1>16, GotoEffect DEF RevokeSrem
  <2> QED
    BY <1>16, <2>1, RotationKept
    DEF RevokeSrem, At, Renewing, Issuing, RotationInv, PresentedInv, RefusedInv, ReuseReportJustified
<1>17. ASSUME NEW r \in Requests, RevokeDel(r) PROVE RotationInv'
  <2>1. /\ Others(r) /\ req'[r].at = "revokeFamily.del" /\ req'[r].login = req[r].login
        /\ req'[r].token = req[r].token /\ req'[r].verdict = req[r].verdict
    BY <1>17, GotoEffect DEF RevokeDel
  <2> QED
    BY <1>17, <2>1, RotationKept
    DEF RevokeDel, At, Renewing, Issuing, RotationInv, PresentedInv, RefusedInv, ReuseReportJustified
<1>18. ASSUME NEW r \in Requests, RevokeFamilyDel(r) PROVE RotationInv'
  <2>1. /\ Others(r) /\ req'[r].at = "revokeFamily.srem" /\ req'[r].login = req[r].login
        /\ req'[r].token = req[r].token /\ req'[r].verdict = req[r].verdict
    BY <1>18, GotoEffect DEF RevokeFamilyDel
  <2>2. \A l \in Logins : record'[l] = record[l] \/ record'[l].deadline = Gone
    BY <1>18 DEF RevokeFamilyDel, DeleteRecord, NoRecord, TypeOK, TokensTypeOK
  <2> QED
    BY <1>18, <2>1, <2>2, RotationKept
    DEF RevokeFamilyDel, At, Renewing, Issuing, RotationInv, PresentedInv, RefusedInv, ReuseReportJustified
<1>19. ASSUME NEW r \in Requests, RevokeFamilySrem(r) PROVE RotationInv'
  <2>1. Others(r) /\ req'[r].at = "idle" /\ req'[r].verdict = "none"
    BY <1>19, IdleEffect DEF RevokeFamilySrem
  <2>2. \A l \in Logins : record'[l] = record[l] \/ record'[l].deadline = Gone
    BY <1>19 DEF RevokeFamilySrem, UnindexFamily, NoRecord, TypeOK, TokensTypeOK
  <2> QED
    BY <1>19, <2>1, <2>2, RotationKept DEF RevokeFamilySrem, Renewing, Issuing
<1>20. ASSUME NEW r \in Requests, LogoutAllListsFamilies(r) PROVE RotationInv'
  <2>1. /\ Others(r) /\ req'[r].at = "all.delSessions" /\ req'[r].login = req[r].login
        /\ req'[r].token = req[r].token /\ req'[r].verdict = req[r].verdict
    <3>1. req'[r] = [req[r] EXCEPT !.at = "all.delSessions",
                                 !.families = tokenFamilies[Owner[req[r].login]]] /\ Others(r)
      BY <1>20, BecomesEffect DEF LogoutAllListsFamilies
    <3> QED
      BY <3>1 DEF TypeOK, Request, Fields
  <2> QED
    BY <1>20, <2>1, RotationKept
    DEF LogoutAllListsFamilies, At, Renewing, Issuing, RotationInv, PresentedInv, RefusedInv, ReuseReportJustified
<1>21. ASSUME NEW r \in Requests, LogoutAllDeletesSessions(r) PROVE RotationInv'
  <2>1. /\ Others(r) /\ req'[r].at = "all.delFamilies" /\ req'[r].login = req[r].login
        /\ req'[r].token = req[r].token /\ req'[r].verdict = req[r].verdict
    BY <1>21, GotoEffect DEF LogoutAllDeletesSessions
  <2> QED
    BY <1>21, <2>1, RotationKept
    DEF LogoutAllDeletesSessions, At, Renewing, Issuing, RotationInv, PresentedInv, RefusedInv, ReuseReportJustified
<1>22. ASSUME NEW r \in Requests, LogoutAllDeletesFamilies(r) PROVE RotationInv'
  <2>1. /\ Others(r) /\ req'[r].at = "all.reply" /\ req'[r].login = req[r].login
        /\ req'[r].token = req[r].token /\ req'[r].verdict = req[r].verdict
    BY <1>22, GotoEffect DEF LogoutAllDeletesFamilies
  <2>2. \A l \in Logins : record'[l] = record[l] \/ record'[l].deadline = Gone
    BY <1>22 DEF LogoutAllDeletesFamilies, DeleteRecords, NoRecord, TypeOK, TokensTypeOK
  <2> QED
    BY <1>22, <2>1, <2>2, RotationKept
    DEF LogoutAllDeletesFamilies, At, Renewing, Issuing, RotationInv, PresentedInv, RefusedInv, ReuseReportJustified
<1>23. ASSUME NEW r \in Requests, LogoutAllReply(r) PROVE RotationInv'
  <2>1. Others(r) /\ req'[r].at = "idle" /\ req'[r].verdict = "none"
    BY <1>23, IdleEffect DEF LogoutAllReply
  <2> QED
    BY <1>23, <2>1, RotationKept DEF LogoutAllReply, Renewing, Issuing
<1>24. ASSUME NEW r \in Requests, Fail(r) PROVE RotationInv'
  <2>1. Others(r) /\ req'[r].at = "idle" /\ req'[r].verdict = "none"
    BY <1>24, IdleEffect DEF Fail
  <2> QED
    BY <1>24, <2>1, RotationKept DEF Fail, Renewing, Issuing
<1>25. ASSUME NEW r \in Requests, Resend(r) PROVE RotationInv'
  <2>1. PICK step \in Unanswered(r) :
          Goto(r, step) /\ UNCHANGED <<held, spent, twice, record>>
    BY <1>25 DEF Resend
  <2>2. /\ Others(r) /\ req'[r].at = step /\ req'[r].login = req[r].login
        /\ req'[r].token = req[r].token /\ req'[r].verdict = req[r].verdict
    BY <2>1, GotoEffect
  <2>3. /\ step \in {"createSession.set", "createSession.sadd", "issue.set", "issue.sadd",
                     "revoke.srem", "revoke.del", "revokeFamily.del",
                     "all.delSessions", "all.delFamilies"}
        /\ step \in {"createSession.set", "createSession.sadd", "issue.set", "issue.sadd"}
             => Renewing(r)
        /\ step = "issue.sadd" => At(r, "issue.reply")
        /\ req[r].at \in {"revoke.srem", "revoke.del", "revokeFamily.del", "revokeFamily.srem"}
             => step \in {"revoke.srem", "revoke.del", "revokeFamily.del"}
    BY DEF Unanswered, Renewing, Issuing, At
  <2> QED
    BY <2>1, <2>2, <2>3, RotationKept
    DEF At, Renewing, Issuing, RotationInv, PresentedInv, RefusedInv, ReuseReportJustified
<1>26. ASSUME NEW r \in Requests, ResendFamilySrem(r) PROVE RotationInv'
  <2>1. \A l \in Logins : record'[l] = record[l] \/ record'[l].deadline = Gone
    BY <1>26 DEF ResendFamilySrem, UnindexFamily, NoRecord, TypeOK, TokensTypeOK
  <2> QED
    BY <1>26, <2>1, RotationKept
    DEF ResendFamilySrem, Others, At, Renewing, Issuing, RotationInv, PresentedInv, RefusedInv,
        ReuseReportJustified
<1>27. CASE Tick \/ UNCHANGED vars
  BY <1>27 DEF Tick, vars, RotationInv, PresentedInv, RefusedInv, ReuseReportJustified,
                FamilyInv, Outstanding, Renewing, Issuing
<1> QED
  BY <1>1, <1>2, <1>3, <1>4, <1>5, <1>6, <1>7, <1>8, <1>9, <1>10, <1>11, <1>12,
     <1>13, <1>14, <1>15, <1>16, <1>17, <1>18, <1>19, <1>20, <1>21, <1>22, <1>23,
     <1>24, <1>25, <1>26, <1>27
  DEF Next, Arrive, Progress

\* For any number of requests, each family has at most one right to a new
\* token as long as no token was exchanged twice.
THEOREM RotationCorrect == Spec => []RotationInv
<1> QED
  BY InitType, TypeStep, InitSession, SessionStep, InitRotation, RotationStep, PTL DEF Spec

\* No client that never reused a token is told "Refresh token reuse detected",
\* except in a family where one token was exchanged twice.
THEOREM ReuseReportCorrect == Spec => []ReuseReportJustified
<1>1. RotationInv => ReuseReportJustified
  BY DEF RotationInv
<1> QED
  BY <1>1, RotationCorrect, PTL
=============================================================================
