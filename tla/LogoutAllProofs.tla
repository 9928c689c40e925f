-------------------------- MODULE LogoutAllProofs --------------------------
(***************************************************************************)
(* logout-all ends every session it should, but for the two known gaps, in *)
(* any number of requests, logins and users: the proof that IndexInv of    *)
(* RedisAuthSessions is inductive, relative to SessionInv and RotationInv. *)
(***************************************************************************)
EXTENDS RedisAuthSessionsProofs

\* A session that will be ended is listed by a logout-all r, and the DEL of
\* the listed sessions is still to come.
Holds(r, l) == req[r].at \in {"all.families", "all.delSessions"} /\ l \in req[r].sessions

\* IndexInv survives a step of r that gives no session to a login in use, and
\* takes none out of the index without a reason.
LEMMA IndexKept ==
  ASSUME TypeOK, IndexInv, NEW r \in Requests, Others(r),
         \A l \in Logins : held[l] \subseteq held'[l],
         \A l \in Logins :
           session[l] = Gone /\ session'[l] # Gone => ~InUse(l)' /\ held[l] = {},
         \A l \in Logins :
           session'[l] # Gone /\ l \in userSessions[Owner[l]] /\ InUse(l)' =>
             l \in userSessions'[Owner[l]] \/ Excused(l)',
         \A l \in Logins :
           session'[l] # Gone /\ Excused(l) /\ (InUse(l)' \/ held[l] # {}) => Excused(l)',
         \A l \in Logins :
           session'[l] # Gone /\ InUse(l)' => InUse(l) \/ l \in userSessions'[Owner[l]],
         req'[r].before \subseteq req[r].before,
         \A l \in req'[r].before : session'[l] # Gone /\ Holds(r, l) => Holds(r, l)'
  PROVE  IndexInv'
<1> USE DEF Others
<1>1. ASSUME NEW l \in Logins, InUse(l)', session'[l] # Gone
      PROVE  l \in userSessions'[Owner[l]] \/ Excused(l)'
  <2>1. session[l] # Gone
    BY <1>1
  <2>2. InUse(l) \/ l \in userSessions'[Owner[l]]
    BY <1>1
  <2>3. CASE InUse(l)
    <3>1. l \in userSessions[Owner[l]] \/ Excused(l)
      BY <2>1, <2>3 DEF IndexInv
    <3> QED
      BY <1>1, <3>1
  <2> QED
    BY <2>2, <2>3
<1>2. ASSUME NEW q \in Requests, NEW l \in req'[q].before
      PROVE  /\ held'[l] # {}
             /\ session'[l] # Gone => Excused(l)' \/ Holds(q, l)'
  <2>1. l \in req[q].before /\ l \in Logins
    BY DEF TypeOK, Request, Fields
  <2>2. held[l] # {} /\ (session[l] # Gone => Excused(l) \/ Holds(q, l))
    BY <2>1 DEF IndexInv, Holds
  <2>3. ASSUME session'[l] # Gone PROVE Excused(l)' \/ Holds(q, l)'
    <3>1. session[l] # Gone
      BY <2>1, <2>2, <2>3
    <3>2. CASE Excused(l)
      BY <2>1, <2>2, <2>3, <3>2
    <3>3. CASE Holds(q, l)
      BY <2>3, <3>3 DEF Holds
    <3> QED
      BY <2>2, <3>1, <3>2, <3>3
  <2> QED
    BY <2>1, <2>2, <2>3
<1> QED
  BY <1>1, <1>2 DEF IndexInv, Holds

\* A step of r that touches neither the sessions nor their index, does not
\* turn from a revocation, and begins to issue for a login in use only.
LEMMA QuietKept ==
  ASSUME TypeOK, IndexInv, NEW r \in Requests, Others(r),
         UNCHANGED <<session, userSessions>>, missed \subseteq missed',
         \A l \in Logins : held[l] \subseteq held'[l],
         Unindexing(r) =>
           \/ req'[r].at \in {"revoke.srem", "revoke.del"} /\ req'[r].login = req[r].login
           \/ req[r].login \in missed',
         req'[r].at \in Issuing =>
           \/ req[r].at \in Issuing /\ req'[r].login = req[r].login
           \/ held[req'[r].login] # {},
         \A l \in Logins : held'[l] # {} => held[l] # {} \/ InUse(l),
         req'[r].before \subseteq req[r].before,
         \A l \in req'[r].before : Holds(r, l) => Holds(r, l)'
  PROVE  IndexInv'
<1>1. ASSUME NEW l \in Logins, InUse(l)' PROVE InUse(l)
  BY <1>1 DEF InUse, Others
<1>2. ASSUME NEW l \in Logins, Excused(l) PROVE Excused(l)'
  <2>1. CASE l \in missed
    BY <2>1 DEF Excused
  <2>2. ASSUME NEW q \in Requests, Unindexing(q), req[q].login = l PROVE Excused(l)'
    <3>1. CASE q = r
      BY <2>2, <3>1 DEF Excused, Unindexing
    <3>2. CASE q # r
      BY <2>2, <3>2 DEF Excused, Unindexing, Others
    <3> QED
      BY <3>1, <3>2
  <2> QED
    BY <1>2, <2>1, <2>2 DEF Excused
<1> QED
  BY <1>1, <1>2, IndexKept

\* The initial states satisfy IndexInv.
LEMMA InitIndex == Init => IndexInv
BY DEF Init, SessionsInit, IndexInv, InUse, Issuing, Idle, Gone

\* Every step keeps IndexInv.
LEMMA IndexStep ==
  TypeOK /\ SessionInv /\ RotationInv /\ IndexInv /\ [Next]_vars => IndexInv'
<1> SUFFICES ASSUME TypeOK, SessionInv, RotationInv, IndexInv, [Next]_vars PROVE IndexInv'
  OBVIOUS
<1> USE DEF stores, history
<1>1. ASSUME NEW r \in Requests, NEW l \in Logins, LoginCreatesSession(r, l)
      PROVE  IndexInv'
  <2>1. Others(r) /\ req'[r].at = "createSession.set" /\ req'[r].before = {}
    <3>1. Others(r) /\ req'[r] = [Idle EXCEPT !.at = "createSession.set", !.login = l]
      BY <1>1, BecomesEffect DEF LoginCreatesSession
    <3> QED
      BY <3>1 DEF Idle
  <2> QED
    BY <1>1, <2>1, QuietKept DEF LoginCreatesSession, At, Unindexing, Issuing
<1>2. ASSUME NEW r \in Requests, NEW l \in Logins, NEW iat \in held[l],
             RefreshGuard(r, l, iat)
      PROVE  IndexInv'
  <2>1. Others(r) /\ req'[r].at = "refresh.verify" /\ req'[r].before = {}
    <3>1. Others(r) /\ req'[r] = [Idle EXCEPT !.at = "refresh.verify", !.login = l, !.token = iat,
                                              !.late = l \in revoked]
      BY <1>2, BecomesEffect DEF RefreshGuard
    <3> QED
      BY <3>1 DEF Idle
  <2> QED
    BY <1>2, <2>1, QuietKept DEF RefreshGuard, At, Unindexing, Issuing
<1>3. ASSUME NEW r \in Requests, NEW l \in Logins, LogoutFindsSession(r, l)
      PROVE  IndexInv'
  <2>1. Others(r) /\ req'[r].at = "revoke.srem" /\ req'[r].before = {}
    <3>1. Others(r) /\ req'[r] = [Idle EXCEPT !.at = "revoke.srem", !.login = l]
      BY <1>3, BecomesEffect DEF LogoutFindsSession
    <3> QED
      BY <3>1 DEF Idle
  <2> QED
    BY <1>3, <2>1, QuietKept DEF LogoutFindsSession, At, Unindexing, Issuing
<1>4. ASSUME NEW r \in Requests, NEW l \in Logins, LogoutAllListsSessions(r, l)
      PROVE  IndexInv'
  <2> DEFINE u == Owner[l]
  <2>1. /\ Others(r) /\ req'[r].at = "all.families"
        /\ req'[r].sessions = userSessions[u] /\ req'[r].before = Established(u)
    <3>1. /\ Others(r)
          /\ req'[r] = [Idle EXCEPT !.at = "all.families", !.login = l,
                                    !.sessions = userSessions[u],
                                    !.before = Established(u)]
      BY <1>4, BecomesEffect DEF LogoutAllListsSessions
    <3> QED
      BY <3>1 DEF Idle
  <2>2. /\ UNCHANGED <<session, userSessions, held, missed>>
        /\ req[r].at = "idle"
    BY <1>4 DEF LogoutAllListsSessions, At
  <2>3. ASSUME NEW m \in Logins PROVE Excused(m)' = Excused(m)
    BY <2>1, <2>2 DEF Excused, Unindexing, Others
  <2>4. ASSUME NEW m \in Logins, InUse(m)' PROVE InUse(m)
    BY <2>1, <2>2, <2>4 DEF InUse, Issuing, Others
  <2>5. ASSUME NEW m \in Logins, InUse(m)', session'[m] # Gone
        PROVE  m \in userSessions'[Owner[m]] \/ Excused(m)'
    BY <2>2, <2>3, <2>4, <2>5 DEF IndexInv
  <2>6. ASSUME NEW q \in Requests, NEW m \in req'[q].before
        PROVE  held'[m] # {} /\ (session'[m] # Gone => Excused(m)' \/ Holds(q, m)')
    <3>1. CASE q = r
      <4>1. m \in Logins /\ Owner[m] = u /\ held[m] # {}
        BY <2>1, <2>6, <3>1 DEF Established
      <4>2. session[m] # Gone => m \in userSessions[u] \/ Excused(m)
        BY <4>1 DEF IndexInv, InUse
      <4> QED
        BY <2>1, <2>2, <2>3, <3>1, <4>1, <4>2 DEF Holds
    <3>2. CASE q # r
      <4>1. req'[q] = req[q] /\ m \in Logins
        BY <2>1, <2>6, <3>2 DEF Others, TypeOK, Request, Fields
      <4> QED
        BY <2>2, <2>3, <2>6, <4>1 DEF IndexInv, Holds
    <3> QED
      BY <3>1, <3>2
  <2> QED
    BY <2>5, <2>6 DEF IndexInv, Holds
<1>5. ASSUME NEW r \in Requests, CreateSessionSet(r) PROVE IndexInv'
  <2> DEFINE l == req[r].login
  <2>1. /\ Others(r) /\ req'[r].login = l /\ req'[r].before = req[r].before
        /\ req'[r].sessions = req[r].sessions /\ req'[r].at = "createSession.sadd"
    BY <1>5, GotoEffect DEF CreateSessionSet
  <2>2. /\ req[r].at = "createSession.set"
        /\ UNCHANGED <<userSessions, held, missed>>
        /\ \A m \in Logins \ {l} : session'[m] = session[m]
    BY <1>5 DEF CreateSessionSet, At, SetSession, TypeOK, SessionsTypeOK
  <2>3. held[l] = {} /\ \A q \in Requests : q # r /\ ~At(q, "idle") => req[q].login # l
    BY <2>2 DEF SessionInv, OpeningInv, Opening
  <2>4. ~InUse(l)'
    BY <2>1, <2>2, <2>3 DEF InUse, Issuing, Others, At
  <2>5. ASSUME NEW m \in Logins PROVE Excused(m)' = Excused(m)
    BY <2>1, <2>2 DEF Excused, Unindexing, Others
  <2>6. ASSUME NEW m \in Logins, InUse(m)' PROVE InUse(m)
    BY <2>1, <2>2, <2>6 DEF InUse, Issuing, Others
  <2> QED
    BY <2>1, <2>2, <2>3, <2>4, <2>5, <2>6, IndexKept DEF Holds
<1>6. ASSUME NEW r \in Requests, CreateSessionSadd(r) PROVE IndexInv'
  <2> DEFINE l == req[r].login
  <2>1. /\ Others(r) /\ req'[r].login = l /\ req'[r].before = req[r].before
        /\ req'[r].sessions = req[r].sessions /\ req'[r].at = "issue.sign"
    BY <1>6, GotoEffect DEF CreateSessionSadd
  <2>2. /\ req[r].at = "createSession.sadd" /\ UNCHANGED <<session, held, missed>>
        /\ l \in Logins /\ Owner[l] \in Users
    BY <1>6, SessionsAssumption
    DEF CreateSessionSadd, IndexSession, At, TypeOK, Request, Fields
  <2>3. /\ l \in userSessions'[Owner[l]]
        /\ \A u \in Users : userSessions[u] \subseteq userSessions'[u]
        /\ \A m \in Logins \ {l} : \A u \in Users : m \in userSessions'[u] => m \in userSessions[u]
    BY <1>6, <2>2 DEF CreateSessionSadd, IndexSession, TypeOK, SessionsTypeOK
  <2>4. held[l] = {} /\ \A q \in Requests : q # r /\ ~At(q, "idle") => req[q].login # l
    BY <2>2 DEF SessionInv, OpeningInv, Opening
  <2>5. ASSUME NEW m \in Logins \ {l}, Excused(m) PROVE Excused(m)'
    <3>1. Owner[m] \in Users
      BY SessionsAssumption
    <3> QED
      BY <2>1, <2>2, <2>3, <2>5, <3>1 DEF Excused, Unindexing, Others
  <2>6. ASSUME NEW m \in Logins \ {l}, InUse(m)' PROVE InUse(m)
    BY <2>1, <2>2, <2>6 DEF InUse, Issuing, Others
  <2>7. ASSUME NEW m \in Logins, Excused(m), InUse(m)' \/ held[m] # {}, m = l
        PROVE  Excused(m)'
    <3>1. ~\E q \in Requests : Unindexing(q) /\ req[q].login = l
      BY <2>2, <2>4 DEF Unindexing, At
    <3> QED
      BY <2>2, <2>7, <3>1 DEF Excused
  <2>8. \A m \in Logins : m \in userSessions[Owner[m]] => m \in userSessions'[Owner[m]]
    BY <2>3, SessionsAssumption
  <2> QED
    BY <2>1, <2>2, <2>3, <2>5, <2>6, <2>7, <2>8, IndexKept DEF Holds
<1>7. ASSUME NEW r \in Requests, IssueSign(r) PROVE IndexInv'
  <2>1. /\ Others(r) /\ req'[r].login = req[r].login /\ req'[r].before = req[r].before
        /\ req'[r].sessions = req[r].sessions /\ req'[r].at = "issue.set"
    <3>1. Others(r) /\ req'[r] = [req[r] EXCEPT !.at = "issue.set", !.token = now]
      BY <1>7, BecomesEffect DEF IssueSign
    <3> QED
      BY <3>1 DEF TypeOK, Request, Fields
  <2> QED
    BY <1>7, <2>1, QuietKept DEF IssueSign, At, Unindexing, Issuing, Holds
<1>8. ASSUME NEW r \in Requests, IssueSet(r) PROVE IndexInv'
  <2>1. /\ Others(r) /\ req'[r].login = req[r].login /\ req'[r].before = req[r].before
        /\ req'[r].sessions = req[r].sessions
        /\ req'[r].at = "issue.sadd"
    BY <1>8, GotoEffect DEF IssueSet
  <2> QED
    BY <1>8, <2>1, QuietKept DEF IssueSet, SetRecord, At, Unindexing, Issuing, Holds
<1>9. ASSUME NEW r \in Requests, IssueSadd(r) PROVE IndexInv'
  <2>1. /\ Others(r) /\ req'[r].login = req[r].login /\ req'[r].before = req[r].before
        /\ req'[r].sessions = req[r].sessions
        /\ req'[r].at = "issue.reply"
    BY <1>9, GotoEffect DEF IssueSadd
  <2> QED
    BY <1>9, <2>1, QuietKept DEF IssueSadd, IndexFamily, At, Unindexing, Issuing, Holds
<1>10. ASSUME NEW r \in Requests, IssueReply(r) PROVE IndexInv'
  <2>1. Others(r) /\ req'[r].at = "idle" /\ req'[r].before = {}
    BY <1>10, IdleEffect DEF IssueReply
  <2>2. /\ \A m \in Logins : held[m] \subseteq held'[m]
        /\ \A m \in Logins : m # req[r].login => held'[m] = held[m]
    BY <1>10 DEF IssueReply, TypeOK
  <2>3. \A m \in Logins : held'[m] # {} => held[m] # {} \/ InUse(m)
    BY <1>10, <2>2 DEF IssueReply, At, InUse, Issuing
  <2> QED
    BY <1>10, <2>1, <2>2, <2>3, QuietKept DEF IssueReply, At, Unindexing, Issuing
<1>11. ASSUME NEW r \in Requests, RefreshVerify(r) PROVE IndexInv'
  <2>1. /\ Others(r) /\ req'[r].login = req[r].login /\ req'[r].before = req[r].before
        /\ req'[r].sessions = req[r].sessions
        /\ req'[r].at = (IF JwtExpired(req[r].token) THEN "revoke.srem" ELSE "refresh.record")
    BY <1>11, GotoEffect DEF RefreshVerify
  <2> QED
    BY <1>11, <2>1, QuietKept DEF RefreshVerify, At, Unindexing, Issuing, Holds
<1>12. ASSUME NEW r \in Requests, RefreshRejected(r) PROVE IndexInv'
  <2>1. /\ Others(r) /\ req'[r].login = req[r].login /\ req'[r].before = req[r].before
        /\ req'[r].sessions = req[r].sessions /\ req'[r].at = "revoke.srem"
    <3>1. Others(r) /\ req'[r] = [req[r] EXCEPT !.at = "revoke.srem",
                                     !.verdict = Verdict(req[r].login, req[r].token)]
      BY <1>12, BecomesEffect DEF RefreshRejected
    <3> QED
      BY <3>1 DEF TypeOK, Request, Fields
  <2> QED
    BY <1>12, <2>1, QuietKept DEF RefreshRejected, At, Unindexing, Issuing, Holds
<1>13. ASSUME NEW r \in Requests, RefreshAccepted(r) PROVE IndexInv'
  <2>1. /\ Others(r) /\ req'[r].login = req[r].login /\ req'[r].before = req[r].before
        /\ req'[r].sessions = req[r].sessions /\ req'[r].at = "refresh.session"
    <3>1. Others(r) /\ req'[r] = [req[r] EXCEPT !.at = "refresh.session", !.verdict = "valid"]
      BY <1>13, BecomesEffect DEF RefreshAccepted
    <3> QED
      BY <3>1 DEF TypeOK, Request, Fields
  <2> QED
    BY <1>13, <2>1, QuietKept DEF RefreshAccepted, At, Unindexing, Issuing, Holds
<1>14. ASSUME NEW r \in Requests, RefreshFindsSession(r) PROVE IndexInv'
  <2>1. /\ Others(r) /\ req'[r].login = req[r].login /\ req'[r].before = req[r].before
        /\ req'[r].sessions = req[r].sessions
        /\ req'[r].at = "issue.sign"
    BY <1>14, GotoEffect DEF RefreshFindsSession
  <2> QED
    BY <1>14, <2>1, QuietKept DEF RefreshFindsSession, RotationInv, PresentedInv, At, Unindexing, Issuing, Holds
<1>15. ASSUME NEW r \in Requests, RefreshMissesSession(r) PROVE IndexInv'
  <2>1. Others(r) /\ req'[r].at = "idle" /\ req'[r].before = {}
    BY <1>15, IdleEffect DEF RefreshMissesSession
  <2> QED
    BY <1>15, <2>1, QuietKept DEF RefreshMissesSession, At, Unindexing, Issuing
<1>16. ASSUME NEW r \in Requests, RevokeSrem(r) PROVE IndexInv'
  <2> DEFINE l == req[r].login
  <2>1. /\ Others(r) /\ req'[r].login = l /\ req'[r].before = req[r].before
        /\ req'[r].sessions = req[r].sessions /\ req'[r].at = "revoke.del"
    BY <1>16, GotoEffect DEF RevokeSrem
  <2>2. /\ req[r].at = "revoke.srem" /\ UNCHANGED <<session, held, missed>>
        /\ l \in Logins
    BY <1>16 DEF RevokeSrem, UnindexSession, At, TypeOK, Request, Fields
  <2>3. /\ l \notin userSessions'[Owner[l]]
        /\ \A u \in Users : userSessions'[u] \subseteq userSessions[u]
        /\ \A m \in Logins \ {l} : \A u \in Users : m \in userSessions[u] => m \in userSessions'[u]
    BY <1>16, <2>2, SessionsAssumption
    DEF RevokeSrem, UnindexSession, TypeOK, SessionsTypeOK
  <2>4. Excused(l)'
    BY <2>1, <2>3 DEF Excused, Unindexing
  <2>5. ASSUME NEW m \in Logins, Excused(m) PROVE Excused(m)'
    <3>1. Owner[m] \in Users
      BY SessionsAssumption
    <3>2. CASE m = l
      BY <2>1, <2>3, <3>2 DEF Excused, Unindexing
    <3>3. ASSUME NEW q \in Requests, Unindexing(q), req[q].login = m, m # l
          PROVE  Excused(m)'
      <4>1. q # r /\ req'[q] = req[q]
        BY <2>1, <3>3 DEF Others
      <4>2. m \notin userSessions'[Owner[m]]
        BY <2>3, <3>1, <3>3 DEF Unindexing
      <4>3. Unindexing(q)' /\ req'[q].login = m
        BY <3>3, <4>1, <4>2 DEF Unindexing
      <4> QED
        BY <4>3 DEF Excused
    <3>4. CASE m \in missed
      BY <2>2, <3>4 DEF Excused
    <3> QED
      BY <2>5, <3>2, <3>3, <3>4 DEF Excused
  <2>6. ASSUME NEW m \in Logins, InUse(m)' PROVE InUse(m)
    BY <2>1, <2>2, <2>6 DEF InUse, Issuing, Others
  <2>7. \A m \in Logins : m \in userSessions[Owner[m]] => m \in userSessions'[Owner[m]] \/ m = l
    BY <2>3, SessionsAssumption
  <2> QED
    BY <2>1, <2>2, <2>4, <2>5, <2>6, <2>7, IndexKept DEF Holds
<1>17. ASSUME NEW r \in Requests, RevokeDel(r) PROVE IndexInv'
  <2> DEFINE l == req[r].login
  <2>1. /\ Others(r) /\ req'[r].login = l /\ req'[r].before = req[r].before
        /\ req'[r].sessions = req[r].sessions /\ req'[r].at = "revokeFamily.del"
    BY <1>17, GotoEffect DEF RevokeDel
  <2>2. /\ req[r].at = "revoke.del" /\ UNCHANGED <<userSessions, held, missed>>
        /\ l \in Logins
    BY <1>17 DEF RevokeDel, DeleteSession, At, TypeOK, Request, Fields
  <2>3. session'[l] = Gone /\ \A m \in Logins \ {l} : session'[m] = session[m]
    BY <1>17, <2>2 DEF RevokeDel, DeleteSession, TypeOK, SessionsTypeOK
  <2>4. ASSUME NEW m \in Logins, m # l, Excused(m) PROVE Excused(m)'
    BY <2>1, <2>2, <2>4 DEF Excused, Unindexing, Others
  <2>5. ASSUME NEW m \in Logins, InUse(m)' PROVE InUse(m)
    BY <2>1, <2>2, <2>5 DEF InUse, Issuing, Others
  <2> QED
    BY <2>1, <2>2, <2>3, <2>4, <2>5, IndexKept DEF Holds
<1>18. ASSUME NEW r \in Requests, RevokeFamilyDel(r) PROVE IndexInv'
  <2>1. /\ Others(r) /\ req'[r].login = req[r].login /\ req'[r].before = req[r].before
        /\ req'[r].sessions = req[r].sessions
        /\ req'[r].at = "revokeFamily.srem"
    BY <1>18, GotoEffect DEF RevokeFamilyDel
  <2> QED
    BY <1>18, <2>1, QuietKept DEF RevokeFamilyDel, DeleteRecord, At, Unindexing, Issuing, Holds
<1>19. ASSUME NEW r \in Requests, RevokeFamilySrem(r) PROVE IndexInv'
  <2>1. Others(r) /\ req'[r].at = "idle" /\ req'[r].before = {}
    BY <1>19, IdleEffect DEF RevokeFamilySrem
  <2> QED
    BY <1>19, <2>1, QuietKept DEF RevokeFamilySrem, UnindexFamily, At, Unindexing, Issuing
<1>20. ASSUME NEW r \in Requests, LogoutAllListsFamilies(r) PROVE IndexInv'
  <2>1. /\ Others(r) /\ req'[r].login = req[r].login /\ req'[r].before = req[r].before
        /\ req'[r].sessions = req[r].sessions /\ req'[r].at = "all.delSessions"
    <3>1. Others(r) /\ req'[r] = [req[r] EXCEPT !.at = "all.delSessions",
                                     !.families = tokenFamilies[Owner[req[r].login]]]
      BY <1>20, BecomesEffect DEF LogoutAllListsFamilies
    <3> QED
      BY <3>1 DEF TypeOK, Request, Fields
  <2> QED
    BY <1>20, <2>1, QuietKept DEF LogoutAllListsFamilies, At, Unindexing, Issuing, Holds
<1>21. ASSUME NEW r \in Requests, LogoutAllDeletesSessions(r) PROVE IndexInv'
  <2> DEFINE u == Owner[req[r].login]
             listed == req[r].sessions
  <2>1. /\ Others(r) /\ req'[r].login = req[r].login /\ req'[r].before = req[r].before
        /\ req'[r].at = "all.delFamilies"
    BY <1>21, GotoEffect DEF LogoutAllDeletesSessions
  <2>2. /\ req[r].at = "all.delSessions" /\ held' = held
        /\ DeleteSessions(u, listed)
        /\ missed' = missed \union (userSessions[u] \ (userSessions'[u] \union listed))
    BY <1>21 DEF LogoutAllDeletesSessions, At
  <2>3. /\ \A m \in listed : session'[m] = Gone
        /\ \A m \in Logins \ listed : session'[m] = session[m]
        /\ \A v \in Users \ {u} : userSessions'[v] = userSessions[v]
        /\ \A v \in Users : userSessions'[v] \subseteq userSessions[v]
    <3>1. listed \in SUBSET Logins
      BY DEF TypeOK, Request, Fields
    <3> QED
      BY <2>2, <3>1 DEF DeleteSessions, TypeOK, SessionsTypeOK
  <2>4. ASSUME NEW m \in Logins, session'[m] # Gone, m \in userSessions[Owner[m]]
        PROVE  m \in userSessions'[Owner[m]] \/ Excused(m)'
    <3>1. m \notin listed /\ Owner[m] \in Users
      BY <2>3, <2>4, SessionsAssumption
    <3> QED
      BY <2>2, <2>3, <2>4, <3>1 DEF Excused
  <2>5. ASSUME NEW m \in Logins, Excused(m) PROVE Excused(m)'
    <3>1. Owner[m] \in Users
      BY SessionsAssumption
    <3> QED
      BY <2>1, <2>2, <2>3, <2>5, <3>1 DEF Excused, Unindexing, Others
  <2>6. ASSUME NEW m \in Logins, InUse(m)' PROVE InUse(m)
    BY <2>1, <2>2, <2>6 DEF InUse, Issuing, Others
  <2>7. \A m \in Logins : session'[m] # Gone => m \notin listed /\ session[m] # Gone
    BY <2>3
  <2>8. \A m \in req'[r].before : m \in Logins
    BY <2>1 DEF TypeOK, Request, Fields
  <2> QED
    BY <2>1, <2>2, <2>4, <2>5, <2>6, <2>7, <2>8, IndexKept DEF Holds
<1>22. ASSUME NEW r \in Requests, LogoutAllDeletesFamilies(r) PROVE IndexInv'
  <2>1. /\ Others(r) /\ req'[r].login = req[r].login /\ req'[r].before = req[r].before
        /\ req'[r].sessions = req[r].sessions
        /\ req'[r].at = "all.reply"
    BY <1>22, GotoEffect DEF LogoutAllDeletesFamilies
  <2> QED
    BY <1>22, <2>1, QuietKept DEF LogoutAllDeletesFamilies, DeleteRecords, At, Unindexing, Issuing, Holds
<1>23. ASSUME NEW r \in Requests, LogoutAllReply(r) PROVE IndexInv'
  <2>1. Others(r) /\ req'[r].at = "idle" /\ req'[r].before = {}
    BY <1>23, IdleEffect DEF LogoutAllReply
  <2> QED
    BY <1>23, <2>1, QuietKept DEF LogoutAllReply, At, Unindexing, Issuing
<1>24. ASSUME NEW r \in Requests, Fail(r) PROVE IndexInv'
  <2>1. Others(r) /\ req'[r].at = "idle" /\ req'[r].before = {}
    BY <1>24, IdleEffect DEF Fail
  <2>2. /\ UNCHANGED <<session, userSessions, held>>
        /\ missed' = IF Unindexing(r) THEN missed \union {req[r].login} ELSE missed
    BY <1>24 DEF Fail
  <2> QED
    BY <2>1, <2>2, QuietKept DEF Issuing
<1>25. ASSUME NEW r \in Requests, Resend(r) PROVE IndexInv'
  <2>1. PICK step \in Unanswered(r) :
          Goto(r, step) /\ UNCHANGED <<session, userSessions, held, missed>>
    BY <1>25 DEF Resend
  <2>2. /\ Others(r) /\ req'[r].at = step /\ req'[r].login = req[r].login
        /\ req'[r].before = req[r].before /\ req'[r].sessions = req[r].sessions
    BY <2>1, GotoEffect
  <2>3. /\ step \in Issuing => req[r].at \in Issuing
        /\ req[r].at = "revoke.del" => step = "revoke.srem"
        /\ req[r].at \notin {"revoke.srem", "all.families", "all.delSessions"}
    BY DEF Unanswered, Issuing, At
  <2> QED
    BY <2>1, <2>2, <2>3, QuietKept DEF Unindexing, Holds
<1>26. ASSUME NEW r \in Requests, ResendFamilySrem(r) PROVE IndexInv'
  BY <1>26 DEF ResendFamilySrem, IndexInv, InUse, Excused, Unindexing
<1>27. CASE Tick \/ UNCHANGED vars
  BY <1>27 DEF Tick, vars, IndexInv, InUse, Excused, Unindexing
<1> QED
  BY <1>1, <1>2, <1>3, <1>4, <1>5, <1>6, <1>7, <1>8, <1>9, <1>10, <1>11, <1>12, <1>13,
     <1>14, <1>15, <1>16, <1>17, <1>18, <1>19, <1>20, <1>21, <1>22, <1>23, <1>24, <1>25,
     <1>26, <1>27
  DEF Next, Arrive, Progress

\* For any number of requests: a session in use is where logout-all will look
\* for it, but for the known gaps.
THEOREM IndexCorrect == Spec => []IndexInv
<1> QED
  BY InitType, TypeStep, InitSession, SessionStep, InitRotation, RotationStep, InitIndex,
     IndexStep, PTL DEF Spec

\* When logout-all answers, the sessions that were in use when it began have
\* ended, but for the known gaps.
THEOREM LogoutAllCorrect == Spec => []LogoutAllEndsSessions
<1>1. TypeOK /\ IndexInv => LogoutAllEndsSessions
  <2> SUFFICES ASSUME TypeOK, IndexInv, NEW r \in Requests, req[r].at = "all.reply",
                      NEW l \in req[r].before, SessionFound(l)
               PROVE  Excused(l)
    BY DEF LogoutAllEndsSessions, At
  <2>1. session[l] # Gone
    BY DEF SessionFound, Alive, Gone, TypeOK
  <2> QED
    BY <2>1 DEF IndexInv
<1> QED
  BY <1>1, TypeCorrect, IndexCorrect, PTL
=============================================================================
