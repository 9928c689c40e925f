------------------------ MODULE DbAuthSessionsProofs ------------------------
(***************************************************************************)
(* Proofs about DbAuthSessions: TypeOK and DbSessionInv are inductive, and *)
(* the properties of the runs follow.  Each lemma below is about the       *)
(* actions that disturb the same parts of the invariant.                   *)
(***************************************************************************)
EXTENDS DbAuthSessions, TLAPS

Inv == TypeOK /\ DbSessionInv

\* The invariant holds initially.
LEMMA InitInv == Init => Inv
BY FlowAssumption
   DEF Init, Inv, TypeOK, SessionsTypeOK, Request, Idle, Step, At, DbSessionInv,
       PresentedInv, FreshInv, FreshNew, Minting, DescentInv, OneRightInv, Refreshing, NoRightInv,
       DeletedNeverReturns, OneRowPerLogin, EndedLoginsStayEnded, ClientsKeepTheirSession

\* Idle is the state of a request that is not in progress.
LEMMA IdleType == Idle \in Request /\ Idle.at = "idle" /\ Idle.jti = None /\ Idle.new = None
BY DEF Idle, Request, Step

\* A step of r leaves the other requests alone.
LEMMA BecomesEffect ==
  ASSUME TypeOK, NEW r \in Requests, NEW local \in Request, Becomes(r, local)
  PROVE  /\ req' \in [Requests -> Request]
         /\ req'[r] = local
         /\ \A q \in Requests : q # r => req'[q] = req[q]
BY DEF TypeOK, Becomes

\* Going to another step keeps the local variables.
LEMMA GotoEffect ==
  ASSUME TypeOK, NEW r \in Requests, NEW step \in Step, Goto(r, step)
  PROVE  /\ req' \in [Requests -> Request]
         /\ req'[r].at = step /\ req'[r].jti = req[r].jti /\ req'[r].new = req[r].new
         /\ \A q \in Requests : q # r => req'[q] = req[q]
BY DEF TypeOK, Becomes, Goto, Request

\* The steps at which a request neither has a row under way nor tokens.
Waiting == {"idle", "refresh.verify", "refresh.find", "refresh.deleteExpired", "logout.delete"}

\* Steps between them leave everything but the request alone: RefreshGuard,
\* RefreshVerify, RefreshMisses, LogoutFinds, and a failure there.
LEMMA WaitingStep ==
  ASSUME Inv, NEW r \in Requests,
         req[r].at \in Waiting, req'[r].at \in Waiting,
         req'[r].at # "idle" => req'[r].jti \in held,
         req'[r].new \in {None, req[r].new},
         req' \in [Requests -> Request],
         \A q \in Requests : q # r => req'[q] = req[q],
         UNCHANGED <<sessions, minted, held, expired, history>>
  PROVE  Inv'
<1>1. TypeOK'
  BY DEF Inv, TypeOK, SessionsTypeOK, history
<1>2. \A q \in Requests, l \in Jtis : Refreshing(q, l)' <=> Refreshing(q, l)
  BY DEF Refreshing, At, Waiting, history
<1>3. \A q \in Requests : /\ Minting(q)' <=> Minting(q)
                          /\ Minting(q) => req'[q] = req[q]
  BY DEF Minting, Waiting
<1>4. PresentedInv'
  BY DEF Inv, DbSessionInv, PresentedInv
<1>5. FreshInv'
  <2> SUFFICES ASSUME NEW p \in Requests PROVE FreshNew(p)'
    BY DEF FreshInv
  <2>1. req'[p].new \in {None, req[p].new} /\ FreshNew(p)
    BY DEF Inv, DbSessionInv, FreshInv
  <2>2. CASE Minting(p)
    BY <1>3, <2>1, <2>2, FlowAssumption
       DEF FreshNew, Inv, At, TypeOK, SessionsTypeOK, SessionByJti, history
  <2> QED
    BY <1>3, <2>1, <2>2 DEF FreshNew
<1>6. DescentInv'
  BY <1>3 DEF Inv, DbSessionInv, DescentInv, Minting, At, history
<1>7. OneRightInv'
  BY <1>2, <1>3 DEF Inv, DbSessionInv, OneRightInv, TypeOK, SessionsTypeOK, Refreshing,
                    Minting, At, history
<1>8. NoRightInv'
  BY <1>2, <1>3 DEF Inv, DbSessionInv, NoRightInv, TypeOK, Minting, At, history
<1>9. ClientsKeepTheirSession'
  BY <1>3 DEF Inv, DbSessionInv, ClientsKeepTheirSession, SessionByJti, Minting, history
<1> QED
  BY <1>1, <1>4, <1>5, <1>6, <1>7, <1>8, <1>9
     DEF Inv, DbSessionInv, DeletedNeverReturns, OneRowPerLogin, EndedLoginsStayEnded, history

LEMMA RefreshGuardStep ==
  ASSUME Inv, NEW r \in Requests, NEW j \in Jtis, RefreshGuard(r, j) PROVE Inv'
<1> DEFINE local == [Idle EXCEPT !.at = "refresh.verify", !.jti = j]
<1>1. local \in Request /\ local.at = "refresh.verify" /\ local.jti = j /\ local.new = None
  BY DEF Idle, Request, Step
<1>2. Becomes(r, local)
  BY DEF RefreshGuard
<1> HIDE DEF local
<1>3. /\ req' \in [Requests -> Request]
      /\ req'[r] = local
      /\ \A q \in Requests : q # r => req'[q] = req[q]
  BY <1>1, <1>2, BecomesEffect DEF Inv
<1> QED
  BY <1>1, <1>3, WaitingStep DEF RefreshGuard, Waiting, At

LEMMA LogoutFindsStep ==
  ASSUME Inv, NEW r \in Requests, NEW j \in Jtis, LogoutFinds(r, j) PROVE Inv'
<1> DEFINE local == [Idle EXCEPT !.at = "logout.delete", !.jti = j]
<1>1. local \in Request /\ local.at = "logout.delete" /\ local.jti = j /\ local.new = None
  BY DEF Idle, Request, Step
<1>2. Becomes(r, local)
  BY DEF LogoutFinds
<1> HIDE DEF local
<1>3. /\ req' \in [Requests -> Request]
      /\ req'[r] = local
      /\ \A q \in Requests : q # r => req'[q] = req[q]
  BY <1>1, <1>2, BecomesEffect DEF Inv
<1> QED
  BY <1>1, <1>3, WaitingStep DEF LogoutFinds, Waiting, At

LEMMA RefreshVerifyStep ==
  ASSUME Inv, NEW r \in Requests, RefreshVerify(r) PROVE Inv'
<1> DEFINE step == IF req[r].jti \in expired THEN "refresh.deleteExpired" ELSE "refresh.find"
<1>1. step \in Step /\ step \in Waiting
  BY DEF Step, Waiting
<1>2. Goto(r, step)
  BY DEF RefreshVerify
<1> HIDE DEF step
<1>3. /\ req' \in [Requests -> Request]
      /\ req'[r].at = step /\ req'[r].jti = req[r].jti /\ req'[r].new = req[r].new
      /\ \A q \in Requests : q # r => req'[q] = req[q]
  BY <1>1, <1>2, GotoEffect DEF Inv
<1>4. req[r].at \in Waiting /\ req[r].jti \in held
  BY DEF RefreshVerify, At, Inv, DbSessionInv, PresentedInv, Waiting
<1> QED
  BY <1>1, <1>3, <1>4, WaitingStep DEF RefreshVerify

LEMMA RefreshMissesStep ==
  ASSUME Inv, NEW r \in Requests, RefreshMisses(r) PROVE Inv'
<1>1. /\ req' \in [Requests -> Request]
      /\ req'[r] = Idle
      /\ \A q \in Requests : q # r => req'[q] = req[q]
  BY IdleType, BecomesEffect DEF Inv, RefreshMisses
<1> QED
  BY <1>1, IdleType, WaitingStep DEF RefreshMisses, At, Waiting

-----------------------------------------------------------------------------
(* A login begins. *)

LEMMA LoginStep ==
  ASSUME Inv, NEW r \in Requests, NEW j \in Jtis, Login(r, j) PROVE Inv'
<1> DEFINE local == [Idle EXCEPT !.at = "login.create", !.new = j]
<1>1. local \in Request /\ local.at = "login.create" /\ local.jti = None /\ local.new = j
  BY DEF Idle, Request, Step
<1>2. Becomes(r, local)
  BY DEF Login
<1> HIDE DEF local
<1>3. /\ req' \in [Requests -> Request]
      /\ req'[r] = local
      /\ \A q \in Requests : q # r => req'[q] = req[q]
  BY <1>1, <1>2, BecomesEffect DEF Inv
<1>4. /\ j \notin minted /\ minted' = minted \union {j} /\ At(r, "idle")
      /\ login' = [login EXCEPT ![j] = j]
      /\ UNCHANGED <<sessions, held, expired, deleted, ended, lost, overlapped, cut>>
  BY DEF Login
<1>5. login'[j] = j /\ \A i \in minted : login'[i] = login[i] /\ login[i] \in minted
  BY <1>4 DEF Inv, TypeOK
<1>6. TypeOK'
  BY <1>3, <1>4, <1>5 DEF Inv, TypeOK, SessionsTypeOK
<1>7. \A q \in Requests : q # r => Minting(q)' = Minting(q) /\ FreshNew(q) /\ req[q].new # j
  BY <1>3, <1>4, FlowAssumption DEF Minting, Inv, DbSessionInv, FreshInv, FreshNew
<1>8. /\ \A q \in Requests, l \in Jtis : Refreshing(q, l)' => Refreshing(q, l)
      /\ \A q \in Requests, l \in Jtis : Refreshing(q, l) => q # r /\ req[q].jti \in minted
  BY <1>1, <1>3, <1>4, <1>5
     DEF Refreshing, At, Inv, DbSessionInv, PresentedInv, TypeOK
<1>9. PresentedInv'
  BY <1>1, <1>3, <1>4 DEF Inv, DbSessionInv, PresentedInv
<1>10. FreshInv'
  <2>1. FreshNew(r)'
    BY <1>1, <1>3, <1>4, <1>7, FlowAssumption
       DEF FreshNew, Minting, At, Inv, TypeOK, DbSessionInv
  <2>2. ASSUME NEW p \in Requests, p # r PROVE FreshNew(p)'
    BY <1>1, <1>3, <1>4, <1>5, <1>7, <2>2 DEF FreshNew, At, SessionByJti
  <2> QED
    BY <2>1, <2>2 DEF FreshInv
<1>11. DescentInv'
  BY <1>1, <1>3, <1>4, <1>5, <1>7
     DEF Inv, TypeOK, DbSessionInv, PresentedInv, DescentInv, FreshNew, Minting, At
<1>12. sessions \subseteq minted /\ \A i \in sessions : login'[i] = login[i]
  BY <1>5 DEF Inv, DbSessionInv
<1>13. OneRightInv'
  BY <1>1, <1>3, <1>4, <1>8, <1>12
     DEF Inv, TypeOK, SessionsTypeOK, DbSessionInv, OneRightInv, Refreshing, At
<1>14. NoRightInv'
  BY <1>1, <1>3, <1>4, <1>8 DEF Inv, TypeOK, DbSessionInv, NoRightInv, At
<1>15. ClientsKeepTheirSession'
  BY <1>1, <1>3, <1>4, <1>5, <1>7
     DEF Inv, TypeOK, DbSessionInv, ClientsKeepTheirSession, SessionByJti, FreshNew, Minting, At
<1> QED
  BY <1>4, <1>6, <1>9, <1>10, <1>11, <1>12, <1>13, <1>14, <1>15
     DEF Inv, DbSessionInv, DeletedNeverReturns, OneRowPerLogin, EndedLoginsStayEnded

-----------------------------------------------------------------------------
(* A jti gets its row, and reaches the client. *)

\* createSession of a login or of a refresh: the jti was fresh, its login has
\* no other row, and is not ended.
LEMMA CreateStep ==
  ASSUME Inv, NEW r \in Requests,
         At(r, "login.create") \/ At(r, "refresh.create"),
         CreateSession(req[r].new), Goto(r, "reply"),
         UNCHANGED <<minted, held, expired, history>>
  PROVE  Inv'
<1> DEFINE new == req[r].new
           l == login[new]
<1>1. /\ req' \in [Requests -> Request]
      /\ req'[r].at = "reply" /\ req'[r].jti = req[r].jti /\ req'[r].new = new
      /\ \A q \in Requests : q # r => req'[q] = req[q]
  BY GotoEffect DEF Inv, Step
<1>2. /\ new \in minted \ (held \union sessions \union deleted)
      /\ \A q \in Requests : q # r => req[q].new # new
  BY DEF Inv, DbSessionInv, FreshInv, FreshNew, Minting, At
<1>3. sessions' = sessions \union {new} /\ minted \subseteq Jtis
  BY DEF CreateSession, Inv, TypeOK
<1>4. TypeOK'
  BY <1>1, <1>2, <1>3 DEF Inv, TypeOK, SessionsTypeOK, history
<1>5. /\ \A q \in Requests, k \in Jtis : Refreshing(q, k)' <=> q # r /\ Refreshing(q, k)
      /\ l \in minted
  BY <1>1, <1>2 DEF Refreshing, At, history, Inv, TypeOK
<1>6. PresentedInv'
  BY <1>1 DEF Inv, DbSessionInv, PresentedInv
<1>7. FreshInv'
  <2>1. FreshNew(r)'
    BY <1>1, <1>2, <1>3 DEF FreshNew, At, SessionByJti, history
  <2>2. ASSUME NEW p \in Requests, p # r PROVE FreshNew(p)'
    BY <1>1, <1>2, <1>3, <2>2
       DEF FreshNew, Minting, At, SessionByJti, history, Inv, DbSessionInv, FreshInv
  <2> QED
    BY <2>1, <2>2 DEF FreshInv
<1>8. DescentInv'
  BY <1>1 DEF Inv, DbSessionInv, DescentInv, At, history
<1>9. \A j \in sessions : login[j] = l => l \in overlapped
  <2>1. CASE At(r, "login.create")
    BY <1>2, <2>1 DEF Inv, DbSessionInv, DescentInv
  <2>2. CASE At(r, "refresh.create")
    BY <1>5, <2>2 DEF Inv, DbSessionInv, DescentInv, OneRightInv, Refreshing, At
  <2> QED
    BY <2>1, <2>2
<1>10. \A q \in Requests : q # r /\ Refreshing(q, l) => l \in overlapped
  <2>1. CASE At(r, "login.create")
    BY <1>2, <2>1
       DEF Inv, TypeOK, DbSessionInv, DescentInv, PresentedInv, Refreshing, At
  <2>2. CASE At(r, "refresh.create")
    BY <1>5, <2>2 DEF Inv, DbSessionInv, DescentInv, OneRightInv, Refreshing, At
  <2> QED
    BY <2>1, <2>2
<1>11. l \in ended => l \in lost \union overlapped
  <2>1. CASE At(r, "login.create")
    BY <2>1 DEF Inv, TypeOK, DbSessionInv, DescentInv, NoRightInv
  <2>2. CASE At(r, "refresh.create")
    BY <1>5, <2>2 DEF Inv, TypeOK, DbSessionInv, DescentInv, NoRightInv, Refreshing, At
  <2> QED
    BY <2>1, <2>2
<1>12. OneRightInv'
  BY <1>1, <1>3, <1>5, <1>10
     DEF Inv, TypeOK, SessionsTypeOK, DbSessionInv, OneRightInv, At, history
<1>13. NoRightInv'
  BY <1>1, <1>5 DEF Inv, TypeOK, DbSessionInv, NoRightInv, At, history
<1>14. DeletedNeverReturns' /\ sessions' \subseteq minted'
  BY <1>2, <1>3 DEF Inv, DbSessionInv, DeletedNeverReturns, history
<1>15. OneRowPerLogin' /\ EndedLoginsStayEnded'
  BY <1>3, <1>9, <1>11
     DEF Inv, DbSessionInv, OneRowPerLogin, EndedLoginsStayEnded, history
<1>16. ClientsKeepTheirSession'
  BY <1>1, <1>3 DEF Inv, DbSessionInv, ClientsKeepTheirSession, SessionByJti, history
<1> QED
  BY <1>4, <1>6, <1>7, <1>8, <1>12, <1>13, <1>14, <1>15, <1>16 DEF Inv, DbSessionInv

LEMMA ReplyStep ==
  ASSUME Inv, NEW r \in Requests, Reply(r) PROVE Inv'
<1> DEFINE new == req[r].new
<1>1. /\ req' \in [Requests -> Request]
      /\ req'[r] = Idle
      /\ \A q \in Requests : q # r => req'[q] = req[q]
  BY IdleType, BecomesEffect DEF Inv, Reply
<1>2. /\ new \in minted \ held
      /\ \A q \in Requests : q # r => req[q].new # new
      /\ new \in sessions \/ login[new] \in ended
  BY DEF Reply, Inv, DbSessionInv, FreshInv, FreshNew, Minting, At, SessionByJti
<1>3. /\ held' = held \union {new} /\ At(r, "reply")
      /\ UNCHANGED <<sessions, minted, expired, history>>
  BY DEF Reply
<1>4. TypeOK'
  BY <1>1, <1>2, <1>3 DEF Inv, TypeOK, SessionsTypeOK, history
<1>5. \A q \in Requests, k \in Jtis : Refreshing(q, k)' <=> Refreshing(q, k)
  BY <1>1, <1>3, IdleType DEF Refreshing, At, history
<1>6. PresentedInv'
  BY <1>1, <1>3, IdleType DEF Inv, DbSessionInv, PresentedInv
<1>7. FreshInv'
  <2>1. FreshNew(r)'
    BY <1>1, IdleType DEF FreshNew, Minting
  <2>2. ASSUME NEW p \in Requests, p # r PROVE FreshNew(p)'
    <3>1. FreshNew(p) /\ req'[p] = req[p]
      BY <1>1, <2>2 DEF Inv, DbSessionInv, FreshInv
    <3>2. req[p].new \in minted => req'[r].new # req[p].new
      BY <1>1, IdleType, FlowAssumption DEF Inv, TypeOK
    <3> QED
      BY <1>1, <1>2, <1>3, <2>2, <3>1, <3>2 DEF FreshNew, Minting, At, SessionByJti, history
  <2> QED
    BY <2>1, <2>2 DEF FreshInv
<1>8. DescentInv'
  BY <1>1, <1>3, IdleType DEF Inv, DbSessionInv, DescentInv, At, history
<1>9. OneRightInv'
  BY <1>1, <1>3, <1>5, IdleType
     DEF Inv, TypeOK, SessionsTypeOK, DbSessionInv, OneRightInv, Refreshing, At, history
<1>10. NoRightInv'
  BY <1>1, <1>3, <1>5, IdleType DEF Inv, TypeOK, DbSessionInv, NoRightInv, At, history
<1>11. ClientsKeepTheirSession'
  BY <1>1, <1>2, <1>3, IdleType
     DEF Inv, DbSessionInv, ClientsKeepTheirSession, SessionByJti, history
<1> QED
  BY <1>3, <1>4, <1>6, <1>7, <1>8, <1>9, <1>10, <1>11
     DEF Inv, DbSessionInv, DeletedNeverReturns, OneRowPerLogin, EndedLoginsStayEnded, history

-----------------------------------------------------------------------------
(* A row is deleted. *)

\* logout, and a refresh with an expired token: the login ends.
LEMMA EndStep ==
  ASSUME Inv, NEW r \in Requests,
         At(r, "refresh.deleteExpired") \/ At(r, "logout.delete"),
         DeleteSessionByJti(req[r].jti), Becomes(r, Idle), Ends(req[r].jti),
         UNCHANGED <<minted, held, expired, login, overlapped, cut>>
  PROVE  Inv'
<1> DEFINE jti == req[r].jti
           l == login[jti]
<1>1. /\ req' \in [Requests -> Request]
      /\ req'[r] = Idle
      /\ \A q \in Requests : q # r => req'[q] = req[q]
  BY IdleType, BecomesEffect DEF Inv
<1>2. jti \in held /\ jti \in minted /\ l \in minted
  BY DEF Inv, TypeOK, DbSessionInv, PresentedInv, At
<1>3. /\ sessions' = sessions \ {jti}
      /\ deleted' = deleted \union {jti}
      /\ ended' = ended \union {l}
      /\ lost \subseteq lost' /\ lost' \subseteq lost \union {l}
      /\ jti \notin sessions => l \in lost' \union ended
      /\ (\E q \in Requests : Refreshing(q, l)) => l \in lost'
  BY DEF DeleteSessionByJti, Ends, SessionByJti
<1>4. TypeOK'
  BY <1>1, <1>2, <1>3 DEF Inv, TypeOK, SessionsTypeOK
<1>5. \A q \in Requests, k \in Jtis : Refreshing(q, k)' <=> Refreshing(q, k)
  BY <1>1, IdleType DEF Refreshing, At
<1>6. PresentedInv'
  BY <1>1, IdleType DEF Inv, DbSessionInv, PresentedInv
<1>7. FreshInv'
  <2>1. FreshNew(r)'
    BY <1>1, IdleType DEF FreshNew, Minting
  <2>2. ASSUME NEW p \in Requests, p # r PROVE FreshNew(p)'
    <3>1. FreshNew(p) /\ req'[p] = req[p]
      BY <1>1, <2>2 DEF Inv, DbSessionInv, FreshInv
    <3>2. req[p].new \in minted => req'[r].new # req[p].new
      BY <1>1, IdleType, FlowAssumption DEF Inv, TypeOK
    <3> QED
      BY <1>1, <1>2, <1>3, <2>2, <3>1, <3>2 DEF FreshNew, Minting, At, SessionByJti
  <2> QED
    BY <2>1, <2>2 DEF FreshInv
<1>8. DescentInv'
  BY <1>1, IdleType DEF Inv, DbSessionInv, DescentInv, At
<1>9. OneRightInv'
  BY <1>1, <1>3, <1>5, IdleType
     DEF Inv, TypeOK, SessionsTypeOK, DbSessionInv, OneRightInv, Refreshing, At
<1>10. NoRightInv'
  <2> SUFFICES ASSUME NEW k \in ended', k \notin lost' \union overlapped, NEW q \in Requests
               PROVE  ~Refreshing(q, k)' /\ ~(At(q, "login.create")' /\ req'[q].new = k)
    BY DEF NoRightInv
  <2>1. CASE k \in ended
    BY <1>1, <1>2, <1>3, <1>5, <2>1, IdleType DEF Inv, TypeOK, DbSessionInv, NoRightInv, At
  <2>2. CASE k = l
    <3>1. ~Refreshing(q, k)'
      BY <1>2, <1>3, <1>5, <2>2 DEF Inv, TypeOK
    <3>2. ~(At(q, "login.create") /\ req[q].new = l)
      BY <1>2 DEF Inv, DbSessionInv, DescentInv, FreshInv, FreshNew, Minting, At
    <3> QED
      BY <1>1, <2>2, <3>1, <3>2, IdleType DEF At
  <2> QED
    BY <1>3, <2>1, <2>2
<1>11. DeletedNeverReturns' /\ OneRowPerLogin'
  BY <1>3 DEF Inv, DbSessionInv, DeletedNeverReturns, OneRowPerLogin
<1>12. EndedLoginsStayEnded'
  <2> SUFFICES ASSUME NEW j \in sessions', login[j] \in ended'
               PROVE  login[j] \in lost' \union overlapped
    BY DEF EndedLoginsStayEnded
  <2>1. CASE login[j] \in ended
    BY <1>3, <2>1 DEF Inv, DbSessionInv, EndedLoginsStayEnded
  <2>2. CASE login[j] = l /\ l \notin ended
    <3>1. jti \in sessions => l \in overlapped
      BY <1>3, <2>2 DEF Inv, DbSessionInv, OneRowPerLogin
    <3> QED
      BY <1>3, <2>2, <3>1
  <2> QED
    BY <1>3, <2>1, <2>2
<1>13. ClientsKeepTheirSession'
  BY <1>1, <1>3, IdleType DEF Inv, DbSessionInv, ClientsKeepTheirSession, SessionByJti, At
<1> QED
  BY <1>3, <1>4, <1>6, <1>7, <1>8, <1>9, <1>10, <1>11, <1>12, <1>13 DEF Inv, DbSessionInv

LEMMA RefreshDeletesStep ==
  ASSUME Inv, NEW r \in Requests, RefreshDeletes(r) PROVE Inv'
<1> DEFINE jti == req[r].jti
           l == login[jti]
<1>1. /\ req' \in [Requests -> Request]
      /\ req'[r].at = "refresh.create" /\ req'[r].jti = jti /\ req'[r].new = req[r].new
      /\ \A q \in Requests : q # r => req'[q] = req[q]
  BY GotoEffect DEF Inv, Step, RefreshDeletes
<1>2. /\ jti \in held /\ jti \in minted /\ l \in minted
      /\ login[req[r].new] = l
      /\ At(r, "refresh.delete") /\ Refreshing(r, l)
  BY DEF RefreshDeletes, Inv, TypeOK, DbSessionInv, PresentedInv, DescentInv, Refreshing, At
<1>3. /\ sessions' = sessions \ {jti}
      /\ deleted' = deleted \union {jti}
      /\ UNCHANGED <<minted, held, expired, login, ended, lost, overlapped, cut>>
  BY DEF RefreshDeletes, DeleteSessionByJti
<1>4. TypeOK'
  BY <1>1, <1>2, <1>3 DEF Inv, TypeOK, SessionsTypeOK
<1>5. \A q \in Requests, k \in Jtis : Refreshing(q, k)' <=> Refreshing(q, k)
  BY <1>1, <1>2, <1>3 DEF Refreshing, At
<1>6. PresentedInv'
  BY <1>1, <1>2, <1>3 DEF Inv, DbSessionInv, PresentedInv
<1>7. FreshInv'
  <2> SUFFICES ASSUME NEW p \in Requests PROVE FreshNew(p)'
    BY DEF FreshInv
  <2>1. FreshNew(p) /\ FreshNew(r) /\ \A q \in Requests : req'[q].new = req[q].new
    BY <1>1 DEF Inv, DbSessionInv, FreshInv
  <2>2. (Minting(p)' <=> Minting(p)) /\ (At(p, "reply")' <=> At(p, "reply"))
    BY <1>1, <1>2 DEF Minting, At
  <2> QED
    BY <1>2, <1>3, <2>1, <2>2 DEF FreshNew, SessionByJti
<1>8. DescentInv'
  BY <1>1, <1>2, <1>3 DEF Inv, DbSessionInv, DescentInv, At
<1>9. OneRightInv'
  <2> SUFFICES ASSUME NEW p \in Requests, NEW k \in minted \ overlapped, Refreshing(p, k)
               PROVE  /\ \A q \in Requests : Refreshing(q, k) => q = p
                      /\ \A j \in sessions' :
                           login[j] = k => At(p, "refresh.delete")' /\ j = req'[p].jti
    BY <1>3, <1>5 DEF OneRightInv, Inv, TypeOK
  <2>1. /\ \A q \in Requests : Refreshing(q, k) => q = p
        /\ \A j \in sessions : login[j] = k => At(p, "refresh.delete") /\ j = req[p].jti
    BY DEF Inv, DbSessionInv, OneRightInv
  <2>2. CASE p = r
    BY <1>3, <2>1, <2>2
  <2>3. CASE p # r
    BY <1>1, <1>3, <2>1, <2>3 DEF At
  <2> QED
    BY <2>2, <2>3
<1>10. NoRightInv'
  BY <1>1, <1>2, <1>3, <1>5 DEF Inv, TypeOK, DbSessionInv, NoRightInv, At
<1>11. DeletedNeverReturns' /\ OneRowPerLogin' /\ EndedLoginsStayEnded'
  BY <1>3 DEF Inv, DbSessionInv, DeletedNeverReturns, OneRowPerLogin, EndedLoginsStayEnded
<1>12. ClientsKeepTheirSession'
  BY <1>1, <1>2, <1>3 DEF Inv, DbSessionInv, ClientsKeepTheirSession, SessionByJti, At
<1> QED
  BY <1>3, <1>4, <1>6, <1>7, <1>8, <1>9, <1>10, <1>11, <1>12 DEF Inv, DbSessionInv

\* logoutAllDevices: every login that has a row or a client ends.
LEMMA LogoutAllStep ==
  ASSUME Inv, NEW r \in Requests, LogoutAllDevices(r) PROVE Inv'
<1> DEFINE InUse == {login[j] : j \in sessions \union held}
<1>1. /\ sessions' = {}
      /\ deleted' = deleted \union sessions
      /\ ended' = ended \union InUse
      /\ lost' = lost \union {l \in InUse : \E q \in Requests : Refreshing(q, l)}
      /\ UNCHANGED <<req, minted, held, expired, login, overlapped, cut>>
  BY DEF LogoutAllDevices, DeleteSessionsByUserId
<1>2. sessions \union held \subseteq minted /\ InUse \subseteq minted
  BY DEF Inv, TypeOK, DbSessionInv
<1>3. TypeOK'
  BY <1>1, <1>2 DEF Inv, TypeOK, SessionsTypeOK
<1>4. PresentedInv' /\ DescentInv'
  BY <1>1 DEF Inv, DbSessionInv, PresentedInv, DescentInv, At
<1>5. FreshInv'
  <2> SUFFICES ASSUME NEW p \in Requests PROVE FreshNew(p)'
    BY DEF FreshInv
  <2>1. FreshNew(p)
    BY DEF Inv, DbSessionInv, FreshInv
  <2> QED
    BY <1>1, <2>1 DEF FreshNew, Minting, SessionByJti, At
<1>6. OneRightInv'
  BY <1>1 DEF Inv, DbSessionInv, OneRightInv, Refreshing, At
<1>7. NoRightInv'
  <2> SUFFICES ASSUME NEW k \in ended', k \notin lost' \union overlapped, NEW q \in Requests
               PROVE  ~Refreshing(q, k) /\ ~(At(q, "login.create") /\ req[q].new = k)
    BY <1>1 DEF NoRightInv, Refreshing, At
  <2>1. CASE k \in ended
    BY <1>1, <2>1 DEF Inv, DbSessionInv, NoRightInv
  <2>2. CASE k \in InUse
    <3>1. ~Refreshing(q, k)
      BY <1>1, <2>2
    <3>2. PICK j \in sessions \union held : login[j] = k
      BY <2>2
    <3>3. At(q, "login.create") => req[q].new # j
      BY <3>2 DEF Inv, DbSessionInv, FreshInv, FreshNew, Minting, At
    <3> QED
      BY <1>2, <3>1, <3>2, <3>3 DEF Inv, DbSessionInv, DescentInv
  <2> QED
    BY <1>1, <2>1, <2>2
<1>8. DeletedNeverReturns' /\ OneRowPerLogin' /\ EndedLoginsStayEnded'
  BY <1>1 DEF DeletedNeverReturns, OneRowPerLogin, EndedLoginsStayEnded
<1>9. ClientsKeepTheirSession'
  BY <1>1 DEF ClientsKeepTheirSession
<1> QED
  BY <1>1, <1>3, <1>4, <1>5, <1>6, <1>7, <1>8, <1>9 DEF Inv, DbSessionInv

-----------------------------------------------------------------------------
(* A refresh finds its row. *)

LEMMA RefreshFindsStep ==
  ASSUME Inv, NEW r \in Requests, NEW j \in Jtis, RefreshFinds(r, j) PROVE Inv'
<1> DEFINE jti == req[r].jti
           l == login[jti]
           local == [req[r] EXCEPT !.at = "refresh.delete", !.new = j]
<1>1. local \in Request /\ local.at = "refresh.delete" /\ local.jti = jti /\ local.new = j
  BY DEF Inv, TypeOK, Request, Step
<1>2. Becomes(r, local)
  BY DEF RefreshFinds
<1> HIDE DEF local
<1>3. /\ req' \in [Requests -> Request]
      /\ req'[r] = local
      /\ \A q \in Requests : q # r => req'[q] = req[q]
  BY <1>1, <1>2, BecomesEffect DEF Inv
<1>4. /\ j \notin minted /\ minted' = minted \union {j} /\ At(r, "refresh.find")
      /\ jti \in sessions
      /\ login' = [login EXCEPT ![j] = l]
      /\ overlapped \subseteq overlapped' /\ overlapped' \subseteq overlapped \union {l}
      /\ (\E q \in Requests : Refreshing(q, l)) => l \in overlapped'
      /\ UNCHANGED <<sessions, held, expired, deleted, ended, lost, cut>>
  BY DEF RefreshFinds, SessionByJti
<1>5. /\ jti \in held /\ jti \in minted /\ l \in minted
      /\ sessions \subseteq minted
  BY <1>4 DEF Inv, TypeOK, DbSessionInv, PresentedInv, At
<1>6. login'[j] = l /\ \A i \in minted : login'[i] = login[i] /\ login[i] \in minted
  BY <1>4, <1>5 DEF Inv, TypeOK
<1>7. TypeOK'
  BY <1>3, <1>4, <1>5, <1>6 DEF Inv, TypeOK, SessionsTypeOK
<1>8. \A q \in Requests : q # r => Minting(q)' = Minting(q) /\ FreshNew(q) /\ req[q].new # j
  BY <1>3, <1>4, FlowAssumption DEF Minting, Inv, DbSessionInv, FreshInv, FreshNew
<1>9. /\ \A q \in Requests, k \in Jtis : q # r => (Refreshing(q, k)' <=> Refreshing(q, k))
      /\ \A k \in Jtis : Refreshing(r, k)' <=> k = l
      /\ \A k \in Jtis : ~Refreshing(r, k)
  BY <1>1, <1>3, <1>4, <1>5, <1>6
     DEF Refreshing, At, Inv, DbSessionInv, PresentedInv, TypeOK
<1>10. PresentedInv'
  BY <1>1, <1>3, <1>4, <1>5 DEF Inv, DbSessionInv, PresentedInv
<1>11. FreshInv'
  <2>1. FreshNew(r)'
    BY <1>1, <1>3, <1>4, <1>5, <1>8, FlowAssumption
       DEF FreshNew, Minting, At, Inv, TypeOK, DbSessionInv
  <2>2. ASSUME NEW p \in Requests, p # r PROVE FreshNew(p)'
    BY <1>1, <1>3, <1>4, <1>6, <1>8, <2>2 DEF FreshNew, At, SessionByJti
  <2> QED
    BY <2>1, <2>2 DEF FreshInv
<1>12. DescentInv'
  <2> SUFFICES ASSUME NEW p \in Requests
               PROVE  /\ At(p, "login.create")' =>
                           /\ login'[req'[p].new] = req'[p].new
                           /\ \A i \in minted' : login'[i] = req'[p].new => i = req'[p].new
                      /\ At(p, "refresh.delete")' \/ At(p, "refresh.create")' =>
                           login'[req'[p].new] = login'[req'[p].jti]
    BY DEF DescentInv
  <2>1. CASE p = r
    BY <1>1, <1>3, <1>5, <1>6, <2>1 DEF At
  <2>2. ASSUME p # r, At(p, "login.create")
        PROVE  /\ login'[req[p].new] = req[p].new
               /\ \A i \in minted' : login'[i] = req[p].new => i = req[p].new
    <3>1. /\ req[p].new \in minted \ held /\ login[req[p].new] = req[p].new
          /\ \A i \in minted : login[i] = req[p].new => i = req[p].new
      BY <1>8, <2>2 DEF FreshNew, Minting, At, Inv, DbSessionInv, DescentInv
    <3> QED
      BY <1>4, <1>5, <1>6, <3>1
  <2>3. ASSUME p # r, At(p, "refresh.delete") \/ At(p, "refresh.create")
        PROVE  login'[req[p].new] = login'[req[p].jti]
    <3>1. /\ req[p].new \in minted /\ req[p].jti \in minted
          /\ login[req[p].new] = login[req[p].jti]
      BY <1>8, <2>3
         DEF FreshNew, Minting, At, Inv, TypeOK, DbSessionInv, DescentInv, PresentedInv
    <3> QED
      BY <1>6, <3>1
  <2> QED
    BY <1>3, <2>1, <2>2, <2>3 DEF At
<1>13. OneRightInv'
  <2> SUFFICES ASSUME NEW p \in Requests, NEW k \in minted' \ overlapped', Refreshing(p, k)'
               PROVE  /\ \A q \in Requests : Refreshing(q, k)' => q = p
                      /\ \A i \in sessions :
                           login[i] = k => At(p, "refresh.delete")' /\ i = req'[p].jti
    BY <1>4, <1>5, <1>6 DEF OneRightInv
  <2>1. k \in Jtis
    BY <1>4 DEF Inv, TypeOK
  <2>2. CASE k = l
    <3>1. p = r /\ \A q \in Requests : Refreshing(q, k)' => q = r
      BY <1>4, <1>9, <2>1, <2>2
    <3>2. \A i \in sessions : login[i] = l => i = jti
      BY <1>4, <2>2 DEF Inv, DbSessionInv, OneRowPerLogin
    <3> QED
      BY <1>1, <1>3, <2>2, <3>1, <3>2 DEF At
  <2>3. CASE k # l
    <3>1. p # r /\ Refreshing(p, k) /\ \A q \in Requests : Refreshing(q, k)' => Refreshing(q, k)
      BY <1>9, <2>1, <2>3
    <3>2. k \in minted \ overlapped
      BY <1>4, <1>6, <3>1 DEF Refreshing, At, Inv, TypeOK, DbSessionInv, PresentedInv
    <3> QED
      BY <1>3, <3>1, <3>2 DEF Inv, DbSessionInv, OneRightInv, At
  <2> QED
    BY <2>2, <2>3
<1>14. NoRightInv'
  <2> SUFFICES ASSUME NEW k \in ended, k \notin lost \union overlapped', NEW q \in Requests
               PROVE  ~Refreshing(q, k)' /\ ~(At(q, "login.create")' /\ req'[q].new = k)
    BY <1>4 DEF NoRightInv
  <2>1. k \notin lost \union overlapped /\ k \in Jtis
    BY <1>4 DEF Inv, TypeOK
  <2>2. ~Refreshing(q, k) /\ ~(At(q, "login.create") /\ req[q].new = k)
    BY <2>1 DEF Inv, DbSessionInv, NoRightInv
  <2>3. k # l
    BY <1>4, <2>1 DEF Inv, DbSessionInv, EndedLoginsStayEnded
  <2> QED
    BY <1>1, <1>3, <1>9, <2>1, <2>2, <2>3 DEF At
<1>15. OneRowPerLogin' /\ EndedLoginsStayEnded'
  BY <1>4, <1>5, <1>6 DEF Inv, DbSessionInv, OneRowPerLogin, EndedLoginsStayEnded
<1>16. ClientsKeepTheirSession'
  <2> SUFFICES ASSUME NEW i \in held, login[i] \notin ended \union overlapped' \union cut
               PROVE  \/ \E h \in held : login[h] = login[i] /\ h \in sessions
                      \/ \E q \in Requests : /\ req'[q].at \in {"refresh.create", "reply"}
                                             /\ login'[req'[q].new] = login[i]
    BY <1>4, <1>6 DEF ClientsKeepTheirSession, SessionByJti, Inv, TypeOK
  <2>1. \/ \E h \in held : login[h] = login[i] /\ h \in sessions
        \/ \E q \in Requests : /\ req[q].at \in {"refresh.create", "reply"}
                               /\ login[req[q].new] = login[i]
    BY <1>4 DEF Inv, DbSessionInv, ClientsKeepTheirSession, SessionByJti
  <2>2. \A q \in Requests : req[q].at \in {"refresh.create", "reply"} =>
          q # r /\ req'[q] = req[q] /\ req[q].new \in minted
    BY <1>3, <1>4, <1>8 DEF At, FreshNew, Minting
  <2> QED
    BY <1>6, <2>1, <2>2
<1> QED
  BY <1>4, <1>5, <1>7, <1>10, <1>11, <1>12, <1>13, <1>14, <1>15, <1>16
     DEF Inv, DbSessionInv, DeletedNeverReturns

-----------------------------------------------------------------------------
(* A failure, and the passing of time. *)

LEMMA FailStep ==
  ASSUME Inv, NEW r \in Requests, Fail(r) PROVE Inv'
<1>1. /\ req' \in [Requests -> Request]
      /\ req'[r] = Idle
      /\ \A q \in Requests : q # r => req'[q] = req[q]
  BY IdleType, BecomesEffect DEF Inv, Fail
<1>2. /\ cut \subseteq cut'
      /\ At(r, "refresh.create") \/ At(r, "reply") => cut' = cut \union {login[req[r].new]}
      /\ ~At(r, "refresh.create") /\ ~At(r, "reply") => cut' = cut
      /\ UNCHANGED <<sessions, minted, held, expired, login, deleted, ended, lost, overlapped>>
  BY DEF Fail
<1>3. At(r, "refresh.create") \/ At(r, "reply") => login[req[r].new] \in minted
  BY DEF Inv, TypeOK, DbSessionInv, FreshInv, FreshNew, Minting, At
<1>4. TypeOK'
  BY <1>1, <1>2, <1>3 DEF Inv, TypeOK, SessionsTypeOK
<1>5. \A q \in Requests, k \in Jtis : Refreshing(q, k)' <=> q # r /\ Refreshing(q, k)
  BY <1>1, <1>2, IdleType DEF Refreshing, At
<1>6. PresentedInv'
  BY <1>1, <1>2, IdleType DEF Inv, DbSessionInv, PresentedInv
<1>7. FreshInv'
  <2>1. FreshNew(r)'
    BY <1>1, IdleType DEF FreshNew, Minting
  <2>2. ASSUME NEW p \in Requests, p # r PROVE FreshNew(p)'
    <3>1. FreshNew(p) /\ req'[p] = req[p]
      BY <1>1, <2>2 DEF Inv, DbSessionInv, FreshInv
    <3>2. req[p].new \in minted => req'[r].new # req[p].new
      BY <1>1, IdleType, FlowAssumption DEF Inv, TypeOK
    <3> QED
      BY <1>1, <1>2, <2>2, <3>1, <3>2 DEF FreshNew, Minting, At, SessionByJti
  <2> QED
    BY <2>1, <2>2 DEF FreshInv
<1>8. DescentInv'
  BY <1>1, <1>2, IdleType DEF Inv, DbSessionInv, DescentInv, At
<1>9. OneRightInv'
  BY <1>1, <1>2, <1>5, IdleType
     DEF Inv, TypeOK, SessionsTypeOK, DbSessionInv, OneRightInv, At
<1>10. NoRightInv'
  BY <1>1, <1>2, <1>5, IdleType DEF Inv, TypeOK, DbSessionInv, NoRightInv, At
<1>11. ClientsKeepTheirSession'
  BY <1>1, <1>2, IdleType DEF Inv, DbSessionInv, ClientsKeepTheirSession, SessionByJti, At
<1> QED
  BY <1>2, <1>4, <1>6, <1>7, <1>8, <1>9, <1>10, <1>11
     DEF Inv, DbSessionInv, DeletedNeverReturns, OneRowPerLogin, EndedLoginsStayEnded

\* DbSessionInv does not look at expired.
LEMMA QuietStep ==
  ASSUME Inv, TypeOK', UNCHANGED <<sessions, req, minted, held, history>> PROVE Inv'
BY DEF Inv, DbSessionInv, PresentedInv, FreshInv, FreshNew, Minting, DescentInv, OneRightInv,
       Refreshing, NoRightInv, DeletedNeverReturns, OneRowPerLogin, EndedLoginsStayEnded,
       ClientsKeepTheirSession, SessionByJti, At, history

LEMMA ExpireStep ==
  ASSUME Inv, NEW j \in Jtis, Expire(j) PROVE Inv'
<1>1. TypeOK'
  BY DEF Inv, TypeOK, SessionsTypeOK, Expire, history
<1> QED
  BY <1>1, QuietStep DEF Expire

LEMMA StutterStep ==
  ASSUME Inv, UNCHANGED vars PROVE Inv'
<1>1. TypeOK'
  BY DEF Inv, TypeOK, SessionsTypeOK, vars, history
<1> QED
  BY <1>1, QuietStep DEF vars

-----------------------------------------------------------------------------
(* The theorems. *)

LEMMA NextStep == Inv /\ [Next]_vars => Inv'
<1> SUFFICES ASSUME Inv, [Next]_vars PROVE Inv'
  OBVIOUS
<1>1. ASSUME NEW r \in Requests, Arrive(r) PROVE Inv'
  BY <1>1, LoginStep, RefreshGuardStep, LogoutFindsStep, LogoutAllStep DEF Arrive
<1>2. ASSUME NEW r \in Requests, LoginCreates(r) \/ RefreshCreates(r) PROVE Inv'
  BY <1>2, CreateStep DEF LoginCreates, RefreshCreates
<1>3. ASSUME NEW r \in Requests, RefreshDeletesExpired(r) \/ LogoutDeletes(r) PROVE Inv'
  BY <1>3, EndStep DEF RefreshDeletesExpired, LogoutDeletes
<1>4. ASSUME NEW r \in Requests, Progress(r) PROVE Inv'
  BY <1>2, <1>3, <1>4, ReplyStep, RefreshVerifyStep, RefreshFindsStep, RefreshMissesStep,
     RefreshDeletesStep DEF Progress
<1> QED
  BY <1>1, <1>4, FailStep, ExpireStep, StutterStep DEF Next

\* Every variable of the DB sessions keeps its type.
THEOREM TypeCorrect == Spec => []TypeOK
<1>1. Inv => TypeOK
  BY DEF Inv
<1> QED
  BY <1>1, InitInv, NextStep, PTL DEF Spec

\* The inductive invariant: an unended login that was never refreshed twice at
\* once has one right to a row, its row or the refresh that deleted it.
THEOREM DbSessionsCorrect == Spec => []DbSessionInv
<1>1. Inv => DbSessionInv
  BY DEF Inv
<1> QED
  BY <1>1, InitInv, NextStep, PTL DEF Spec

\* A token that was rotated out or revoked never finds its row again.
THEOREM DeletionCorrect == Spec => []DeletedNeverReturns
<1>1. DbSessionInv => DeletedNeverReturns
  BY DEF DbSessionInv
<1> QED
  BY <1>1, DbSessionsCorrect, PTL

\* A login has one row at the most, unless two of its refreshes overlapped.
THEOREM RotationCorrect == Spec => []OneRowPerLogin
<1>1. DbSessionInv => OneRowPerLogin
  BY DEF DbSessionInv
<1> QED
  BY <1>1, DbSessionsCorrect, PTL

\* A login that was ended has no row again, unless a refresh was in progress.
THEOREM EndCorrect == Spec => []EndedLoginsStayEnded
<1>1. DbSessionInv => EndedLoginsStayEnded
  BY DEF DbSessionInv
<1> QED
  BY <1>1, DbSessionsCorrect, PTL

\* A client that is not logged out keeps a token it can refresh with, unless
\* refreshes overlapped or one was cut short.
THEOREM ClientsCorrect == Spec => []ClientsKeepTheirSession
<1>1. DbSessionInv => ClientsKeepTheirSession
  BY DEF DbSessionInv
<1> QED
  BY <1>1, DbSessionsCorrect, PTL

-----------------------------------------------------------------------------
(* Rotation.  RowInv first; then the mapping is followed login by login: a *)
(* step of the code leaves each login to RotatingSession as it was, or     *)
(* moves one login, or closes some of them.                                *)

\* Rows leave sessions for deleted, and no login is taken back from ended.
LEMMA DeletionStep ==
  ASSUME Inv, [Next]_vars
  PROVE  /\ deleted \subseteq deleted' /\ ended \subseteq ended' /\ overlapped \subseteq overlapped'
         /\ sessions \subseteq sessions' \union deleted'
         /\ \A j \in minted : login'[j] = login[j]
<1>1. ASSUME NEW j \in Jtis, DeleteSessionByJti(j), Ends(j), login' = login,
             overlapped' = overlapped
      PROVE  /\ deleted \subseteq deleted' /\ ended \subseteq ended'
             /\ sessions \subseteq sessions' \union deleted'
  BY <1>1 DEF DeleteSessionByJti, Ends
<1>2. ASSUME NEW r \in Requests, At(r, "refresh.deleteExpired") \/ At(r, "logout.delete")
      PROVE  req[r].jti \in Jtis
  BY <1>2 DEF Inv, TypeOK, DbSessionInv, PresentedInv, At
<1>3. ASSUME NEW r \in Requests, Arrive(r)
      PROVE  /\ deleted \subseteq deleted' /\ ended \subseteq ended' /\ overlapped \subseteq overlapped'
             /\ sessions \subseteq sessions' \union deleted'
             /\ \A j \in minted : login'[j] = login[j]
  BY <1>3 DEF Arrive, Login, RefreshGuard, LogoutFinds, LogoutAllDevices, history, Inv, TypeOK
<1>4. ASSUME NEW r \in Requests, Progress(r)
      PROVE  /\ deleted \subseteq deleted' /\ ended \subseteq ended' /\ overlapped \subseteq overlapped'
             /\ sessions \subseteq sessions' \union deleted'
             /\ \A j \in minted : login'[j] = login[j]
  <2>1. CASE RefreshDeletesExpired(r) \/ LogoutDeletes(r)
    BY <1>1, <1>2, <2>1 DEF RefreshDeletesExpired, LogoutDeletes
  <2>2. CASE RefreshDeletes(r)
    BY <2>2 DEF RefreshDeletes, DeleteSessionByJti
  <2>3. CASE LoginCreates(r) \/ RefreshCreates(r)
    BY <2>3 DEF LoginCreates, RefreshCreates, CreateSession, history
  <2>4. CASE Reply(r) \/ RefreshVerify(r) \/ RefreshMisses(r)
    BY <2>4 DEF Reply, RefreshVerify, RefreshMisses, history
  <2>5. CASE \E j \in Jtis : RefreshFinds(r, j)
    BY <2>5 DEF RefreshFinds, Inv, TypeOK
  <2> QED
    BY <1>4, <2>1, <2>2, <2>3, <2>4, <2>5 DEF Progress
<1>5. ASSUME NEW r \in Requests, Fail(r)
      PROVE  UNCHANGED <<sessions, login, deleted, ended, overlapped>>
  BY <1>5 DEF Fail
<1>6. ASSUME NEW j \in Jtis, Expire(j)
      PROVE  UNCHANGED <<sessions, login, deleted, ended, overlapped>>
  BY <1>6 DEF Expire, history
<1> QED
  BY <1>3, <1>4, <1>5, <1>6 DEF Next, vars, history

\* The rows of requests that stay where they are: only the deletion of a row
\* takes it from a refresh that has found it, and only with its login ended, or
\* by an overlapping refresh.
LEMMA RowStep ==
  ASSUME Inv, RowInv, [Next]_vars
  PROVE  RowInv'
<1>1. /\ deleted \subseteq deleted' /\ ended \subseteq ended' /\ overlapped \subseteq overlapped'
      /\ sessions \subseteq sessions' \union deleted'
      /\ \A j \in minted : login'[j] = login[j]
  BY DeletionStep
<1>2. \A j \in held' : j \in sessions' \union deleted' \/ login'[j] \in ended'
  <2> SUFFICES ASSUME NEW j \in held'
               PROVE  j \in sessions' \union deleted' \/ login'[j] \in ended'
    OBVIOUS
  <2>1. CASE j \in held
    BY <1>1, <2>1 DEF RowInv, Inv, TypeOK
  <2>2. CASE j \notin held
    <3>1. PICK r \in Requests : Reply(r)
      BY <2>2 DEF Next, vars, history, Arrive, Progress, Login, RefreshGuard, LogoutFinds,
                  LogoutAllDevices, LoginCreates, RefreshVerify, RefreshDeletesExpired,
                  RefreshFinds, RefreshMisses, RefreshDeletes, RefreshCreates, LogoutDeletes,
                  Fail, Expire
    <3>2. j = req[r].new /\ At(r, "reply")
      BY <2>2, <3>1 DEF Reply
    <3>3. j \in minted /\ (j \in sessions \/ login[j] \in ended)
      BY <3>2 DEF Inv, DbSessionInv, FreshInv, FreshNew, Minting, At, SessionByJti
    <3> QED
      BY <1>1, <3>3
  <2> QED
    BY <2>1, <2>2
<1> SUFFICES ASSUME NEW r \in Requests, At(r, "refresh.delete")'
             PROVE  req'[r].jti \in sessions' \/ login'[req'[r].jti] \in ended' \union overlapped'
  BY <1>2 DEF RowInv, SessionByJti
<1>3. ASSUME At(r, "refresh.delete"), req'[r].jti = req[r].jti, req[r].jti \in sessions' \/
             login[req[r].jti] \in ended' \union overlapped'
      PROVE  req'[r].jti \in sessions' \/ login'[req'[r].jti] \in ended' \union overlapped'
  BY <1>1, <1>3 DEF Inv, TypeOK, DbSessionInv, PresentedInv, At
<1>4. ASSUME At(r, "refresh.delete")
      PROVE  /\ req[r].jti \in sessions \/ login[req[r].jti] \in ended' \union overlapped'
             /\ req[r].jti \in held /\ req[r].jti \in minted /\ login[req[r].jti] \in minted
  BY <1>1, <1>4 DEF RowInv, SessionByJti, Inv, TypeOK, DbSessionInv, PresentedInv, At
<1>5. ASSUME At(r, "refresh.delete"), req'[r].jti = req[r].jti, sessions \subseteq sessions'
      PROVE  req'[r].jti \in sessions' \/ login'[req'[r].jti] \in ended' \union overlapped'
  BY <1>3, <1>4, <1>5
<1>6. ASSUME NEW q \in Requests, NEW local \in Request, Becomes(q, local), local.at # "refresh.delete"
      PROVE  q # r /\ At(r, "refresh.delete") /\ req'[r].jti = req[r].jti
  BY <1>6, BecomesEffect DEF Inv, At
<1>7. ASSUME NEW q \in Requests, NEW step \in Step, Goto(q, step), step # "refresh.delete"
      PROVE  q # r /\ At(r, "refresh.delete") /\ req'[r].jti = req[r].jti
  BY <1>7, GotoEffect DEF Inv, At
<1>8. CASE UNCHANGED vars
  BY <1>5, <1>8 DEF vars, At
<1>9. ASSUME NEW j \in Jtis, Expire(j)
      PROVE  req'[r].jti \in sessions' \/ login'[req'[r].jti] \in ended' \union overlapped'
  BY <1>5, <1>9 DEF Expire, At
<1>10. ASSUME NEW q \in Requests, Fail(q)
       PROVE  req'[r].jti \in sessions' \/ login'[req'[r].jti] \in ended' \union overlapped'
  BY <1>5, <1>6, <1>10, IdleType DEF Fail
<1>11. ASSUME NEW q \in Requests, Arrive(q)
       PROVE  req'[r].jti \in sessions' \/ login'[req'[r].jti] \in ended' \union overlapped'
  <2>1. ASSUME NEW j \in Jtis, Login(q, j) \/ RefreshGuard(q, j) \/ LogoutFinds(q, j)
        PROVE  /\ At(r, "refresh.delete") /\ req'[r].jti = req[r].jti
               /\ sessions \subseteq sessions'
    <3>1. /\ [Idle EXCEPT !.at = "login.create", !.new = j] \in Request
          /\ [Idle EXCEPT !.at = "refresh.verify", !.jti = j] \in Request
          /\ [Idle EXCEPT !.at = "logout.delete", !.jti = j] \in Request
          /\ [Idle EXCEPT !.at = "login.create", !.new = j].at = "login.create"
          /\ [Idle EXCEPT !.at = "refresh.verify", !.jti = j].at = "refresh.verify"
          /\ [Idle EXCEPT !.at = "logout.delete", !.jti = j].at = "logout.delete"
      BY DEF Idle, Request, Step
    <3>2. CASE Login(q, j)
      BY <1>6, <3>1, <3>2 DEF Login
    <3>3. CASE RefreshGuard(q, j)
      BY <1>6, <3>1, <3>3 DEF RefreshGuard
    <3>4. CASE LogoutFinds(q, j)
      BY <1>6, <3>1, <3>4 DEF LogoutFinds
    <3> QED
      BY <2>1, <3>2, <3>3, <3>4
  <2>2. CASE LogoutAllDevices(q)
    BY <1>3, <1>4, <2>2 DEF LogoutAllDevices, At
  <2> QED
    BY <1>5, <1>11, <2>1, <2>2 DEF Arrive
<1>12. ASSUME NEW q \in Requests, Progress(q)
       PROVE  req'[r].jti \in sessions' \/ login'[req'[r].jti] \in ended' \union overlapped'
  <2>1. CASE LoginCreates(q) \/ RefreshCreates(q)
    BY <1>5, <1>7, <2>1 DEF LoginCreates, RefreshCreates, CreateSession, Step
  <2>2. CASE Reply(q) \/ RefreshMisses(q)
    BY <1>5, <1>6, <2>2, IdleType DEF Reply, RefreshMisses
  <2>3. CASE RefreshVerify(q)
    BY <1>5, <1>7, <2>3 DEF RefreshVerify, Step
  <2>4. CASE RefreshDeletesExpired(q) \/ LogoutDeletes(q)
    <3>1. /\ At(r, "refresh.delete") /\ req'[r].jti = req[r].jti
          /\ DeleteSessionByJti(req[q].jti) /\ Ends(req[q].jti)
      BY <1>6, <2>4, IdleType DEF RefreshDeletesExpired, LogoutDeletes
    <3>2. req[r].jti \in sessions' \/ login[req[r].jti] \in ended' \union overlapped'
      BY <1>4, <3>1 DEF DeleteSessionByJti, Ends
    <3> QED
      BY <1>3, <3>1, <3>2
  <2>5. CASE RefreshDeletes(q)
    <3>1. /\ q # r /\ At(r, "refresh.delete") /\ req'[r].jti = req[r].jti
          /\ At(q, "refresh.delete") /\ sessions' = sessions \ {req[q].jti}
          /\ overlapped' = overlapped
      BY <1>7, <2>5 DEF RefreshDeletes, DeleteSessionByJti, Step
    <3>2. req[q].jti = req[r].jti => login[req[r].jti] \in overlapped
      BY <1>4, <3>1 DEF Inv, DbSessionInv, OneRightInv, Refreshing
    <3> QED
      BY <1>3, <1>4, <3>1, <3>2
  <2>6. ASSUME NEW j \in Jtis, RefreshFinds(q, j)
        PROVE  req'[r].jti \in sessions' \/ login'[req'[r].jti] \in ended' \union overlapped'
    <3> DEFINE local == [req[q] EXCEPT !.at = "refresh.delete", !.new = j]
    <3>1. local \in Request /\ local.jti = req[q].jti
      BY DEF Inv, TypeOK, Request, Step
    <3>2. req'[q] = local /\ \A p \in Requests : p # q => req'[p] = req[p]
      BY <2>6, <3>1, BecomesEffect DEF RefreshFinds, Inv
    <3>3. sessions' = sessions /\ req[q].jti \in sessions
      BY <2>6 DEF RefreshFinds, SessionByJti
    <3> QED
      BY <1>5, <3>1, <3>2, <3>3 DEF At
  <2> QED
    BY <1>12, <2>1, <2>2, <2>3, <2>4, <2>5, <2>6 DEF Progress
<1> QED
  BY <1>8, <1>9, <1>10, <1>11, <1>12 DEF Next

\* RotatingSession does not see a change of the login l.
Same(l) == UNCHANGED <<RightOf(l), HandedOf(l), ExchangedOf(l)>>

\* RotatingSession begins l, hands out or exchanges a token of l, or strands it.
Moves(l) ==
  \/ /\ RightOf(l) = "new" /\ RightOf(l)' = "issuing"
     /\ UNCHANGED <<HandedOf(l), ExchangedOf(l)>>
  \/ /\ RightOf(l) = "issuing" /\ RightOf(l)' = "held"
     /\ \E t \in Jtis \ HandedOf(l) : HandedOf(l)' = HandedOf(l) \union {t}
     /\ UNCHANGED ExchangedOf(l)
  \/ /\ RightOf(l) = "held" /\ RightOf(l)' = "issuing"
     /\ \E t \in Jtis : /\ HandedOf(l) \ ExchangedOf(l) = {t}
                        /\ ExchangedOf(l)' = ExchangedOf(l) \union {t}
     /\ UNCHANGED HandedOf(l)
  \/ /\ RightOf(l) = "issuing" /\ RightOf(l)' = "stranded"
     /\ UNCHANGED <<HandedOf(l), ExchangedOf(l)>>

\* RotatingSession ends or excuses l.
Closes(l) == <<RightOf(l), RightOf(l)'>> \in Rotation!Closing

\* One login moves, or some close: a step of RotatingSession.
LEMMA OneMoves ==
  ASSUME NEW l \in Jtis, Moves(l), \A k \in Jtis \ {l} : Same(k)
  PROVE  Rotation!Next
<1>1. /\ [k \in Jtis |-> RightOf(k)]' = [[k \in Jtis |-> RightOf(k)] EXCEPT ![l] = RightOf(l)']
      /\ [k \in Jtis |-> HandedOf(k)]' = [[k \in Jtis |-> HandedOf(k)] EXCEPT ![l] = HandedOf(l)']
      /\ [k \in Jtis |-> ExchangedOf(k)]'
           = [[k \in Jtis |-> ExchangedOf(k)] EXCEPT ![l] = ExchangedOf(l)']
  BY DEF Same
<1>2. /\ HandedOf(l)' = HandedOf(l) => UNCHANGED [k \in Jtis |-> HandedOf(k)]
      /\ ExchangedOf(l)' = ExchangedOf(l) => UNCHANGED [k \in Jtis |-> ExchangedOf(k)]
  BY DEF Same
<1>3. CASE RightOf(l) = "new"
  <2>1. Rotation!Begin(l)
    BY <1>1, <1>2, <1>3 DEF Moves, Rotation!Begin
  <2> QED
    BY <2>1 DEF Rotation!Next
<1>4. CASE RightOf(l) = "issuing" /\ RightOf(l)' = "held"
  <2>1. PICK t \in Jtis \ HandedOf(l) : HandedOf(l)' = HandedOf(l) \union {t}
    BY <1>4 DEF Moves
  <2>2. Rotation!HandOut(l, t)
    BY <1>1, <1>2, <1>4, <2>1 DEF Moves, Rotation!HandOut
  <2> QED
    BY <2>1, <2>2 DEF Rotation!Next
<1>5. CASE RightOf(l) = "held"
  <2>1. PICK t \in Jtis : /\ HandedOf(l) \ ExchangedOf(l) = {t}
                          /\ ExchangedOf(l)' = ExchangedOf(l) \union {t}
    BY <1>5 DEF Moves
  <2>2. Rotation!Exchange(l, t)
    BY <1>1, <1>2, <1>5, <2>1 DEF Moves, Rotation!Exchange
  <2> QED
    BY <2>2 DEF Rotation!Next
<1>6. CASE RightOf(l) = "issuing" /\ RightOf(l)' = "stranded"
  <2>1. Rotation!Strand(l)
    BY <1>1, <1>2, <1>6 DEF Moves, Rotation!Strand
  <2> QED
    BY <2>1 DEF Rotation!Next
<1> QED
  BY <1>3, <1>4, <1>5, <1>6 DEF Moves

\* Some logins end, or meet a race, and the others stay.
LEMMA SomeClose ==
  ASSUME \A l \in Jtis : Same(l) \/ Closes(l)
  PROVE  Rotation!Next
<1>1. \A l \in Jtis : RightOf(l)' \in Rotation!Right
  BY DEF RightOf, Rotation!Right, Rotation!Live
<1>2. \A l \in Jtis : RightOf(l)' # RightOf(l) => Closes(l)
  BY DEF Same
<1>3. \A l \in Jtis : Closes(l) => /\ RightOf(l)' # RightOf(l)
                                   /\ HandedOf(l)' = {} /\ ExchangedOf(l)' = {}
  BY DEF Closes, Rotation!Closing, Rotation!Live, HandedOf, ExchangedOf, KeepsPromise
<1>4. \A l \in Jtis : /\ HandedOf(l)' = IF RightOf(l)' = RightOf(l) THEN HandedOf(l) ELSE {}
                      /\ ExchangedOf(l)' = IF RightOf(l)' = RightOf(l) THEN ExchangedOf(l) ELSE {}
  BY <1>2, <1>3 DEF Same
<1>5. Rotation!Close
  BY <1>1, <1>2, <1>4 DEF Rotation!Close, Closes
<1> QED
  BY <1>5 DEF Rotation!Next

\* A step that RotatingSession does not see.
LEMMA NoneMoves ==
  ASSUME \A l \in Jtis : Same(l)
  PROVE  UNCHANGED Rotation!vars
BY DEF Same, Rotation!vars
-----------------------------------------------------------------------------
(* What each action does to each login. *)

Excused(l) == l \in lost \union overlapped

\* RotatingSession sees of a login whether it has begun, has ended or is
\* excused, whether a request will hand out tokens of it, and which of its
\* tokens are held, have a row, and are deleted.
LEMMA Unmoved ==
  ASSUME NEW l \in Jtis,
         Excused(l)' <=> Excused(l), Begun(l)' <=> Begun(l), l \in ended' <=> l \in ended,
         (\E r \in Requests : Issues(r, l))' <=> (\E r \in Requests : Issues(r, l)),
         TokensOf(l)' = TokensOf(l),
         TokensOf(l) \intersect sessions' = TokensOf(l) \intersect sessions,
         TokensOf(l) \intersect deleted' = TokensOf(l) \intersect deleted
  PROVE  Same(l)
<1>1. RightOf(l)' = RightOf(l)
  BY DEF RightOf, Excused
<1>2. HandedOf(l)' = HandedOf(l) /\ (HandedOf(l) = TokensOf(l) \/ HandedOf(l) = {})
  BY <1>1 DEF HandedOf, KeepsPromise
<1>3. ExchangedOf(l)' = ExchangedOf(l)
  BY <1>2 DEF ExchangedOf
<1> QED
  BY <1>1, <1>2, <1>3 DEF Same

\* A login that is excused, or that has ended, stays where it is.
LEMMA FinalStays ==
  ASSUME NEW l \in Jtis,
         \/ Excused(l) /\ Excused(l)'
         \/ /\ ~Excused(l) /\ ~Excused(l)' /\ l \in ended /\ l \in ended'
            /\ Begun(l) /\ Begun(l)'
  PROVE  Same(l)
BY DEF Same, RightOf, HandedOf, ExchangedOf, KeepsPromise, Excused

\* A login is begun as soon as it has ended, or a request acts on it.
LEMMA BegunLogins ==
  ASSUME Inv, NEW j \in minted
  PROVE  Begun(login[j]) /\ login[j] \in Jtis
BY DEF Begun, Inv, TypeOK

\* Of a login that keeps its promise, the request that issues is alone, its
\* tokens are new, and nothing else has a row.
LEMMA OneIssuer ==
  ASSUME Inv, NEW r \in Requests, NEW l \in Jtis, ~Excused(l), l \notin ended, Issues(r, l)
  PROVE  /\ \A q \in Requests : Issues(q, l) => q = r
         /\ \A j \in sessions : login[j] = l => At(r, "reply") /\ j = req[r].new
         /\ At(r, "reply") => req[r].new \in sessions
         /\ TokensOf(l) \intersect sessions = {}
         /\ req[r].new \in minted \ held
<1>1. /\ l \in minted \ overlapped /\ login[req[r].new] = l
      /\ \A q \in Requests : Issues(q, l) => Minting(q) /\ FreshNew(q)
  BY DEF Issues, Minting, Inv, TypeOK, DbSessionInv, FreshInv, FreshNew, Excused, At
<1>2. At(r, "reply") => req[r].new \in sessions
  BY <1>1 DEF FreshNew, At, SessionByJti
<1>3. \A j \in sessions : login[j] = l => At(r, "reply") /\ j = req[r].new
  <2>1. CASE At(r, "login.create")
    BY <1>1, <2>1 DEF Inv, DbSessionInv, DescentInv, FreshNew
  <2>2. CASE At(r, "refresh.create")
    BY <1>1, <2>2
       DEF Inv, DbSessionInv, DescentInv, OneRightInv, Refreshing, At
  <2>3. CASE At(r, "reply")
    BY <1>1, <1>2, <2>3 DEF Inv, DbSessionInv, OneRowPerLogin
  <2> QED
    BY <2>1, <2>2, <2>3 DEF Issues, At
<1>4. req[r].new \in minted \ held
  BY <1>1 DEF FreshNew
<1>5. ASSUME NEW q \in Requests, Issues(q, l), q # r PROVE FALSE
  <2>1. req[q].new # req[r].new /\ {req[q].new, req[r].new} \subseteq minted /\ login[req[q].new] = l
    BY <1>1, <1>5 DEF FreshNew, Issues
  <2>2. ~At(r, "login.create") /\ ~At(q, "login.create")
    BY <1>1, <2>1 DEF Inv, DbSessionInv, DescentInv
  <2>3. ~(At(r, "refresh.create") /\ At(q, "refresh.create"))
    BY <1>1, <1>5, <2>1 DEF Inv, DbSessionInv, DescentInv, OneRightInv, Refreshing, At
  <2>4. ~At(q, "reply")
    <3>1. At(q, "reply") => req[q].new \in sessions
      BY <1>1, <1>5, <2>1 DEF FreshNew, At, SessionByJti
    <3> QED
      BY <1>3, <2>1, <3>1
  <2>5. At(r, "reply") /\ At(q, "refresh.create")
    BY <1>5, <2>2, <2>3, <2>4 DEF Issues, At
  <2>6. Refreshing(q, l)
    BY <2>1, <2>5 DEF Inv, DbSessionInv, DescentInv, Refreshing
  <2> QED
    BY <1>1, <1>2, <2>1, <2>5, <2>6 DEF Inv, DbSessionInv, OneRightInv, At
<1> QED
  BY <1>2, <1>3, <1>4, <1>5 DEF TokensOf

\* Of a login that keeps its promise, a refresh about to delete its row finds
\* it, no request issues, and the other tokens its client holds are spent.
LEMMA OneRefresh ==
  ASSUME Inv, RowInv, NEW r \in Requests, At(r, "refresh.delete"),
         ~Excused(login[req[r].jti])
  PROVE  /\ login[req[r].jti] \notin ended
         /\ \A q \in Requests : ~Issues(q, login[req[r].jti])
         /\ req[r].jti \in TokensOf(login[req[r].jti]) \intersect sessions
         /\ TokensOf(login[req[r].jti]) \ deleted = {req[r].jti}
<1> DEFINE jti == req[r].jti
           l == login[jti]
<1>1. jti \in held /\ jti \in minted /\ l \in minted \ overlapped /\ l \in Jtis /\ l \notin lost
  BY DEF Inv, TypeOK, DbSessionInv, PresentedInv, Excused, At
<1>2. Refreshing(r, l)
  BY DEF Refreshing
<1>3. l \notin ended
  BY <1>1, <1>2 DEF Inv, DbSessionInv, NoRightInv
<1>4. jti \in sessions /\ jti \notin deleted
  BY <1>1, <1>3 DEF RowInv, SessionByJti, Inv, DbSessionInv, DeletedNeverReturns
<1>5. \A j \in sessions : login[j] = l => j = jti
  BY <1>1, <1>4 DEF Inv, DbSessionInv, OneRowPerLogin
<1>6. \A q \in Requests : ~Issues(q, l)
  <2> SUFFICES ASSUME NEW q \in Requests, Issues(q, l) PROVE FALSE
    OBVIOUS
  <2> QED
    BY <1>1, <1>3, <1>4, <1>5, OneIssuer DEF Excused
<1>7. \A j \in TokensOf(l) : j # jti => j \in deleted
  BY <1>1, <1>3, <1>5 DEF RowInv, TokensOf
<1> QED
  BY <1>1, <1>3, <1>4, <1>6, <1>7 DEF TokensOf

\* Steps that touch neither rows nor tokens, of a request that does not issue
\* before or after: RefreshGuard, RefreshVerify, RefreshMisses, LogoutFinds, a
\* failure before the row is deleted, and an expiry.
LEMMA QuietRotation ==
  ASSUME NEW r \in Requests, \A q \in Requests : q # r => req'[q] = req[q],
         \A l \in Jtis : ~Issues(r, l) /\ ~Issues(r, l)',
         UNCHANGED <<sessions, minted, held, login, deleted, ended, lost, overlapped>>
  PROVE  UNCHANGED Rotation!vars
<1> SUFFICES ASSUME NEW l \in Jtis PROVE Same(l)
  BY NoneMoves
<1>1. (\E q \in Requests : Issues(q, l))' <=> (\E q \in Requests : Issues(q, l))
  BY DEF Issues
<1>2. /\ Excused(l)' <=> Excused(l)
      /\ Begun(l)' <=> Begun(l)
      /\ TokensOf(l)' = TokensOf(l)
  BY DEF Excused, Begun, TokensOf
<1> QED
  BY <1>1, <1>2, Unmoved

\* login begins a session.
LEMMA LoginRotation ==
  ASSUME Inv, NEW r \in Requests, NEW j \in Jtis, Login(r, j)
  PROVE  Rotation!Next
<1> DEFINE local == [Idle EXCEPT !.at = "login.create", !.new = j]
<1>1. local \in Request /\ local.at = "login.create" /\ local.new = j
  BY DEF Idle, Request, Step
<1>2. Becomes(r, local)
  BY DEF Login
<1> HIDE DEF local
<1>3. req'[r] = local /\ \A q \in Requests : q # r => req'[q] = req[q]
  BY <1>1, <1>2, BecomesEffect DEF Inv
<1>4. /\ j \notin minted /\ minted' = minted \union {j} /\ At(r, "idle")
      /\ login' = [login EXCEPT ![j] = j]
      /\ UNCHANGED <<sessions, held, expired, deleted, ended, lost, overlapped, cut>>
  BY DEF Login
<1>5. login'[j] = j /\ \A i \in minted : login'[i] = login[i] /\ login[i] \in minted
  BY <1>4 DEF Inv, TypeOK
<1>6. \A q \in Requests, l \in Jtis : Issues(q, l) => q # r /\ req[q].new \in minted
  BY <1>4 DEF Issues, Minting, At, Inv, DbSessionInv, FreshInv, FreshNew
<1>7. \A q \in Requests : q # r /\ req[q].at \in {"login.create", "refresh.create", "reply"} =>
        req[q].new \in minted
  BY DEF Minting, At, Inv, DbSessionInv, FreshInv, FreshNew
<1>8. \A q \in Requests, l \in Jtis : q # r => (Issues(q, l)' <=> Issues(q, l))
  BY <1>3, <1>5, <1>7 DEF Issues
<1>9. \A l \in Jtis : Issues(r, l)' <=> l = j
  BY <1>1, <1>3, <1>5 DEF Issues
<1>10. \A l \in Jtis : /\ TokensOf(l)' = TokensOf(l)
                       /\ Excused(l)' <=> Excused(l)
                       /\ Begun(l)' <=> l = j \/ Begun(l)
  BY <1>4, <1>5 DEF TokensOf, Excused, Begun, Inv, TypeOK
<1>11. ASSUME NEW l \in Jtis \ {j} PROVE Same(l)
  BY <1>4, <1>6, <1>8, <1>9, <1>10, Unmoved
<1>12. ~Begun(j) /\ Begun(j)' /\ ~Excused(j) /\ ~Excused(j)' /\ j \notin ended' /\ TokensOf(j) = {}
  BY <1>4, <1>5, <1>10 DEF Begun, Excused, TokensOf, Inv, TypeOK
<1>13. RightOf(j) = "new" /\ RightOf(j)' = "issuing"
  BY <1>9, <1>12 DEF RightOf, Excused
<1>14. Moves(j)
  BY <1>10, <1>12, <1>13 DEF Moves, HandedOf, ExchangedOf, KeepsPromise
<1> QED
  BY <1>11, <1>14, OneMoves

\* createSession stores a row for tokens that no client holds yet: RotatingSession
\* sees nothing of it.
LEMMA CreateRotation ==
  ASSUME Inv, NEW r \in Requests,
         At(r, "login.create") \/ At(r, "refresh.create"),
         CreateSession(req[r].new), Goto(r, "reply"),
         UNCHANGED <<minted, held, expired, history>>
  PROVE  UNCHANGED Rotation!vars
<1> SUFFICES ASSUME NEW l \in Jtis PROVE Same(l)
  BY NoneMoves
<1>1. /\ req'[r].at = "reply" /\ req'[r].new = req[r].new
      /\ \A q \in Requests : q # r => req'[q] = req[q]
  BY GotoEffect DEF Inv, Step
<1>2. \A q \in Requests : Issues(q, l)' <=> Issues(q, l)
  BY <1>1 DEF Issues, At, history
<1>3. req[r].new \notin held /\ sessions' = sessions \union {req[r].new}
  BY DEF Inv, DbSessionInv, FreshInv, FreshNew, Minting, At, CreateSession
<1>4. /\ TokensOf(l)' = TokensOf(l)
      /\ TokensOf(l) \intersect sessions' = TokensOf(l) \intersect sessions
  BY <1>3 DEF TokensOf, history
<1>5. (Excused(l)' <=> Excused(l)) /\ (Begun(l)' <=> Begun(l)) /\ ended' = ended /\ deleted' = deleted
  BY DEF Excused, Begun, history
<1> QED
  BY <1>2, <1>4, <1>5, Unmoved

\* The tokens reach the client: of a login that keeps its promise, the client
\* holds the right again.
LEMMA ReplyRotation ==
  ASSUME Inv, NEW r \in Requests, Reply(r)
  PROVE  Rotation!Next
<1> PICK new, m : new = req[r].new /\ m = login[new]
  OBVIOUS
<1>1. req'[r] = Idle /\ \A q \in Requests : q # r => req'[q] = req[q]
  BY IdleType, BecomesEffect DEF Inv, Reply
<1>2. /\ held' = held \union {new} /\ At(r, "reply")
      /\ UNCHANGED <<sessions, minted, expired, history>>
  BY DEF Reply
<1>3. new \in minted \ held /\ new \in Jtis /\ m \in Jtis /\ Begun(m) /\ Issues(r, m)
  BY <1>2 DEF Inv, TypeOK, DbSessionInv, FreshInv, FreshNew, Minting, At, Begun, Issues
<1>4. \A l \in Jtis : /\ Excused(l)' <=> Excused(l)
                      /\ Begun(l)' <=> Begun(l)
                      /\ l # m => TokensOf(l)' = TokensOf(l)
  BY <1>2 DEF Excused, Begun, TokensOf, history
<1>5. \A q \in Requests, l \in Jtis : Issues(q, l)' <=> q # r /\ Issues(q, l)
  BY <1>1, <1>2, IdleType DEF Issues, history
<1>6. ASSUME NEW l \in Jtis \ {m} PROVE Same(l)
  <2>1. ~Issues(r, l)
    BY <1>6 DEF Issues
  <2> QED
    BY <1>2, <1>4, <1>5, <2>1, Unmoved DEF history
<1>7. CASE Excused(m) \/ m \in ended
  <2>1. Same(m)
    BY <1>2, <1>3, <1>4, <1>7, FinalStays DEF history
  <2> QED
    BY <1>3, <1>6, <2>1, SomeClose
<1>8. CASE ~Excused(m) /\ m \notin ended
  <2>1. /\ \A q \in Requests : Issues(q, m) => q = r
        /\ new \in sessions
        /\ new \notin deleted
    BY <1>2, <1>3, <1>8, OneIssuer DEF Inv, DbSessionInv, DeletedNeverReturns
  <2>2. TokensOf(m)' = TokensOf(m) \union {new} /\ new \notin TokensOf(m)
    BY <1>2, <1>3 DEF TokensOf, history
  <2>3. RightOf(m) = "issuing"
    BY <1>3, <1>8 DEF RightOf, Excused
  <2>4. RightOf(m)' = "held"
    <3>1. ~Excused(m)' /\ Begun(m)' /\ m \notin ended' /\ ~(\E q \in Requests : Issues(q, m))'
      BY <1>2, <1>3, <1>4, <1>5, <1>8, <2>1 DEF history
    <3>2. (TokensOf(m) \intersect sessions)' # {}
      BY <1>2, <2>1, <2>2
    <3> QED
      BY <3>1, <3>2 DEF RightOf, Excused
  <2>5. HandedOf(m) = TokensOf(m) /\ HandedOf(m)' = TokensOf(m)'
    BY <2>3, <2>4 DEF HandedOf, KeepsPromise
  <2>6. ExchangedOf(m)' = ExchangedOf(m)
    BY <1>2, <2>1, <2>2, <2>5 DEF ExchangedOf, history
  <2>7. Moves(m)
    BY <1>3, <2>2, <2>3, <2>4, <2>5, <2>6 DEF Moves
  <2> QED
    BY <1>3, <1>6, <2>7, OneMoves
<1> QED
  BY <1>7, <1>8

\* The row is deleted: of a login that keeps its promise, the one token that
\* its client could exchange is exchanged.
LEMMA RefreshDeletesRotation ==
  ASSUME Inv, RowInv, NEW r \in Requests, RefreshDeletes(r)
  PROVE  Rotation!Next
<1> PICK jti, m : jti = req[r].jti /\ m = login[jti]
  OBVIOUS
<1>1. /\ req'[r].at = "refresh.create" /\ req'[r].new = req[r].new
      /\ \A q \in Requests : q # r => req'[q] = req[q]
  BY GotoEffect DEF Inv, Step, RefreshDeletes
<1>2. /\ At(r, "refresh.delete")
      /\ sessions' = sessions \ {jti} /\ deleted' = deleted \union {jti}
      /\ UNCHANGED <<minted, held, expired, login, ended, lost, overlapped, cut>>
  BY DEF RefreshDeletes, DeleteSessionByJti
<1>3. /\ jti \in held /\ jti \in minted /\ jti \in Jtis /\ m \in Jtis
      /\ login[req[r].new] = m
  BY <1>2 DEF Inv, TypeOK, DbSessionInv, PresentedInv, DescentInv, At
<1>4. \A l \in Jtis : /\ Excused(l)' <=> Excused(l)
                      /\ Begun(l)' <=> Begun(l)
                      /\ TokensOf(l)' = TokensOf(l)
  BY <1>2 DEF Excused, Begun, TokensOf
<1>5. \A q \in Requests, l \in Jtis : Issues(q, l)' <=> Issues(q, l) \/ (q = r /\ l = m)
  BY <1>1, <1>2, <1>3 DEF Issues, At
<1>6. ASSUME NEW l \in Jtis \ {m} PROVE Same(l)
  <2>1. jti \notin TokensOf(l)
    BY DEF TokensOf
  <2> QED
    BY <1>2, <1>4, <1>5, <2>1, Unmoved
<1>7. CASE Excused(m)
  <2>1. Same(m)
    BY <1>3, <1>4, <1>7, FinalStays
  <2> QED
    BY <1>3, <1>6, <2>1, SomeClose
<1>8. CASE ~Excused(m)
  <2>1. /\ m \notin ended
        /\ \A q \in Requests : ~Issues(q, m)
        /\ jti \in TokensOf(m) \intersect sessions
        /\ TokensOf(m) \ deleted = {jti}
    BY <1>2, <1>8, OneRefresh
  <2>2. Begun(m)
    BY <1>3 DEF Begun
  <2>3. RightOf(m) = "held"
    BY <1>8, <2>1, <2>2 DEF RightOf, Excused
  <2>4. RightOf(m)' = "issuing"
    BY <1>2, <1>3, <1>4, <1>5, <1>8, <2>1, <2>2 DEF RightOf, Excused
  <2>5. HandedOf(m) = TokensOf(m) /\ HandedOf(m)' = TokensOf(m)
    BY <1>3, <1>4, <2>3, <2>4 DEF HandedOf, KeepsPromise
  <2>6. /\ HandedOf(m) \ ExchangedOf(m) = {jti}
        /\ ExchangedOf(m)' = ExchangedOf(m) \union {jti}
    BY <1>2, <2>1, <2>5 DEF ExchangedOf
  <2>7. Moves(m)
    BY <1>3, <2>3, <2>4, <2>5, <2>6 DEF Moves
  <2> QED
    BY <1>3, <1>6, <2>7, OneMoves
<1> QED
  BY <1>7, <1>8

\* A refresh that finds the row of a login whose row another one has found too
\* excuses the login; otherwise RotatingSession sees nothing of it.
LEMMA RefreshFindsRotation ==
  ASSUME Inv, NEW r \in Requests, NEW j \in Jtis, RefreshFinds(r, j)
  PROVE  Rotation!Next
<1> DEFINE local == [req[r] EXCEPT !.at = "refresh.delete", !.new = j]
<1> PICK m : m = login[req[r].jti]
  OBVIOUS
<1>1. local \in Request /\ local.at = "refresh.delete"
  BY DEF Inv, TypeOK, Request, Step
<1>2. Becomes(r, local)
  BY DEF RefreshFinds
<1> HIDE DEF local
<1>3. req'[r] = local /\ \A q \in Requests : q # r => req'[q] = req[q]
  BY <1>1, <1>2, BecomesEffect DEF Inv
<1>4. /\ j \notin minted /\ minted' = minted \union {j} /\ At(r, "refresh.find")
      /\ login' = [login EXCEPT ![j] = m]
      /\ overlapped \subseteq overlapped' /\ overlapped' \subseteq overlapped \union {m}
      /\ UNCHANGED <<sessions, held, expired, deleted, ended, lost, cut>>
  BY DEF RefreshFinds
<1>5. req[r].jti \in minted /\ m \in Jtis /\ Begun(m)
  BY <1>4 DEF Inv, TypeOK, DbSessionInv, PresentedInv, At, Begun
<1>6. login'[j] = m /\ \A i \in minted : login'[i] = login[i]
  BY <1>4, <1>5 DEF Inv, TypeOK
<1>7. \A q \in Requests : q # r /\ req[q].at \in {"login.create", "refresh.create", "reply"} =>
        req[q].new \in minted
  BY DEF Minting, At, Inv, DbSessionInv, FreshInv, FreshNew
<1>8. \A q \in Requests, l \in Jtis : Issues(q, l)' <=> Issues(q, l)
  BY <1>1, <1>3, <1>4, <1>6, <1>7 DEF Issues, At
<1>9. \A l \in Jtis : /\ TokensOf(l)' = TokensOf(l)
                      /\ Begun(l)' <=> Begun(l)
                      /\ Excused(l) => Excused(l)'
                      /\ l # m => (Excused(l)' <=> Excused(l))
  BY <1>4, <1>5, <1>6 DEF TokensOf, Excused, Begun, Inv, TypeOK
<1>10. ASSUME NEW l \in Jtis, Excused(l)' <=> Excused(l) PROVE Same(l)
  BY <1>4, <1>8, <1>9, <1>10, Unmoved
<1>11. CASE ~Excused(m) /\ Excused(m)'
  <2>1. Closes(m)
    BY <1>5, <1>11 DEF Closes, RightOf, Excused, Rotation!Closing, Rotation!Live
  <2> QED
    BY <1>9, <1>10, <2>1, SomeClose
<1> QED
  BY <1>9, <1>10, <1>11, SomeClose

\* logout, and a refresh with an expired token, end the login.
LEMMA EndRotation ==
  ASSUME Inv, NEW r \in Requests,
         At(r, "refresh.deleteExpired") \/ At(r, "logout.delete"),
         DeleteSessionByJti(req[r].jti), Becomes(r, Idle), Ends(req[r].jti),
         UNCHANGED <<minted, held, expired, login, overlapped, cut>>
  PROVE  Rotation!Next
<1> PICK jti, m : jti = req[r].jti /\ m = login[jti]
  OBVIOUS
<1>1. req'[r] = Idle /\ \A q \in Requests : q # r => req'[q] = req[q]
  BY IdleType, BecomesEffect DEF Inv
<1>2. jti \in minted /\ m \in Jtis /\ Begun(m)
  BY DEF Inv, TypeOK, DbSessionInv, PresentedInv, At, Begun
<1>3. /\ sessions' = sessions \ {jti} /\ deleted' = deleted \union {jti}
      /\ ended' = ended \union {m} /\ lost \subseteq lost' /\ lost' \subseteq lost \union {m}
  BY DEF DeleteSessionByJti, Ends
<1>4. \A q \in Requests, l \in Jtis : Issues(q, l)' <=> Issues(q, l)
  BY <1>1, IdleType DEF Issues, At
<1>5. \A l \in Jtis : /\ TokensOf(l)' = TokensOf(l)
                      /\ Begun(l)' <=> Begun(l)
                      /\ l # m => (Excused(l)' <=> Excused(l))
  BY <1>3 DEF TokensOf, Begun, Excused
<1>6. ASSUME NEW l \in Jtis \ {m} PROVE Same(l)
  <2>1. jti \notin TokensOf(l)
    BY DEF TokensOf
  <2> QED
    BY <1>3, <1>4, <1>5, <2>1, Unmoved
<1>7. Excused(m) => Excused(m)'
  BY <1>3 DEF Excused
<1>8. CASE Excused(m) \/ (m \in ended /\ ~Excused(m)')
  <2>1. Same(m)
    BY <1>2, <1>3, <1>5, <1>7, <1>8, FinalStays
  <2> QED
    BY <1>6, <2>1, SomeClose
<1>9. CASE ~Excused(m) /\ (m \notin ended \/ Excused(m)')
  <2>1. Closes(m)
    BY <1>2, <1>3, <1>5, <1>9 DEF Closes, RightOf, Excused, Rotation!Closing, Rotation!Live
  <2> QED
    BY <1>6, <2>1, SomeClose
<1> QED
  BY <1>8, <1>9

\* logoutAllDevices ends every login that has a row or a client.
LEMMA LogoutAllRotation ==
  ASSUME Inv, NEW r \in Requests, LogoutAllDevices(r)
  PROVE  Rotation!Next
<1> PICK InUse : InUse = {login[j] : j \in sessions \union held}
  OBVIOUS
<1>1. /\ sessions' = {}
      /\ deleted' = deleted \union sessions
      /\ ended' = ended \union InUse
      /\ lost \subseteq lost' /\ lost' \subseteq lost \union InUse
      /\ UNCHANGED <<req, minted, held, expired, login, overlapped, cut>>
  BY DEF LogoutAllDevices, DeleteSessionsByUserId
<1>2. \A l \in InUse : Begun(l)
  BY DEF Inv, TypeOK, DbSessionInv, Begun
<1>3. \A l \in Jtis : /\ TokensOf(l)' = TokensOf(l)
                      /\ Begun(l)' <=> Begun(l)
                      /\ Excused(l) => Excused(l)'
                      /\ l \notin InUse => (Excused(l)' <=> Excused(l))
                      /\ \A q \in Requests : Issues(q, l)' <=> Issues(q, l)
  BY <1>1 DEF TokensOf, Begun, Excused, Issues
<1>4. ASSUME NEW l \in Jtis PROVE Same(l) \/ Closes(l)
  <2>1. CASE l \notin InUse
    <3>1. TokensOf(l) = {}
      BY <2>1 DEF TokensOf
    <3> QED
      BY <1>1, <1>3, <2>1, <3>1, Unmoved
  <2>2. CASE l \in InUse /\ (Excused(l) \/ (l \in ended /\ ~Excused(l)'))
    BY <1>1, <1>2, <1>3, <2>2, FinalStays
  <2>3. CASE l \in InUse /\ ~Excused(l) /\ (l \notin ended \/ Excused(l)')
    BY <1>1, <1>2, <1>3, <2>3 DEF Closes, RightOf, Excused, Rotation!Closing, Rotation!Live
  <2> QED
    BY <2>1, <2>2, <2>3
<1> QED
  BY <1>4, SomeClose

\* A failure strands a login whose next tokens it takes along.
LEMMA FailRotation ==
  ASSUME Inv, NEW r \in Requests, Fail(r)
  PROVE  Rotation!Next
<1> PICK m : m = login[req[r].new]
  OBVIOUS
<1>1. req'[r] = Idle /\ \A q \in Requests : q # r => req'[q] = req[q]
  BY IdleType, BecomesEffect DEF Inv, Fail
<1>2. UNCHANGED <<sessions, minted, held, expired, login, deleted, ended, lost, overlapped>>
  BY DEF Fail
<1>3. \A q \in Requests, l \in Jtis : Issues(q, l)' <=> q # r /\ Issues(q, l)
  BY <1>1, <1>2, IdleType DEF Issues
<1>4. \A l \in Jtis : /\ TokensOf(l)' = TokensOf(l)
                      /\ Begun(l)' <=> Begun(l)
                      /\ Excused(l)' <=> Excused(l)
  BY <1>2 DEF TokensOf, Begun, Excused
<1>5. ASSUME NEW l \in Jtis, ~Issues(r, l) PROVE Same(l)
  BY <1>2, <1>3, <1>4, <1>5, Unmoved
<1>6. \A l \in Jtis : Issues(r, l) => l = m
  BY DEF Issues
<1>7. CASE m \in Jtis /\ Issues(r, m) /\ (Excused(m) \/ m \in ended)
  <2>1. Begun(m)
    BY <1>7 DEF Begun, Issues, Minting, At, Inv, DbSessionInv, FreshInv, FreshNew
  <2>2. Same(m)
    BY <1>2, <1>4, <1>7, <2>1, FinalStays
  <2> QED
    BY <1>5, <1>6, <2>2, SomeClose
<1>8. CASE m \in Jtis /\ Issues(r, m) /\ ~Excused(m) /\ m \notin ended
  <2>1. /\ \A q \in Requests : Issues(q, m) => q = r
        /\ TokensOf(m) \intersect sessions = {}
        /\ Begun(m)
    BY <1>8, OneIssuer DEF Begun, Issues
  <2>2. RightOf(m) = "issuing" /\ RightOf(m)' = "stranded"
    BY <1>2, <1>3, <1>4, <1>8, <2>1 DEF RightOf, Excused
  <2>3. Moves(m)
    BY <1>2, <1>4, <1>8, <2>2 DEF Moves, HandedOf, ExchangedOf, KeepsPromise
  <2> QED
    BY <1>5, <1>6, <1>8, <2>3, OneMoves
<1> QED
  BY <1>5, <1>6, <1>7, <1>8, SomeClose

\* Every step of the code is one of RotatingSession, or none.
LEMMA RotationStep == Inv /\ RowInv /\ [Next]_vars => [Rotation!Next]_(Rotation!vars)
<1> SUFFICES ASSUME Inv, RowInv, [Next]_vars
             PROVE  Rotation!Next \/ UNCHANGED Rotation!vars
  OBVIOUS
<1>1. ASSUME NEW r \in Requests, NEW local \in Request, Becomes(r, local),
             req[r].at \in Waiting \union {"refresh.delete"}, local.at \in Waiting,
             UNCHANGED <<sessions, minted, held, login, deleted, ended, lost, overlapped>>
      PROVE  UNCHANGED Rotation!vars
  <2>1. req'[r] = local /\ \A q \in Requests : q # r => req'[q] = req[q]
    BY <1>1, BecomesEffect DEF Inv
  <2> QED
    BY <1>1, <2>1, QuietRotation DEF Issues, Waiting
<1>2. ASSUME NEW r \in Requests, Arrive(r)
      PROVE  Rotation!Next \/ UNCHANGED Rotation!vars
  <2>1. ASSUME NEW j \in Jtis, RefreshGuard(r, j) \/ LogoutFinds(r, j)
        PROVE  UNCHANGED Rotation!vars
    <3>1. /\ [Idle EXCEPT !.at = "refresh.verify", !.jti = j] \in Request
          /\ [Idle EXCEPT !.at = "logout.delete", !.jti = j] \in Request
          /\ [Idle EXCEPT !.at = "refresh.verify", !.jti = j].at \in Waiting
          /\ [Idle EXCEPT !.at = "logout.delete", !.jti = j].at \in Waiting
      BY DEF Idle, Request, Step, Waiting
    <3>2. CASE RefreshGuard(r, j)
      BY <1>1, <3>1, <3>2 DEF RefreshGuard, At, Waiting, history
    <3>3. CASE LogoutFinds(r, j)
      BY <1>1, <3>1, <3>3 DEF LogoutFinds, At, Waiting, history
    <3> QED
      BY <2>1, <3>2, <3>3
  <2> QED
    BY <1>2, <2>1, LoginRotation, LogoutAllRotation DEF Arrive
<1>3. ASSUME NEW r \in Requests, Progress(r)
      PROVE  Rotation!Next \/ UNCHANGED Rotation!vars
  <2>1. CASE LoginCreates(r) \/ RefreshCreates(r)
    BY <2>1, CreateRotation DEF LoginCreates, RefreshCreates
  <2>2. CASE RefreshDeletesExpired(r) \/ LogoutDeletes(r)
    BY <2>2, EndRotation DEF RefreshDeletesExpired, LogoutDeletes
  <2>3. CASE RefreshVerify(r)
    <3> DEFINE step == IF req[r].jti \in expired THEN "refresh.deleteExpired" ELSE "refresh.find"
    <3>1. step \in Step /\ step \in Waiting /\ Goto(r, step)
      BY <2>3 DEF Step, Waiting, RefreshVerify
    <3> HIDE DEF step
    <3>2. req'[r].at = step /\ \A q \in Requests : q # r => req'[q] = req[q]
      BY <3>1, GotoEffect DEF Inv
    <3> QED
      BY <2>3, <3>1, <3>2, QuietRotation DEF RefreshVerify, Issues, Waiting, At, history
  <2>4. CASE RefreshMisses(r)
    BY <1>1, <2>4, IdleType DEF RefreshMisses, At, Waiting, history
  <2> QED
    BY <1>3, <2>1, <2>2, <2>3, <2>4, ReplyRotation, RefreshFindsRotation, RefreshDeletesRotation
       DEF Progress
<1>4. ASSUME NEW j \in Jtis, Expire(j)
      PROVE  UNCHANGED Rotation!vars
  BY <1>4, NoneMoves
     DEF Expire, history, Same, RightOf, HandedOf, ExchangedOf, KeepsPromise, Begun, TokensOf,
         Issues
<1>5. CASE UNCHANGED vars
  BY <1>5, NoneMoves
     DEF vars, history, Same, RightOf, HandedOf, ExchangedOf, KeepsPromise, Begun, TokensOf,
         Issues
<1> QED
  BY <1>2, <1>3, <1>4, <1>5, FailRotation DEF Next

\* It begins as RotatingSession does.
LEMMA RotationInit == Init => RowInv /\ Rotation!Init
BY DEF Init, Rotation!Init, RowInv, RightOf, HandedOf, ExchangedOf, KeepsPromise, Begun, TokensOf,
       Idle, At

\* The rows of a login that has not ended are where its tokens and refreshes
\* expect them.
THEOREM RowsCorrect == Spec => []RowInv
BY InitInv, NextStep, RotationInit, RowStep, PTL DEF Spec

\* The DB flow keeps the promise of rotation: whatever requests interleave with
\* it, and wherever it fails, each login has one right to the next tokens at a
\* time, until two of its refreshes overlap or its end meets one of them.
THEOREM RotationKept == Spec => ImplementsRotation
<1>1. Init => Rotation!Init
  BY RotationInit
<1> QED
  BY <1>1, InitInv, NextStep, RotationInit, RowStep, RotationStep, PTL
     DEF Spec, ImplementsRotation, Rotation!Spec
=============================================================================
