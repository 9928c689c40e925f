-------------------------- MODULE DbAccountsProofs --------------------------
(***************************************************************************)
(* Proofs about DbAccounts: TypeOK and DbAccountInv are inductive, and the *)
(* properties of the runs follow.  The invariant has three parts that few  *)
(* actions disturb at once: TokenInv, ResetInv and SessionInv.  A          *)
(* lemma for each says when it is kept, and a lemma for each kind of       *)
(* action proves what that action changes.                                 *)
(***************************************************************************)
EXTENDS DbAccounts, TLAPS

Inv == TypeOK /\ DbAccountInv

\* The invariant holds initially.
LEMMA InitType == Init => TypeOK
<1>1. NoUser \in User
  BY DEF NoUser, User, Secret, Plain
<1>2. Idle \in Request
  BY DEF Idle, Request, Step
<1> QED
  BY <1>1, <1>2 DEF Init, TypeOK, TokensTypeOK, TokensInit, SessionsTypeOK

LEMMA InitInv == Init => DbAccountInv
BY DEF Init, NoUser, TokensInit, Rows, Idle, At, Creating, HoldsUnused, Marked,
       HoldsStored, DbAccountInv, TokenInv, CreatingInv, OneToken, LatestTokenKept, ResetInv,
       SessionInv, Storing

\* Idle is the state of a request that is not in progress.
LEMMA IdleType == Idle \in Request /\ Idle.at = "idle"
BY DEF Idle, Request, Step

\* A step of r leaves the other requests alone.
LEMMA BecomesEffect ==
  ASSUME TypeOK, NEW r \in Requests, NEW local \in Request, Becomes(r, local)
  PROVE  /\ req' \in [Requests -> Request]
         /\ req'[r] = local
         /\ \A q \in Requests : q # r => req'[q] = req[q]
BY DEF TypeOK, Becomes

\* Going to another step keeps the local variables.
LEMMA GotoEffect ==
  ASSUME TypeOK, NEW r \in Requests, NEW step \in Step, Goto(r, step)
  PROVE  /\ req' \in [Requests -> Request]
         /\ req'[r] = [req[r] EXCEPT !.at = step]
         /\ req'[r].at = step /\ req'[r].token = req[r].token
         /\ req'[r].mail = req[r].mail /\ req'[r].password = req[r].password
         /\ req'[r].presented = req[r].presented /\ req'[r].jti = req[r].jti
         /\ \A q \in Requests : q # r => req'[q] = req[q]
BY DEF TypeOK, Becomes, Goto, Request

\* A request in progress, like a stored token or session, is of a registered user.
LEMMA Registered ==
  ASSUME Inv
  PROVE  /\ \A r \in Requests : ~At(r, "idle") => user.registered
         /\ Rows # {} => user.registered
         /\ sessions # {} => user.registered
BY DEF Inv, TypeOK, User, DbAccountInv, TokenInv, SessionInv

\* A stored password stays one.
LEMMA PlainType ==
  ASSUME NEW p \in Passwords \union {None} PROVE Plain(p) \in Secret
BY DEF Plain, Secret

LEMMA HashType ==
  ASSUME NEW secret \in Secret PROVE Hash(secret) \in Secret
BY DEF Hash, Secret

-----------------------------------------------------------------------------
(* When the parts of the invariant are kept. *)

LEMMA TokenKept ==
  ASSUME Inv, NEW r \in Requests, user.registered, user'.registered,
         ~Creating(r), ~Creating(r)', HoldsStored(r)' => req'[r].token \in created,
         \A q \in Requests : q # r => req'[q] = req[q],
         made \subseteq made', UNCHANGED <<tokens, tokenHistory>>
  PROVE  TokenInv'
<1>1. \A q \in Requests : Creating(q)' <=> Creating(q)
  BY DEF Creating
<1>2. \A q \in Requests : CreatingInv(q)'
  BY <1>1 DEF Inv, DbAccountInv, TokenInv, CreatingInv, Creating, At, Rows, tokenHistory
<1>3. \A q \in Requests : HoldsStored(q)' => req'[q].token \in created
  BY DEF Inv, DbAccountInv, TokenInv, HoldsStored
<1>4. LatestTokenKept'
  BY DEF Inv, DbAccountInv, TokenInv, LatestTokenKept, Creating, At, Rows, tokenHistory
<1> QED
  BY <1>2, <1>3, <1>4
     DEF Inv, TypeOK, User, DbAccountInv, TokenInv, OneToken, Rows, tokenHistory

LEMMA ResetShrinks ==
  ASSUME Inv,
         \A q \in Requests :
           /\ req'[q].at \in {"reset.user", "reset.mark"} =>
                req[q].at \in {"reset.user", "reset.mark"} /\ req'[q].token = req[q].token
           /\ req'[q].at = "reset.update" => req'[q] = req[q],
         \A t \in created : tokens'[t] = "stored" => tokens[t] = "stored",
         UNCHANGED <<redeemed, twice, shared>>
  PROVE  ResetInv'
<1> SUFFICES ASSUME NEW t \in Tokens, t \notin shared
             PROVE  /\ t \notin twice
                    /\ \A p, q \in Requests : HoldsUnused(p, t)' /\ HoldsUnused(q, t)' => q = p
                    /\ t \in redeemed \/ (\E q \in Requests : Marked(q, t)') =>
                         /\ tokens'[t] # "stored"
                         /\ \A q \in Requests : ~HoldsUnused(q, t)'
                    /\ \A p \in Requests : Marked(p, t)' =>
                         /\ t \notin redeemed
                         /\ \A q \in Requests : Marked(q, t)' => q = p
  BY DEF ResetInv
<1>1. t \in redeemed \/ (\E q \in Requests : Marked(q, t)) => t \in created
  BY DEF Inv, TypeOK, DbAccountInv, TokenInv, Marked, HoldsStored, At
<1>2. /\ \A q \in Requests : HoldsUnused(q, t)' => HoldsUnused(q, t)
      /\ \A q \in Requests : Marked(q, t)' => Marked(q, t)
  BY DEF HoldsUnused, Marked, At
<1>3. /\ t \notin twice
      /\ \A p, q \in Requests : HoldsUnused(p, t) /\ HoldsUnused(q, t) => q = p
      /\ t \in redeemed \/ (\E q \in Requests : Marked(q, t)) =>
           tokens'[t] # "stored" /\ \A q \in Requests : ~HoldsUnused(q, t)
      /\ \A p \in Requests : Marked(p, t) =>
           t \notin redeemed /\ \A q \in Requests : Marked(q, t) => q = p
  BY <1>1 DEF Inv, DbAccountInv, ResetInv
<1> QED
  BY <1>2, <1>3

LEMMA ResetKept ==
  ASSUME Inv, NEW r \in Requests,
         req'[r].at \notin {"reset.user", "reset.mark", "reset.update"},
         \A q \in Requests : q # r => req'[q] = req[q],
         \A t \in created : tokens'[t] = "stored" => tokens[t] = "stored",
         UNCHANGED <<redeemed, twice, shared>>
  PROVE  ResetInv'
BY ResetShrinks

\* The rows, and the sessions on their way to be one, except a fresh one that r
\* is to store, are of those there were.
LEMMA SessionsKept ==
  ASSUME Inv, NEW r \in Requests, user'.registered, ~At(r, "reset.sessions"),
         Storing(r)' => \/ req'[r].jti \in opened' \ opened
                        \/ Storing(r) /\ req'[r].jti = req[r].jti,
         \A q \in Requests : q # r => req'[q] = req[q],
         \A j \in sessions' : j \in sessions \/ (Storing(r) /\ j = req[r].jti),
         opened \subseteq opened', UNCHANGED <<old, spared>>
  PROVE  SessionInv'
<1>1. \A q \in Requests : Storing(q)' => req'[q].jti \in opened'
  BY DEF Inv, DbAccountInv, SessionInv, Storing
<1>2. ASSUME NEW j \in old, j \in sessions' \union Underway'
      PROVE  j \in sessions \union Underway
  <2>1. CASE j \in sessions'
    BY <2>1 DEF Underway
  <2>2. CASE j \in Underway'
    <3>1. PICK q \in Requests : Storing(q)' /\ j = req'[q].jti
      BY <2>2 DEF Underway, Storing
    <3>2. j \in opened
      BY DEF Inv, TypeOK
    <3>3. Storing(q) /\ j = req[q].jti
      BY <3>1, <3>2 DEF Storing
    <3> QED
      BY <3>3 DEF Underway
  <2> QED
    BY <1>2, <2>1, <2>2
<1>3. (\E q \in Requests : At(q, "reset.sessions")) =>
        \E q \in Requests : At(q, "reset.sessions")'
  BY DEF At
<1>4. \/ old \intersect (sessions \union Underway) \subseteq spared
      \/ \E q \in Requests : At(q, "reset.sessions")
  BY DEF Inv, DbAccountInv, SessionInv
<1> QED
  BY <1>1, <1>2, <1>3, <1>4 DEF SessionInv

\* A request that neither stores nor redeems a token goes another step.
LEMMA MoveStep ==
  ASSUME Inv, NEW r \in Requests, user.registered, user' \in User, user'.registered,
         ~Creating(r), ~Creating(r)', HoldsStored(r)' => req'[r].token \in created,
         req'[r].at \notin {"reset.user", "reset.mark", "reset.update"},
         ~At(r, "reset.sessions"), Storing(r)' => req'[r].jti \in opened' \ opened,
         req' \in [Requests -> Request],
         \A q \in Requests : q # r => req'[q] = req[q],
         made \subseteq made', made' \in SUBSET Tokens, known' \in SUBSET created,
         opened \subseteq opened', opened' \in SUBSET Jtis,
         UNCHANGED <<tokens, sessions, history>>
  PROVE  Inv'
<1>1. TypeOK'
  BY DEF Inv, TypeOK, TokensTypeOK, SessionsTypeOK, history, tokenHistory, resetHistory
<1>2. TokenInv'
  BY TokenKept DEF history
<1>3. ResetInv'
  BY ResetKept DEF history, resetHistory
<1>4. SessionInv'
  BY SessionsKept DEF history, resetHistory
<1> QED
  BY <1>1, <1>2, <1>3, <1>4 DEF Inv, DbAccountInv

-----------------------------------------------------------------------------
(* Steps that neither store, redeem nor delete anything. *)

LEMMA NotActivatedStep ==
  ASSUME Inv, NEW r \in Requests, NotActivated(r) PROVE Inv'
<1> DEFINE local == [Idle EXCEPT !.at = "mailLink"]
<1>1. local \in Request /\ local.at = "mailLink"
  BY DEF Idle, Request, Step
<1>2. Becomes(r, local)
  BY DEF NotActivated
<1> HIDE DEF local
<1>3. /\ req' \in [Requests -> Request]
      /\ req'[r] = local
      /\ \A q \in Requests : q # r => req'[q] = req[q]
  BY <1>1, <1>2, BecomesEffect DEF Inv
<1> QED
  BY <1>1, <1>3, MoveStep DEF NotActivated, At, Creating, HoldsStored, Storing, Inv, TypeOK

LEMMA LoginStep ==
  ASSUME Inv, NEW r \in Requests, NEW p \in Passwords, NEW j \in Jtis, Login(r, p, j)
  PROVE  Inv'
<1> DEFINE local == [Idle EXCEPT !.at = "login.create", !.jti = j]
<1>1. local \in Request /\ local.at = "login.create" /\ local.jti = j
  BY DEF Idle, Request, Step
<1>2. Becomes(r, local)
  BY DEF Login
<1> HIDE DEF local
<1>3. /\ req' \in [Requests -> Request]
      /\ req'[r] = local
      /\ \A q \in Requests : q # r => req'[q] = req[q]
  BY <1>1, <1>2, BecomesEffect DEF Inv
<1> QED
  BY <1>1, <1>3, MoveStep DEF Login, At, Creating, HoldsStored, Storing, Inv, TypeOK

\* The ends of register, login, resendVerificationLink and forgotPassword.
LEMMA MailStep ==
  ASSUME Inv, NEW r \in Requests, RegisterMails(r) \/ MailLink(r) \/ MailReset(r)
  PROVE  Inv'
<1>1. /\ req' \in [Requests -> Request]
      /\ req'[r] = Idle
      /\ \A q \in Requests : q # r => req'[q] = req[q]
  BY IdleType, BecomesEffect DEF Inv, RegisterMails, MailLink, MailReset
<1>2. /\ req[r].at \in {"register.mail", "mailLink", "mailReset"}
      /\ user.registered
  BY Registered DEF RegisterMails, MailLink, MailReset, At
<1>3. UNCHANGED <<user, tokens, sessions, made, opened, history>>
  BY DEF RegisterMails, MailLink, MailReset
<1>4. known' \in SUBSET created
  BY DEF RegisterMails, MailLink, MailReset, At, HoldsStored, Inv, TypeOK, DbAccountInv, TokenInv
<1> QED
  BY <1>1, <1>2, <1>3, <1>4, IdleType, MoveStep
     DEF At, Creating, HoldsStored, Storing, Inv, TypeOK

LEMMA VerifyStep ==
  ASSUME Inv, NEW r \in Requests, NEW t \in Tokens, Verify(r, t) PROVE Inv'
<1> DEFINE local == [Idle EXCEPT !.at = "verify.activate", !.token = t,
                                 !.active = user.activated]
<1>1. local \in Request /\ local.at = "verify.activate" /\ local.token = t
  BY DEF Idle, Request, Step, Inv, TypeOK, User
<1>2. Becomes(r, local)
  BY DEF Verify
<1> HIDE DEF local
<1>3. /\ req' \in [Requests -> Request]
      /\ req'[r] = local
      /\ \A q \in Requests : q # r => req'[q] = req[q]
  BY <1>1, <1>2, BecomesEffect DEF Inv
<1>4. t \in Rows /\ t \in created /\ user.registered
  BY Registered DEF Verify, TokenIsValid, Rows, Inv, DbAccountInv, TokenInv
<1> QED
  BY <1>1, <1>3, <1>4, MoveStep DEF Verify, At, Creating, HoldsStored, Storing, Inv, TypeOK

LEMMA VerifyActivatesStep ==
  ASSUME Inv, NEW r \in Requests, VerifyActivates(r) PROVE Inv'
<1> DEFINE local == IF req[r].active THEN Idle ELSE [req[r] EXCEPT !.at = "verify.delete"]
<1>1. /\ local \in Request
      /\ local.at = "idle" \/ (local.at = "verify.delete" /\ local.token = req[r].token)
  <2> DEFINE next == [req[r] EXCEPT !.at = "verify.delete"]
  <2>1. next \in Request /\ next.at = "verify.delete" /\ next.token = req[r].token
    BY DEF Inv, TypeOK, Request, Step
  <2>2. local = Idle \/ local = next
    OBVIOUS
  <2>3. CASE local = Idle
    BY <2>3, IdleType
  <2>4. CASE local = next
    BY <2>1, <2>4
  <2> QED
    BY <2>2, <2>3, <2>4
<1>2. Becomes(r, local)
  BY DEF VerifyActivates
<1> HIDE DEF local
<1>3. /\ req' \in [Requests -> Request]
      /\ req'[r] = local
      /\ \A q \in Requests : q # r => req'[q] = req[q]
  BY <1>1, <1>2, BecomesEffect DEF Inv
<1>4. req[r].at = "verify.activate" /\ req[r].token \in created /\ user.registered
  BY Registered DEF VerifyActivates, At, HoldsStored, Inv, DbAccountInv, TokenInv
<1>5. user' \in User /\ user'.registered
  BY <1>4 DEF VerifyActivates, ActivateUser, Inv, TypeOK, User
<1> QED
  BY <1>1, <1>3, <1>4, <1>5, MoveStep
     DEF VerifyActivates, At, Creating, HoldsStored, Storing, Inv, TypeOK

-----------------------------------------------------------------------------
(* Steps that store or delete sessions. *)

\* The ends of login and refreshTokens.
LEMMA StoresStep ==
  ASSUME Inv, NEW r \in Requests, LoginCreates(r) \/ RefreshCreates(r) PROVE Inv'
<1>1. /\ req' \in [Requests -> Request]
      /\ req'[r] = Idle
      /\ \A q \in Requests : q # r => req'[q] = req[q]
  BY IdleType, BecomesEffect DEF Inv, LoginCreates, RefreshCreates
<1>2. /\ req[r].at \in {"login.create", "refresh.create"} /\ user.registered
      /\ sessions' = sessions \union {req[r].jti}
      /\ UNCHANGED <<user, tokens, made, known, opened, history>>
  BY Registered DEF LoginCreates, RefreshCreates, CreateSession, At
<1>3. Storing(r) /\ req[r].jti \in opened
  BY <1>2 DEF Inv, DbAccountInv, SessionInv, Storing
<1>4. TypeOK'
  BY <1>1, <1>2, <1>3
     DEF Inv, TypeOK, TokensTypeOK, SessionsTypeOK, history, tokenHistory, resetHistory
<1>5. TokenInv'
  BY <1>1, <1>2, IdleType, TokenKept DEF Creating, HoldsStored, history
<1>6. ResetInv'
  BY <1>1, <1>2, IdleType, ResetKept DEF history, resetHistory
<1>7. SessionInv'
  BY <1>1, <1>2, <1>3, IdleType, SessionsKept DEF At, Storing, history, resetHistory
<1> QED
  BY <1>4, <1>5, <1>6, <1>7 DEF Inv, DbAccountInv

\* The session to come is old if the one it replaces is, and spared with it.
LEMMA RefreshStep ==
  ASSUME Inv, NEW r \in Requests, NEW j \in Jtis, NEW n \in Jtis, Refresh(r, j, n)
  PROVE  Inv'
<1> DEFINE local == [Idle EXCEPT !.at = "refresh.delete", !.presented = j, !.jti = n]
<1>1. local \in Request /\ local.at = "refresh.delete" /\ local.jti = n
  BY DEF Idle, Request, Step
<1>2. Becomes(r, local)
  BY DEF Refresh
<1> HIDE DEF local
<1>3. /\ req' \in [Requests -> Request]
      /\ req'[r] = local
      /\ \A q \in Requests : q # r => req'[q] = req[q]
  BY <1>1, <1>2, BecomesEffect DEF Inv
<1>4. /\ req[r].at = "idle" /\ j \in sessions /\ user.registered
      /\ n \notin opened /\ opened' = opened \union {n}
      /\ old' = (IF j \in old THEN old \union {n} ELSE old)
      /\ spared' = (IF j \in spared THEN spared \union {n} ELSE spared)
      /\ UNCHANGED <<user, tokens, sessions, made, known, tokenHistory,
                     redeemed, twice, shared>>
  BY Registered DEF Refresh, SessionByJti, At
<1>5. TypeOK'
  <2>1. old' \in SUBSET opened' /\ spared' \in SUBSET old' /\ opened' \in SUBSET Jtis
    BY <1>4 DEF Inv, TypeOK
  <2> QED
    BY <1>3, <1>4, <2>1 DEF Inv, TypeOK, TokensTypeOK, SessionsTypeOK, tokenHistory
<1>6. TokenInv'
  BY <1>1, <1>3, <1>4, TokenKept DEF Creating, HoldsStored
<1>7. ResetInv'
  BY <1>1, <1>3, <1>4, ResetKept
<1>8. SessionInv'
  <2>1. \A q \in Requests : Storing(q)' => req'[q].jti \in opened'
    BY <1>1, <1>3, <1>4 DEF Inv, DbAccountInv, SessionInv, Storing
  <2>2. ASSUME NEW i \in Underway' PROVE i \in Underway \union {n}
    <3>1. PICK q \in Requests : Storing(q)' /\ i = req'[q].jti
      BY <2>2 DEF Underway, Storing
    <3>2. CASE q = r
      BY <1>1, <1>3, <3>1, <3>2
    <3>3. CASE q # r
      BY <1>3, <3>1, <3>3 DEF Underway, Storing
    <3> QED
      BY <3>2, <3>3
  <2>3. (\E q \in Requests : At(q, "reset.sessions")) =>
          \E q \in Requests : At(q, "reset.sessions")'
    BY <1>3, <1>4 DEF At
  <2>4. old \intersect (sessions \union Underway) \subseteq spared =>
          old' \intersect (sessions' \union Underway') \subseteq spared'
    BY <1>4, <2>2 DEF Inv, TypeOK
  <2> QED
    BY <1>4, <2>1, <2>3, <2>4 DEF Inv, DbAccountInv, SessionInv
<1> QED
  BY <1>5, <1>6, <1>7, <1>8 DEF Inv, DbAccountInv

LEMMA RefreshDeletesStep ==
  ASSUME Inv, NEW r \in Requests, RefreshDeletes(r) PROVE Inv'
<1>1. /\ req' \in [Requests -> Request]
      /\ req'[r].at = "refresh.create" /\ req'[r].jti = req[r].jti
      /\ \A q \in Requests : q # r => req'[q] = req[q]
  BY GotoEffect DEF Inv, Step, RefreshDeletes
<1>2. /\ req[r].at = "refresh.delete" /\ user.registered
      /\ sessions' \subseteq sessions
      /\ UNCHANGED <<user, tokens, made, known, opened, history>>
  BY Registered DEF RefreshDeletes, DeleteSessionByJti, At
<1>3. TypeOK'
  BY <1>1, <1>2
     DEF Inv, TypeOK, TokensTypeOK, SessionsTypeOK, history, tokenHistory, resetHistory
<1>4. TokenInv'
  BY <1>1, <1>2, TokenKept DEF Creating, HoldsStored, history
<1>5. ResetInv'
  BY <1>1, <1>2, ResetKept DEF history, resetHistory
<1>6. SessionInv'
  BY <1>1, <1>2, SessionsKept DEF At, Storing, history, resetHistory
<1> QED
  BY <1>3, <1>4, <1>5, <1>6 DEF Inv, DbAccountInv

LEMMA LogoutStep ==
  ASSUME Inv, NEW r \in Requests,
         LogoutAllDevices(r) \/ \E j \in Jtis : Logout(r, j)
  PROVE  Inv'
<1>1. /\ req[r].at = "idle" /\ user.registered /\ sessions' \subseteq sessions
      /\ UNCHANGED <<user, tokens, req, made, known, opened, history>>
  BY Registered
     DEF LogoutAllDevices, DeleteSessionsByUserId, Logout, SessionByJti, DeleteSessionByJti, At
<1>2. TypeOK'
  BY <1>1 DEF Inv, TypeOK, TokensTypeOK, SessionsTypeOK, history, tokenHistory, resetHistory
<1>3. TokenInv'
  BY <1>1, TokenKept DEF Creating, HoldsStored, history
<1>4. ResetInv'
  BY <1>1, ResetKept DEF history, resetHistory
<1>5. SessionInv'
  BY <1>1, SessionsKept DEF At, Storing, history, resetHistory
<1> QED
  BY <1>2, <1>3, <1>4, <1>5 DEF Inv, DbAccountInv

\* What the DELETE misses is on its way, and spared.
LEMMA ResetDeletesSessionsStep ==
  ASSUME Inv, NEW r \in Requests, ResetDeletesSessions(r) PROVE Inv'
<1>1. /\ req' \in [Requests -> Request]
      /\ req'[r] = Idle
      /\ \A q \in Requests : q # r => req'[q] = req[q]
  BY IdleType, BecomesEffect DEF Inv, ResetDeletesSessions
<1>2. /\ req[r].at = "reset.sessions" /\ user.registered
      /\ sessions' = {}
      /\ spared' = spared \union (old \intersect Underway)
      /\ UNCHANGED <<user, tokens, made, known, opened, tokenHistory,
                     redeemed, twice, shared, old>>
  BY Registered DEF ResetDeletesSessions, DeleteSessionsByUserId, At
<1>3. TypeOK'
  BY <1>1, <1>2
     DEF Inv, TypeOK, TokensTypeOK, SessionsTypeOK, tokenHistory
<1>4. TokenInv'
  BY <1>1, <1>2, IdleType, TokenKept DEF Creating, HoldsStored
<1>5. ResetInv'
  BY <1>1, <1>2, IdleType, ResetKept
<1>6. SessionInv'
  <2>1. Underway' \subseteq Underway
    BY <1>1, IdleType DEF Underway, Storing
  <2>2. \A q \in Requests : Storing(q)' => req'[q].jti \in opened'
    BY <1>1, <1>2, IdleType DEF Inv, DbAccountInv, SessionInv, Storing
  <2> QED
    BY <1>2, <2>1, <2>2 DEF SessionInv
<1> QED
  BY <1>3, <1>4, <1>5, <1>6 DEF Inv, DbAccountInv

-----------------------------------------------------------------------------
(* resetPassword. *)

LEMMA ResetPasswordStep ==
  ASSUME Inv, NEW r \in Requests, NEW t \in Tokens, NEW p \in Passwords,
         ResetPassword(r, t, p)
  PROVE  Inv'
<1> DEFINE local == [Idle EXCEPT !.at = "reset.user", !.token = t, !.password = p]
<1>1. local \in Request /\ local.at = "reset.user" /\ local.token = t
  BY DEF Idle, Request, Step
<1>2. Becomes(r, local)
  BY DEF ResetPassword
<1> HIDE DEF local
<1>3. /\ req' \in [Requests -> Request]
      /\ req'[r] = local
      /\ \A q \in Requests : q # r => req'[q] = req[q]
  BY <1>1, <1>2, BecomesEffect DEF Inv
<1>4. /\ req[r].at = "idle" /\ tokens[t] = "stored"
      /\ shared \subseteq shared' /\ shared' \subseteq shared \union {t}
      /\ (\E q \in Requests : HoldsUnused(q, t)) => t \in shared'
      /\ UNCHANGED <<user, tokens, sessions, made, known, opened,
                     tokenHistory, redeemed, twice, old, spared>>
  BY DEF ResetPassword, TokenIsValid, At
<1>5. t \in Rows /\ t \in created /\ user.registered
  BY <1>4, Registered DEF Rows, Inv, DbAccountInv, TokenInv
<1>6. TypeOK'
  BY <1>3, <1>4, <1>5 DEF Inv, TypeOK, TokensTypeOK, SessionsTypeOK, tokenHistory
<1>7. TokenInv'
  BY <1>1, <1>3, <1>4, <1>5, TokenKept DEF Creating
<1>8. ResetInv'
  <2> SUFFICES ASSUME NEW k \in Tokens, k \notin shared'
               PROVE  /\ k \notin twice
                      /\ \A i, q \in Requests : HoldsUnused(i, k)' /\ HoldsUnused(q, k)' => q = i
                      /\ k \in redeemed \/ (\E q \in Requests : Marked(q, k)') =>
                           /\ tokens[k] # "stored"
                           /\ \A q \in Requests : ~HoldsUnused(q, k)'
                      /\ \A i \in Requests : Marked(i, k)' =>
                           /\ k \notin redeemed
                           /\ \A q \in Requests : Marked(q, k)' => q = i
    BY <1>4 DEF ResetInv
  <2>1. \A q \in Requests : /\ Marked(q, k)' <=> Marked(q, k)
                            /\ HoldsUnused(q, k)' <=> HoldsUnused(q, k) \/ (q = r /\ k = t)
    BY <1>1, <1>3, <1>4 DEF HoldsUnused, Marked, At
  <2>2. k \notin shared
    BY <1>4
  <2> QED
    BY <1>4, <2>1, <2>2 DEF Inv, DbAccountInv, ResetInv
<1>9. SessionInv'
  BY <1>1, <1>3, <1>4, <1>5, SessionsKept DEF At, Storing
<1> QED
  BY <1>6, <1>7, <1>8, <1>9 DEF Inv, DbAccountInv

LEMMA ResetFindsUserStep ==
  ASSUME Inv, NEW r \in Requests, ResetFindsUser(r) PROVE Inv'
<1>1. /\ req' \in [Requests -> Request]
      /\ req'[r].at = "reset.mark" /\ req'[r].token = req[r].token
      /\ \A q \in Requests : q # r => req'[q] = req[q]
  BY GotoEffect DEF Inv, Step, ResetFindsUser
<1>2. /\ req[r].at = "reset.user" /\ user.registered /\ req[r].token \in created
      /\ UNCHANGED <<user, tokens, sessions, made, known, opened, history>>
  BY Registered DEF ResetFindsUser, At, HoldsStored, Inv, DbAccountInv, TokenInv
<1>3. TypeOK'
  BY <1>1, <1>2
     DEF Inv, TypeOK, TokensTypeOK, SessionsTypeOK, history, tokenHistory, resetHistory
<1>4. TokenInv'
  BY <1>1, <1>2, TokenKept DEF Creating, history
<1>6. ResetInv'
  BY <1>1, <1>2, ResetShrinks DEF history, resetHistory
<1>7. SessionInv'
  BY <1>1, <1>2, SessionsKept DEF At, Storing, history, resetHistory
<1> QED
  BY <1>3, <1>4, <1>6, <1>7 DEF Inv, DbAccountInv

LEMMA ResetRefusedStep ==
  ASSUME Inv, NEW r \in Requests, ResetRefused(r) PROVE Inv'
<1>1. /\ req' \in [Requests -> Request]
      /\ req'[r] = Idle
      /\ \A q \in Requests : q # r => req'[q] = req[q]
  BY IdleType, BecomesEffect DEF Inv, ResetRefused
<1> QED
  BY <1>1, IdleType, Registered, MoveStep
     DEF ResetRefused, At, Creating, HoldsStored, Storing, Inv, TypeOK

\* The token stops being valid before the password is replaced.
LEMMA ResetMarksStep ==
  ASSUME Inv, NEW r \in Requests, ResetMarks(r) PROVE Inv'
<1> DEFINE t == req[r].token
<1>1. /\ req' \in [Requests -> Request]
      /\ req'[r].at = "reset.update" /\ req'[r].token = t
      /\ \A q \in Requests : q # r => req'[q] = req[q]
  BY GotoEffect DEF Inv, Step, ResetMarks
<1>2. /\ req[r].at = "reset.mark" /\ user.registered /\ t \in created
      /\ tokens' = (IF t \in Rows THEN [tokens EXCEPT ![t] = "used"] ELSE tokens)
      /\ UNCHANGED <<user, sessions, made, known, opened, history>>
  BY Registered
     DEF ResetMarks, MarkTokenAsUsed, At, HoldsStored, Inv, DbAccountInv, TokenInv
<1>3. /\ tokens' \in [Tokens -> {"absent", "stored", "lapsed", "used"}]
      /\ tokens'[t] # "stored"
      /\ \A k \in Tokens : k # t => tokens'[k] = tokens[k]
      /\ Rows' = Rows
  BY <1>2 DEF Rows, Inv, TypeOK, TokensTypeOK
<1>4. TypeOK'
  BY <1>1, <1>2, <1>3
     DEF Inv, TypeOK, TokensTypeOK, SessionsTypeOK, history, tokenHistory, resetHistory
<1>5. TokenInv'
  <2>1. \A q \in Requests : CreatingInv(q)'
    <3> SUFFICES ASSUME NEW q \in Requests PROVE CreatingInv(q)'
      OBVIOUS
    <3>1. CreatingInv(q)
      BY DEF Inv, DbAccountInv, TokenInv
    <3>2. \A p \in Requests : (Creating(p)' <=> Creating(p)) /\ (Creating(p) => req'[p] = req[p])
      BY <1>1, <1>2 DEF Creating
    <3> QED
      BY <1>2, <1>3, <3>1, <3>2 DEF CreatingInv, At, history, tokenHistory
  <2>2. \A q \in Requests : HoldsStored(q)' => req'[q].token \in created
    BY <1>1, <1>2 DEF Inv, DbAccountInv, TokenInv, HoldsStored
  <2>3. OneToken' /\ LatestTokenKept'
    BY <1>1, <1>2, <1>3
       DEF Inv, DbAccountInv, TokenInv, OneToken, LatestTokenKept, At, history, tokenHistory
  <2> QED
    BY <1>2, <1>3, <2>1, <2>2, <2>3 DEF Inv, DbAccountInv, TokenInv, history, tokenHistory
<1>6. ResetInv'
  <2> SUFFICES ASSUME NEW k \in Tokens, k \notin shared
               PROVE  /\ k \notin twice
                      /\ \A i, q \in Requests : HoldsUnused(i, k)' /\ HoldsUnused(q, k)' => q = i
                      /\ k \in redeemed \/ (\E q \in Requests : Marked(q, k)') =>
                           /\ tokens'[k] # "stored"
                           /\ \A q \in Requests : ~HoldsUnused(q, k)'
                      /\ \A i \in Requests : Marked(i, k)' =>
                           /\ k \notin redeemed
                           /\ \A q \in Requests : Marked(q, k)' => q = i
    BY <1>2 DEF ResetInv, history, resetHistory
  <2>1. \A q \in Requests :
          /\ Marked(q, k)' <=> Marked(q, k) \/ (q = r /\ k = t)
          /\ HoldsUnused(q, k)' <=> HoldsUnused(q, k) /\ ~(q = r /\ k = t)
    BY <1>1, <1>2 DEF HoldsUnused, Marked, At
  <2>2. HoldsUnused(r, t) /\ ~Marked(r, k)
    BY <1>2 DEF HoldsUnused, Marked, At
  <2>3. /\ k \notin twice
        /\ \A i, q \in Requests : HoldsUnused(i, k) /\ HoldsUnused(q, k) => q = i
        /\ k \in redeemed \/ (\E q \in Requests : Marked(q, k)) =>
             tokens[k] # "stored" /\ \A q \in Requests : ~HoldsUnused(q, k)
        /\ \A i \in Requests : Marked(i, k) =>
             k \notin redeemed /\ \A q \in Requests : Marked(q, k) => q = i
    BY DEF Inv, DbAccountInv, ResetInv
  <2>4. CASE k = t
    BY <1>3, <2>1, <2>2, <2>3, <2>4
  <2>5. CASE k # t
    BY <1>3, <2>1, <2>3, <2>5
  <2> QED
    BY <2>4, <2>5
<1>7. SessionInv'
  BY <1>1, <1>2, SessionsKept DEF At, Storing, history, resetHistory
<1> QED
  BY <1>4, <1>5, <1>6, <1>7 DEF Inv, DbAccountInv

LEMMA ResetUpdatesStep ==
  ASSUME Inv, NEW r \in Requests, ResetUpdates(r) PROVE Inv'
<1> DEFINE t == req[r].token
<1>1. /\ req' \in [Requests -> Request]
      /\ req'[r].at = "reset.sessions" /\ req'[r].token = t
      /\ \A q \in Requests : q # r => req'[q] = req[q]
  BY GotoEffect DEF Inv, Step, ResetUpdates
<1>2. /\ req[r].at = "reset.update" /\ user.registered /\ t \in created /\ t \in Tokens
      /\ redeemed' = redeemed \union {t}
      /\ twice' = (IF t \in redeemed THEN twice \union {t} ELSE twice)
      /\ old' = opened
      /\ UNCHANGED <<tokens, sessions, made, known, opened, tokenHistory,
                     shared, spared>>
  BY Registered DEF ResetUpdates, At, HoldsStored, Inv, TypeOK, DbAccountInv, TokenInv
<1>3. user' \in User /\ user'.registered
  <2>1. req[r].password \in Passwords \union {None}
    BY DEF Inv, TypeOK, Request
  <2> DEFINE secret == Hash(Hash(Plain(req[r].password)))
  <2>2. secret \in Secret
    BY <2>1, PlainType, HashType
  <2>3. user' = [user EXCEPT !.password = secret]
    BY DEF ResetUpdates, UpdateUserPassword
  <2> HIDE DEF secret
  <2> QED
    BY <1>2, <2>2, <2>3 DEF User, Inv, TypeOK
<1>4. TypeOK'
  BY <1>1, <1>2, <1>3 DEF Inv, TypeOK, TokensTypeOK, SessionsTypeOK, tokenHistory
<1>5. TokenInv'
  BY <1>1, <1>2, <1>3, TokenKept DEF Creating
<1>6. ResetInv'
  <2> SUFFICES ASSUME NEW k \in Tokens, k \notin shared
               PROVE  /\ k \notin twice'
                      /\ \A i, q \in Requests : HoldsUnused(i, k)' /\ HoldsUnused(q, k)' => q = i
                      /\ k \in redeemed' \/ (\E q \in Requests : Marked(q, k)') =>
                           /\ tokens[k] # "stored"
                           /\ \A q \in Requests : ~HoldsUnused(q, k)'
                      /\ \A i \in Requests : Marked(i, k)' =>
                           /\ k \notin redeemed'
                           /\ \A q \in Requests : Marked(q, k)' => q = i
    BY <1>2 DEF ResetInv
  <2>1. \A q \in Requests : /\ Marked(q, k)' <=> Marked(q, k) /\ q # r
                            /\ HoldsUnused(q, k)' <=> HoldsUnused(q, k)
    BY <1>1, <1>2 DEF HoldsUnused, Marked, At
  <2>2. Marked(r, t)
    BY <1>2 DEF Marked, At
  <2>3. /\ k \notin twice
        /\ \A i, q \in Requests : HoldsUnused(i, k) /\ HoldsUnused(q, k) => q = i
        /\ k \in redeemed \/ (\E q \in Requests : Marked(q, k)) =>
             tokens[k] # "stored" /\ \A q \in Requests : ~HoldsUnused(q, k)
        /\ \A i \in Requests : Marked(i, k) =>
             k \notin redeemed /\ \A q \in Requests : Marked(q, k) => q = i
    BY DEF Inv, DbAccountInv, ResetInv
  <2>4. CASE k = t
    BY <1>2, <2>1, <2>2, <2>3, <2>4
  <2>5. CASE k # t
    BY <1>2, <2>1, <2>3, <2>5
  <2> QED
    BY <2>4, <2>5
<1>7. SessionInv'
  BY <1>1, <1>2, <1>3 DEF Inv, DbAccountInv, SessionInv, Storing, At
<1> QED
  BY <1>4, <1>5, <1>6, <1>7 DEF Inv, DbAccountInv

-----------------------------------------------------------------------------
(* Steps that store a token. *)

\* The first token of the user: nothing refers to anything before it.
LEMMA RegisterStep ==
  ASSUME Inv, NEW r \in Requests, NEW p \in Passwords, NEW t \in Tokens, Register(r, p, t)
  PROVE  Inv'
<1> DEFINE local == [Idle EXCEPT !.at = "register.mail", !.token = t]
<1>1. local \in Request /\ local.at = "register.mail" /\ local.token = t
  BY DEF Idle, Request, Step
<1>2. Becomes(r, local)
  BY DEF Register
<1> HIDE DEF local
<1>3. /\ req' \in [Requests -> Request]
      /\ req'[r] = local
      /\ \A q \in Requests : q # r => req'[q] = req[q]
  BY <1>1, <1>2, BecomesEffect DEF Inv
<1>4. user' \in User /\ user'.registered
  <2>1. Hash(Plain(p)) \in Secret
    BY PlainType, HashType
  <2> QED
    BY <2>1 DEF Register, InsertUser, User
<1>5. /\ t \notin made /\ made' = made \union {t}
      /\ created' = created \union {t} /\ latest' = t
      /\ tokens' = [tokens EXCEPT ![t] = "stored"]
      /\ UNCHANGED <<sessions, known, opened, verified, swept, overlapped,
                     resetHistory>>
  BY DEF Register, SaveToken
<1>6. ~user.registered
  BY DEF Register, InsertUser, EmailFree
<1>7. Rows = {} /\ \A q \in Requests : At(q, "idle")
  BY <1>6 DEF Inv, DbAccountInv, TokenInv
<1>8. /\ tokens' \in [Tokens -> {"absent", "stored", "lapsed", "used"}]
      /\ Rows' = {t}
      /\ \A k \in Tokens : k # t => tokens'[k] = tokens[k]
  BY <1>5, <1>7 DEF Rows, Inv, TypeOK, TokensTypeOK
<1>9. TypeOK'
  BY <1>3, <1>4, <1>5, <1>8 DEF Inv, TypeOK, TokensTypeOK, SessionsTypeOK, resetHistory
<1>10. \A q \in Requests : q # r => req'[q].at = "idle"
  BY <1>3, <1>7 DEF At
<1>11. TokenInv'
  <2>1. t # None
    BY TokensAssumption
  <2>2. \A q \in Requests : ~Creating(q)' /\ (HoldsStored(q)' => req'[q].token \in created')
    BY <1>1, <1>3, <1>5, <1>10 DEF Creating, HoldsStored
  <2>3. OneToken' /\ LatestTokenKept'
    BY <1>5, <1>8 DEF OneToken, LatestTokenKept
  <2> QED
    BY <1>4, <1>5, <1>8, <2>1, <2>2, <2>3 DEF TokenInv, CreatingInv
<1>12. ResetInv'
  <2>1. \A k \in created : tokens'[k] = "stored" => tokens[k] = "stored"
    BY <1>5, <1>8 DEF Inv, TypeOK
  <2> QED
    BY <1>1, <1>3, <1>5, <2>1, ResetKept DEF resetHistory
<1>13. SessionInv'
  BY <1>1, <1>3, <1>4, <1>5, <1>7, SessionsKept DEF At, Storing, resetHistory
<1> QED
  BY <1>9, <1>11, <1>12, <1>13 DEF Inv, DbAccountInv

\* A request that will store a new token.
LEMMA CreatesStep ==
  ASSUME Inv, NEW r \in Requests, NEW t \in Tokens, NEW mail \in {"mailLink", "mailReset"},
         user.registered, Creates(r, t, mail), UNCHANGED user
  PROVE  Inv'
<1> DEFINE local == [Idle EXCEPT !.at = "create.find", !.token = t, !.mail = mail]
<1>1. local \in Request /\ local.at = "create.find" /\ local.token = t /\ local.mail = mail
  BY DEF Idle, Request, Step
<1>2. Becomes(r, local)
  BY DEF Creates
<1> HIDE DEF local
<1>3. /\ req' \in [Requests -> Request]
      /\ req'[r] = local
      /\ \A q \in Requests : q # r => req'[q] = req[q]
  BY <1>1, <1>2, BecomesEffect DEF Inv
<1>4. /\ req[r].at = "idle" /\ t \notin made /\ made' = made \union {t}
      /\ overlapped' \in BOOLEAN /\ (overlapped => overlapped')
      /\ (\E q \in Requests : Creating(q)) => overlapped'
      /\ UNCHANGED <<user, tokens, sessions, known, opened, created, latest,
                     verified, swept, resetHistory>>
  BY DEF Creates, At, Inv, TypeOK
<1>5. TypeOK'
  BY <1>3, <1>4 DEF Inv, TypeOK, TokensTypeOK, SessionsTypeOK, resetHistory
<1>6. \A q \in Requests : Creating(q)' <=> Creating(q) \/ q = r
  BY <1>1, <1>3, <1>4 DEF Creating
<1>7. TokenInv'
  <2>1. CreatingInv(r)'
    <3>1. req'[r].token \in made' \ created'
      BY <1>1, <1>3, <1>4 DEF Inv, TypeOK
    <3>2. \A q \in Requests : q # r /\ Creating(q) => req[q].token # t
      BY <1>4 DEF Inv, DbAccountInv, TokenInv, CreatingInv
    <3> QED
      BY <1>1, <1>3, <1>4, <1>6, <3>1, <3>2 DEF CreatingInv, At
  <2>2. ASSUME NEW q \in Requests, q # r PROVE CreatingInv(q)'
    <3>1. CreatingInv(q)
      BY DEF Inv, DbAccountInv, TokenInv
    <3> QED
      BY <1>1, <1>3, <1>4, <1>6, <2>2, <3>1 DEF CreatingInv, At
  <2>3. \A q \in Requests : HoldsStored(q)' => req'[q].token \in created'
    BY <1>1, <1>3, <1>4 DEF Inv, DbAccountInv, TokenInv, HoldsStored
  <2>4. OneToken' /\ LatestTokenKept'
    BY <1>3, <1>4 DEF Inv, DbAccountInv, TokenInv, OneToken, LatestTokenKept, At, Rows
  <2> QED
    BY <1>4, <2>1, <2>2, <2>3, <2>4 DEF Inv, DbAccountInv, TokenInv, Rows
<1>8. ResetInv'
  BY <1>1, <1>3, <1>4, ResetKept DEF resetHistory
<1>9. SessionInv'
  BY <1>1, <1>3, <1>4, SessionsKept DEF At, Storing, resetHistory
<1> QED
  BY <1>5, <1>7, <1>8, <1>9 DEF Inv, DbAccountInv

LEMMA CreateFindsStep ==
  ASSUME Inv, NEW r \in Requests, CreateFinds(r) PROVE Inv'
<1> DEFINE step == IF Rows # {} THEN "create.delete" ELSE "create.save"
<1>1. step \in Step /\ step \in {"create.delete", "create.save"}
  BY DEF Step
<1>2. Goto(r, step)
  BY DEF CreateFinds
<1>3. step = "create.save" => Rows = {}
  OBVIOUS
<1> HIDE DEF step
<1>4. /\ req' \in [Requests -> Request]
      /\ req'[r].at = step /\ req'[r].token = req[r].token /\ req'[r].mail = req[r].mail
      /\ \A q \in Requests : q # r => req'[q] = req[q]
  BY <1>1, <1>2, GotoEffect DEF Inv
<1>5. /\ req[r].at = "create.find" /\ user.registered
      /\ UNCHANGED <<user, tokens, sessions, made, known, opened, history>>
  BY Registered DEF CreateFinds, At
<1>6. TypeOK'
  BY <1>4, <1>5
     DEF Inv, TypeOK, TokensTypeOK, SessionsTypeOK, history, tokenHistory, resetHistory
<1>7. /\ \A q \in Requests : Creating(q)' <=> Creating(q)
      /\ Rows' = Rows
  BY <1>1, <1>4, <1>5 DEF Creating, Rows
<1>8. TokenInv'
  <2>1. \A q \in Requests : CreatingInv(q)'
    <3> SUFFICES ASSUME NEW q \in Requests PROVE CreatingInv(q)'
      OBVIOUS
    <3>1. CreatingInv(q)
      BY DEF Inv, DbAccountInv, TokenInv
    <3>2. \A p \in Requests : req'[p].token = req[p].token
      BY <1>4
    <3> QED
      BY <1>3, <1>4, <1>5, <1>7, <3>1, <3>2 DEF CreatingInv, At, history, tokenHistory
  <2>2. \A q \in Requests : HoldsStored(q)' => req'[q].token \in created
    BY <1>1, <1>4, <1>5 DEF Inv, DbAccountInv, TokenInv, HoldsStored
  <2>3. OneToken' /\ LatestTokenKept'
    BY <1>4, <1>5, <1>7
       DEF Inv, DbAccountInv, TokenInv, OneToken, LatestTokenKept, At, history, tokenHistory
  <2> QED
    BY <1>5, <1>7, <2>1, <2>2, <2>3 DEF Inv, DbAccountInv, TokenInv, history, tokenHistory
<1>9. ResetInv'
  BY <1>1, <1>4, <1>5, ResetKept DEF history, resetHistory
<1>10. SessionInv'
  BY <1>1, <1>4, <1>5, SessionsKept DEF At, Storing, history, resetHistory
<1> QED
  BY <1>6, <1>8, <1>9, <1>10 DEF Inv, DbAccountInv

\* The token stored last is on its way to be replaced.
LEMMA CreateDeletesStep ==
  ASSUME Inv, NEW r \in Requests, CreateDeletes(r) PROVE Inv'
<1>1. /\ req' \in [Requests -> Request]
      /\ req'[r].at = "create.save" /\ req'[r].token = req[r].token
      /\ req'[r].mail = req[r].mail
      /\ \A q \in Requests : q # r => req'[q] = req[q]
  BY GotoEffect DEF Inv, Step, CreateDeletes
<1>2. /\ req[r].at = "create.delete" /\ user.registered
      /\ tokens' = [t \in Tokens |-> "absent"]
      /\ UNCHANGED <<user, sessions, made, known, opened, history>>
  BY Registered DEF CreateDeletes, DeleteTokens, At
<1>3. Rows' = {} /\ \A q \in Requests : Creating(q)' <=> Creating(q)
  BY <1>1, <1>2 DEF Rows, Creating
<1>4. TypeOK'
  BY <1>1, <1>2
     DEF Inv, TypeOK, TokensTypeOK, SessionsTypeOK, history, tokenHistory, resetHistory
<1>5. TokenInv'
  <2>1. \A q \in Requests : CreatingInv(q)'
    <3> SUFFICES ASSUME NEW q \in Requests PROVE CreatingInv(q)'
      OBVIOUS
    <3>1. CreatingInv(q)
      BY DEF Inv, DbAccountInv, TokenInv
    <3>2. \A p \in Requests : req'[p].token = req[p].token
      BY <1>1
    <3> QED
      BY <1>1, <1>2, <1>3, <3>1, <3>2 DEF CreatingInv, At, history, tokenHistory
  <2>2. \A q \in Requests : HoldsStored(q)' => req'[q].token \in created
    BY <1>1, <1>2 DEF Inv, DbAccountInv, TokenInv, HoldsStored
  <2>3. OneToken' /\ LatestTokenKept'
    BY <1>1, <1>3 DEF OneToken, LatestTokenKept, At
  <2> QED
    BY <1>2, <1>3, <2>1, <2>2, <2>3 DEF Inv, DbAccountInv, TokenInv, history, tokenHistory
<1>6. ResetInv'
  BY <1>1, <1>2, ResetKept DEF history, resetHistory, Inv, TypeOK
<1>7. SessionInv'
  BY <1>1, <1>2, SessionsKept DEF At, Storing, history, resetHistory
<1> QED
  BY <1>4, <1>5, <1>6, <1>7 DEF Inv, DbAccountInv

\* The new token is the only one, unless another is being created.
LEMMA CreateSavesStep ==
  ASSUME Inv, NEW r \in Requests, CreateSaves(r) PROVE Inv'
<1> DEFINE t == req[r].token
           mail == req[r].mail
<1>1. /\ Creating(r) /\ At(r, "create.save") /\ user.registered
      /\ t \in made \ created /\ mail \in {"mailLink", "mailReset"}
      /\ \A q \in Requests : q # r /\ Creating(q) => req[q].token # t
      /\ ~overlapped => (\A q \in Requests : Creating(q) => q = r) /\ Rows = {}
  BY Registered DEF CreateSaves, Creating, At, Inv, DbAccountInv, TokenInv, CreatingInv
<1>2. mail \in Step /\ t \in Tokens
  BY <1>1 DEF Step, Inv, TypeOK
<1>3. /\ req' \in [Requests -> Request]
      /\ req'[r].at = mail /\ req'[r].token = t
      /\ \A q \in Requests : q # r => req'[q] = req[q]
  BY <1>2, GotoEffect DEF Inv, CreateSaves
<1>4. /\ tokens' = [tokens EXCEPT ![t] = "stored"]
      /\ created' = created \union {t} /\ latest' = t
      /\ UNCHANGED <<user, sessions, made, known, opened, verified, swept,
                     overlapped, resetHistory>>
  BY DEF CreateSaves, SaveToken
<1>5. /\ tokens' \in [Tokens -> {"absent", "stored", "lapsed", "used"}]
      /\ Rows' = Rows \union {t}
      /\ \A k \in Tokens : k # t => tokens'[k] = tokens[k]
  BY <1>2, <1>4 DEF Rows, Inv, TypeOK, TokensTypeOK
<1>6. TypeOK'
  BY <1>1, <1>3, <1>4, <1>5 DEF Inv, TypeOK, TokensTypeOK, SessionsTypeOK, resetHistory
<1>7. \A q \in Requests : Creating(q)' <=> Creating(q) /\ q # r
  BY <1>1, <1>3 DEF Creating
<1>8. TokenInv'
  <2>1. \A q \in Requests : CreatingInv(q)'
    <3> SUFFICES ASSUME NEW q \in Requests PROVE CreatingInv(q)'
      OBVIOUS
    <3>1. CreatingInv(q)
      BY DEF Inv, DbAccountInv, TokenInv
    <3> QED
      BY <1>1, <1>3, <1>4, <1>7, <3>1 DEF CreatingInv, At
  <2>2. \A q \in Requests : HoldsStored(q)' => req'[q].token \in created'
    BY <1>1, <1>3, <1>4 DEF Inv, DbAccountInv, TokenInv, HoldsStored
  <2>3. OneToken'
    BY <1>1, <1>4, <1>5 DEF OneToken
  <2>4. LatestTokenKept'
    BY <1>4, <1>5 DEF LatestTokenKept
  <2>5. t # None
    BY <1>2, TokensAssumption
  <2> QED
    BY <1>1, <1>4, <1>5, <2>1, <2>2, <2>3, <2>4, <2>5 DEF Inv, DbAccountInv, TokenInv
<1>9. ResetInv'
  <2>1. \A k \in created : tokens'[k] = "stored" => tokens[k] = "stored"
    BY <1>1, <1>5 DEF Inv, TypeOK
  <2> QED
    BY <1>1, <1>3, <1>4, <2>1, ResetKept DEF resetHistory
<1>10. SessionInv'
  BY <1>1, <1>3, <1>4, SessionsKept DEF At, Storing, resetHistory
<1> QED
  BY <1>6, <1>8, <1>9, <1>10 DEF Inv, DbAccountInv

-----------------------------------------------------------------------------
(* verify deletes every token, a failure leaves one deleted, and one lapses. *)

LEMMA VerifyDeletesStep ==
  ASSUME Inv, NEW r \in Requests, VerifyDeletes(r) PROVE Inv'
<1> DEFINE t == req[r].token
<1>1. /\ req' \in [Requests -> Request]
      /\ req'[r] = Idle
      /\ \A q \in Requests : q # r => req'[q] = req[q]
  BY IdleType, BecomesEffect DEF Inv, VerifyDeletes
<1>2. /\ req[r].at = "verify.delete" /\ user.registered /\ t \in created
      /\ tokens' = [k \in Tokens |-> "absent"]
      /\ verified' = verified \union {t} /\ swept' = swept \union (Rows \ {t})
      /\ UNCHANGED <<user, sessions, made, known, opened, created, latest,
                     overlapped, resetHistory>>
  BY Registered
     DEF VerifyDeletes, DeleteTokens, At, HoldsStored, Inv, DbAccountInv, TokenInv
<1>3. Rows' = {} /\ \A q \in Requests : Creating(q)' <=> Creating(q)
  BY <1>1, <1>2, IdleType DEF Rows, Creating
<1>4. TypeOK'
  BY <1>1, <1>2
     DEF Inv, TypeOK, TokensTypeOK, SessionsTypeOK, resetHistory, DbAccountInv, TokenInv
<1>5. TokenInv'
  <2>1. \A q \in Requests : CreatingInv(q)'
    <3> SUFFICES ASSUME NEW q \in Requests PROVE CreatingInv(q)'
      OBVIOUS
    <3>1. CreatingInv(q)
      BY DEF Inv, DbAccountInv, TokenInv
    <3>2. \A p \in Requests : Creating(p) => p # r /\ req'[p] = req[p]
      BY <1>1, <1>2 DEF Creating
    <3> QED
      BY <1>2, <1>3, <3>1, <3>2 DEF CreatingInv, At
  <2>2. \A q \in Requests : HoldsStored(q)' => req'[q].token \in created
    BY <1>1, IdleType DEF Inv, DbAccountInv, TokenInv, HoldsStored
  <2>3. OneToken' /\ LatestTokenKept'
    BY <1>1, <1>2, <1>3 DEF Inv, DbAccountInv, TokenInv, OneToken, LatestTokenKept, At
  <2> QED
    BY <1>2, <1>3, <2>1, <2>2, <2>3 DEF Inv, DbAccountInv, TokenInv
<1>6. ResetInv'
  BY <1>1, <1>2, IdleType, ResetKept DEF resetHistory, Inv, TypeOK
<1>7. SessionInv'
  BY <1>1, <1>2, IdleType, SessionsKept DEF At, Storing, resetHistory
<1> QED
  BY <1>4, <1>5, <1>6, <1>7 DEF Inv, DbAccountInv

LEMMA FailStep ==
  ASSUME Inv, NEW r \in Requests, Fail(r) PROVE Inv'
<1>1. /\ req' \in [Requests -> Request]
      /\ req'[r] = Idle
      /\ \A q \in Requests : q # r => req'[q] = req[q]
  BY IdleType, BecomesEffect DEF Inv, Fail
<1>2. /\ user.registered /\ latest \in created
      /\ swept' = (IF At(r, "create.save") THEN swept \union {latest} ELSE swept)
      /\ spared' = (IF At(r, "reset.sessions")
                    THEN spared \union (old \intersect (sessions \union Underway))
                    ELSE spared)
      /\ UNCHANGED <<user, tokens, sessions, made, known, opened, created,
                     latest, verified, overlapped, redeemed, twice, shared, old>>
  BY Registered DEF Fail, Inv, TypeOK, User, DbAccountInv, TokenInv
<1>3. TypeOK'
  BY <1>1, <1>2 DEF Inv, TypeOK, TokensTypeOK, SessionsTypeOK
<1>4. Rows' = Rows /\ \A q \in Requests : Creating(q)' => q # r /\ Creating(q)
  BY <1>1, <1>2, IdleType DEF Rows, Creating
<1>5. TokenInv'
  <2>1. \A q \in Requests : CreatingInv(q)'
    <3> SUFFICES ASSUME NEW q \in Requests PROVE CreatingInv(q)'
      OBVIOUS
    <3>1. CreatingInv(q)
      BY DEF Inv, DbAccountInv, TokenInv
    <3> QED
      BY <1>1, <1>2, <1>4, <3>1 DEF CreatingInv, At
  <2>2. \A q \in Requests : HoldsStored(q)' => req'[q].token \in created
    BY <1>1, IdleType DEF Inv, DbAccountInv, TokenInv, HoldsStored
  <2>3. OneToken' /\ LatestTokenKept'
    BY <1>1, <1>2, <1>4 DEF Inv, DbAccountInv, TokenInv, OneToken, LatestTokenKept, At
  <2> QED
    BY <1>2, <1>4, <2>1, <2>2, <2>3 DEF Inv, DbAccountInv, TokenInv
<1>6. ResetInv'
  BY <1>1, <1>2, IdleType, ResetKept
<1>7. SessionInv'
  <2>1. Underway' \subseteq Underway
    BY <1>1, IdleType DEF Underway, Storing
  <2>2. \A q \in Requests : Storing(q)' => req'[q].jti \in opened'
    BY <1>1, <1>2, IdleType DEF Inv, DbAccountInv, SessionInv, Storing
  <2>3. CASE At(r, "reset.sessions")
    BY <1>2, <2>1, <2>2, <2>3 DEF SessionInv
  <2>4. CASE ~At(r, "reset.sessions")
    <3>1. (\E q \in Requests : At(q, "reset.sessions")) =>
            \E q \in Requests : At(q, "reset.sessions")'
      BY <1>1, <2>4 DEF At
    <3> QED
      BY <1>2, <2>1, <2>2, <2>4, <3>1 DEF Inv, DbAccountInv, SessionInv
  <2> QED
    BY <2>3, <2>4
<1> QED
  BY <1>3, <1>5, <1>6, <1>7 DEF Inv, DbAccountInv

\* DbAccountInv does not look at known.
LEMMA QuietStep ==
  ASSUME Inv, TypeOK', UNCHANGED <<user, tokens, sessions, req, made, opened, history>>
  PROVE  Inv'
BY DEF Inv, DbAccountInv, TokenInv, CreatingInv, Creating, HoldsStored, OneToken,
       LatestTokenKept, Rows, ResetInv, HoldsUnused, Marked, SessionInv,
       Storing, Underway, At, history, tokenHistory, resetHistory

LEMMA LapseStep ==
  ASSUME Inv, NEW t \in Tokens, Lapse(t) PROVE Inv'
<1>1. /\ tokens[t] = "stored" /\ tokens' = [tokens EXCEPT ![t] = "lapsed"]
      /\ UNCHANGED <<user, sessions, req, made, known, opened, history>>
  BY DEF Lapse
<1>2. /\ tokens' \in [Tokens -> {"absent", "stored", "lapsed", "used"}]
      /\ Rows' = Rows
      /\ \A k \in Tokens : tokens'[k] = "stored" => tokens[k] = "stored"
  BY <1>1 DEF Rows, Inv, TypeOK, TokensTypeOK
<1>3. TypeOK'
  BY <1>1, <1>2
     DEF Inv, TypeOK, TokensTypeOK, SessionsTypeOK, history, tokenHistory, resetHistory
<1>4. TokenInv'
  BY <1>1, <1>2
     DEF Inv, DbAccountInv, TokenInv, CreatingInv, Creating, HoldsStored, OneToken,
         LatestTokenKept, At, history, tokenHistory
<1>5. ResetInv'
  BY <1>1, <1>2, ResetShrinks DEF history, resetHistory, Inv, TypeOK
<1>6. SessionInv'
  BY <1>1 DEF Inv, DbAccountInv, SessionInv, Storing, Underway, At, history, resetHistory
<1> QED
  BY <1>3, <1>4, <1>5, <1>6 DEF Inv, DbAccountInv

LEMMA StutterStep ==
  ASSUME Inv, UNCHANGED vars PROVE Inv'
<1>1. TypeOK'
  BY DEF Inv, TypeOK, TokensTypeOK, SessionsTypeOK, vars, history, tokenHistory, resetHistory
<1> QED
  BY <1>1, QuietStep DEF vars

-----------------------------------------------------------------------------
(* The theorems. *)

LEMMA NextStep == Inv /\ [Next]_vars => Inv'
<1> SUFFICES ASSUME Inv, [Next]_vars PROVE Inv'
  OBVIOUS
<1>1. ASSUME NEW r \in Requests, NEW t \in Tokens,
             ResendVerificationLink(r, t) \/ ForgotPassword(r, t)
      PROVE  Inv'
  <2>1. user.registered /\ UNCHANGED user
        /\ \E mail \in {"mailLink", "mailReset"} : Creates(r, t, mail)
    BY <1>1 DEF ResendVerificationLink, ForgotPassword, Creates
  <2> QED
    BY <2>1, CreatesStep
<1>2. ASSUME NEW r \in Requests, Arrive(r) PROVE Inv'
  BY <1>1, <1>2, VerifyStep, RegisterStep, ResetPasswordStep, LoginStep, RefreshStep,
     LogoutStep, NotActivatedStep DEF Arrive
<1>3. ASSUME NEW r \in Requests, Progress(r) PROVE Inv'
  BY <1>3, MailStep, CreateFindsStep, CreateDeletesStep, CreateSavesStep, StoresStep,
     RefreshDeletesStep, VerifyActivatesStep, VerifyDeletesStep, ResetFindsUserStep, ResetRefusedStep,
     ResetMarksStep, ResetUpdatesStep, ResetDeletesSessionsStep DEF Progress
<1> QED
  BY <1>2, <1>3, FailStep, LapseStep, StutterStep DEF Next

\* Every variable of the DB accounts keeps its type.
THEOREM TypeCorrect == Spec => []TypeOK
<1>1. Inv => TypeOK
  BY DEF Inv
<1> QED
  BY <1>1, InitType, InitInv, NextStep, PTL DEF Spec, Inv

\* The inductive invariant of the DB flow's accounts.
THEOREM DbAccountsCorrect == Spec => []DbAccountInv
<1>1. Init => Inv
  BY InitType, InitInv DEF Inv
<1>2. Inv => DbAccountInv
  BY DEF Inv
<1> QED
  BY <1>1, <1>2, NextStep, PTL DEF Spec

\* A user has one token at a time, unless two createVerificationTokens overlapped.
THEOREM OneTokenCorrect == Spec => []OneToken
<1>1. DbAccountInv => OneToken
  BY DEF DbAccountInv, TokenInv
<1> QED
  BY <1>1, DbAccountsCorrect, PTL

\* The token stored last is not lost to the requests with older ones.
THEOREM LatestTokenCorrect == Spec => []LatestTokenKept
<1>1. DbAccountInv => LatestTokenKept
  BY DEF DbAccountInv, TokenInv
<1> QED
  BY <1>1, DbAccountsCorrect, PTL

\* A token resets the password once, unless two resets held it at once.
THEOREM RedemptionCorrect == Spec => []RedeemedOnce
<1>1. TypeOK /\ DbAccountInv => RedeemedOnce
  BY DEF TypeOK, DbAccountInv, ResetInv, RedeemedOnce
<1> QED
  BY <1>1, TypeCorrect, DbAccountsCorrect, PTL

\* A reset ends the sessions of the password it replaced.
THEOREM OldSessionsCorrect == Spec => []OldSessionsEnd
<1>1. DbAccountInv => OldSessionsEnd
  BY DEF DbAccountInv, SessionInv, OldSessionsEnd
<1> QED
  BY <1>1, DbAccountsCorrect, PTL
=============================================================================
