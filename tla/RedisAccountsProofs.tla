------------------------ MODULE RedisAccountsProofs ------------------------
(***************************************************************************)
(* Proofs, for any number of requests, codes and passwords, of what the    *)
(* account life cycle of AuthWithRedisService keeps.                       *)
(***************************************************************************)
EXTENDS RedisAccounts, TLAPS

\* The initial states have their types and satisfy the invariant.
LEMMA InitInv == Init => TypeOK /\ AccountInv
BY DEF Init, TypeOK, User, NoUser, Secret, Plain, Key, Request, Step, Idle,
       AccountInv, StageInv, AcceptanceInv, CodesBelongToAccounts,
       AcceptedCodeActivates, MailboxProved, Accepted, At

LEMMA IdleType == Idle \in Request /\ Idle.at = "idle" /\ Idle.key = "otp:register"
BY DEF Idle, Request, Step, Key

\* What the arrival of a request comes to: it changes the request only, and
\* takes it no further than the account has come.
Arrived(r) ==
  /\ At(r, "idle")
  /\ req'[r] \in Request
  /\ req' = [req EXCEPT ![r] = req'[r]]
  /\ UNCHANGED <<user, otp, issued, mailed, history>>
  /\ req'[r].at \in {"insertUser", "generateOtp", "delOtp", "setOtp", "delExhausted",
                     "createSession"}
  /\ req'[r].at # "insertUser" => user.registered
  /\ req'[r].key = "otp:reset" \/ req'[r].at = "createSession" => user.activated
  /\ req'[r].at = "delOtp" => req'[r].code \in mailed

LEMMA ArrivalEffect ==
  ASSUME TypeOK, AccountInv, NEW r \in Requests, Arrive(r)
  PROVE  Arrived(r)
<1> USE IdleType DEF TypeOK, Becomes, At, Arrived, Request, Step, Key
<1>1. CASE ResendOtp(r)
  BY <1>1 DEF ResendOtp
<1>2. CASE ForgotPassword(r)
  BY <1>2 DEF ForgotPassword
<1>3. ASSUME NEW p \in Passwords, Register(r, p) PROVE Arrived(r)
  BY <1>3 DEF Register
<1>4. ASSUME NEW p \in Passwords, Login(r, p) PROVE Arrived(r)
  BY <1>4 DEF Login
<1>5. ASSUME NEW k \in Key, NEW p \in Passwords \union {None},
             PresentsRightCode(r, k, p) \/ PresentsWrongCode(r, k, p)
               \/ PresentsTooLate(r, k, p)
      PROVE  Arrived(r)
  <2>1. PICK step \in {"delOtp", "setOtp", "delExhausted"} :
          Presents(r, k, p, step) /\ (step = "delOtp" => otp[k] \in mailed)
    BY <1>5 DEF PresentsRightCode, PresentsWrongCode, PresentsTooLate
  <2>2. user.registered /\ (k = "otp:reset" => user.activated)
    BY <2>1 DEF Presents, AccountInv, StageInv, CodesBelongToAccounts
  <2> QED
    BY <2>1, <2>2 DEF Presents
<1> QED
  BY <1>1, <1>2, <1>3, <1>4, <1>5 DEF Arrive

LEMMA ArrivalStep ==
  ASSUME TypeOK, AccountInv, NEW r \in Requests, Arrive(r)
  PROVE  TypeOK' /\ AccountInv'
<1>1. Arrived(r)
  BY ArrivalEffect
<1>2. /\ \A s \in Requests \ {r} : req'[s] = req[s]
      /\ ~Accepted(r) /\ ~Accepted(r)'
  BY <1>1 DEF Arrived, TypeOK, Accepted, At
<1>3. TypeOK'
  BY <1>1 DEF Arrived, TypeOK, history
<1>4. StageInv'
  BY <1>1, <1>2 DEF Arrived, AccountInv, StageInv, At, history
<1>5. AcceptanceInv'
  BY <1>1, <1>2 DEF Arrived, AccountInv, AcceptanceInv, Accepted, At, history
<1>6. CodesBelongToAccounts'
  BY <1>1 DEF Arrived, AccountInv, CodesBelongToAccounts
<1>7. AcceptedCodeActivates'
  BY <1>1, <1>2 DEF Arrived, AccountInv, AcceptedCodeActivates, Accepted, history
<1>8. MailboxProved'
  BY <1>1, <1>2 DEF Arrived, AccountInv, StageInv, MailboxProved, At, history
<1> QED
  BY <1>1, <1>3, <1>4, <1>5, <1>6, <1>7, <1>8 DEF AccountInv, Arrived, history

-----------------------------------------------------------------------------
(* The steps of a request in progress. *)

\* A request that moves on is still a request, and the only one that changed.
LEMMA GotoEffect ==
  ASSUME TypeOK, NEW r \in Requests, NEW step \in Step, Goto(r, step)
  PROVE  /\ req' \in [Requests -> Request]
         /\ req'[r].at = step
         /\ req'[r].key = req[r].key /\ req'[r].code = req[r].code
         /\ req'[r].password = req[r].password
         /\ \A s \in Requests \ {r} : req'[s] = req[s]
BY DEF TypeOK, Goto, Becomes, Request

\* A request that ends leaves the others as they are.
LEMMA IdleEffect ==
  ASSUME TypeOK, NEW r \in Requests, Becomes(r, Idle)
  PROVE  /\ req' \in [Requests -> Request]
         /\ req'[r].at = "idle" /\ req'[r].key = "otp:register"
         /\ \A s \in Requests \ {r} : req'[s] = req[s]
BY IdleType DEF TypeOK, Becomes

\* A request that ends without touching the row, its accepted code or the codes
\* it is not done with.
LEMMA EndStep ==
  ASSUME TypeOK, AccountInv, NEW r \in Requests, Becomes(r, Idle),
         UNCHANGED <<user, issued, history>>,
         otp' \in [Key -> Codes \union {None}],
         otp'["otp:register"] # None => user.registered,
         otp'["otp:reset"] # None => user.activated,
         mailed \subseteq mailed', mailed' \subseteq issued,
         Accepted(r) => user.activated
  PROVE  TypeOK' /\ AccountInv'
<1>1. /\ req' \in [Requests -> Request]
      /\ req'[r].at = "idle" /\ req'[r].key = "otp:register"
      /\ \A s \in Requests \ {r} : req'[s] = req[s]
  BY IdleEffect
<1>2. TypeOK'
  BY <1>1 DEF TypeOK, history
<1>3. StageInv'
  BY <1>1 DEF AccountInv, StageInv, At
<1>4. AcceptanceInv'
  BY <1>1 DEF AccountInv, AcceptanceInv, At, Accepted, history
<1>5. CodesBelongToAccounts'
  BY DEF CodesBelongToAccounts
<1>6. AcceptedCodeActivates'
  BY <1>1 DEF AccountInv, AcceptedCodeActivates, Accepted, history
<1>7. MailboxProved'
  BY <1>1 DEF AccountInv, MailboxProved, At, history
<1> QED
  BY <1>2, <1>3, <1>4, <1>5, <1>6, <1>7 DEF AccountInv, history

\* The seven ways in which a request ends without an effect on the row.
LEMMA EndingsStep ==
  ASSUME TypeOK, AccountInv, NEW r \in Requests,
         \/ RegisterCollides(r) \/ SendMail(r) \/ SetOtp(r) \/ DelExhausted(r)
         \/ VerifyRefused(r) \/ ResetRefused(r) \/ CreateSession(r)
  PROVE  TypeOK' /\ AccountInv'
<1>1. /\ req[r].code \in Codes \union {None} /\ req[r].key \in Key
      /\ otp \in [Key -> Codes \union {None}] /\ mailed \subseteq issued
      /\ otp["otp:register"] # None => user.registered
      /\ otp["otp:reset"] # None => user.activated
  BY DEF TypeOK, Request, AccountInv, CodesBelongToAccounts
<1>2. /\ ~At(r, "idle") /\ ~At(r, "insertUser") => user.registered
      /\ req[r].key = "otp:reset" => user.activated
      /\ req[r].at \in {"reset.user", "reset.update"} => req[r].key = "otp:reset"
  BY DEF AccountInv, StageInv
<1> USE DEF At, Accepted, Key
<1>3. CASE RegisterCollides(r)
  BY <1>1, <1>3, EndStep DEF RegisterCollides
<1>4. CASE SendMail(r)
  <2>1. req[r].code \in issued
    BY <1>4 DEF SendMail, AccountInv, AcceptanceInv
  <2> QED
    BY <1>1, <1>4, <2>1, EndStep DEF SendMail
<1>5. CASE SetOtp(r)
  BY <1>1, <1>2, <1>5, EndStep DEF SetOtp
<1>6. CASE DelExhausted(r)
  BY <1>1, <1>6, EndStep DEF DelExhausted
<1>7. CASE VerifyRefused(r)
  BY <1>1, <1>2, <1>7, EndStep DEF VerifyRefused
<1>8. CASE ResetRefused(r)
  BY <1>1, <1>2, <1>8, EndStep DEF ResetRefused
<1>9. CASE CreateSession(r)
  BY <1>1, <1>9, EndStep DEF CreateSession
<1> QED
  BY <1>3, <1>4, <1>5, <1>6, <1>7, <1>8, <1>9

\* A request that reads the row and moves on.
LEMMA ReadsStep ==
  ASSUME TypeOK, AccountInv, NEW r \in Requests, VerifyFindsUser(r) \/ ResetFindsUser(r)
  PROVE  TypeOK' /\ AccountInv'
<1>1. PICK from \in {"verify.user", "reset.user"},
           to \in {"verify.activate", "reset.update"} :
        /\ At(r, from) /\ Goto(r, to)
        /\ (from = "verify.user") <=> (to = "verify.activate")
        /\ UNCHANGED <<user, otp, issued, mailed, history>>
  BY DEF VerifyFindsUser, ResetFindsUser
<1>2. /\ req' \in [Requests -> Request]
      /\ req'[r].at = to /\ req'[r].key = req[r].key /\ req'[r].code = req[r].code
      /\ \A s \in Requests \ {r} : req'[s] = req[s]
  BY <1>1, GotoEffect DEF Step
<1>3. Accepted(r) /\ Accepted(r)'
  BY <1>1, <1>2 DEF Accepted, At
<1>4. TypeOK'
  BY <1>1, <1>2 DEF TypeOK, history
<1>5. StageInv'
  BY <1>1, <1>2 DEF AccountInv, StageInv, At
<1>6. AcceptanceInv'
  BY <1>1, <1>2, <1>3 DEF AccountInv, AcceptanceInv, At, Accepted, history
<1>7. CodesBelongToAccounts' /\ MailboxProved'
  BY <1>1, <1>2 DEF AccountInv, CodesBelongToAccounts, MailboxProved, At, history
<1>8. AcceptedCodeActivates'
  BY <1>1, <1>2, <1>3 DEF AccountInv, AcceptedCodeActivates, Accepted, history
<1> QED
  BY <1>1, <1>4, <1>5, <1>6, <1>7, <1>8 DEF AccountInv, history

\* The unique index makes the INSERT that succeeds the first.
LEMMA InsertStep ==
  ASSUME TypeOK, AccountInv, NEW r \in Requests, RegisterInserts(r)
  PROVE  TypeOK' /\ AccountInv'
<1>1. /\ ~user.registered /\ ~user.activated /\ user'.registered /\ ~user'.activated
      /\ At(r, "insertUser") /\ Goto(r, "generateOtp") /\ inserts' = inserts + 1
      /\ UNCHANGED <<otp, issued, mailed, consumed, cut, resetTo>>
      /\ inserts = 0
  BY DEF RegisterInserts, InsertUser, EmailFree, AccountInv, StageInv
<1>2. /\ req' \in [Requests -> Request]
      /\ req'[r].at = "generateOtp" /\ req'[r].key = req[r].key
      /\ \A s \in Requests \ {r} : req'[s] = req[s]
  BY <1>1, GotoEffect DEF Step
<1>3. user' \in User
  <2>1. req[r].password \in Passwords \union {None}
    BY DEF TypeOK, Request
  <2> QED
    BY <2>1 DEF RegisterInserts, InsertUser, User, Secret, Plain, Hash
<1>4. TypeOK'
  BY <1>1, <1>2, <1>3 DEF TypeOK
<1>5. StageInv' /\ CodesBelongToAccounts'
  BY <1>1, <1>2 DEF AccountInv, StageInv, CodesBelongToAccounts, At
<1>6. AcceptanceInv' /\ AcceptedCodeActivates' /\ MailboxProved'
  BY <1>1, <1>2
  DEF AccountInv, StageInv, AcceptanceInv, AcceptedCodeActivates, MailboxProved, Accepted, At
<1> QED
  BY <1>1, <1>4, <1>5, <1>6 DEF AccountInv

\* A code is generated by a request whose user is inserted, or activated.
LEMMA GenerateStep ==
  ASSUME TypeOK, AccountInv, NEW r \in Requests, NEW c \in Codes, GenerateOtp(r, c)
  PROVE  TypeOK' /\ AccountInv'
<1>1. /\ At(r, "generateOtp") /\ issued' = issued \union {c}
      /\ otp' = [otp EXCEPT ![req[r].key] = c]
      /\ UNCHANGED <<user, mailed, history>>
  BY DEF GenerateOtp
<1>2. /\ req' \in [Requests -> Request]
      /\ req'[r].at = "sendMail" /\ req'[r].key = req[r].key /\ req'[r].code = c
      /\ \A s \in Requests \ {r} : req'[s] = req[s]
  BY DEF GenerateOtp, TypeOK, Becomes, Request, Step
<1>3. /\ user.registered /\ (req[r].key = "otp:reset" => user.activated)
      /\ req[r].key \in Key
  BY <1>1 DEF AccountInv, StageInv, At, TypeOK, Request
<1>4. TypeOK'
  BY <1>1, <1>2 DEF TypeOK, history
<1>5. StageInv' /\ AcceptanceInv'
  BY <1>1, <1>2 DEF AccountInv, StageInv, AcceptanceInv, Accepted, At, history
<1>6. CodesBelongToAccounts'
  BY <1>1, <1>3 DEF AccountInv, CodesBelongToAccounts, TypeOK, Key
<1>7. AcceptedCodeActivates' /\ MailboxProved'
  BY <1>1, <1>2 DEF AccountInv, AcceptedCodeActivates, MailboxProved, Accepted, At, history
<1> QED
  BY <1>1, <1>4, <1>5, <1>6, <1>7 DEF AccountInv, history

\* A code that is accepted goes on record, and its request goes on.
LEMMA DelOtpStep ==
  ASSUME TypeOK, AccountInv, NEW r \in Requests, DelOtp(r)
  PROVE  TypeOK' /\ AccountInv'
<1> DEFINE k == req[r].key
           to == IF k = "otp:register" THEN "verify.user" ELSE "reset.user"
<1>1. /\ At(r, "delOtp") /\ Goto(r, to) /\ otp' = [otp EXCEPT ![k] = None]
      /\ consumed' = [consumed EXCEPT ![k] = @ \union {req[r].code}]
      /\ UNCHANGED <<user, issued, mailed, inserts, cut, resetTo>>
  BY DEF DelOtp
<1>2. /\ req' \in [Requests -> Request]
      /\ req'[r].at = to /\ req'[r].key = k /\ req'[r].code = req[r].code
      /\ \A s \in Requests \ {r} : req'[s] = req[s]
  BY <1>1, GotoEffect DEF Step
<1>3. /\ req[r].code \in mailed /\ req[r].code \in Codes /\ k \in Key
      /\ ~Accepted(r) /\ Accepted(r)'
  BY <1>1, <1>2 DEF AccountInv, AcceptanceInv, TypeOK, Request, At, Accepted
<1>4. \A key \in Key : consumed[key] \subseteq consumed'[key]
  BY <1>1, <1>3 DEF TypeOK
<1>5. TypeOK'
  BY <1>1, <1>2, <1>3 DEF TypeOK
<1>6. StageInv'
  BY <1>1, <1>2, <1>3 DEF AccountInv, StageInv, At, Key
<1>7. AcceptanceInv'
  <2>1. req[r].code \in consumed'[k]
    BY <1>1, <1>3 DEF TypeOK
  <2>2. \A s \in Requests : req[s].key \in Key
    BY DEF TypeOK, Request
  <2> QED
    BY <1>1, <1>2, <1>3, <1>4, <2>1, <2>2 DEF AccountInv, AcceptanceInv, Accepted, At
<1>8. CodesBelongToAccounts'
  BY <1>1, <1>3 DEF AccountInv, CodesBelongToAccounts, TypeOK, Key
<1>9. AcceptedCodeActivates'
  BY <1>1, <1>2, <1>3 DEF AccountInv, AcceptedCodeActivates, Accepted, TypeOK, Key
<1>10. MailboxProved'
  BY <1>1, <1>2, <1>4 DEF AccountInv, MailboxProved, At, Key
<1> QED
  BY <1>1, <1>5, <1>6, <1>7, <1>8, <1>9, <1>10 DEF AccountInv

\* The code that activates the account was mailed, and is on record.
LEMMA ActivateStep ==
  ASSUME TypeOK, AccountInv, NEW r \in Requests, VerifyActivates(r)
  PROVE  TypeOK' /\ AccountInv'
<1>1. /\ At(r, "verify.activate") /\ ActivateUser /\ Becomes(r, Idle)
      /\ UNCHANGED <<otp, issued, mailed, history>>
  BY DEF VerifyActivates
<1>2. /\ req' \in [Requests -> Request]
      /\ req'[r].at = "idle" /\ req'[r].key = "otp:register"
      /\ \A s \in Requests \ {r} : req'[s] = req[s]
  BY <1>1, IdleEffect
<1>3. /\ user' \in User /\ user'.registered = user.registered /\ user'.activated
      /\ user.registered
  BY <1>1 DEF ActivateUser, TypeOK, User, AccountInv, StageInv, At
<1>4. req[r].code \in consumed["otp:register"] \intersect mailed
  BY <1>1 DEF AccountInv, StageInv, AcceptanceInv, Accepted, At
<1>5. TypeOK'
  BY <1>1, <1>2, <1>3 DEF TypeOK, history
<1>6. StageInv' /\ AcceptanceInv'
  BY <1>1, <1>2, <1>3 DEF AccountInv, StageInv, AcceptanceInv, Accepted, At, history
<1>7. CodesBelongToAccounts' /\ AcceptedCodeActivates' /\ MailboxProved'
  BY <1>1, <1>3, <1>4
  DEF AccountInv, CodesBelongToAccounts, AcceptedCodeActivates, MailboxProved, history
<1> QED
  BY <1>1, <1>3, <1>5, <1>6, <1>7 DEF AccountInv, history

\* The code that resets the password was mailed, and is on record.
LEMMA UpdateStep ==
  ASSUME TypeOK, AccountInv, NEW r \in Requests, ResetUpdates(r)
  PROVE  TypeOK' /\ AccountInv'
<1>1. /\ At(r, "reset.update") /\ Becomes(r, Idle)
      /\ UpdateUserPassword(Hash(Plain(req[r].password)))
      /\ resetTo' = req[r].password
      /\ UNCHANGED <<otp, issued, mailed, inserts, consumed, cut>>
  BY DEF ResetUpdates
<1>2. /\ req' \in [Requests -> Request]
      /\ req'[r].at = "idle" /\ req'[r].key = "otp:register"
      /\ \A s \in Requests \ {r} : req'[s] = req[s]
  BY <1>1, IdleEffect
<1>3. /\ user' \in User /\ user'.registered = user.registered
      /\ user'.activated = user.activated
      /\ req[r].password \in Passwords \union {None}
  <2>1. req[r].password \in Passwords \union {None} /\ user \in User
    BY DEF TypeOK, Request
  <2> DEFINE new == Hash(Hash(Plain(req[r].password)))
  <2>2. Plain(req[r].password) \in Secret
    BY <2>1 DEF Plain, Secret
  <2>3. \A secret \in Secret : Hash(secret) \in Secret
    BY DEF Hash, Secret
  <2>4. new \in Secret
    BY <2>2, <2>3
  <2>5. user' = [user EXCEPT !.password = new]
    BY <1>1 DEF UpdateUserPassword
  <2> HIDE DEF new
  <2> QED
    BY <2>1, <2>4, <2>5 DEF User
<1>4. user.activated /\ req[r].code \in consumed["otp:reset"] \intersect mailed
  BY <1>1 DEF AccountInv, StageInv, AcceptanceInv, Accepted, At
<1>5. TypeOK'
  BY <1>1, <1>2, <1>3 DEF TypeOK
<1>6. StageInv' /\ AcceptanceInv'
  BY <1>1, <1>2, <1>3 DEF AccountInv, StageInv, AcceptanceInv, Accepted, At
<1>7. CodesBelongToAccounts' /\ AcceptedCodeActivates'
  BY <1>1, <1>3, <1>4 DEF AccountInv, CodesBelongToAccounts, AcceptedCodeActivates
<1>8. MailboxProved'
  BY <1>1, <1>2, <1>3, <1>4 DEF AccountInv, MailboxProved, At
<1> QED
  BY <1>1, <1>3, <1>5, <1>6, <1>7, <1>8 DEF AccountInv

\* A code whose request is cut short is remembered as such.
LEMMA FailStep ==
  ASSUME TypeOK, AccountInv, NEW r \in Requests, Fail(r)
  PROVE  TypeOK' /\ AccountInv'
<1>1. /\ Becomes(r, Idle)
      /\ cut' = IF Accepted(r) THEN cut \union {req[r].code} ELSE cut
      /\ UNCHANGED <<user, otp, issued, mailed, inserts, consumed, resetTo>>
  BY DEF Fail
<1>2. /\ req' \in [Requests -> Request]
      /\ req'[r].at = "idle" /\ req'[r].key = "otp:register"
      /\ \A s \in Requests \ {r} : req'[s] = req[s]
  BY <1>1, IdleEffect
<1>3. Accepted(r) => req[r].code \in Codes
  BY DEF AccountInv, AcceptanceInv, TypeOK
<1>4. TypeOK'
  BY <1>1, <1>2, <1>3 DEF TypeOK
<1>5. StageInv' /\ AcceptanceInv'
  BY <1>1, <1>2 DEF AccountInv, StageInv, AcceptanceInv, Accepted, At
<1>6. CodesBelongToAccounts'
  BY <1>1 DEF AccountInv, CodesBelongToAccounts
<1>7. AcceptedCodeActivates'
  BY <1>1, <1>2 DEF AccountInv, AcceptedCodeActivates, Accepted
<1>8. MailboxProved'
  BY <1>1, <1>2 DEF AccountInv, MailboxProved, At
<1> QED
  BY <1>1, <1>4, <1>5, <1>6, <1>7, <1>8 DEF AccountInv

\* A code that lapses is missed by nothing.
LEMMA LapseStep ==
  ASSUME TypeOK, AccountInv, NEW k \in Key, Lapse(k)
  PROVE  TypeOK' /\ AccountInv'
<1>1. /\ otp' = [otp EXCEPT ![k] = None]
      /\ UNCHANGED <<user, req, issued, mailed, history>>
  BY DEF Lapse
<1>2. TypeOK' /\ CodesBelongToAccounts'
  BY <1>1 DEF TypeOK, AccountInv, CodesBelongToAccounts, Key, history
<1>3. StageInv' /\ AcceptanceInv' /\ AcceptedCodeActivates' /\ MailboxProved'
  BY <1>1
  DEF AccountInv, StageInv, AcceptanceInv, AcceptedCodeActivates, MailboxProved,
      Accepted, At, history
<1> QED
  BY <1>1, <1>2, <1>3 DEF AccountInv, history

\* Nothing happens to it when nothing happens.
LEMMA StutterStep ==
  ASSUME TypeOK, AccountInv, UNCHANGED vars
  PROVE  TypeOK' /\ AccountInv'
<1>1. TypeOK'
  BY DEF TypeOK, vars, history
<1> QED
  BY <1>1
  DEF vars, history, AccountInv, StageInv, AcceptanceInv, CodesBelongToAccounts,
      AcceptedCodeActivates, MailboxProved, Accepted, At

-----------------------------------------------------------------------------
(* The theorems. *)

\* Every step, of any request, preserves the invariant.
LEMMA StepInv ==
  ASSUME TypeOK, AccountInv, [Next]_vars
  PROVE  TypeOK' /\ AccountInv'
<1>1. CASE UNCHANGED vars
  BY <1>1, StutterStep
<1>2. ASSUME NEW k \in Key, Lapse(k) PROVE TypeOK' /\ AccountInv'
  BY <1>2, LapseStep
<1>3. ASSUME NEW r \in Requests, Arrive(r) \/ Fail(r) PROVE TypeOK' /\ AccountInv'
  BY <1>3, ArrivalStep, FailStep
<1>4. ASSUME NEW r \in Requests, Progress(r) PROVE TypeOK' /\ AccountInv'
  BY <1>4, EndingsStep, ReadsStep, InsertStep, GenerateStep, DelOtpStep, ActivateStep,
     UpdateStep
  DEF Progress
<1> QED
  BY <1>1, <1>2, <1>3, <1>4 DEF Next

\* The invariant that makes the rest hold at every step.
THEOREM AccountCorrect == Spec => [](TypeOK /\ AccountInv)
<1>1. Init => TypeOK /\ AccountInv
  BY InitInv
<1>2. (TypeOK /\ AccountInv) /\ [Next]_vars => (TypeOK /\ AccountInv)'
  BY StepInv
<1> QED
  BY <1>1, <1>2, PTL DEF Spec

\* The variables of register, verify, resetPassword and the requests in
\* progress keep their types.
THEOREM TypeCorrect == Spec => []TypeOK
BY AccountCorrect, PTL

\* A one-time code in Redis belongs to an account that register inserted, and a
\* reset code to one that verify activated.
THEOREM CodesCorrect == Spec => []CodesBelongToAccounts
<1>1. AccountInv => CodesBelongToAccounts
  BY DEF AccountInv
<1> QED
  BY <1>1, AccountCorrect, PTL

\* A registration code that verifyOtp accepted is not lost on an account that
\* stays inactive, unless its request was cut short.
THEOREM AcceptanceCorrect == Spec => []AcceptedCodeActivates
<1>1. AccountInv => AcceptedCodeActivates
  BY DEF AccountInv
<1> QED
  BY <1>1, AccountCorrect, PTL

\* However many registers of one address overlap, one inserts the user.
THEOREM RegistrationCorrect == Spec => []OneRegistration
<1>1. AccountInv => OneRegistration
  BY DEF AccountInv, OneRegistration
<1> QED
  BY <1>1, AccountCorrect, PTL

\* The account is activated, entered and reset only through codes that reached
\* its mailbox.
THEOREM MailboxCorrect == Spec => []MailboxProved
<1>1. AccountInv => MailboxProved
  BY DEF AccountInv
<1> QED
  BY <1>1, AccountCorrect, PTL
=============================================================================
