--------------------------- MODULE RedisAccounts ---------------------------
(***************************************************************************)
(* The account life cycle of AuthWithRedisService                          *)
(* (src/auth/auth.redis.service.ts) for one email address: register,       *)
(* resendOtp, verify, forgotPassword, resetPassword, and login up to the   *)
(* session it opens.  It ties the row in PostgreSQL to the two one-time    *)
(* codes in Redis, and a step is one SQL statement or one Redis command.   *)
(*                                                                         *)
(* OtpService's counting and clock are abstracted by nondeterminism: a     *)
(* code may be found exhausted, and may lapse, at any time.                *)
(***************************************************************************)
EXTENDS UsersService

CONSTANTS Codes,      \* the codes that are ever generated
          Requests    \* the requests that may be in progress at once

ASSUME CodesAssumption == None \notin Codes

VARIABLES
  otp,       \* otp[k]: the code stored under key k
  req,       \* req[r]: where request r is, and its local variables
  issued,    \* the codes generated so far
  mailed,    \* those that reached the owner's mailbox
  \* History, read by no action:
  inserts,   \* how many INSERTs into users succeeded
  consumed,  \* the codes accepted, by the key they were accepted under
  cut,       \* the codes whose request was cut short after it was accepted
  resetTo    \* the text of the last password reset, or None

history == <<inserts, consumed, cut, resetTo>>
vars == <<user, otp, req, issued, mailed, history>>

Key == {"otp:register", "otp:reset"}

Step == {"idle", "insertUser", "generateOtp", "sendMail",
         "setOtp", "delOtp", "delExhausted",
         "verify.user", "verify.activate", "reset.user", "reset.update",
         "createSession"}

\* code: the one generated, read back or accepted.
Request == [at: Step, key: Key, code: Codes \union {None},
            password: Passwords \union {None}]
Idle == [at |-> "idle", key |-> "otp:register", code |-> None, password |-> None]

At(r, step) == req[r].at = step
Becomes(r, local) == req' = [req EXCEPT ![r] = local]
Goto(r, step) == Becomes(r, [req[r] EXCEPT !.at = step])

Init ==
  /\ user = NoUser
  /\ otp = [k \in Key |-> None]
  /\ req = [r \in Requests |-> Idle]
  /\ issued = {}
  /\ mailed = {}
  /\ inserts = 0
  /\ consumed = [k \in Key |-> {}]
  /\ cut = {}
  /\ resetTo = None

-----------------------------------------------------------------------------
(* register, resendOtp and forgotPassword: a request that finds the        *)
(* account in another state than it needs is refused without any effect.   *)

\* A slip Register must not make: the code would be generated before the user.
RegisterMailsFirst(r, p) ==
  /\ At(r, "idle")
  /\ ~user.registered
  /\ Becomes(r, [Idle EXCEPT !.at = "generateOtp", !.password = p])
  /\ UNCHANGED <<user, otp, issued, mailed, history>>

Register(r, p) ==
  /\ At(r, "idle")
  /\ ~user.registered
  /\ Becomes(r, [Idle EXCEPT !.at = "insertUser", !.password = p])
  /\ UNCHANGED <<user, otp, issued, mailed, history>>

RegisterInserts(r) ==
  /\ At(r, "insertUser")
  /\ InsertUser(req[r].password)
  /\ Goto(r, "generateOtp")
  /\ inserts' = inserts + 1
  /\ UNCHANGED <<otp, issued, mailed, consumed, cut, resetTo>>

\* A unique violation: another register came between findOneBy and INSERT.
RegisterCollides(r) ==
  /\ At(r, "insertUser")
  /\ ~EmailFree
  /\ Becomes(r, Idle)
  /\ UNCHANGED <<user, otp, issued, mailed, history>>

ResendOtp(r) ==
  /\ At(r, "idle")
  /\ user.registered /\ ~user.activated
  /\ Becomes(r, [Idle EXCEPT !.at = "generateOtp"])
  /\ UNCHANGED <<user, otp, issued, mailed, history>>

\* A slip ForgotPassword must not make: activation would not be asked for.
ForgotPasswordUnactivated(r) ==
  /\ At(r, "idle")
  /\ user.registered
  /\ Becomes(r, [Idle EXCEPT !.at = "generateOtp", !.key = "otp:reset"])
  /\ UNCHANGED <<user, otp, issued, mailed, history>>

ForgotPassword(r) ==
  /\ At(r, "idle")
  /\ user.registered /\ user.activated
  /\ Becomes(r, [Idle EXCEPT !.at = "generateOtp", !.key = "otp:reset"])
  /\ UNCHANGED <<user, otp, issued, mailed, history>>

GenerateOtp(r, c) ==
  /\ At(r, "generateOtp")
  /\ c \notin issued
  /\ otp' = [otp EXCEPT ![req[r].key] = c]
  /\ issued' = issued \union {c}
  /\ Becomes(r, [req[r] EXCEPT !.at = "sendMail", !.code = c])
  /\ UNCHANGED <<user, mailed, history>>

\* MailServiceService swallows errors: the request ends the same either way.
SendMail(r) ==
  /\ At(r, "sendMail")
  /\ mailed' \in {mailed, mailed \union {req[r].code}}
  /\ Becomes(r, Idle)
  /\ UNCHANGED <<user, otp, issued, history>>

-----------------------------------------------------------------------------
(* verifyOtp, the head of verify (key "otp:register") and of resetPassword *)
(* (key "otp:reset", with the new password p).                             *)

Presents(r, k, p, step) ==
  /\ At(r, "idle")
  /\ otp[k] # None
  /\ Becomes(r, [at |-> step, key |-> k, code |-> otp[k], password |-> p])
  /\ UNCHANGED <<user, otp, issued, mailed, history>>

\* Only a code that was mailed can be presented; what the owner mistypes
\* matches none.
PresentsRightCode(r, k, p) == otp[k] \in mailed /\ Presents(r, k, p, "delOtp")
PresentsWrongCode(r, k, p) == Presents(r, k, p, "setOtp")
PresentsTooLate(r, k, p)   == Presents(r, k, p, "delExhausted")

SetOtp(r) ==
  /\ At(r, "setOtp")
  /\ otp' = [otp EXCEPT ![req[r].key] = req[r].code]
  /\ Becomes(r, Idle)
  /\ UNCHANGED <<user, issued, mailed, history>>

DelExhausted(r) ==
  /\ At(r, "delExhausted")
  /\ otp' = [otp EXCEPT ![req[r].key] = None]
  /\ Becomes(r, Idle)
  /\ UNCHANGED <<user, issued, mailed, history>>

DelOtp(r) ==
  LET k == req[r].key IN
  /\ At(r, "delOtp")
  /\ otp' = [otp EXCEPT ![k] = None]
  /\ consumed' = [consumed EXCEPT ![k] = @ \union {req[r].code}]
  /\ Goto(r, IF k = "otp:register" THEN "verify.user" ELSE "reset.user")
  /\ UNCHANGED <<user, issued, mailed, inserts, cut, resetTo>>

-----------------------------------------------------------------------------
(* verify and resetPassword, once the code is accepted.                    *)

VerifyFindsUser(r) ==
  /\ At(r, "verify.user")
  /\ user.registered /\ ~user.activated
  /\ Goto(r, "verify.activate")
  /\ UNCHANGED <<user, otp, issued, mailed, history>>

\* "User ... not found", "User already activated".
VerifyRefused(r) ==
  /\ At(r, "verify.user")
  /\ ~user.registered \/ user.activated
  /\ Becomes(r, Idle)
  /\ UNCHANGED <<user, otp, issued, mailed, history>>

VerifyActivates(r) ==
  /\ At(r, "verify.activate")
  /\ ActivateUser
  /\ Becomes(r, Idle)
  /\ UNCHANGED <<otp, issued, mailed, history>>

ResetFindsUser(r) ==
  /\ At(r, "reset.user")
  /\ user.registered
  /\ ~PasswordIs(req[r].password)
  /\ Goto(r, "reset.update")
  /\ UNCHANGED <<user, otp, issued, mailed, history>>

\* "New password cannot be the same as the old password".
ResetRefused(r) ==
  /\ At(r, "reset.user")
  /\ ~user.registered \/ PasswordIs(req[r].password)
  /\ Becomes(r, Idle)
  /\ UNCHANGED <<user, otp, issued, mailed, history>>

\* resetPassword hashes the new password and has updateUserPassword hash it.
ResetUpdates(r) ==
  /\ At(r, "reset.update")
  /\ UpdateUserPassword(Hash(Plain(req[r].password)))
  /\ resetTo' = req[r].password
  /\ Becomes(r, Idle)
  /\ UNCHANGED <<otp, issued, mailed, inserts, consumed, cut>>

-----------------------------------------------------------------------------
(* login, up to createSession. *)

\* A slip Login must not make: activation would not be asked for.
LoginUnactivated(r, p) ==
  /\ At(r, "idle")
  /\ user.registered
  /\ PasswordIs(p)
  /\ Becomes(r, [Idle EXCEPT !.at = "createSession", !.password = p])
  /\ UNCHANGED <<user, otp, issued, mailed, history>>

Login(r, p) ==
  /\ At(r, "idle")
  /\ user.registered /\ user.activated
  /\ PasswordIs(p)
  /\ Becomes(r, [Idle EXCEPT !.at = "createSession", !.password = p])
  /\ UNCHANGED <<user, otp, issued, mailed, history>>

CreateSession(r) ==
  /\ At(r, "createSession")
  /\ Becomes(r, Idle)
  /\ UNCHANGED <<user, otp, issued, mailed, history>>

-----------------------------------------------------------------------------
Accepted(r) == req[r].at \in {"verify.user", "verify.activate", "reset.user", "reset.update"}

\* The worker dies, or a command or statement fails: the request ends there.
Fail(r) ==
  /\ ~At(r, "idle")
  /\ Becomes(r, Idle)
  /\ cut' = IF Accepted(r) THEN cut \union {req[r].code} ELSE cut
  /\ UNCHANGED <<user, otp, issued, mailed, inserts, consumed, resetTo>>

\* REDIS_TTL.OTP has passed.
Lapse(k) ==
  /\ otp[k] # None
  /\ otp' = [otp EXCEPT ![k] = None]
  /\ UNCHANGED <<user, req, issued, mailed, history>>

Arrive(r) ==
  \/ ResendOtp(r) \/ ForgotPassword(r)
  \/ \E p \in Passwords :
       \/ Register(r, p) \/ Login(r, p)
       \/ PresentsRightCode(r, "otp:reset", p)
       \/ PresentsWrongCode(r, "otp:reset", p)
       \/ PresentsTooLate(r, "otp:reset", p)
  \/ PresentsRightCode(r, "otp:register", None)
  \/ PresentsWrongCode(r, "otp:register", None)
  \/ PresentsTooLate(r, "otp:register", None)

Progress(r) ==
  \/ RegisterInserts(r) \/ RegisterCollides(r)
  \/ (\E c \in Codes : GenerateOtp(r, c)) \/ SendMail(r)
  \/ SetOtp(r) \/ DelExhausted(r) \/ DelOtp(r)
  \/ VerifyFindsUser(r) \/ VerifyRefused(r) \/ VerifyActivates(r)
  \/ ResetFindsUser(r) \/ ResetRefused(r) \/ ResetUpdates(r)
  \/ CreateSession(r)

Next ==
  \/ \E r \in Requests : Arrive(r) \/ Progress(r) \/ Fail(r)
  \/ \E k \in Key : Lapse(k)

Spec == Init /\ [][Next]_vars

-----------------------------------------------------------------------------
(* Properties. *)

\* Every variable keeps its type.
TypeOK ==
  /\ user \in User
  /\ otp \in [Key -> Codes \union {None}]
  /\ req \in [Requests -> Request]
  /\ issued \in SUBSET Codes
  /\ mailed \in SUBSET issued
  /\ inserts \in Nat
  /\ consumed \in [Key -> SUBSET Codes]
  /\ cut \in SUBSET Codes
  /\ resetTo \in Passwords \union {None}

\* Redis never runs ahead of PostgreSQL: a registration code exists only for a
\* user that was inserted, and a reset code only for one that was activated,
\* whatever a verification in progress writes back.  So no accepted code ends
\* in "User ... not found".
CodesBelongToAccounts ==
  /\ otp["otp:register"] # None => user.registered
  /\ otp["otp:reset"] # None => user.activated

\* A registration code that was accepted, and so is gone, has activated the
\* account, or its request is about to, or that request was cut short.
AcceptedCodeActivates ==
  \A c \in consumed["otp:register"] :
    \/ user.activated
    \/ c \in cut
    \/ \E r \in Requests : Accepted(r) /\ req[r].code = c

\* Of registers that run at once for one address, one creates the user: the
\* others have not generated a code for it, nor overwritten its password.
OneRegistration == inserts <= 1

\* The account is activated, and a session opened, only after a registration
\* code that reached the mailbox was accepted; the password is replaced only
\* after such a reset code was.
MailboxProved ==
  /\ user.activated \/ (\E r \in Requests : At(r, "createSession"))
       => consumed["otp:register"] \intersect mailed # {}
  /\ resetTo # None => consumed["otp:reset"] \intersect mailed # {}

-----------------------------------------------------------------------------
(* What makes them hold at every step. *)

\* How far the account must have come for a request to be where it is.
StageInv ==
  /\ user.activated => user.registered
  /\ \A r \in Requests :
       /\ ~At(r, "idle") /\ ~At(r, "insertUser") => user.registered
       /\ req[r].key = "otp:reset" \/ At(r, "createSession") => user.activated
       /\ req[r].at \in {"verify.user", "verify.activate"} => req[r].key = "otp:register"
       /\ req[r].at \in {"reset.user", "reset.update"} => req[r].key = "otp:reset"

\* A code about to be accepted was mailed, and is on record once accepted.
AcceptanceInv ==
  \A r \in Requests :
    /\ At(r, "sendMail") => req[r].code \in issued
    /\ At(r, "delOtp") \/ Accepted(r) => req[r].code \in mailed
    /\ Accepted(r) => req[r].code \in consumed[req[r].key]

AccountInv ==
  /\ StageInv
  /\ AcceptanceInv
  /\ CodesBelongToAccounts
  /\ AcceptedCodeActivates
  /\ inserts = IF user.registered THEN 1 ELSE 0
  /\ MailboxProved

-----------------------------------------------------------------------------
(* A claim of the code that the code does not keep. *)

\* "Password reset successfully.": the account accepts the password it was
\* reset to.
ResetTakesEffect == resetTo # None => PasswordIs(resetTo)
=============================================================================
