----------------------------- MODULE DbAccounts -----------------------------
(***************************************************************************)
(* The account life cycle of AuthService (src/auth/auth.service.ts) for    *)
(* one email address: register, resendVerificationLink, verify,            *)
(* forgotPassword, resetPassword and login, over the tables "users",       *)
(* "verification_tokens" and "sessions", and whatever else writes these    *)
(* tables: refreshTokens, logout and logoutAllDevices.  Only register runs *)
(* in a transaction; elsewhere a step is one SQL statement, or one mail.   *)
(* DbAuthSessions says what the rotation of tokens promises.               *)
(***************************************************************************)
EXTENDS UsersService, UserTokensService, SessionsService

CONSTANT Requests     \* the requests that may be in progress at once

ASSUME TokensAssumption == None \notin Tokens /\ None \notin Jtis

VARIABLES
  req,         \* req[r]: where request r is, and its local variables
  made,        \* the tokens generated so far
  known,       \* those answered by register or mailed by forgotPassword
  opened,      \* the sessions whose jti was generated
  \* History, read by no action:
  created,     \* the tokens that were ever stored
  latest,      \* the last of them
  redeemed,    \* the tokens the password was reset with
  twice,       \* ... more than once
  shared,      \* the tokens two resets held at once
  verified,    \* the tokens whose verification deleted them
  swept,       \* the tokens deleted by the verification of another, or for a
               \* new one that was never stored
  overlapped,  \* did two createVerificationTokens overlap?
  old,         \* the sessions that go back to a password replaced since
  spared       \* ... stored after the reset's DELETE by a request in progress
               \* at it, or kept by a reset cut short, and what they became

tokenHistory == <<created, latest, verified, swept, overlapped>>
resetHistory == <<redeemed, twice, shared, old, spared>>
history == <<tokenHistory, resetHistory>>
vars == <<user, tokens, sessions, req, made, known, opened, history>>

Step == {"idle", "register.mail", "mailLink", "mailReset",
         "create.find", "create.delete", "create.save",
         "verify.activate", "verify.delete",
         "reset.user", "reset.mark", "reset.update", "reset.sessions",
         "login.create", "refresh.delete", "refresh.create"}

\* token: the one generated, or presented.  mail: the step after
\* createVerificationToken.  active: verificationToken.user.activatedAt.
\* presented: the jti to be rotated out.  jti: of the session to be stored.
Request == [at: Step, token: Tokens \union {None}, mail: Step,
            password: Passwords \union {None}, active: BOOLEAN,
            presented: Jtis \union {None}, jti: Jtis \union {None}]
Idle == [at |-> "idle", token |-> None, mail |-> "idle", password |-> None,
         active |-> FALSE, presented |-> None, jti |-> None]

At(r, step) == req[r].at = step
Becomes(r, local) == req' = [req EXCEPT ![r] = local]
Goto(r, step) == Becomes(r, [req[r] EXCEPT !.at = step])

Init ==
  /\ user = NoUser
  /\ TokensInit
  /\ sessions = {}
  /\ req = [r \in Requests |-> Idle]
  /\ made = {} /\ known = {} /\ opened = {}
  /\ created = {} /\ latest = None
  /\ verified = {} /\ swept = {} /\ overlapped = FALSE
  /\ redeemed = {} /\ twice = {} /\ shared = {} /\ old = {} /\ spared = {}

-----------------------------------------------------------------------------
(* register, and sendEmailVerificationLink.  The token in that mail is one *)
(* of its own that nobody stores, so that to present it is in vain.        *)

\* The transaction; a second register of the address finds the row, or breaks
\* the unique index and is rolled back.
Register(r, p, t) ==
  /\ At(r, "idle")
  /\ t \notin made
  /\ InsertUser(p)
  /\ SaveToken(t)
  /\ made' = made \union {t}
  /\ created' = created \union {t}
  /\ latest' = t
  /\ Becomes(r, [Idle EXCEPT !.at = "register.mail", !.token = t])
  /\ UNCHANGED <<sessions, known, opened, verified, swept, overlapped,
                 resetHistory>>

\* register answers with the token it stored, once the mail is sent or
\* MailServiceService has swallowed the error.
RegisterMails(r) ==
  /\ At(r, "register.mail")
  /\ known' = known \union {req[r].token}
  /\ Becomes(r, Idle)
  /\ UNCHANGED <<user, tokens, sessions, made, opened, history>>

MailLink(r) ==
  /\ At(r, "mailLink")
  /\ Becomes(r, Idle)
  /\ UNCHANGED <<user, tokens, sessions, made, known, opened, history>>

-----------------------------------------------------------------------------
(* login; "mailLink" is also how resendVerificationLink ends. *)

\* login and forgotPassword of an account that is not activated.
NotActivated(r) ==
  /\ At(r, "idle")
  /\ user.registered /\ ~user.activated
  /\ Becomes(r, [Idle EXCEPT !.at = "mailLink"])
  /\ UNCHANGED <<user, tokens, sessions, made, known, opened, history>>

Login(r, p, j) ==
  /\ At(r, "idle")
  /\ user.registered /\ user.activated
  /\ PasswordIs(p)
  /\ j \notin opened
  /\ opened' = opened \union {j}
  /\ Becomes(r, [Idle EXCEPT !.at = "login.create", !.jti = j])
  /\ UNCHANGED <<user, tokens, sessions, made, known, history>>

LoginCreates(r) ==
  /\ At(r, "login.create")
  /\ CreateSession(req[r].jti)
  /\ Becomes(r, Idle)
  /\ UNCHANGED <<user, tokens, made, known, opened, history>>

-----------------------------------------------------------------------------
(* refreshTokens, logout and logoutAllDevices. *)

\* The row is found, and the next tokens are generated.  The new session goes
\* back to the login of the one it replaces.
Refresh(r, j, n) ==
  /\ At(r, "idle")
  /\ SessionByJti(j)
  /\ n \notin opened
  /\ opened' = opened \union {n}
  /\ Becomes(r, [Idle EXCEPT !.at = "refresh.delete", !.presented = j, !.jti = n])
  /\ old' = IF j \in old THEN old \union {n} ELSE old
  /\ spared' = IF j \in spared THEN spared \union {n} ELSE spared
  /\ UNCHANGED <<user, tokens, sessions, made, known, tokenHistory,
                 redeemed, twice, shared>>

RefreshDeletes(r) ==
  /\ At(r, "refresh.delete")
  /\ DeleteSessionByJti(req[r].presented)
  /\ Goto(r, "refresh.create")
  /\ UNCHANGED <<user, tokens, made, known, opened, history>>

RefreshCreates(r) ==
  /\ At(r, "refresh.create")
  /\ CreateSession(req[r].jti)
  /\ Becomes(r, Idle)
  /\ UNCHANGED <<user, tokens, made, known, opened, history>>

\* The DELETE of logout, and of a refresh with an expired token.  Whether the
\* row that logout looks up is still there makes no difference to it.
Logout(r, j) ==
  /\ At(r, "idle")
  /\ SessionByJti(j)
  /\ DeleteSessionByJti(j)
  /\ UNCHANGED <<user, tokens, req, made, known, opened, history>>

LogoutAllDevices(r) ==
  /\ At(r, "idle")
  /\ sessions # {}
  /\ DeleteSessionsByUserId
  /\ UNCHANGED <<user, tokens, req, made, known, opened, history>>

-----------------------------------------------------------------------------
(* createVerificationToken, outside a transaction. *)

Creating(r) == req[r].at \in {"create.find", "create.delete", "create.save"}

Creates(r, t, mail) ==
  /\ At(r, "idle")
  /\ t \notin made
  /\ made' = made \union {t}
  /\ Becomes(r, [Idle EXCEPT !.at = "create.find", !.token = t, !.mail = mail])
  /\ overlapped' = (overlapped \/ \E q \in Requests : Creating(q))
  /\ UNCHANGED <<user, tokens, sessions, known, opened, created, latest,
                 verified, swept, resetHistory>>

ResendVerificationLink(r, t) ==
  user.registered /\ ~user.activated /\ Creates(r, t, "mailLink")

ForgotPassword(r, t) ==
  user.registered /\ user.activated /\ Creates(r, t, "mailReset")

\* A slip CreateFinds must not make: older rows would be kept.
CreateKeepsRows(r) ==
  /\ At(r, "create.find")
  /\ Goto(r, "create.save")
  /\ UNCHANGED <<user, tokens, sessions, made, known, opened, history>>

CreateFinds(r) ==
  /\ At(r, "create.find")
  /\ Goto(r, IF Rows # {} THEN "create.delete" ELSE "create.save")
  /\ UNCHANGED <<user, tokens, sessions, made, known, opened, history>>

CreateDeletes(r) ==
  /\ At(r, "create.delete")
  /\ DeleteTokens
  /\ Goto(r, "create.save")
  /\ UNCHANGED <<user, sessions, made, known, opened, history>>

CreateSaves(r) ==
  /\ At(r, "create.save")
  /\ SaveToken(req[r].token)
  /\ created' = created \union {req[r].token}
  /\ latest' = req[r].token
  /\ Goto(r, req[r].mail)
  /\ UNCHANGED <<user, sessions, made, known, opened, verified, swept,
                 overlapped, resetHistory>>

\* forgotPassword mails the token it stored.
MailReset(r) ==
  /\ At(r, "mailReset")
  /\ known' \in {known, known \union {req[r].token}}
  /\ Becomes(r, Idle)
  /\ UNCHANGED <<user, tokens, sessions, made, opened, history>>

-----------------------------------------------------------------------------
(* verify.  A token that is not valid is refused without any effect. *)

Verify(r, t) ==
  /\ At(r, "idle")
  /\ t \in known
  /\ TokenIsValid(t)
  /\ Becomes(r, [Idle EXCEPT !.at = "verify.activate", !.token = t,
                             !.active = user.activated])
  /\ UNCHANGED <<user, tokens, sessions, made, known, opened, history>>

\* "User is already activated" comes after the account was activated again.
VerifyActivates(r) ==
  /\ At(r, "verify.activate")
  /\ ActivateUser
  /\ Becomes(r, IF req[r].active THEN Idle ELSE [req[r] EXCEPT !.at = "verify.delete"])
  /\ UNCHANGED <<tokens, sessions, made, known, opened, history>>

\* All rows of the user; markTokenAsUsed then finds none to update.
VerifyDeletes(r) ==
  /\ At(r, "verify.delete")
  /\ DeleteTokens
  /\ verified' = verified \union {req[r].token}
  /\ swept' = swept \union (Rows \ {req[r].token})
  /\ Becomes(r, Idle)
  /\ UNCHANGED <<user, sessions, made, known, opened, created, latest,
                 overlapped, resetHistory>>

-----------------------------------------------------------------------------
(* resetPassword.  It takes any token: the type is not asked for. *)

\* A reset that may still pass with the row it read.
HoldsUnused(r, t) == /\ req[r].at \in {"reset.user", "reset.mark"}
                     /\ req[r].token = t

ResetPassword(r, t, p) ==
  /\ At(r, "idle")
  /\ t \in known
  /\ TokenIsValid(t)
  /\ Becomes(r, [Idle EXCEPT !.at = "reset.user", !.token = t, !.password = p])
  /\ shared' = IF \E q \in Requests : HoldsUnused(q, t) THEN shared \union {t} ELSE shared
  /\ UNCHANGED <<user, tokens, sessions, made, known, opened,
                 tokenHistory, redeemed, twice, old, spared>>

ResetFindsUser(r) ==
  /\ At(r, "reset.user")
  /\ ~PasswordIs(req[r].password)
  /\ Goto(r, "reset.mark")
  /\ UNCHANGED <<user, tokens, sessions, made, known, opened, history>>

\* "New password cannot be the same as the old password".
ResetRefused(r) ==
  /\ At(r, "reset.user")
  /\ PasswordIs(req[r].password)
  /\ Becomes(r, Idle)
  /\ UNCHANGED <<user, tokens, sessions, made, known, opened, history>>

ResetMarks(r) ==
  /\ At(r, "reset.mark")
  /\ MarkTokenAsUsed(req[r].token)
  /\ Goto(r, "reset.update")
  /\ UNCHANGED <<user, sessions, made, known, opened, history>>

\* The password is hashed here, and by updateUserPassword again.
ResetUpdates(r) ==
  LET t == req[r].token IN
  /\ At(r, "reset.update")
  /\ UpdateUserPassword(Hash(Plain(req[r].password)))
  /\ Goto(r, "reset.sessions")
  /\ redeemed' = redeemed \union {t}
  /\ twice' = IF t \in redeemed THEN twice \union {t} ELSE twice
  /\ old' = opened
  /\ UNCHANGED <<tokens, sessions, made, known, opened, tokenHistory,
                 shared, spared>>

\* The sessions that requests in progress are about to store.
Storing(r) == req[r].at \in {"login.create", "refresh.delete", "refresh.create"}
Underway == {req[r].jti : r \in {q \in Requests : Storing(q)}}

ResetDeletesSessions(r) ==
  /\ At(r, "reset.sessions")
  /\ DeleteSessionsByUserId
  /\ Becomes(r, Idle)
  /\ spared' = spared \union (old \intersect Underway)
  /\ UNCHANGED <<user, tokens, made, known, opened, tokenHistory,
                 redeemed, twice, shared, old>>

-----------------------------------------------------------------------------
\* The worker dies, or a statement fails: the request ends there.
Fail(r) ==
  /\ ~At(r, "idle")
  /\ Becomes(r, Idle)
  /\ swept' = IF At(r, "create.save") THEN swept \union {latest} ELSE swept
  /\ spared' = IF At(r, "reset.sessions")
              THEN spared \union (old \intersect (sessions \union Underway)) ELSE spared
  /\ UNCHANGED <<user, tokens, sessions, made, known, opened, created,
                 latest, verified, overlapped, redeemed, twice, shared, old>>

\* The 15 minutes of expiresAt have passed.
Lapse(t) ==
  /\ tokens[t] = "stored"
  /\ tokens' = [tokens EXCEPT ![t] = "lapsed"]
  /\ UNCHANGED <<user, sessions, req, made, known, opened, history>>

Arrive(r) ==
  \/ \E t \in Tokens :
       \/ ResendVerificationLink(r, t) \/ ForgotPassword(r, t) \/ Verify(r, t)
       \/ \E p \in Passwords : Register(r, p, t) \/ ResetPassword(r, t, p)
  \/ \E p \in Passwords, j \in Jtis : Login(r, p, j)
  \/ \E j, n \in Jtis : Refresh(r, j, n)
  \/ \E j \in Jtis : Logout(r, j)
  \/ NotActivated(r) \/ LogoutAllDevices(r)

Progress(r) ==
  \/ RegisterMails(r) \/ MailLink(r)
  \/ CreateFinds(r) \/ CreateDeletes(r) \/ CreateSaves(r) \/ MailReset(r)
  \/ LoginCreates(r) \/ RefreshDeletes(r) \/ RefreshCreates(r)
  \/ VerifyActivates(r) \/ VerifyDeletes(r)
  \/ ResetFindsUser(r) \/ ResetRefused(r) \/ ResetMarks(r) \/ ResetUpdates(r)
  \/ ResetDeletesSessions(r)

Next ==
  \/ \E r \in Requests : Arrive(r) \/ Progress(r) \/ Fail(r)
  \/ \E t \in Tokens : Lapse(t)

Spec == Init /\ [][Next]_vars

-----------------------------------------------------------------------------
(* Properties. *)

\* Every variable keeps its type.
TypeOK ==
  /\ user \in User
  /\ TokensTypeOK
  /\ SessionsTypeOK
  /\ req \in [Requests -> Request]
  /\ made \in SUBSET Tokens
  /\ created \in SUBSET made
  /\ known \in SUBSET created
  /\ opened \in SUBSET Jtis
  /\ latest \in created \union {None}
  /\ verified \in SUBSET created
  /\ swept \in SUBSET created
  /\ overlapped \in BOOLEAN
  /\ redeemed \in SUBSET created
  /\ twice \in SUBSET redeemed
  /\ shared \in SUBSET created
  /\ old \in SUBSET opened
  /\ spared \in SUBSET old

\* A user has one row in verification_tokens at the most, so an older token is
\* worthless once a newer one is stored, unless two createVerificationTokens
\* overlapped.
OneToken == ~overlapped => \A t, u \in Rows : t = u

\* The token stored last stays in the table until it is used, whatever the
\* requests with older tokens still do, unless a verification of another token
\* was in progress, or the request for a newer one was cut short.
LatestTokenKept ==
  \/ latest = None
  \/ latest \in Rows \union verified \union swept
  \/ \E r \in Requests : At(r, "create.save")

\* resetPassword redeems a token once, also after a lost answer or a crash,
\* unless two resets held it at once.
RedeemedOnce == twice \subseteq shared

\* A session that goes back to a password replaced since, through whatever
\* refreshes, is ended by the reset that replaced it.  Excepted are the sessions
\* that a login or a refresh in progress stores after the reset's DELETE, those
\* that a reset cut short never deleted, and what refreshes make of either.
OldSessionsEnd ==
  sessions \intersect old # {} =>
    sessions \intersect old \subseteq spared \/ \E r \in Requests : At(r, "reset.sessions")

-----------------------------------------------------------------------------
(* What makes them hold at every step. *)

\* The steps at which a request holds a token that was stored.
HoldsStored(r) ==
  req[r].at \in {"register.mail", "mailReset", "verify.activate", "verify.delete",
                "reset.user", "reset.mark", "reset.update", "reset.sessions"}

\* A token about to be stored is new; unless two are, the table is empty by then.
CreatingInv(r) ==
  Creating(r) =>
    /\ req[r].token \in made \ created
    /\ req[r].mail \in {"mailLink", "mailReset"}
    /\ \A q \in Requests : q # r /\ Creating(q) => req[q].token # req[r].token
    /\ ~overlapped => /\ \A q \in Requests : Creating(q) => q = r
                      /\ At(r, "create.save") => Rows = {}

TokenInv ==
  /\ Rows \subseteq created
  /\ user.registered <=> latest # None
  /\ ~user.registered => Rows = {} /\ \A r \in Requests : At(r, "idle")
  /\ \A r \in Requests : CreatingInv(r) /\ (HoldsStored(r) => req[r].token \in created)
  /\ OneToken
  /\ LatestTokenKept

\* A reset that has marked t, and has yet to replace the password.
Marked(r, t) == At(r, "reset.update") /\ req[r].token = t

\* A token that no two resets held is held by one reset while it is unused,
\* and marked by one before it is redeemed; then it is never valid again.
ResetInv ==
  \A t \in Tokens \ shared :
    /\ t \notin twice
    /\ \A r, q \in Requests : HoldsUnused(r, t) /\ HoldsUnused(q, t) => q = r
    /\ t \in redeemed \/ (\E r \in Requests : Marked(r, t)) =>
         /\ tokens[t] # "stored"
         /\ \A r \in Requests : ~HoldsUnused(r, t)
    /\ \A r \in Requests : Marked(r, t) =>
         /\ t \notin redeemed
         /\ \A q \in Requests : Marked(q, t) => q = r

\* What OldSessionsEnd says of the rows, said of the rows to come too: a request
\* in progress at the reset's DELETE is the only way past it.
SessionInv ==
  /\ sessions # {} => user.registered
  /\ \A r \in Requests : Storing(r) => req[r].jti \in opened
  /\ \/ old \intersect (sessions \union Underway) \subseteq spared
     \/ \E r \in Requests : At(r, "reset.sessions")

DbAccountInv == TokenInv /\ ResetInv /\ SessionInv

=============================================================================
