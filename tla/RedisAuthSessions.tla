------------------------- MODULE RedisAuthSessions -------------------------
(***************************************************************************)
(* The session life cycle of AuthWithRedisService                          *)
(* (src/auth/auth.redis.service.ts): login once the credentials are        *)
(* checked, refreshTokens behind JWTRefreshTokenGuard, logout and          *)
(* logoutAllDevices.  Requests run in the workers of a PM2 cluster and     *)
(* share Redis only, so one step below is one Redis command (or one local  *)
(* computation between two of them), and the steps of different requests   *)
(* interleave freely.  Commands that one request sends together, as in     *)
(* Promise.all, travel on one connection and are executed in the order     *)
(* they were sent.  A command whose answer is lost with the connection is  *)
(* sent again by ioredis, and executed again.                              *)
(***************************************************************************)
EXTENDS TokenService

CONSTANTS Requests,     \* the requests that may be in progress at once
          MaxTime,      \* bound: the clock stops here
          FailsAt,      \* the steps at which a request may be cut short
          ResendsFrom,  \* the steps whose command may be sent again
          None

ASSUME FlowAssumption ==
  /\ MaxTime \in Nat
  /\ None \notin Logins

VARIABLES
  req,       \* req[r]: where request r is, and its local variables
  used,      \* the logins that have begun
  held,      \* held[l]: the refresh tokens of l's family handed to the client
  \* History, read by no action:
  spent,     \* spent[l]: the tokens of l's family exchanged for new ones
  twice,     \* the logins with a token exchanged more than once
  replayable,  \* the logins with a token that the code may exchange twice
  revoked,   \* the logins whose session a revocation deleted
  dropped,   \* the logins whose token record a revocation deleted
  missed,    \* the live sessions that fell out of their user's index
  resent     \* the logins whose SET session:<l> was sent again

stores == <<session, userSessions, record, tokenFamilies>>
history == <<spent, twice, replayable, revoked, dropped, missed, resent>>
vars == <<now, stores, req, used, held, history>>

Step == {"idle",
         "createSession.set", "createSession.sadd",
         "refresh.verify", "refresh.record", "refresh.session",
         "issue.sign", "issue.set", "issue.sadd", "issue.reply",
         "revoke.srem", "revoke.del", "revokeFamily.del", "revokeFamily.srem",
         "all.families", "all.delSessions", "all.delFamilies", "all.reply"}

\* at: the next step.  login: the session and family the request acts on.
\* token: the refresh token presented, then the one minted.  verdict: what
\* verifyRefreshToken answered.  sessions, families: what SMEMBERS listed.
\* late, before are history: the login was revoked when the request arrived;
\* the user's established sessions when a logout-all arrived.
Fields ==
  [at: Step, login: Logins \union {None}, token: Nat,
   verdict: {"none", "valid", "missing", "mismatch"},
   sessions: SUBSET Logins, families: SUBSET Logins,
   late: BOOLEAN, before: SUBSET Logins]

Request == {q \in Fields : q.at # "idle" => q.login \in Logins}

Idle == [at |-> "idle", login |-> None, token |-> 0, verdict |-> "none",
         sessions |-> {}, families |-> {}, late |-> FALSE, before |-> {}]

Becomes(r, local) == req' = [req EXCEPT ![r] = local]
At(r, step) == req[r].at = step
Goto(r, step) == Becomes(r, [req[r] EXCEPT !.at = step])

\* Refresh r has exchanged the token of its family's record and has yet to
\* replace the record.
Replacing(r) == req[r].at \in {"issue.sign", "issue.set"} /\ req[r].verdict = "valid"

\* The sessions of u that a client holds tokens of and that are still alive.
Established(u) == {l \in Logins : Owner[l] = u /\ held[l] # {} /\ SessionFound(l)}

Init ==
  /\ now = 0
  /\ SessionsInit
  /\ TokensInit
  /\ req = [r \in Requests |-> Idle]
  /\ used = {}
  /\ held = [l \in Logins |-> {}]
  /\ spent = [l \in Logins |-> {}]
  /\ twice = {}
  /\ replayable = {}
  /\ revoked = {}
  /\ dropped = {}
  /\ missed = {}
  /\ resent = {}

-----------------------------------------------------------------------------
(* login, from createSession on. *)

LoginCreatesSession(r, l) ==
  /\ At(r, "idle")
  /\ l \notin used
  /\ used' = used \union {l}
  /\ Becomes(r, [Idle EXCEPT !.at = "createSession.set", !.login = l])
  /\ UNCHANGED <<now, stores, held, history>>

CreateSessionSet(r) ==
  /\ At(r, "createSession.set")
  /\ SetSession(req[r].login)
  /\ Goto(r, "createSession.sadd")
  /\ UNCHANGED <<now, record, tokenFamilies, used, held, history>>

CreateSessionSadd(r) ==
  /\ At(r, "createSession.sadd")
  /\ IndexSession(req[r].login)
  /\ Goto(r, "issue.sign")
  /\ UNCHANGED <<now, record, tokenFamilies, used, held, history>>

(* issueToken, the tail of login and of refreshTokens. *)

\* Signed in the second of a token that was exchanged, it is that token again.
IssueSign(r) ==
  LET l == req[r].login IN
  /\ At(r, "issue.sign")
  /\ Becomes(r, [req[r] EXCEPT !.at = "issue.set", !.token = now])
  /\ replayable' = IF now \in spent[l] THEN replayable \union {l} ELSE replayable
  /\ UNCHANGED <<now, stores, used, held, spent, twice, revoked, dropped, missed, resent>>

IssueSet(r) ==
  /\ At(r, "issue.set")
  /\ SetRecord(req[r].login, req[r].token)
  /\ Goto(r, "issue.sadd")
  /\ UNCHANGED <<now, session, userSessions, used, held, history>>

IssueSadd(r) ==
  /\ At(r, "issue.sadd")
  /\ IndexFamily(req[r].login)
  /\ Goto(r, "issue.reply")
  /\ UNCHANGED <<now, session, userSessions, used, held, history>>

IssueReply(r) ==
  /\ At(r, "issue.reply")
  /\ held' = [held EXCEPT ![req[r].login] = @ \union {req[r].token}]
  /\ Becomes(r, Idle)
  /\ UNCHANGED <<now, stores, used, history>>

-----------------------------------------------------------------------------
(* refreshTokens. *)

\* JWTRefreshTokenGuard answers 401 to an expired token, without any effect.
RefreshGuard(r, l, iat) ==
  /\ At(r, "idle")
  /\ iat \in held[l]
  /\ ~JwtExpired(iat)
  /\ Becomes(r, [Idle EXCEPT !.at = "refresh.verify", !.login = l, !.token = iat,
                             !.late = l \in revoked])
  /\ UNCHANGED <<now, stores, used, held, history>>

\* The service verifies the token again: a token that expired since the guard
\* let it through takes the TokenExpiredError branch, which revokes.
RefreshVerify(r) ==
  /\ At(r, "refresh.verify")
  /\ Goto(r, IF JwtExpired(req[r].token) THEN "revoke.srem" ELSE "refresh.record")
  /\ UNCHANGED <<now, stores, used, held, history>>

\* Two slips: a detected reuse would end the token family only, and a missing
\* session would be looked for again.
RejectedEndsFamilyOnly(r) ==
  LET verdict == Verdict(req[r].login, req[r].token) IN
  /\ At(r, "refresh.record")
  /\ verdict # "valid"
  /\ Becomes(r, [req[r] EXCEPT !.at = "revokeFamily.del", !.verdict = verdict])
  /\ UNCHANGED <<now, stores, used, held, history>>

MissedSessionRetried(r) ==
  /\ At(r, "refresh.session")
  /\ ~SessionFound(req[r].login)
  /\ Goto(r, "refresh.record")
  /\ UNCHANGED <<now, stores, used, held, history>>

RefreshRejected(r) ==
  LET verdict == Verdict(req[r].login, req[r].token) IN
  /\ At(r, "refresh.record")
  /\ verdict # "valid"
  /\ Becomes(r, [req[r] EXCEPT !.at = "revoke.srem", !.verdict = verdict])
  /\ UNCHANGED <<now, stores, used, held, history>>

RefreshAccepted(r) ==
  LET l == req[r].login
      WasRead == \E q \in Requests :
                   (At(q, "refresh.session") \/ Replacing(q)) /\ req[q].login = l
  IN
  /\ At(r, "refresh.record")
  /\ Verdict(l, req[r].token) = "valid"
  /\ Becomes(r, [req[r] EXCEPT !.at = "refresh.session", !.verdict = "valid"])
  /\ replayable' = IF WasRead THEN replayable \union {l} ELSE replayable
  /\ UNCHANGED <<now, stores, used, held, spent, twice, revoked, dropped, missed, resent>>

\* From here on the presented token is exchanged for a new one.
RefreshFindsSession(r) ==
  LET l == req[r].login
      iat == req[r].token
  IN
  /\ At(r, "refresh.session")
  /\ SessionFound(l)
  /\ Goto(r, "issue.sign")
  /\ spent' = [spent EXCEPT ![l] = @ \union {iat}]
  /\ twice' = IF iat \in spent[l] THEN twice \union {l} ELSE twice
  /\ UNCHANGED <<now, stores, used, held, replayable, revoked, dropped, missed, resent>>

\* "Session not found": refused, and the family is left as it is.
RefreshMissesSession(r) ==
  /\ At(r, "refresh.session")
  /\ ~SessionFound(req[r].login)
  /\ Becomes(r, Idle)
  /\ UNCHANGED <<now, stores, used, held, history>>

-----------------------------------------------------------------------------
(* logout, and the revocation it shares with a refused refresh. *)

LogoutFindsSession(r, l) ==
  /\ At(r, "idle")
  /\ held[l] # {}
  /\ SessionFound(l)
  /\ Becomes(r, [Idle EXCEPT !.at = "revoke.srem", !.login = l])
  /\ UNCHANGED <<now, stores, used, held, history>>

RevokeSrem(r) ==
  /\ At(r, "revoke.srem")
  /\ UnindexSession(req[r].login)
  /\ Goto(r, "revoke.del")
  /\ UNCHANGED <<now, record, tokenFamilies, used, held, history>>

RevokeDel(r) ==
  /\ At(r, "revoke.del")
  /\ DeleteSession(req[r].login)
  /\ Goto(r, "revokeFamily.del")
  /\ revoked' = revoked \union {req[r].login}
  /\ UNCHANGED <<now, record, tokenFamilies, used, held,
                 spent, twice, replayable, dropped, missed, resent>>

RevokeFamilyDel(r) ==
  /\ At(r, "revokeFamily.del")
  /\ DeleteRecord(req[r].login)
  /\ Goto(r, "revokeFamily.srem")
  /\ dropped' = dropped \union {req[r].login}
  /\ UNCHANGED <<now, session, userSessions, used, held,
                 spent, twice, replayable, revoked, missed, resent>>

RevokeFamilySrem(r) ==
  /\ At(r, "revokeFamily.srem")
  /\ UnindexFamily(req[r].login)
  /\ Becomes(r, Idle)
  /\ UNCHANGED <<now, session, userSessions, used, held, history>>

-----------------------------------------------------------------------------
(* logoutAllDevices: both listings are sent at once, each DEL once its own *)
(* listing has been answered.                                              *)

LogoutAllListsSessions(r, l) ==
  /\ At(r, "idle")
  /\ held[l] # {}
  /\ Becomes(r, [Idle EXCEPT !.at = "all.families", !.login = l,
                             !.sessions = userSessions[Owner[l]],
                             !.before = Established(Owner[l])])
  /\ UNCHANGED <<now, stores, used, held, history>>

LogoutAllListsFamilies(r) ==
  /\ At(r, "all.families")
  /\ Becomes(r, [req[r] EXCEPT !.at = "all.delSessions",
                               !.families = tokenFamilies[Owner[req[r].login]]])
  /\ UNCHANGED <<now, stores, used, held, history>>

LogoutAllDeletesSessions(r) ==
  LET u == Owner[req[r].login]
      listed == req[r].sessions
  IN
  /\ At(r, "all.delSessions")
  /\ DeleteSessions(u, listed)
  /\ Goto(r, "all.delFamilies")
  /\ revoked' = revoked \union listed
  /\ missed' = missed \union (userSessions[u] \ (userSessions'[u] \union listed))
  /\ UNCHANGED <<now, record, tokenFamilies, used, held,
                 spent, twice, replayable, dropped, resent>>

LogoutAllDeletesFamilies(r) ==
  /\ At(r, "all.delFamilies")
  /\ DeleteRecords(Owner[req[r].login], req[r].families)
  /\ Goto(r, "all.reply")
  /\ dropped' = dropped \union req[r].families
  /\ UNCHANGED <<now, session, userSessions, used, held,
                 spent, twice, replayable, revoked, missed, resent>>

LogoutAllReply(r) ==
  /\ At(r, "all.reply")
  /\ Becomes(r, Idle)
  /\ UNCHANGED <<now, stores, used, held, history>>

-----------------------------------------------------------------------------
\* A revocation by r has taken its session out of the index and not ended it.
Unindexing(r) ==
  /\ req[r].at \in {"revoke.srem", "revoke.del"}
  /\ req[r].login \notin userSessions[Owner[req[r].login]]

\* The worker is killed (pm2 reload, max_memory_restart) or ioredis gives up
\* on the command: the request ends with what it has done so far, and its
\* client has no answer.
Fail(r) ==
  /\ ~At(r, "idle")
  /\ req[r].at \in FailsAt
  /\ Becomes(r, Idle)
  /\ missed' = IF Unindexing(r) THEN missed \union {req[r].login} ELSE missed
  /\ replayable' = IF Replacing(r) THEN replayable \union {req[r].login} ELSE replayable
  /\ UNCHANGED <<now, stores, used, held, spent, twice, revoked, dropped, resent>>

\* The steps at which request r sent a command that has been executed and
\* whose answer it may be waiting for.  A login and a refresh share the tail:
\* only a login comes to issue.sign from createSession.  In a logout the
\* family's two commands follow the answer of the session's; that a resend
\* may reach back to those, too, only deletes again what is deleted.
Unanswered(r) ==
  CASE At(r, "createSession.sadd") -> {"createSession.set"}
    [] At(r, "issue.sign")         -> IF req[r].verdict = "none"
                                      THEN {"createSession.set", "createSession.sadd"}
                                      ELSE {}
    [] At(r, "issue.sadd")         -> {"issue.set"}
    [] At(r, "issue.reply")        -> {"issue.set", "issue.sadd"}
    [] At(r, "revoke.del")         -> {"revoke.srem"}
    [] At(r, "revokeFamily.del")   -> {"revoke.srem", "revoke.del"}
    [] At(r, "revokeFamily.srem")  -> {"revokeFamily.del"}
    [] At(r, "all.delFamilies")    -> {"all.delSessions"}
    [] At(r, "all.reply")          -> {"all.delSessions", "all.delFamilies"}
    [] OTHER                       -> {}

\* The connection is lost before the answers arrive, and once it is back
\* ioredis sends the unanswered commands again.  Reads need no action here: a
\* GET or SMEMBERS that is sent again is one that was sent later.
Resend(r) ==
  /\ \E step \in Unanswered(r) \cap ResendsFrom :
       /\ Goto(r, step)
       /\ resent' = IF step = "createSession.set"
                    THEN resent \union {req[r].login} ELSE resent
  /\ UNCHANGED <<now, stores, used, held,
                 spent, twice, replayable, revoked, dropped, missed>>

\* So may the last command of a revocation.
ResendFamilySrem(r) ==
  /\ At(r, "revokeFamily.srem")
  /\ "revokeFamily.srem" \in ResendsFrom
  /\ UnindexFamily(req[r].login)
  /\ UNCHANGED <<now, session, userSessions, req, used, held, history>>

Tick ==
  /\ now < MaxTime
  /\ now' = now + 1
  /\ UNCHANGED <<stores, req, used, held, history>>

\* The steps a request takes once it has begun.
Progress(r) ==
  \/ CreateSessionSet(r) \/ CreateSessionSadd(r)
  \/ IssueSign(r) \/ IssueSet(r) \/ IssueSadd(r) \/ IssueReply(r)
  \/ RefreshVerify(r) \/ RefreshRejected(r) \/ RefreshAccepted(r)
  \/ RefreshFindsSession(r) \/ RefreshMissesSession(r)
  \/ RevokeSrem(r) \/ RevokeDel(r) \/ RevokeFamilyDel(r) \/ RevokeFamilySrem(r)
  \/ LogoutAllListsFamilies(r) \/ LogoutAllDeletesSessions(r)
  \/ LogoutAllDeletesFamilies(r) \/ LogoutAllReply(r)

Arrive(r) ==
  \E l \in Logins :
    \/ LoginCreatesSession(r, l)
    \/ LogoutFindsSession(r, l)
    \/ LogoutAllListsSessions(r, l)
    \/ \E iat \in held[l] : RefreshGuard(r, l, iat)

Next ==
  \/ \E r \in Requests :
       Arrive(r) \/ Progress(r) \/ Fail(r) \/ Resend(r) \/ ResendFamilySrem(r)
  \/ Tick

Spec == Init /\ [][Next]_vars

\* A begun request goes on: a command is answered or, after ioredis's
\* maxRetriesPerRequest, given up (then the request is over: Fail).  The
\* connection does not break for ever.
FairSpec ==
  /\ Spec
  /\ \A r \in Requests : WF_vars(Progress(r))
  /\ <>[][\A r \in Requests : ~Resend(r) /\ ~ResendFamilySrem(r)]_vars

-----------------------------------------------------------------------------
(* Properties. *)

\* Every variable keeps its type.
TypeOK ==
  /\ now \in Nat
  /\ SessionsTypeOK
  /\ TokensTypeOK
  /\ req \in [Requests -> Request]
  /\ used \in SUBSET Logins
  /\ held \in [Logins -> SUBSET Nat]
  /\ spent \in [Logins -> SUBSET Nat]
  /\ twice \in SUBSET Logins
  /\ replayable \in SUBSET Logins
  /\ revoked \in SUBSET Logins
  /\ dropped \in SUBSET Logins
  /\ missed \in SUBSET Logins
  /\ resent \in SUBSET Logins

Issuing == {"issue.sign", "issue.set", "issue.sadd", "issue.reply"}

\* Revocation is final: once logout, logout-all or a refused refresh has
\* deleted a session, no refresh that arrives afterwards issues a token for
\* it, whatever the requests in progress at the time still write or ioredis
\* sends again; but for a login that was in progress itself and whose SET of
\* the session was sent again.
RevocationSticks ==
  \A r \in Requests :
    req[r].late => req[r].at \notin Issuing \/ req[r].login \in resent

\* "Refresh token reuse detected" never strikes a client that did not reuse
\* a token: the presented token had been exchanged, or some token of the
\* family had been exchanged twice (by two refreshes at once, or in a second).
ReuseReportJustified ==
  \A r \in Requests :
    req[r].verdict = "mismatch" =>
      req[r].token \in spent[req[r].login] \/ req[r].login \in twice

\* A token is exchanged once, but for the three ways it can be valid again: two
\* refreshes that read its record before either replaced it, a refresh that
\* was cut short before it replaced the record, and a new token signed in the
\* second of an old one.
ExchangedOnce == twice \subseteq replayable

\* "Refresh token revoked" is answered only for a family that was revoked or
\* a token that has expired: no rotation makes a record expire before the
\* tokens of its family do, in whatever order concurrent SETs arrive.
MissingReportJustified ==
  \A r \in Requests :
    req[r].verdict = "missing" =>
      req[r].login \in dropped \/ JwtExpired(req[r].token)

\* l fell out of its user's index, or is about to be deleted.
Excused(l) ==
  \/ l \in missed
  \/ \E r \in Requests : Unindexing(r) /\ req[r].login = l

\* When logout-all answers, each session that was in use when it began has
\* ended, is about to be ended by another request, or had fallen out of the
\* index it reads through one of the two gaps that "missed" records: a
\* login between SMEMBERS and DEL, and a revocation cut short before its DEL.
LogoutAllEndsSessions ==
  \A r \in Requests :
    At(r, "all.reply") =>
      \A l \in req[r].before :
         ~SessionFound(l) \/ Excused(l)

\* Every request ends: no command order leaves one waiting.
RequestsEnd == \A r \in Requests : ~At(r, "idle") ~> At(r, "idle")

\* A detected reuse ends the session for good: whoever holds the newer token
\* of the family loses it too, and no refresh in progress brings it back.
ReuseEndsSession ==
  \A l \in Logins :
    (\E r \in Requests : req[r].login = l /\ req[r].verdict = "mismatch")
      ~> [](session[l] = Gone)

-----------------------------------------------------------------------------
(* Claims of the documentation that the code does not keep. *)

\* README "Refresh token rotation": a token that was exchanged is worthless.
TokensExchangedOnce == twice = {}

\* README "Logout current device or all devices": with no other request in
\* progress, logout-all leaves no session that was in use when it began.
LogoutAllIsComplete ==
  \A r \in Requests :
    At(r, "all.reply") /\ (\A q \in Requests \ {r} : At(q, "idle")) =>
      \A l \in req[r].before : ~SessionFound(l)

-----------------------------------------------------------------------------
(* What makes them hold at every step. *)

\* l has not been given its session yet.
Unborn(l) ==
  \/ l \notin used
  \/ \E r \in Requests : At(r, "createSession.set") /\ req[r].login = l

\* Nothing refers to l: no key, no index, no listing, no client.
Untouched(l) ==
  /\ session[l] = Gone
  /\ held[l] = {}
  /\ l \notin revoked
  /\ \A u \in Users : l \notin userSessions[u]
  /\ \A r \in Requests : l \notin req[r].sessions

\* Nothing refers to a login before its SET session:<l>, so that SET cannot
\* undo a revocation unless it is sent again: a session that was deleted stays
\* deleted, and a refresh that arrives afterwards only looks for it.
BegunInv ==
  /\ \A r \in Requests : ~At(r, "idle") => req[r].login \in used
  /\ \A l \in Logins : held[l] # {} => l \in used

\* Request r is a login that has not answered yet.
Opening(r) ==
  \/ req[r].at \in {"createSession.set", "createSession.sadd"}
  \/ req[r].at \in Issuing /\ req[r].verdict = "none"

\* Until then no client has a token of it, and no other request acts on it.
OpeningInv ==
  \A r \in Requests : Opening(r) =>
    /\ held[req[r].login] = {}
    /\ \A q \in Requests : q # r /\ ~At(q, "idle") => req[q].login # req[r].login

\* A refresh that looks for its session has been found valid.
AcceptedInv ==
  \A r \in Requests : At(r, "refresh.session") => req[r].verdict = "valid"

UnbornInv == \A l \in Logins \ resent : Unborn(l) => Untouched(l)

RevokedInv == \A l \in revoked \ resent : session[l] = Gone

LateInv ==
  \A r \in Requests :
    req[r].late => /\ req[r].login \in revoked
                   /\ ~Opening(r)

SessionInv ==
  /\ BegunInv
  /\ OpeningInv
  /\ AcceptedInv
  /\ UnbornInv
  /\ RevokedInv
  /\ LateInv
  /\ RevocationSticks

\* The tokens that l's client holds and nobody has exchanged yet.
Outstanding(l) == held[l] \ spent[l]

\* Request r is on its way to hand out a new token of its family.
Renewing(r) == req[r].at \in {"createSession.set", "createSession.sadd"} \union Issuing

\* As long as no token was exchanged twice, a family has one right to a new
\* token: one request renewing it, or one outstanding token, its record's.
FamilyInv(l) ==
  /\ \A r \in Requests :
       Renewing(r) /\ req[r].login = l =>
         /\ Outstanding(l) = {}
         /\ \A q \in Requests : Renewing(q) /\ req[q].login = l => q = r
         /\ req[r].at \in {"issue.sadd", "issue.reply"} /\ record[l].deadline # Gone
              => record[l].iat = req[r].token
  /\ \A iat, iat2 \in Outstanding(l) : iat = iat2
  /\ record[l].deadline # Gone => Outstanding(l) \subseteq {record[l].iat}

\* A refresh presents a token that its client holds.
PresentedInv ==
  \A r \in Requests :
    req[r].at \in {"refresh.verify", "refresh.record", "refresh.session"} =>
      req[r].token \in held[req[r].login]

\* A refused refresh does nothing any more but revoke.
RefusedInv ==
  \A r \in Requests :
    req[r].verdict \in {"mismatch", "missing"} =>
      req[r].at \in {"revoke.srem", "revoke.del", "revokeFamily.del", "revokeFamily.srem"}

RotationInv ==
  /\ PresentedInv
  /\ RefusedInv
  /\ \A l \in Logins \ twice : FamilyInv(l)
  /\ ReuseReportJustified

\* Request r holds its family's right to a new token.
Claiming(r) == At(r, "refresh.session") \/ Renewing(r)

\* While l is not replayable its right is one request's at the most, the
\* record keeps a token that was never exchanged unless a refresh is about to
\* replace it, and neither a presented nor a minted token was exchanged.
ExchangeInv(l) ==
  /\ \A r, q \in Requests :
       Claiming(r) /\ req[r].login = l /\ Claiming(q) /\ req[q].login = l => q = r
  /\ \A r \in Requests :
       req[r].login = l /\ req[r].at \in {"refresh.session", "issue.set", "issue.sadd", "issue.reply"}
         => req[r].token \notin spent[l]
  /\ record[l].deadline # Gone =>
       \/ record[l].iat \notin spent[l]
       \/ \E r \in Requests : Replacing(r) /\ req[r].login = l

ReplayInv ==
  /\ replayable \subseteq used
  /\ \A l \in Logins : spent[l] \subseteq held[l]
  /\ \A l \in Logins \ replayable : ExchangeInv(l)
  /\ ExchangedOnce

\* The session of l has been set, and is there no more.
Over(l) == ~Unborn(l) /\ ~SessionFound(l)

\* What a login's session is to RotatingSession.  A race of refreshes makes it
\* contended, a second SET of the session excused.
RightOf(l) ==
  IF l \in resent THEN "excused"
  ELSE IF l \notin used THEN "new"
  ELSE IF Over(l) THEN "ended"
  ELSE IF l \in replayable THEN "contended"
  ELSE IF \E r \in Requests : Renewing(r) /\ req[r].login = l THEN "issuing"
  ELSE IF Outstanding(l) # {} THEN "held" ELSE "stranded"
KeepsPromise(l) == RightOf(l) \in {"new", "issuing", "held", "stranded"}
HandedOf(l) == IF KeepsPromise(l) THEN held[l] ELSE {}
ExchangedOf(l) == IF KeepsPromise(l) THEN spent[l] ELSE {}

\* Each session is a RotatingSession until its refreshes race.
Rotation ==
  INSTANCE RotatingSession WITH
    Tokens    <- 0 .. MaxTime,
    right     <- [l \in Logins |-> RightOf(l)],
    handed    <- [l \in Logins |-> HandedOf(l)],
    exchanged <- [l \in Logins |-> ExchangedOf(l)]
ImplementsRotation == Rotation!Spec

\* A session in use is where logout-all will look for it, with the two known
\* gaps; and a logout-all keeps hold of those it has seen until they are gone.
InUse(l) ==
  \/ held[l] # {}
  \/ \E r \in Requests : req[r].at \in Issuing /\ req[r].login = l

IndexInv ==
  /\ \A l \in Logins :
       InUse(l) /\ session[l] # Gone =>
         l \in userSessions[Owner[l]] \/ Excused(l)
  /\ \A r \in Requests : \A l \in req[r].before :
       /\ held[l] # {}
       /\ session[l] # Gone =>
            Excused(l) \/ (req[r].at \in {"all.families", "all.delSessions"}
                             /\ l \in req[r].sessions)
=============================================================================
