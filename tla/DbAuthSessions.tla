--------------------------- MODULE DbAuthSessions ---------------------------
(***************************************************************************)
(* The session life cycle of AuthService (src/auth/auth.service.ts), which *)
(* keeps sessions in PostgreSQL: login once the credentials are checked,   *)
(* refreshTokens behind JWTRefreshTokenGuard, logout and logoutAllDevices  *)
(* behind JwtAuthGuard, for the sessions of one user.  No transaction      *)
(* spans two statements, so a step is one statement, and the statements of *)
(* different requests interleave freely.                                   *)
(*                                                                         *)
(* generateTokens signs an access and a refresh token over one fresh       *)
(* random jti, which stands for the pair.                                  *)
(***************************************************************************)
EXTENDS SessionsService

CONSTANTS Requests,   \* the requests that may be in progress at once
          None

ASSUME FlowAssumption == None \notin Jtis

VARIABLES
  req,         \* req[r]: where request r is, and its local variables
  minted,      \* the jtis generated so far
  held,        \* those whose tokens were handed to the client
  expired,     \* those whose refresh token has expired
  \* History, read by no action:
  login,       \* login[j]: the first jti of the login that j descends from
  deleted,     \* the jtis whose row was deleted
  ended,       \* the logins ended by logout, logout-all or expiry
  lost,        \* ... when a refresh of theirs was in progress, or had rotated the row
  overlapped,  \* the logins of which two refreshes found their rows at once
  cut          \* the logins cut short between a row and its tokens

history == <<login, deleted, ended, lost, overlapped, cut>>
vars == <<sessions, req, minted, held, expired, history>>

Step == {"idle", "login.create", "refresh.verify", "refresh.find", "refresh.delete",
         "refresh.create", "refresh.deleteExpired", "reply", "logout.delete"}

\* jti: of the token presented.  new: of the tokens generated.
Request == [at: Step, jti: Jtis \union {None}, new: Jtis \union {None}]
Idle == [at |-> "idle", jti |-> None, new |-> None]

At(r, step) == req[r].at = step
Becomes(r, local) == req' = [req EXCEPT ![r] = local]
Goto(r, step) == Becomes(r, [req[r] EXCEPT !.at = step])

Init ==
  /\ sessions = {}
  /\ req = [r \in Requests |-> Idle]
  /\ minted = {}
  /\ held = {}
  /\ expired = {}
  /\ login = [j \in Jtis |-> None]
  /\ deleted = {}
  /\ ended = {}
  /\ lost = {}
  /\ overlapped = {}
  /\ cut = {}

-----------------------------------------------------------------------------
\* A refresh of the login l found its row and has yet to store the new one.
Refreshing(r, l) == (At(r, "refresh.delete") \/ At(r, "refresh.create"))
                      /\ login[req[r].jti] = l

\* The history of a DELETE that ends the login of j, unless a refresh has
\* deleted the row since it was found, or is about to store the next one.
\* Of a login that had ended before there is no row to be found.
Ends(j) ==
  LET l == login[j] IN
  /\ deleted' = deleted \union {j}
  /\ ended' = ended \union {l}
  /\ lost' = IF (~SessionByJti(j) /\ l \notin ended) \/ \E q \in Requests : Refreshing(q, l)
             THEN lost \union {l} ELSE lost

(* login, once the credentials are checked. *)

Login(r, j) ==
  /\ At(r, "idle")
  /\ j \notin minted
  /\ minted' = minted \union {j}
  /\ login' = [login EXCEPT ![j] = j]
  /\ Becomes(r, [Idle EXCEPT !.at = "login.create", !.new = j])
  /\ UNCHANGED <<sessions, held, expired, deleted, ended, lost, overlapped, cut>>

LoginCreates(r) ==
  /\ At(r, "login.create")
  /\ CreateSession(req[r].new)
  /\ Goto(r, "reply")
  /\ UNCHANGED <<minted, held, expired, history>>

\* A slip Reply must not make: the presented tokens would be answered.
ReplyPresented(r) ==
  /\ At(r, "reply")
  /\ held' = held \union {req[r].jti}
  /\ Becomes(r, Idle)
  /\ UNCHANGED <<sessions, minted, expired, history>>

\* Of login and of refreshTokens.
Reply(r) ==
  /\ At(r, "reply")
  /\ held' = held \union {req[r].new}
  /\ Becomes(r, Idle)
  /\ UNCHANGED <<sessions, minted, expired, history>>

-----------------------------------------------------------------------------
(* refreshTokens. *)

\* JWTRefreshTokenGuard answers 401 to an expired token, without any effect.
RefreshGuard(r, j) ==
  /\ At(r, "idle")
  /\ j \in held \ expired
  /\ Becomes(r, [Idle EXCEPT !.at = "refresh.verify", !.jti = j])
  /\ UNCHANGED <<sessions, minted, held, expired, history>>

\* The service verifies the token again: it may have expired since.
RefreshVerify(r) ==
  /\ At(r, "refresh.verify")
  /\ Goto(r, IF req[r].jti \in expired THEN "refresh.deleteExpired" ELSE "refresh.find")
  /\ UNCHANGED <<sessions, minted, held, expired, history>>

RefreshDeletesExpired(r) ==
  /\ At(r, "refresh.deleteExpired")
  /\ DeleteSessionByJti(req[r].jti)
  /\ Becomes(r, Idle)
  /\ Ends(req[r].jti)
  /\ UNCHANGED <<minted, held, expired, login, overlapped, cut>>

\* The row is found, and the next tokens are generated.
RefreshFinds(r, j) ==
  LET l == login[req[r].jti] IN
  /\ At(r, "refresh.find")
  /\ SessionByJti(req[r].jti)
  /\ j \notin minted
  /\ minted' = minted \union {j}
  /\ login' = [login EXCEPT ![j] = l]
  /\ Becomes(r, [req[r] EXCEPT !.at = "refresh.delete", !.new = j])
  /\ overlapped' = IF \E q \in Requests : Refreshing(q, l)
                   THEN overlapped \union {l} ELSE overlapped
  /\ UNCHANGED <<sessions, held, expired, deleted, ended, lost, cut>>

\* "Invalid Session".
RefreshMisses(r) ==
  /\ At(r, "refresh.find")
  /\ ~SessionByJti(req[r].jti)
  /\ Becomes(r, Idle)
  /\ UNCHANGED <<sessions, minted, held, expired, history>>

\* A slip RefreshDeletes must not make: the old row would be kept.
RefreshKeepsRow(r) ==
  /\ At(r, "refresh.delete")
  /\ Goto(r, "refresh.create")
  /\ UNCHANGED <<sessions, minted, held, expired, history>>

RefreshDeletes(r) ==
  /\ At(r, "refresh.delete")
  /\ DeleteSessionByJti(req[r].jti)
  /\ Goto(r, "refresh.create")
  /\ deleted' = deleted \union {req[r].jti}
  /\ UNCHANGED <<minted, held, expired, login, ended, lost, overlapped, cut>>

\* A slip RefreshCreates must not make: the presented jti would be stored again.
RefreshRecreates(r) ==
  /\ At(r, "refresh.create")
  /\ CreateSession(req[r].jti)
  /\ Goto(r, "reply")
  /\ UNCHANGED <<minted, held, expired, history>>

RefreshCreates(r) ==
  /\ At(r, "refresh.create")
  /\ CreateSession(req[r].new)
  /\ Goto(r, "reply")
  /\ UNCHANGED <<minted, held, expired, history>>

-----------------------------------------------------------------------------
(* logout and logoutAllDevices. *)

\* Without a row for its jti, logout answers "Logged out successfully" too.
LogoutFinds(r, j) ==
  /\ At(r, "idle")
  /\ j \in held \ expired
  /\ SessionByJti(j)
  /\ Becomes(r, [Idle EXCEPT !.at = "logout.delete", !.jti = j])
  /\ UNCHANGED <<sessions, minted, held, expired, history>>

LogoutDeletes(r) ==
  /\ At(r, "logout.delete")
  /\ DeleteSessionByJti(req[r].jti)
  /\ Becomes(r, Idle)
  /\ Ends(req[r].jti)
  /\ UNCHANGED <<minted, held, expired, login, overlapped, cut>>

LogoutAllDevices(r) ==
  LET InUse == {login[j] : j \in sessions \union held} IN
  /\ At(r, "idle")
  /\ held \ expired # {}
  /\ DeleteSessionsByUserId
  /\ deleted' = deleted \union sessions
  /\ ended' = ended \union InUse
  /\ lost' = lost \union {l \in InUse : \E q \in Requests : Refreshing(q, l)}
  /\ UNCHANGED <<req, minted, held, expired, login, overlapped, cut>>

-----------------------------------------------------------------------------
\* The worker dies, or a statement fails: the request ends there.
Fail(r) ==
  /\ ~At(r, "idle")
  /\ Becomes(r, Idle)
  /\ cut' = IF At(r, "refresh.create") \/ At(r, "reply")
            THEN cut \union {login[req[r].new]} ELSE cut
  /\ UNCHANGED <<sessions, minted, held, expired, login, deleted, ended, lost, overlapped>>

\* JWT_REFRESH_EXPIRES has passed since j was minted.  The access token of j
\* expires earlier; that only keeps requests from arriving.
Expire(j) ==
  /\ j \in held \ expired
  /\ expired' = expired \union {j}
  /\ UNCHANGED <<sessions, req, minted, held, history>>

Arrive(r) ==
  \/ \E j \in Jtis : Login(r, j) \/ RefreshGuard(r, j) \/ LogoutFinds(r, j)
  \/ LogoutAllDevices(r)

Progress(r) ==
  \/ LoginCreates(r) \/ Reply(r)
  \/ RefreshVerify(r) \/ RefreshDeletesExpired(r)
  \/ (\E j \in Jtis : RefreshFinds(r, j)) \/ RefreshMisses(r)
  \/ RefreshDeletes(r) \/ RefreshCreates(r)
  \/ LogoutDeletes(r)

Next ==
  \/ \E r \in Requests : Arrive(r) \/ Progress(r) \/ Fail(r)
  \/ \E j \in Jtis : Expire(j)

Spec == Init /\ [][Next]_vars

-----------------------------------------------------------------------------
(* Properties. *)

\* Every variable keeps its type.
TypeOK ==
  /\ SessionsTypeOK
  /\ req \in [Requests -> Request]
  /\ minted \in SUBSET Jtis
  /\ held \in SUBSET minted
  /\ expired \in SUBSET held
  /\ login \in [Jtis -> Jtis \union {None}]
  /\ \A j \in minted : login[j] \in minted
  /\ deleted \in SUBSET minted
  /\ ended \in SUBSET minted
  /\ lost \in SUBSET ended
  /\ overlapped \in SUBSET minted
  /\ cut \in SUBSET minted

\* A token that was rotated out or revoked never finds its row again.
DeletedNeverReturns == deleted \intersect sessions = {}

\* Rotation does not multiply sessions: a login has one row at the most,
\* unless two of its refreshes overlapped.
OneRowPerLogin ==
  \A i, j \in sessions :
    login[i] = login[j] /\ login[i] \notin overlapped => i = j

\* Logout, logout-all and expiry are final, whatever the client does with the
\* tokens it has kept, unless a refresh of the login was in progress.
EndedLoginsStayEnded ==
  \A j \in sessions : login[j] \in ended => login[j] \in lost \union overlapped

\* A client that is not logged out always holds a token it can refresh with:
\* no other login's rotation, logout or race takes its row away.
ClientsKeepTheirSession ==
  \A l \in {login[j] : j \in held} \ (ended \union overlapped \union cut) :
    \/ \E j \in held : login[j] = l /\ SessionByJti(j)
    \/ \E r \in Requests : /\ req[r].at \in {"refresh.create", "reply"}
                           /\ login[req[r].new] = l

-----------------------------------------------------------------------------
(* What makes them hold at every step. *)

\* A request acts on a jti whose tokens its client holds.
PresentedInv ==
  \A r \in Requests :
    req[r].at \in {"refresh.verify", "refresh.find", "refresh.delete", "refresh.create",
                  "refresh.deleteExpired", "logout.delete"} => req[r].jti \in held

Minting(r) == req[r].at \in {"login.create", "refresh.delete", "refresh.create", "reply"}

\* A jti on its way to the client is on its way by one request.  It has never
\* had a row until it is stored; then only the end of its login deletes it.
FreshNew(r) ==
  /\ req[r].new \in minted \union {None}
  /\ Minting(r) =>
       /\ req[r].new \in minted \ held
       /\ \A q \in Requests : q # r => req[q].new # req[r].new
       /\ ~At(r, "reply") => req[r].new \notin sessions \union deleted
       /\ At(r, "reply") => SessionByJti(req[r].new) \/ login[req[r].new] \in ended

FreshInv == \A r \in Requests : FreshNew(r)

\* A login begins with its first jti, and a refresh passes it on.
DescentInv ==
  \A r \in Requests :
    /\ At(r, "login.create") =>
         /\ login[req[r].new] = req[r].new
         /\ \A j \in minted : login[j] = req[r].new => j = req[r].new
    /\ At(r, "refresh.delete") \/ At(r, "refresh.create") =>
         login[req[r].new] = login[req[r].jti]

\* A login that was never refreshed twice at once has one right to a row: its
\* row, or the refresh that deleted it.
OneRightInv ==
  \A r \in Requests : \A l \in minted \ overlapped :
    Refreshing(r, l) =>
      /\ \A q \in Requests : Refreshing(q, l) => q = r
      /\ \A j \in sessions : login[j] = l => At(r, "refresh.delete") /\ j = req[r].jti

\* A login that was ended has no right left, unless the end met a refresh.
NoRightInv ==
  \A l \in ended \ (lost \union overlapped) :
    \A r \in Requests : ~Refreshing(r, l) /\ ~(At(r, "login.create") /\ req[r].new = l)

DbSessionInv ==
  /\ sessions \subseteq minted
  /\ PresentedInv
  /\ FreshInv
  /\ DescentInv
  /\ OneRightInv
  /\ NoRightInv
  /\ DeletedNeverReturns
  /\ OneRowPerLogin
  /\ EndedLoginsStayEnded
  /\ ClientsKeepTheirSession

\* What an exchange rests on: of a login that has not ended, the tokens its
\* client holds have a row or are spent, and a refresh that found its row
\* still has it when it comes to delete it, unless two of them overlapped.
RowInv ==
  /\ \A j \in held : j \in sessions \union deleted \/ login[j] \in ended
  /\ \A r \in Requests :
       At(r, "refresh.delete") =>
         SessionByJti(req[r].jti) \/ login[req[r].jti] \in ended \union overlapped

Begun(l) == \E j \in minted : login[j] = l
TokensOf(l) == {j \in held : login[j] = l}

\* Request r will hand out tokens of the login l, if nothing cuts it short.
Issues(r, l) == /\ req[r].at \in {"login.create", "refresh.create", "reply"}
                /\ login[req[r].new] = l

\* What a login is to RotatingSession.
RightOf(l) ==
  IF l \in lost \union overlapped THEN "excused"
  ELSE IF ~Begun(l) THEN "new"
  ELSE IF l \in ended THEN "ended"
  ELSE IF \E r \in Requests : Issues(r, l) THEN "issuing"
  ELSE IF TokensOf(l) \intersect sessions # {} THEN "held" ELSE "stranded"
KeepsPromise(l) == RightOf(l) \in {"new", "issuing", "held", "stranded"}
HandedOf(l) == IF KeepsPromise(l) THEN TokensOf(l) ELSE {}
ExchangedOf(l) == HandedOf(l) \intersect deleted

\* Each login is a RotatingSession until its refreshes overlap, or its end
\* meets one of them: one right to the next tokens, and tokens that were
\* exchanged, or whose login has ended, are worth nothing.
Rotation ==
  INSTANCE RotatingSession WITH
    Logins    <- Jtis,
    Tokens    <- Jtis,
    right     <- [l \in Jtis |-> RightOf(l)],
    handed    <- [l \in Jtis |-> HandedOf(l)],
    exchanged <- [l \in Jtis |-> ExchangedOf(l)]
ImplementsRotation == Rotation!Spec
=============================================================================
