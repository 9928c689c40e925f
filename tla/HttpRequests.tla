---------------------------- MODULE HttpRequests ----------------------------
(***************************************************************************)
(* A request's way through a worker: CORS, the global ThrottlerGuard, the  *)
(* route's guard, the ValidationPipe, the parameter decorators, the        *)
(* controller's handler with the Redis commands it waits for, and the      *)
(* interceptor or GlobalExceptionFilter that makes the answer.  The routes *)
(* are those of RedisAuthController, HealthController and AppController:   *)
(* AuthModule does not register AuthController.                            *)
(*                                                                         *)
(* What the services do with the data is the other modules' subject; here  *)
(* a service goes through its commands, and may refuse or meet an error of *)
(* the database at any point on the way.                                   *)
(***************************************************************************)
EXTENDS RedisConnection

CONSTANT RoutesOf   \* RoutesOf[r]: bound: the routes that request r may ask for

VARIABLE req   \* req[r]: where request r is, and what it carries

vars == <<link, attempts, command, req>>

\* The routes that a service serves, by the rounds of Redis commands it sends
\* (one await each) when nothing goes wrong, and by what it may refuse with.
Rounds ==
  [register |-> 1, login |-> 2, verify |-> 2, resend_otp |-> 1, forgot_password |-> 1,
   reset_password |-> 2, refresh_token |-> 3]

Refusals ==
  [register |-> {"DuplicateResource"},
   login |-> {"InvalidCredentials", "Forbidden"},
   verify |-> {"BadRequest", "ResourceNotFound", "Forbidden"},
   resend_otp |-> {"ResourceNotFound", "Forbidden"},
   forgot_password |-> {"ResourceNotFound", "Forbidden"},
   reset_password |-> {"BadRequest", "ResourceNotFound", "Forbidden"},
   refresh_token |-> {"BadRequest", "Forbidden"}]

Served == DOMAIN Rounds
Pinged == {"ready", "health"}
Route == Served \union Pinged \union {"logout", "logout_all", "hello", "live"}

\* The rounds a successful request of the route sends, and by which client.
Needs(route) == CASE route \in Served -> Rounds[route]
                  [] route \in Pinged -> 1
                  [] OTHER            -> 0
ClientOf(route) == IF route \in Pinged THEN "health" ELSE "main"

ASSUME RoutesAssumption == RoutesOf \in [Requests -> SUBSET Route]

Posts == Served \union {"logout", "logout_all"}

\* The least length of the password in a body that the DTO of the route lets
\* through; a DTO without a password takes any.
PasswordMin(route) == CASE route = "register"                    -> 6
                        [] route \in {"login", "reset_password"} -> 8
                        [] OTHER                                 -> 0

\* Bodies by the one thing the DTOs disagree on; 0 is a body that no DTO takes.
Lengths == {0, 6, 8}
Validated == Served \ {"refresh_token"}
BodyValid(q) == q.route \in Validated => q.length > 0 /\ q.length >= PasswordMin(q.route)

\* refresh-token is behind JWTRefreshTokenGuard and the greeting behind
\* JwtAuthGuard; logout and logout-all are behind neither.
Guarded == {"refresh_token", "hello"}
Token == {"none", "refused", "valid"}   \* refused: expired, or not signed here

Code == {"none", "HTTP_EXCEPTION", "DB_DUPLICATE", "DB_ERROR", "INTERNAL_ERROR"}
Answer == [status: Nat, success: BOOLEAN, code: Code]
NoAnswer == [status |-> 0, success |-> FALSE, code |-> "none"]

\* left, done: the rounds still to send, and those that Redis executed.
\* doomed is history: the main client had ended when the request arrived.
Request ==
  [at: {"idle", "throttle", "handler", "command", "answered"},
   route: Route, token: Token, scheme: {"Bearer", "bearer"}, length: Lengths,
   left: Nat, done: Nat, doomed: BOOLEAN, answer: Answer]

Idle == [at |-> "idle", route |-> "live", token |-> "none", scheme |-> "Bearer",
         length |-> 0, left |-> 0, done |-> 0, doomed |-> FALSE, answer |-> NoAnswer]

Arrival(route) ==
  [Idle EXCEPT !.at = "throttle", !.route = route, !.left = Needs(route),
               !.doomed = link["main"] = "end"]

\* What request q may carry, told apart where it is looked at: a token, the
\* spelling of its scheme, a body.
Carried(q) ==
  {[q EXCEPT !.token = carried.token, !.scheme = carried.scheme, !.length = carried.length] :
     carried \in
       [token: IF q.route \in Guarded THEN Token ELSE {"none"},
        scheme: IF q.route = "refresh_token" THEN {"Bearer", "bearer"} ELSE {"Bearer"},
        length: IF q.route \in Validated THEN Lengths ELSE {0}]}

Init == ConnectionInit /\ req = [r \in Requests |-> Idle]

Becomes(r, local) == req' = [req EXCEPT ![r] = local]
At(r, step) == req[r].at = step
connection == <<link, attempts, command>>

-----------------------------------------------------------------------------
(* Exceptions and answers. *)

\* The status of each domain exception.
DomainStatus ==
  [ResourceNotFound |-> 404, DuplicateResource |-> 409, BusinessRule |-> 422,
   UnauthorizedAccess |-> 403, InvalidCredentials |-> 401, InvalidToken |-> 401,
   PermissionDenied |-> 403, Database |-> 500, ExternalService |-> 502, Validation |-> 400,
   TokenExpired |-> 401, Forbidden |-> 403, BadRequest |-> 400]

Domain(name) == [kind |-> "App", status |-> DomainStatus[name]]
Http(status) == [kind |-> "Http", status |-> status]
Query(unique) == [kind |-> IF unique THEN "Unique" ELSE "Query", status |-> 0]
Unknown == [kind |-> "Unknown", status |-> 0]

\* A slip: the exception's kind would be given away as the code.
FilteredByKind(exception) == [status |-> exception.status, success |-> FALSE,
                              code |-> exception.kind]

\* GlobalExceptionFilter.  It looks for errorCode where AppException keeps
\* code, so a domain exception is answered without its code.
Filtered(exception) ==
  LET status == CASE exception.kind \in {"App", "Http"}    -> exception.status
                  [] exception.kind = "Unique"              -> 409
                  [] exception.kind \in {"Query", "Unknown"} -> 500
      code == CASE exception.kind = "App"     -> "none"
                [] exception.kind = "Http"    -> "HTTP_EXCEPTION"
                [] exception.kind = "Unique"  -> "DB_DUPLICATE"
                [] exception.kind = "Query"   -> "DB_ERROR"
                [] exception.kind = "Unknown" -> "INTERNAL_ERROR"
  IN [status |-> status, success |-> FALSE, code |-> code]

\* Nest answers a POST with 201 unless told otherwise, whatever statusCode
\* ResponseBuilder or the interceptor put in the envelope.
Success(route) ==
  [status |-> IF route \in Posts THEN 201 ELSE 200, success |-> TRUE, code |-> "none"]

\* What the request carried is of no more use.
Ends(r, answer) ==
  Becomes(r, [Idle EXCEPT !.at = "answered", !.answer = answer, !.route = req[r].route,
                          !.done = req[r].done, !.doomed = req[r].doomed])

Throws(r, exception) == Ends(r, Filtered(exception))

-----------------------------------------------------------------------------
(* The way to the handler. *)

Arrive(r) ==
  /\ At(r, "idle")
  /\ \E route \in RoutesOf[r] : Becomes(r, Arrival(route))
  /\ UNCHANGED connection

\* The CORS middleware meets a foreign origin with an error.
CorsRefuses(r) ==
  /\ At(r, "idle")
  /\ \E route \in RoutesOf[r] :
       Becomes(r, [Arrival(route) EXCEPT !.at = "answered", !.left = 0,
                                         !.answer = Filtered(Unknown)])
  /\ UNCHANGED connection

\* The storage is full of this client's requests, or does not answer.  No
\* throttler is called "default", so @SkipThrottle skips none of them.
ThrottlerRefuses(r) ==
  /\ At(r, "throttle")
  /\ \E exception \in {Http(429), Unknown} : Throws(r, exception)
  /\ UNCHANGED connection

GuardRefuses(q) == q.route \in Guarded /\ q.token # "valid"

\* The guard takes any spelling of the scheme, GetToken only this one.
GetTokenRefuses(q) == q.scheme # "Bearer"

\* No guard has set request.user: CurrentUser answers undefined, whose sub the
\* handler reads before it calls the service.
UserUndefined(q) == q.route \in {"logout", "logout_all"}

\* From the route's guard to the handler's first line nothing is shared with
\* other requests.  What stops the request, in the order it is met.
Stops(q) ==
  CASE GuardRefuses(q)                        -> {Http(401)}
    [] ~BodyValid(q)                          -> {Http(400)}
    [] ~GuardRefuses(q) /\ GetTokenRefuses(q) -> {Domain("Forbidden")}
    [] UserUndefined(q)                       -> {Unknown}
    [] OTHER                                  -> {}

Passes(r) ==
  /\ At(r, "throttle")
  /\ \E q \in Carried(req[r]) :
       /\ Stops(q) = {}
       /\ Becomes(r, [q EXCEPT !.at = "handler"])
  /\ UNCHANGED connection

IsStopped(r) ==
  /\ At(r, "throttle")
  /\ \E q \in Carried(req[r]) : \E exception \in Stops(q) : Throws(r, exception)
  /\ UNCHANGED connection

-----------------------------------------------------------------------------
(* The handler. *)

SendsRound(r) ==
  /\ At(r, "handler")
  /\ req[r].left > 0
  /\ Sends(r, ClientOf(req[r].route))
  /\ Becomes(r, [req[r] EXCEPT !.at = "command"])

Answered(r) ==
  /\ At(r, "command")
  /\ command[r].at = "answered"
  /\ command' = [command EXCEPT ![r] = NoCommand]
  /\ Becomes(r, [req[r] EXCEPT !.at = "handler", !.left = @ - 1,
                               !.done = IF command[r].ran THEN @ + 1 ELSE @])
  /\ UNCHANGED <<link, attempts>>

\* No service catches an error of Redis, and RedisHealthIndicator turns it
\* into an Error of its own: neither is an HttpException, nor what terminus
\* answers 503 for.  A slip would be to catch the error and go on.
RejectedGoesOn(r) ==
  /\ At(r, "command")
  /\ command[r].at = "rejected"
  /\ command' = [command EXCEPT ![r] = NoCommand]
  /\ Becomes(r, [req[r] EXCEPT !.at = "handler", !.left = @ - 1])
  /\ UNCHANGED <<link, attempts>>

Rejected(r) ==
  /\ At(r, "command")
  /\ command[r].at = "rejected"
  /\ command' = [command EXCEPT ![r] = NoCommand]
  /\ Throws(r, Unknown)
  /\ UNCHANGED <<link, attempts>>

ServiceRefuses(r) ==
  /\ At(r, "handler")
  /\ req[r].route \in Served
  /\ \E name \in Refusals[req[r].route] : Throws(r, Domain(name))
  /\ UNCHANGED connection

\* refreshTokens alone asks PostgreSQL nothing, and register alone inserts.
DatabaseFails(r) ==
  /\ At(r, "handler")
  /\ req[r].route \in Served \ {"refresh_token"}
  /\ \E unique \in BOOLEAN :
       /\ unique => req[r].route = "register"
       /\ Throws(r, Query(unique))
  /\ UNCHANGED connection

\* Terminus: the database, or on /health memory or disk, is down.
HealthDegraded(r) ==
  /\ At(r, "handler")
  /\ req[r].route \in Pinged
  /\ req[r].left = 0
  /\ Throws(r, Http(503))
  /\ UNCHANGED connection

Replies(r) ==
  /\ At(r, "handler")
  /\ req[r].left = 0
  /\ Ends(r, Success(req[r].route))
  /\ UNCHANGED connection

Leaves(r) ==
  /\ At(r, "answered")
  /\ Becomes(r, Idle)
  /\ UNCHANGED connection

-----------------------------------------------------------------------------
\* What the worker does for a request that has arrived.
Handles(r) ==
  \/ ThrottlerRefuses(r) \/ Passes(r) \/ IsStopped(r)
  \/ SendsRound(r) \/ Answered(r) \/ Rejected(r)
  \/ ServiceRefuses(r) \/ DatabaseFails(r) \/ HealthDegraded(r) \/ Replies(r)

\* What the server does for a request's command.
Serves(r) ==
  /\ Executes(r) \/ Answers(r)
  /\ UNCHANGED req

\* The end of an attempt to connect.
Attempts(c) ==
  /\ Connects(c) \/ ConnectFails(c)
  /\ UNCHANGED req

Loses ==
  /\ \/ \E c \in Clients : Breaks(c)
     \/ \E r \in Requests : ReplicaRefuses(r)
  /\ UNCHANGED req

Expires(r) == TimesOut(r) /\ UNCHANGED req

Next ==
  \/ \E r \in Requests : \/ Arrive(r) \/ CorsRefuses(r) \/ Leaves(r)
                         \/ Handles(r) \/ Serves(r) \/ Expires(r)
  \/ \E c \in Clients : Attempts(c)
  \/ Loses

Spec == Init /\ [][Next]_vars

\* A worker goes on with what it can do, and so does the server as long as it
\* is connected; every attempt to connect ends, by connectTimeout if nothing
\* else.  Connections do not break for ever.
FairSpec ==
  /\ Spec
  /\ \A r \in Requests : WF_vars(Handles(r)) /\ WF_vars(Serves(r))
  /\ \A c \in Clients : WF_vars(Attempts(c))
  /\ <>[][~Loses]_vars

-----------------------------------------------------------------------------
(* Properties. *)

\* Every variable keeps its type.
TypeOK == ConnectionTypeOK /\ req \in [Requests -> Request]

\* "Login successful", "Logged out successfully." and the like are true: each
\* round of commands of the request has been executed by Redis, whatever
\* connections were lost on the way and however often it was sent.
SuccessIsDone ==
  \A r \in Requests : req[r].answer.success => req[r].done = Needs(req[r].route)

\* Once retryStrategy has given up, no request that needs the services'
\* client ever succeeds again in this worker; what may succeed are the routes
\* that ask Redis nothing, and the health checks, which have a client of
\* their own.
EndIsForGood ==
  \A r \in Requests :
    req[r].doomed /\ req[r].answer.success =>
      ClientOf(req[r].route) = "health" \/ Needs(req[r].route) = 0

\* Every request is answered: its commands do not wait for a client that has
\* ended, or for a connection that fails again and again.
RequestsAnswered ==
  \A r \in Requests : At(r, "throttle") ~> At(r, "answered")

\* However the connection of the services' client is lost, and however often a
\* new one fails, in the end the client is connected to stay or has given up:
\* retryStrategy does not leave it connecting for ever, like the health
\* check's.
ClientSettles == <>[](link["main"] \in {"ready", "end"})

-----------------------------------------------------------------------------
(* A claim of the documentation that the code does not keep. *)

\* "Logout current device or all devices.": of the requests for it that get
\* past the throttler, there is one that reaches the handler.
LogoutServed ==
  \A r \in Requests :
    At(r, "throttle") /\ req[r].route \in {"logout", "logout_all"} =>
      \E q \in Carried(req[r]) : Stops(q) = {}

-----------------------------------------------------------------------------
(* What makes them hold at every step. *)

\* A command waits for a client that is connecting, or for its answer from
\* one that is ready: never for one that has ended.
WaitsInv ==
  \A r \in Requests :
    /\ command[r].at = "queued" => link[command[r].client] = "connecting"
    /\ command[r].at \in {"sent", "executed"} => link[command[r].client] = "ready"

\* The handler of r waits for its own command, by the client of its route.
RoundInv ==
  \A r \in Requests :
    /\ At(r, "command") <=> command[r].at # "none"
    /\ At(r, "command") => command[r].client = ClientOf(req[r].route) /\ req[r].left > 0
    /\ command[r].at \in {"executed", "answered"} => command[r].ran

\* What has been done and what is left make up what the route needs.
CountInv ==
  \A r \in Requests :
    /\ req[r].at \in {"throttle", "handler", "command"} =>
         req[r].done + req[r].left = Needs(req[r].route) /\ ~req[r].answer.success
    /\ req[r].answer.success => req[r].done = Needs(req[r].route)

\* A request that arrived after the end of the main client gets nothing from it.
DoomInv ==
  \A r \in Requests :
    req[r].doomed =>
      /\ link["main"] = "end"
      /\ ClientOf(req[r].route) = "main" =>
           req[r].done = 0 /\ command[r].at \in {"none", "rejected"}

HttpInv == WaitsInv /\ RoundInv /\ CountInv /\ DoomInv
=============================================================================
