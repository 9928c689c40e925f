------------------------- MODULE HttpRequestsProofs -------------------------
(***************************************************************************)
(* Safety of HttpRequests for any number of requests and any of ioredis's  *)
(* limits.  RedisConnection's actions change command and link, those of    *)
(* HttpRequests one request at a time: the lemmas say what each kind of    *)
(* step leaves alone.                                                      *)
(***************************************************************************)
EXTENDS HttpRequests, TLAPS

-----------------------------------------------------------------------------
(* Types. *)

\* Every route needs a number of rounds.
LEMMA NeedsType == \A route \in Route : Needs(route) \in Nat
<1> SUFFICES ASSUME NEW route \in Route PROVE Needs(route) \in Nat
  OBVIOUS
<1>1. route \in Served => Rounds[route] \in Nat
  BY DEF Served, Rounds
<1>2. route \in Served \/ route \in Pinged \/ (route \notin Served /\ route \notin Pinged)
  OBVIOUS
<1>3. Served \cap Pinged = {}
  BY DEF Served, Rounds, Pinged
<1> QED
  BY <1>1, <1>2, <1>3 DEF Needs

\* The client of a route is one of the two.
LEMMA ClientOfType == \A route : ClientOf(route) \in Clients
BY DEF ClientOf, Clients

\* Whatever is thrown, the filter makes an answer of it that is no success.
LEMMA FilteredType ==
  /\ \A status \in Nat : Filtered(Http(status)) \in Answer
  /\ \A name \in DOMAIN DomainStatus : Filtered(Domain(name)) \in Answer
  /\ \A unique \in BOOLEAN : Filtered(Query(unique)) \in Answer
  /\ Filtered(Unknown) \in Answer
  /\ \A exception : ~Filtered(exception).success
<1>1. \A status \in Nat : Filtered(Http(status)) \in Answer
  BY DEF Filtered, Http, Answer, Code
<1>2. \A name \in DOMAIN DomainStatus : Filtered(Domain(name)) \in Answer
  <2>1. \A name \in DOMAIN DomainStatus : DomainStatus[name] \in Nat
    BY DEF DomainStatus
  <2> QED
    BY <2>1 DEF Filtered, Domain, Answer, Code
<1>3. \A unique \in BOOLEAN : Filtered(Query(unique)) \in Answer
  <2> SUFFICES ASSUME NEW unique \in BOOLEAN PROVE Filtered(Query(unique)) \in Answer
    OBVIOUS
  <2>1. CASE unique
    BY <2>1 DEF Filtered, Query, Answer, Code
  <2>2. CASE ~unique
    BY <2>2 DEF Filtered, Query, Answer, Code
  <2> QED
    BY <2>1, <2>2
<1>4. Filtered(Unknown) \in Answer
  BY DEF Filtered, Unknown, Answer, Code
<1>5. \A exception : ~Filtered(exception).success
  BY DEF Filtered
<1> QED
  BY <1>1, <1>2, <1>3, <1>4, <1>5

\* The exceptions that stop a request on its way to the handler.
LEMMA StopsType == \A q : \A exception \in Stops(q) : Filtered(exception) \in Answer
<1>1. "Forbidden" \in DOMAIN DomainStatus
  BY DEF DomainStatus
<1>2. \A q : Stops(q) \in {{Http(401)}, {Http(400)}, {Domain("Forbidden")}, {Unknown}, {}}
  BY DEF Stops
<1> QED
  BY <1>1, <1>2, FilteredType

\* What a service may refuse with is a domain exception.
LEMMA RefusalsType ==
  \A route \in Served : \A name \in Refusals[route] : Filtered(Domain(name)) \in Answer
<1>1. \A route \in Served : \A name \in Refusals[route] : name \in DOMAIN DomainStatus
  BY DEF Served, Rounds, Refusals, DomainStatus
<1> QED
  BY <1>1, FilteredType

\* The answers of success.
LEMMA SuccessType == \A route : Success(route) \in Answer /\ Success(route).success
BY DEF Success, Answer, Code

-----------------------------------------------------------------------------
(* What the steps do. *)

Others(r) == \A q \in Requests \ {r} : req'[q] = req[q]
OtherCommands(r) == \A q \in Requests \ {r} : command'[q] = command[q]

\* Becomes changes one request.
LEMMA BecomesEffect ==
  ASSUME req \in [Requests -> Request], NEW r \in Requests, NEW local, Becomes(r, local)
  PROVE  /\ req'[r] = local /\ Others(r)
         /\ local \in Request => req' \in [Requests -> Request]
BY DEF Becomes, Others

\* When a socket closes, the waiting commands of its client are rejected, or
\* wait for the connection that the client is going to make.
LEMMA ClosesEffect ==
  ASSUME ConnectionTypeOK, NEW c \in Clients, NEW refused, Closes(c, refused)
  PROVE  /\ ConnectionTypeOK'
         /\ \A d \in Clients \ {c} : link'[d] = link[d]
         /\ link'[c] \in {"connecting", "end"}
         /\ \A r \in Requests :
              /\ command'[r].client = command[r].client
              /\ command'[r].ran = command[r].ran
              /\ \/ command'[r].at = command[r].at
                    /\ ~(command[r].client = c /\ command[r].at \in Pending)
                 \/ command[r].at \in Pending /\ command[r].client = c
                    /\ \/ command'[r].at = "rejected"
                       \/ command'[r].at = "queued" /\ link'[c] = "connecting"
<1> USE DEF ConnectionTypeOK
<1> DEFINE times == attempts[c] + 1
           goesOn == Retries(c, times)
           waits(r) == command[r].client = c /\ command[r].at \in Pending
<1>1. times \in Nat /\ Counted(c, times) \in Nat
  <2>1. times \in Nat /\ PER_REQUEST[c] + 1 \in Nat \ {0}
    BY ConnectionAssumption
  <2>2. times % (PER_REQUEST[c] + 1) \in Nat
    BY <2>1
  <2> QED
    BY <2>1, <2>2 DEF Counted
<1>2. link' = [link EXCEPT ![c] = IF goesOn THEN "connecting" ELSE "end"]
      /\ attempts' = [attempts EXCEPT ![c] = Counted(c, times)]
  BY DEF Closes
<1>3. /\ link' \in [Clients -> {"wait", "connecting", "ready", "end"}]
      /\ attempts' \in [Clients -> Nat]
      /\ \A d \in Clients \ {c} : link'[d] = link[d]
      /\ link'[c] = IF goesOn THEN "connecting" ELSE "end"
  BY <1>1, <1>2
<1>4. ASSUME NEW r \in Requests
      PROVE  /\ command'[r] \in Command
             /\ command'[r].client = command[r].client
             /\ command'[r].ran = command[r].ran
             /\ ~waits(r) => command'[r].at = command[r].at
             /\ waits(r) => command'[r].at \in {"rejected", "queued"}
             /\ waits(r) /\ ~goesOn => command'[r].at = "rejected"
  <2>1. command[r] \in Command
    OBVIOUS
  <2>2. CASE ~waits(r)
    <3>1. command'[r] = command[r]
      BY <2>2 DEF Closes
    <3> QED
      BY <2>1, <2>2, <3>1
  <2>3. CASE waits(r)
    <3>1. PICK at \in {"rejected", "queued"} : command'[r] = [command[r] EXCEPT !.at = at]
      BY <2>3 DEF Closes
    <3>2. ~goesOn => command'[r] = [command[r] EXCEPT !.at = "rejected"]
      BY <2>3 DEF Closes, Flushes
    <3> QED
      BY <2>1, <2>3, <3>1, <3>2 DEF Command, Pending
  <2> QED
    BY <2>2, <2>3
<1>5. command' \in [Requests -> Command]
  <2>1. command' = [r \in Requests |-> command'[r]]
    BY DEF Closes
  <2> QED
    BY <2>1, <1>4
<1> QED
  BY <1>3, <1>4, <1>5

\* Connecting sends what was waiting.
LEMMA ConnectsEffect ==
  ASSUME ConnectionTypeOK, NEW c \in Clients, Connects(c)
  PROVE  /\ ConnectionTypeOK'
         /\ link[c] = "connecting" /\ link'[c] = "ready"
         /\ \A d \in Clients \ {c} : link'[d] = link[d]
         /\ \A r \in Requests :
              /\ command'[r].client = command[r].client
              /\ command'[r].ran = command[r].ran
              /\ command'[r].at = IF command[r].client = c /\ command[r].at = "queued"
                                  THEN "sent" ELSE command[r].at
<1> USE DEF ConnectionTypeOK
<1>1. /\ link' \in [Clients -> {"wait", "connecting", "ready", "end"}]
      /\ attempts' \in [Clients -> Nat]
      /\ link[c] = "connecting" /\ link'[c] = "ready"
      /\ \A d \in Clients \ {c} : link'[d] = link[d]
  BY DEF Connects
<1>2. ASSUME NEW r \in Requests
      PROVE  /\ command'[r] \in Command
             /\ command'[r].client = command[r].client
             /\ command'[r].ran = command[r].ran
             /\ command'[r].at = IF command[r].client = c /\ command[r].at = "queued"
                                 THEN "sent" ELSE command[r].at
  <2>1. command[r] \in Command
    OBVIOUS
  <2>2. command'[r] = IF command[r].client = c /\ command[r].at = "queued"
                      THEN [command[r] EXCEPT !.at = "sent"] ELSE command[r]
    BY DEF Connects
  <2> QED
    BY <2>1, <2>2 DEF Command, Pending
<1>3. command' \in [Requests -> Command]
  <2>1. command' = [r \in Requests |-> command'[r]]
    BY DEF Connects
  <2> QED
    BY <2>1, <1>2
<1> QED
  BY <1>1, <1>2, <1>3

\* A command that is sent is queued, on its way or rejected, as its client is.
LEMMA SendsEffect ==
  ASSUME ConnectionTypeOK, NEW r \in Requests, NEW c \in Clients, Sends(r, c)
  PROVE  /\ ConnectionTypeOK'
         /\ OtherCommands(r)
         /\ \A d \in Clients : link'[d] = link[d] \/ (link[d] = "wait" /\ link'[d] = "connecting")
         /\ command'[r].client = c /\ ~command'[r].ran
         /\ \/ command'[r].at = "sent" /\ link'[c] = "ready"
            \/ command'[r].at = "rejected" /\ link'[c] = "end"
            \/ command'[r].at = "queued" /\ link'[c] = "connecting" /\ link[c] # "end"
<1> USE DEF ConnectionTypeOK
<1> DEFINE at == CASE link[c] = "ready" -> "sent"
                   [] link[c] = "end"   -> "rejected"
                   [] OTHER             -> "queued"
<1>1. /\ link' = [link EXCEPT ![c] = IF @ = "wait" THEN "connecting" ELSE @]
      /\ command' = [command EXCEPT ![r] = [client |-> c, ran |-> FALSE, at |-> at]]
      /\ attempts' = attempts
  BY DEF Sends
<1>2. \/ at = "sent" /\ link[c] = "ready"
      \/ at = "rejected" /\ link[c] = "end"
      \/ at = "queued" /\ link[c] \in {"wait", "connecting"}
  OBVIOUS
<1>3. /\ link' \in [Clients -> {"wait", "connecting", "ready", "end"}]
      /\ \A d \in Clients : link'[d] = link[d] \/ (link[d] = "wait" /\ link'[d] = "connecting")
      /\ link'[c] = IF link[c] = "wait" THEN "connecting" ELSE link[c]
  BY <1>1
<1> HIDE DEF at
<1>4. [client |-> c, ran |-> FALSE, at |-> at] \in Command
  BY <1>2 DEF Command, Pending
<1>5. /\ command' \in [Requests -> Command] /\ OtherCommands(r)
      /\ command'[r].client = c /\ ~command'[r].ran /\ command'[r].at = at
  BY <1>1, <1>4 DEF OtherCommands
<1> QED
  BY <1>1, <1>2, <1>3, <1>5

\* A command takes one step, the connections none.
LEMMA CommandEffect ==
  ASSUME ConnectionTypeOK, NEW r \in Requests,
         Executes(r) \/ Answers(r) \/ TimesOut(r)
  PROVE  /\ ConnectionTypeOK' /\ link' = link
         /\ OtherCommands(r)
         /\ command'[r].client = command[r].client
         /\ \/ command[r].at = "sent" /\ command'[r].at = "executed" /\ command'[r].ran
            \/ command[r].at = "executed" /\ command'[r].at = "answered"
               /\ command'[r].ran = command[r].ran
            \/ command[r].at \in Pending /\ command'[r].at = "rejected"
<1> USE DEF ConnectionTypeOK, OtherCommands, Command, Pending
<1>1. CASE Executes(r)
  BY <1>1 DEF Executes
<1>2. CASE Answers(r)
  BY <1>2 DEF Answers
<1>3. CASE TimesOut(r)
  BY <1>3 DEF TimesOut
<1> QED
  BY <1>1, <1>2, <1>3

\* The handler takes note of its command's end.
LEMMA NoCommandEffect ==
  ASSUME ConnectionTypeOK, NEW r \in Requests, UNCHANGED <<link, attempts>>,
         command' = [command EXCEPT ![r] = NoCommand]
  PROVE  /\ ConnectionTypeOK' /\ OtherCommands(r)
         /\ command'[r].at = "none"
<1>1. NoCommand \in Command
  BY DEF NoCommand, Command, Clients
<1> QED
  BY <1>1 DEF ConnectionTypeOK, OtherCommands, NoCommand

\* The end of a request.
LEMMA EndsEffect ==
  ASSUME req \in [Requests -> Request], NEW r \in Requests, NEW answer \in Answer,
         Ends(r, answer)
  PROVE  /\ req' \in [Requests -> Request] /\ Others(r)
         /\ req'[r].at = "answered" /\ req'[r].answer = answer /\ req'[r].left = 0
         /\ req'[r].route = req[r].route /\ req'[r].done = req[r].done
         /\ req'[r].doomed = req[r].doomed
<1> DEFINE local == [Idle EXCEPT !.at = "answered", !.answer = answer,
                                 !.route = req[r].route, !.done = req[r].done,
                                 !.doomed = req[r].doomed]
<1>1. local \in Request
  BY DEF Idle, Request, Token, Lengths
<1>2. /\ local.at = "answered" /\ local.answer = answer /\ local.left = 0
      /\ local.route = req[r].route /\ local.done = req[r].done
      /\ local.doomed = req[r].doomed
  BY DEF Idle
<1> HIDE DEF local
<1>3. Becomes(r, local)
  BY DEF Ends, local
<1> QED
  BY <1>1, <1>2, <1>3, BecomesEffect

\* A request that arrives.
LEMMA ArrivalEffect ==
  ASSUME NEW route \in Route
  PROVE  LET q == Arrival(route) IN
         /\ q \in Request
         /\ q.at = "throttle" /\ q.route = route /\ q.left = Needs(route) /\ q.done = 0
         /\ q.doomed = (link["main"] = "end") /\ ~q.answer.success
<1>1. NoAnswer \in Answer /\ ~NoAnswer.success
  BY DEF NoAnswer, Answer, Code
<1> QED
  BY <1>1, NeedsType DEF Arrival, Idle, Request, Token, Lengths

\* What it carries changes nothing else of it.
LEMMA CarriedEffect ==
  ASSUME NEW p \in Request, NEW q \in Carried(p)
  PROVE  /\ q \in Request
         /\ \A at \in {"handler"} : [q EXCEPT !.at = at] \in Request
         /\ q.route = p.route /\ q.left = p.left /\ q.done = p.done
         /\ q.doomed = p.doomed /\ q.answer = p.answer
<1> DEFINE tokens == IF p.route \in Guarded THEN Token ELSE {"none"}
           schemes == IF p.route = "refresh_token" THEN {"Bearer", "bearer"} ELSE {"Bearer"}
           lengths == IF p.route \in Validated THEN Lengths ELSE {0}
<1>1. tokens \subseteq Token /\ schemes \subseteq {"Bearer", "bearer"}
      /\ lengths \subseteq Lengths
  BY DEF Token, Lengths
<1>2. PICK carried \in [token: tokens, scheme: schemes, length: lengths] :
        q = [p EXCEPT !.token = carried.token, !.scheme = carried.scheme,
                      !.length = carried.length]
  BY DEF Carried
<1> HIDE DEF tokens, schemes, lengths
<1>3. /\ carried.token \in Token /\ carried.scheme \in {"Bearer", "bearer"}
      /\ carried.length \in Lengths
  BY <1>1, <1>2
<1> QED
  BY <1>2, <1>3 DEF Request

-----------------------------------------------------------------------------
(* Every step keeps the types and HttpInv. *)

Inv == TypeOK /\ HttpInv

\* What a step of one request, away from its commands, must make of it.
Sound(q) ==
  /\ q \in Request /\ q.at # "command"
  /\ q.at \in {"throttle", "handler"} =>
       q.done + q.left = Needs(q.route) /\ ~q.answer.success
  /\ q.answer.success => q.done = Needs(q.route)
  /\ q.doomed => link["main"] = "end" /\ (ClientOf(q.route) = "main" => q.done = 0)

LEMMA LocalKeeps ==
  ASSUME Inv, NEW r \in Requests, ~At(r, "command"), UNCHANGED connection,
         NEW local, Becomes(r, local), Sound(local)
  PROVE  Inv'
<1> USE DEF Inv, HttpInv, TypeOK, connection
<1>1. req' \in [Requests -> Request] /\ req'[r] = local /\ Others(r)
  BY BecomesEffect DEF Sound
<1>2. command[r].at = "none"
  BY DEF RoundInv
<1>3. TypeOK'
  BY <1>1 DEF ConnectionTypeOK
<1>4. WaitsInv'
  BY DEF WaitsInv
<1>5. RoundInv'
  BY <1>1, <1>2 DEF RoundInv, Others, Sound, At
<1>6. CountInv'
  BY <1>1 DEF CountInv, Others, Sound
<1>7. DoomInv'
  BY <1>1, <1>2 DEF DoomInv, Others, Sound
<1> QED
  BY <1>3, <1>4, <1>5, <1>6, <1>7

\* A request that ends, without success or with its rounds done.
LEMMA EndsKeeps ==
  ASSUME Inv, NEW r \in Requests, ~At(r, "command"), UNCHANGED connection,
         NEW answer \in Answer, Ends(r, answer),
         answer.success => req[r].done = Needs(req[r].route)
  PROVE  Inv'
<1> DEFINE local == [Idle EXCEPT !.at = "answered", !.answer = answer,
                                 !.route = req[r].route, !.done = req[r].done,
                                 !.doomed = req[r].doomed]
<1>1. req' \in [Requests -> Request] /\ req'[r] = local /\ Becomes(r, local)
  <2>1. Becomes(r, local)
    BY DEF Ends
  <2> QED
    BY <2>1, EndsEffect, BecomesEffect DEF Inv, TypeOK
<1>2. /\ req'[r].at = "answered" /\ req'[r].answer = answer /\ req'[r].left = 0
      /\ req'[r].route = req[r].route /\ req'[r].done = req[r].done
      /\ req'[r].doomed = req[r].doomed
  BY EndsEffect DEF Inv, TypeOK
<1> HIDE DEF local
<1>3. Sound(local)
  BY <1>1, <1>2 DEF Sound, Inv, HttpInv, DoomInv
<1> QED
  BY <1>1, <1>3, LocalKeeps

\* An exception thrown before the request waits for a command.
LEMMA ThrowsKeeps ==
  ASSUME Inv, NEW r \in Requests, ~At(r, "command"), UNCHANGED connection,
         NEW exception, Filtered(exception) \in Answer, Throws(r, exception)
  PROVE  Inv'
BY EndsKeeps, FilteredType DEF Throws

\* A step of the request alone.
LEMMA HandlesKeeps ==
  ASSUME Inv, NEW r \in Requests,
         \/ Arrive(r) \/ CorsRefuses(r) \/ Leaves(r) \/ ThrottlerRefuses(r) \/ Passes(r)
         \/ IsStopped(r) \/ ServiceRefuses(r) \/ DatabaseFails(r) \/ HealthDegraded(r)
         \/ Replies(r)
  PROVE  Inv'
<1>1. req[r] \in Request /\ RoutesOf[r] \subseteq Route
  BY RoutesAssumption DEF Inv, TypeOK
<1>2. CASE Arrive(r)
  <2>1. PICK route \in RoutesOf[r] : Becomes(r, Arrival(route))
    BY <1>2 DEF Arrive
  <2> DEFINE q == Arrival(route)
  <2>2. /\ q \in Request
        /\ q.at = "throttle" /\ q.left = Needs(q.route) /\ q.done = 0
        /\ q.doomed = (link["main"] = "end") /\ ~q.answer.success
        /\ Needs(q.route) \in Nat
    BY <1>1, <2>1, ArrivalEffect, NeedsType
  <2> HIDE DEF q
  <2>3. q.done + q.left = Needs(q.route)
    BY <2>2
  <2>4. Sound(q)
    BY <2>2, <2>3 DEF Sound
  <2> QED
    BY <1>2, <2>1, <2>4, LocalKeeps DEF Arrive, At, q
<1>3. CASE CorsRefuses(r)
  <2>1. PICK route \in RoutesOf[r] :
          Becomes(r, [Arrival(route) EXCEPT !.at = "answered", !.left = 0,
                                            !.answer = Filtered(Unknown)])
    BY <1>3 DEF CorsRefuses
  <2>2. Arrival(route) \in Request /\ Arrival(route).done = 0
        /\ Arrival(route).doomed = (link["main"] = "end")
    BY <1>1, <2>1, ArrivalEffect
  <2>3. Filtered(Unknown) \in Answer /\ ~Filtered(Unknown).success
    BY FilteredType
  <2>4. Sound([Arrival(route) EXCEPT !.at = "answered", !.left = 0,
                                     !.answer = Filtered(Unknown)])
    BY <2>2, <2>3 DEF Sound, Request
  <2> QED
    BY <1>3, <2>1, <2>4, LocalKeeps DEF CorsRefuses, At
<1>4. CASE Leaves(r)
  <2>1. Idle \in Request
    BY DEF Idle, NoAnswer, Request, Answer, Code, Token, Lengths, Route
  <2>2. Sound(Idle)
    BY <2>1 DEF Sound, Idle, NoAnswer
  <2> QED
    BY <1>4, <2>2, LocalKeeps DEF Leaves, At
<1>5. CASE ThrottlerRefuses(r)
  <2>1. PICK exception \in {Http(429), Unknown} : Throws(r, exception)
    BY <1>5 DEF ThrottlerRefuses
  <2>2. Filtered(exception) \in Answer
    BY <2>1, FilteredType
  <2> QED
    BY <1>5, <2>1, <2>2, ThrowsKeeps DEF ThrottlerRefuses, At
<1>6. CASE Passes(r)
  <2>1. PICK q \in Carried(req[r]) : Becomes(r, [q EXCEPT !.at = "handler"])
    BY <1>6 DEF Passes
  <2>2. /\ q \in Request
        /\ q.route = req[r].route /\ q.left = req[r].left /\ q.done = req[r].done
        /\ q.doomed = req[r].doomed /\ q.answer = req[r].answer
    BY <1>1, <2>1, CarriedEffect
  <2>3. /\ req[r].done + req[r].left = Needs(req[r].route) /\ ~req[r].answer.success
        /\ req[r].doomed =>
             link["main"] = "end" /\ (ClientOf(req[r].route) = "main" => req[r].done = 0)
    BY <1>6 DEF Passes, At, Inv, HttpInv, CountInv, DoomInv
  <2>4. Sound([q EXCEPT !.at = "handler"])
    BY <2>2, <2>3 DEF Sound, Request
  <2> QED
    BY <1>6, <2>1, <2>4, LocalKeeps DEF Passes, At
<1>7. CASE IsStopped(r)
  <2>1. PICK q \in Carried(req[r]) : \E exception \in Stops(q) : Throws(r, exception)
    BY <1>7 DEF IsStopped
  <2>2. PICK exception \in Stops(q) : Throws(r, exception)
    BY <2>1
  <2>3. Filtered(exception) \in Answer
    BY <2>2, StopsType
  <2> QED
    BY <1>7, <2>2, <2>3, ThrowsKeeps DEF IsStopped, At
<1>8. CASE ServiceRefuses(r)
  <2>1. PICK name \in Refusals[req[r].route] : Throws(r, Domain(name))
    BY <1>8 DEF ServiceRefuses
  <2>2. Filtered(Domain(name)) \in Answer
    BY <1>8, <2>1, RefusalsType DEF ServiceRefuses
  <2> QED
    BY <1>8, <2>1, <2>2, ThrowsKeeps DEF ServiceRefuses, At
<1>9. CASE DatabaseFails(r)
  <2>1. PICK unique \in BOOLEAN : Throws(r, Query(unique))
    BY <1>9 DEF DatabaseFails
  <2> QED
    BY <1>9, <2>1, FilteredType, ThrowsKeeps DEF DatabaseFails, At
<1>10. CASE HealthDegraded(r)
  BY <1>10, FilteredType, ThrowsKeeps DEF HealthDegraded, At
<1>11. CASE Replies(r)
  <2>1. req[r].done = Needs(req[r].route)
    BY <1>1, <1>11, NeedsType DEF Replies, At, Inv, HttpInv, CountInv, Request
  <2> QED
    BY <1>11, <2>1, SuccessType, EndsKeeps DEF Replies, At
<1> QED
  BY <1>2, <1>3, <1>4, <1>5, <1>6, <1>7, <1>8, <1>9, <1>10, <1>11

\* A request sends its next round.
LEMMA SendsKeeps ==
  ASSUME Inv, NEW r \in Requests, SendsRound(r)
  PROVE  Inv'
<1> USE DEF Inv, HttpInv, TypeOK
<1> DEFINE c == ClientOf(req[r].route)
           q == [req[r] EXCEPT !.at = "command"]
<1>1. /\ req[r] \in Request /\ req[r].at = "handler" /\ req[r].left > 0
      /\ Sends(r, c) /\ Becomes(r, q)
  BY DEF SendsRound, At
<1>2. /\ q \in Request /\ q.at = "command" /\ q.left = req[r].left /\ q.done = req[r].done
      /\ q.route = req[r].route /\ q.doomed = req[r].doomed /\ q.answer = req[r].answer
  BY <1>1 DEF Request
<1>3. c \in Clients
  BY ClientOfType
<1> HIDE DEF q
<1>4. req' \in [Requests -> Request] /\ req'[r] = q /\ Others(r)
  BY <1>1, <1>2, BecomesEffect
<1>5. /\ ConnectionTypeOK' /\ OtherCommands(r)
      /\ \A d \in Clients : link'[d] = link[d] \/ (link[d] = "wait" /\ link'[d] = "connecting")
      /\ command'[r].client = c /\ ~command'[r].ran
      /\ \/ command'[r].at = "sent" /\ link'[c] = "ready"
         \/ command'[r].at = "rejected" /\ link'[c] = "end"
         \/ command'[r].at = "queued" /\ link'[c] = "connecting" /\ link[c] # "end"
  BY <1>1, <1>3, SendsEffect
<1> HIDE DEF c
<1>6. TypeOK'
  BY <1>4, <1>5
<1>7. WaitsInv'
  <2> SUFFICES ASSUME NEW p \in Requests
               PROVE  /\ command'[p].at = "queued" => link'[command'[p].client] = "connecting"
                      /\ command'[p].at \in {"sent", "executed"} =>
                           link'[command'[p].client] = "ready"
    BY DEF WaitsInv
  <2>1. CASE p = r
    BY <1>5, <2>1
  <2>2. CASE p # r
    <3>1. command'[p] = command[p] /\ command[p] \in Command
      BY <1>5, <2>2 DEF OtherCommands, ConnectionTypeOK
    <3>2. command[p].client \in Clients
      BY <3>1 DEF Command
    <3> QED
      BY <1>5, <3>1, <3>2 DEF WaitsInv
  <2> QED
    BY <2>1, <2>2
<1>8. RoundInv'
  BY <1>1, <1>2, <1>4, <1>5 DEF RoundInv, Others, OtherCommands, At, c
<1>9. CountInv'
  BY <1>1, <1>2, <1>4 DEF CountInv, Others
<1>10. DoomInv'
  <2>1. link["main"] = "end" => link'["main"] = "end"
    BY <1>5 DEF Clients
  <2>2. req[r].doomed /\ c = "main" => command'[r].at = "rejected"
    BY <1>5, <2>1 DEF DoomInv
  <2> QED
    BY <1>2, <1>4, <1>5, <2>1, <2>2 DEF DoomInv, Others, OtherCommands, c
<1> QED
  BY <1>6, <1>7, <1>8, <1>9, <1>10

\* Its answer has come: one round less to do.
LEMMA AnsweredKeeps ==
  ASSUME Inv, NEW r \in Requests, Answered(r)
  PROVE  Inv'
<1> USE DEF Inv, HttpInv, TypeOK
<1> DEFINE left == req[r].left - 1
           done == req[r].done + 1
           q == [req[r] EXCEPT !.at = "handler", !.left = left, !.done = done]
<1>1. /\ req[r] \in Request /\ req[r].at = "command" /\ command[r].at = "answered"
      /\ link' = link
  BY DEF Answered, At
<1>2. req[r].left \in Nat /\ req[r].left > 0 /\ command[r].ran /\ req[r].done \in Nat
  BY <1>1 DEF RoundInv, At, Request
<1> HIDE DEF left, done
<1>a. left \in Nat /\ done \in Nat
  BY <1>2 DEF left, done
<1>3. Becomes(r, q)
  BY <1>2 DEF Answered, left, done
<1>4. /\ q \in Request /\ q.at = "handler" /\ q.left = left /\ q.done = done
      /\ q.route = req[r].route /\ q.doomed = req[r].doomed /\ q.answer = req[r].answer
  BY <1>1, <1>a DEF Request
<1> HIDE DEF q
<1>5. req' \in [Requests -> Request] /\ req'[r] = q /\ Others(r)
  BY <1>3, <1>4, BecomesEffect
<1>6. ConnectionTypeOK' /\ OtherCommands(r) /\ command'[r].at = "none"
  BY NoCommandEffect DEF Answered
<1>7. TypeOK'
  BY <1>5, <1>6
<1>8. WaitsInv'
  BY <1>1, <1>6 DEF WaitsInv, OtherCommands
<1>9. RoundInv'
  BY <1>4, <1>5, <1>6 DEF RoundInv, Others, OtherCommands, At
<1>10. CountInv'
  <2>1. q.done + q.left = Needs(q.route) /\ ~q.answer.success
    BY <1>1, <1>2, <1>4, NeedsType DEF CountInv, Request, left, done
  <2> QED
    BY <1>5, <2>1 DEF CountInv, Others
<1>11. DoomInv'
  <2>1. ~(q.doomed /\ ClientOf(q.route) = "main")
    BY <1>1, <1>4 DEF DoomInv
  <2> QED
    BY <1>1, <1>4, <1>5, <1>6, <2>1 DEF DoomInv, Others, OtherCommands
<1> QED
  BY <1>7, <1>8, <1>9, <1>10, <1>11

\* Its command was rejected: the request ends with an error.
LEMMA RejectedKeeps ==
  ASSUME Inv, NEW r \in Requests, Rejected(r)
  PROVE  Inv'
<1> USE DEF Inv, HttpInv, TypeOK
<1>1. /\ req[r] \in Request /\ req[r].at = "command" /\ command[r].at = "rejected"
      /\ link' = link
  BY DEF Rejected, At
<1>2. /\ req' \in [Requests -> Request] /\ Others(r)
      /\ req'[r].at = "answered" /\ ~req'[r].answer.success
      /\ req'[r].route = req[r].route /\ req'[r].done = req[r].done
      /\ req'[r].doomed = req[r].doomed
  <2>1. Filtered(Unknown) \in Answer /\ ~Filtered(Unknown).success
    BY FilteredType
  <2>2. Ends(r, Filtered(Unknown))
    BY DEF Rejected, Throws
  <2> QED
    BY <2>1, <2>2, EndsEffect
<1>3. ConnectionTypeOK' /\ OtherCommands(r) /\ command'[r].at = "none"
  BY NoCommandEffect DEF Rejected
<1>4. TypeOK'
  BY <1>2, <1>3
<1>5. WaitsInv'
  BY <1>1, <1>3 DEF WaitsInv, OtherCommands
<1>6. RoundInv'
  BY <1>2, <1>3 DEF RoundInv, Others, OtherCommands, At
<1>7. CountInv'
  BY <1>2 DEF CountInv, Others
<1>8. DoomInv'
  BY <1>1, <1>2, <1>3 DEF DoomInv, Others, OtherCommands
<1> QED
  BY <1>4, <1>5, <1>6, <1>7, <1>8

\* The server, or a timeout, takes a command on.
LEMMA CommandKeeps ==
  ASSUME Inv, NEW r \in Requests, Executes(r) \/ Answers(r) \/ TimesOut(r), UNCHANGED req
  PROVE  Inv'
<1> USE DEF Inv, HttpInv, TypeOK
<1>1. /\ ConnectionTypeOK' /\ link' = link
      /\ OtherCommands(r)
      /\ command'[r].client = command[r].client
      /\ \/ command[r].at = "sent" /\ command'[r].at = "executed" /\ command'[r].ran
         \/ command[r].at = "executed" /\ command'[r].at = "answered"
            /\ command'[r].ran = command[r].ran
         \/ command[r].at \in Pending /\ command'[r].at = "rejected"
  BY CommandEffect
<1>2. TypeOK'
  BY <1>1
<1>3. WaitsInv'
  BY <1>1 DEF WaitsInv, OtherCommands
<1>4. RoundInv'
  BY <1>1 DEF RoundInv, OtherCommands, At, Pending
<1>5. CountInv'
  BY DEF CountInv
<1>6. DoomInv'
  BY <1>1 DEF DoomInv, OtherCommands, Pending
<1> QED
  BY <1>2, <1>3, <1>4, <1>5, <1>6

\* A client is connected.
LEMMA ConnectsKeeps ==
  ASSUME Inv, NEW c \in Clients, Connects(c), UNCHANGED req
  PROVE  Inv'
<1> USE DEF Inv, HttpInv, TypeOK
<1>1. /\ ConnectionTypeOK'
      /\ link[c] = "connecting" /\ link'[c] = "ready"
      /\ \A d \in Clients \ {c} : link'[d] = link[d]
      /\ \A r \in Requests :
           /\ command'[r].client = command[r].client
           /\ command'[r].ran = command[r].ran
           /\ command'[r].at = IF command[r].client = c /\ command[r].at = "queued"
                               THEN "sent" ELSE command[r].at
  BY ConnectsEffect
<1>2. TypeOK'
  BY <1>1
<1>3. WaitsInv'
  <2> SUFFICES ASSUME NEW r \in Requests
               PROVE  /\ command'[r].at = "queued" => link'[command'[r].client] = "connecting"
                      /\ command'[r].at \in {"sent", "executed"} =>
                           link'[command'[r].client] = "ready"
    BY DEF WaitsInv
  <2>1. command[r].client \in Clients
    BY DEF ConnectionTypeOK, Command
  <2> QED
    BY <1>1, <2>1 DEF WaitsInv
<1>4. RoundInv'
  BY <1>1 DEF RoundInv, At
<1>5. CountInv'
  BY DEF CountInv
<1>6. DoomInv'
  BY <1>1 DEF DoomInv, Clients
<1> QED
  BY <1>2, <1>3, <1>4, <1>5, <1>6

\* A client that has not ended loses its connection, or fails to get one.
LEMMA ClosesKeeps ==
  ASSUME Inv, NEW c \in Clients, NEW refused, Closes(c, refused),
         link[c] # "end", UNCHANGED req
  PROVE  Inv'
<1> USE DEF Inv, HttpInv, TypeOK
<1>1. /\ ConnectionTypeOK'
      /\ \A d \in Clients \ {c} : link'[d] = link[d]
      /\ link'[c] \in {"connecting", "end"}
      /\ \A r \in Requests :
           /\ command'[r].client = command[r].client
           /\ command'[r].ran = command[r].ran
           /\ \/ command'[r].at = command[r].at
                 /\ ~(command[r].client = c /\ command[r].at \in Pending)
              \/ command[r].at \in Pending /\ command[r].client = c
                 /\ \/ command'[r].at = "rejected"
                    \/ command'[r].at = "queued" /\ link'[c] = "connecting"
  BY ClosesEffect
<1>2. TypeOK'
  BY <1>1
<1>3. WaitsInv'
  <2> SUFFICES ASSUME NEW r \in Requests
               PROVE  /\ command'[r].at = "queued" => link'[command'[r].client] = "connecting"
                      /\ command'[r].at \in {"sent", "executed"} =>
                           link'[command'[r].client] = "ready"
    BY DEF WaitsInv
  <2>1. command[r].client \in Clients
    BY DEF ConnectionTypeOK, Command
  <2> QED
    BY <1>1, <2>1 DEF WaitsInv, Pending
<1>4. RoundInv'
  BY <1>1 DEF RoundInv, At, Pending
<1>5. CountInv'
  BY DEF CountInv
<1>6. DoomInv'
  BY <1>1 DEF DoomInv, Clients, Pending
<1> QED
  BY <1>2, <1>3, <1>4, <1>5, <1>6

LEMMA InvInit == Init => Inv
<1> SUFFICES ASSUME Init PROVE Inv
  OBVIOUS
<1> USE DEF Init, ConnectionInit
<1>1. Idle \in Request /\ Idle.at = "idle" /\ ~Idle.answer.success /\ ~Idle.doomed
  BY DEF Idle, NoAnswer, Request, Answer, Code, Token, Lengths, Route
<1>2. NoCommand \in Command /\ NoCommand.at = "none"
  BY DEF NoCommand, Command, Clients
<1>3. TypeOK
  BY <1>1, <1>2 DEF TypeOK, ConnectionTypeOK, Clients
<1>4. \A r \in Requests : req[r] = Idle /\ command[r] = NoCommand
  OBVIOUS
<1>5. WaitsInv /\ RoundInv /\ CountInv /\ DoomInv
  BY <1>1, <1>2, <1>4 DEF WaitsInv, RoundInv, CountInv, DoomInv, At
<1> QED
  BY <1>3, <1>5 DEF Inv, HttpInv

LEMMA InvStep == Inv /\ [Next]_vars => Inv'
<1> SUFFICES ASSUME Inv, [Next]_vars PROVE Inv'
  OBVIOUS
<1>1. ASSUME NEW r \in Requests, Arrive(r) \/ CorsRefuses(r) \/ Leaves(r) PROVE Inv'
  BY <1>1, HandlesKeeps
<1>2. ASSUME NEW r \in Requests, Handles(r) PROVE Inv'
  BY <1>2, HandlesKeeps, SendsKeeps, AnsweredKeeps, RejectedKeeps DEF Handles
<1>3. ASSUME NEW r \in Requests, Serves(r) \/ Expires(r) PROVE Inv'
  BY <1>3, CommandKeeps DEF Serves, Expires
<1>4. ASSUME NEW c \in Clients, Attempts(c) PROVE Inv'
  <2>1. CASE Connects(c)
    BY <1>4, <2>1, ConnectsKeeps DEF Attempts
  <2>2. CASE ConnectFails(c)
    BY <1>4, <2>2, ClosesKeeps DEF Attempts, ConnectFails
  <2> QED
    BY <1>4, <2>1, <2>2 DEF Attempts
<1>5. CASE Loses
  <2>1. ASSUME NEW c \in Clients, Breaks(c) PROVE Inv'
    BY <1>5, <2>1, ClosesKeeps DEF Loses, Breaks
  <2>2. ASSUME NEW r \in Requests, ReplicaRefuses(r) PROVE Inv'
    <3>1. Closes("main", {r}) /\ link["main"] = "ready" /\ "main" \in Clients
      BY <2>2 DEF ReplicaRefuses, Clients, Inv, HttpInv, WaitsInv
    <3> QED
      BY <1>5, <3>1, ClosesKeeps DEF Loses
  <2> QED
    BY <1>5, <2>1, <2>2 DEF Loses
<1>6. CASE UNCHANGED vars
  BY <1>6 DEF vars, Inv, HttpInv, TypeOK, ConnectionTypeOK, WaitsInv, RoundInv, CountInv,
              DoomInv, At
<1> QED
  BY <1>1, <1>2, <1>3, <1>4, <1>5, <1>6 DEF Next

LEMMA InvAlways == Spec => []Inv
BY InvInit, InvStep, PTL DEF Spec

-----------------------------------------------------------------------------
(* The theorems. *)

\* Every variable keeps its type.
THEOREM TypeCorrect == Spec => []TypeOK
<1>1. Inv => TypeOK
  BY DEF Inv
<1> QED
  BY <1>1, InvAlways, PTL

\* The parts the others rest on; WaitsInv among them: a command never waits
\* for a client that has ended, nor for the answer of one that is not ready.
THEOREM HttpCorrect == Spec => []HttpInv
<1>1. Inv => HttpInv
  BY DEF Inv
<1> QED
  BY <1>1, InvAlways, PTL

\* A success is told only of what Redis has executed, however many connections
\* were lost.
THEOREM SuccessCorrect == Spec => []SuccessIsDone
<1>1. Inv => SuccessIsDone
  BY DEF Inv, HttpInv, CountInv, SuccessIsDone
<1> QED
  BY <1>1, InvAlways, PTL

\* Nothing that needs the main client succeeds for a request that arrives after
\* retryStrategy has given up.
THEOREM EndCorrect == Spec => []EndIsForGood
<1>1. Inv => EndIsForGood
  <2> SUFFICES ASSUME Inv, NEW r \in Requests, req[r].doomed, req[r].answer.success,
                      ClientOf(req[r].route) # "health"
               PROVE  Needs(req[r].route) = 0
    BY DEF EndIsForGood
  <2>1. ClientOf(req[r].route) = "main"
    BY ClientOfType DEF Clients
  <2> QED
    BY <2>1 DEF Inv, HttpInv, CountInv, DoomInv
<1> QED
  BY <1>1, InvAlways, PTL

=============================================================================
