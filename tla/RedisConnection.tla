-------------------------- MODULE RedisConnection --------------------------
(***************************************************************************)
(* The two ioredis clients of a worker: "main", which RedisModule makes    *)
(* for every service (src/redis/redis.module.ts), and "health", which      *)
(* RedisHealthIndicator makes for its PING                                 *)
(* (src/health/indicators/redis.health.ts).  The options are the code's,   *)
(* what ioredis does with them is external: when the socket closes it asks *)
(* retryStrategy whether to connect again, and rejects the waiting         *)
(* commands when that says no or when the attempt's number is a multiple   *)
(* of maxRetriesPerRequest + 1; otherwise they wait, those already sent    *)
(* included, and are sent (again) once the client is ready.                *)
(*                                                                         *)
(* A connection attempt either becomes ready or fails as a whole.  The     *)
(* commands that a request sends together count as one.                    *)
(***************************************************************************)
EXTENDS Naturals

CONSTANTS Requests,     \* the requests the worker may have in progress
          STOPS_AFTER,  \* main: retryStrategy answers null beyond this attempt
          PER_REQUEST   \* PER_REQUEST[c]: maxRetriesPerRequest of client c

Clients == {"main", "health"}

ASSUME ConnectionAssumption ==
  /\ STOPS_AFTER \in Nat
  /\ PER_REQUEST \in [Clients -> Nat]

VARIABLES link,      \* link[c]: the state of c's connection
          attempts,  \* attempts[c]: connections lost or failed in a row
          command    \* command[r]: the command request r waits for

Pending == {"queued", "sent", "executed"}
Command == [client: Clients, at: {"none", "answered", "rejected"} \union Pending,
            ran: BOOLEAN]
NoCommand == [client |-> "main", at |-> "none", ran |-> FALSE]

ConnectionTypeOK ==
  /\ link \in [Clients -> {"wait", "connecting", "ready", "end"}]
  /\ attempts \in [Clients -> Nat]
  /\ command \in [Requests -> Command]

\* lazyConnect: the health client connects on its first command.
ConnectionInit ==
  /\ link = [c \in Clients |-> IF c = "main" THEN "connecting" ELSE "wait"]
  /\ attempts = [c \in Clients |-> 0]
  /\ command = [r \in Requests |-> NoCommand]

\* retryStrategy: the health client keeps the default, which never stops.
Retries(c, times) == c = "main" => times <= STOPS_AFTER

\* A slip: the count of the client that stops would start again, too.
CountedRound(c, times) == times % (PER_REQUEST[c] + 1)

\* Only its remainder matters to a client that never stops: this bounds it.
Counted(c, times) ==
  IF c = "main" THEN times ELSE times % (PER_REQUEST[c] + 1)

\* The waiting commands are rejected, and not kept for the next connection.
\* A slip would be to drop them when the client stops, without an answer.
FlushesRetryingOnly(c, times) ==
  Retries(c, times) /\ times % (PER_REQUEST[c] + 1) = 0

Flushes(c, times) ==
  \/ ~Retries(c, times)
  \/ times % (PER_REQUEST[c] + 1) = 0

\* The socket of c closes; the commands of refused have been rejected before.
Closes(c, refused) ==
  LET times == attempts[c] + 1
      waiting == {r \in Requests : command[r].client = c /\ command[r].at \in Pending}
      rejected == IF Flushes(c, times) THEN waiting ELSE refused
  IN
  /\ link' = [link EXCEPT ![c] = IF Retries(c, times) THEN "connecting" ELSE "end"]
  /\ attempts' = [attempts EXCEPT ![c] = Counted(c, times)]
  /\ command' = [r \in Requests |->
                   IF r \in waiting
                   THEN [command[r] EXCEPT !.at = IF r \in rejected THEN "rejected"
                                                  ELSE "queued"]
                   ELSE command[r]]

ConnectFails(c) == link[c] = "connecting" /\ Closes(c, {})

Breaks(c) == link[c] = "ready" /\ Closes(c, {})

\* Ready: the count starts again, and what has been waiting is sent.
Connects(c) ==
  /\ link[c] = "connecting"
  /\ link' = [link EXCEPT ![c] = "ready"]
  /\ attempts' = [attempts EXCEPT ![c] = 0]
  /\ command' = [r \in Requests |->
                   IF command[r].client = c /\ command[r].at = "queued"
                   THEN [command[r] EXCEPT !.at = "sent"] ELSE command[r]]

\* r sends a command by client c.  One whose client has ended is rejected at
\* once, one whose client is not ready waits for it.
Sends(r, c) ==
  /\ link' = [link EXCEPT ![c] = IF @ = "wait" THEN "connecting" ELSE @]
  /\ command' = [command EXCEPT
                   ![r] = [client |-> c, ran |-> FALSE,
                           at |-> CASE link[c] = "ready" -> "sent"
                                    [] link[c] = "end"   -> "rejected"
                                    [] OTHER             -> "queued"]]
  /\ UNCHANGED attempts

\* The server executes the command, and the answer is on its way.
Executes(r) ==
  /\ command[r].at = "sent"
  /\ command' = [command EXCEPT ![r].at = "executed", ![r].ran = TRUE]
  /\ UNCHANGED <<link, attempts>>

Answers(r) ==
  /\ command[r].at = "executed"
  /\ command' = [command EXCEPT ![r].at = "answered"]
  /\ UNCHANGED <<link, attempts>>

\* reconnectOnError: a server that has become a replica refuses to write with
\* READONLY, upon which the main client rejects the command and reconnects.
\* (Which commands write is left open.)
ReplicaRefuses(r) ==
  /\ command[r].at = "sent"
  /\ command[r].client = "main"
  /\ Closes("main", {r})

\* commandTimeout: PING is rejected three seconds after it was sent.
TimesOut(r) ==
  /\ command[r].client = "health"
  /\ command[r].at \in Pending
  /\ command' = [command EXCEPT ![r].at = "rejected"]
  /\ UNCHANGED <<link, attempts>>
=============================================================================
