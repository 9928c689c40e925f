----------------------------- MODULE OtpService -----------------------------
(***************************************************************************)
(* src/redis-otp/otp.service.ts for one key, otp:register:<email> or       *)
(* otp:reset:<email>; keys are independent.  verifyOtp reads the payload,  *)
(* decides, and writes back what it decided: its GET and its SET or DEL    *)
(* are separate steps, and verifications and new codes of other requests   *)
(* fall between them.                                                      *)
(*                                                                         *)
(* A code stands for one call of generateOtp_: six random digits that      *)
(* happen to repeat are not modelled.                                      *)
(***************************************************************************)
EXTENDS RedisService

CONSTANTS Codes,              \* the codes that are ever generated
          Requests,           \* the requests that may be in progress at once
          MAX_OTP_ATTEMPTS,
          OTP_TTL,            \* REDIS_TTL.OTP
          MaxTime,            \* bound: the clock stops here
          None

ASSUME OtpAssumption ==
  /\ MAX_OTP_ATTEMPTS \in Nat \ {0}
  /\ OTP_TTL \in Nat \ {0}
  /\ MaxTime \in Nat
  /\ None \notin Codes

VARIABLES
  otp,       \* the key: its payload's code and attempts, and its deadline
  req,       \* req[r]: where request r is, and the payload it read
  issued,    \* the codes generated
  \* History, read by no action:
  latest,    \* the last code generated
  issuedAt,  \* issuedAt[c]: when c was generated
  refusals,  \* refusals[c]: answers "Invalid OTP" while c was stored, up to MAX + 1
  accepted,  \* the codes accepted
  twice,     \* ... more than once
  outdated,  \* ... when a newer one had been generated
  overdue,   \* the codes found to match OTP_TTL after they were generated
  raced      \* the codes that another request read or replaced while a
             \* verification held a copy of their payload

history == <<latest, issuedAt, refusals, accepted, twice, outdated, overdue, raced>>
vars == <<now, otp, req, issued, history>>

Stored == [code: Codes \union {None}, attempts: Nat, deadline: Nat]
NoOtp == [code |-> None, attempts |-> 0, deadline |-> Gone]

\* at: the command verifyOtp sends next.  code, attempts: storedOtp.
Request == [at: {"idle", "set", "del", "delExhausted"},
            code: Codes \union {None}, attempts: Nat]
Idle == [at |-> "idle", code |-> None, attempts |-> 0]

At(r, step) == req[r].at = step
Becomes(r, local) == req' = [req EXCEPT ![r] = local]

\* A verification between its GET and its write.
Holds(r, c) == ~At(r, "idle") /\ req[r].code = c

\* The codes that race when request r reads or replaces the payload.
Held(r) == {c \in Codes : \E q \in Requests \ {r} : Holds(q, c)}

If(condition, c) == IF condition THEN {c} ELSE {}

Init ==
  /\ now = 0
  /\ otp = NoOtp
  /\ req = [r \in Requests |-> Idle]
  /\ issued = {}
  /\ latest = None
  /\ issuedAt = [c \in Codes |-> 0]
  /\ refusals = [c \in Codes |-> 0]
  /\ accepted = {}
  /\ twice = {}
  /\ outdated = {}
  /\ overdue = {}
  /\ raced = {}

-----------------------------------------------------------------------------
(* Slips that a change to the service could make, each the form another    *)
(* definition must not take.                                               *)

\* A new code would not replace one that is still alive (SET ... NX).
PayloadIfAbsent(c) ==
  IF Alive(otp.deadline) THEN otp
  ELSE [code |-> c, attempts |-> 0, deadline |-> ExpiresIn(OTP_TTL)]

\* A new code would inherit the refusals of the one it replaces.
PayloadKeepsAttempts(c) ==
  [code |-> c, attempts |-> otp.attempts, deadline |-> ExpiresIn(OTP_TTL)]

\* One attempt too many.
ExhaustedLate == otp.attempts > MAX_OTP_ATTEMPTS

\* A code that was used would stay stored.
KeepOtp == UNCHANGED otp

-----------------------------------------------------------------------------
\* What generateOtp_ stores.
Payload(c) == [code |-> c, attempts |-> 0, deadline |-> ExpiresIn(OTP_TTL)]

Exhausted == otp.attempts >= MAX_OTP_ATTEMPTS

DeleteOtp == otp' = NoOtp

GenerateOtp(r, c) ==
  /\ At(r, "idle")
  /\ c \notin issued
  /\ otp' = Payload(c)
  /\ issued' = issued \union {c}
  /\ latest' = c
  /\ issuedAt' = [issuedAt EXCEPT ![c] = now]
  /\ raced' = raced \union Held(r)
  /\ UNCHANGED <<now, req, refusals, accepted, twice, outdated, overdue>>

\* verifyOtp's GET, and the branch it takes.  An absent payload is refused
\* without any effect.
VerifyReads(r, step) ==
  /\ At(r, "idle")
  /\ Alive(otp.deadline)
  /\ Becomes(r, [at |-> step, code |-> otp.code, attempts |-> otp.attempts])
  /\ raced' = raced \union (Held(r) \intersect {otp.code})
  /\ UNCHANGED <<now, otp, issued, latest, issuedAt, refusals, accepted, twice, outdated>>

VerifyExhausted(r) ==
  /\ Exhausted
  /\ VerifyReads(r, "delExhausted")
  /\ UNCHANGED overdue

VerifyMatches(r, input) ==
  /\ ~Exhausted
  /\ input = otp.code
  /\ VerifyReads(r, "del")
  /\ overdue' = overdue \union If(now >= issuedAt[input] + OTP_TTL, input)

VerifyMismatches(r, input) ==
  /\ ~Exhausted
  /\ input # otp.code
  /\ VerifyReads(r, "set")
  /\ UNCHANGED overdue

DeleteExhausted(r) ==
  /\ At(r, "delExhausted")
  /\ DeleteOtp
  /\ Becomes(r, Idle)
  /\ UNCHANGED <<now, issued, history>>

\* The write back carries the full TTL again.
SetAttempts(r) ==
  LET c == req[r].code IN
  /\ At(r, "set")
  /\ otp' = [code |-> c, attempts |-> req[r].attempts + 1,
             deadline |-> ExpiresIn(OTP_TTL)]
  /\ Becomes(r, Idle)
  /\ refusals' = [refusals EXCEPT ![c] = IF @ > MAX_OTP_ATTEMPTS THEN @ ELSE @ + 1]
  /\ UNCHANGED <<now, issued, latest, issuedAt, accepted, twice, outdated, overdue, raced>>

Accept(r) ==
  LET c == req[r].code IN
  /\ At(r, "del")
  /\ DeleteOtp
  /\ Becomes(r, Idle)
  /\ accepted' = accepted \union {c}
  /\ twice' = twice \union If(c \in accepted, c)
  /\ outdated' = outdated \union If(c # latest, c)
  /\ UNCHANGED <<now, issued, latest, issuedAt, refusals, overdue, raced>>

\* The worker dies, or ioredis gives up, before the write.
Fail(r) ==
  /\ ~At(r, "idle")
  /\ Becomes(r, Idle)
  /\ UNCHANGED <<now, otp, issued, history>>

Tick ==
  /\ now < MaxTime
  /\ now' = now + 1
  /\ UNCHANGED <<otp, req, issued, history>>

Next ==
  \/ \E r \in Requests :
       \/ \E c \in Codes :
            GenerateOtp(r, c) \/ VerifyMatches(r, c) \/ VerifyMismatches(r, c)
       \/ VerifyExhausted(r)
       \/ DeleteExhausted(r)
       \/ SetAttempts(r)
       \/ Accept(r)
       \/ Fail(r)
  \/ Tick

Spec == Init /\ [][Next]_vars

-----------------------------------------------------------------------------
(* Properties. *)

\* Every variable keeps its type; a request in progress and a live key have a code.
TypeOK ==
  /\ now \in Nat
  /\ otp \in Stored
  /\ otp.code = None => otp = NoOtp
  /\ req \in [Requests -> Request]
  /\ \A r \in Requests : ~At(r, "idle") => req[r].code \in Codes
  /\ issued \in SUBSET Codes
  /\ latest \in Codes \union {None}
  /\ issuedAt \in [Codes -> Nat]
  /\ refusals \in [Codes -> Nat]
  /\ accepted \in SUBSET Codes
  /\ twice \in SUBSET Codes
  /\ outdated \in SUBSET Codes
  /\ overdue \in SUBSET Codes
  /\ raced \in SUBSET Codes

\* verifyOtp accepts no code twice, not even after a lost answer, a crash or
\* an expiry, unless verifications overlapped.
AcceptedOnce == twice \subseteq raced

\* A code is refused MAX_OTP_ATTEMPTS times at the most, with the same exception.
AttemptsLimited == \A c \in Codes \ raced : refusals[c] <= MAX_OTP_ATTEMPTS

\* Once a newer code has been generated no older one is accepted, with the
\* same exception.
LatestAccepted == outdated \subseteq raced

\* The last code generated is unspent and within its TTL, and no request raced.
FreshCode ==
  /\ raced = {}
  /\ latest # None
  /\ latest \notin accepted
  /\ refusals[latest] < MAX_OTP_ATTEMPTS
  /\ now < issuedAt[latest] + OTP_TTL

\* The code mailed last works for its whole TTL, whatever happened to the
\* codes before it, as long as no request raced: it is not deleted or
\* overwritten for an earlier one, and counts only its own refusals.
FreshCodeUsable ==
  FreshCode => /\ otp.code = latest
               /\ otp.attempts = refusals[latest]
               /\ Alive(otp.deadline)

\* Until requests race, verifyOtp and generateOtp_ implement OneTimeCode.  A
\* verification acts on what it read: from its GET to its write the code it
\* read is the current one, even if it expires in between.
Verifying == \E r \in Requests : ~At(r, "idle")
theVerification == req[CHOOSE r \in Requests : ~At(r, "idle")]
Readable == IF Alive(otp.deadline) THEN otp ELSE NoOtp
Promise ==
  INSTANCE OneTimeCode WITH
    Tries   <- MAX_OTP_ATTEMPTS,
    current <- IF Verifying THEN theVerification.code ELSE Readable.code,
    refused <- IF Verifying THEN theVerification.attempts ELSE Readable.attempts
ImplementsOneTimeCode ==
  Promise!Init /\ [][Promise!Next \/ raced' # {}]_(Promise!vars)

-----------------------------------------------------------------------------
(* A claim of the documentation that the code does not keep. *)

\* README "OTP: 10 minutes": no code matches OTP_TTL after it was generated.
CodeEndsAfterTtl == overdue = {}

-----------------------------------------------------------------------------
(* What makes them hold at every step. *)

\* Whoever has a copy of an unraced code, the key or a verification, has its
\* number of refusals, and then it is the latest code and is not spent.
CopyInv(c, attempts) ==
  /\ attempts = refusals[c]
  /\ c \in issued
  /\ c \notin accepted
  /\ c = latest

UnracedInv(c) ==
  /\ otp.code = c => CopyInv(c, otp.attempts)
  /\ \A r \in Requests : Holds(r, c) =>
       /\ CopyInv(c, req[r].attempts)
       /\ At(r, "delExhausted") <=> req[r].attempts >= MAX_OTP_ATTEMPTS
       /\ \A q \in Requests : Holds(q, c) => q = r
  /\ refusals[c] <= MAX_OTP_ATTEMPTS
  /\ c \notin issued => refusals[c] = 0 /\ c \notin accepted
  /\ c \notin twice
  /\ c \notin outdated

\* With no race at all, the key keeps the latest code.
LatestInv ==
  /\ \A c \in Codes : issuedAt[c] <= now
  /\ raced = {} /\ latest # None =>
       \/ latest \in accepted
       \/ refusals[latest] >= MAX_OTP_ATTEMPTS
       \/ otp.code = latest /\ otp.deadline >= issuedAt[latest] + OTP_TTL

OtpInv == LatestInv /\ \A c \in Codes \ raced : UnracedInv(c)
=============================================================================
