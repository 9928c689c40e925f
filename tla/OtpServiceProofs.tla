-------------------------- MODULE OtpServiceProofs --------------------------
(***************************************************************************)
(* Proofs, for any number of requests and codes, of what OtpService keeps  *)
(* as long as no request reads or replaces a payload another one holds.    *)
(***************************************************************************)
EXTENDS OtpService, TLAPS

-----------------------------------------------------------------------------
(* Type correctness. *)

\* The initial states have their types.
LEMMA InitType == Init => TypeOK
BY DEF Init, TypeOK, Stored, NoOtp, Request, Idle, Gone, At

\* A key that can be read has a code.
LEMMA AliveCode == TypeOK /\ Alive(otp.deadline) => otp.code \in Codes
BY DEF TypeOK, Stored, NoOtp, Alive, Gone

\* Every step keeps the types.
LEMMA TypeStep == TypeOK /\ [Next]_vars => TypeOK'
<1> SUFFICES ASSUME TypeOK, [Next]_vars PROVE TypeOK'
  OBVIOUS
<1> USE OtpAssumption DEF TypeOK, Stored, Request, history, Becomes, At
<1>1. ASSUME NEW r \in Requests, NEW c \in Codes, GenerateOtp(r, c) PROVE TypeOK'
  BY <1>1 DEF GenerateOtp, Payload, ExpiresIn, Held
<1>2. ASSUME NEW r \in Requests, NEW step \in {"set", "del", "delExhausted"},
             VerifyReads(r, step), overdue' \in SUBSET Codes
      PROVE  TypeOK'
  <2>1. otp.code \in Codes
    BY <1>2, AliveCode DEF VerifyReads
  <2> QED
    BY <1>2, <2>1 DEF VerifyReads, Held
<1>3. ASSUME NEW r \in Requests, NEW c \in Codes, VerifyMatches(r, c) PROVE TypeOK'
  BY <1>2, <1>3 DEF VerifyMatches, If
<1>4. ASSUME NEW r \in Requests, NEW c \in Codes, VerifyMismatches(r, c) PROVE TypeOK'
  BY <1>2, <1>4 DEF VerifyMismatches
<1>5. ASSUME NEW r \in Requests, VerifyExhausted(r) PROVE TypeOK'
  BY <1>2, <1>5 DEF VerifyExhausted
<1>6. ASSUME NEW r \in Requests, DeleteExhausted(r) PROVE TypeOK'
  BY <1>6 DEF DeleteExhausted, DeleteOtp, NoOtp, Idle, Gone
<1>7. ASSUME NEW r \in Requests, SetAttempts(r) PROVE TypeOK'
  BY <1>7 DEF SetAttempts, Idle, ExpiresIn
<1>8. ASSUME NEW r \in Requests, Accept(r) PROVE TypeOK'
  BY <1>8 DEF Accept, DeleteOtp, NoOtp, Idle, Gone, If
<1>9. ASSUME NEW r \in Requests, Fail(r) PROVE TypeOK'
  BY <1>9 DEF Fail, Idle
<1>10. CASE Tick \/ UNCHANGED vars
  BY <1>10 DEF Tick, vars
<1> QED
  BY <1>1, <1>3, <1>4, <1>5, <1>6, <1>7, <1>8, <1>9, <1>10 DEF Next

\* Every reachable state of the one-time passcode has its types.
THEOREM TypeCorrect == Spec => []TypeOK
<1> QED
  BY InitType, TypeStep, PTL DEF Spec

-----------------------------------------------------------------------------
(* One code, one chance at a time. *)

\* The initial states satisfy OtpInv.
LEMMA InitOtp == Init => OtpInv
BY OtpAssumption
DEF Init, OtpInv, LatestInv, UnracedInv, CopyInv, Holds, At, Idle, NoOtp

\* A new code replaces one that nobody else holds, or that code has raced.
LEMMA GenerateStep ==
  ASSUME TypeOK, OtpInv, NEW r \in Requests, NEW c \in Codes, GenerateOtp(r, c)
  PROVE  OtpInv'
<1>1. /\ otp' = [code |-> c, attempts |-> 0, deadline |-> now + OTP_TTL]
      /\ issued' = issued \union {c} /\ latest' = c /\ c \notin issued
      /\ raced' = raced \union Held(r)
      /\ UNCHANGED <<now, req, refusals, accepted, twice, outdated>>
  BY DEF GenerateOtp, Payload, ExpiresIn
<1>2. issuedAt' = [issuedAt EXCEPT ![c] = now] /\ At(r, "idle")
  BY DEF GenerateOtp
<1>3. LatestInv'
  BY <1>1, <1>2, OtpAssumption DEF OtpInv, LatestInv, TypeOK
<1>4. ASSUME NEW d \in Codes \ raced' PROVE UnracedInv(d)'
  <2>1. UnracedInv(d) /\ \A q \in Requests : ~Holds(q, d)
    BY <1>1, <1>2, <1>4 DEF OtpInv, Held, Holds
  <2> QED
    BY <1>1, <2>1 DEF UnracedInv, CopyInv, Holds, At
<1> QED
  BY <1>3, <1>4 DEF OtpInv

\* A read makes the reader the only holder of the code, or the code has raced.
LEMMA ReadStep ==
  ASSUME TypeOK, OtpInv, NEW r \in Requests, NEW step \in {"set", "del", "delExhausted"},
         VerifyReads(r, step),
         step = "delExhausted" <=> otp.attempts >= MAX_OTP_ATTEMPTS
  PROVE  OtpInv'
<1>1. /\ raced' = raced \union (Held(r) \intersect {otp.code})
      /\ UNCHANGED <<now, otp, issued, latest, issuedAt, refusals, accepted, twice, outdated>>
      /\ At(r, "idle")
  BY DEF VerifyReads
<1>2. /\ req'[r].at = step /\ req'[r].code = otp.code /\ req'[r].attempts = otp.attempts
      /\ \A q \in Requests \ {r} : req'[q] = req[q]
  BY DEF VerifyReads, Becomes, TypeOK
<1>3. LatestInv'
  BY <1>1 DEF OtpInv, LatestInv
<1>4. ASSUME NEW d \in Codes \ raced' PROVE UnracedInv(d)'
  <2>1. UnracedInv(d)
    BY <1>1, <1>4 DEF OtpInv
  <2>2. d = otp.code => \A q \in Requests : ~Holds(q, d)
    BY <1>1, <1>4 DEF Held, Holds
  <2> QED
    BY <1>1, <1>2, <2>1, <2>2 DEF UnracedInv, CopyInv, Holds, At
<1> QED
  BY <1>3, <1>4 DEF OtpInv

\* A request that ends holds nothing any more.
LEMMA IdleEffect ==
  ASSUME TypeOK, NEW r \in Requests, Becomes(r, Idle)
  PROVE  /\ \A c : ~Holds(r, c)'
         /\ \A q \in Requests \ {r} : req'[q] = req[q]
BY DEF TypeOK, Becomes, Idle, Holds, At

LEMMA DeleteExhaustedStep ==
  ASSUME TypeOK, OtpInv, NEW r \in Requests, DeleteExhausted(r)
  PROVE  OtpInv'
<1>1. otp' = NoOtp /\ UNCHANGED <<now, issued, history>> /\ At(r, "delExhausted")
  BY DEF DeleteExhausted, DeleteOtp
<1>2. /\ \A c : ~Holds(r, c)'
      /\ \A q \in Requests \ {r} : req'[q] = req[q]
  BY IdleEffect DEF DeleteExhausted
<1>3. LatestInv'
  <2>1. req[r].code \in Codes /\ Holds(r, req[r].code)
    BY <1>1 DEF TypeOK, Holds, At
  <2>2. raced = {} => req[r].code = latest /\ refusals[latest] >= MAX_OTP_ATTEMPTS
    BY <1>1, <2>1 DEF OtpInv, UnracedInv, CopyInv
  <2> QED
    BY <1>1, <2>2 DEF OtpInv, LatestInv, history
<1>4. ASSUME NEW d \in Codes \ raced' PROVE UnracedInv(d)'
  BY <1>1, <1>2, <1>4, OtpAssumption DEF OtpInv, UnracedInv, CopyInv, Holds, At, history, NoOtp
<1> QED
  BY <1>3, <1>4 DEF OtpInv

LEMMA SetAttemptsStep ==
  ASSUME TypeOK, OtpInv, NEW r \in Requests, SetAttempts(r)
  PROVE  OtpInv'
<1> DEFINE c == req[r].code
<1>1. /\ otp' = [code |-> c, attempts |-> req[r].attempts + 1, deadline |-> now + OTP_TTL]
      /\ At(r, "set")
      /\ UNCHANGED <<now, issued, latest, issuedAt, accepted, twice, outdated, raced>>
  BY DEF SetAttempts, ExpiresIn
<1>2. /\ \A d : ~Holds(r, d)'
      /\ \A q \in Requests \ {r} : req'[q] = req[q]
  BY IdleEffect DEF SetAttempts
<1>3. c \in Codes /\ Holds(r, c) /\ req[r].attempts \in Nat
  BY <1>1 DEF TypeOK, Holds, At, Request
<1>4. \A d \in Codes :
        refusals'[d] = IF d = c /\ refusals[d] <= MAX_OTP_ATTEMPTS
                       THEN refusals[d] + 1 ELSE refusals[d]
  BY <1>3, OtpAssumption DEF SetAttempts, TypeOK
<1>5. LatestInv'
  <2>1. raced = {} => c = latest
    BY <1>3 DEF OtpInv, UnracedInv, CopyInv
  <2>2. \A d \in Codes : issuedAt[d] <= now /\ issuedAt[d] \in Nat
    BY DEF OtpInv, LatestInv, TypeOK
  <2> QED
    BY <1>1, <1>3, <2>1, <2>2, OtpAssumption DEF LatestInv, TypeOK
<1>6. ASSUME NEW d \in Codes \ raced' PROVE UnracedInv(d)'
  <2>1. UnracedInv(d)
    BY <1>1, <1>6 DEF OtpInv
  <2>2. CASE d = c
    <3>1. /\ req[r].attempts = refusals[c] /\ req[r].attempts < MAX_OTP_ATTEMPTS
          /\ c \in issued /\ c \notin accepted /\ c = latest
          /\ \A q \in Requests : Holds(q, c) => q = r
      BY <1>1, <1>3, <2>1, <2>2, OtpAssumption DEF UnracedInv, CopyInv, At
    <3>2. \A q \in Requests : ~Holds(q, d)'
      BY <1>2, <2>2, <3>1 DEF Holds, At
    <3>3. refusals'[d] = req[r].attempts + 1 /\ refusals'[d] <= MAX_OTP_ATTEMPTS
      BY <1>3, <1>4, <2>2, <3>1, OtpAssumption
    <3> QED
      BY <1>1, <1>3, <2>1, <2>2, <3>1, <3>2, <3>3 DEF UnracedInv, CopyInv
  <2>3. CASE d # c
    BY <1>1, <1>2, <1>4, <2>1, <2>3 DEF UnracedInv, CopyInv, Holds, At
  <2> QED
    BY <2>2, <2>3
<1> QED
  BY <1>5, <1>6 DEF OtpInv

LEMMA AcceptStep ==
  ASSUME TypeOK, OtpInv, NEW r \in Requests, Accept(r)
  PROVE  OtpInv'
<1> DEFINE c == req[r].code
<1>1. /\ otp' = NoOtp /\ At(r, "del")
      /\ accepted' = accepted \union {c}
      /\ twice' = twice \union If(c \in accepted, c)
      /\ outdated' = outdated \union If(c # latest, c)
      /\ UNCHANGED <<now, issued, latest, issuedAt, refusals, raced>>
  BY DEF Accept, DeleteOtp
<1>2. /\ \A d : ~Holds(r, d)'
      /\ \A q \in Requests \ {r} : req'[q] = req[q]
  BY IdleEffect DEF Accept
<1>3. c \in Codes /\ Holds(r, c)
  BY <1>1 DEF TypeOK, Holds, At
<1>4. LatestInv'
  <2>1. raced = {} => c = latest
    BY <1>3 DEF OtpInv, UnracedInv, CopyInv
  <2> QED
    BY <1>1, <2>1 DEF OtpInv, LatestInv
<1>5. ASSUME NEW d \in Codes \ raced' PROVE UnracedInv(d)'
  <2>1. UnracedInv(d)
    BY <1>1, <1>5 DEF OtpInv
  <2>2. CASE d = c
    <3>1. /\ c \in issued /\ c \notin accepted /\ c = latest
          /\ \A q \in Requests : Holds(q, c) => q = r
      BY <1>3, <2>1, <2>2 DEF UnracedInv, CopyInv
    <3>2. \A q \in Requests : ~Holds(q, d)'
      BY <1>2, <2>2, <3>1 DEF Holds, At
    <3> QED
      BY <1>1, <2>1, <2>2, <3>1, <3>2, OtpAssumption DEF UnracedInv, NoOtp, If
  <2>3. CASE d # c
    BY <1>1, <1>2, <2>1, <2>3, OtpAssumption DEF UnracedInv, CopyInv, Holds, At, NoOtp, If
  <2> QED
    BY <2>2, <2>3
<1> QED
  BY <1>4, <1>5 DEF OtpInv

\* Every step keeps OtpInv.
LEMMA OtpStep == TypeOK /\ OtpInv /\ [Next]_vars => OtpInv'
<1> SUFFICES ASSUME TypeOK, OtpInv, [Next]_vars PROVE OtpInv'
  OBVIOUS
<1>0. otp.attempts \in Nat
  BY DEF TypeOK, Stored
<1>1. ASSUME NEW r \in Requests, NEW c \in Codes, VerifyMatches(r, c) PROVE OtpInv'
  BY <1>0, <1>1, ReadStep, OtpAssumption DEF VerifyMatches, Exhausted
<1>2. ASSUME NEW r \in Requests, NEW c \in Codes, VerifyMismatches(r, c) PROVE OtpInv'
  BY <1>0, <1>2, ReadStep, OtpAssumption DEF VerifyMismatches, Exhausted
<1>3. ASSUME NEW r \in Requests, VerifyExhausted(r) PROVE OtpInv'
  BY <1>3, ReadStep DEF VerifyExhausted, Exhausted
<1>4. ASSUME NEW r \in Requests, Fail(r) PROVE OtpInv'
  <2>1. UNCHANGED <<now, otp, issued, history>>
    BY <1>4 DEF Fail
  <2>2. /\ \A d : ~Holds(r, d)'
        /\ \A q \in Requests \ {r} : req'[q] = req[q]
    BY <1>4, IdleEffect DEF Fail
  <2> QED
    BY <2>1, <2>2 DEF OtpInv, LatestInv, UnracedInv, CopyInv, Holds, At, history
<1>5. CASE Tick
  <2>1. now' = now + 1 /\ UNCHANGED <<otp, req, issued, history>>
    BY <1>5 DEF Tick
  <2>2. LatestInv'
    BY <2>1 DEF OtpInv, LatestInv, history, TypeOK
  <2> QED
    BY <2>1, <2>2 DEF OtpInv, UnracedInv, CopyInv, Holds, At, history
<1>6. CASE UNCHANGED vars
  BY <1>6 DEF vars, OtpInv, LatestInv, UnracedInv, CopyInv, Holds, At, history
<1> QED
  BY <1>1, <1>2, <1>3, <1>4, <1>5, <1>6,
     GenerateStep, DeleteExhaustedStep, SetAttemptsStep, AcceptStep DEF Next

\* OtpInv holds at every step: each copy of a code that no two requests raced
\* for has the code's own number of refusals.
THEOREM OtpCorrect == Spec => []OtpInv
BY InitType, TypeStep, InitOtp, OtpStep, PTL DEF Spec

\* verifyOtp accepts a code once, unless verifications overlapped.
THEOREM AcceptanceCorrect == Spec => []AcceptedOnce
<1>1. TypeOK /\ OtpInv => AcceptedOnce
  BY DEF TypeOK, OtpInv, UnracedInv, AcceptedOnce
<1> QED
  BY <1>1, TypeCorrect, OtpCorrect, PTL

\* verifyOtp refuses a code MAX_OTP_ATTEMPTS times at the most, unless
\* verifications overlapped.
THEOREM AttemptsCorrect == Spec => []AttemptsLimited
<1>1. OtpInv => AttemptsLimited
  BY DEF OtpInv, UnracedInv, AttemptsLimited
<1> QED
  BY <1>1, OtpCorrect, PTL

\* verifyOtp accepts no code after a newer one was generated, unless a
\* verification held the older one at the time.
THEOREM LatestCorrect == Spec => []LatestAccepted
<1>1. TypeOK /\ OtpInv => LatestAccepted
  BY DEF TypeOK, OtpInv, UnracedInv, LatestAccepted
<1> QED
  BY <1>1, TypeCorrect, OtpCorrect, PTL

\* The code generated last is stored, with its own refusals, for its whole TTL.
THEOREM FreshCodeCorrect == Spec => []FreshCodeUsable
<1>1. TypeOK /\ OtpInv => FreshCodeUsable
  <2> SUFFICES ASSUME TypeOK, OtpInv, FreshCode
               PROVE  /\ otp.code = latest
                      /\ otp.attempts = refusals[latest]
                      /\ Alive(otp.deadline)
    BY DEF FreshCodeUsable
  <2>1. /\ latest \in Codes /\ issuedAt[latest] \in Nat /\ refusals[latest] \in Nat
        /\ otp.deadline \in Nat /\ now \in Nat
    BY DEF TypeOK, FreshCode, Stored
  <2>2. otp.code = latest /\ otp.deadline >= issuedAt[latest] + OTP_TTL
    BY <2>1, OtpAssumption DEF FreshCode, OtpInv, LatestInv
  <2>3. otp.attempts = refusals[latest]
    BY <2>1, <2>2 DEF FreshCode, OtpInv, UnracedInv, CopyInv
  <2> QED
    BY <2>1, <2>2, <2>3, OtpAssumption DEF FreshCode, Alive
<1> QED
  BY <1>1, TypeCorrect, OtpCorrect, PTL

-----------------------------------------------------------------------------
(* Until requests race, the service implements OneTimeCode. *)

\* What OneTimeCode's current and refused are mapped to.
Current == IF Verifying THEN theVerification.code ELSE Readable.code
Refused == IF Verifying THEN theVerification.attempts ELSE Readable.attempts

\* With no race, one request verifies at a time, and the code it has read is
\* the last one generated, which nobody has used.
LEMMA OneVerification ==
  ASSUME TypeOK, OtpInv, raced = {}, NEW r \in Requests, ~At(r, "idle")
  PROVE  /\ \A q \in Requests \ {r} : At(q, "idle")
         /\ Current = req[r].code /\ Refused = req[r].attempts
         /\ Current \in Codes /\ CopyInv(req[r].code, req[r].attempts)
         /\ At(r, "delExhausted") <=> req[r].attempts >= MAX_OTP_ATTEMPTS
<1>1. \A q \in Requests : ~At(q, "idle") => req[q].code \in Codes /\ Holds(q, req[q].code)
  BY DEF TypeOK, Holds
<1>2. \A q \in Requests : ~At(q, "idle") => req[q].code = latest
  BY <1>1 DEF OtpInv, UnracedInv, CopyInv
<1>3. \A q \in Requests : ~At(q, "idle") => q = r
  BY <1>1, <1>2 DEF OtpInv, UnracedInv
<1>4. Verifying /\ (CHOOSE q \in Requests : ~At(q, "idle")) = r
  BY <1>3 DEF Verifying
<1>5. Current = req[r].code /\ Refused = req[r].attempts
  BY <1>4 DEF Current, Refused, theVerification
<1> QED
  BY <1>1, <1>3, <1>5 DEF OtpInv, UnracedInv

\* When nobody verifies, the key itself is what can be accepted.
LEMMA NoVerification ==
  ASSUME \A q \in Requests : At(q, "idle")
  PROVE  /\ Current = IF Alive(otp.deadline) THEN otp.code ELSE None
         /\ Refused = IF Alive(otp.deadline) THEN otp.attempts ELSE 0
BY DEF Current, Refused, Verifying, Readable, NoOtp

\* The same, of the next state.
LEMMA NoVerificationNext ==
  ASSUME \A q \in Requests : At(q, "idle")'
  PROVE  /\ Current' = IF Alive(otp.deadline)' THEN otp'.code ELSE None
         /\ Refused' = IF Alive(otp.deadline)' THEN otp'.attempts ELSE 0
BY DEF Current, Refused, Verifying, Readable, NoOtp, At

\* A request that ends leaves nobody verifying.
LEMMA LastEnds ==
  ASSUME TypeOK, NEW r \in Requests, Becomes(r, Idle),
         \A q \in Requests \ {r} : At(q, "idle")
  PROVE  /\ Current' = IF Alive(otp.deadline)' THEN otp'.code ELSE None
         /\ Refused' = IF Alive(otp.deadline)' THEN otp'.attempts ELSE 0
<1>1. \A q \in Requests : At(q, "idle")'
  BY DEF TypeOK, Becomes, Idle, At
<1> QED
  BY <1>1, NoVerificationNext

\* What a step does to the four variables of OneTimeCode.
Mapped == <<Current, Refused, issued, accepted>>

LEMMA PromiseActions ==
  /\ \A c \in Codes :
       /\ c \notin issued /\ Current' = c /\ Refused' = 0
       /\ issued' = issued \union {c} /\ accepted' = accepted
       => Promise!Next
  /\ /\ Current # None /\ Refused < MAX_OTP_ATTEMPTS
     /\ Refused' = Refused + 1 /\ Current' = Current
     /\ UNCHANGED <<issued, accepted>>
     => Promise!Next
  /\ /\ Current # None /\ Current \notin accepted /\ Refused < MAX_OTP_ATTEMPTS
     /\ accepted' = accepted \union {Current} /\ Current' = None /\ Refused' = 0
     /\ issued' = issued
     => Promise!Next
  /\ /\ Current # None /\ Current' = None /\ Refused' = 0
     /\ UNCHANGED <<issued, accepted>>
     => Promise!Next
  /\ UNCHANGED Mapped => UNCHANGED Promise!vars
BY DEF Current, Refused, Mapped, Promise!Next, Promise!Issue, Promise!Refuse, Promise!Accept,
       Promise!Lapse, Promise!vars

\* The initial states map to the initial state.
LEMMA PromiseInit == Init => Promise!Init
<1> SUFFICES ASSUME Init PROVE Promise!Init
  OBVIOUS
<1>1. \A q \in Requests : At(q, "idle")
  BY DEF Init, At, Idle
<1>2. Current = None /\ Refused = 0
  BY <1>1, NoVerification DEF Init, NoOtp, Gone, Alive
<1> QED
  BY <1>2 DEF Init, Promise!Init, Current, Refused

\* A verification's GET leaves the code current that it finds.
LEMMA ReadMaps ==
  ASSUME TypeOK, OtpInv, raced' = {}, NEW r \in Requests,
         NEW step \in {"set", "del", "delExhausted"}, VerifyReads(r, step)
  PROVE  UNCHANGED Mapped
<1>1. /\ raced = {} /\ Held(r) \intersect {otp.code} = {} /\ Alive(otp.deadline)
      /\ UNCHANGED <<now, otp, issued, accepted>> /\ At(r, "idle")
  BY DEF VerifyReads
<1>2. otp.code \in Codes /\ otp.code = latest
  BY <1>1, AliveCode DEF OtpInv, UnracedInv, CopyInv
<1>3. \A q \in Requests : At(q, "idle")
  <2> SUFFICES ASSUME NEW q \in Requests, ~At(q, "idle") PROVE FALSE
    OBVIOUS
  <2>1. req[q].code = latest
    BY <1>1, OneVerification DEF CopyInv
  <2> QED
    BY <1>1, <1>2, <2>1 DEF Held, Holds
<1>4. Current = otp.code /\ Refused = otp.attempts
  BY <1>1, <1>3, NoVerification
<1>5. /\ req'[r].at = step /\ req'[r].code = otp.code /\ req'[r].attempts = otp.attempts
      /\ \A q \in Requests \ {r} : req'[q] = req[q]
  BY DEF VerifyReads, Becomes, TypeOK
<1>6. Verifying' /\ (CHOOSE q \in Requests : ~At(q, "idle")') = r
  BY <1>3, <1>5 DEF Verifying, At
<1>7. Current' = otp.code /\ Refused' = otp.attempts
  BY <1>5, <1>6 DEF Current, Refused, theVerification
<1> QED
  BY <1>1, <1>4, <1>7 DEF Mapped

\* A step at which nobody raced is a step of OneTimeCode, or none.
LEMMA PromiseStep ==
  TypeOK /\ OtpInv /\ [Next]_vars => [Promise!Next \/ raced' # {}]_(Promise!vars)
<1> SUFFICES ASSUME TypeOK, OtpInv, [Next]_vars, raced' = {}
             PROVE  Promise!Next \/ UNCHANGED Mapped
  BY PromiseActions
<1> USE DEF history
<1>1. raced = {}
  BY DEF Next, GenerateOtp, VerifyMatches, VerifyMismatches, VerifyExhausted, VerifyReads,
         DeleteExhausted, SetAttempts, Accept, Fail, Tick, vars
<1>2. ASSUME NEW r \in Requests, NEW c \in Codes, GenerateOtp(r, c) PROVE Promise!Next
  <2>1. \A q \in Requests : At(q, "idle")
    BY <1>2 DEF GenerateOtp, Held, Holds, TypeOK
  <2>2. /\ c \notin issued /\ issued' = issued \union {c} /\ accepted' = accepted
        /\ otp'.code = c /\ otp'.attempts = 0 /\ Alive(otp.deadline)'
        /\ req' = req
    BY <1>2, OtpAssumption DEF GenerateOtp, Payload, ExpiresIn, Alive, TypeOK
  <2>3. \A q \in Requests : At(q, "idle")'
    BY <2>1, <2>2 DEF At
  <2>4. Current' = c /\ Refused' = 0
    BY <2>2, <2>3, NoVerificationNext
  <2> QED
    BY <2>2, <2>4, PromiseActions
<1>3. ASSUME NEW r \in Requests,
             \/ \E c \in Codes : VerifyMatches(r, c) \/ VerifyMismatches(r, c)
             \/ VerifyExhausted(r)
      PROVE  UNCHANGED Mapped
  BY <1>3, ReadMaps DEF VerifyMatches, VerifyMismatches, VerifyExhausted
<1>4. ASSUME NEW r \in Requests, DeleteExhausted(r) PROVE Promise!Next
  <2>1. /\ ~At(r, "idle") /\ Becomes(r, Idle) /\ otp' = NoOtp
        /\ UNCHANGED <<issued, accepted>>
    BY <1>4 DEF DeleteExhausted, DeleteOtp, At
  <2>2. Current # None /\ \A q \in Requests \ {r} : At(q, "idle")
    BY <1>1, <2>1, OneVerification, OtpAssumption
  <2>3. Current' = None /\ Refused' = 0
    BY <2>1, <2>2, LastEnds DEF NoOtp
  <2> QED
    BY <2>1, <2>2, <2>3, PromiseActions
<1>5. ASSUME NEW r \in Requests, SetAttempts(r) PROVE Promise!Next
  <2>1. /\ ~At(r, "idle") /\ At(r, "set") /\ ~At(r, "delExhausted") /\ Becomes(r, Idle)
        /\ otp'.code = req[r].code /\ otp'.attempts = req[r].attempts + 1
        /\ Alive(otp.deadline)'
        /\ UNCHANGED <<issued, accepted>>
    BY <1>5, OtpAssumption DEF SetAttempts, At, ExpiresIn, Alive, TypeOK
  <2>2. /\ Current \in Codes /\ Current = req[r].code /\ Refused = req[r].attempts
        /\ \A q \in Requests \ {r} : At(q, "idle")
        /\ ~(req[r].attempts >= MAX_OTP_ATTEMPTS)
    BY <1>1, <2>1, OneVerification
  <2>3. Current' = Current /\ Refused' = Refused + 1
    BY <2>1, <2>2, LastEnds
  <2>4. Refused < MAX_OTP_ATTEMPTS /\ Current # None
    BY <2>2, OtpAssumption DEF TypeOK, Request
  <2> QED
    BY <2>1, <2>3, <2>4, PromiseActions
<1>6. ASSUME NEW r \in Requests, Accept(r) PROVE Promise!Next
  <2>1. /\ ~At(r, "idle") /\ At(r, "del") /\ ~At(r, "delExhausted") /\ Becomes(r, Idle)
        /\ otp' = NoOtp /\ accepted' = accepted \union {req[r].code} /\ issued' = issued
    BY <1>6 DEF Accept, DeleteOtp, At
  <2>2. /\ Current \in Codes /\ Current = req[r].code /\ Refused = req[r].attempts
        /\ \A q \in Requests \ {r} : At(q, "idle")
        /\ ~(req[r].attempts >= MAX_OTP_ATTEMPTS)
        /\ req[r].code \notin accepted
    BY <1>1, <2>1, OneVerification DEF CopyInv
  <2>3. Current' = None /\ Refused' = 0
    BY <2>1, <2>2, LastEnds DEF NoOtp
  <2>4. Refused < MAX_OTP_ATTEMPTS /\ Current # None
    BY <2>2, OtpAssumption DEF TypeOK, Request
  <2> QED
    BY <2>1, <2>2, <2>3, <2>4, PromiseActions
<1>7. ASSUME NEW r \in Requests, Fail(r) PROVE Promise!Next \/ UNCHANGED Mapped
  <2>1. /\ ~At(r, "idle") /\ Becomes(r, Idle) /\ UNCHANGED <<now, otp, issued, accepted>>
    BY <1>7 DEF Fail
  <2>2. /\ Current \in Codes /\ Current = req[r].code /\ Refused = req[r].attempts
        /\ \A q \in Requests \ {r} : At(q, "idle")
        /\ CopyInv(req[r].code, req[r].attempts)
    BY <1>1, <2>1, OneVerification
  <2>3. /\ Current' = IF Alive(otp.deadline) THEN otp.code ELSE None
        /\ Refused' = IF Alive(otp.deadline) THEN otp.attempts ELSE 0
    BY <2>1, <2>2, LastEnds DEF Alive
  <2>4. CASE Alive(otp.deadline)
    <3>1. otp.code \in Codes /\ CopyInv(otp.code, otp.attempts)
      BY <1>1, <2>4, AliveCode DEF OtpInv, UnracedInv
    <3> QED
      BY <2>1, <2>2, <2>3, <2>4, <3>1 DEF CopyInv, Mapped
  <2>5. CASE ~Alive(otp.deadline)
    BY <2>1, <2>2, <2>3, <2>5, PromiseActions, OtpAssumption
  <2> QED
    BY <2>4, <2>5
<1>8. CASE Tick
  <2>1. UNCHANGED <<otp, req, issued, accepted>> /\ now' = now + 1
    BY <1>8 DEF Tick
  <2>2. CASE \E r \in Requests : ~At(r, "idle")
    <3>1. Verifying /\ Verifying' /\ theVerification' = theVerification
      BY <2>1, <2>2 DEF Verifying, theVerification, At
    <3> QED
      BY <2>1, <3>1 DEF Mapped, Current, Refused
  <2>3. CASE \A r \in Requests : At(r, "idle")
    <3>1. \A r \in Requests : At(r, "idle")'
      BY <2>1, <2>3 DEF At
    <3>2. Alive(otp.deadline)' => Alive(otp.deadline)
      BY <2>1 DEF Alive, TypeOK, Stored
    <3>3. CASE Alive(otp.deadline) /\ ~Alive(otp.deadline)'
      BY <2>1, <2>3, <3>1, <3>3, NoVerification, NoVerificationNext, AliveCode, OtpAssumption,
         PromiseActions
    <3>4. CASE Alive(otp.deadline)' \/ ~Alive(otp.deadline)
      BY <2>1, <2>3, <3>1, <3>2, <3>4, NoVerification, NoVerificationNext DEF Mapped
    <3> QED
      BY <3>3, <3>4
  <2> QED
    BY <2>2, <2>3
<1>9. CASE UNCHANGED vars
  BY <1>9 DEF vars, Mapped, Current, Refused, Verifying, theVerification, Readable, At, Alive
<1> QED
  BY <1>2, <1>3, <1>4, <1>5, <1>6, <1>7, <1>8, <1>9 DEF Next

\* As long as no request reads or replaces a payload another one holds,
\* generateOtp_ and verifyOtp keep the promise of a one-time code: one code is
\* current, it is refused MAX_OTP_ATTEMPTS times at the most, accepting ends it.
THEOREM PromiseKept == Spec => ImplementsOneTimeCode
BY InitType, TypeStep, InitOtp, OtpStep, PromiseInit, PromiseStep, PTL
DEF Spec, ImplementsOneTimeCode
=============================================================================
