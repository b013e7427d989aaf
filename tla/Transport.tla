------------------------------ MODULE Transport ------------------------------
(***************************************************************************)
(* CryptoChiefClient.request: the signed retry loop that every service     *)
(* call of the SDK goes through, run by several asyncio tasks that share   *)
(* one client, and so one clock offset.                                    *)
(*                                                                         *)
(* The loop gives up control at two awaits only, so a call is in one of    *)
(* four places: not made yet ("idle"), in asyncio.sleep ("backoff"),       *)
(* waiting for httpx ("http"), or returned / raised ("done").  An action   *)
(* is all the code from one await to the next.                             *)
(*                                                                         *)
(* The gateway, the network and the clocks are the environment.  A request *)
(* takes at most SendDelay from signing to the gateway's checks, an answer *)
(* at most RecvDelay back; httpx's timeouts turn anything slower into a    *)
(* network error.  A request the client gave up on is "adrift": nobody     *)
(* reads its answer, but it may still reach the gateway and take effect.   *)
(***************************************************************************)
EXTENDS Integers

CONSTANTS
  Calls,          \* the calls made through one client
  RetryBudgets,   \* values of the client's retries= argument, any integer
  Window,         \* how far a timestamp may be from the gateway's clock
  SendDelay,      \* longest time from signing a request to its arrival
  RecvDelay,      \* longest time from the gateway's answer to its receipt
  Skews,          \* how far ahead of the gateway the local clock may be
  MaxAdrift,      \* bound: abandoned requests of a call that may still land
  MaxClockSteps,  \* bound: how often the local clock is stepped
  MaxTime         \* bound: the last instant of the gateway's clock

ASSUME TransportAssumption ==
  /\ RetryBudgets \subseteq Int
  /\ Skews \subseteq Int
  /\ Window \in Nat /\ SendDelay \in Nat /\ RecvDelay \in Nat
  /\ MaxAdrift \in Nat /\ MaxClockSteps \in Nat /\ MaxTime \in Nat

(* The clock correction is only good enough when both legs of an exchange  *)
(* and one second of rounding fit into the gateway's window.  With httpx's *)
(* 60 s per pool wait, connect, write and read: 300 >= 180 + 60 + 1.       *)
ASSUME WindowAssumption == Window >= SendDelay + RecvDelay + 1

VARIABLES
  retries,      \* self._retries, fixed when the client is built
  clockOffset,  \* self._clock_offset, shared by all calls
  pc,           \* where each call is
  attempt,      \* the loop's attempt counter
  corrected,    \* the loop's clock_corrected flag
  outcome,      \* what the call returned or raised
  sent,         \* requests this call has put on the wire
  wire,         \* the exchange the call is waiting for
  adrift,       \* requests of the call that were abandoned on their way
  executed,     \* times the gateway carried out the call's operation
  seen,         \* nonces the gateway remembers
  now,          \* the gateway's clock
  skew,         \* local clock minus gateway clock
  clockSteps,   \* steps of the local clock so far
  stepped       \* the local clock was stepped since the call's correction

clientVars  == <<retries, clockOffset, attempt, corrected, outcome, pc>>
gatewayVars == <<executed, seen>>
clockVars   == <<now, skew, clockSteps, stepped>>
vars == <<clientVars, sent, wire, adrift, gatewayVars, clockVars>>

(* What may come back: a 2xx that decodes, a 2xx that does not, a 502, 503 *)
(* or 504, any other 5xx ("failed": 500, 520..., which is_retryable turns  *)
(* down), a timestamp refusal with or without server_time, a nonce         *)
(* refusal, any other refusal, of a status below 500.                      *)
Unexecuted == {"OUT_OF_RANGE", "OUT_OF_RANGE_NO_TIME", "REPLAYED"}
Definitive == {"ok", "undecodable", "refused", "failed"}
Answers    == Unexecuted \cup Definitive \cup {"retryable"}
Outcomes   == Answers \cup {"none", "NETWORK_ERROR", "exhausted", "cancelled"}

Exchange == [ts : Int, nonce : Calls \X Nat, at : Nat, answer : Answers \cup {"none"}]

NoExchange(c) == [ts |-> 0, nonce |-> <<c, 0>>, at |-> 0, answer |-> "none"]

Attempts == retries + 1
Pending(c)  == pc[c] = "http" /\ wire[c].answer = "none"
Answered(c) == pc[c] = "http" /\ wire[c].answer # "none"

-----------------------------------------------------------------------------
(* The client.                                                             *)

(* int(self._clock()): the fractions of the two clocks may round the       *)
(* reading up to one second apart.                                         *)
LocalClock == {now + skew, now + skew + 1}

(* Mutation: the nonce is drawn once per call.                             *)
NoncePerCall(c) == <<c, 1>>
FreshNonce(c) == <<c, sent[c] + 1>>

(* Sign now with the given offset and hand the request to httpx.           *)
Send(c, offset) ==
  /\ \E reading \in LocalClock :
       wire' = [wire EXCEPT ![c] = [ts     |-> reading + offset,
                                    nonce  |-> FreshNonce(c),
                                    at     |-> now,
                                    answer |-> "none"]]
  /\ sent' = [sent EXCEPT ![c] = @ + 1]
  /\ pc' = [pc EXCEPT ![c] = "http"]
  /\ UNCHANGED outcome

Finish(c, what) ==
  /\ pc' = [pc EXCEPT ![c] = "done"]
  /\ wire' = [wire EXCEPT ![c] = NoExchange(c)]
  /\ outcome' = [outcome EXCEPT ![c] = what]

(* The first iteration, up to the first await.  With retries < 0 the loop  *)
(* body never runs.                                                        *)
Begin(c) ==
  /\ pc[c] = "idle"
  /\ IF 0 < Attempts
     THEN Send(c, clockOffset)
     ELSE Finish(c, "exhausted") /\ UNCHANGED sent
  /\ UNCHANGED <<retries, clockOffset, attempt, corrected, adrift, gatewayVars, clockVars>>

(* Mutation: one attempt more than the budget.                             *)
CountFailureOnceMore(c, err) ==
  /\ attempt' = [attempt EXCEPT ![c] = @ + 1]
  /\ IF attempt'[c] <= Attempts
     THEN /\ pc' = [pc EXCEPT ![c] = "backoff"]
          /\ wire' = [wire EXCEPT ![c] = NoExchange(c)]
          /\ UNCHANGED outcome
     ELSE Finish(c, err)
  /\ UNCHANGED <<retries, clockOffset, corrected, sent, gatewayVars, clockVars>>

(* A failure that counts: back off while the budget lasts, else raise it.  *)
CountFailure(c, err) ==
  /\ attempt' = [attempt EXCEPT ![c] = @ + 1]
  /\ IF attempt'[c] < Attempts
     THEN /\ pc' = [pc EXCEPT ![c] = "backoff"]
          /\ wire' = [wire EXCEPT ![c] = NoExchange(c)]
          /\ UNCHANGED outcome
     ELSE Finish(c, err)
  /\ UNCHANGED <<retries, clockOffset, corrected, sent, gatewayVars, clockVars>>

(* A request that nobody waits for any more is lost or still on its way.   *)
SetAdrift(c) ==
  /\ adrift[c] < MaxAdrift
  /\ adrift' = [adrift EXCEPT ![c] = @ + 1]

Abandon(c) == (Pending(c) /\ SetAdrift(c)) \/ UNCHANGED adrift

(* httpx raises HTTPError: the request or its answer is lost, or a timeout *)
(* wins the race against an answer that is already on its way.             *)
NetworkFailure(c) ==
  /\ pc[c] = "http"
  /\ Abandon(c)
  /\ CountFailure(c, "NETWORK_ERROR")

RetryLater(c) ==
  /\ Answered(c) /\ wire[c].answer = "retryable"
  /\ CountFailure(c, "retryable")
  /\ UNCHANGED adrift

(* Mutation: the loop compares with retries after the sleep.               *)
WakeBelowRetries(c) ==
  /\ pc[c] = "backoff" /\ attempt[c] < retries
  /\ Send(c, clockOffset)
  /\ UNCHANGED <<retries, clockOffset, attempt, corrected, adrift, gatewayVars, clockVars>>

Wake(c) ==
  /\ pc[c] = "backoff"
  /\ Send(c, clockOffset)
  /\ UNCHANGED <<retries, clockOffset, attempt, corrected, adrift, gatewayVars, clockVars>>

(* server_time minus the local clock, for every later signature of the     *)
(* client.  The refused request does not count as an attempt.              *)
(* Mutation of NewOffset: corrections add up.                              *)
AccumulatedOffset(serverTime, reading) == clockOffset + serverTime - reading
NewOffset(serverTime, reading) == serverTime - reading

(* Mutation: the resend uses the new offset, the client keeps the old one. *)
CorrectResendOnly(c) ==
  /\ Answered(c) /\ wire[c].answer = "OUT_OF_RANGE"
  /\ ~corrected[c]
  /\ \E reading \in LocalClock : Send(c, NewOffset(wire[c].at, reading))
  /\ corrected' = [corrected EXCEPT ![c] = TRUE]
  /\ UNCHANGED <<retries, clockOffset, attempt, adrift, gatewayVars, clockVars>>

(* Mutation: the attempt, not counted yet, is given back.                  *)
CorrectAndGiveBack(c) ==
  /\ Answered(c) /\ wire[c].answer = "OUT_OF_RANGE"
  /\ ~corrected[c]
  /\ \E reading \in LocalClock : clockOffset' = NewOffset(wire[c].at, reading)
  /\ corrected' = [corrected EXCEPT ![c] = TRUE]
  /\ attempt' = [attempt EXCEPT ![c] = @ - 1]
  /\ Send(c, clockOffset')
  /\ UNCHANGED <<retries, adrift, gatewayVars, clockVars>>

CorrectClock(c) ==
  /\ Answered(c) /\ wire[c].answer = "OUT_OF_RANGE"
  /\ ~corrected[c]
  /\ \E reading \in LocalClock : clockOffset' = NewOffset(wire[c].at, reading)
  /\ corrected' = [corrected EXCEPT ![c] = TRUE]
  /\ Send(c, clockOffset')
  /\ UNCHANGED <<retries, attempt, adrift, gatewayVars, clockVars>>

(* A 2xx ends the call, decoded or not; so does an error that is neither   *)
(* retryable nor a first timestamp refusal.                                *)
Settle(c) ==
  /\ Answered(c)
  /\ \/ wire[c].answer \in Definitive \cup {"REPLAYED", "OUT_OF_RANGE_NO_TIME"}
     \/ wire[c].answer = "OUT_OF_RANGE" /\ corrected[c]
  /\ Finish(c, wire[c].answer)
  /\ UNCHANGED <<retries, clockOffset, attempt, corrected, sent, adrift, gatewayVars, clockVars>>

(* The caller's task is cancelled in one of the two awaits.                *)
Cancel(c) ==
  /\ pc[c] \in {"backoff", "http"}
  /\ Abandon(c)
  /\ Finish(c, "cancelled")
  /\ UNCHANGED <<retries, clockOffset, attempt, corrected, sent, gatewayVars, clockVars>>

-----------------------------------------------------------------------------
(* The gateway: timestamp, then nonce, then the operation.  It is assumed  *)
(* to remember every nonce it reads, of refused requests too: the less     *)
(* forgiving choice.                                                       *)

InWindow(ts) == now - ts \in -Window..Window

Answer(c, what) ==
  /\ wire' = [wire EXCEPT ![c].answer = what, ![c].at = now]
  /\ UNCHANGED <<clientVars, sent, clockVars>>

Refusals(c) ==
  IF ~InWindow(wire[c].ts) THEN {"OUT_OF_RANGE", "OUT_OF_RANGE_NO_TIME"}
  ELSE IF wire[c].nonce \in seen THEN {"REPLAYED"}
  ELSE {}

Refuse(c) ==
  /\ Pending(c)
  /\ \E what \in Refusals(c) : Answer(c, what)
  /\ seen' = seen \cup {wire[c].nonce}
  /\ UNCHANGED <<adrift, executed>>

(* A 2xx follows an operation that was carried out, a status below 500 one *)
(* that was not; behind a 5xx, retryable or not, it may have been, may not *)
(* have been, or may still be.                                             *)
Serve(c) ==
  /\ Pending(c) /\ Refusals(c) = {}
  /\ seen' = seen \cup {wire[c].nonce}
  /\ \/ /\ \E what \in {"ok", "undecodable", "retryable", "failed"} : Answer(c, what)
        /\ executed' = [executed EXCEPT ![c] = @ + 1]
        /\ UNCHANGED adrift
     \/ /\ \E what \in {"refused", "retryable", "failed"} : Answer(c, what)
        /\ UNCHANGED <<adrift, executed>>
     \/ /\ \E what \in {"retryable", "failed"} : Answer(c, what)
        /\ SetAdrift(c)
        /\ UNCHANGED executed

(* An abandoned request arrives late.                                      *)
Land(c) ==
  /\ adrift[c] > 0
  /\ adrift' = [adrift EXCEPT ![c] = @ - 1]
  /\ executed' = [executed EXCEPT ![c] = @ + 1]
  /\ UNCHANGED <<clientVars, sent, wire, seen, clockVars>>

-----------------------------------------------------------------------------
(* The clocks.                                                             *)

(* Time passes, but never past the deadline of a leg in progress.          *)
Tick ==
  /\ now < MaxTime
  /\ \A c \in Calls :
       /\ Pending(c)  => now < wire[c].at + SendDelay
       /\ Answered(c) => now < wire[c].at + RecvDelay
  /\ now' = now + 1
  /\ UNCHANGED <<clientVars, sent, wire, adrift, gatewayVars, skew, clockSteps, stepped>>

(* The operating system steps the local clock (NTP, resume from sleep).    *)
StepLocalClock ==
  /\ clockSteps < MaxClockSteps
  /\ skew' \in Skews \ {skew}
  /\ clockSteps' = clockSteps + 1
  /\ stepped' = [c \in Calls |-> corrected[c] /\ (stepped[c] \/ pc[c] # "done")]
  /\ UNCHANGED <<clientVars, sent, wire, adrift, gatewayVars, now>>

-----------------------------------------------------------------------------
Init ==
  /\ retries \in RetryBudgets
  /\ clockOffset = 0
  /\ pc = [c \in Calls |-> "idle"]
  /\ attempt = [c \in Calls |-> 0]
  /\ corrected = [c \in Calls |-> FALSE]
  /\ outcome = [c \in Calls |-> "none"]
  /\ sent = [c \in Calls |-> 0]
  /\ wire = [c \in Calls |-> NoExchange(c)]
  /\ adrift = [c \in Calls |-> 0]
  /\ executed = [c \in Calls |-> 0]
  /\ seen = {}
  /\ now = 0
  /\ skew \in Skews
  /\ clockSteps = 0
  /\ stepped = [c \in Calls |-> FALSE]

Client(c)  == \/ Begin(c) \/ Wake(c) \/ NetworkFailure(c) \/ RetryLater(c)
              \/ CorrectClock(c) \/ Settle(c) \/ Cancel(c)
Gateway(c) == Refuse(c) \/ Serve(c) \/ Land(c)
Clocks     == Tick \/ StepLocalClock

Next == (\E c \in Calls : Client(c) \/ Gateway(c)) \/ Clocks

Spec == Init /\ [][Next]_vars

(* asyncio.sleep returns; httpx answers or times out; a handler, once its  *)
(* answer is in, runs.  The gateway and the caller owe nothing.            *)
Handle(c) == NetworkFailure(c) \/ RetryLater(c) \/ CorrectClock(c) \/ Settle(c)
FairSpec  == Spec /\ \A c \in Calls : WF_vars(Wake(c) \/ Handle(c))

-----------------------------------------------------------------------------
(* Properties.                                                             *)

(* Every variable has its type.                                            *)
TypeOK ==
  /\ retries \in RetryBudgets
  /\ clockOffset \in Int
  /\ pc \in [Calls -> {"idle", "backoff", "http", "done"}]
  /\ attempt \in [Calls -> Nat]
  /\ corrected \in [Calls -> BOOLEAN]
  /\ outcome \in [Calls -> Outcomes]
  /\ sent \in [Calls -> Nat]
  /\ wire \in [Calls -> Exchange]
  /\ adrift \in [Calls -> Nat]
  /\ executed \in [Calls -> Nat]
  /\ seen \subseteq Calls \X Nat
  /\ now \in Nat
  /\ skew \in Int
  /\ clockSteps \in 0..MaxClockSteps
  /\ stepped \in [Calls -> BOOLEAN]

(* The retry budget is neither overdrawn nor lost: a call that raises a    *)
(* retryable error has sent all its retries + 1 requests, plus exactly one *)
(* when its clock was corrected; no call ever sends more.                  *)
Correction(c) == IF corrected[c] THEN 1 ELSE 0
BudgetExact ==
  \A c \in Calls :
    /\ sent[c] > 0 => sent[c] <= Attempts + Correction(c)
    /\ outcome[c] \in {"NETWORK_ERROR", "retryable"} => sent[c] = Attempts + Correction(c)

(* A retry is never refused as a replay of the request it retries, though  *)
(* that request may have reached the gateway: each one has a fresh nonce.  *)
NoOwnReplay == \A c \in Calls : wire[c].answer # "REPLAYED"

(* "Corrects its clock offset and retries once" is enough: a call whose    *)
(* clock was corrected is refused for its timestamp again only if the      *)
(* local clock was stepped meanwhile, whatever the offset other calls      *)
(* installed between its correction and its later retries.                 *)
CorrectionHolds ==
  \A c \in Calls :
    corrected[c] /\ outcome[c] \in {"OUT_OF_RANGE", "OUT_OF_RANGE_NO_TIME"} => stepped[c]

(* The clock correction of one call serves all calls of the client: every  *)
(* request sent after it is in the gateway's window whenever it arrives,   *)
(* as long as the local clock was never stepped, or a call is under way    *)
(* that was corrected after the last step.                                 *)
Trusted(c) == corrected[c] /\ ~stepped[c] /\ pc[c] # "done"
OffsetHolds ==
  \E c \in Calls : Trusted(c) \/ (corrected[c] /\ clockSteps = 0)
CorrectionIsShared ==
  [][OffsetHolds =>
       \A c \in Calls : sent'[c] # sent[c] =>
         \A leg \in 0..SendDelay : now + leg - wire'[c].ts \in -Window..Window]_vars

(* How many more steps a call can make: each request and each sleep is     *)
(* one, and so is the correction that does not count as an attempt.        *)
StepsLeft(c) ==
  CASE pc[c] = "idle"    -> IF 0 < Attempts THEN 2 * Attempts + 1 ELSE 1
    [] pc[c] = "http"    -> 2 * (Attempts - attempt[c]) - Correction(c)
    [] pc[c] = "backoff" -> 2 * (Attempts - attempt[c]) + 1 - Correction(c)
    [] pc[c] = "done"    -> 0

(* The loop cannot run for ever: whatever is answered, each step of a call *)
(* uses up one of at most 2 * retries + 3, and no step of another call or  *)
(* of the environment gives one back.                                      *)
StepsRunOut ==
  [][\A c \in Calls :
       /\ StepsLeft(c)' \in 0..StepsLeft(c)
       /\ sent'[c] # sent[c] \/ pc'[c] # pc[c] => StepsLeft(c)' < StepsLeft(c)]_vars

(* An outcome as the caller of request tells them apart: by its exception, *)
(* and, among the errors, whether an attempt had failed before.  An error  *)
(* of status 500 or more is no refusal, the first attempt's included.      *)
Definite == {"refused", "REPLAYED", "OUT_OF_RANGE", "OUT_OF_RANGE_NO_TIME", "exhausted"}
Result(c) ==
  CASE outcome[c] = "none"        -> "pending"
    [] outcome[c] = "ok"          -> "result"
    [] outcome[c] = "undecodable" -> "undecodable"
    [] outcome[c] = "cancelled"   -> "cancelled"
    [] outcome[c] \in Definite /\ attempt[c] = 0 -> "refused"
    [] OTHER                      -> "error"

Contract == INSTANCE RequestContract
              WITH Budgets <- RetryBudgets, budget <- retries, effects <- executed,
                   result <- [c \in Calls |-> Result(c)]

(* request implements its contract: at most retries + 1 executions - the   *)
(* resend after a clock correction and requests given up on included - no  *)
(* result without an execution, and none ever after an error of a status   *)
(* below 500 that no failed attempt preceded.                              *)
ImplementsContract == Contract!CSpec

(* What keeps the properties above inductive, call by call.                *)

(* A request in the air belongs to the attempt being made, which is not    *)
(* counted yet.                                                            *)
BudgetInv(c) ==
  /\ pc[c] # "done" => outcome[c] = "none"
  /\ pc[c] = "idle" => attempt[c] = 0 /\ sent[c] = 0 /\ ~corrected[c]
  /\ pc[c] \in {"http", "backoff"} => attempt[c] < Attempts
  /\ pc[c] = "http" => sent[c] = attempt[c] + 1 + Correction(c)
  /\ pc[c] = "backoff" => sent[c] = attempt[c] + Correction(c)
  /\ sent[c] > 0 => sent[c] <= Attempts + Correction(c)
  /\ outcome[c] \in {"NETWORK_ERROR", "retryable"} => sent[c] = Attempts + Correction(c)

(* Executions, and requests that may still turn into one, are paid for by  *)
(* attempts; a refusal costs none, a 5xx costs the attempt it answers.     *)
Due(c)  == executed[c] + adrift[c] + (IF Pending(c) THEN 1 ELSE 0)
Paid(c) == attempt[c] + (IF pc[c] = "http" /\ wire[c].answer \notin Unexecuted \cup {"refused"} THEN 1 ELSE 0)
EffectInv(c) ==
  /\ IF pc[c] = "done" THEN Due(c) > 0 => Due(c) <= Attempts ELSE Due(c) <= Paid(c)
  /\ wire[c].answer \in {"ok", "undecodable"} => executed[c] > 0

(* A call that was refused before any attempt of it failed has never been  *)
(* carried out, and no request of it is on its way.                        *)
RefusalInv(c) == Result(c) = "refused" => Due(c) = 0

(* The gateway knows only nonces sent before, and not the one on its way.  *)
NonceInv(c) ==
  /\ wire[c].answer # "REPLAYED"
  /\ Pending(c) => wire[c].nonce = <<c, sent[c]>> /\ wire[c].nonce \notin seen
  /\ \A n \in seen : n[1] = c => n[2] <= sent[c]

(* A correction no clock step has spoilt leaves the signed timestamp at    *)
(* most RecvDelay + 1 behind and one second ahead of the gateway.          *)
ClockInv(c) ==
  /\ Pending(c) => now - wire[c].at \in 0..SendDelay
  /\ Answered(c) => now - wire[c].at \in 0..RecvDelay
  /\ Trusted(c) => skew + clockOffset \in -(RecvDelay + 1)..0
  /\ Trusted(c) /\ Pending(c) => wire[c].ts - wire[c].at \in -(RecvDelay + 1)..1
  /\ Trusted(c) => wire[c].answer \notin {"OUT_OF_RANGE", "OUT_OF_RANGE_NO_TIME"}
  /\ corrected[c] /\ outcome[c] \in {"OUT_OF_RANGE", "OUT_OF_RANGE_NO_TIME"} => stepped[c]

OffsetInv == OffsetHolds => skew + clockOffset \in -(RecvDelay + 1)..0

IInv ==
  /\ TypeOK
  /\ \A c \in Calls :
       BudgetInv(c) /\ EffectInv(c) /\ RefusalInv(c) /\ NonceInv(c) /\ ClockInv(c)
  /\ OffsetInv

(* Every call returns, raises or is cancelled: the one iteration that does *)
(* not count as an attempt cannot keep the loop going.  Again and again no *)
(* call is under way, and one that has begun is never idle again.          *)
CallsEnd == []<>(\A c \in Calls : pc[c] \in {"idle", "done"})
=============================================================================
