--------------------------- MODULE Transport_proofs ---------------------------
(* Proofs about Transport, for any set of calls, any retry budgets, any    *)
(* delays that fit the window and any local clock.                         *)
EXTENDS Transport, TLAPS

(* Each variable keeps its type.                                           *)
LEMMA TypeInit == Init => TypeOK
  BY TransportAssumption DEF Init, TypeOK, NoExchange, Exchange, Outcomes

(* A refusal says what the gateway found.                                  *)
LEMMA RefusalsTyped ==
  \A c \in Calls : \A what \in Refusals(c) :
    /\ what \in Unexecuted
    /\ IF what = "REPLAYED" THEN InWindow(wire[c].ts) /\ wire[c].nonce \in seen
                            ELSE ~InWindow(wire[c].ts)
  BY DEF Refusals, Unexecuted

LEMMA TypeNext == TypeOK /\ [Next]_vars => TypeOK'
<1> SUFFICES ASSUME TypeOK, [Next]_vars PROVE TypeOK'
  OBVIOUS
<1> USE TransportAssumption DEF TypeOK
<1>0. \A c \in Calls : NoExchange(c) \in Exchange
  BY DEF NoExchange, Exchange
<1>1. ASSUME NEW c \in Calls, NEW offset \in Int, Send(c, offset)
      PROVE /\ wire' \in [Calls -> Exchange] /\ sent' \in [Calls -> Nat]
            /\ pc' \in [Calls -> {"idle", "backoff", "http", "done"}]
            /\ outcome' \in [Calls -> Outcomes]
  <2>1. PICK reading \in LocalClock :
          wire' = [wire EXCEPT ![c] = [ts |-> reading + offset, nonce |-> FreshNonce(c),
                                       at |-> now, answer |-> "none"]]
    BY <1>1 DEF Send
  <2>2. [ts |-> reading + offset, nonce |-> FreshNonce(c), at |-> now, answer |-> "none"]
          \in Exchange
    BY DEF LocalClock, FreshNonce, Exchange
  <2>3. QED
    BY <1>1, <2>1, <2>2 DEF Send
<1>2. ASSUME NEW c \in Calls, NEW what \in Outcomes, Finish(c, what)
      PROVE /\ wire' \in [Calls -> Exchange]
            /\ pc' \in [Calls -> {"idle", "backoff", "http", "done"}]
            /\ outcome' \in [Calls -> Outcomes]
  BY <1>0, <1>2 DEF Finish
<1>3. ASSUME NEW c \in Calls, NEW err \in Outcomes, CountFailure(c, err)
      PROVE /\ attempt' \in [Calls -> Nat]
            /\ wire' \in [Calls -> Exchange]
            /\ pc' \in [Calls -> {"idle", "backoff", "http", "done"}]
            /\ outcome' \in [Calls -> Outcomes]
  BY <1>0, <1>2, <1>3 DEF CountFailure
<1>4. ASSUME NEW c \in Calls, Abandon(c)
      PROVE adrift' \in [Calls -> Nat]
  BY <1>4 DEF Abandon, SetAdrift
<1>5. ASSUME NEW c \in Calls, NEW what \in Answers, Answer(c, what)
      PROVE /\ wire' \in [Calls -> Exchange]
            /\ UNCHANGED <<clientVars, sent, clockVars>>
  <2>0. wire[c] \in Exchange /\ now \in Nat
    OBVIOUS
  <2>1. [wire[c] EXCEPT !.answer = what, !.at = now] \in Exchange
    BY ONLY <2>0, what \in Answers DEF Exchange
  <2>2. QED
    BY <1>5, <2>1 DEF Answer
<1>6. ASSUME NEW c \in Calls, Client(c) PROVE TypeOK'
  <2>1. CASE Begin(c)
    BY <1>1, <1>2, <2>1 DEF Begin, Outcomes, gatewayVars, clockVars
  <2>2. CASE Wake(c)
    BY <1>1, <2>2 DEF Wake, gatewayVars, clockVars
  <2>3. CASE NetworkFailure(c)
    BY <1>3, <1>4, <2>3 DEF NetworkFailure, CountFailure, Outcomes, gatewayVars, clockVars
  <2>4. CASE RetryLater(c)
    BY <1>3, <2>4 DEF RetryLater, CountFailure, Outcomes, Answers, gatewayVars, clockVars
  <2>5. CASE CorrectClock(c)
    <3>1. clockOffset' \in Int
      BY <2>5 DEF CorrectClock, NewOffset, LocalClock, Exchange
    <3>2. QED
      BY <1>1, <2>5, <3>1 DEF CorrectClock, gatewayVars, clockVars
  <2>6. CASE Settle(c)
    <3>1. wire[c].answer \in Outcomes
      BY DEF Exchange, Outcomes
    <3>2. QED
      BY <1>2, <2>6, <3>1 DEF Settle, gatewayVars, clockVars
  <2>7. CASE Cancel(c)
    BY <1>2, <1>4, <2>7 DEF Cancel, Outcomes, gatewayVars, clockVars
  <2>8. QED
    BY <1>6, <2>1, <2>2, <2>3, <2>4, <2>5, <2>6, <2>7 DEF Client
<1>7. ASSUME NEW c \in Calls, Gateway(c) PROVE TypeOK'
  <2>0. wire[c].nonce \in Calls \X Nat
    BY DEF Exchange
  <2>1. CASE Refuse(c)
    BY <1>5, <2>0, <2>1, RefusalsTyped DEF Refuse, Answers, Unexecuted, clientVars, clockVars
  <2>3. CASE Serve(c)
    BY <1>5, <2>0, <2>3 DEF Serve, SetAdrift, Answers, Definitive, clientVars, clockVars
  <2>4. CASE Land(c)
    BY <2>4 DEF Land, clientVars, clockVars
  <2>5. QED
    BY <1>7, <2>1, <2>3, <2>4 DEF Gateway
<1>8. CASE Tick
  BY <1>8 DEF Tick, clientVars, gatewayVars
<1>9. CASE StepLocalClock
  BY <1>9 DEF StepLocalClock, clientVars, gatewayVars
<1>10. CASE UNCHANGED vars
  BY <1>10 DEF vars, clientVars, gatewayVars, clockVars
<1>11. QED
  BY <1>6, <1>7, <1>8, <1>9, <1>10 DEF Next, Clocks

THEOREM TypeCorrect == Spec => []TypeOK
  BY TypeInit, TypeNext, PTL DEF Spec

(***************************************************************************)
(* The inductive invariant.  A step of the client or the gateway is about  *)
(* one call: the facts of the other calls only read variables it leaves    *)
(* alone for them, the shared clockOffset, seen and clocks apart.          *)
(***************************************************************************)
LEMMA InvInit == Init => IInv
<1> SUFFICES ASSUME Init, NEW c \in Calls
             PROVE BudgetInv(c) /\ EffectInv(c) /\ RefusalInv(c) /\ NonceInv(c) /\ ClockInv(c)
  BY TypeInit DEF Init, IInv, OffsetInv, OffsetHolds, Trusted
<1> USE DEF Init, NoExchange, Pending, Answered
<1>1. BudgetInv(c)
  BY DEF BudgetInv
<1>2. EffectInv(c)
  BY DEF EffectInv, Due, Paid
<1>r. RefusalInv(c)
  BY DEF RefusalInv, Result, Definite
<1>3. NonceInv(c)
  BY DEF NonceInv
<1>4. ClockInv(c)
  BY DEF ClockInv, Trusted
<1>5. QED
  BY <1>1, <1>2, <1>r, <1>3, <1>4

(* The retry budget, one action after the other.                           *)
LEMMA BudgetNext ==
  ASSUME TypeOK, TypeOK', [Next]_vars, NEW c \in Calls, BudgetInv(c)
  PROVE  BudgetInv(c)'
<1> USE TransportAssumption DEF TypeOK, BudgetInv, Correction, Attempts
<1>0. retries \in Int
  OBVIOUS
<1>1. ASSUME NEW d \in Calls, Client(d) PROVE BudgetInv(c)'
  <2>1. CASE Begin(d)
    BY <1>0, <2>1 DEF Begin, Send, Finish
  <2>2. CASE Wake(d)
    BY <1>0, <2>2 DEF Wake, Send
  <2>3. CASE NetworkFailure(d)
    BY <1>0, <2>3 DEF NetworkFailure, CountFailure, Finish
  <2>4. CASE RetryLater(d)
    BY <1>0, <2>4 DEF RetryLater, CountFailure, Finish, Answered
  <2>5. CASE CorrectClock(d)
    BY <1>0, <2>5 DEF CorrectClock, Send, Answered
  <2>6. CASE Settle(d)
    BY <1>0, <2>6 DEF Settle, Finish, Answered, Definitive
  <2>7. CASE Cancel(d)
    BY <1>0, <2>7 DEF Cancel, Finish
  <2>8. QED
    BY <1>1, <2>1, <2>2, <2>3, <2>4, <2>5, <2>6, <2>7 DEF Client
<1>2. CASE UNCHANGED <<clientVars, sent>>
  BY <1>2 DEF clientVars
<1>3. ASSUME NEW d \in Calls, Gateway(d) PROVE UNCHANGED <<clientVars, sent>>
  BY <1>3 DEF Gateway, Refuse, Serve, Land, Answer
<1>4. CASE Clocks
  BY <1>2, <1>4 DEF Clocks, Tick, StepLocalClock
<1>5. CASE UNCHANGED vars
  BY <1>2, <1>5 DEF vars
<1>6. QED
  BY <1>1, <1>2, <1>3, <1>4, <1>5 DEF Next

(* What the three ways of changing an exchange do to it.                   *)
LEMMA SendEffect ==
  ASSUME TypeOK, NEW d \in Calls, NEW offset \in Int, Send(d, offset)
  PROVE  /\ \A c \in Calls \ {d} : wire'[c] = wire[c] /\ pc'[c] = pc[c] /\ sent'[c] = sent[c]
         /\ pc'[d] = "http" /\ sent'[d] = sent[d] + 1
         /\ wire'[d].answer = "none" /\ wire'[d].at = now
         /\ wire'[d].nonce = <<d, sent[d] + 1>>
         /\ wire'[d].ts - (now + skew + offset) \in 0..1
         /\ outcome' = outcome
<1>1. PICK reading \in LocalClock :
        wire' = [wire EXCEPT ![d] = [ts |-> reading + offset, nonce |-> FreshNonce(d),
                                     at |-> now, answer |-> "none"]]
  BY DEF Send
<1>2. wire'[d] = [ts |-> reading + offset, nonce |-> FreshNonce(d), at |-> now, answer |-> "none"]
  BY <1>1 DEF TypeOK
<1>3. wire'[d].ts - (now + skew + offset) \in 0..1
  BY <1>2 DEF LocalClock, TypeOK
<1>4. QED
  BY <1>1, <1>2, <1>3 DEF Send, FreshNonce, TypeOK

LEMMA AnswerEffect ==
  ASSUME TypeOK, NEW d \in Calls, NEW what \in Answers, Answer(d, what)
  PROVE  /\ \A c \in Calls \ {d} : wire'[c] = wire[c]
         /\ wire'[d].answer = what /\ wire'[d].at = now
         /\ wire'[d].ts = wire[d].ts /\ wire'[d].nonce = wire[d].nonce
         /\ UNCHANGED <<clientVars, sent, clockVars>>
<1>1. wire[d] \in Exchange
  BY DEF TypeOK
<1>2. wire'[d] = [wire[d] EXCEPT !.answer = what, !.at = now]
  BY DEF Answer, TypeOK
<1>3. /\ wire'[d].answer = what /\ wire'[d].at = now
      /\ wire'[d].ts = wire[d].ts /\ wire'[d].nonce = wire[d].nonce
  BY <1>1, <1>2 DEF Exchange
<1>4. QED
  BY <1>3 DEF Answer, TypeOK

LEMMA FinishEffect ==
  ASSUME TypeOK, NEW d \in Calls, NEW what, Finish(d, what)
  PROVE  /\ \A c \in Calls \ {d} : /\ wire'[c] = wire[c] /\ pc'[c] = pc[c]
                                   /\ outcome'[c] = outcome[c]
         /\ pc'[d] = "done" /\ wire'[d] = NoExchange(d) /\ outcome'[d] = what
  BY DEF Finish, TypeOK

LEMMA FailureEffect ==
  ASSUME TypeOK, NEW d \in Calls, NEW err, CountFailure(d, err)
  PROVE  /\ \A c \in Calls \ {d} : /\ wire'[c] = wire[c] /\ pc'[c] = pc[c]
                                   /\ outcome'[c] = outcome[c] /\ attempt'[c] = attempt[c]
         /\ wire'[d] = NoExchange(d) /\ attempt'[d] = attempt[d] + 1
         /\ \/ pc'[d] = "backoff" /\ outcome'[d] = outcome[d]
            \/ pc'[d] = "done" /\ outcome'[d] = err /\ ~(attempt'[d] < Attempts)
  BY FinishEffect DEF CountFailure, TypeOK

(* Nonces: the gateway has seen none that is not sent yet.                 *)
LEMMA NonceNext ==
  ASSUME TypeOK, TypeOK', [Next]_vars, NEW c \in Calls,
         \A d \in Calls : NonceInv(d)
  PROVE  NonceInv(c)'
<1> USE TransportAssumption DEF NonceInv, Pending
<1>0. /\ sent \in [Calls -> Nat] /\ seen \subseteq Calls \X Nat /\ clockOffset' \in Int
      /\ clockOffset \in Int
  BY DEF TypeOK
<1>1. ASSUME NEW d \in Calls, Client(d) PROVE NonceInv(c)'
  <2>0. NoExchange(d).answer = "none"
    BY DEF NoExchange
  <2>a. ASSUME NEW offset \in Int, Send(d, offset), seen' = seen PROVE NonceInv(c)'
    <3>1. CASE c = d
      BY <1>0, <2>a, <3>1, SendEffect
    <3>2. CASE c # d
      BY <1>0, <2>a, <3>2, SendEffect
    <3>3. QED
      BY <3>1, <3>2
  <2>b. ASSUME NEW what, Finish(d, what), seen' = seen, sent' = sent PROVE NonceInv(c)'
    BY <1>0, <2>0, <2>b, FinishEffect
  <2>c. ASSUME NEW err, CountFailure(d, err) PROVE NonceInv(c)'
    <3>1. seen' = seen /\ sent' = sent
      BY <2>c DEF CountFailure, gatewayVars
    <3>2. QED
      BY <1>0, <2>0, <2>c, <3>1, FailureEffect
  <2>1. CASE Begin(d)
    BY <1>0, <2>1, <2>a, <2>b DEF Begin, gatewayVars
  <2>2. CASE Wake(d)
    BY <1>0, <2>2, <2>a DEF Wake, gatewayVars
  <2>3. CASE NetworkFailure(d)
    BY <2>3, <2>c DEF NetworkFailure
  <2>4. CASE RetryLater(d)
    BY <2>4, <2>c DEF RetryLater
  <2>5. CASE CorrectClock(d)
    BY <1>0, <2>5, <2>a DEF CorrectClock, gatewayVars
  <2>6. CASE Settle(d)
    BY <2>6, <2>b DEF Settle, gatewayVars
  <2>7. CASE Cancel(d)
    BY <2>7, <2>b DEF Cancel, gatewayVars
  <2>8. QED
    BY <1>1, <2>1, <2>2, <2>3, <2>4, <2>5, <2>6, <2>7 DEF Client
<1>2. ASSUME NEW d \in Calls, Gateway(d) PROVE NonceInv(c)'
  <2>1. ASSUME NEW what \in Answers, what # "REPLAYED", Pending(d), Answer(d, what),
               seen' = seen \cup {wire[d].nonce}
        PROVE  NonceInv(c)'
    <3>1. UNCHANGED <<pc, sent>> /\ wire[d].nonce = <<d, sent[d]>>
      BY <2>1, AnswerEffect DEF clientVars
    <3>2. CASE c = d
      BY <1>0, <2>1, <3>1, <3>2, AnswerEffect DEF Answers, Unexecuted, Definitive
    <3>3. CASE c # d
      BY <1>0, <2>1, <3>1, <3>3, AnswerEffect
    <3>4. QED
      BY <3>2, <3>3
  <2>2. CASE Refuse(d)
    BY <2>1, <2>2, RefusalsTyped DEF Refuse, Answers, Unexecuted
  <2>4. CASE Serve(d)
    BY <2>1, <2>4 DEF Serve, Answers, Definitive
  <2>5. CASE Land(d)
    BY <2>5 DEF Land, clientVars
  <2>6. QED
    BY <1>2, <2>2, <2>4, <2>5 DEF Gateway
<1>3. CASE UNCHANGED <<clientVars, sent, wire, seen>>
  BY <1>3 DEF clientVars
<1>4. CASE Clocks
  BY <1>3, <1>4 DEF Clocks, Tick, StepLocalClock, gatewayVars
<1>5. CASE UNCHANGED vars
  BY <1>3, <1>5 DEF vars, gatewayVars
<1>6. QED
  BY <1>1, <1>2, <1>4, <1>5 DEF Next

(* Executions never outrun the attempts that pay for them.                 *)
LEMMA EffectNext ==
  ASSUME TypeOK, TypeOK', [Next]_vars, NEW c \in Calls, BudgetInv(c), EffectInv(c)
  PROVE  EffectInv(c)'
<1> USE TransportAssumption DEF EffectInv, Due, Paid, Pending, Attempts
<1>0. /\ retries \in Int /\ retries' \in Int
      /\ attempt \in [Calls -> Nat] /\ executed \in [Calls -> Nat]
      /\ adrift \in [Calls -> Nat] /\ clockOffset \in Int /\ clockOffset' \in Int
      /\ attempt' \in [Calls -> Nat] /\ adrift' \in [Calls -> Nat]
      /\ executed' \in [Calls -> Nat]
  BY DEF TypeOK
<1>n. \A d \in Calls : NoExchange(d).answer = "none"
  BY DEF NoExchange
<1>1. ASSUME NEW d \in Calls, Client(d), c = d PROVE EffectInv(c)'
  <2>1. CASE Begin(d)
    BY <1>0, <1>n, <1>1, <2>1, SendEffect, FinishEffect
       DEF Begin, BudgetInv, gatewayVars, Unexecuted
  <2>2. CASE Wake(d)
    BY <1>0, <1>1, <2>2, SendEffect DEF Wake, gatewayVars, Unexecuted
  <2>3. CASE NetworkFailure(d)
    <3>1. executed' = executed /\ retries' = retries
      BY <2>3 DEF NetworkFailure, CountFailure, gatewayVars
    <3>2. adrift'[d] \in {adrift[d], adrift[d] + IF Pending(d) THEN 1 ELSE 0}
      BY <1>0, <2>3 DEF NetworkFailure, Abandon, SetAdrift
    <3>3. Due(d)' <= Due(d) /\ attempt[d] < Attempts
      BY <1>0, <1>n, <1>1, <2>3, <3>1, <3>2, FailureEffect
         DEF NetworkFailure, BudgetInv
    <3>4. QED
      BY <1>0, <1>n, <1>1, <2>3, <3>1, <3>3, FailureEffect DEF NetworkFailure
  <2>4. CASE RetryLater(d)
    <3>1. executed' = executed /\ retries' = retries /\ adrift' = adrift
      BY <2>4 DEF RetryLater, CountFailure, gatewayVars
    <3>2. QED
      BY <1>0, <1>n, <1>1, <2>4, <3>1, FailureEffect DEF RetryLater, Answered, BudgetInv
  <2>5. CASE CorrectClock(d)
    BY <1>0, <1>1, <2>5, SendEffect DEF CorrectClock, Answered, gatewayVars, Unexecuted
  <2>6. CASE Settle(d)
    BY <1>0, <1>n, <1>1, <2>6, FinishEffect DEF Settle, Answered, gatewayVars, BudgetInv
  <2>7. CASE Cancel(d)
    <3>1. executed' = executed /\ retries' = retries
      BY <2>7 DEF Cancel, gatewayVars
    <3>2. adrift'[d] \in {adrift[d], adrift[d] + IF Pending(d) THEN 1 ELSE 0}
      BY <1>0, <2>7 DEF Cancel, Abandon, SetAdrift
    <3>3. Due(d)' <= Due(d) /\ attempt[d] < Attempts
      BY <1>0, <1>n, <1>1, <2>7, <3>1, <3>2, FinishEffect DEF Cancel, BudgetInv
    <3>4. QED
      BY <1>0, <1>n, <1>1, <2>7, <3>1, <3>3, FinishEffect DEF Cancel
  <2>8. QED
    BY <1>1, <2>1, <2>2, <2>3, <2>4, <2>5, <2>6, <2>7 DEF Client
<1>2. ASSUME NEW d \in Calls, Client(d), c # d PROVE EffectInv(c)'
  <2> DEFINE Untouched == /\ retries' = retries /\ executed' = executed
                          /\ adrift'[c] = adrift[c] /\ attempt'[c] = attempt[c]
                          /\ pc'[c] = pc[c] /\ wire'[c] = wire[c]
  <2>1. CASE Begin(d) \/ Wake(d) \/ CorrectClock(d)
    <3>1. \/ \E offset \in Int : Send(d, offset)
          \/ Finish(d, "exhausted")
      BY <1>0, <2>1 DEF Begin, Wake, CorrectClock
    <3>2. pc'[c] = pc[c] /\ wire'[c] = wire[c]
      BY <1>2, <3>1, SendEffect, FinishEffect
    <3>3. Untouched
      BY <2>1, <3>2 DEF Begin, Wake, CorrectClock, gatewayVars
    <3>4. QED
      BY <3>3
  <2>2. CASE NetworkFailure(d) \/ RetryLater(d)
    <3>1. \E err : CountFailure(d, err)
      BY <2>2 DEF NetworkFailure, RetryLater
    <3>2. pc'[c] = pc[c] /\ wire'[c] = wire[c] /\ attempt'[c] = attempt[c]
      BY <1>2, <3>1, FailureEffect
    <3>3. retries' = retries /\ executed' = executed
      BY <3>1 DEF CountFailure, gatewayVars
    <3>4. adrift'[c] = adrift[c]
      BY <1>0, <1>2, <2>2 DEF NetworkFailure, RetryLater, Abandon, SetAdrift
    <3>5. QED
      BY <3>2, <3>3, <3>4
  <2>3. CASE Settle(d) \/ Cancel(d)
    <3>1. \E what : Finish(d, what)
      BY <2>3 DEF Settle, Cancel
    <3>2. pc'[c] = pc[c] /\ wire'[c] = wire[c]
      BY <1>2, <3>1, FinishEffect
    <3>3. retries' = retries /\ executed' = executed /\ attempt' = attempt
      BY <2>3 DEF Settle, Cancel, gatewayVars
    <3>4. adrift'[c] = adrift[c]
      BY <1>0, <1>2, <2>3 DEF Settle, Cancel, Abandon, SetAdrift
    <3>5. QED
      BY <3>2, <3>3, <3>4
  <2>4. QED
    BY <1>2, <2>1, <2>2, <2>3 DEF Client
<1>3. ASSUME NEW d \in Calls, Gateway(d) PROVE EffectInv(c)'
  <2>1. UNCHANGED clientVars
    BY <1>3 DEF Gateway, Refuse, Serve, Land, Answer
  <2>2. CASE Refuse(d)
    BY <1>0, <2>1, <2>2, AnswerEffect, RefusalsTyped DEF Refuse, clientVars, Answers, Unexecuted
  <2>4. CASE Serve(d)
    <3>1. PICK what \in Definitive \cup {"retryable"} :
            /\ Answer(d, what)
            /\ \/ /\ executed' = [executed EXCEPT ![d] = @ + 1] /\ adrift' = adrift
                  /\ what # "refused"
               \/ executed' = executed /\ adrift' = adrift /\ what \notin {"ok", "undecodable"}
               \/ /\ executed' = executed /\ adrift' = [adrift EXCEPT ![d] = @ + 1]
                  /\ what \in {"retryable", "failed"}
      BY <2>4 DEF Serve, SetAdrift, Definitive
    <3>2. what \in Answers /\ what # "none" /\ what \notin Unexecuted
      BY DEF Definitive, Answers, Unexecuted
    <3>3. Pending(d)
      BY <2>4 DEF Serve
    <3>4. CASE c = d
      <4>1. /\ wire'[c].answer = what /\ pc' = pc /\ attempt' = attempt /\ retries' = retries
            /\ pc[c] = "http" /\ wire[c].answer = "none"
        BY <2>1, <3>1, <3>2, <3>3, <3>4, AnswerEffect DEF clientVars
      <4>2. executed[c] + adrift[c] <= attempt[c]
        BY <1>0, <4>1 DEF Unexecuted
      <4>3. executed'[c] + adrift'[c] <= attempt[c] + 1
        BY <1>0, <3>1, <3>4, <4>2
      <4>4. what = "refused" => executed'[c] + adrift'[c] <= attempt[c]
        BY <1>0, <3>1, <3>4, <4>2
      <4>5. what \in {"ok", "undecodable"} => executed'[c] > 0
        BY <1>0, <3>1, <3>4
      <4>6. Due(c)' = executed'[c] + adrift'[c]
        BY <1>0, <3>2, <4>1
      <4>7. Paid(c)' = attempt[c] + (IF what = "refused" THEN 0 ELSE 1)
        BY <3>2, <4>1
      <4>8. Due(c)' <= Paid(c)'
        BY <1>0, <4>3, <4>4, <4>6, <4>7
      <4>9. QED
        BY <4>1, <4>5, <4>8
    <3>5. CASE c # d
      BY <1>0, <2>1, <3>1, <3>2, <3>5, AnswerEffect DEF clientVars
    <3>6. QED
      BY <3>4, <3>5
  <2>5. CASE Land(d)
    BY <1>0, <2>1, <2>5 DEF Land, clientVars
  <2>6. QED
    BY <1>3, <2>2, <2>4, <2>5 DEF Gateway
<1>4. CASE UNCHANGED <<clientVars, wire, adrift, executed>>
  BY <1>4 DEF clientVars
<1>5. CASE Clocks
  BY <1>4, <1>5 DEF Clocks, Tick, StepLocalClock, gatewayVars
<1>6. CASE UNCHANGED vars
  BY <1>4, <1>6 DEF vars, gatewayVars
<1>7. QED
  BY <1>1, <1>2, <1>3, <1>5, <1>6 DEF Next

(* A refusal is final: a call ends refused with no attempt counted, so     *)
(* nothing was paid for, and no step makes anything due to it afterwards.  *)
LEMMA RefusalNext ==
  ASSUME TypeOK, TypeOK', [Next]_vars, NEW c \in Calls,
         BudgetInv(c), EffectInv(c), RefusalInv(c)
  PROVE  RefusalInv(c)'
<1> USE TransportAssumption DEF Due, Pending
<1>0. /\ attempt \in [Calls -> Nat] /\ executed \in [Calls -> Nat]
      /\ adrift \in [Calls -> Nat] /\ outcome \in [Calls -> Outcomes]
      /\ pc \in [Calls -> {"idle", "backoff", "http", "done"}]
  BY DEF TypeOK
<1>1. Result(c) = "refused" <=> outcome[c] \in Definite /\ attempt[c] = 0
  BY DEF Result, Definite
<1>2. Result(c)' = "refused" <=> outcome'[c] \in Definite /\ attempt'[c] = 0
  BY DEF Result, Definite
<1>3. Result(c) = "refused" => pc[c] = "done" /\ executed[c] = 0 /\ adrift[c] = 0
  BY <1>0, <1>1 DEF BudgetInv, RefusalInv, Definite
<1>n. NoExchange(c).answer = "none"
  BY DEF NoExchange
<1>4. CASE Result(c) = "refused"
  <2>1. pc[c] = "done" /\ executed[c] = 0 /\ adrift[c] = 0
    BY <1>3, <1>4
  <2>2. pc'[c] = "done" /\ executed'[c] = 0 /\ adrift'[c] = 0
    <3>1. ASSUME NEW d \in Calls, Client(d)
          PROVE  pc'[c] = "done" /\ executed'[c] = 0 /\ adrift'[c] = 0
      <4>1. c # d
        BY <2>1, <3>1 DEF Client, Begin, Wake, NetworkFailure, RetryLater, CorrectClock, Settle,
                          Cancel, Answered
      <4>2. pc'[c] = pc[c]
        BY <1>0, <3>1, <4>1
           DEF Client, Begin, Wake, NetworkFailure, RetryLater, CorrectClock, Settle, Cancel,
               Send, Finish, CountFailure
      <4>3. executed'[c] = executed[c] /\ adrift'[c] = adrift[c]
        BY <1>0, <3>1, <4>1
           DEF Client, Begin, Wake, NetworkFailure, RetryLater, CorrectClock, Settle, Cancel,
               CountFailure, Abandon, SetAdrift, gatewayVars
      <4>4. QED
        BY <2>1, <4>2, <4>3
    <3>2. ASSUME NEW d \in Calls, Gateway(d)
          PROVE  pc'[c] = "done" /\ executed'[c] = 0 /\ adrift'[c] = 0
      <4>1. pc' = pc /\ (Refuse(d) \/ Serve(d) => c # d)
        BY <2>1, <3>2 DEF Gateway, Refuse, Serve, Land, Answer, clientVars
      <4>2. QED
        BY <1>0, <2>1, <3>2, <4>1 DEF Gateway, Refuse, Serve, Land, SetAdrift
    <3>3. CASE Clocks \/ UNCHANGED vars
      BY <2>1, <3>3 DEF Clocks, Tick, StepLocalClock, vars, clientVars, gatewayVars
    <3>4. QED
      BY <3>1, <3>2, <3>3 DEF Next
  <2>3. QED
    BY <2>2 DEF RefusalInv
<1>5. CASE Result(c) # "refused" /\ Result(c)' = "refused"
  <2>1. ASSUME NEW d \in Calls, Client(d)
        PROVE  (c = d) /\ (Begin(c) \/ Settle(c))
    <3>1. CASE Begin(d)
      BY <1>0, <1>1, <1>2, <1>5, <3>1 DEF Begin, Send, Finish
    <3>2. CASE Wake(d) \/ CorrectClock(d)
      BY <1>0, <1>1, <1>2, <1>5, <3>2 DEF Wake, CorrectClock, Send
    <3>3. CASE NetworkFailure(d) \/ RetryLater(d)
      BY <1>0, <1>1, <1>2, <1>5, <3>3 DEF NetworkFailure, RetryLater, CountFailure, Finish, Definite
    <3>4. CASE Settle(d)
      BY <1>0, <1>1, <1>2, <1>5, <3>4 DEF Settle, Finish
    <3>5. CASE Cancel(d)
      BY <1>0, <1>1, <1>2, <1>5, <3>5 DEF Cancel, Finish, Definite
    <3>6. QED
      BY <2>1, <3>1, <3>2, <3>3, <3>4, <3>5 DEF Client
  <2>2. ~((\E d \in Calls : Gateway(d)) \/ Clocks \/ UNCHANGED vars)
    BY <1>1, <1>2, <1>5 DEF Gateway, Clocks, Refuse, Serve, Land, Answer, Tick, StepLocalClock, vars, clientVars
  <2>3. Begin(c) \/ Settle(c)
    BY <2>1, <2>2 DEF Next
  <2>4. /\ executed' = executed /\ adrift' = adrift /\ attempt' = attempt
        /\ attempt[c] = 0
    BY <1>2, <1>5, <2>3 DEF Begin, Settle, gatewayVars
  <2>5. pc'[c] # "http" \/ Begin(c)
    BY <1>0, <2>3 DEF Settle, Finish
  <2>6. CASE Settle(c)
    <3>1. outcome'[c] = wire[c].answer /\ pc'[c] = "done"
      BY <1>0, <2>6 DEF Settle, Finish
    <3>2. wire[c].answer \in Definite \ {"exhausted"}
      BY <1>2, <1>5, <2>6, <3>1 DEF Settle, Definitive, Definite
    <3>3. wire[c].answer \in Unexecuted \cup {"refused"} /\ wire[c].answer # "none"
      BY <3>2 DEF Definite, Unexecuted
    <3>4. executed[c] = 0 /\ adrift[c] = 0
      BY <1>0, <2>4, <2>6, <3>3 DEF Settle, Answered, EffectInv, Paid
    <3>5. QED
      BY <2>4, <3>1, <3>4 DEF RefusalInv
  <2>7. CASE Begin(c)
    <3>1. executed[c] = 0 /\ adrift[c] = 0
      BY <1>0, <2>4, <2>7 DEF Begin, EffectInv, Paid
    <3>2. pc'[c] = "done"
      BY <1>0, <1>1, <1>2, <1>5, <2>7 DEF Begin, Send, Finish
    <3>3. QED
      BY <2>4, <3>1, <3>2 DEF RefusalInv
  <2>8. QED
    BY <2>3, <2>6, <2>7
<1>6. QED
  BY <1>4, <1>5 DEF RefusalInv

(* A request signed with an offset that is off by at most r + 1, and with  *)
(* a reading rounded by at most 1, as arithmetic.                          *)
LEMMA LagBound ==
  ASSUME NEW ts \in Int, NEW sum \in Int, NEW at \in Int, NEW off \in Int, NEW r \in Nat,
         ts - (at + sum + off) \in 0..1, sum + off \in -(r + 1)..0
  PROVE  ts - at \in -(r + 1)..1
  OBVIOUS

(* The offset that a correction leaves to the client is good to within     *)
(* RecvDelay + 1 at that moment.                                           *)
LEMMA FreshOffset ==
  ASSUME TypeOK, NEW d \in Calls, ClockInv(d), CorrectClock(d)
  PROVE  skew + clockOffset' \in -(RecvDelay + 1)..0
<1>0. /\ now \in Nat /\ skew \in Int /\ RecvDelay \in Nat /\ wire[d].at \in Nat
  BY TransportAssumption DEF TypeOK, Exchange
<1>1. now - wire[d].at \in 0..RecvDelay
  BY DEF CorrectClock, ClockInv
<1>2. PICK reading \in LocalClock : clockOffset' = wire[d].at - reading
  BY DEF CorrectClock, NewOffset
<1>3. reading - (now + skew) \in 0..1 /\ reading \in Int
  BY <1>0 DEF LocalClock
<1>4. QED
  BY <1>0, <1>1, <1>2, <1>3

(* The clock.  A correction is good to within RecvDelay + 1 whoever makes  *)
(* it, so a trusted call may sign with the offset of any later one.        *)
LEMMA ClockNext ==
  ASSUME TypeOK, TypeOK', [Next]_vars, NEW c \in Calls,
         BudgetInv(c), \A d \in Calls : ClockInv(d)
  PROVE  ClockInv(c)'
<1> USE TransportAssumption, WindowAssumption DEF ClockInv, Pending, Answered, Trusted
<1>0. /\ now \in Nat /\ now' \in Nat /\ skew \in Int /\ skew' \in Int
      /\ clockOffset \in Int /\ clockOffset' \in Int
      /\ \A d \in Calls : wire[d].at \in Nat /\ wire[d].ts \in Int
      /\ \A d \in Calls : wire'[d].at \in Nat /\ wire'[d].ts \in Int
      /\ corrected \in [Calls -> BOOLEAN]
  BY DEF TypeOK, Exchange
<1>n. \A d \in Calls : NoExchange(d).answer = "none"
  BY DEF NoExchange
<1>1. ASSUME NEW d \in Calls, Client(d) PROVE ClockInv(c)'
  <2> DEFINE Steady == /\ clockOffset' = clockOffset /\ corrected' = corrected
                       /\ now' = now /\ skew' = skew /\ stepped' = stepped
  <2>a. ASSUME NEW what, Finish(d, what), Steady,
               corrected[d] /\ what \in {"OUT_OF_RANGE", "OUT_OF_RANGE_NO_TIME"} => stepped[d]
        PROVE  ClockInv(c)'
    BY <1>0, <1>n, <2>a, FinishEffect
  <2>b. ASSUME Send(d, clockOffset), pc[d] # "done", Steady PROVE ClockInv(c)'
    <3>1. CASE c = d
      BY <1>0, <2>b, <3>1, SendEffect
    <3>2. CASE c # d
      BY <1>0, <2>b, <3>2, SendEffect
    <3>3. QED
      BY <3>1, <3>2
  <2>c. ASSUME NEW err, CountFailure(d, err), pc[d] # "done",
               err \notin {"OUT_OF_RANGE", "OUT_OF_RANGE_NO_TIME"}
        PROVE  ClockInv(c)'
    <3>1. Steady
      BY <2>c DEF CountFailure, clockVars
    <3>2. QED
      BY <1>0, <1>n, <2>c, <3>1, FailureEffect
  <2>1. CASE Begin(d)
    BY <2>1, <2>a, <2>b DEF Begin, clockVars
  <2>2. CASE Wake(d)
    BY <2>2, <2>b DEF Wake, clockVars
  <2>3. CASE NetworkFailure(d)
    BY <2>3, <2>c DEF NetworkFailure
  <2>4. CASE RetryLater(d)
    BY <2>4, <2>c DEF RetryLater
  <2>5. CASE CorrectClock(d)
    <3>1. /\ Send(d, clockOffset') /\ now' = now /\ skew' = skew /\ stepped' = stepped
          /\ Answered(d)
          /\ corrected' = [corrected EXCEPT ![d] = TRUE]
      BY <2>5 DEF CorrectClock, clockVars
    <3>2. skew + clockOffset' \in -(RecvDelay + 1)..0
      BY <2>5, FreshOffset
    <3>3. CASE c = d
      <4>1. /\ pc'[c] = "http" /\ wire'[c].answer = "none" /\ wire'[c].at = now
            /\ wire'[c].ts - (now + skew + clockOffset') \in 0..1
            /\ outcome'[c] = "none"
        BY <1>0, <3>1, <3>3, SendEffect DEF BudgetInv
      <4>2. wire'[c].ts - wire'[c].at \in -(RecvDelay + 1)..1
        <5>1. /\ wire'[c].ts \in Int /\ clockOffset' \in Int /\ skew \in Int /\ now \in Int
              /\ RecvDelay \in Nat
          BY <1>0
        <5>2. wire'[c].ts - now \in -(RecvDelay + 1)..1
          BY <3>2, <4>1, <5>1, LagBound, Zenon
        <5>3. QED
          BY <4>1, <5>2, Zenon
      <4>3. now' - wire'[c].at \in 0..SendDelay
        BY <1>0, <3>1, <4>1
      <4>4. QED
        BY <3>1, <3>2, <4>1, <4>2, <4>3
    <3>4. CASE c # d
      BY <1>0, <3>1, <3>2, <3>4, SendEffect
    <3>5. QED
      BY <3>3, <3>4
  <2>6. CASE Settle(d)
    BY <1>0, <2>6, <2>a DEF Settle, clockVars
  <2>7. CASE Cancel(d)
    BY <2>7, <2>a DEF Cancel, clockVars
  <2>8. QED
    BY <1>1, <2>1, <2>2, <2>3, <2>4, <2>5, <2>6, <2>7 DEF Client
<1>2. ASSUME NEW d \in Calls, Gateway(d) PROVE ClockInv(c)'
  <2>1. ASSUME NEW what \in Answers, Pending(d), Answer(d, what),
               what \in {"OUT_OF_RANGE", "OUT_OF_RANGE_NO_TIME"} => ~InWindow(wire[d].ts)
        PROVE  ClockInv(c)'
    <3>1. UNCHANGED <<pc, corrected, clockOffset, outcome, now, skew, stepped>>
      BY <2>1, AnswerEffect DEF clientVars, clockVars
    <3>2. what # "none"
      BY DEF Answers, Unexecuted, Definitive
    <3>3. Trusted(d) => InWindow(wire[d].ts)
      BY <1>0, <2>1 DEF InWindow
    <3>4. CASE c = d
      BY <1>0, <2>1, <3>1, <3>2, <3>3, <3>4, AnswerEffect
    <3>5. CASE c # d
      BY <1>0, <2>1, <3>1, <3>5, AnswerEffect
    <3>6. QED
      BY <3>4, <3>5
  <2>2. CASE Refuse(d)
    BY <2>1, <2>2, RefusalsTyped DEF Refuse, Answers, Unexecuted
  <2>4. CASE Serve(d)
    BY <2>1, <2>4 DEF Serve, Answers, Definitive
  <2>5. CASE Land(d)
    BY <2>5 DEF Land, clientVars, clockVars
  <2>6. QED
    BY <1>2, <2>2, <2>4, <2>5 DEF Gateway
<1>3. CASE Tick
  BY <1>0, <1>3 DEF Tick, clientVars
<1>4. CASE StepLocalClock
  BY <1>0, <1>4 DEF StepLocalClock, clientVars
<1>5. CASE UNCHANGED vars
  BY <1>5 DEF vars, clientVars, clockVars
<1>6. QED
  BY <1>1, <1>2, <1>3, <1>4, <1>5 DEF Next, Clocks

(* That offset stays good until the local clock is stepped.                *)
LEMMA OffsetNext ==
  ASSUME TypeOK, TypeOK', [Next]_vars,
         \A c \in Calls : BudgetInv(c) /\ ClockInv(c), OffsetInv
  PROVE  OffsetInv'
<1> USE DEF OffsetInv, OffsetHolds, Trusted
<1>0. /\ now \in Nat /\ skew \in Int /\ clockOffset \in Int /\ RecvDelay \in Nat
      /\ corrected \in [Calls -> BOOLEAN] /\ stepped \in [Calls -> BOOLEAN]
      /\ pc \in [Calls -> {"idle", "backoff", "http", "done"}]
      /\ clockSteps \in Nat /\ \A d \in Calls : wire[d].at \in Nat
  BY TransportAssumption DEF TypeOK, Exchange
<1>1. ASSUME NEW d \in Calls, CorrectClock(d) PROVE OffsetInv'
  BY <1>1, FreshOffset DEF CorrectClock, clockVars
<1>2. ASSUME NEW d \in Calls, Client(d), ~CorrectClock(d) PROVE OffsetInv'
  <2>1. UNCHANGED <<clockOffset, corrected, skew, clockSteps, stepped>>
    BY <1>2 DEF Client, Begin, Wake, NetworkFailure, RetryLater, Settle, Cancel, CountFailure, clockVars
  <2>2. \A c \in Calls : pc[c] = "done" => pc'[c] = "done"
    BY <1>0, <1>2 DEF Client, Begin, Wake, NetworkFailure, RetryLater, Settle, Cancel, CountFailure,
                      Send, Finish, Answered
  <2>3. QED
    BY <2>1, <2>2
<1>3. CASE UNCHANGED <<clockOffset, corrected, pc, skew, clockSteps, stepped>>
  BY <1>3
<1>4. ASSUME NEW d \in Calls, Gateway(d) PROVE OffsetInv'
  BY <1>3, <1>4 DEF Gateway, Refuse, Serve, Land, Answer, clientVars, clockVars
<1>5. CASE StepLocalClock
  <2>1. clockSteps' # 0 /\ corrected' = corrected /\ pc' = pc
    BY <1>0, <1>5 DEF StepLocalClock, clientVars
  <2>2. \A c \in Calls : corrected[c] /\ pc[c] # "done" => stepped'[c]
    BY <1>5 DEF StepLocalClock
  <2>3. QED
    BY <2>1, <2>2
<1>6. CASE Tick \/ UNCHANGED vars
  BY <1>3, <1>6 DEF Tick, vars, clientVars, clockVars
<1>7. QED
  BY <1>1, <1>2, <1>4, <1>5, <1>6 DEF Next, Clocks

(* The inductive invariant holds in every reachable state.                 *)
LEMMA InvNext == TypeOK' /\ IInv /\ [Next]_vars => IInv'
  BY BudgetNext, EffectNext, RefusalNext, NonceNext, ClockNext, OffsetNext DEF IInv

THEOREM InvCorrect == Spec => []IInv
<1>1. IInv /\ [Next]_vars => IInv'
  BY InvNext, TypeNext DEF IInv
<1>2. QED
  BY InvInit, <1>1, PTL DEF Spec

(* The retry budget is neither overdrawn nor lost to a clock correction.   *)
THEOREM BudgetCorrect == Spec => []BudgetExact
<1>1. ASSUME IInv PROVE BudgetExact
  <2>1. \A c \in Calls : BudgetInv(c)
    BY <1>1 DEF IInv
  <2>2. QED
    BY <2>1 DEF BudgetInv, BudgetExact
<1>2. QED
  BY <1>1, InvCorrect, PTL

(* No request of the client is refused as a replay.                        *)
THEOREM NonceCorrect == Spec => []NoOwnReplay
<1>1. ASSUME IInv PROVE NoOwnReplay
  <2>1. \A c \in Calls : NonceInv(c)
    BY <1>1 DEF IInv
  <2>2. QED
    BY <2>1 DEF NonceInv, NoOwnReplay
<1>2. QED
  BY <1>1, InvCorrect, PTL

(* One clock correction per call is enough while the local clock runs      *)
(* steadily, for every window of at least SendDelay + RecvDelay + 1.       *)
THEOREM CorrectionCorrect == Spec => []CorrectionHolds
<1>1. ASSUME IInv PROVE CorrectionHolds
  <2>1. \A c \in Calls : ClockInv(c)
    BY <1>1 DEF IInv
  <2>2. QED
    BY <2>1 DEF ClockInv, CorrectionHolds
<1>2. QED
  BY <1>1, InvCorrect, PTL

(* A correction serves every call of the client, for every window of at    *)
(* least SendDelay + RecvDelay + 1: whoever signs next, first request or   *)
(* retry, signs with an offset that OffsetInv bounds.                      *)
THEOREM SharedCorrect == Spec => CorrectionIsShared
<1>1. ASSUME TypeOK, TypeOK', IInv, [Next]_vars, OffsetHolds,
             NEW c \in Calls, sent'[c] # sent[c], NEW leg \in 0..SendDelay
      PROVE  now + leg - wire'[c].ts \in -Window..Window
  <2>0. /\ now \in Int /\ skew \in Int /\ clockOffset \in Int /\ clockOffset' \in Int
        /\ wire'[c].ts \in Int /\ sent \in [Calls -> Nat]
        /\ RecvDelay \in Nat /\ SendDelay \in Nat /\ Window \in Nat
    BY <1>1, TransportAssumption DEF TypeOK, Exchange
  <2>1. (Begin(c) /\ Send(c, clockOffset)) \/ Wake(c) \/ CorrectClock(c)
    <3>1. ASSUME NEW d \in Calls, Client(d)
          PROVE  (Begin(c) /\ Send(c, clockOffset)) \/ Wake(c) \/ CorrectClock(c)
      <4>1. UNCHANGED sent \/ (Begin(d) /\ Send(d, clockOffset)) \/ Wake(d) \/ CorrectClock(d)
        BY <3>1 DEF Client, Begin, NetworkFailure, RetryLater, Settle, Cancel, CountFailure
      <4>2. (Begin(d) /\ Send(d, clockOffset)) \/ Wake(d) \/ CorrectClock(d) => c = d
        BY <1>1, <2>0 DEF Wake, CorrectClock, Send
      <4>3. QED
        BY <1>1, <4>1, <4>2
    <3>2. ~((\E d \in Calls : Gateway(d)) \/ Clocks \/ UNCHANGED vars)
      BY <1>1 DEF Gateway, Refuse, Serve, Land, Answer, Clocks, Tick, StepLocalClock, vars
    <3>3. QED
      BY <1>1, <3>1, <3>2 DEF Next
  <2>2. Send(c, clockOffset')
    BY <2>1 DEF Begin, Wake, CorrectClock
  <2>3. skew + clockOffset' \in -(RecvDelay + 1)..0
    <3>1. CASE CorrectClock(c)
      BY <1>1, <3>1, FreshOffset DEF IInv
    <3>2. CASE Begin(c) \/ Wake(c)
      BY <1>1, <3>2 DEF IInv, OffsetInv, Begin, Wake
    <3>3. QED
      BY <2>1, <3>1, <3>2
  <2>4. wire'[c].ts - (now + skew + clockOffset') \in 0..1
    BY <1>1, <2>0, <2>2, SendEffect
  <2>5. wire'[c].ts - now \in -(RecvDelay + 1)..1
    BY <2>0, <2>3, <2>4, LagBound, Zenon
  <2>6. QED
    BY <1>1, <2>0, <2>5, WindowAssumption
<1>2. TypeOK /\ TypeOK' /\ IInv /\ [Next]_vars =>
        [OffsetHolds =>
           \A c \in Calls : sent'[c] # sent[c] =>
             \A leg \in 0..SendDelay : now + leg - wire'[c].ts \in -Window..Window]_vars
  BY <1>1
<1>3. QED
  BY <1>2, TypeCorrect, InvCorrect, PTL DEF Spec, CorrectionIsShared

(* Every step of a call uses up one of the steps it has left, and nobody   *)
(* else's step gives one back: the loop of request ends after at most      *)
(* 2 * retries + 3 steps, whatever the gateway answers.                    *)
LEMMA StepsNext ==
  ASSUME TypeOK, TypeOK', [Next]_vars, NEW c \in Calls, BudgetInv(c), BudgetInv(c)'
  PROVE  /\ StepsLeft(c)' \in 0..StepsLeft(c)
         /\ sent'[c] # sent[c] \/ pc'[c] # pc[c] => StepsLeft(c)' < StepsLeft(c)
<1> DEFINE Spent == /\ StepsLeft(c)' \in 0..StepsLeft(c)
                    /\ sent'[c] # sent[c] \/ pc'[c] # pc[c] => StepsLeft(c)' < StepsLeft(c)
<1> USE TransportAssumption DEF StepsLeft, BudgetInv, Correction, Attempts
<1>0. /\ retries \in Int /\ retries' = retries
      /\ attempt \in [Calls -> Nat] /\ corrected \in [Calls -> BOOLEAN]
      /\ sent \in [Calls -> Nat] /\ pc \in [Calls -> {"idle", "backoff", "http", "done"}]
  BY DEF TypeOK, Next, Client, Gateway, Clocks, Begin, Wake, NetworkFailure, RetryLater, CorrectClock,
         Settle, Cancel, CountFailure, Refuse, Serve, Land, Answer, Tick, StepLocalClock,
         vars, clientVars
<1>1. CASE UNCHANGED <<sent, pc, attempt, corrected>>
  BY <1>0, <1>1
<1>2. ASSUME NEW d \in Calls, Client(d), c # d PROVE Spent
  <2>1. /\ sent'[c] = sent[c] /\ pc'[c] = pc[c]
        /\ attempt'[c] = attempt[c] /\ corrected'[c] = corrected[c]
    BY <1>0, <1>2 DEF Client, Begin, Wake, NetworkFailure, RetryLater, CorrectClock, Settle, Cancel,
                      CountFailure, Send, Finish
  <2>2. QED
    BY <1>0, <2>1
<1>3. ASSUME Client(c) PROVE Spent
  <2>1. CASE Begin(c)
    BY <1>0, <2>1 DEF Begin, Send, Finish
  <2>2. CASE Wake(c)
    BY <1>0, <2>2 DEF Wake, Send
  <2>3. CASE NetworkFailure(c) \/ RetryLater(c)
    BY <1>0, <2>3 DEF NetworkFailure, RetryLater, CountFailure, Finish, Answered
  <2>4. CASE CorrectClock(c)
    BY <1>0, <2>4 DEF CorrectClock, Send, Answered
  <2>5. CASE Settle(c) \/ Cancel(c)
    BY <1>0, <2>5 DEF Settle, Cancel, Finish, Answered
  <2>6. QED
    BY <1>3, <2>1, <2>2, <2>3, <2>4, <2>5 DEF Client
<1>4. ASSUME NEW d \in Calls, Gateway(d) PROVE Spent
  BY <1>1, <1>4 DEF Gateway, Refuse, Serve, Land, Answer, clientVars
<1>5. CASE Clocks \/ UNCHANGED vars
  BY <1>1, <1>5 DEF Clocks, Tick, StepLocalClock, vars, clientVars
<1>6. QED
  BY <1>2, <1>3, <1>4, <1>5 DEF Next

THEOREM StepsRunOutCorrect == Spec => StepsRunOut
<1>1. TypeOK /\ TypeOK' /\ IInv /\ IInv' /\ [Next]_vars =>
        [\A c \in Calls :
           /\ StepsLeft(c)' \in 0..StepsLeft(c)
           /\ sent'[c] # sent[c] \/ pc'[c] # pc[c] => StepsLeft(c)' < StepsLeft(c)]_vars
  BY StepsNext DEF IInv
<1>2. QED
  BY <1>1, TypeCorrect, InvCorrect, PTL DEF Spec, StepsRunOut

(***************************************************************************)
(* Refinement: every step of Transport is a step of RequestContract or     *)
(* leaves its variables alone.                                             *)
(***************************************************************************)
LEMMA ContractInit == Init => Contract!CInit
  BY DEF Init, Contract!CInit, Result, Definite

LEMMA ContractNext ==
  ASSUME TypeOK, TypeOK', IInv, IInv', [Next]_vars
  PROVE  [Contract!CNext]_(Contract!contractVars)
<1> USE TransportAssumption
<1> DEFINE Mapped == [c \in Calls |-> Result(c)]
           Same   == UNCHANGED <<retries, executed, Mapped>>
<1>0. /\ retries \in Int /\ executed \in [Calls -> Nat] /\ adrift \in [Calls -> Nat]
      /\ attempt \in [Calls -> Nat] /\ outcome \in [Calls -> Outcomes]
      /\ executed' \in [Calls -> Nat] /\ adrift' \in [Calls -> Nat]
      /\ attempt' \in [Calls -> Nat] /\ outcome' \in [Calls -> Outcomes]
      /\ pc \in [Calls -> {"idle", "backoff", "http", "done"}]
  BY DEF TypeOK
<1>1. ASSUME Same PROVE UNCHANGED Contract!contractVars
  BY <1>1 DEF Contract!contractVars
<1>2. ASSUME UNCHANGED <<attempt, outcome>> PROVE Mapped' = Mapped
  BY <1>2 DEF Result
<1>r. \A c \in Calls : /\ RefusalInv(c) /\ RefusalInv(c)' /\ BudgetInv(c) /\ BudgetInv(c)'
                        /\ EffectInv(c)
  BY DEF IInv
(* A step of the loop that keeps or sets the outcome of one call.          *)
<1>3. ASSUME NEW d \in Calls, UNCHANGED <<retries, executed>>, outcome[d] = "none",
             \A c \in Calls \ {d} : outcome'[c] = outcome[c] /\ attempt'[c] = attempt[c],
             outcome'[d] \in {"ok", "undecodable"} => executed[d] > 0
      PROVE  Same \/ Contract!CNext
  <2>1. Mapped[d] = "pending"
    BY <1>3 DEF Result, Definite
  <2>2. Mapped' = [Mapped EXCEPT ![d] = Result(d)']
    <3>1. \A c \in Calls \ {d} : Result(c)' = Result(c)
      BY <1>3 DEF Result
    <3>2. QED
      BY <3>1
  <2>3. CASE outcome'[d] = "none"
    <3>1. Result(d)' = "pending"
      BY <2>3 DEF Result, Definite
    <3>2. QED
      BY <1>3, <2>1, <2>2, <3>1
  <2>4. CASE outcome'[d] = "ok" \/ outcome'[d] = "undecodable"
    <3>1. Result(d)' \in {"result", "undecodable"}
      BY <2>4 DEF Result, Definite
    <3>2. Contract!Succeed(d)
      BY <1>0, <1>3, <2>1, <2>2, <2>4, <3>1 DEF Contract!Succeed
    <3>3. QED
      BY <3>2 DEF Contract!CNext
  <2>5. CASE outcome'[d] \in Definite /\ attempt'[d] = 0
    <3>1. Result(d)' = "refused"
      BY <2>5 DEF Result, Definite
    <3>2. executed[d] = 0
      BY <1>0, <1>3, <1>r, <3>1 DEF RefusalInv, Due
    <3>3. Contract!Refuse(d)
      BY <1>0, <1>3, <2>1, <2>2, <3>1, <3>2 DEF Contract!Refuse
    <3>4. QED
      BY <3>3 DEF Contract!CNext
  <2>6. CASE /\ outcome'[d] \notin {"none", "ok", "undecodable"}
             /\ ~(outcome'[d] \in Definite /\ attempt'[d] = 0)
    <3>1. Result(d)' \in {"error", "cancelled"}
      BY <2>6 DEF Result, Definite
    <3>2. Contract!Fail(d)
      BY <1>0, <1>3, <2>1, <2>2, <3>1 DEF Contract!Fail
    <3>3. QED
      BY <3>2 DEF Contract!CNext
  <2>7. QED
    BY <2>3, <2>4, <2>5, <2>6
<1>4. ASSUME NEW d \in Calls, Client(d) PROVE Same \/ Contract!CNext
  <2>1. UNCHANGED <<retries, executed>> /\ pc[d] # "done"
    BY <1>4 DEF Client, Begin, Wake, NetworkFailure, RetryLater, CorrectClock, Settle,
                Cancel, CountFailure, Answered, gatewayVars
  <2>2. outcome[d] = "none"
    BY <1>r, <2>1 DEF BudgetInv
  <2>3. \A c \in Calls \ {d} : outcome'[c] = outcome[c] /\ attempt'[c] = attempt[c]
    BY <1>0, <1>4 DEF Client, Begin, Wake, NetworkFailure, RetryLater, CorrectClock, Settle,
                      Cancel, CountFailure, Send, Finish
  <2>4. outcome'[d] \in {"ok", "undecodable"} => Settle(d) /\ outcome'[d] = wire[d].answer
    BY <1>0, <1>4, <2>2
       DEF Client, Begin, Wake, NetworkFailure, RetryLater, CorrectClock, Settle, Cancel,
           CountFailure, Send, Finish
  <2>5. outcome'[d] \in {"ok", "undecodable"} => executed[d] > 0
    BY <1>r, <2>4 DEF EffectInv
  <2>6. QED
    BY <1>3, <2>1, <2>2, <2>3, <2>5
<1>5. ASSUME NEW d \in Calls, executed' = [executed EXCEPT ![d] = @ + 1], Due(d) > 0,
             executed[d] <= retries, UNCHANGED <<retries, outcome, attempt>>
      PROVE  Contract!CNext
  <2>1. Result(d) # "refused"
    BY <1>0, <1>5, <1>r DEF RefusalInv, Due
  <2>2. Contract!TakeEffect(d)
    BY <1>2, <1>5, <2>1 DEF Contract!TakeEffect
  <2>3. QED
    BY <2>2 DEF Contract!CNext
<1>6. ASSUME NEW d \in Calls, Gateway(d) PROVE Same \/ Contract!CNext
  <2>0. UNCHANGED <<retries, outcome, attempt>> /\ BudgetInv(d) /\ EffectInv(d)
    BY <1>6, <1>r DEF Gateway, Refuse, Serve, Land, Answer, clientVars
  <2>1. CASE executed' = executed
    BY <1>2, <2>0, <2>1
  <2>2. CASE Serve(d) /\ executed' # executed
    <3>1. executed[d] <= retries /\ Due(d) > 0
      BY <1>0, <2>0, <2>2
         DEF Serve, Pending, BudgetInv, EffectInv, Due, Paid, Attempts, Unexecuted
    <3>2. QED
      BY <1>5, <2>0, <2>2, <3>1 DEF Serve
  <2>3. CASE Land(d)
    <3>1. executed[d] <= retries /\ Due(d) > 0
      BY <1>0, <2>0, <2>3
         DEF Land, Pending, BudgetInv, EffectInv, Due, Paid, Attempts, Unexecuted
    <3>2. QED
      BY <1>5, <2>0, <2>3, <3>1 DEF Land
  <2>4. QED
    BY <1>6, <2>1, <2>2, <2>3 DEF Gateway, Refuse
<1>7. CASE Clocks
  BY <1>1, <1>2, <1>7 DEF Clocks, Tick, StepLocalClock, clientVars, gatewayVars
<1>8. CASE UNCHANGED vars
  BY <1>1, <1>2, <1>8 DEF vars, clientVars, gatewayVars
<1>9. QED
  BY <1>1, <1>4, <1>6, <1>7, <1>8 DEF Next

(* client.request keeps its contract: at most retries + 1 executions, no   *)
(* result without one, and none, ever, behind a first-attempt refusal.     *)
THEOREM Refinement == Spec => ImplementsContract
<1>1. TypeOK /\ TypeOK' /\ IInv /\ IInv' /\ [Next]_vars => [Contract!CNext]_(Contract!contractVars)
  BY ContractNext
<1>2. QED
  BY ContractInit, <1>1, TypeCorrect, InvCorrect, PTL DEF Spec, ImplementsContract, Contract!CSpec

(***************************************************************************)
(* Without retries.                                                        *)
(***************************************************************************)
SuccessInv == \A c \in Calls : outcome[c] \in {"ok", "undecodable"} => executed[c] > 0

LEMMA SuccessNext == TypeOK /\ IInv /\ SuccessInv /\ [Next]_vars => SuccessInv'
<1> SUFFICES ASSUME TypeOK, IInv, SuccessInv, [Next]_vars, NEW c \in Calls,
                    outcome'[c] \in {"ok", "undecodable"}
             PROVE  executed'[c] > 0
  BY DEF SuccessInv
<1> USE DEF TypeOK
<1>1. ASSUME executed[c] > 0 PROVE executed'[c] > 0
  <2>1. executed'[c] = executed[c] \/ executed'[c] = executed[c] + 1
    BY DEF Next, Client, Gateway, Clocks, Begin, Wake, NetworkFailure, RetryLater, CorrectClock, Settle,
           Cancel, CountFailure, Refuse, Serve, Land, Tick, StepLocalClock, vars, gatewayVars
  <2>2. QED
    BY <1>1, <2>1
<1>2. CASE outcome'[c] = outcome[c]
  BY <1>1, <1>2 DEF SuccessInv
<1>3. CASE outcome'[c] # outcome[c]
  <2>1. ASSUME NEW d \in Calls, Client(d) PROVE Settle(c)
    <3>1. CASE Begin(d)
      BY <1>3, <3>1 DEF Begin, Send, Finish
    <3>2. CASE Wake(d) \/ CorrectClock(d)
      BY <1>3, <3>2 DEF Wake, CorrectClock, Send
    <3>3. CASE NetworkFailure(d) \/ RetryLater(d)
      BY <1>3, <3>3 DEF NetworkFailure, RetryLater, CountFailure, Finish
    <3>4. CASE Settle(d)
      BY <1>3, <3>4 DEF Settle, Finish
    <3>5. CASE Cancel(d)
      BY <1>3, <3>5 DEF Cancel, Finish
    <3>6. QED
      BY <2>1, <3>1, <3>2, <3>3, <3>4, <3>5 DEF Client
  <2>2. ~((\E d \in Calls : Gateway(d)) \/ Clocks \/ UNCHANGED vars)
    BY <1>3 DEF Gateway, Clocks, Refuse, Serve, Land, Answer, Tick, StepLocalClock, vars, clientVars
  <2>3. Settle(c)
    BY <2>1, <2>2 DEF Next
  <2>4. wire[c].answer \in {"ok", "undecodable"}
    BY <2>3 DEF Settle, Finish
  <2>5. QED
    BY <1>1, <2>4 DEF IInv, EffectInv
<1>4. QED
  BY <1>2, <1>3

(* What retries=0 buys: a call is never carried out twice, and once it has *)
(* returned a result it was carried out exactly once.  Above zero a toggle *)
(* like wallets.freeze may be undone by the retry that reports it.         *)
UnretriedIsExact ==
  retries = 0 =>
    \A c \in Calls :
      /\ executed[c] <= 1
      /\ outcome[c] \in {"ok", "undecodable"} => executed[c] = 1

THEOREM UnretriedCorrect == Spec => []UnretriedIsExact
<1>1. Init => SuccessInv
  BY DEF Init, SuccessInv
<1>2. TypeOK /\ IInv /\ SuccessInv => UnretriedIsExact
  <2> SUFFICES ASSUME TypeOK, IInv, SuccessInv, retries = 0, NEW c \in Calls
               PROVE  /\ executed[c] <= 1
                      /\ outcome[c] \in {"ok", "undecodable"} => executed[c] = 1
    BY DEF UnretriedIsExact
  <2>1. Due(c) <= 1
    BY DEF TypeOK, IInv, BudgetInv, EffectInv, Due, Paid, Attempts
  <2>2. executed[c] \in Nat /\ executed[c] <= 1
    BY <2>1 DEF TypeOK, Due
  <2>3. QED
    BY <2>2 DEF SuccessInv
<1>3. QED
  BY <1>1, <1>2, SuccessNext, TypeCorrect, InvCorrect, PTL DEF Spec
=============================================================================
