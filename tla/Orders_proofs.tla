---------------------------- MODULE Orders_proofs ----------------------------
(* Proofs about Orders, for any retry budget, any number of keys and calls. *)
EXTENDS Orders, TLAPS

LEMMA ReportTyped ==
  ASSUME NEW order \in OrderStatus \cup {"none"}
  PROVE  \A a \in Report(order) : /\ a \in Answers /\ a.order = order /\ a.status # 0
                                  /\ order # "none" => a.status \in {200, 402, 409, 502}
<1> USE DEF Report, Answers, OrderStatus, Returned
<1>1. CASE order = "delivered" \/ order = "refunded"
  BY <1>1
<1>2. CASE order = "refused"
  BY <1>2
<1>3. CASE order = "unresolved"
  BY <1>3
<1>4. CASE order = "none"
  BY <1>4
<1>5. QED
  BY <1>1, <1>2, <1>3, <1>4

LEMMA UnavailableTyped == \A a \in Unavailable : a \in Answers /\ a.order = "none"
  BY DEF Unavailable, Answers

LEMMA NoAnswerTyped == NoAnswer \in Answers /\ NoAnswer.order = "none" /\ NoAnswer.status = 0
  BY DEF NoAnswer, Answers

(* What buy makes of an error is the order in it, or APIError.             *)
LEMMA RecoverTyped ==
  ASSUME NEW a \in Answers
  PROVE  Recover(a) \in {a.order, "APIError"} /\ Recover(a) # "none"
  BY DEF Recover, OrderFromError, Answers

LEMMA ProcessTyped ==
  ASSUME TypeOK, NEW k \in Keys, Process(k)
  PROVE  /\ store' \in [Keys -> OrderStatus \cup {"none"}]
         /\ goods' \in [Keys -> BOOLEAN]
  BY DEF TypeOK, Process, OrderStatus, Returned

(* Each variable keeps its type.                                           *)
LEMMA OrdersTypeNext == TypeOK /\ [Next]_vars => TypeOK'
<1> SUFFICES ASSUME TypeOK, [Next]_vars PROVE TypeOK'
  OBVIOUS
<1> USE OrdersAssumption DEF TypeOK
<1>e. ASSUME NEW a \in Answers, RetryOrRaise(a)
      PROVE  /\ attempt' \in Nat /\ pc' \in {"idle", "http", "backoff"} /\ answer' \in Answers
             /\ result' \in OrderStatus \cup {"none", "APIError"}
  <2>1. Recover(a) \in OrderStatus \cup {"none", "APIError"}
    BY RecoverTyped DEF Answers
  <2>2. QED
    BY <1>e, <2>1, NoAnswerTyped DEF RetryOrRaise, End
<1>a. Abandon => adrift' \subseteq Keys
  BY DEF Abandon
<1>1. CASE Buy
  <2>1. buys' \in 0..MaxBuys
    BY <1>1 DEF Buy
  <2>2. QED
    BY <1>1, <2>1, NoAnswerTyped DEF Buy, Send
<1>2. CASE Wake
  BY <1>2, NoAnswerTyped DEF Wake, Send
<1>3. CASE NetworkFailure
  BY <1>3, <1>a, <1>e, NoAnswerTyped DEF NetworkFailure
<1>4. CASE ReceiveRetryable
  BY <1>4, <1>e DEF ReceiveRetryable
<1>5. CASE ReceiveOrder
  BY <1>5, NoAnswerTyped DEF ReceiveOrder, End, Answers
<1>6. CASE ReceiveError
  <2>1. Recover(answer) \in OrderStatus \cup {"none", "APIError"}
    BY RecoverTyped DEF Answers
  <2>2. QED
    BY <1>6, <2>1, NoAnswerTyped DEF ReceiveError, End
<1>7. CASE Crash
  BY <1>7, <1>a, NoAnswerTyped DEF Crash, End
<1>8. CASE NewKey
  BY <1>8 DEF NewKey, Keys
<1>9. CASE Reconcile
  BY <1>9 DEF Reconcile
<1>10. CASE Arrive
  <2>1. store'[key] \in OrderStatus \cup {"none"}
    BY <1>10, ProcessTyped DEF Arrive
  <2>2. QED
    BY <1>10, <2>1, ProcessTyped, ReportTyped, UnavailableTyped DEF Arrive
<1>11. ASSUME NEW k \in Keys, Land(k) PROVE TypeOK'
  BY <1>11, ProcessTyped DEF Land
<1>12. ASSUME NEW k \in Keys, Resolve(k) PROVE TypeOK'
  BY <1>12 DEF Resolve, OrderStatus, Returned
<1>13. CASE UNCHANGED vars
  BY <1>13 DEF vars
<1>14. CASE Postpone
  BY <1>14, UnavailableTyped DEF Postpone
<1>15. QED
  BY <1>1, <1>2, <1>3, <1>4, <1>5, <1>6, <1>7, <1>8, <1>9, <1>10, <1>11, <1>12, <1>13, <1>14
     DEF Next, SDK, Merchant, Gateway

LEMMA OrdersInit == Init => OrdersInv
<1> SUFFICES ASSUME Init PROVE OrdersInv
  OBVIOUS
<1>1. 1 \in Keys /\ 0 \in 0..MaxBuys
  BY OrdersAssumption DEF Keys
<1>2. store \in [Keys -> OrderStatus \cup {"none"}]
  BY DEF Init
<1>3. goods \in [Keys -> BOOLEAN]
  BY DEF Init
<1>4. TypeOK
  BY <1>1, <1>2, <1>3, NoAnswerTyped DEF Init, TypeOK
<1>5. QED
  BY <1>4, NoAnswerTyped, OrdersAssumption DEF Init, OrdersInv, Consistent, Keys, Returned

(***************************************************************************)
(* The inductive invariant: a key is left behind only with a final order   *)
(* under it, so a request of that key that lands later changes nothing.    *)
(***************************************************************************)
LEMMA OrdersInvNext == OrdersInv /\ [Next]_vars => OrdersInv'
<1> SUFFICES ASSUME OrdersInv, [Next]_vars PROVE OrdersInv'
  OBVIOUS
<1>t. TypeOK /\ TypeOK'
  BY OrdersTypeNext DEF OrdersInv
<1> USE <1>t, OrdersAssumption DEF OrdersInv, Consistent, Returned
<1>0. /\ store \in [Keys -> OrderStatus \cup {"none"}] /\ goods \in [Keys -> BOOLEAN]
      /\ adrift \subseteq Keys /\ key \in Keys /\ answer \in Answers /\ Keys \subseteq Nat
  BY DEF TypeOK, Keys
<1>a. Abandon => adrift \subseteq adrift' /\ adrift' \subseteq adrift \cup {key}
  BY DEF Abandon
<1>p. ASSUME NEW k \in Keys, k <= key, Process(k), UNCHANGED <<key, adrift, pc, result>>,
             \/ answer' = answer
             \/ k = key /\ pc = "http" /\ answer'.order \in {store'[key], "none"}
      PROVE  OrdersInv'
  BY <1>0, <1>p DEF Process
<1>e. ASSUME NEW a \in Answers, a = answer \/ a = NoAnswer, RetryOrRaise(a),
             UNCHANGED <<store, goods, key>>, adrift' \subseteq adrift \cup {key}
      PROVE  OrdersInv'
  BY <1>0, <1>e, RecoverTyped, NoAnswerTyped DEF RetryOrRaise, End
<1>1. CASE Buy
  BY <1>0, <1>1, NoAnswerTyped DEF Buy, Send
<1>2. CASE Wake
  BY <1>0, <1>2, NoAnswerTyped DEF Wake, Send
<1>3. CASE NetworkFailure
  BY <1>3, <1>a, <1>e, NoAnswerTyped DEF NetworkFailure
<1>4. CASE ReceiveRetryable
  BY <1>0, <1>4, <1>e DEF ReceiveRetryable
<1>5. CASE ReceiveOrder
  BY <1>0, <1>5, NoAnswerTyped DEF ReceiveOrder, End
<1>6. CASE ReceiveError
  BY <1>0, <1>6, RecoverTyped, NoAnswerTyped DEF ReceiveError, End
<1>7. CASE Crash
  BY <1>0, <1>7, <1>a, NoAnswerTyped DEF Crash, End
<1>8. CASE NewKey
  <2>1. answer.order = "none"
    BY <1>8, NoAnswerTyped DEF NewKey
  <2>2. QED
    BY <1>0, <1>8, <2>1 DEF NewKey
<1>9. CASE Reconcile
  BY <1>0, <1>9 DEF Reconcile, OrderStatus
<1>10. CASE Arrive
  <2>1. store'[key] \in OrderStatus \cup {"none"}
    BY <1>0, <1>10, ProcessTyped DEF Arrive
  <2>2. answer'.order \in {store'[key], "none"}
    BY <1>10, <2>1, ReportTyped, UnavailableTyped DEF Arrive
  <2>3. QED
    BY <1>0, <1>10, <1>p, <2>2 DEF Arrive
<1>11. ASSUME NEW k \in Keys, Land(k) PROVE OrdersInv'
  BY <1>0, <1>11, <1>p DEF Land
<1>12. ASSUME NEW k \in Keys, Resolve(k) PROVE OrdersInv'
  BY <1>0, <1>12 DEF Resolve
<1>13. CASE UNCHANGED vars
  BY <1>13 DEF vars
<1>14. CASE Postpone
  BY <1>0, <1>14, UnavailableTyped DEF Postpone
<1>15. QED
  BY <1>1, <1>2, <1>3, <1>4, <1>5, <1>6, <1>7, <1>8, <1>9, <1>10, <1>11, <1>12, <1>13, <1>14
     DEF Next, SDK, Merchant, Gateway

(* Every variable keeps its type, and a key is left behind only with a     *)
(* final order under it that delivered nothing.                            *)
THEOREM OrdersInvCorrect == Spec => []OrdersInv
  BY OrdersInit, OrdersInvNext, PTL DEF Spec

(* The purchase is delivered at most once.                                 *)
THEOREM OrdersDeliveredOnce == Spec => []DeliveredOnce
<1>1. OrdersInv => DeliveredOnce
  <2> SUFFICES ASSUME OrdersInv, NEW j \in Keys, NEW k \in Keys, goods[j], goods[k]
               PROVE  j = k
    BY DEF DeliveredOnce
  <2>1. \A i \in Keys : goods[i] => ~(i < key) /\ ~(i > key)
    BY DEF OrdersInv, TypeOK
  <2>2. j \in Int /\ k \in Int /\ key \in Int
    BY DEF OrdersInv, TypeOK, Keys
  <2>3. QED
    BY <2>1, <2>2
<1>2. QED
  BY <1>1, OrdersInvCorrect, PTL

(* What a call returns is true of the key it was made with.                *)
THEOREM OrdersTruthful == Spec => []TruthfulResult
<1>1. OrdersInv => TruthfulResult
  BY DEF OrdersInv, Consistent, TruthfulResult
<1>2. QED
  BY <1>1, OrdersInvCorrect, PTL

(***************************************************************************)
(* Refinement of Purchase.                                                 *)
(***************************************************************************)
LEMMA PurchaseNext ==
  ASSUME OrdersInv, OrdersInv', [Next]_vars
  PROVE  [Abstract!PNext]_(Abstract!purchaseVars)
<1> USE DEF Returned, Consistent
<1> DEFINE Sent == \E k \in Keys : goods[k]
<1>0. /\ key \in Keys /\ key' \in Keys /\ Keys \subseteq Nat
      /\ store \in [Keys -> OrderStatus \cup {"none"}]
  BY DEF OrdersInv, TypeOK, Keys
<1>1. Knowledge' = "delivered" => Sent'
  BY <1>0 DEF Knowledge, OrdersInv
<1>2. Knowledge' = "nothing" => ~Sent'
  <2> SUFFICES ASSUME Knowledge' = "nothing", NEW k \in Keys, goods'[k] PROVE FALSE
    OBVIOUS
  <2>1. result' \in Returned
    BY DEF Knowledge
  <2>2. ~goods'[key']
    BY <2>1 DEF OrdersInv
  <2>3. k < key' \/ k > key'
    BY <1>0, <2>2
  <2>4. QED
    BY <2>3 DEF OrdersInv
<1>3. Knowledge' \in {"unknown", "delivered", "nothing"}
  BY DEF Knowledge
<1>4. CASE Sent' = Sent
  <2>1. Abstract!Tell
    BY <1>1, <1>2, <1>3, <1>4 DEF Abstract!Tell
  <2>2. QED
    BY <2>1 DEF Abstract!PNext
<1>5. CASE Sent' # Sent
  <2>1. PICK k \in Keys : Process(k) /\ k <= key /\ result' = result
    <3>1. goods' # goods
      BY <1>5
    <3>2. CASE Arrive
      BY <1>0, <3>2 DEF Arrive
    <3>3. ASSUME NEW k \in Keys, Land(k) PROVE Process(k) /\ k <= key /\ result' = result
      BY <1>0, <3>3 DEF Land, OrdersInv
    <3>4. QED
      BY <3>1, <3>2, <3>3
         DEF Next, SDK, Merchant, Gateway, Buy, Wake, NetworkFailure, ReceiveRetryable,
             ReceiveOrder, ReceiveError, Crash, NewKey, Reconcile, Postpone, Resolve, vars
  <2>2. store[k] = "none"
    BY <1>5, <2>1 DEF Process
  <2>3. k = key
    BY <1>0, <2>1, <2>2 DEF OrdersInv
  <2>4. ~Sent
    BY <1>0, <2>2, <2>3 DEF OrdersInv
  <2>5. Knowledge = "unknown" /\ Knowledge' = "unknown"
    BY <2>1, <2>2, <2>3 DEF Knowledge, OrdersInv
  <2>6. Sent' = TRUE
    BY <1>5, <2>4
  <2>7. Abstract!SendGoods
    BY <2>4, <2>5, <2>6 DEF Abstract!SendGoods
  <2>8. QED
    BY <2>7 DEF Abstract!PNext
<1>6. QED
  BY <1>4, <1>5

(* Every behaviour of Orders is one of Purchase.                           *)
THEOREM OrdersRefinement == Spec => ImplementsPurchase
<1>1. Init => Abstract!PInit
  BY DEF Init, Abstract!PInit, Knowledge, Returned
<1>2. OrdersInv /\ OrdersInv' /\ [Next]_vars
        => [Abstract!PNext]_(Abstract!purchaseVars)
  BY PurchaseNext
<1>3. QED
  BY <1>1, <1>2, OrdersInvCorrect, PTL
     DEF Spec, ImplementsPurchase, Abstract!PSpec

(***************************************************************************)
(* When an order that was reported may be lost.                            *)
(***************************************************************************)

(* Without retries, a call hears one answer and ends with it.              *)
OneAnswerInv ==
  /\ pc # "backoff"
  /\ pc = "http" => ~heard
  /\ answer.order # "none" => answer.status \in {200, 402, 409, 502}
  /\ ReportedOrderIsReturned

LEMMA OneAnswerNext ==
  ASSUME Retries = 0, OrdersInv, OneAnswerInv, [Next]_vars
  PROVE  OneAnswerInv'
<1> USE DEF OneAnswerInv, ReportedOrderIsReturned
<1>0. /\ key \in Keys /\ answer \in Answers /\ attempt \in Nat
      /\ store \in [Keys -> OrderStatus \cup {"none"}]
  BY DEF OrdersInv, TypeOK
<1>a. ASSUME NEW a \in Answers, RetryOrRaise(a)
      PROVE  pc' = "idle" /\ result' = Recover(a) /\ answer' = NoAnswer
  BY <1>0, <1>a DEF RetryOrRaise, End
<1>1. CASE Buy
  BY <1>1, NoAnswerTyped DEF Buy, Send
<1>2. CASE NetworkFailure
  BY <1>2, <1>a, NoAnswerTyped DEF NetworkFailure
<1>3. CASE ReceiveRetryable
  <2>1. answer.order # "none" => Recover(answer) # "APIError"
    BY <1>0, <1>3 DEF ReceiveRetryable, Retryable, Recover, OrderFromError, Answers, OrderStatus, Returned
  <2>2. pc' = "idle" /\ result' = Recover(answer) /\ answer'.order = "none"
    BY <1>0, <1>3, <1>a, NoAnswerTyped DEF ReceiveRetryable
  <2>3. heard' => answer.order # "none"
    BY <1>3 DEF ReceiveRetryable
  <2>4. QED
    BY <2>1, <2>2, <2>3
<1>4. CASE ReceiveOrder \/ ReceiveError
  BY <1>4, NoAnswerTyped DEF ReceiveOrder, ReceiveError, End
<1>5. CASE Crash
  BY <1>5, NoAnswerTyped DEF Crash, End
<1>6. CASE NewKey \/ Reconcile
  BY <1>0, <1>6 DEF NewKey, Reconcile, OrderStatus, Returned
<1>7. CASE Arrive
  <2>1. store'[key] \in OrderStatus \cup {"none"}
    BY <1>0, <1>7, ProcessTyped DEF Arrive, OrdersInv
  <2>2. answer'.order # "none" => answer'.status \in {200, 402, 409, 502}
    BY <1>7, <2>1, ReportTyped, UnavailableTyped DEF Arrive
  <2>3. QED
    BY <1>7, <2>2 DEF Arrive
<1>8. CASE Postpone
  BY <1>8, UnavailableTyped DEF Postpone
<1>9. CASE UNCHANGED <<pc, answer, heard, result>>
  BY <1>9
<1>10. QED
  BY <1>1, <1>2, <1>3, <1>4, <1>5, <1>6, <1>7, <1>8, <1>9
     DEF Next, SDK, Merchant, Gateway, Wake, Land, Resolve, vars

(* ReportedOrderIsReturned fails only where a call is retried: without     *)
(* retries, a call that was told of an order always returns it.            *)
THEOREM ReportedOrderIsReturnedUnretried == Retries = 0 /\ Spec => []ReportedOrderIsReturned
<1> SUFFICES ASSUME Retries = 0 PROVE Spec => []ReportedOrderIsReturned
  OBVIOUS
<1>1. Init => OneAnswerInv
  BY NoAnswerTyped DEF Init, OneAnswerInv, ReportedOrderIsReturned
<1>2. OrdersInv /\ OneAnswerInv /\ [Next]_vars => OneAnswerInv'
  BY OneAnswerNext
<1>3. OneAnswerInv => ReportedOrderIsReturned
  BY DEF OneAnswerInv
<1>4. QED
  BY <1>1, <1>2, <1>3, OrdersInvCorrect, PTL DEF Spec
=============================================================================
