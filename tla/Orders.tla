-------------------------------- MODULE Orders --------------------------------
(***************************************************************************)
(* native.buy and energy.rent: one purchase, made by a merchant process    *)
(* that follows the documented rules, over the retry loop of               *)
(* client.request.                                                         *)
(*                                                                         *)
(* buy sends the merchant's idempotency key, retries as every request does *)
(* and turns an error that carries an order back into that order.  The     *)
(* gateway keeps at most one order per key.  A request the client gave up  *)
(* on may still reach it, at any time.  Signatures and clocks are the      *)
(* subject of Transport and are left out: a refused signature is one of    *)
(* the errors without an order.                                            *)
(*                                                                         *)
(* The merchant may crash in a call; the key it is using is persisted.     *)
(* After "refused" it may buy again with a new key, after an APIError with *)
(* the same key, and after "unresolved" it reads the order back.           *)
(***************************************************************************)
EXTENDS Integers

CONSTANTS
  Retries,    \* the client's retries= argument
  Finals,     \* statuses an unresolved order without goods may settle into
  MaxKey,     \* bound: idempotency keys 1..MaxKey the merchant may use
  MaxBuys     \* bound: buy calls the merchant makes

ASSUME OrdersAssumption ==
  /\ Retries \in Nat /\ MaxKey \in Nat \ {0} /\ MaxBuys \in Nat
  /\ Finals \subseteq {"refused", "refunded"}

VARIABLES
  store,    \* gateway: the order kept under each key
  goods,    \* gateway: whether the key's coins or energy went out
  adrift,   \* keys of abandoned requests that may still arrive
  key,      \* the key the merchant is using
  buys,     \* buy calls made
  pc,       \* the call: "idle", or in one of its two awaits
  attempt,  \* the request loop's attempt counter
  answer,   \* the answer being returned to the client
  heard,    \* some answer to this call carried an order
  result    \* what the last call returned, "APIError", or "none"

vars == <<store, goods, adrift, key, buys, pc, attempt, answer, heard, result>>

Keys == 1..MaxKey
Returned == {"refused", "refunded"}    \* final, and nothing was delivered
OrderStatus == {"delivered", "unresolved"} \cup Returned

NoAnswer == [status |-> 0, order |-> "none"]
Answers == [status : {0, 200, 400, 402, 409, 500, 502, 503, 504}, order : OrderStatus \cup {"none"}]

-----------------------------------------------------------------------------
(* The SDK.                                                                *)

Retryable(a) == a.status \in {502, 503, 504}

(* Mutation: an error envelope is taken for a refused order.               *)
OrderFromAnyBody(a) ==
  IF a.status \notin {402, 409, 502} THEN "none"
  ELSE IF a.order = "none" THEN "refused" ELSE a.order

(* _order_from_error: the order in an error body, if there is one.         *)
OrderFromError(a) == IF a.status \in {402, 409, 502} THEN a.order ELSE "none"

(* What buy makes of an error the request loop raised.                     *)
Recover(a) == IF OrderFromError(a) # "none" THEN OrderFromError(a) ELSE "APIError"

Send ==
  /\ pc' = "http"
  /\ answer' = NoAnswer

(* The merchant calls buy; the key goes into the header of each attempt.   *)
Buy ==
  /\ pc = "idle" /\ result \in {"none", "APIError"}
  /\ buys < MaxBuys
  /\ buys' = buys + 1
  /\ attempt' = 0 /\ heard' = FALSE /\ result' = "none"
  /\ Send
  /\ UNCHANGED <<store, goods, adrift, key>>

Wake ==
  /\ pc = "backoff"
  /\ Send
  /\ UNCHANGED <<store, goods, adrift, key, buys, attempt, heard, result>>

End(what) ==
  /\ pc' = "idle"
  /\ answer' = NoAnswer
  /\ result' = what

(* Mutation: the attempts left are counted down, and never run out.        *)
RetryCountingDown(a) ==
  /\ attempt' = attempt - 1
  /\ IF attempt' <= Retries
     THEN pc' = "backoff" /\ answer' = NoAnswer /\ UNCHANGED result
     ELSE End(Recover(a))

(* The loop counts a retryable failure and goes round, or raises it.       *)
RetryOrRaise(a) ==
  /\ attempt' = attempt + 1
  /\ IF attempt' <= Retries
     THEN pc' = "backoff" /\ answer' = NoAnswer /\ UNCHANGED result
     ELSE End(Recover(a))

Abandon == adrift' = IF answer = NoAnswer THEN adrift \cup {key} ELSE adrift

(* No answer: lost, or slower than the timeout.                            *)
NetworkFailure ==
  /\ pc = "http"
  /\ Abandon
  /\ RetryOrRaise(NoAnswer)
  /\ UNCHANGED <<store, goods, key, buys, heard>>

ReceiveRetryable ==
  /\ pc = "http" /\ Retryable(answer)
  /\ RetryOrRaise(answer)
  /\ heard' = (heard \/ answer.order # "none")
  /\ UNCHANGED <<store, goods, adrift, key, buys>>

ReceiveOrder ==
  /\ pc = "http" /\ answer.status = 200
  /\ End(answer.order)
  /\ UNCHANGED <<store, goods, adrift, key, buys, attempt, heard>>

ReceiveError ==
  /\ pc = "http" /\ answer.status \in {400, 402, 409, 500}
  /\ End(Recover(answer))
  /\ UNCHANGED <<store, goods, adrift, key, buys, attempt, heard>>

-----------------------------------------------------------------------------
(* The merchant, apart from Buy.                                           *)

(* The process dies in a call and comes back knowing only its key.         *)
Crash ==
  /\ pc # "idle"
  /\ IF pc = "http" THEN Abandon ELSE UNCHANGED adrift
  /\ End("none")
  /\ UNCHANGED <<store, goods, key, buys, attempt, heard>>

NewKey ==
  /\ pc = "idle" /\ result \in Returned
  /\ key < MaxKey
  /\ key' = key + 1
  /\ result' = "none"
  /\ UNCHANGED <<store, goods, adrift, buys, pc, attempt, answer, heard>>

(* order(key): reads the order back.                                       *)
Reconcile ==
  /\ pc = "idle" /\ result = "unresolved"
  /\ result' = store[key]
  /\ UNCHANGED <<store, goods, adrift, key, buys, pc, attempt, answer, heard>>

-----------------------------------------------------------------------------
(* The gateway.                                                            *)

(* The first request with a key may place an order, or be turned away with *)
(* no order (a spent quote, a balance check); with an order under the key, *)
(* nothing changes.  Whether an unresolved order's goods went out is open. *)
Process(k) ==
  \/ UNCHANGED <<store, goods>>
  \/ /\ store[k] = "none"
     /\ \E s \in {"delivered", "refused", "unresolved"}, g \in BOOLEAN :
          /\ s = "delivered" => g
          /\ s = "refused" => ~g
          /\ store' = [store EXCEPT ![k] = s]
          /\ goods' = [goods EXCEPT ![k] = g]

(* The statuses an order is reported on; a settled one is read as 200 or,  *)
(* refused, as before.                                                     *)
Report(order) ==
  CASE order = "delivered"  -> {[status |-> 200, order |-> order]}
    [] order = "refunded"   -> {[status |-> 200, order |-> order]}
    [] order = "refused"    -> {[status |-> s, order |-> order] : s \in {402, 502}}
    [] order = "unresolved" -> {[status |-> 409, order |-> order]}
    [] order = "none"       -> {[status |-> s, order |-> "none"] : s \in {400, 402, 409}}

(* A failure of the gateway, or of a proxy: it says nothing of the order.  *)
Unavailable == {[status |-> s, order |-> "none"] : s \in {500, 502, 503, 504}}

Arrive ==
  /\ pc = "http" /\ answer = NoAnswer
  /\ Process(key)
  /\ answer' \in Report(store'[key]) \cup Unavailable
  /\ UNCHANGED <<adrift, key, buys, pc, attempt, heard, result>>

(* The failure comes first, the request arrives later.                     *)
Postpone ==
  /\ pc = "http" /\ answer = NoAnswer
  /\ answer' \in Unavailable
  /\ adrift' = adrift \cup {key}
  /\ UNCHANGED <<store, goods, key, buys, pc, attempt, heard, result>>

Land(k) ==
  /\ k \in adrift
  /\ Process(k)
  /\ UNCHANGED <<adrift, key, buys, pc, attempt, answer, heard, result>>

(* An unresolved order settles, by what really happened.                   *)
Resolve(k) ==
  /\ store[k] = "unresolved"
  /\ \E s \in IF goods[k] THEN {"delivered"} ELSE Finals : store' = [store EXCEPT ![k] = s]
  /\ UNCHANGED <<goods, adrift, key, buys, pc, attempt, answer, heard, result>>

-----------------------------------------------------------------------------
Init ==
  /\ store = [k \in Keys |-> "none"]
  /\ goods = [k \in Keys |-> FALSE]
  /\ adrift = {}
  /\ key = 1
  /\ buys = 0
  /\ pc = "idle"
  /\ attempt = 0
  /\ answer = NoAnswer
  /\ heard = FALSE
  /\ result = "none"

SDK      == Buy \/ Wake \/ NetworkFailure \/ ReceiveRetryable \/ ReceiveOrder \/ ReceiveError
Merchant == Crash \/ NewKey \/ Reconcile
Gateway  == Arrive \/ Postpone \/ \E k \in Keys : Land(k) \/ Resolve(k)
Next     == SDK \/ Merchant \/ Gateway

Spec == Init /\ [][Next]_vars

-----------------------------------------------------------------------------
(* Properties.                                                             *)

(* Every variable has its type.                                            *)
TypeOK ==
  /\ store \in [Keys -> OrderStatus \cup {"none"}]
  /\ goods \in [Keys -> BOOLEAN]
  /\ adrift \subseteq Keys
  /\ key \in Keys
  /\ buys \in 0..MaxBuys
  /\ pc \in {"idle", "http", "backoff"}
  /\ attempt \in Nat
  /\ answer \in Answers
  /\ heard \in BOOLEAN
  /\ result \in OrderStatus \cup {"none", "APIError"}

(* The purchase is not delivered twice, whatever is lost, retried, crashed *)
(* or late: "retrying with a NEW idempotency key is safe" after a refusal, *)
(* requests of the old key that are still adrift included.                 *)
DeliveredOnce == \A j, k \in Keys : goods[j] /\ goods[k] => j = k

(* What buy returns is true of the key it was called with: a delivered     *)
(* order went out, a refused or refunded one did not and never will.       *)
TruthfulResult ==
  /\ result = "delivered" => goods[key]
  /\ result \in Returned => ~goods[key] /\ store[key] = result

(* "The answer is always the order ... Only failures with no order to      *)
(* report raise APIError": a call that was told of an order never raises.  *)
ReportedOrderIsReturned == result = "APIError" => ~heard

(* A key is left behind only with a final order that delivered nothing,    *)
(* and no later key has been used.  answer and result lag behind store.    *)
Consistent(order) ==
  /\ order = "delivered" => goods[key] /\ store[key] = "delivered"
  /\ order \in Returned => ~goods[key] /\ store[key] = order
  /\ order = "unresolved" => store[key] # "none"
OrdersInv ==
  /\ TypeOK
  /\ \A k \in Keys : k < key => store[k] \in Returned
  /\ \A k \in Keys : k > key => store[k] = "none" /\ k \notin adrift
  /\ \A k \in Keys : /\ store[k] \in Returned \cup {"none"} => ~goods[k]
                     /\ store[k] = "delivered" => goods[k]
  /\ pc # "http" => answer = NoAnswer
  /\ Consistent(answer.order)
  /\ Consistent(result)

(* The purchase as the merchant sees it: Purchase's goods leave once, and  *)
(* the merchant learns "delivered" or "not delivered" only when true.      *)
Knowledge ==
  CASE result = "delivered" -> "delivered"
    [] result \in Returned  -> "nothing"
    [] OTHER                -> "unknown"

Abstract == INSTANCE Purchase WITH sent <- \E k \in Keys : goods[k], belief <- Knowledge
ImplementsPurchase == Abstract!PSpec
=============================================================================
