--------------------------- MODULE RequestContract ---------------------------
(***************************************************************************)
(* What client.request promises a service call, whatever the network does: *)
(* the operation is carried out at most retries + 1 times, a result means  *)
(* it was carried out at least once, a refusal - an error of an HTTP       *)
(* status below 500, which the caller reads in http_status - with no       *)
(* failed attempt before it means that it was not and never will be, and   *)
(* any other error, a 500 included, or a cancellation leaves the number    *)
(* open: it may still grow after the call has ended.                       *)
(***************************************************************************)
EXTENDS Integers

CONSTANTS Calls, Budgets
VARIABLES budget, effects, result

contractVars == <<budget, effects, result>>

CInit ==
  /\ budget \in Budgets
  /\ effects = [c \in Calls |-> 0]
  /\ result = [c \in Calls |-> "pending"]

TakeEffect(c) ==
  /\ effects[c] <= budget /\ result[c] # "refused"
  /\ effects' = [effects EXCEPT ![c] = @ + 1]
  /\ UNCHANGED <<budget, result>>

(* A result, or a success whose body the client could not decode.          *)
Succeed(c) ==
  /\ result[c] = "pending" /\ effects[c] > 0
  /\ \E r \in {"result", "undecodable"} : result' = [result EXCEPT ![c] = r]
  /\ UNCHANGED <<budget, effects>>

Refuse(c) ==
  /\ result[c] = "pending" /\ effects[c] = 0
  /\ result' = [result EXCEPT ![c] = "refused"]
  /\ UNCHANGED <<budget, effects>>

Fail(c) ==
  /\ result[c] = "pending"
  /\ \E r \in {"error", "cancelled"} : result' = [result EXCEPT ![c] = r]
  /\ UNCHANGED <<budget, effects>>

CNext == \E c \in Calls : TakeEffect(c) \/ Succeed(c) \/ Refuse(c) \/ Fail(c)

CSpec == CInit /\ [][CNext]_contractVars
=============================================================================
