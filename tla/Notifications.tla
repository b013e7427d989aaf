----------------------------- MODULE Notifications -----------------------------
(***************************************************************************)
(* What an endpoint and the platform may rely on between them, whatever    *)
(* happens to the posts: an event is acted on once at most and only while  *)
(* it is news, one that newer news replaced before it was ever posted      *)
(* never is, and what the platform takes for delivered was acted on.       *)
(* Events of one object may be acted on out of their order.                *)
(***************************************************************************)
EXTENDS Integers

CONSTANTS
  Deliveries,   \* in the order of their events
  Object        \* of each: the object its event is about

VARIABLES
  news,    \* of each event: "none" before it happens, "open" or "dropped"
  acted,   \* how often the endpoint acted on it
  known    \* whether the platform takes it for delivered

noticeVars == <<news, acted, known>>

NInit ==
  /\ news = [d \in Deliveries |-> "none"]
  /\ acted = [d \in Deliveries |-> 0]
  /\ known = [d \in Deliveries |-> FALSE]

(* Events happen in their order; the older ones of the object that nobody  *)
(* has acted on may be dropped.                                            *)
Happen(d) ==
  /\ news[d] = "none" /\ \A e \in Deliveries : e < d => news[e] # "none"
  /\ \E old \in SUBSET {e \in Deliveries : Object[e] = Object[d] /\ news[e] = "open" /\ acted[e] = 0} :
       news' = [e \in Deliveries |->
                  IF e = d THEN "open" ELSE IF e \in old THEN "dropped" ELSE news[e]]
  /\ UNCHANGED <<acted, known>>

Act(d) ==
  /\ news[d] = "open" /\ acted[d] = 0
  /\ acted' = [acted EXCEPT ![d] = 1]
  /\ UNCHANGED <<news, known>>

Learn(d) ==
  /\ acted[d] = 1 /\ ~known[d]
  /\ known' = [known EXCEPT ![d] = TRUE]
  /\ UNCHANGED <<news, acted>>

(* It is sent again, as long as it is the last news of its object.         *)
Forget(d) ==
  /\ known[d]
  /\ ~\E e \in Deliveries : e > d /\ Object[e] = Object[d] /\ news[e] # "none"
  /\ known' = [known EXCEPT ![d] = FALSE]
  /\ UNCHANGED <<news, acted>>

NNext == \E d \in Deliveries : Happen(d) \/ Act(d) \/ Learn(d) \/ Forget(d)

NSpec == NInit /\ [][NNext]_noticeVars
=============================================================================
