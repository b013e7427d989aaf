----------------------------- MODULE CallSequence -----------------------------
(***************************************************************************)
(* What a program that makes its calls one after the other may rely on:    *)
(* a call is sent once at most, after the ones before it are confirmed,    *)
(* and never any more after the program was told that its calls ended;     *)
(* and it is told so truly.                                                *)
(***************************************************************************)
EXTENDS Integers

CONSTANTS
  Tasks,
  Calls          \* of each task: how many calls it makes

VARIABLES
  sent,   \* the transactions sent, by their id: whose call, and its fate
  told    \* of each task: "nothing" yet, "confirmed" or "dead"

sequenceVars == <<sent, told>>

SInit == sent = [id \in {} |-> {}] /\ told = [t \in Tasks |-> "nothing"]

IsOf(id, t, c) == sent[id].task = t /\ sent[id].call = c

ConfirmedUpTo(t, n) ==
  \A c \in 1..n : \E id \in DOMAIN sent : IsOf(id, t, c) /\ sent[id].fate = "confirmed"

Send(id) ==
  /\ UNCHANGED told
  /\ \E t \in Tasks : \E c \in 1..Calls[t] :
       /\ told[t] = "nothing" /\ ConfirmedUpTo(t, c - 1)
       /\ ~\E other \in DOMAIN sent : IsOf(other, t, c)
       /\ sent' = [i \in DOMAIN sent \cup {id} |->
                     IF i = id THEN [task |-> t, call |-> c, fate |-> "open"] ELSE sent[i]]

(* A block settles transactions, one or several of them.                   *)
Settle ==
  /\ UNCHANGED told
  /\ DOMAIN sent' = DOMAIN sent
  /\ \A id \in DOMAIN sent :
       \/ sent'[id] = sent[id]
       \/ /\ sent[id].fate = "open"
          /\ \E fate \in {"confirmed", "failed"} : sent'[id] = [sent[id] EXCEPT !.fate = fate]

(* What is dead is a call the task had come to: it failed, or it is not    *)
(* sent and will not be.                                                   *)
Tell(t) ==
  /\ told[t] = "nothing"
  /\ \/ /\ told' = [told EXCEPT ![t] = "confirmed"]
        /\ ConfirmedUpTo(t, Calls[t])
     \/ /\ told' = [told EXCEPT ![t] = "dead"]
        /\ \E c \in 1..Calls[t] :
             /\ ConfirmedUpTo(t, c - 1)
             /\ \A id \in DOMAIN sent : IsOf(id, t, c) => sent[id].fate = "failed"
  /\ UNCHANGED sent

SNext ==
  \/ Settle
  \/ \E t \in Tasks : Tell(t)
  \/ \E id \in DOMAIN sent' \ DOMAIN sent : Send(id)

SSpec == SInit /\ [][SNext]_sequenceVars
=============================================================================
