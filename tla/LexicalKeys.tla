----------------------------- MODULE LexicalKeys -----------------------------
(***************************************************************************)
(* What the idempotency_key block promises: a call carries the key of the  *)
(* innermost block around it in the program text of its task, where a task *)
(* is around its own blocks in turn by the block it was started in.        *)
(***************************************************************************)
EXTENDS Integers, Sequences

CONSTANTS Tasks, Root, Keys, Empty, None
VARIABLES scope, sending    \* keys of the blocks around a task, innermost first

lexVars == <<scope, sending>>

LInit ==
  /\ scope = [t \in Tasks |-> IF t = Root THEN <<Empty>> ELSE <<>>]
  /\ sending = [t \in Tasks |-> None]

Alive(t) == scope[t] # <<>>

Open(t, key) ==
  /\ Alive(t)
  /\ scope' = [scope EXCEPT ![t] = <<key>> \o @]
  /\ UNCHANGED sending

Close(t) ==
  /\ Len(scope[t]) > 1
  /\ scope' = [scope EXCEPT ![t] = Tail(@)]
  /\ UNCHANGED sending

Fork(t, u) ==
  /\ Alive(t) /\ ~Alive(u)
  /\ scope' = [scope EXCEPT ![u] = <<Head(scope[t])>>]
  /\ UNCHANGED sending

(* A key given to the call itself wins.                                    *)
Carry(t, arg) ==
  /\ Alive(t)
  /\ sending' = [sending EXCEPT ![t] = IF arg = None THEN Head(scope[t]) ELSE arg]
  /\ UNCHANGED scope

Over(t) ==
  /\ sending' = [sending EXCEPT ![t] = None]
  /\ UNCHANGED scope

LNext ==
  \E t \in Tasks :
    \/ \E key \in Keys \cup {Empty} : Open(t, key) \/ Carry(t, key)
    \/ Close(t) \/ Carry(t, None) \/ Over(t)
    \/ \E u \in Tasks : Fork(t, u)

LSpec == LInit /\ [][LNext]_lexVars
=============================================================================
