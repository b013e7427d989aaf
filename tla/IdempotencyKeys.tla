--------------------------- MODULE IdempotencyKeys ---------------------------
(***************************************************************************)
(* The idempotency_key block and the key a request carries: a context      *)
(* variable, of which every asyncio task has a copy of its own, taken from *)
(* the task that started it.  Entering a block saves the value in a token, *)
(* leaving it - at its end, by an exception or by a cancellation - puts    *)
(* the saved value back.                                                   *)
(*                                                                         *)
(* Between two steps of one task any other task may run.  A task leaves a  *)
(* block only when the calls in it have ended, and blocks of a task nest.  *)
(***************************************************************************)
EXTENDS Integers, Sequences

CONSTANTS
  Tasks, Root,   \* asyncio tasks, and the one that exists at first
  Keys,          \* keys that pass checked_idempotency_key
  BadKeys,       \* keys that do not
  Empty, None,   \* "" and None
  MaxDepth       \* bound: blocks of a task that are open at once

ASSUME KeysAssumption ==
  /\ Root \in Tasks
  /\ Empty \notin Keys /\ None \notin Keys /\ Empty # None
  /\ BadKeys \cap (Keys \cup {Empty, None}) = {}
  /\ MaxDepth \in Nat

VARIABLES
  state,    \* of a task: "unborn", "running", or "calling"
  current,  \* _CURRENT in the task's context
  tokens,   \* the values saved by its open blocks, innermost first
  header    \* the key its call in progress carries, None between calls

vars == <<state, current, tokens, header>>

Values == Keys \cup {Empty}

-----------------------------------------------------------------------------
(* Mutation: the argument is stored as it is.                              *)
StoredAsGiven(key) == key

(* checked_idempotency_key(key) if key else ""                             *)
Stored(key) == IF key \in {Empty, None} THEN Empty ELSE key

(* A key that fails the check raises before anything is stored.            *)
Enter(t, key) ==
  /\ state[t] = "running" /\ Len(tokens[t]) < MaxDepth
  /\ key \notin BadKeys
  /\ tokens' = [tokens EXCEPT ![t] = <<current[t]>> \o @]
  /\ current' = [current EXCEPT ![t] = Stored(key)]
  /\ UNCHANGED <<state, header>>

(* Mutation: leaving a block clears the key.                               *)
ExitClearing(t) ==
  /\ state[t] = "running" /\ tokens[t] # <<>>
  /\ current' = [current EXCEPT ![t] = Empty]
  /\ tokens' = [tokens EXCEPT ![t] = Tail(@)]
  /\ UNCHANGED <<state, header>>

Exit(t) ==
  /\ state[t] = "running" /\ tokens[t] # <<>>
  /\ current' = [current EXCEPT ![t] = Head(tokens[t])]
  /\ tokens' = [tokens EXCEPT ![t] = Tail(@)]
  /\ UNCHANGED <<state, header>>

(* asyncio.create_task copies the context.                                 *)
Spawn(t, u) ==
  /\ state[t] = "running" /\ state[u] = "unborn"
  /\ state' = [state EXCEPT ![u] = "running"]
  /\ current' = [current EXCEPT ![u] = current[t]]
  /\ UNCHANGED <<tokens, header>>

(* The header of all attempts of a request; a bad key raises instead.      *)
Send(t, key) ==
  /\ key \notin BadKeys
  /\ state' = [state EXCEPT ![t] = "calling"]
  /\ header' = [header EXCEPT ![t] = key]
  /\ UNCHANGED <<current, tokens>>

Key(t, arg) == IF arg = None THEN current[t] ELSE arg

Request(t, arg) ==
  /\ state[t] = "running"
  /\ Send(t, Key(t, arg))

(* native.buy and energy.rent pass the key on, and raise without one.      *)
Buy(t, arg) ==
  /\ state[t] = "running"
  /\ Key(t, arg) # Empty
  /\ Send(t, Key(t, arg))

Return(t) ==
  /\ state[t] = "calling"
  /\ state' = [state EXCEPT ![t] = "running"]
  /\ header' = [header EXCEPT ![t] = None]
  /\ UNCHANGED <<current, tokens>>

-----------------------------------------------------------------------------
Init ==
  /\ state = [t \in Tasks |-> IF t = Root THEN "running" ELSE "unborn"]
  /\ current = [t \in Tasks |-> Empty]
  /\ tokens = [t \in Tasks |-> <<>>]
  /\ header = [t \in Tasks |-> None]

Next ==
  \E t \in Tasks :
    \/ \E arg \in Values \cup BadKeys \cup {None} : Enter(t, arg) \/ Request(t, arg) \/ Buy(t, arg)
    \/ Exit(t) \/ Return(t)
    \/ \E u \in Tasks : Spawn(t, u)

Spec == Init /\ [][Next]_vars

-----------------------------------------------------------------------------
(* Properties.                                                             *)

(* Every variable has its type - a key that was not checked is never kept  *)
(* - and a task that was not started is in no block.                       *)
TypeOK ==
  /\ state \in [Tasks -> {"unborn", "running", "calling"}]
  /\ current \in [Tasks -> Values]
  /\ tokens \in [Tasks -> Seq(Values)]
  /\ header \in [Tasks -> Values \cup {None}]
  /\ \A t \in Tasks : state[t] = "unborn" => tokens[t] = <<>>

Lexical == INSTANCE LexicalKeys
             WITH scope   <- [t \in Tasks |-> IF state[t] = "unborn" THEN <<>>
                                               ELSE <<current[t]>> \o tokens[t]],
                  sending <- header

(* "Every call made inside the block", "tasks started inside the block     *)
(* carry it, tasks started outside do not; a key passed to client.request  *)
(* wins": whatever other tasks do meanwhile, a call carries the key of the *)
(* innermost block around it, and a block leaves no trace.                 *)
ImplementsLexical == Lexical!LSpec
=============================================================================
