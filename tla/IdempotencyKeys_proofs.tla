------------------------ MODULE IdempotencyKeys_proofs ------------------------
(***************************************************************************)
(* The key a call carries is the lexical one, for any tasks and any keys.  *)
(***************************************************************************)
EXTENDS IdempotencyKeys, TLAPS

USE KeysAssumption

(* Saving a value and putting it back, on the sequence of a task.          *)
LEMMA Push ==
  ASSUME NEW S, NEW v \in S, NEW s \in Seq(S)
  PROVE  /\ <<v>> \o s \in Seq(S)
         /\ Len(<<v>> \o s) = Len(s) + 1
         /\ Head(<<v>> \o s) = v
         /\ Tail(<<v>> \o s) = s
         /\ <<v>> \o s # <<>>
  OBVIOUS

LEMMA Pop ==
  ASSUME NEW S, NEW s \in Seq(S), s # <<>>
  PROVE  /\ Head(s) \in S
         /\ Tail(s) \in Seq(S)
         /\ Len(s) \in Nat /\ Len(s) > 0
         /\ <<Head(s)>> \o Tail(s) = s
  OBVIOUS

-----------------------------------------------------------------------------
(* Type correctness.                                                       *)

Args == Values \cup BadKeys \cup {None}

LEMMA StoredTyped ==
  ASSUME NEW key \in Args, key \notin BadKeys
  PROVE  Stored(key) \in Values
  BY DEF Args, Values, Stored

LEMMA KeyTyped ==
  ASSUME TypeOK, NEW t \in Tasks, NEW key \in Args, Key(t, key) \notin BadKeys
  PROVE  Key(t, key) \in Values
  BY DEF TypeOK, Args, Key

LEMMA SendTyped ==
  ASSUME TypeOK, NEW t \in Tasks, state[t] = "running", NEW key \in Values, Send(t, key)
  PROVE  TypeOK'
  BY DEF TypeOK, Send

LEMMA TypeStep ==
  ASSUME TypeOK, [Next]_vars
  PROVE  TypeOK'
<1>1. ASSUME NEW t \in Tasks, NEW key \in Args, Enter(t, key)
      PROVE  TypeOK'
  <2>1. Stored(key) \in Values
    BY <1>1, StoredTyped DEF Enter
  <2>2. tokens[t] \in Seq(Values) /\ current[t] \in Values
    BY DEF TypeOK
  <2>3. <<current[t]>> \o tokens[t] \in Seq(Values)
    BY <2>2, Push
  <2> QED
    BY <1>1, <2>1, <2>3 DEF TypeOK, Enter
<1>2. ASSUME NEW t \in Tasks, Exit(t)
      PROVE  TypeOK'
  <2>1. tokens[t] \in Seq(Values) /\ tokens[t] # <<>>
    BY <1>2 DEF TypeOK, Exit
  <2>2. Head(tokens[t]) \in Values /\ Tail(tokens[t]) \in Seq(Values)
    BY <2>1, Pop
  <2> QED
    BY <1>2, <2>2 DEF TypeOK, Exit
<1>3. ASSUME NEW t \in Tasks, NEW u \in Tasks, Spawn(t, u)
      PROVE  TypeOK'
  BY <1>3 DEF TypeOK, Spawn
<1>4. ASSUME NEW t \in Tasks, NEW arg \in Args, Request(t, arg) \/ Buy(t, arg)
      PROVE  TypeOK'
  <2>1. state[t] = "running" /\ Send(t, Key(t, arg))
    BY <1>4 DEF Request, Buy
  <2>2. Key(t, arg) \in Values
    BY <2>1, KeyTyped DEF Send
  <2> QED
    BY <2>1, <2>2, SendTyped
<1>5. ASSUME NEW t \in Tasks, Return(t)
      PROVE  TypeOK'
  BY <1>5 DEF TypeOK, Return
<1>6. CASE UNCHANGED vars
  BY <1>6 DEF TypeOK, vars
<1> QED
  BY <1>1, <1>2, <1>3, <1>4, <1>5, <1>6 DEF Next, Args

(* No task ever holds a key that was not checked, and blocks are only      *)
(* those of started tasks.                                                 *)
THEOREM TypeCorrect == Spec => []TypeOK
<1>1. Init => TypeOK
  BY DEF Init, TypeOK, Values
<1> QED
  BY <1>1, TypeStep, PTL DEF Spec

-----------------------------------------------------------------------------
(* Refinement: Scope is what the instance puts for the scope of a task.    *)

Scope == [t \in Tasks |-> IF state[t] = "unborn" THEN <<>> ELSE <<current[t]>> \o tokens[t]]

LEMMA ScopeOf ==
  ASSUME TypeOK, NEW t \in Tasks, state[t] # "unborn"
  PROVE  /\ Scope[t] # <<>>
         /\ Head(Scope[t]) = current[t]
         /\ Tail(Scope[t]) = tokens[t]
         /\ Len(Scope[t]) = Len(tokens[t]) + 1
         /\ Scope[t] = <<current[t]>> \o tokens[t]
<1>1. tokens[t] \in Seq(Values) /\ current[t] \in Values
  BY DEF TypeOK
<1>2. Scope[t] = <<current[t]>> \o tokens[t]
  BY DEF Scope
<1> QED
  BY <1>1, <1>2, Push

LEMMA EnterOpens ==
  ASSUME TypeOK, NEW t \in Tasks, NEW key \in Args, Enter(t, key)
  PROVE  Lexical!Open(t, Stored(key))
<1>1. state[t] # "unborn"
  BY DEF Enter
<1>2. tokens'[t] = <<current[t]>> \o tokens[t] /\ current'[t] = Stored(key) /\ state' = state
  BY DEF Enter, TypeOK
<1>3. \A s \in Tasks \ {t} : tokens'[s] = tokens[s] /\ current'[s] = current[s]
  BY DEF Enter, TypeOK
<1>4. Scope'[t] = <<Stored(key)>> \o Scope[t]
  BY <1>1, <1>2, ScopeOf DEF Scope
<1>5. \A s \in Tasks \ {t} : Scope'[s] = Scope[s]
  BY <1>2, <1>3 DEF Scope
<1>6. Scope' = [Scope EXCEPT ![t] = <<Stored(key)>> \o @]
  BY <1>4, <1>5 DEF Scope
<1>7. Scope[t] # <<>> /\ header' = header
  BY <1>1, ScopeOf DEF Enter
<1> QED
  BY <1>6, <1>7 DEF Lexical!Open, Lexical!Alive, Scope

LEMMA ExitCloses ==
  ASSUME TypeOK, NEW t \in Tasks, Exit(t)
  PROVE  Lexical!Close(t)
<1>1. state[t] # "unborn" /\ tokens[t] # <<>> /\ tokens[t] \in Seq(Values)
  BY DEF Exit, TypeOK
<1>2. tokens'[t] = Tail(tokens[t]) /\ current'[t] = Head(tokens[t]) /\ state' = state
  BY DEF Exit, TypeOK
<1>3. \A s \in Tasks \ {t} : tokens'[s] = tokens[s] /\ current'[s] = current[s]
  BY DEF Exit, TypeOK
<1>4. Scope'[t] = Tail(Scope[t])
  <2>1. Scope'[t] = <<Head(tokens[t])>> \o Tail(tokens[t])
    BY <1>1, <1>2 DEF Scope
  <2> QED
    BY <2>1, <1>1, Pop, ScopeOf
<1>5. \A s \in Tasks \ {t} : Scope'[s] = Scope[s]
  BY <1>2, <1>3 DEF Scope
<1>6. Scope' = [Scope EXCEPT ![t] = Tail(@)]
  BY <1>4, <1>5 DEF Scope
<1>7. Len(Scope[t]) > 1 /\ header' = header
  <2>1. Len(tokens[t]) \in Nat /\ Len(tokens[t]) > 0
    BY <1>1, Pop
  <2>2. Len(Scope[t]) = Len(tokens[t]) + 1
    BY <1>1, ScopeOf
  <2> QED
    BY <2>1, <2>2 DEF Exit
<1> QED
  BY <1>6, <1>7 DEF Lexical!Close, Scope

LEMMA SpawnForks ==
  ASSUME TypeOK, NEW t \in Tasks, NEW u \in Tasks, Spawn(t, u)
  PROVE  Lexical!Fork(t, u)
<1>1. state[t] # "unborn" /\ state[u] = "unborn" /\ tokens[u] = <<>>
  BY DEF Spawn, TypeOK
<1>2. state'[u] = "running" /\ current'[u] = current[t] /\ tokens' = tokens
  BY DEF Spawn, TypeOK
<1>3. \A s \in Tasks \ {u} : state'[s] = state[s] /\ current'[s] = current[s]
  BY DEF Spawn, TypeOK
<1>4. Scope[u] = <<>>
  BY <1>1 DEF Scope
<1>5. Scope'[u] = <<Head(Scope[t])>>
  <2>1. Scope'[u] = <<current[t]>> \o <<>>
    BY <1>1, <1>2 DEF Scope
  <2>2. Head(Scope[t]) = current[t]
    BY <1>1, ScopeOf
  <2> QED
    BY <2>1, <2>2
<1>6. \A s \in Tasks \ {u} : Scope'[s] = Scope[s]
  BY <1>2, <1>3 DEF Scope
<1>7. Scope' = [Scope EXCEPT ![u] = <<Head(Scope[t])>>]
  BY <1>5, <1>6 DEF Scope
<1>8. Scope[t] # <<>> /\ header' = header
  BY <1>1, ScopeOf DEF Spawn
<1> QED
  BY <1>4, <1>7, <1>8 DEF Lexical!Fork, Lexical!Alive, Scope

(* A call that starts, with the key it was given or the one around it.     *)
LEMMA SendCarries ==
  ASSUME TypeOK, NEW t \in Tasks, NEW arg \in Args, state[t] = "running", Send(t, Key(t, arg))
  PROVE  Lexical!Carry(t, arg)
<1>1. Scope[t] # <<>> /\ Head(Scope[t]) = current[t]
  BY ScopeOf
<1>2. state'[t] # "unborn" /\ tokens' = tokens /\ current' = current
  BY DEF Send, TypeOK
<1>3. \A s \in Tasks \ {t} : state'[s] = state[s]
  BY DEF Send, TypeOK
<1>4. Scope' = Scope
  BY <1>2, <1>3 DEF Scope
<1>5. header' = [header EXCEPT ![t] = IF arg = None THEN Head(Scope[t]) ELSE arg]
  BY <1>1 DEF Send, Key
<1> QED
  BY <1>1, <1>4, <1>5 DEF Lexical!Carry, Lexical!Alive, Scope

LEMMA ReturnEnds ==
  ASSUME TypeOK, NEW t \in Tasks, Return(t)
  PROVE  Lexical!Over(t)
<1>1. state[t] # "unborn" /\ state'[t] # "unborn" /\ tokens' = tokens /\ current' = current
  BY DEF Return, TypeOK
<1>2. \A s \in Tasks \ {t} : state'[s] = state[s]
  BY DEF Return, TypeOK
<1>3. Scope' = Scope
  BY <1>1, <1>2 DEF Scope
<1> QED
  BY <1>3 DEF Lexical!Over, Return, Scope

LEMMA StepRefines ==
  ASSUME TypeOK, [Next]_vars
  PROVE  [Lexical!LNext]_(Lexical!lexVars)
<1>1. ASSUME NEW t \in Tasks, NEW key \in Args, Enter(t, key)
      PROVE  Lexical!LNext
  <2>1. Stored(key) \in Keys \cup {Empty}
    BY <1>1, StoredTyped DEF Enter, Values
  <2> QED
    BY <1>1, <2>1, EnterOpens DEF Lexical!LNext
<1>2. ASSUME NEW t \in Tasks, NEW arg \in Args, Request(t, arg) \/ Buy(t, arg)
      PROVE  Lexical!LNext
  <2>1. state[t] = "running" /\ Send(t, Key(t, arg))
    BY <1>2 DEF Request, Buy
  <2>2. arg = None \/ arg \in Keys \cup {Empty}
    BY <2>1 DEF Send, Key, Args, Values
  <2> QED
    BY <2>1, <2>2, SendCarries DEF Lexical!LNext
<1>3. ASSUME NEW t \in Tasks, Exit(t) \/ Return(t)
      PROVE  Lexical!LNext
  BY <1>3, ExitCloses, ReturnEnds DEF Lexical!LNext
<1>4. ASSUME NEW t \in Tasks, NEW u \in Tasks, Spawn(t, u)
      PROVE  Lexical!LNext
  BY <1>4, SpawnForks DEF Lexical!LNext
<1>5. CASE UNCHANGED vars
  BY <1>5 DEF vars, Lexical!lexVars
<1> QED
  BY <1>1, <1>2, <1>3, <1>4, <1>5 DEF Next, Args

(* Whatever tasks do in between, a call carries the key of the innermost   *)
(* block around it in its own task, or around the start of that task.      *)
THEOREM KeysAreLexical == Spec => ImplementsLexical
<1>1. Init => Lexical!LInit
  <2> SUFFICES ASSUME Init PROVE Lexical!LInit
    OBVIOUS
  <2>1. Scope = [t \in Tasks |-> IF t = Root THEN <<Empty>> ELSE <<>>]
    BY DEF Init, Scope
  <2> QED
    BY <2>1 DEF Init, Lexical!LInit, Scope
<1>2. TypeOK /\ [Next]_vars => [Lexical!LNext]_(Lexical!lexVars)
  BY StepRefines
<1> QED
  BY <1>1, <1>2, TypeCorrect, PTL DEF Spec, ImplementsLexical, Lexical!LSpec
=============================================================================
