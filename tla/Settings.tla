------------------------------- MODULE Settings -------------------------------
(***************************************************************************)
(* The writes of one wallet's settings by several callers: the fields of   *)
(* sweeps.update_settings, for the address or for one of its networks, and *)
(* set_label and set_callback_url.  Each is one call of the request loop,  *)
(* of which only the retries matter here; they follow each other at once,  *)
(* for the gateway may take any time to answer.                            *)
(***************************************************************************)
EXTENDS Integers

CONSTANTS
  Callers,
  Networks,          \* network codes
  Fields, Names,     \* of update_settings; "label" and "callback_url"
  Values,            \* the values of a field or a name
  None, CLEAR, Empty,\* None, the sentinel, and ""
  Anywhere, Wallet,  \* where the fields of no network, and the names are stored
  Asks,              \* what callers ask for
  Settled,           \* how the cells may stand at first
  Retries, MaxCalls  \* MaxCalls is a bound: calls made in all

Layers  == Networks \cup {Anywhere}
Cells   == (Layers \X Fields) \cup ({Wallet} \X Names)
Updates == [op : {"update_settings"}, network : Networks \cup {None, Empty},
            change : [Fields -> Values \cup {None, CLEAR}]]
Namings == [op : {"set_name"}, name : Names, value : Values \cup {None, Empty}]

ASSUME SettingsAssumption ==
  /\ Asks \subseteq Updates \cup Namings
  /\ {None, CLEAR, Empty} \cap Values = {}
  /\ None # CLEAR /\ None # Empty
  /\ Networks \cap {None, Empty, Wallet, Anywhere} = {} /\ Anywhere # Wallet
  /\ None \notin Asks
  /\ Settled \subseteq [Cells -> Values \cup {None}]
  /\ Retries \in Nat /\ MaxCalls \in Nat

VARIABLES
  stored,     \* the gateway: the value of a cell, None where nothing is set
  ask,        \* the call a caller is in, or None
  left,       \* retries left to it
  reply,      \* the answer to its request: "none" before there is one
  adrift,     \* requests given up on, which may still arrive
  calls,      \* calls made so far
  touched,    \* history: the callers that have asked for a cell
  confirmed,  \* history: what the last call that returned has set
  doubtful    \* history: cells of calls that ended without a clear answer

vars == <<stored, ask, left, reply, adrift, calls, touched, confirmed, doubtful>>

-----------------------------------------------------------------------------
(* What a call means: the cells it is to set, and to what.                 *)

Layer(network) == IF network \in {None, Empty} THEN Anywhere ELSE network

Means(a, cell) ==
  IF a.op = "update_settings"
  THEN cell \in {Layer(a.network)} \X {f \in Fields : a.change[f] # None}
  ELSE cell = <<Wallet, a.name>>

Meant(a, cell) ==
  LET value == IF a.op = "update_settings" THEN a.change[cell[2]] ELSE a.value
  IN  IF value \in Values THEN value ELSE None

(* Mutation: a field that is not supplied is named like one to clear.      *)
EveryField(change) == Fields

(* Mutation: a field to clear is left out.                                 *)
NamedIfSet(change) == {f \in Fields : change[f] \notin {None, CLEAR}}

(* The body of its request.  A field to clear is named and has no value.   *)
Named(change) == {f \in Fields : change[f] # None}

UpdateBody(a) ==
  [layer   |-> Layer(a.network),
   fields  |-> Named(a.change),
   members |-> [f \in {g \in Named(a.change) : a.change[g] \notin {None, CLEAR}} |-> a.change[f]]]

NameBody(a) ==
  [layer |-> Wallet, fields |-> {a.name}, members |-> [n \in {a.name} |-> a.value]]

Body(a) == IF a.op = "update_settings" THEN UpdateBody(a) ELSE NameBody(a)

(* set_label and set_callback_url refuse None.                             *)
Sendable(a) == a.op = "set_name" => a.value # None

-----------------------------------------------------------------------------
(* The gateway.                                                            *)

Put(body) ==
  stored' = [cell \in Cells |->
               IF cell[1] # body.layer \/ cell[2] \notin body.fields THEN stored[cell]
               ELSE IF cell[2] \notin DOMAIN body.members THEN None
               ELSE IF body.members[cell[2]] = Empty THEN None
               ELSE body.members[cell[2]]]

Waiting(w) == ask[w] # None /\ reply[w] = "none"

(* What a 5xx is to the loop: 502, 503 and 504 are retried, a 500 or a 520 *)
(* ("failed") is raised at once.  Neither says what became of the write.   *)
Unclear == {"retryable", "failed"}
Replies == {"ok", "refused"} \cup Unclear

Reply(w, replies) ==
  /\ Waiting(w)
  /\ \E r \in replies : reply' = [reply EXCEPT ![w] = r]

Carry(w) ==
  /\ Reply(w, {"ok"} \cup Unclear)
  /\ Put(Body(ask[w]))
  /\ UNCHANGED <<ask, left, adrift, calls, touched, confirmed, doubtful>>

(* A refusal - an invalid value, a pinned policy - changes nothing.        *)
Refuse(w) ==
  /\ Reply(w, {"refused"} \cup Unclear)
  /\ UNCHANGED <<stored, ask, left, adrift, calls, touched, confirmed, doubtful>>


Doubt(w) == doubtful' = doubtful \cup {cell \in Cells : Means(ask[w], cell)}

(* A 5xx from a proxy that no longer waits for the write it passed on.     *)
Postpone(w) ==
  /\ Reply(w, Unclear)
  /\ adrift' = adrift \cup {Body(ask[w])}
  /\ Doubt(w)
  /\ UNCHANGED <<stored, ask, left, calls, touched, confirmed>>

Land(body) ==
  /\ Put(body)
  /\ UNCHANGED <<ask, left, reply, adrift, calls, touched, confirmed, doubtful>>

-----------------------------------------------------------------------------
(* A call.                                                                 *)

Begin(w, a) ==
  /\ ask[w] = None /\ calls < MaxCalls
  /\ Sendable(a)
  /\ ask' = [ask EXCEPT ![w] = a]
  /\ left' = [left EXCEPT ![w] = Retries]
  /\ reply' = [reply EXCEPT ![w] = "none"]
  /\ calls' = calls + 1
  /\ touched' = [cell \in Cells |-> touched[cell] \cup {u \in {w} : Means(a, cell)}]
  /\ UNCHANGED <<stored, adrift, confirmed, doubtful>>

End(w) == ask' = [ask EXCEPT ![w] = None] /\ UNCHANGED <<left, reply>>

Succeed(w) ==
  /\ ask[w] # None /\ reply[w] = "ok"
  /\ End(w)
  /\ confirmed' = [cell \in Cells |-> IF Means(ask[w], cell) THEN Meant(ask[w], cell)
                                                              ELSE confirmed[cell]]
  /\ UNCHANGED <<stored, adrift, calls, touched, doubtful>>

(* An error the loop raises at once.  A refusal of the first attempt is    *)
(* clear; one of a retry says nothing of the attempts before it, and a 5xx *)
(* nothing at all.                                                         *)
Fail(w) ==
  /\ ask[w] # None /\ reply[w] \in {"refused", "failed"}
  /\ End(w)
  /\ IF reply[w] = "refused" /\ left[w] = Retries THEN UNCHANGED doubtful ELSE Doubt(w)
  /\ UNCHANGED <<stored, adrift, calls, touched, confirmed>>

(* Mutation: one retry too many.                                           *)
RetryAtZero(w) ==
  IF left[w] >= 0
  THEN /\ left' = [left EXCEPT ![w] = @ - 1]
       /\ reply' = [reply EXCEPT ![w] = "none"]
       /\ UNCHANGED ask
  ELSE End(w)

RetryOrRaise(w) ==
  IF left[w] > 0
  THEN /\ left' = [left EXCEPT ![w] = @ - 1]
       /\ reply' = [reply EXCEPT ![w] = "none"]
       /\ UNCHANGED ask
  ELSE End(w)

(* A status the loop retries, with or without the write behind it.         *)
Retry(w) ==
  /\ ask[w] # None /\ reply[w] = "retryable"
  /\ RetryOrRaise(w)
  /\ IF left[w] > 0 THEN UNCHANGED doubtful ELSE Doubt(w)
  /\ UNCHANGED <<stored, adrift, calls, touched, confirmed>>

(* A request without an answer may still arrive, once and more.            *)
GiveUp(w) ==
  /\ ask[w] # None
  /\ adrift' = IF reply[w] = "none" THEN adrift \cup {Body(ask[w])} ELSE adrift
  /\ UNCHANGED <<stored, calls, touched, confirmed>>

NetworkFailure(w) ==
  /\ GiveUp(w) /\ RetryOrRaise(w)
  /\ IF reply[w] # "none" /\ left[w] > 0 THEN UNCHANGED doubtful ELSE Doubt(w)

Cancel(w) == GiveUp(w) /\ End(w) /\ Doubt(w)

-----------------------------------------------------------------------------
Init ==
  /\ stored \in Settled
  /\ ask = [w \in Callers |-> None]
  /\ left = [w \in Callers |-> 0]
  /\ reply = [w \in Callers |-> "none"]
  /\ adrift = {} /\ calls = 0
  /\ touched = [cell \in Cells |-> {}]
  /\ confirmed = stored
  /\ doubtful = {}

Next ==
  \/ \E w \in Callers :
       \/ \E a \in Asks : Begin(w, a)
       \/ Carry(w) \/ Refuse(w) \/ Postpone(w)
       \/ Succeed(w) \/ Fail(w) \/ Retry(w) \/ NetworkFailure(w) \/ Cancel(w)
  \/ \E body \in adrift : Land(body)

Spec == Init /\ [][Next]_vars

-----------------------------------------------------------------------------
(* Properties.                                                             *)

TypeOK ==
  /\ stored \in [Cells -> Values \cup {None}]
  /\ ask \in [Callers -> Asks \cup {None}]
  /\ left \in [Callers -> 0..Retries]
  /\ reply \in [Callers -> Replies \cup {"none"}]
  /\ adrift \subseteq {Body(a) : a \in Asks}
  /\ calls \in 0..MaxCalls
  /\ touched \in [Cells -> SUBSET Callers]
  /\ confirmed \in [Cells -> Values \cup {None}]
  /\ doubtful \subseteq Cells

Writing(w, cell) == ask[w] # None /\ Means(ask[w], cell)

(* What makes SoleWriterPrevails inductive: the types, how a cell stands   *)
(* while its only writer's call is under way, and that requests given up   *)
(* on are about doubtful cells.                                            *)
AdriftInv ==
  \A body \in adrift : \E a \in Asks :
    /\ Sendable(a) /\ body = Body(a)
    /\ \A cell \in Cells : Means(a, cell) => cell \in doubtful

AskInv ==
  \A w \in Callers : ask[w] # None =>
    Sendable(ask[w]) /\ \A cell \in Cells : Means(ask[w], cell) => w \in touched[cell]

CellInv ==
  \A cell \in Cells \ doubtful : \A w \in Callers : touched[cell] \subseteq {w} =>
    IF Writing(w, cell)
    THEN /\ reply[w] = "ok" => stored[cell] = Meant(ask[w], cell)
         /\ left[w] = Retries /\ reply[w] \in {"none", "refused"} => stored[cell] = confirmed[cell]
    ELSE stored[cell] = confirmed[cell]

SettingsInv == TypeOK /\ AdriftInv /\ AskInv /\ CellInv

(* "None leaves a field alone": whoever writes what at the same time, and  *)
(* whatever is retried or arrives late, a cell that only one caller has    *)
(* ever asked for has, between its calls, the value the last of them set - *)
(* unless a call for it ended without a clear answer: cancelled, on a      *)
(* network error or a 5xx, the first attempt's 500 included, or refused    *)
(* after an attempt that had failed.                                       *)
SoleWriterPrevails ==
  \A cell \in Cells \ doubtful : \A w \in Callers :
    (touched[cell] \subseteq {w} /\ ~Writing(w, cell))
      => stored[cell] = confirmed[cell]

(* A cell is only ever changed to what a caller has asked for it: an       *)
(* update of some fields never resets another, in its layer or elsewhere.  *)
OnlyAsAsked ==
  [][\A cell \in Cells : stored'[cell] # stored[cell] =>
       \E a \in Asks : /\ Means(a, cell) /\ Meant(a, cell) = stored'[cell]
                       /\ \/ \E w \in Callers : ask[w] = a
                          \/ Body(a) \in adrift]_vars
=============================================================================
