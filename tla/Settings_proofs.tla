--------------------------- MODULE Settings_proofs ---------------------------
(***************************************************************************)
(* A wallet's settings change only as asked, and a sole writer prevails,   *)
(* for any callers, fields, networks, retries and calls.                   *)
(***************************************************************************)
EXTENDS Settings, TLAPS

USE SettingsAssumption

-----------------------------------------------------------------------------
(* What the gateway makes of a body is what the call means.                *)

After(a) == [cell \in Cells |-> IF Means(a, cell) THEN Meant(a, cell) ELSE stored[cell]]

LEMMA MeantTyped ==
  ASSUME NEW a \in Asks, NEW cell \in Cells
  PROVE  Meant(a, cell) \in Values \cup {None}
  BY DEF Meant

LEMMA LayerTyped ==
  ASSUME NEW a \in Updates
  PROVE  Layer(a.network) \in Layers
  BY DEF Updates, Layer, Layers

LEMMA UpdatePut ==
  ASSUME NEW a \in Updates, Put(Body(a))
  PROVE  stored' = After(a)
<1>1. a.op = "update_settings" /\ a.change \in [Fields -> Values \cup {None, CLEAR}]
  BY DEF Updates
<1>2. Body(a) = UpdateBody(a)
  BY <1>1 DEF Body
<1> DEFINE b == UpdateBody(a)
<1>3. /\ b.layer = Layer(a.network)
      /\ b.fields = {f \in Fields : a.change[f] # None}
      /\ DOMAIN b.members = {f \in Fields : a.change[f] \notin {None, CLEAR}}
      /\ \A f \in DOMAIN b.members : b.members[f] = a.change[f]
  BY DEF UpdateBody, Named
<1>4. ASSUME NEW cell \in Cells
      PROVE  stored'[cell] = IF Means(a, cell) THEN Meant(a, cell) ELSE stored[cell]
  <2>1. Means(a, cell) <=> cell[1] = b.layer /\ cell[2] \in b.fields
    BY <1>1, <1>3 DEF Means, Cells
  <2>2. CASE ~Means(a, cell)
    BY <1>2, <2>1, <2>2 DEF Put
  <2>3. CASE Means(a, cell) /\ cell[2] \notin DOMAIN b.members
    <3>1. cell[2] \in Fields /\ a.change[cell[2]] \in {None, CLEAR}
      BY <1>3, <2>1, <2>3
    <3>2. Meant(a, cell) = None
      BY <1>1, <3>1 DEF Meant
    <3>3. stored'[cell] = None
      BY <1>2, <2>1, <2>3 DEF Put
    <3> QED
      BY <2>3, <3>2, <3>3
  <2>4. CASE Means(a, cell) /\ cell[2] \in DOMAIN b.members
    <3>1. a.change[cell[2]] \in Values /\ b.members[cell[2]] = a.change[cell[2]]
      BY <1>1, <1>3, <2>4
    <3>2. Meant(a, cell) = a.change[cell[2]]
      BY <1>1, <3>1 DEF Meant
    <3>3. stored'[cell] = a.change[cell[2]]
      BY <1>2, <2>1, <2>4, <3>1 DEF Put
    <3> QED
      BY <2>4, <3>2, <3>3
  <2> QED
    BY <2>2, <2>3, <2>4
<1>5. stored' = [cell \in Cells |-> stored'[cell]]
  BY DEF Put
<1> QED
  BY <1>4, <1>5 DEF After

LEMMA NamePut ==
  ASSUME NEW a \in Namings, Sendable(a), Put(Body(a))
  PROVE  stored' = After(a)
<1>1. a.op = "set_name" /\ a.name \in Names /\ a.value \in Values \cup {Empty}
  BY DEF Namings, Sendable
<1>2. Body(a) = NameBody(a)
  BY <1>1 DEF Body
<1>3. ASSUME NEW cell \in Cells
      PROVE  stored'[cell] = IF Means(a, cell) THEN Meant(a, cell) ELSE stored[cell]
  <2>1. Means(a, cell) <=> cell[1] = Wallet /\ cell[2] = a.name
    BY <1>1 DEF Means, Cells
  <2>2. Meant(a, cell) = IF a.value = Empty THEN None ELSE a.value
    BY <1>1 DEF Meant
  <2> QED
    BY <1>1, <1>2, <2>1, <2>2 DEF Put, NameBody
<1>4. stored' = [cell \in Cells |-> stored'[cell]]
  BY DEF Put
<1> QED
  BY <1>3, <1>4 DEF After

LEMMA PutMeans ==
  ASSUME NEW a \in Asks, Sendable(a), Put(Body(a))
  PROVE  stored' = After(a)
  BY UpdatePut, NamePut

-----------------------------------------------------------------------------
(* Types.                                                                  *)

LEMMA PutTyped ==
  ASSUME TypeOK, NEW a \in Asks, stored' = After(a)
  PROVE  stored' \in [Cells -> Values \cup {None}]
<1>1. \A cell \in Cells : After(a)[cell] \in Values \cup {None}
  BY MeantTyped DEF After, TypeOK
<1> QED
  BY <1>1 DEF After

LEMMA TypeStep ==
  ASSUME TypeOK, SettingsInv, [Next]_vars
  PROVE  TypeOK'
<1>1. ASSUME NEW w \in Callers, NEW a \in Asks, Begin(w, a)
      PROVE  TypeOK'
  <2>1. touched' \in [Cells -> SUBSET Callers]
    BY <1>1 DEF Begin, TypeOK
  <2>2. calls' \in 0..MaxCalls
    BY <1>1 DEF Begin, TypeOK
  <2>3. ask' \in [Callers -> Asks \cup {None}]
    BY <1>1 DEF Begin, TypeOK
  <2>4. left' \in [Callers -> 0..Retries]
    BY <1>1 DEF Begin, TypeOK
  <2>5. reply' \in [Callers -> Replies \cup {"none"}]
    BY <1>1 DEF Begin, Replies, TypeOK
  <2> QED
    BY <1>1, <2>1, <2>2, <2>3, <2>4, <2>5 DEF Begin, TypeOK
<1>2. ASSUME NEW w \in Callers, Carry(w)
      PROVE  TypeOK'
  <2>1. ask[w] \in Asks /\ Sendable(ask[w])
    BY <1>2 DEF Carry, Reply, Waiting, TypeOK, SettingsInv, AskInv
  <2>2. stored' \in [Cells -> Values \cup {None}]
    BY <1>2, <2>1, PutMeans, PutTyped DEF Carry
  <2>3. reply' \in [Callers -> Replies \cup {"none"}]
    BY <1>2 DEF Carry, Reply, Replies, Unclear, TypeOK
  <2> QED
    BY <1>2, <2>2, <2>3 DEF Carry, TypeOK
<1>3. ASSUME NEW body \in adrift, Land(body)
      PROVE  TypeOK'
  <2>1. PICK a \in Asks : Sendable(a) /\ body = Body(a)
    BY DEF SettingsInv, AdriftInv
  <2>2. stored' \in [Cells -> Values \cup {None}]
    BY <1>3, <2>1, PutMeans, PutTyped DEF Land
  <2> QED
    BY <1>3, <2>2 DEF Land, TypeOK
<1>4. ASSUME NEW w \in Callers, Refuse(w)
      PROVE  TypeOK'
  BY <1>4 DEF Refuse, Reply, Replies, Unclear, TypeOK
<1>p. ASSUME NEW w \in Callers, Postpone(w)
      PROVE  TypeOK'
  <2>1. reply' \in [Callers -> Replies \cup {"none"}]
    BY <1>p DEF Postpone, Reply, Replies, Unclear, TypeOK
  <2>2. adrift' \subseteq {Body(a) : a \in Asks}
    BY <1>p DEF Postpone, Reply, Waiting, TypeOK
  <2>3. doubtful' \subseteq Cells
    BY <1>p DEF Postpone, Doubt, TypeOK
  <2> QED
    BY <1>p, <2>1, <2>2, <2>3 DEF Postpone, TypeOK
<1>5. ASSUME NEW w \in Callers, Succeed(w)
      PROVE  TypeOK'
  <2>1. ask[w] \in Asks
    BY <1>5 DEF Succeed, TypeOK
  <2>2. confirmed' \in [Cells -> Values \cup {None}]
    BY <1>5, <2>1, MeantTyped DEF Succeed, TypeOK
  <2>3. ask' \in [Callers -> Asks \cup {None}]
    BY <1>5 DEF Succeed, End, TypeOK
  <2> QED
    BY <1>5, <2>2, <2>3 DEF Succeed, End, TypeOK
<1>6. ASSUME NEW w \in Callers, Fail(w)
      PROVE  TypeOK'
  <2>1. ask' \in [Callers -> Asks \cup {None}] /\ doubtful' \subseteq Cells
    BY <1>6 DEF Fail, End, Doubt, TypeOK
  <2> QED
    BY <1>6, <2>1 DEF Fail, End, TypeOK
<1>7. ASSUME NEW w \in Callers, RetryOrRaise(w)
      PROVE  /\ ask' \in [Callers -> Asks \cup {None}]
             /\ left' \in [Callers -> 0..Retries]
             /\ reply' \in [Callers -> Replies \cup {"none"}]
  <2>1. CASE left[w] > 0
    <3>1. left[w] - 1 \in 0..Retries
      BY <2>1 DEF TypeOK
    <3> QED
      BY <1>7, <2>1, <3>1 DEF RetryOrRaise, TypeOK
  <2>2. CASE ~(left[w] > 0)
    BY <1>7, <2>2 DEF RetryOrRaise, End, TypeOK
  <2> QED
    BY <2>1, <2>2
<1>8. ASSUME NEW w \in Callers, Retry(w)
      PROVE  TypeOK'
  <2>1. doubtful' \subseteq Cells
    BY <1>8 DEF Retry, Doubt, TypeOK
  <2>2. RetryOrRaise(w)
    BY <1>8 DEF Retry
  <2> QED
    BY <1>7, <1>8, <2>1, <2>2 DEF Retry, TypeOK
<1>9. ASSUME NEW w \in Callers, GiveUp(w)
      PROVE  adrift' \subseteq {Body(a) : a \in Asks}
  BY <1>9 DEF GiveUp, TypeOK
<1>10. ASSUME NEW w \in Callers, NetworkFailure(w)
       PROVE  TypeOK'
  <2>1. doubtful' \subseteq Cells
    BY <1>10 DEF NetworkFailure, Doubt, TypeOK
  <2>2. RetryOrRaise(w) /\ GiveUp(w)
    BY <1>10 DEF NetworkFailure
  <2> QED
    BY <1>7, <1>9, <2>1, <2>2 DEF GiveUp, TypeOK
<1>11. ASSUME NEW w \in Callers, Cancel(w)
       PROVE  TypeOK'
  <2>1. doubtful' \subseteq Cells /\ ask' \in [Callers -> Asks \cup {None}]
    BY <1>11 DEF Cancel, End, Doubt, TypeOK
  <2> QED
    BY <1>9, <1>11, <2>1 DEF Cancel, End, GiveUp, TypeOK
<1>12. CASE UNCHANGED vars
  BY <1>12 DEF vars, TypeOK
<1> QED
  BY <1>1, <1>2, <1>3, <1>4, <1>p, <1>5, <1>6, <1>8, <1>10, <1>11, <1>12 DEF Next

-----------------------------------------------------------------------------
(* The invariant.                                                          *)

LEMMA AdriftStep ==
  ASSUME TypeOK, SettingsInv, [Next]_vars
  PROVE  AdriftInv'
<1>1. ASSUME doubtful \subseteq doubtful',
             \A body \in adrift' : \/ body \in adrift
                                   \/ \E w \in Callers : /\ ask[w] # None /\ body = Body(ask[w])
                                                         /\ Doubt(w)
      PROVE  AdriftInv'
  <2> SUFFICES ASSUME NEW body \in adrift'
               PROVE  \E a \in Asks : /\ Sendable(a) /\ body = Body(a)
                                      /\ \A cell \in Cells : Means(a, cell) => cell \in doubtful'
    BY DEF AdriftInv
  <2>1. CASE body \in adrift
    BY <1>1, <2>1 DEF SettingsInv, AdriftInv
  <2>2. ASSUME NEW w \in Callers, ask[w] # None, body = Body(ask[w]), Doubt(w)
        PROVE  \E a \in Asks : /\ Sendable(a) /\ body = Body(a)
                               /\ \A cell \in Cells : Means(a, cell) => cell \in doubtful'
    <3>1. ask[w] \in Asks /\ Sendable(ask[w])
      BY <2>2 DEF SettingsInv, AskInv, TypeOK
    <3>2. \A cell \in Cells : Means(ask[w], cell) => cell \in doubtful'
      BY <2>2 DEF Doubt
    <3> QED
      BY <2>2, <3>1, <3>2
  <2> QED
    BY <1>1, <2>1, <2>2
<1>2. CASE UNCHANGED <<adrift, doubtful>>
  BY <1>1, <1>2
<1>3. ASSUME NEW w \in Callers, Fail(w) \/ Retry(w)
      PROVE  AdriftInv'
  <2>1. adrift' = adrift /\ doubtful \subseteq doubtful'
    BY <1>3 DEF Fail, Retry, Doubt
  <2> QED
    BY <1>1, <2>1
<1>p. ASSUME NEW w \in Callers, Postpone(w)
      PROVE  AdriftInv'
  <2>1. ask[w] # None /\ adrift' = adrift \cup {Body(ask[w])} /\ Doubt(w)
    BY <1>p DEF Postpone, Reply, Waiting
  <2>2. doubtful \subseteq doubtful'
    BY <2>1 DEF Doubt
  <2> QED
    BY <1>1, <2>1, <2>2
<1>4. ASSUME NEW w \in Callers, NetworkFailure(w) \/ Cancel(w)
      PROVE  AdriftInv'
  <2>1. ask[w] # None /\ doubtful \subseteq doubtful'
    BY <1>4 DEF NetworkFailure, Cancel, GiveUp, Doubt
  <2>2. CASE reply[w] = "none"
    <3>1. adrift' = adrift \cup {Body(ask[w])} /\ Doubt(w)
      BY <1>4, <2>2 DEF NetworkFailure, Cancel, GiveUp
    <3> QED
      BY <1>1, <2>1, <3>1
  <2>3. CASE reply[w] # "none"
    <3>1. adrift' = adrift
      BY <1>4, <2>3 DEF NetworkFailure, Cancel, GiveUp
    <3> QED
      BY <1>1, <2>1, <3>1
  <2> QED
    BY <2>2, <2>3
<1> QED
  BY <1>2, <1>3, <1>p, <1>4 DEF Next, vars, Begin, Carry, Refuse, Succeed, Land

LEMMA AskStep ==
  ASSUME TypeOK, SettingsInv, [Next]_vars
  PROVE  AskInv'
<1>1. ASSUME \A w \in Callers : ask'[w] \in {ask[w], None}, touched' = touched
      PROVE  AskInv'
  BY <1>1 DEF SettingsInv, AskInv
<1>2. ASSUME NEW w \in Callers, NEW a \in Asks, Begin(w, a)
      PROVE  AskInv'
  <2>1. ask'[w] = a /\ Sendable(a) /\ \A u \in Callers \ {w} : ask'[u] = ask[u]
    BY <1>2 DEF Begin, TypeOK
  <2>2. \A cell \in Cells : touched'[cell] = touched[cell] \cup {u \in {w} : Means(a, cell)}
    BY <1>2 DEF Begin
  <2> QED
    BY <2>1, <2>2 DEF SettingsInv, AskInv
<1>3. ASSUME NEW w \in Callers, Succeed(w) \/ Fail(w) \/ Retry(w) \/ NetworkFailure(w) \/ Cancel(w)
      PROVE  AskInv'
  <2>1. touched' = touched
    BY <1>3 DEF Succeed, Fail, Retry, NetworkFailure, Cancel, GiveUp
  <2>2. \A u \in Callers : ask'[u] \in {ask[u], None}
    BY <1>3 DEF Succeed, Fail, Retry, NetworkFailure, Cancel, RetryOrRaise, End, TypeOK
  <2> QED
    BY <1>1, <2>1, <2>2
<1>4. CASE UNCHANGED <<ask, touched>>
  BY <1>1, <1>4
<1> QED
  BY <1>2, <1>3, <1>4 DEF Next, vars, Carry, Refuse, Postpone, Land

(* One cell, seen by the caller that alone has asked for it.               *)
CellOf(cell, w) ==
  IF Writing(w, cell)
  THEN /\ reply[w] = "ok" => stored[cell] = Meant(ask[w], cell)
       /\ left[w] = Retries /\ reply[w] \in {"none", "refused"} => stored[cell] = confirmed[cell]
  ELSE stored[cell] = confirmed[cell]

LEMMA CellStep ==
  ASSUME TypeOK, SettingsInv, [Next]_vars,
         NEW cell \in Cells, cell \notin doubtful',
         NEW u \in Callers, touched'[cell] \subseteq {u}
  PROVE  CellOf(cell, u)'
<1>1. doubtful \subseteq doubtful'
  BY DEF Next, vars, Begin, Carry, Refuse, Postpone, Land, Succeed, Fail, Retry, NetworkFailure, Cancel, Doubt
<1>2. touched[cell] \subseteq touched'[cell]
  BY DEF Next, vars, Begin, Carry, Refuse, Postpone, Land, Succeed, Fail, Retry, NetworkFailure, Cancel, GiveUp
<1>3. CellOf(cell, u)
  BY <1>1, <1>2 DEF SettingsInv, CellInv, CellOf
<1>4. \A w \in Callers : Writing(w, cell) => w = u
  BY <1>2 DEF SettingsInv, AskInv, Writing
<1>5. ASSUME UNCHANGED <<stored, confirmed>>,
             ask'[u] = ask[u], left'[u] = left[u], reply'[u] = reply[u]
      PROVE  CellOf(cell, u)'
  BY <1>3, <1>5 DEF CellOf, Writing
<1>6. ASSUME NEW w \in Callers, NEW a \in Asks, Begin(w, a)
      PROVE  CellOf(cell, u)'
  <2>1. CASE u = w
    <3>1. stored[cell] = confirmed[cell]
      BY <1>3, <1>6, <2>1 DEF Begin, CellOf, Writing
    <3>2. reply'[u] = "none" /\ UNCHANGED <<stored, confirmed>>
      BY <1>6, <2>1 DEF Begin, TypeOK
    <3> QED
      BY <3>1, <3>2 DEF CellOf
  <2>2. CASE u # w
    BY <1>5, <1>6, <2>2 DEF Begin, TypeOK
  <2> QED
    BY <2>1, <2>2
<1>7. ASSUME NEW w \in Callers, Carry(w)
      PROVE  CellOf(cell, u)'
  <2>1. ask[w] \in Asks /\ Sendable(ask[w]) /\ ask[w] # None
    BY <1>7 DEF Carry, Reply, Waiting, TypeOK, SettingsInv, AskInv
  <2>2. stored' = After(ask[w])
    BY <1>7, <2>1, PutMeans DEF Carry
  <2>3. ask' = ask /\ left' = left /\ confirmed' = confirmed
    BY <1>7 DEF Carry
  <2>4. CASE Means(ask[w], cell)
    <3>1. w = u /\ Writing(u, cell)
      BY <1>4, <2>1, <2>4 DEF Writing
    <3>2. stored'[cell] = Meant(ask[u], cell)
      BY <2>2, <2>4, <3>1 DEF After
    <3>3. reply'[u] \in {"ok", "retryable", "failed"}
      BY <1>7, <3>1 DEF Carry, Reply, Unclear, TypeOK
    <3> QED
      BY <2>3, <3>1, <3>2, <3>3 DEF CellOf, Writing
  <2>5. CASE ~Means(ask[w], cell)
    <3>1. stored'[cell] = stored[cell]
      BY <2>2, <2>5 DEF After
    <3>2. Writing(u, cell) => reply'[u] = reply[u]
      BY <1>7, <2>5 DEF Carry, Reply, Writing, TypeOK
    <3> QED
      BY <1>3, <2>3, <3>1, <3>2 DEF CellOf, Writing
  <2> QED
    BY <2>4, <2>5
<1>8. ASSUME NEW body \in adrift, Land(body)
      PROVE  CellOf(cell, u)'
  <2>1. PICK a \in Asks : /\ Sendable(a) /\ body = Body(a)
                          /\ \A c \in Cells : Means(a, c) => c \in doubtful
    BY DEF SettingsInv, AdriftInv
  <2>2. stored' = After(a)
    BY <1>8, <2>1, PutMeans DEF Land
  <2>3. stored'[cell] = stored[cell]
    BY <1>1, <2>1, <2>2 DEF After
  <2> QED
    BY <1>3, <1>8, <2>3 DEF Land, CellOf, Writing
<1>9. ASSUME NEW w \in Callers, Refuse(w)
      PROVE  CellOf(cell, u)'
  <2>1. CASE u = w
    <3>1. reply[u] = "none" /\ reply'[u] \in {"refused", "retryable", "failed"}
      BY <1>9, <2>1 DEF Refuse, Reply, Unclear, Waiting, TypeOK
    <3> QED
      BY <1>3, <1>9, <3>1 DEF Refuse, CellOf, Writing
  <2>2. CASE u # w
    BY <1>5, <1>9, <2>2 DEF Refuse, Reply, TypeOK
  <2> QED
    BY <2>1, <2>2
<1>p. ASSUME NEW w \in Callers, Postpone(w)
      PROVE  CellOf(cell, u)'
  <2>1. UNCHANGED <<stored, confirmed, ask, left>> /\ Doubt(w) /\ ask[w] # None
    BY <1>p DEF Postpone, Reply, Waiting
  <2>2. ~Means(ask[w], cell)
    BY <2>1 DEF Doubt
  <2>3. Writing(u, cell) => reply'[u] = reply[u]
    BY <1>p, <2>2 DEF Postpone, Reply, Writing, TypeOK
  <2> QED
    BY <1>3, <2>1, <2>3 DEF CellOf, Writing
<1>10. ASSUME NEW w \in Callers, Succeed(w)
       PROVE  CellOf(cell, u)'
  <2>1. ask[w] # None /\ reply[w] = "ok" /\ UNCHANGED <<stored, left, reply>>
    BY <1>10 DEF Succeed, End
  <2>2. ask'[w] = None /\ \A v \in Callers \ {w} : ask'[v] = ask[v]
    BY <1>10 DEF Succeed, End, TypeOK
  <2>3. confirmed'[cell] = IF Means(ask[w], cell) THEN Meant(ask[w], cell) ELSE confirmed[cell]
    BY <1>10 DEF Succeed
  <2>4. CASE Means(ask[w], cell)
    BY <1>3, <1>4, <2>1, <2>2, <2>3, <2>4 DEF CellOf, Writing
  <2>5. CASE ~Means(ask[w], cell)
    BY <1>3, <2>1, <2>2, <2>3, <2>5 DEF CellOf, Writing
  <2> QED
    BY <2>4, <2>5
<1>11. ASSUME NEW w \in Callers, Fail(w) \/ Retry(w) \/ NetworkFailure(w) \/ Cancel(w)
       PROVE  CellOf(cell, u)'
  <2>1. UNCHANGED <<stored, confirmed>> /\ ask[w] # None
    BY <1>11 DEF Fail, Retry, NetworkFailure, Cancel, GiveUp
  <2>2. CASE u # w
    <3>1. ask'[u] = ask[u] /\ left'[u] = left[u] /\ reply'[u] = reply[u]
      BY <1>11, <2>2 DEF Fail, Retry, NetworkFailure, Cancel, RetryOrRaise, End, TypeOK
    <3> QED
      BY <1>5, <2>1, <3>1
  <2>3. CASE u = w /\ ~Writing(u, cell)
    <3>1. stored[cell] = confirmed[cell]
      BY <1>3, <2>3 DEF CellOf
    <3>2. ask'[u] \in {ask[u], None}
      BY <1>11, <2>3 DEF Fail, Retry, NetworkFailure, Cancel, RetryOrRaise, End, TypeOK
    <3> QED
      BY <2>1, <2>3, <3>1, <3>2 DEF CellOf, Writing
  <2>4. CASE u = w /\ Writing(u, cell)
    <3>1. ~Doubt(w)
      BY <2>4 DEF Doubt, Writing
    <3>2. CASE Fail(w)
      <4>1. left[w] = Retries /\ reply[w] = "refused" /\ ask'[w] = None
        BY <3>1, <3>2 DEF Fail, End, TypeOK
      <4> QED
        BY <1>3, <2>1, <2>4, <4>1 DEF CellOf, Writing
    <3>3. CASE ~Fail(w)
      <4>1. RetryOrRaise(w) /\ left[w] > 0
        BY <1>11, <3>1, <3>3 DEF Retry, NetworkFailure, Cancel
      <4>2. left'[w] = left[w] - 1 /\ reply'[w] = "none" /\ ask' = ask
        BY <4>1 DEF RetryOrRaise, TypeOK
      <4>3. left'[w] # Retries
        BY <4>2 DEF TypeOK
      <4> QED
        BY <2>1, <2>4, <4>2, <4>3 DEF CellOf, Writing
    <3> QED
      BY <3>2, <3>3
  <2> QED
    BY <2>2, <2>3, <2>4
<1>12. CASE UNCHANGED vars
  BY <1>5, <1>12 DEF vars
<1> QED
  BY <1>6, <1>7, <1>8, <1>9, <1>p, <1>10, <1>11, <1>12 DEF Next

LEMMA InvStep ==
  ASSUME SettingsInv, [Next]_vars
  PROVE  SettingsInv'
<1>1. TypeOK
  BY DEF SettingsInv
<1>2. CellInv'
  BY <1>1, CellStep DEF CellInv, CellOf
<1> QED
  BY <1>1, <1>2, TypeStep, AdriftStep, AskStep DEF SettingsInv

LEMMA InitInv ==
  ASSUME Init
  PROVE  SettingsInv
<1>1. TypeOK
  BY DEF Init, TypeOK
<1>2. AdriftInv /\ AskInv /\ CellInv
  BY DEF Init, AdriftInv, AskInv, CellInv, Writing
<1> QED
  BY <1>1, <1>2 DEF SettingsInv

(* Every variable keeps its type, and every cell is accounted for.         *)
THEOREM SettingsInvCorrect == Spec => []SettingsInv
  BY InvStep, InitInv, PTL DEF Spec

(* A sole writer's last confirmed value stands, whatever others write.     *)
THEOREM SettingsSoleWriter == Spec => []SoleWriterPrevails
<1>1. SettingsInv => SoleWriterPrevails
  BY DEF SettingsInv, CellInv, SoleWriterPrevails
<1> QED
  BY <1>1, SettingsInvCorrect, PTL

(* No step changes a cell to what nobody asked.                            *)
THEOREM SettingsOnlyAsAsked == Spec => OnlyAsAsked
<1> DEFINE Asked(cell) ==
      \E a \in Asks : /\ Means(a, cell) /\ Meant(a, cell) = stored'[cell]
                      /\ \/ \E w \in Callers : ask[w] = a
                         \/ Body(a) \in adrift
<1>1. ASSUME SettingsInv, Next, NEW cell \in Cells, stored'[cell] # stored[cell]
      PROVE  Asked(cell)
  <2>1. ASSUME NEW w \in Callers, Carry(w)
        PROVE  Asked(cell)
    <3>1. ask[w] \in Asks /\ Sendable(ask[w])
      BY <1>1, <2>1 DEF Carry, Reply, Waiting, TypeOK, SettingsInv, AskInv
    <3>2. stored' = After(ask[w])
      BY <2>1, <3>1, PutMeans DEF Carry
    <3> QED
      BY <1>1, <3>1, <3>2 DEF After
  <2>2. ASSUME NEW body \in adrift, Land(body)
        PROVE  Asked(cell)
    <3>1. PICK a \in Asks : Sendable(a) /\ body = Body(a)
      BY <1>1 DEF SettingsInv, AdriftInv
    <3>2. stored' = After(a)
      BY <2>2, <3>1, PutMeans DEF Land
    <3> QED
      BY <1>1, <3>1, <3>2 DEF After
  <2>3. CASE UNCHANGED stored
    BY <1>1, <2>3
  <2> QED
    BY <1>1, <2>1, <2>2, <2>3 DEF Next, Begin, Refuse, Postpone, Succeed, Fail, Retry, NetworkFailure, Cancel, GiveUp
<1>2. SettingsInv /\ [Next]_vars
        => [\A cell \in Cells : stored'[cell] # stored[cell] => Asked(cell)]_vars
  BY <1>1
<1> QED
  BY <1>2, SettingsInvCorrect, PTL DEF Spec, OnlyAsAsked
=============================================================================
