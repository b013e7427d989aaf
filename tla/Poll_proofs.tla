------------------------------ MODULE Poll_proofs ------------------------------
(* Proofs about Poll, for any arguments, any length of a fetch and any lag. *)
EXTENDS Poll, TLAPS

LEMMA PositiveOrTyped ==
  ASSUME NEW x \in Int, NEW default \in Nat \ {0}
  PROVE  PositiveOr(x, default) \in Nat \ {0}
  BY DEF PositiveOr

(* One more fetch is one more interval.                                    *)
LEMMA OneInterval ==
  ASSUME NEW f \in Nat, NEW i \in Nat
  PROVE  /\ f * i \in Int /\ (f - 1) * i \in Int /\ (f - 2) * i \in Int
         /\ f * i = (f - 1) * i + i
         /\ (f - 1) * i = (f - 2) * i + i
         /\ (f + 1 - 1) * i = f * i
         /\ (f + 1 - 2) * i = (f - 1) * i
  OBVIOUS

LEMMA PauseTyped ==
  ASSUME TypeOK, Pause
  PROVE  /\ pc' \in {"fetch", "sleep", "done"} /\ wakeAt' \in Nat
         /\ outcome' \in {"none", "value", "timeout", "error", "cancelled"}
  BY DEF TypeOK, Pause, Finish, deadline

(* Each variable keeps its type.                                           *)
LEMMA PollTypeNext == TypeOK /\ [Next]_vars => TypeOK'
<1> SUFFICES ASSUME TypeOK, [Next]_vars PROVE TypeOK'
  OBVIOUS
<1> USE DEF TypeOK, args
<1>1. CASE FetchReturns
  BY <1>1, PauseTyped DEF FetchReturns, Finish
<1>2. CASE FetchFails
  BY <1>2, PauseTyped DEF FetchFails, Finish
<1>3. CASE Wake
  BY <1>3 DEF Wake
<1>4. CASE Cancel
  BY <1>4 DEF Cancel, Finish
<1>5. CASE Look
  BY <1>5 DEF Look
<1>6. CASE Turn
  BY <1>6 DEF Turn
<1>7. CASE Tick
  BY <1>7 DEF Tick
<1>8. CASE UNCHANGED vars
  BY <1>8 DEF vars
<1>9. QED
  BY <1>1, <1>2, <1>3, <1>4, <1>5, <1>6, <1>7, <1>8 DEF Next, Loop

LEMMA PollTypeInit == Init => TypeOK
<1> SUFFICES ASSUME Init PROVE TypeOK
  OBVIOUS
<1>1. PICK i \in Intervals : interval = PositiveOr(i, DefaultInterval)
  BY DEF Init
<1>2. PICK t \in Timeouts : timeout = PositiveOr(t, DefaultTimeout)
  BY DEF Init
<1>3. interval \in Nat \ {0} /\ timeout \in Nat \ {0}
  BY <1>1, <1>2, PollAssumption, PositiveOrTyped
<1>4. /\ now = 0 /\ turned = 0 /\ began = 0 /\ wakeAt = 0 /\ fetches = 1
      /\ object \in {"live", "terminal"} /\ look = "none" /\ last = "none"
      /\ failed = FALSE /\ pc = "fetch" /\ outcome = "none"
  BY DEF Init
<1>5. failed \in BOOLEAN
  BY <1>4
<1>6. QED
  BY <1>3, <1>4, <1>5, 0 \in Nat, 1 \in Nat \ {0}, Zenon DEF TypeOK

THEOREM PollTypeCorrect == Spec => []TypeOK
  BY PollTypeInit, PollTypeNext, PTL DEF Spec

(***************************************************************************)
(* The end of an iteration.  The sleep is never set past the deadline, so  *)
(* the next fetch begins at most Lag after it; and either it is a whole    *)
(* interval long, or it ends at the deadline and one fetch is left.        *)
(***************************************************************************)
LEMMA PauseInv ==
  ASSUME TypeOK, TypeOK', FetchInv, OverrunBounded, FetchesBounded, pc = "fetch",
         outcome = "none", turned <= now,
         Pause, last' # "terminal",
         failed' \/ look = "live",
         UNCHANGED <<interval, timeout, now, object, turned, began, fetches>>
  PROVE  TimesInv'
<1> USE PollAssumption DEF TypeOK, deadline
<1>0. /\ fetches * interval \in Int /\ (fetches - 1) * interval \in Int
      /\ fetches * interval = (fetches - 1) * interval + interval
  BY OneInterval
<1>1. OverrunBounded' /\ FetchesBounded' /\ (turned <= now)'
  BY DEF OverrunBounded, FetchesBounded
<1>2. CASE now >= deadline
  <2>1. pc' = "done" /\ outcome' = "timeout"
    BY <1>2 DEF Pause, Finish
  <2>2. TimeoutJustified'
    BY <1>2, <2>1 DEF TimeoutJustified, FetchInv
  <2>3. QED
    BY <1>1, <2>1, <2>2 DEF TimesInv, FetchInv, SleepInv
<1>3. CASE now < deadline
  <2>1. /\ pc' = "sleep" /\ outcome' = "none"
        /\ wakeAt' = now + (IF interval <= deadline - now THEN interval ELSE deadline - now)
    BY <1>3 DEF Pause
  <2>2. began < deadline /\ began <= now
    BY <1>3 DEF FetchInv
  <2>3. (fetches - 1) * interval <= began
    BY <2>2 DEF FetchInv
  <2>4. (fetches - 1) * interval < timeout
    BY <1>0, <2>2, <2>3
  <2>5. now <= wakeAt' /\ wakeAt' <= deadline
    BY <1>3, <2>1
  <2>6. wakeAt' < deadline => fetches * interval <= wakeAt'
    <3>1. SUFFICES ASSUME wakeAt' < deadline PROVE fetches * interval <= wakeAt'
      OBVIOUS
    <3>2. wakeAt' = now + interval
      BY <2>1, <3>1, <1>3
    <3>3. QED
      BY <1>0, <2>2, <2>3, <3>2
  <2>7. SleepInv'
    BY <2>1, <2>4, <2>5, <2>6 DEF SleepInv
  <2>8. QED
    BY <1>1, <2>1, <2>7 DEF TimesInv, FetchInv, TimeoutJustified
<1>4. QED
  BY <1>2, <1>3

LEMMA TimesInvNext == TypeOK /\ TypeOK' /\ TimesInv /\ [Next]_vars => TimesInv'
<1> SUFFICES ASSUME TypeOK, TypeOK', TimesInv, [Next]_vars PROVE TimesInv'
  OBVIOUS
<1> USE PollAssumption DEF TypeOK, deadline, args
<1>i. /\ FetchInv /\ SleepInv /\ OverrunBounded /\ TimeoutJustified /\ FetchesBounded
      /\ outcome # "none" <=> pc = "done"
      /\ turned <= now
  BY DEF TimesInv
<1>e. ASSUME Finish("value") \/ Finish("error") \/ Finish("cancelled"),
             UNCHANGED <<interval, timeout, now, turned, fetches>>
      PROVE  TimesInv'
  BY <1>i, <1>e DEF Finish, TimesInv, FetchInv, SleepInv, OverrunBounded, TimeoutJustified,
                    FetchesBounded
<1>1. CASE FetchReturns
  <2>1. CASE look = "terminal"
    BY <1>1, <1>e, <2>1 DEF FetchReturns
  <2>2. CASE look = "live"
    BY <1>1, <1>i, <2>2, PauseInv DEF FetchReturns
  <2>3. QED
    BY <1>1, <2>1, <2>2 DEF FetchReturns
<1>2. CASE FetchFails
  <2>1. last # "terminal"
    BY <1>2, <1>i DEF FetchFails, FetchInv
  <2>2. CASE Pause
    BY <1>2, <1>i, <2>1, <2>2, PauseInv DEF FetchFails
  <2>3. CASE Finish("error")
    BY <1>2, <1>e, <2>3 DEF FetchFails
  <2>4. QED
    BY <1>2, <2>2, <2>3 DEF FetchFails
<1>3. CASE Wake
  <2>1. (fetches' - 2) * interval' = (fetches - 1) * interval
    BY <1>3, OneInterval DEF Wake
  <2>2. FetchesBounded'
    BY <1>3, <1>i, <2>1 DEF Wake, SleepInv, FetchesBounded
  <2>3. (fetches' - 1) * interval' = fetches * interval /\ fetches * interval \in Int
    BY <1>3, OneInterval DEF Wake
  <2>4. began' < deadline' => (fetches' - 1) * interval' <= began'
    BY <1>3, <1>i, <2>3 DEF Wake, SleepInv
  <2>5. FetchInv'
    BY <1>3, <1>i, <2>4 DEF Wake, SleepInv, FetchInv
  <2>6. QED
    BY <1>3, <1>i, <2>2, <2>5
       DEF Wake, TimesInv, SleepInv, OverrunBounded, TimeoutJustified
<1>4. CASE Cancel
  BY <1>4, <1>e DEF Cancel
<1>5. CASE Look
  BY <1>5, <1>i DEF Look, TimesInv, FetchInv, SleepInv, OverrunBounded, TimeoutJustified,
                    FetchesBounded
<1>6. CASE Turn
  BY <1>6, <1>i DEF Turn, TimesInv, FetchInv, SleepInv, OverrunBounded, TimeoutJustified,
                    FetchesBounded
<1>7. CASE Tick
  <2>1. OverrunBounded'
    BY <1>7, <1>i DEF Tick, OverrunBounded, FetchInv, SleepInv
  <2>2. FetchInv' /\ SleepInv'
    BY <1>7, <1>i DEF Tick, FetchInv, SleepInv
  <2>3. QED
    BY <1>7, <1>i, <2>1, <2>2 DEF Tick, TimesInv, TimeoutJustified, FetchesBounded
<1>8. CASE UNCHANGED vars
  BY <1>8, <1>i DEF vars, TimesInv, FetchInv, SleepInv, OverrunBounded, TimeoutJustified,
                    FetchesBounded
<1>9. QED
  BY <1>1, <1>2, <1>3, <1>4, <1>5, <1>6, <1>7, <1>8 DEF Next, Loop

LEMMA TimesInvInit == Init => TimesInv
<1> SUFFICES ASSUME Init PROVE TimesInv
  OBVIOUS
<1>1. interval \in Nat \ {0} /\ timeout \in Nat \ {0}
  BY PollTypeInit DEF TypeOK
<1>2. (fetches - 1) * interval = 0 /\ (fetches - 2) * interval < timeout
  BY <1>1 DEF Init
<1>3. QED
  BY <1>1, <1>2, PollAssumption
     DEF Init, TimesInv, FetchInv, SleepInv, OverrunBounded, TimeoutJustified, FetchesBounded, deadline

(* The call is where its clock says, always.                               *)
THEOREM PollInvCorrect == Spec => []PollInv
  BY PollTypeInit, PollTypeNext, TimesInvInit, TimesInvNext, PTL DEF Spec, PollInv

(* wait_for outlasts its timeout by a fetch and a late resumption at most. *)
THEOREM PollOverrunBounded == Spec => []OverrunBounded
<1>1. PollInv => OverrunBounded
  BY DEF PollInv, TimesInv
<1>2. QED
  BY <1>1, PollInvCorrect, PTL

(* PollTimeoutError is raised neither early nor over an object that a      *)
(* successful last look, less than FetchMax old, would have found final.   *)
THEOREM PollTimeoutJustified == Spec => []TimeoutJustified
<1>1. PollInv => TimeoutJustified
  BY DEF PollInv, TimesInv
<1>2. QED
  BY <1>1, PollInvCorrect, PTL

(* At most timeout / interval fetches, rounded up, and one more.           *)
THEOREM PollFetchesBounded == Spec => []FetchesBounded
<1>1. PollInv => FetchesBounded
  BY DEF PollInv, TimesInv
<1>2. QED
  BY <1>1, PollInvCorrect, PTL
=============================================================================
