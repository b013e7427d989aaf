--------------------------------- MODULE Poll ---------------------------------
(***************************************************************************)
(* wait_for_terminal: the polling loop behind the wait_for methods of      *)
(* payouts, transactions and pay-ins, and the object it waits for.         *)
(*                                                                         *)
(* The loop awaits twice, the fetch ("fetch") and asyncio.sleep ("sleep"). *)
(* A fetch is one client.request with all its retries; it looks at the     *)
(* object at some instant between its start and its end and takes at most  *)
(* FetchMax.  The event loop resumes a sleeping task at most Lag late.     *)
(* Time is time.monotonic(), counted from the call.                        *)
(***************************************************************************)
EXTENDS Integers

CONSTANTS
  Intervals, Timeouts,  \* values of the two arguments; 0 stands for None too
  DefaultInterval,      \* 5.0
  DefaultTimeout,       \* 600.0
  FetchMax,             \* the longest a fetch takes
  Lag,                  \* the latest a sleeping task is resumed
  MaxTime               \* bound: the last instant of the clock

ASSUME PollAssumption ==
  /\ Intervals \subseteq Int /\ Timeouts \subseteq Int
  /\ DefaultInterval \in Nat \ {0} /\ DefaultTimeout \in Nat \ {0}
  /\ FetchMax \in Nat /\ Lag \in Nat /\ MaxTime \in Nat

VARIABLES
  interval, timeout,  \* the arguments as the loop uses them
  now,
  object,   \* "live", or "terminal" for good
  turned,   \* when the object became terminal
  pc,       \* "fetch", "sleep" or "done"
  began,    \* when the latest fetch began
  look,     \* what that fetch saw; "none" before it looked
  fetches,  \* fetches begun
  failed,   \* the latest fetch to end has failed
  wakeAt,   \* when asyncio.sleep is due
  last,     \* the state the latest successful fetch returned
  outcome   \* how the call ended

args == <<interval, timeout>>
vars == <<args, now, object, turned, pc, began, look, fetches, failed, wakeAt, last, outcome>>

deadline == timeout

(* Mutation: the argument is taken as it is.                               *)
AsGiven(x, default) == x

(* x if x and x > 0 else default                                           *)
PositiveOr(x, default) == IF x > 0 THEN x ELSE default

Init ==
  /\ interval \in {PositiveOr(i, DefaultInterval) : i \in Intervals}
  /\ timeout \in {PositiveOr(t, DefaultTimeout) : t \in Timeouts}
  /\ now = 0
  /\ object \in {"live", "terminal"}
  /\ turned = 0
  /\ pc = "fetch" /\ began = 0 /\ look = "none" /\ fetches = 1
  /\ failed = FALSE /\ wakeAt = 0 /\ last = "none" /\ outcome = "none"

-----------------------------------------------------------------------------
Finish(how) == pc' = "done" /\ outcome' = how /\ UNCHANGED wakeAt

(* Mutation: the last interval is slept whole.                             *)
PauseWholeInterval ==
  IF deadline - now <= 0
  THEN Finish("timeout")
  ELSE /\ pc' = "sleep"
       /\ wakeAt' = now + interval
       /\ UNCHANGED outcome

(* Mutation: no look is taken at the deadline itself.                      *)
PauseOrGiveUpEarly ==
  IF deadline - now <= interval
  THEN Finish("timeout")
  ELSE /\ pc' = "sleep"
       /\ wakeAt' = now + interval
       /\ UNCHANGED outcome

(* The end of an iteration: give up, or sleep for what is left at most.    *)
Pause ==
  LET remaining == deadline - now IN
  IF remaining <= 0
  THEN Finish("timeout")
  ELSE /\ pc' = "sleep"
       /\ wakeAt' = now + (IF interval <= remaining THEN interval ELSE remaining)
       /\ UNCHANGED outcome

FetchReturns ==
  /\ pc = "fetch" /\ look # "none"
  /\ last' = look
  /\ failed' = FALSE
  /\ IF look = "terminal" THEN Finish("value") ELSE Pause
  /\ UNCHANGED <<args, now, object, turned, began, look, fetches>>

(* Mutation: a retryable error is retried at once.                         *)
FetchFailsHot ==
  /\ pc = "fetch"
  /\ failed' = TRUE
  /\ IF now >= deadline
     THEN Finish("timeout") /\ UNCHANGED <<began, look, fetches>>
     ELSE began' = now /\ look' = "none" /\ fetches' = fetches + 1
          /\ UNCHANGED <<pc, wakeAt, outcome>>
  /\ UNCHANGED <<args, now, object, turned, last>>

(* Mutation: the deadline is not looked at after an error.                 *)
FetchFailsForever ==
  /\ pc = "fetch"
  /\ failed' = TRUE
  /\ pc' = "sleep"
  /\ wakeAt' = now + interval
  /\ UNCHANGED <<args, now, object, turned, began, look, fetches, last, outcome>>

(* A retryable error waits for the next tick, any other propagates.        *)
FetchFails ==
  /\ pc = "fetch"
  /\ failed' = TRUE
  /\ Pause \/ Finish("error")
  /\ UNCHANGED <<args, now, object, turned, began, look, fetches, last>>

Wake ==
  /\ pc = "sleep" /\ now >= wakeAt
  /\ pc' = "fetch"
  /\ began' = now
  /\ look' = "none"
  /\ fetches' = fetches + 1
  /\ UNCHANGED <<args, now, object, turned, failed, wakeAt, last, outcome>>

(* CancelledError is no Exception: it propagates from either await.        *)
Cancel ==
  /\ pc # "done"
  /\ Finish("cancelled")
  /\ UNCHANGED <<args, now, object, turned, began, look, fetches, failed, last>>

-----------------------------------------------------------------------------
(* The gateway and the clock.                                              *)

Look ==
  /\ pc = "fetch" /\ look = "none"
  /\ look' = object
  /\ UNCHANGED <<args, now, object, turned, pc, began, fetches, failed, wakeAt, last, outcome>>

(* The object reaches one of its final statuses and stays there.           *)
Turn ==
  /\ object = "live" /\ pc # "done"
  /\ object' = "terminal"
  /\ turned' = now
  /\ UNCHANGED <<args, now, pc, began, look, fetches, failed, wakeAt, last, outcome>>

Tick ==
  /\ now < MaxTime
  /\ pc # "done"
  /\ pc = "fetch" => now < began + FetchMax
  /\ pc = "sleep" => now < wakeAt + Lag
  /\ now' = now + 1
  /\ UNCHANGED <<args, object, turned, pc, began, look, fetches, failed, wakeAt, last, outcome>>

Loop == FetchReturns \/ FetchFails \/ Wake \/ Cancel
Next == Loop \/ Look \/ Turn \/ Tick

Spec == Init /\ [][Next]_vars

(* Time passes, a fetch ends by its own timeouts, a sleep is over when due.*)
FairSpec == Spec /\ WF_vars(Tick) /\ WF_vars(FetchReturns \/ FetchFails) /\ WF_vars(Wake)

-----------------------------------------------------------------------------
(* Properties.                                                             *)

(* Every variable has its type.                                            *)
TypeOK ==
  /\ interval \in Nat \ {0} /\ timeout \in Nat \ {0}
  /\ now \in Nat /\ turned \in Nat /\ began \in Nat /\ wakeAt \in Nat
  /\ fetches \in Nat \ {0}
  /\ object \in {"live", "terminal"}
  /\ look \in {"none", "live", "terminal"} /\ last \in {"none", "live", "terminal"}
  /\ failed \in BOOLEAN
  /\ pc \in {"fetch", "sleep", "done"}
  /\ outcome \in {"none", "value", "timeout", "error", "cancelled"}

(* The wait outlasts its timeout by one fetch and one resumption at most   *)
(* (the clock stands still once the call has ended).                       *)
OverrunBounded == now <= deadline + Lag + FetchMax

(* PollTimeoutError is not raised early, nor over an object that was final *)
(* in time: unless the last fetch failed, that fetch began at most         *)
(* FetchMax before the deadline, and the object was not final by then.     *)
TimeoutJustified ==
  outcome = "timeout" =>
    /\ now >= deadline
    /\ last # "terminal"
    /\ ~failed /\ object = "terminal" => turned >= deadline - FetchMax

(* The loop does not hammer the API, whatever fails and however late it is *)
(* resumed: all fetches but the first and the last are an interval apart.  *)
FetchesBounded == (fetches - 2) * interval < timeout

(* Where each fetch stands in the time allotted to the call.               *)
FetchInv ==
  pc = "fetch" =>
    /\ began <= deadline + Lag
    /\ now - began \in 0..FetchMax
    /\ began < deadline => (fetches - 1) * interval <= began
    /\ look = "live" /\ object = "terminal" => turned >= began
    /\ look = "terminal" => object = "terminal"
    /\ last # "terminal"
SleepInv ==
  pc = "sleep" =>
    /\ now <= wakeAt + Lag
    /\ wakeAt <= deadline
    /\ wakeAt < deadline => fetches * interval <= wakeAt
    /\ (fetches - 1) * interval < timeout
    /\ last # "terminal"
TimesInv ==
  /\ FetchInv /\ SleepInv
  /\ outcome # "none" <=> pc = "done"
  /\ turned <= now
  /\ OverrunBounded /\ TimeoutJustified /\ FetchesBounded

PollInv == TypeOK /\ TimesInv

(* wait_for ends, though nothing but errors come back and the object never *)
(* becomes final.                                                          *)
WaitEnds == <>(pc = "done")
=============================================================================
