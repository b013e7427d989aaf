----------------------------- MODULE Transactions -----------------------------
(***************************************************************************)
(* transactions.sign, execute and wait_for, over the retry loop of         *)
(* client.request, as the example programs use them: a task makes its      *)
(* calls one after the other, and for each of them signs, executes the     *)
(* uuid it was given and waits for the final status.                       *)
(*                                                                         *)
(* The tasks share one EVM address, where a new signature replaces the     *)
(* ones that were not executed.  A request the client gave up on may still *)
(* reach the gateway, at any time: a retried sign can leave several        *)
(* signatures of one call.                                                 *)
(*                                                                         *)
(* A merchant resumes after an error with the method that raised it, or,   *)
(* once it holds a uuid, by waiting for that uuid.                         *)
(***************************************************************************)
EXTENDS Integers, Sequences

CONSTANTS
  Tasks,
  Calls,          \* of each task: how many calls it makes; the swap makes two
  Retries,        \* the client's retries= argument
  MaxSignatures,  \* bound: signatures the gateway makes
  MaxResumes      \* bound: how often tasks are resumed after an error, in all

ASSUME TransactionsAssumption ==
  /\ Calls \in [Tasks -> Nat \ {0}]
  /\ Retries \in Nat /\ MaxSignatures \in Nat /\ MaxResumes \in Nat

VARIABLES
  call,      \* of each task: the call it is at
  pc,        \* the method it is in: "sign", "execute" or "wait"
  attempt,   \* the request loop's counter
  uuid,      \* the signature it holds, 0 before sign returned
  outcome,   \* "none", "error", or the status wait_for returned last
  resumes,
  sigs,      \* gateway: the signatures made, by uuid
  used,      \* chain: how many nonces of the address are in blocks
  adrift     \* abandoned requests that may still be carried out

taskVars  == <<call, pc, attempt, uuid, outcome, resumes>>
chainVars == <<sigs, used>>
txVars    == <<taskVars, chainVars, adrift>>

Terminal == {"confirmed", "failed", "expired", "cancelled"}
TxStatus == {"signed", "broadcasting", "broadcasted"} \cup Terminal

(* sent: the transaction was given to the network, whatever came of it.    *)
Signature == [task : Tasks, call : Nat, nonce : Nat, status : TxStatus, sent : BOOLEAN]

Requests == [kind : {"sign", "execute"}, task : Tasks, call : Nat, uuid : Nat]

-----------------------------------------------------------------------------
(* The SDK and the program on top of it.                                   *)

Request(t) == [kind |-> pc[t], task |-> t, call |-> call[t], uuid |-> uuid[t]]
Waiting(t, method) == pc[t] = method /\ outcome[t] = "none"

Enter(t, method) ==
  /\ pc' = [pc EXCEPT ![t] = method]
  /\ attempt' = [attempt EXCEPT ![t] = 0]

Raise(t) == outcome' = [outcome EXCEPT ![t] = "error"]

(* Mutation: one attempt more than retries= allows.                        *)
RetryOneTooMany(t) ==
  /\ IF attempt[t] <= Retries
     THEN attempt' = [attempt EXCEPT ![t] = @ + 1] /\ UNCHANGED outcome
     ELSE Raise(t) /\ UNCHANGED attempt
  /\ UNCHANGED <<call, pc, uuid, resumes>>

(* A failure that is retried: send again while the budget lasts, else      *)
(* raise it.                                                               *)
RetryOrRaise(t) ==
  /\ IF attempt[t] < Retries
     THEN attempt' = [attempt EXCEPT ![t] = @ + 1] /\ UNCHANGED outcome
     ELSE Raise(t) /\ UNCHANGED attempt
  /\ UNCHANGED <<call, pc, uuid, resumes>>

(* sign returned: its uuid is executed, before the signature expires.      *)
SignReturns(t, id) ==
  /\ uuid' = [uuid EXCEPT ![t] = id]
  /\ Enter(t, "execute")
  /\ UNCHANGED <<call, outcome, resumes>>

ExecuteReturns(t) ==
  /\ Enter(t, "wait")
  /\ UNCHANGED <<call, uuid, outcome, resumes>>

(* An error that is not retried.                                           *)
ErrorReturns(t) ==
  /\ Raise(t)
  /\ UNCHANGED <<call, pc, attempt, uuid, resumes>>

(* Mutation: what is on the network already counts as final.               *)
FinalOnceSent(status) == status \in Terminal \cup {"broadcasted"}
IsTerminal(status) == status \in Terminal

(* Mutation: the program goes on unless the call has failed.               *)
GoesOnUnlessFailed(status) == status # "failed"
GoesOn(status) == status = "confirmed"

(* wait_for returned: the next call, or the program ends.                  *)
WaitReturns(t) ==
  /\ Waiting(t, "wait") /\ IsTerminal(sigs[uuid[t]].status)
  /\ IF GoesOn(sigs[uuid[t]].status) /\ call[t] < Calls[t]
     THEN /\ call' = [call EXCEPT ![t] = @ + 1]
          /\ uuid' = [uuid EXCEPT ![t] = 0]
          /\ Enter(t, "sign")
          /\ UNCHANGED outcome
     ELSE /\ outcome' = [outcome EXCEPT ![t] = sigs[uuid[t]].status]
          /\ UNCHANGED <<call, pc, attempt, uuid>>
  /\ UNCHANGED <<resumes, chainVars, adrift>>

(* PollTimeoutError, or an error of info.                                  *)
WaitFails(t) ==
  /\ Waiting(t, "wait")
  /\ ErrorReturns(t)
  /\ UNCHANGED <<chainVars, adrift>>

ResumeAt(t, methods) ==
  /\ outcome[t] = "error" /\ resumes < MaxResumes
  /\ resumes' = resumes + 1
  /\ outcome' = [outcome EXCEPT ![t] = "none"]
  /\ \E method \in methods : Enter(t, method)
  /\ UNCHANGED <<call, uuid, chainVars, adrift>>

(* Mutation: whatever raised, the merchant begins the call anew.           *)
ResumeSigning(t) == ResumeAt(t, {"sign"})

(* The merchant tries again the method that raised; when it was execute,   *)
(* it may ask for the status instead.                                      *)
Resume(t) == ResumeAt(t, IF pc[t] = "execute" THEN {"execute", "wait"} ELSE {pc[t]})

-----------------------------------------------------------------------------
(* The gateway and the chain.                                              *)

With(status) == {s \in DOMAIN sigs : sigs[s].status = status}

(* A signature of the next nonce, or of one behind what is on its way.     *)
(* While an execute is unresolved, nothing is signed.                      *)
CarryOutSign(t, c) ==
  /\ Len(sigs) < MaxSignatures /\ With("broadcasting") = {}
  /\ \E n \in {used} \cup {sigs[s].nonce + 1 : s \in With("broadcasted")} :
       sigs' = Append([s \in DOMAIN sigs |->
                         IF s \in With("signed")
                         THEN [sigs[s] EXCEPT !.status = "cancelled"] ELSE sigs[s]],
                      [task |-> t, call |-> c, nonce |-> n, status |-> "signed", sent |-> FALSE])
  /\ UNCHANGED used

(* Nothing is sent over a gap, or with a nonce the chain has used.         *)
Sendable(s) ==
  /\ sigs[s].status \in {"signed", "broadcasting"}
  /\ sigs[s].nonce >= used
  /\ \A n \in used..sigs[s].nonce - 1 : \E r \in With("broadcasted") : sigs[r].nonce = n

CarryOutExecute(s) ==
  /\ s \in DOMAIN sigs /\ Sendable(s)
  /\ \E status \in {"broadcasting", "broadcasted"} :
       sigs' = [sigs EXCEPT ![s].status = status, ![s].sent = TRUE]
  /\ UNCHANGED used

(* The request is carried out.  A 5xx, or no answer in time, says nothing  *)
(* about that.                                                             *)
ServeSign(t) ==
  /\ Waiting(t, "sign")
  /\ CarryOutSign(t, call[t])
  /\ SignReturns(t, Len(sigs) + 1) \/ RetryOrRaise(t) \/ ErrorReturns(t)
  /\ UNCHANGED adrift

ServeExecute(t) ==
  /\ Waiting(t, "execute")
  /\ CarryOutExecute(uuid[t])
  /\ ExecuteReturns(t) \/ RetryOrRaise(t) \/ ErrorReturns(t)
  /\ UNCHANGED adrift

(* Refused, or failed before it was carried out.  Execute of what was      *)
(* executed answers ALREADY_EXECUTED, or the transaction.                  *)
Refuse(t) ==
  /\ Waiting(t, "sign") \/ Waiting(t, "execute")
  /\ \/ RetryOrRaise(t) \/ ErrorReturns(t)
     \/ pc[t] = "execute" /\ sigs[uuid[t]].sent /\ ExecuteReturns(t)
  /\ UNCHANGED <<chainVars, adrift>>

(* The client gives up on a request that is still on its way: no answer in *)
(* time, or a 5xx of something in between, raised at once unless it is 502,*)
(* 503 or 504.                                                             *)
Abandon(t) ==
  /\ Waiting(t, "sign") \/ Waiting(t, "execute")
  /\ RetryOrRaise(t) \/ ErrorReturns(t)
  /\ adrift' = adrift \cup {Request(t)}
  /\ UNCHANGED chainVars

Land ==
  /\ \E r \in adrift :
       /\ \/ r.kind = "sign" /\ CarryOutSign(r.task, r.call)
          \/ r.kind = "execute" /\ CarryOutExecute(r.uuid)
       /\ adrift' = adrift \ {r}
  /\ UNCHANGED taskVars

Expire(s) ==
  /\ sigs[s].status = "signed"
  /\ sigs' = [sigs EXCEPT ![s].status = "expired"]
  /\ UNCHANGED <<taskVars, used, adrift>>

(* What became of an execute whose outcome was not known.                  *)
Resolve(s) ==
  /\ sigs[s].status = "broadcasting"
  /\ \E status \in {"broadcasted", "failed"} : sigs' = [sigs EXCEPT ![s].status = status]
  /\ UNCHANGED <<taskVars, used, adrift>>

(* A block takes the next nonce; it confirms the transaction or reverts    *)
(* it, and no other of that nonce can follow.                              *)
Mine(s) ==
  /\ sigs[s].status = "broadcasted" /\ sigs[s].nonce = used
  /\ \E status \in {"confirmed", "failed"} :
       sigs' = [r \in DOMAIN sigs |->
                  IF r = s THEN [sigs[r] EXCEPT !.status = status]
                  ELSE IF r \in With("broadcasted") /\ sigs[r].nonce = used
                  THEN [sigs[r] EXCEPT !.status = "failed"] ELSE sigs[r]]
  /\ used' = used + 1
  /\ UNCHANGED <<taskVars, adrift>>

-----------------------------------------------------------------------------
Init ==
  /\ call = [t \in Tasks |-> 1]
  /\ pc = [t \in Tasks |-> "sign"]
  /\ attempt = [t \in Tasks |-> 0]
  /\ uuid = [t \in Tasks |-> 0]
  /\ outcome = [t \in Tasks |-> "none"]
  /\ resumes = 0
  /\ sigs = <<>> /\ used = 0 /\ adrift = {}

Next ==
  \/ \E t \in Tasks :
       \/ ServeSign(t) \/ ServeExecute(t) \/ Refuse(t) \/ Abandon(t)
       \/ WaitReturns(t) \/ WaitFails(t) \/ Resume(t)
  \/ Land
  \/ \E s \in DOMAIN sigs : Expire(s) \/ Resolve(s) \/ Mine(s)

Spec == Init /\ [][Next]_txVars

-----------------------------------------------------------------------------
(* Properties.                                                             *)

(* Every variable has its type.                                            *)
TypeOK ==
  /\ call \in [Tasks -> Nat \ {0}]
  /\ pc \in [Tasks -> {"sign", "execute", "wait"}]
  /\ attempt \in [Tasks -> 0..Retries] /\ resumes \in 0..MaxResumes
  /\ uuid \in [Tasks -> Nat]
  /\ outcome \in [Tasks -> {"none", "error"} \cup Terminal]
  /\ sigs \in Seq(Signature) /\ used \in Nat
  /\ adrift \subseteq Requests

Same(r, s) == sigs[r].task = sigs[s].task /\ sigs[r].call = sigs[s].call

(* However often sign and execute are retried, resumed, or carried out     *)
(* after the client gave up on them, at most one signature of a call is    *)
(* ever given to the network.                                              *)
SentOnce ==
  \A r, s \in DOMAIN sigs : Same(r, s) /\ sigs[r].sent /\ sigs[s].sent => r = s

(* "Approve, let that confirm, then swap": a call is not even signed       *)
(* before the one it depends on is confirmed on chain.                     *)
InOrder ==
  \A s \in DOMAIN sigs :
    sigs[s].call > 1 =>
      \E r \in DOMAIN sigs :
        /\ sigs[r].task = sigs[s].task /\ sigs[r].call = sigs[s].call - 1
        /\ sigs[r].status = "confirmed"

(* What the program reports at its end is what became of the transaction,  *)
(* for good; above all, nothing it calls dead can still reach a block.     *)
FinalIsFinal ==
  \A t \in Tasks :
    outcome[t] \notin {"none", "error"} => sigs[uuid[t]].status = outcome[t]

(* What became of a transaction on the network, and what a program knows.  *)
Fate(status) == IF status \in {"confirmed", "failed"} THEN status ELSE "open"

Told(t) ==
  IF outcome[t] = "confirmed" THEN "confirmed"
  ELSE IF outcome[t] \in Terminal THEN "dead" ELSE "nothing"

Abstract == INSTANCE CallSequence WITH
  sent <- [s \in {r \in DOMAIN sigs : sigs[r].sent} |->
             [task |-> sigs[s].task, call |-> sigs[s].call, fate |-> Fate(sigs[s].status)]],
  told <- [t \in Tasks |-> Told(t)]

(* Seen from the chain and from what programs were told, sign, execute and *)
(* wait_for make a CallSequence: whatever is retried, superseded or late,  *)
(* a call is sent once, after the ones before it, and never after its      *)
(* program was told that it is over; and what it was told is true.         *)
ImplementsSequence == Abstract!SSpec
=============================================================================
