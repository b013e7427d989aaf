-------------------------- MODULE Transactions_proofs --------------------------
(* Proofs about Transactions, for any tasks, any number of calls, retries, *)
(* signatures and resumptions.                                             *)
EXTENDS Transactions, TLAPS

(* A signature that was, or still may be, given to the network.            *)
Executable(s) ==
  /\ s \in DOMAIN sigs
  /\ \/ sigs[s].sent
     \/ uuid[sigs[s].task] = s
     \/ \E r \in adrift : r.kind = "execute" /\ r.uuid = s

(* A task past sign holds a signature of the call it is at.                *)
HeldInv ==
  \A t \in Tasks :
    IF pc[t] = "sign" THEN uuid[t] = 0 /\ outcome[t] \notin Terminal
    ELSE uuid[t] \in DOMAIN sigs /\ sigs[uuid[t]].task = t /\ sigs[uuid[t]].call = call[t]

(* What is adrift is of a call the task has come to, and names a signature *)
(* of the task.                                                            *)
AdriftInv ==
  \A r \in adrift :
    /\ r.call \in 1..call[r.task]
    /\ r.kind = "execute" => r.uuid \in DOMAIN sigs

SignedInv == \A s \in DOMAIN sigs : sigs[s].call \in 1..call[sigs[s].task]

(* Of the current call, only the signature the task holds is executable;   *)
(* of any call, only one.                                                  *)
OneInv ==
  /\ \A s \in DOMAIN sigs :
       Executable(s) /\ sigs[s].call = call[sigs[s].task] => uuid[sigs[s].task] = s
  /\ \A r, s \in DOMAIN sigs : Executable(r) /\ Executable(s) /\ Same(r, s) => r = s

ConfirmedInv ==
  \A t \in Tasks : \A c \in Nat \ {0} :
    c < call[t] =>
      \E r \in DOMAIN sigs :
        sigs[r].task = t /\ sigs[r].call = c /\ sigs[r].status = "confirmed"

TxInv ==
  /\ TypeOK /\ HeldInv /\ AdriftInv /\ SignedInv /\ OneInv /\ ConfirmedInv /\ FinalIsFinal

-----------------------------------------------------------------------------
OnNetwork == {"broadcasting", "broadcasted", "confirmed", "failed"}

(* The status says whether a signature was given to the network.           *)
StatusInv == \A s \in DOMAIN sigs : sigs[s].sent <=> sigs[s].status \in OnNetwork

(* What a step may do to the signatures: add some, send those of Sent, and *)
(* never take a sent one back nor change a final status.                   *)
Grows(added, Sent) ==
  /\ sigs' \in Seq(Signature) /\ used' \in Nat
  /\ Len(sigs') = Len(sigs) + added
  /\ \A s \in DOMAIN sigs :
       /\ sigs'[s].task = sigs[s].task /\ sigs'[s].call = sigs[s].call
       /\ sigs[s].status \in Terminal => sigs'[s].status = sigs[s].status
       /\ sigs'[s].sent => sigs[s].sent \/ s \in Sent
       /\ sigs[s].sent => sigs'[s].sent
       /\ (sigs[s].sent <=> sigs[s].status \in OnNetwork) =>
            (sigs'[s].sent <=> sigs'[s].status \in OnNetwork)

LEMMA UnchangedGrows ==
  ASSUME TypeOK, UNCHANGED chainVars
  PROVE  Grows(0, {})
  BY DEF TypeOK, Grows, chainVars

LEMMA SignGrows ==
  ASSUME TypeOK, NEW t \in Tasks, NEW c \in Nat, CarryOutSign(t, c)
  PROVE  /\ Grows(1, {})
         /\ sigs'[Len(sigs) + 1].task = t /\ sigs'[Len(sigs) + 1].call = c
         /\ sigs'[Len(sigs) + 1].sent = FALSE /\ sigs'[Len(sigs) + 1].status = "signed"
<1> DEFINE old == [s \in DOMAIN sigs |-> IF s \in With("signed")
                     THEN [sigs[s] EXCEPT !.status = "cancelled"] ELSE sigs[s]]
<1>1. PICK n \in {used} \cup {sigs[s].nonce + 1 : s \in With("broadcasted")} :
        sigs' = Append(old, [task |-> t, call |-> c, nonce |-> n, status |-> "signed",
                             sent |-> FALSE])
  BY DEF CarryOutSign
<1> DEFINE new == [task |-> t, call |-> c, nonce |-> n, status |-> "signed", sent |-> FALSE]
<1>2. /\ sigs \in Seq(Signature) /\ used \in Nat
      /\ \A s \in DOMAIN sigs : sigs[s] \in Signature
      /\ DOMAIN sigs = 1..Len(sigs) /\ Len(sigs) \in Nat
  BY DEF TypeOK
<1>3. n \in Nat
  BY <1>2 DEF With, Signature
<1>4. new \in Signature
  BY <1>3 DEF Signature, TxStatus
<1>5. \A s \in DOMAIN sigs :
        /\ old[s] \in Signature
        /\ old[s].task = sigs[s].task /\ old[s].call = sigs[s].call
        /\ sigs[s].status \in Terminal => old[s].status = sigs[s].status
        /\ old[s].sent = sigs[s].sent
        /\ old[s].status \in OnNetwork <=> sigs[s].status \in OnNetwork
  BY <1>2 DEF With, Signature, TxStatus, Terminal, OnNetwork
<1>6. old \in Seq(Signature) /\ Len(old) = Len(sigs)
  BY <1>2, <1>5
<1> HIDE DEF old, new
<1>7. /\ sigs' \in Seq(Signature) /\ Len(sigs') = Len(sigs) + 1
      /\ sigs'[Len(sigs) + 1] = new
      /\ \A s \in DOMAIN sigs : sigs'[s] = old[s]
  BY <1>1, <1>2, <1>4, <1>6 DEF new
<1>8. used' \in Nat
  BY <1>2 DEF CarryOutSign
<1>9. QED
  BY <1>5, <1>7, <1>8 DEF Grows, new

LEMMA ExecuteGrows ==
  ASSUME TypeOK, NEW s, CarryOutExecute(s)
  PROVE  Grows(0, {s})
<1>1. s \in DOMAIN sigs /\ sigs[s].status \in {"signed", "broadcasting"}
  BY DEF CarryOutExecute, Sendable
<1>2. PICK status \in {"broadcasting", "broadcasted"} :
        sigs' = [sigs EXCEPT ![s].status = status, ![s].sent = TRUE]
  BY DEF CarryOutExecute
<1>3. /\ sigs \in Seq(Signature) /\ used \in Nat
      /\ \A r \in DOMAIN sigs : sigs[r] \in Signature
      /\ DOMAIN sigs = 1..Len(sigs) /\ Len(sigs) \in Nat
  BY DEF TypeOK
<1>4. [sigs[s] EXCEPT !.status = status, !.sent = TRUE] \in Signature
  BY <1>1, <1>3 DEF Signature, TxStatus
<1>5. sigs' = [sigs EXCEPT ![s] = [sigs[s] EXCEPT !.status = status, !.sent = TRUE]]
  BY <1>1, <1>2, <1>3 DEF Signature
<1>6. sigs' \in Seq(Signature) /\ Len(sigs') = Len(sigs)
  BY <1>1, <1>3, <1>4, <1>5
<1>7. used' \in Nat
  BY <1>3 DEF CarryOutExecute
<1>8. QED
  BY <1>1, <1>3, <1>5, <1>6, <1>7 DEF Grows, Signature, Terminal, OnNetwork

LEMMA ChainGrows ==
  ASSUME TypeOK, NEW s \in DOMAIN sigs, Expire(s) \/ Resolve(s) \/ Mine(s)
  PROVE  Grows(0, {})
<1>1. /\ sigs \in Seq(Signature) /\ used \in Nat
      /\ \A r \in DOMAIN sigs : sigs[r] \in Signature
      /\ DOMAIN sigs = 1..Len(sigs) /\ Len(sigs) \in Nat
  BY DEF TypeOK
<1>2. ASSUME NEW status \in TxStatus, sigs[s].status \notin Terminal,
             status \in OnNetwork <=> sigs[s].status \in OnNetwork,
             sigs' = [sigs EXCEPT ![s].status = status], used' \in Nat
      PROVE  Grows(0, {})
  <2>1. [sigs[s] EXCEPT !.status = status] \in Signature
    BY <1>1 DEF Signature
  <2>2. sigs' \in Seq(Signature) /\ Len(sigs') = Len(sigs)
    BY <1>1, <1>2, <2>1
  <2>3. QED
    BY <1>1, <1>2, <2>2 DEF Grows, Signature
<1>3. CASE Expire(s)
  BY <1>1, <1>2, <1>3 DEF Expire, TxStatus, Terminal, OnNetwork
<1>4. CASE Resolve(s)
  BY <1>1, <1>2, <1>4 DEF Resolve, TxStatus, Terminal, OnNetwork
<1>5. CASE Mine(s)
  <2>1. PICK status \in {"confirmed", "failed"} :
          sigs' = [r \in DOMAIN sigs |->
                     IF r = s THEN [sigs[r] EXCEPT !.status = status]
                     ELSE IF r \in With("broadcasted") /\ sigs[r].nonce = used
                     THEN [sigs[r] EXCEPT !.status = "failed"] ELSE sigs[r]]
    BY <1>5 DEF Mine
  <2>2. \A r \in DOMAIN sigs :
          /\ sigs'[r] \in Signature
          /\ sigs'[r].task = sigs[r].task /\ sigs'[r].call = sigs[r].call
          /\ sigs[r].status \in Terminal => sigs'[r].status = sigs[r].status
          /\ sigs'[r].sent = sigs[r].sent
          /\ sigs'[r].status \in OnNetwork <=> sigs[r].status \in OnNetwork
    BY <1>1, <1>5, <2>1 DEF Mine, With, Signature, TxStatus, Terminal, OnNetwork
  <2>3. DOMAIN sigs' = 1..Len(sigs)
    BY <1>1, <2>1
  <2>4. sigs' \in Seq(Signature) /\ Len(sigs') = Len(sigs)
    BY <1>1, <2>1, <2>2, <2>3
  <2>5. used' \in Nat
    BY <1>1, <1>5 DEF Mine
  <2>6. QED
    BY <2>2, <2>4, <2>5 DEF Grows
<1>6. QED
  BY <1>3, <1>4, <1>5

-----------------------------------------------------------------------------
(* Types.                                                                  *)

LEMMA SigsTyped ==
  ASSUME TypeOK
  PROVE  /\ DOMAIN sigs = 1..Len(sigs) /\ Len(sigs) \in Nat
         /\ \A s \in DOMAIN sigs : sigs[s].task \in Tasks /\ sigs[s].call \in Nat /\ s # 0
<1>1. /\ DOMAIN sigs = 1..Len(sigs) /\ Len(sigs) \in Nat
      /\ \A s \in DOMAIN sigs : sigs[s] \in Signature
  BY DEF TypeOK
<1>2. QED
  BY <1>1 DEF Signature

LEMMA RequestTyped ==
  ASSUME TypeOK, NEW t \in Tasks, Waiting(t, "sign") \/ Waiting(t, "execute")
  PROVE  Request(t) \in Requests
  BY DEF TypeOK, Waiting, Request, Requests

(* What the request loop and the methods do to the task's own variables.   *)
LEMMA TaskTyped ==
  ASSUME TypeOK, TransactionsAssumption, NEW t \in Tasks,
         \/ RetryOrRaise(t) \/ ErrorReturns(t) \/ ExecuteReturns(t)
         \/ \E id \in Nat : SignReturns(t, id)
  PROVE  /\ call' \in [Tasks -> Nat \ {0}]
         /\ pc' \in [Tasks -> {"sign", "execute", "wait"}]
         /\ attempt' \in [Tasks -> 0..Retries] /\ resumes' \in 0..MaxResumes
         /\ uuid' \in [Tasks -> Nat]
         /\ outcome' \in [Tasks -> {"none", "error"} \cup Terminal]
<1> USE DEF TypeOK, TransactionsAssumption, Raise, Enter
<1>1. CASE RetryOrRaise(t)
  <2>1. CASE attempt[t] < Retries
    <3>1. attempt[t] + 1 \in 0..Retries
      BY <2>1
    <3>2. attempt' = [attempt EXCEPT ![t] = attempt[t] + 1] /\ UNCHANGED outcome
      BY <1>1, <2>1 DEF RetryOrRaise
    <3>3. QED
      BY <1>1, <3>1, <3>2 DEF RetryOrRaise
  <2>2. CASE ~(attempt[t] < Retries)
    BY <1>1, <2>2 DEF RetryOrRaise
  <2>3. QED
    BY <2>1, <2>2
<1>2. CASE ErrorReturns(t)
  BY <1>2 DEF ErrorReturns
<1>3. CASE ExecuteReturns(t)
  BY <1>3 DEF ExecuteReturns
<1>4. CASE \E id \in Nat : SignReturns(t, id)
  BY <1>4 DEF SignReturns
<1>5. QED
  BY <1>1, <1>2, <1>3, <1>4

LEMMA TxTypeNext == TransactionsAssumption /\ TypeOK /\ [Next]_txVars => TypeOK'
<1> SUFFICES ASSUME TransactionsAssumption, TypeOK, [Next]_txVars PROVE TypeOK'
  OBVIOUS
<1>1. ASSUME NEW t \in Tasks, ServeSign(t) PROVE TypeOK'
  <2>1. call[t] \in Nat /\ Len(sigs) + 1 \in Nat
    BY DEF TypeOK
  <2>2. sigs' \in Seq(Signature) /\ used' \in Nat
    BY <1>1, <2>1, SignGrows DEF ServeSign, Grows
  <2>3. QED
    BY <1>1, <2>1, <2>2, TaskTyped DEF ServeSign, TypeOK
<1>2. ASSUME NEW t \in Tasks, ServeExecute(t) PROVE TypeOK'
  <2>1. sigs' \in Seq(Signature) /\ used' \in Nat
    BY <1>2, ExecuteGrows DEF ServeExecute, Grows
  <2>2. QED
    BY <1>2, <2>1, TaskTyped DEF ServeExecute, TypeOK
<1>3. ASSUME NEW t \in Tasks, Refuse(t) PROVE TypeOK'
  BY <1>3, TaskTyped DEF Refuse, chainVars, TypeOK
<1>4. ASSUME NEW t \in Tasks, Abandon(t) PROVE TypeOK'
  BY <1>4, TaskTyped, RequestTyped DEF Abandon, chainVars, TypeOK
<1>5. ASSUME NEW t \in Tasks, WaitReturns(t) PROVE TypeOK'
  <2>1. CASE GoesOn(sigs[uuid[t]].status) /\ call[t] < Calls[t]
    <3>1. /\ call' = [call EXCEPT ![t] = call[t] + 1]
          /\ uuid' = [uuid EXCEPT ![t] = 0]
          /\ pc' = [pc EXCEPT ![t] = "sign"]
          /\ attempt' = [attempt EXCEPT ![t] = 0]
          /\ UNCHANGED <<outcome, resumes, sigs, used, adrift>>
      BY <1>5, <2>1 DEF WaitReturns, Enter, chainVars
    <3>2. QED
      BY <3>1 DEF TypeOK, TransactionsAssumption
  <2>2. CASE ~(GoesOn(sigs[uuid[t]].status) /\ call[t] < Calls[t])
    <3>1. sigs[uuid[t]].status \in Terminal
      BY <1>5 DEF WaitReturns, IsTerminal
    <3>2. outcome' = [outcome EXCEPT ![t] = sigs[uuid[t]].status]
          /\ UNCHANGED <<call, pc, attempt, uuid, resumes, sigs, used, adrift>>
      BY <1>5, <2>2 DEF WaitReturns, chainVars
    <3>3. QED
      BY <3>1, <3>2 DEF TypeOK
  <2>3. QED
    BY <2>1, <2>2
<1>6. ASSUME NEW t \in Tasks, WaitFails(t) PROVE TypeOK'
  BY <1>6, TaskTyped DEF WaitFails, chainVars, TypeOK
<1>7. ASSUME NEW t \in Tasks, Resume(t) PROVE TypeOK'
  <2>1. resumes + 1 \in 0..MaxResumes
    BY <1>7 DEF Resume, ResumeAt, TypeOK, TransactionsAssumption
  <2>2. PICK method \in {"sign", "execute", "wait"} : Enter(t, method)
    BY <1>7 DEF Resume, ResumeAt, TypeOK
  <2>3. /\ resumes' = resumes + 1
        /\ outcome' = [outcome EXCEPT ![t] = "none"]
        /\ UNCHANGED <<call, uuid, sigs, used, adrift>>
    BY <1>7 DEF Resume, ResumeAt, chainVars
  <2>4. QED
    BY <2>1, <2>2, <2>3 DEF Enter, TypeOK, TransactionsAssumption
<1>8. CASE Land
  <2>1. PICK r \in adrift :
          /\ \/ r.kind = "sign" /\ CarryOutSign(r.task, r.call)
             \/ r.kind = "execute" /\ CarryOutExecute(r.uuid)
          /\ adrift' = adrift \ {r}
    BY <1>8 DEF Land
  <2>2. r.task \in Tasks /\ r.call \in Nat
    BY DEF TypeOK, Requests
  <2>3. sigs' \in Seq(Signature) /\ used' \in Nat
    BY <2>1, <2>2, SignGrows, ExecuteGrows DEF Grows
  <2>4. QED
    BY <1>8, <2>1, <2>3 DEF Land, taskVars, TypeOK
<1>9. ASSUME NEW s \in DOMAIN sigs, Expire(s) \/ Resolve(s) \/ Mine(s) PROVE TypeOK'
  <2>1. sigs' \in Seq(Signature) /\ used' \in Nat
    BY <1>9, ChainGrows DEF Grows
  <2>2. QED
    BY <1>9, <2>1 DEF Expire, Resolve, Mine, taskVars, TypeOK
<1>10. CASE UNCHANGED txVars
  BY <1>10 DEF txVars, taskVars, chainVars, TypeOK
<1>11. QED
  BY <1>1, <1>2, <1>3, <1>4, <1>5, <1>6, <1>7, <1>8, <1>9, <1>10 DEF Next

-----------------------------------------------------------------------------
(* The invariant.                                                          *)

(* A step that moves no task to another call, nor to another signature.    *)
LEMMA SameCall ==
  ASSUME TxInv, TypeOK', NEW added \in {0, 1}, NEW Sent, Grows(added, Sent),
         UNCHANGED <<call, uuid>>,
         \A t \in Tasks : pc'[t] = "sign" <=> pc[t] = "sign",
         \A t \in Tasks : outcome'[t] \in Terminal =>
           \/ outcome'[t] = outcome[t]
           \/ pc[t] = "wait" /\ outcome'[t] = sigs[uuid[t]].status,
         \A r \in adrift' :
           r \in adrift \/ \E t \in Tasks : r = Request(t),
         \A r \in adrift' : r.kind = "execute" => r \in adrift \/ pc[r.task] = "execute",
         \A s \in Sent : Executable(s),
         added = 1 => /\ ~sigs'[Len(sigs) + 1].sent
                      /\ sigs'[Len(sigs) + 1].call \in 1..call[sigs'[Len(sigs) + 1].task]
  PROVE  TxInv'
<1> USE DEF TxInv
<1>1. /\ sigs \in Seq(Signature) /\ sigs' \in Seq(Signature)
      /\ Len(sigs) \in Nat /\ Len(sigs') = Len(sigs) + added
      /\ DOMAIN sigs = 1..Len(sigs) /\ DOMAIN sigs' = 1..Len(sigs')
      /\ \A s \in DOMAIN sigs : sigs[s] \in Signature
      /\ \A s \in DOMAIN sigs' : sigs'[s] \in Signature
  BY DEF TypeOK, Grows
<1>2. \A s \in DOMAIN sigs :
        /\ s \in DOMAIN sigs'
        /\ sigs'[s].task = sigs[s].task /\ sigs'[s].call = sigs[s].call
        /\ sigs[s].status \in Terminal => sigs'[s].status = sigs[s].status
        /\ sigs'[s].sent => sigs[s].sent \/ s \in Sent
  BY <1>1 DEF Grows
<1>3. HeldInv'
  <2>1. SUFFICES ASSUME NEW t \in Tasks
                 PROVE  IF pc'[t] = "sign" THEN uuid'[t] = 0 /\ outcome'[t] \notin Terminal
                        ELSE /\ uuid'[t] \in DOMAIN sigs' /\ sigs'[uuid'[t]].task = t
                             /\ sigs'[uuid'[t]].call = call'[t]
    BY DEF HeldInv
  <2>2. QED
    BY <1>2, <2>1 DEF HeldInv
<1>4. \A r \in adrift' : r \in adrift \/ (r.call = call[r.task] /\ r.uuid = uuid[r.task]
                                          /\ r.task \in Tasks)
  BY DEF Request
<1>5. AdriftInv'
  <2>1. SUFFICES ASSUME NEW r \in adrift'
                 PROVE  r.call \in 1..call[r.task] /\ (r.kind = "execute" => r.uuid \in DOMAIN sigs)
    BY <1>2 DEF AdriftInv
  <2>2. CASE r \in adrift
    BY <2>2 DEF AdriftInv
  <2>3. CASE r \notin adrift
    BY <1>4, <2>3 DEF TypeOK, HeldInv
  <2>4. QED
    BY <2>2, <2>3
<1>6. SignedInv'
  BY <1>1, <1>2 DEF SignedInv
<1>7. ASSUME NEW s \in DOMAIN sigs', Executable(s)' PROVE s \in DOMAIN sigs /\ Executable(s)
  <2>1. s \in DOMAIN sigs
    <3>1. SUFFICES ASSUME s \notin DOMAIN sigs PROVE FALSE
      OBVIOUS
    <3>2. s = Len(sigs) + 1 /\ added = 1
      BY <1>1, <1>7, <3>1
    <3>3. ~sigs'[s].sent /\ sigs'[s].task \in Tasks
      BY <1>1, <3>2 DEF Signature
    <3>4. uuid[sigs'[s].task] # s
      BY <1>1, <1>7, <3>1, <3>2, <3>3 DEF HeldInv
    <3>5. \A r \in adrift' : r.kind = "execute" => r.uuid # s
      BY <1>4, <3>1 DEF AdriftInv, HeldInv
    <3>6. QED
      BY <1>7, <3>3, <3>4, <3>5 DEF Executable
  <2>2. CASE sigs'[s].sent
    BY <1>2, <2>1, <2>2 DEF Executable
  <2>3. CASE uuid[sigs'[s].task] = s
    BY <1>2, <2>1, <2>3 DEF Executable
  <2>4. CASE \E r \in adrift' : r.kind = "execute" /\ r.uuid = s
    BY <1>4, <2>1, <2>4 DEF Executable, HeldInv
  <2>5. QED
    BY <1>7, <2>2, <2>3, <2>4 DEF Executable
<1>8. OneInv'
  BY <1>2, <1>7 DEF OneInv, Same
<1>9. ConfirmedInv'
  <2>1. SUFFICES ASSUME NEW t \in Tasks, NEW c \in Nat \ {0}, c < call'[t]
                 PROVE  \E r \in DOMAIN sigs' :
                          sigs'[r].task = t /\ sigs'[r].call = c /\ sigs'[r].status = "confirmed"
    BY DEF ConfirmedInv
  <2>2. PICK r \in DOMAIN sigs :
          sigs[r].task = t /\ sigs[r].call = c /\ sigs[r].status = "confirmed"
    BY <2>1 DEF ConfirmedInv
  <2>3. QED
    BY <1>2, <2>2 DEF Terminal
<1>10. FinalIsFinal'
  <2>1. SUFFICES ASSUME NEW t \in Tasks, outcome'[t] \in Terminal
                 PROVE  sigs'[uuid[t]].status = outcome'[t]
    BY DEF FinalIsFinal, TypeOK
  <2>2. uuid[t] \in DOMAIN sigs /\ sigs[uuid[t]].status = outcome'[t]
    BY <2>1 DEF HeldInv, FinalIsFinal, Terminal
  <2>3. QED
    BY <1>2, <2>1, <2>2
<1>11. QED
  BY <1>3, <1>5, <1>6, <1>8, <1>9, <1>10

(* sign returned: the task had no signature of its call, and takes the one *)
(* just made.                                                              *)
LEMMA SignedCall ==
  ASSUME TxInv, TypeOK', NEW t \in Tasks, Waiting(t, "sign"),
         CarryOutSign(t, call[t]), SignReturns(t, Len(sigs) + 1), UNCHANGED adrift
  PROVE  TxInv'
<1> USE DEF TxInv
<1> DEFINE new == Len(sigs) + 1
<1>1. /\ Grows(1, {}) /\ sigs'[new].task = t /\ sigs'[new].call = call[t]
      /\ sigs'[new].sent = FALSE
  BY SignGrows DEF TypeOK
<1>2. /\ sigs \in Seq(Signature) /\ sigs' \in Seq(Signature)
      /\ Len(sigs) \in Nat /\ Len(sigs') = new
      /\ DOMAIN sigs = 1..Len(sigs) /\ DOMAIN sigs' = 1..new
      /\ \A s \in DOMAIN sigs : sigs[s] \in Signature
  BY <1>1 DEF TypeOK, Grows
<1>3. \A s \in DOMAIN sigs :
        /\ s \in DOMAIN sigs' /\ s # new
        /\ sigs'[s].task = sigs[s].task /\ sigs'[s].call = sigs[s].call
        /\ sigs[s].status \in Terminal => sigs'[s].status = sigs[s].status
        /\ sigs'[s].sent => sigs[s].sent
  BY <1>1, <1>2 DEF Grows
<1>4. /\ pc[t] = "sign" /\ outcome[t] = "none" /\ uuid[t] = 0
      /\ uuid' = [uuid EXCEPT ![t] = new]
      /\ pc' = [pc EXCEPT ![t] = "execute"]
      /\ UNCHANGED <<call, outcome, adrift>>
  BY DEF Waiting, SignReturns, Enter, HeldInv
<1>5. /\ uuid'[t] = new /\ pc'[t] = "execute"
      /\ \A u \in Tasks : u # t => uuid'[u] = uuid[u] /\ pc'[u] = pc[u]
  BY <1>4 DEF TypeOK
<1>6. new \in DOMAIN sigs' /\ DOMAIN sigs' = DOMAIN sigs \cup {new}
  BY <1>2
<1> HIDE DEF new
<1>7. HeldInv'
  BY <1>1, <1>3, <1>4, <1>5, <1>6 DEF HeldInv, Terminal
<1>8. AdriftInv'
  BY <1>3, <1>4 DEF AdriftInv
<1>9. SignedInv'
  <2>1. call[t] \in 1..call[t]
    BY DEF TypeOK
  <2>2. QED
    BY <1>1, <1>3, <1>4, <1>6, <2>1 DEF SignedInv
<1>10. ASSUME NEW s \in DOMAIN sigs', Executable(s)', s # new
       PROVE  Executable(s) /\ ~(sigs[s].task = t /\ sigs[s].call = call[t])
  <2>1. s \in DOMAIN sigs /\ sigs[s].task \in Tasks /\ s # 0
    BY <1>6, <1>10, SigsTyped
  <2>2. uuid'[sigs'[s].task] = s => uuid[sigs[s].task] = s
    BY <1>3, <1>5, <1>10, <2>1
  <2>3. Executable(s)
    BY <1>3, <1>4, <1>10, <2>1, <2>2 DEF Executable
  <2>4. QED
    BY <1>4, <2>1, <2>3 DEF OneInv
<1>11. OneInv'
  <2>1. ASSUME NEW s \in DOMAIN sigs', Executable(s)', sigs'[s].call = call'[sigs'[s].task]
        PROVE  uuid'[sigs'[s].task] = s
    <3>1. CASE s = new
      BY <1>1, <1>5, <3>1
    <3>2. CASE s # new
      <4>1. s \in DOMAIN sigs /\ sigs[s].task \in Tasks
        BY <1>2, <1>6, <3>2 DEF Signature
      <4>2. QED
        BY <1>3, <1>4, <1>5, <1>10, <2>1, <3>2, <4>1 DEF OneInv
    <3>3. QED
      BY <3>1, <3>2
  <2>2. ASSUME NEW r \in DOMAIN sigs', NEW s \in DOMAIN sigs', Executable(r)', Executable(s)',
               Same(r, s)'
        PROVE  r = s
    <3>1. CASE r = new \/ s = new
      BY <1>1, <1>3, <1>6, <1>10, <2>2, <3>1 DEF Same
    <3>2. CASE r # new /\ s # new
      BY <1>3, <1>6, <1>10, <2>2, <3>2 DEF OneInv, Same
    <3>3. QED
      BY <3>1, <3>2
  <2>3. QED
    BY <2>1, <2>2 DEF OneInv
<1>12. ConfirmedInv'
  BY <1>3, <1>4 DEF ConfirmedInv, Terminal
<1>13. FinalIsFinal'
  <2>1. SUFFICES ASSUME NEW u \in Tasks, outcome[u] \notin {"none", "error"}
                 PROVE  sigs'[uuid'[u]].status = outcome[u]
    BY <1>4 DEF FinalIsFinal
  <2>2. u # t /\ outcome[u] \in Terminal /\ sigs[uuid[u]].status = outcome[u]
    BY <1>4, <2>1 DEF FinalIsFinal, TypeOK
  <2>3. uuid'[u] \in DOMAIN sigs /\ uuid'[u] = uuid[u]
    BY <1>5, <2>2 DEF HeldInv
  <2>4. QED
    BY <1>3, <2>2, <2>3
<1>14. QED
  BY <1>7, <1>8, <1>9, <1>11, <1>12, <1>13

(* The next call: the signature of the call before is confirmed.           *)
LEMMA NextCall ==
  ASSUME TxInv, TypeOK', NEW t \in Tasks, WaitReturns(t),
         GoesOn(sigs[uuid[t]].status), call[t] < Calls[t]
  PROVE  TxInv'
<1> USE DEF TxInv
<1>1. /\ pc[t] = "wait" /\ outcome[t] = "none" /\ sigs[uuid[t]].status = "confirmed"
      /\ call' = [call EXCEPT ![t] = @ + 1]
      /\ uuid' = [uuid EXCEPT ![t] = 0]
      /\ pc' = [pc EXCEPT ![t] = "sign"]
      /\ UNCHANGED <<outcome, sigs, used, adrift>>
  BY DEF WaitReturns, Waiting, GoesOn, Enter, chainVars
<1>2. /\ call'[t] = call[t] + 1 /\ uuid'[t] = 0 /\ pc'[t] = "sign" /\ call[t] \in Nat \ {0}
      /\ \A u \in Tasks : u # t => uuid'[u] = uuid[u] /\ pc'[u] = pc[u] /\ call'[u] = call[u]
      /\ \A u \in Tasks : call[u] \in Nat /\ call'[u] \in Nat
  BY <1>1 DEF TypeOK
<1>3. \A s \in DOMAIN sigs : sigs[s].task \in Tasks /\ s # 0 /\ sigs[s].call \in Nat
  BY SigsTyped
<1>4. \A r \in adrift : r.task \in Tasks
  BY DEF TypeOK, Requests
<1>5. HeldInv'
  BY <1>1, <1>2 DEF HeldInv, Terminal
<1>6. AdriftInv'
  BY <1>1, <1>2, <1>4 DEF AdriftInv
<1>7. SignedInv'
  BY <1>1, <1>2, <1>3 DEF SignedInv
<1>8. \A s \in DOMAIN sigs : Executable(s)' => Executable(s)
  BY <1>1, <1>2, <1>3 DEF Executable
<1>9. OneInv'
  <2>1. ASSUME NEW s \in DOMAIN sigs, Executable(s)', sigs[s].call = call'[sigs[s].task]
        PROVE  uuid'[sigs[s].task] = s
    <3>1. sigs[s].task # t
      BY <1>2, <1>3, <2>1 DEF SignedInv
    <3>2. QED
      BY <1>2, <1>3, <1>8, <2>1, <3>1 DEF OneInv
  <2>2. QED
    BY <1>1, <1>8, <2>1 DEF OneInv, Same
<1>10. ConfirmedInv'
  <2>1. SUFFICES ASSUME NEW u \in Tasks, NEW c \in Nat \ {0}, c < call'[u]
                 PROVE  \E r \in DOMAIN sigs :
                          sigs[r].task = u /\ sigs[r].call = c /\ sigs[r].status = "confirmed"
    BY <1>1 DEF ConfirmedInv
  <2>2. CASE c < call[u]
    BY <2>2 DEF ConfirmedInv
  <2>3. CASE u = t /\ c = call[t]
    BY <1>1, <2>3 DEF HeldInv
  <2>4. QED
    BY <1>2, <2>1, <2>2, <2>3
<1>11. FinalIsFinal'
  BY <1>1, <1>2 DEF FinalIsFinal, Terminal, TypeOK
<1>12. QED
  BY <1>5, <1>6, <1>7, <1>9, <1>10, <1>11

-----------------------------------------------------------------------------
LEMMA TxInvInit == TransactionsAssumption /\ Init => TxInv
<1> SUFFICES ASSUME TransactionsAssumption, Init PROVE TxInv
  OBVIOUS
<1>1. /\ sigs = <<>> /\ DOMAIN sigs = {} /\ adrift = {} /\ used = 0
      /\ \A t \in Tasks : call[t] = 1 /\ pc[t] = "sign" /\ uuid[t] = 0 /\ outcome[t] = "none"
  BY DEF Init
<1>2. TypeOK
  BY <1>1 DEF Init, TypeOK, TransactionsAssumption
<1>3. HeldInv /\ FinalIsFinal
  BY <1>1 DEF HeldInv, FinalIsFinal, Terminal
<1>4. AdriftInv /\ SignedInv /\ OneInv /\ ConfirmedInv
  BY <1>1 DEF AdriftInv, SignedInv, OneInv, ConfirmedInv
<1>5. QED
  BY <1>2, <1>3, <1>4 DEF TxInv

(* A task whose request is refused, lost or slow stays with its signature. *)
LEMMA TaskStays ==
  ASSUME TxInv, NEW t \in Tasks,
         \/ RetryOrRaise(t) \/ ErrorReturns(t)
         \/ pc[t] = "execute" /\ ExecuteReturns(t)
  PROVE  /\ UNCHANGED <<call, uuid>>
         /\ \A u \in Tasks : pc'[u] = "sign" <=> pc[u] = "sign"
         /\ \A u \in Tasks : outcome'[u] \in Terminal => outcome'[u] = outcome[u]
<1> USE DEF TxInv, TypeOK, Raise, Terminal
<1>1. CASE RetryOrRaise(t)
  BY <1>1 DEF RetryOrRaise
<1>2. CASE ErrorReturns(t)
  BY <1>2 DEF ErrorReturns
<1>3. CASE pc[t] = "execute" /\ ExecuteReturns(t)
  BY <1>3 DEF ExecuteReturns, Enter
<1>4. QED
  BY <1>1, <1>2, <1>3

LEMMA TxInvNext == TransactionsAssumption /\ TxInv /\ [Next]_txVars => TxInv'
<1> SUFFICES ASSUME TransactionsAssumption, TxInv, [Next]_txVars PROVE TxInv'
  OBVIOUS
<1>1. TypeOK /\ TypeOK'
  BY TxTypeNext DEF TxInv
<1>2. \A t \in Tasks : call[t] \in Nat \ {0}
  BY <1>1 DEF TypeOK
<1>3. \A r \in adrift : r.task \in Tasks /\ r.call \in Nat /\ r.call \in 1..call[r.task]
  BY <1>1 DEF TypeOK, Requests, TxInv, AdriftInv
<1>4. ASSUME NEW t \in Tasks, ServeSign(t) PROVE TxInv'
  <2>1. CASE SignReturns(t, Len(sigs) + 1)
    BY <1>1, <1>4, <2>1, SignedCall DEF ServeSign
  <2>2. CASE RetryOrRaise(t) \/ ErrorReturns(t)
    <3>1. /\ Grows(1, {}) /\ ~sigs'[Len(sigs) + 1].sent
          /\ sigs'[Len(sigs) + 1].call = call[t] /\ sigs'[Len(sigs) + 1].task = t
      BY <1>1, <1>2, <1>4, SignGrows DEF ServeSign
    <3>2. call[t] \in 1..call[t] /\ UNCHANGED adrift
      BY <1>2, <1>4 DEF ServeSign
    <3>3. QED
      BY <1>1, <2>2, <3>1, <3>2, TaskStays, SameCall
  <2>3. QED
    BY <1>4, <2>1, <2>2 DEF ServeSign
<1>5. ASSUME NEW t \in Tasks, ServeExecute(t) PROVE TxInv'
  <2>1. /\ pc[t] = "execute" /\ UNCHANGED adrift /\ Grows(0, {uuid[t]})
        /\ RetryOrRaise(t) \/ ErrorReturns(t) \/ ExecuteReturns(t)
    BY <1>1, <1>5, ExecuteGrows DEF ServeExecute, Waiting
  <2>2. Executable(uuid[t])
    BY <2>1 DEF TxInv, HeldInv, Executable
  <2>3. QED
    BY <1>1, <2>1, <2>2, TaskStays, SameCall
<1>6. ASSUME NEW t \in Tasks, Refuse(t) PROVE TxInv'
  <2>1. /\ UNCHANGED adrift /\ Grows(0, {})
        /\ RetryOrRaise(t) \/ ErrorReturns(t) \/ (pc[t] = "execute" /\ ExecuteReturns(t))
    BY <1>1, <1>6, UnchangedGrows DEF Refuse
  <2>2. QED
    BY <1>1, <2>1, TaskStays, SameCall
<1>7. ASSUME NEW t \in Tasks, Abandon(t) PROVE TxInv'
  <2>1. /\ adrift' = adrift \cup {Request(t)} /\ Grows(0, {})
        /\ RetryOrRaise(t) \/ ErrorReturns(t)
    BY <1>1, <1>7, UnchangedGrows DEF Abandon
  <2>2. Request(t).kind = pc[t] /\ Request(t).task = t
    BY DEF Request
  <2>3. \A r \in adrift' : r.kind = "execute" => r \in adrift \/ pc[r.task] = "execute"
    BY <2>1, <2>2
  <2>4. QED
    BY <1>1, <2>1, <2>3, TaskStays, SameCall
<1>8. ASSUME NEW t \in Tasks, WaitReturns(t) PROVE TxInv'
  <2>1. CASE GoesOn(sigs[uuid[t]].status) /\ call[t] < Calls[t]
    BY <1>1, <1>8, <2>1, NextCall
  <2>2. CASE ~(GoesOn(sigs[uuid[t]].status) /\ call[t] < Calls[t])
    <3>1. /\ pc[t] = "wait" /\ UNCHANGED <<call, pc, uuid, adrift>> /\ Grows(0, {})
          /\ outcome' = [outcome EXCEPT ![t] = sigs[uuid[t]].status]
      BY <1>1, <1>8, <2>2, UnchangedGrows DEF WaitReturns, Waiting
    <3>2. \A u \in Tasks : outcome'[u] \in Terminal =>
            \/ outcome'[u] = outcome[u]
            \/ pc[u] = "wait" /\ outcome'[u] = sigs[uuid[u]].status
      <4>1. \A u \in Tasks : u # t => outcome'[u] = outcome[u]
        BY <1>1, <3>1 DEF TypeOK
      <4>2. outcome'[t] = sigs[uuid[t]].status
        BY <1>1, <3>1 DEF TypeOK
      <4>3. QED
        BY <3>1, <4>1, <4>2
    <3>3. QED
      BY <1>1, <3>1, <3>2, SameCall
  <2>3. QED
    BY <2>1, <2>2
<1>9. ASSUME NEW t \in Tasks, WaitFails(t) PROVE TxInv'
  <2>1. UNCHANGED adrift /\ Grows(0, {}) /\ ErrorReturns(t)
    BY <1>1, <1>9, UnchangedGrows DEF WaitFails
  <2>2. QED
    BY <1>1, <2>1, TaskStays, SameCall
<1>10. ASSUME NEW t \in Tasks, Resume(t) PROVE TxInv'
  <2>1. /\ UNCHANGED <<call, uuid, adrift>> /\ Grows(0, {})
        /\ outcome' = [outcome EXCEPT ![t] = "none"]
    BY <1>1, <1>10, UnchangedGrows DEF Resume, ResumeAt
  <2>2. PICK method \in (IF pc[t] = "execute" THEN {"execute", "wait"} ELSE {pc[t]}) :
          pc' = [pc EXCEPT ![t] = method]
    BY <1>10 DEF Resume, ResumeAt, Enter
  <2>3. \A u \in Tasks : pc'[u] = "sign" <=> pc[u] = "sign"
    BY <1>1, <2>2 DEF TypeOK
  <2>4. \A u \in Tasks : outcome'[u] \in Terminal => outcome'[u] = outcome[u]
    BY <1>1, <2>1 DEF TypeOK, Terminal
  <2>5. QED
    BY <1>1, <2>1, <2>3, <2>4, SameCall
<1>11. CASE Land
  <2>1. PICK r \in adrift :
          /\ \/ r.kind = "sign" /\ CarryOutSign(r.task, r.call)
             \/ r.kind = "execute" /\ CarryOutExecute(r.uuid)
          /\ adrift' = adrift \ {r}
    BY <1>11 DEF Land
  <2>2. UNCHANGED <<call, pc, uuid, outcome>>
    BY <1>11 DEF Land, taskVars
  <2>3. CASE r.kind = "sign" /\ CarryOutSign(r.task, r.call)
    <3>1. /\ Grows(1, {}) /\ ~sigs'[Len(sigs) + 1].sent
          /\ sigs'[Len(sigs) + 1].call = r.call /\ sigs'[Len(sigs) + 1].task = r.task
      BY <1>1, <1>3, <2>3, SignGrows
    <3>2. QED
      BY <1>1, <1>3, <2>1, <2>2, <3>1, SameCall
  <2>4. CASE r.kind = "execute" /\ CarryOutExecute(r.uuid)
    <3>1. Grows(0, {r.uuid})
      BY <1>1, <2>4, ExecuteGrows
    <3>2. Executable(r.uuid)
      BY <2>1, <2>4 DEF TxInv, AdriftInv, Executable
    <3>3. QED
      BY <1>1, <2>1, <2>2, <3>1, <3>2, SameCall
  <2>5. QED
    BY <2>1, <2>3, <2>4
<1>12. ASSUME NEW s \in DOMAIN sigs, Expire(s) \/ Resolve(s) \/ Mine(s) PROVE TxInv'
  <2>1. UNCHANGED <<call, pc, uuid, outcome, adrift>> /\ Grows(0, {})
    BY <1>1, <1>12, ChainGrows DEF Expire, Resolve, Mine, taskVars
  <2>2. QED
    BY <1>1, <2>1, SameCall
<1>13. CASE UNCHANGED txVars
  <2>1. UNCHANGED <<call, pc, uuid, outcome, adrift>> /\ Grows(0, {})
    BY <1>1, <1>13, UnchangedGrows DEF txVars, taskVars
  <2>2. QED
    BY <1>1, <2>1, SameCall
<1>14. QED
  BY <1>4, <1>5, <1>6, <1>7, <1>8, <1>9, <1>10, <1>11, <1>12, <1>13 DEF Next

LEMMA TxInvInvariant == Spec => []TxInv
  BY TxInvInit, TxInvNext, TransactionsAssumption, PTL DEF Spec

-----------------------------------------------------------------------------
(* What the runs check.                                                    *)

(* Every variable of the tasks, the gateway and the chain keeps its type.  *)
THEOREM TransactionsTypeCorrect == Spec => []TypeOK
<1>1. TxInv => TypeOK
  BY DEF TxInv
<1>2. QED
  BY <1>1, TxInvInvariant, PTL

(* Of the signatures made of a call, by its request, by a retry of it or   *)
(* by a request given up on, one at most is ever given to the network.     *)
THEOREM SentOnceCorrect == Spec => []SentOnce
<1>1. TxInv => SentOnce
  BY DEF TxInv, OneInv, SentOnce, Executable
<1>2. QED
  BY <1>1, TxInvInvariant, PTL

(* A call is not signed before the one it depends on is confirmed.         *)
THEOREM InOrderCorrect == Spec => []InOrder
<1>1. TxInv => InOrder
  <2> SUFFICES ASSUME TxInv, NEW s \in DOMAIN sigs, sigs[s].call > 1
               PROVE  \E r \in DOMAIN sigs :
                        /\ sigs[r].task = sigs[s].task /\ sigs[r].call = sigs[s].call - 1
                        /\ sigs[r].status = "confirmed"
    BY DEF InOrder
  <2>1. sigs[s].task \in Tasks /\ sigs[s].call \in Nat
    BY SigsTyped DEF TxInv
  <2>2. sigs[s].call - 1 \in Nat \ {0}
    BY <2>1
  <2>3. sigs[s].call - 1 < call[sigs[s].task]
    BY <2>1 DEF TxInv, SignedInv, TypeOK
  <2>4. QED
    BY <2>1, <2>2, <2>3 DEF TxInv, ConfirmedInv
<1>2. QED
  BY <1>1, TxInvInvariant, PTL

(* What a program reports at its end stays what became of its transaction. *)
THEOREM FinalIsFinalCorrect == Spec => []FinalIsFinal
<1>1. TxInv => FinalIsFinal
  BY DEF TxInv
<1>2. QED
  BY <1>1, TxInvInvariant, PTL

-----------------------------------------------------------------------------
(* The signatures and the outcomes as CallSequence promises them.          *)

CallInv == \A t \in Tasks : call[t] \in 1..Calls[t]

SequenceInv == TxInv /\ StatusInv /\ CallInv

(* What a step does to the signatures: it sends one that may be executed,  *)
(* or none at all.                                                         *)
LEMMA StepSends ==
  ASSUME TransactionsAssumption, TxInv, [Next]_txVars
  PROVE  \/ \E s : Executable(s) /\ CarryOutExecute(s) /\ Grows(0, {s})
         \/ \E added \in {0, 1} :
              /\ Grows(added, {})
              /\ added = 1 => /\ sigs'[Len(sigs) + 1].sent = FALSE
                              /\ sigs'[Len(sigs) + 1].status = "signed"
<1> DEFINE Added(n) ==
      /\ Grows(n, {})
      /\ n = 1 => sigs'[Len(sigs) + 1].sent = FALSE /\ sigs'[Len(sigs) + 1].status = "signed"
<1> SUFFICES (\E s : Executable(s) /\ CarryOutExecute(s) /\ Grows(0, {s})) \/ Added(0) \/ Added(1)
  OBVIOUS
<1>1. TypeOK /\ \A t \in Tasks : call[t] \in Nat
  BY DEF TxInv, TypeOK
<1>2. \A r \in adrift : r.task \in Tasks /\ r.call \in Nat
  BY <1>1 DEF TypeOK, Requests
<1>3. UNCHANGED chainVars => Added(0)
  BY <1>1, UnchangedGrows
<1>4. ASSUME NEW t \in Tasks, NEW c \in Nat, CarryOutSign(t, c) PROVE Added(1)
  BY <1>1, <1>4, SignGrows
<1>5. ASSUME NEW s, Executable(s), CarryOutExecute(s)
      PROVE  \E r : Executable(r) /\ CarryOutExecute(r) /\ Grows(0, {r})
  BY <1>1, <1>5, ExecuteGrows
<1>6. ASSUME NEW s \in DOMAIN sigs, Expire(s) \/ Resolve(s) \/ Mine(s) PROVE Added(0)
  BY <1>1, <1>6, ChainGrows
<1> HIDE DEF Added
<1>7. ASSUME NEW t \in Tasks, ServeSign(t) PROVE Added(1)
  BY <1>1, <1>4, <1>7 DEF ServeSign
<1>8. ASSUME NEW t \in Tasks, ServeExecute(t)
      PROVE  \E r : Executable(r) /\ CarryOutExecute(r) /\ Grows(0, {r})
  <2>1. Executable(uuid[t]) /\ CarryOutExecute(uuid[t])
    BY <1>8 DEF ServeExecute, Waiting, TxInv, HeldInv, Executable
  <2>2. QED
    BY <1>5, <2>1
<1>9. CASE Land
  <2>1. PICK r \in adrift :
          \/ r.kind = "sign" /\ CarryOutSign(r.task, r.call)
          \/ r.kind = "execute" /\ CarryOutExecute(r.uuid)
    BY <1>9 DEF Land
  <2>2. r.kind = "execute" => Executable(r.uuid)
    BY DEF TxInv, AdriftInv, Executable
  <2>3. QED
    BY <1>2, <1>4, <1>5, <2>1, <2>2
<1>10. ASSUME NEW t \in Tasks,
              Refuse(t) \/ Abandon(t) \/ WaitReturns(t) \/ WaitFails(t) \/ Resume(t)
       PROVE  Added(0)
  BY <1>3, <1>10 DEF Refuse, Abandon, WaitReturns, WaitFails, Resume, ResumeAt
<1>11. CASE UNCHANGED txVars
  BY <1>3, <1>11 DEF txVars
<1>12. QED
  BY <1>6, <1>7, <1>8, <1>9, <1>10, <1>11 DEF Next

(* The last answer of a program, as wait_for returned it.                  *)
Ends(t) == WaitReturns(t) /\ ~(GoesOn(sigs[uuid[t]].status) /\ call[t] < Calls[t])

(* Only that answer tells the program anything.                            *)
LEMMA StepTells ==
  ASSUME TransactionsAssumption, TxInv, [Next]_txVars, ~\E t \in Tasks : Ends(t)
  PROVE  /\ \A t \in Tasks : Told(t)' = Told(t)
         /\ \A t \in Tasks : call'[t] # call[t] => call'[t] = call[t] + 1 /\ call[t] < Calls[t]
<1> USE DEF Told, Terminal
<1>1. call \in [Tasks -> Nat \ {0}] /\ outcome \in [Tasks -> {"none", "error"} \cup Terminal]
  BY DEF TxInv, TypeOK
<1>2. ASSUME NEW t \in Tasks, outcome[t] = "none", UNCHANGED call,
             UNCHANGED outcome \/ Raise(t)
      PROVE  /\ \A u \in Tasks : Told(u)' = Told(u)
             /\ \A u \in Tasks : call'[u] = call[u]
  BY <1>1, <1>2 DEF Raise
<1>3. ASSUME NEW t \in Tasks, ServeSign(t) \/ ServeExecute(t) \/ Refuse(t) \/ Abandon(t) \/ WaitFails(t)
      PROVE  outcome[t] = "none" /\ UNCHANGED call /\ (UNCHANGED outcome \/ Raise(t))
  BY <1>3 DEF ServeSign, ServeExecute, Refuse, Abandon, WaitFails, Waiting,
              RetryOrRaise, SignReturns, ExecuteReturns, ErrorReturns
<1>4. ASSUME NEW t \in Tasks, WaitReturns(t), ~Ends(t)
      PROVE  /\ UNCHANGED outcome /\ call[t] < Calls[t]
             /\ call' = [call EXCEPT ![t] = @ + 1]
  BY <1>4 DEF WaitReturns, Ends
<1>5. ASSUME NEW t \in Tasks, Resume(t)
      PROVE  /\ outcome[t] = "error" /\ outcome' = [outcome EXCEPT ![t] = "none"]
             /\ UNCHANGED call
  BY <1>5 DEF Resume, ResumeAt
<1>6. ASSUME UNCHANGED taskVars PROVE UNCHANGED <<call, outcome>>
  BY <1>6 DEF taskVars
<1>7. Land \/ (\E s \in DOMAIN sigs : Expire(s) \/ Resolve(s) \/ Mine(s)) \/ UNCHANGED txVars
        => UNCHANGED <<call, outcome>>
  BY <1>6 DEF Land, Expire, Resolve, Mine, txVars
<1> DEFINE Quiet == \A t \in Tasks : Told(t)' = Told(t)
           Moves == \A t \in Tasks : call'[t] # call[t] => call'[t] = call[t] + 1 /\ call[t] < Calls[t]
<1>8. ASSUME NEW t \in Tasks, ServeSign(t) \/ ServeExecute(t) \/ Refuse(t) \/ Abandon(t) \/ WaitFails(t)
      PROVE  Quiet /\ Moves
  BY <1>2, <1>3, <1>8
<1>9. ASSUME NEW t \in Tasks, WaitReturns(t) PROVE Quiet /\ Moves
  <2>1. UNCHANGED outcome /\ call[t] < Calls[t] /\ call' = [call EXCEPT ![t] = @ + 1]
    BY <1>4, <1>9
  <2>2. Quiet
    BY <2>1
  <2>3. Moves
    BY <1>1, <2>1
  <2>4. QED
    BY <2>2, <2>3
<1>10. ASSUME NEW t \in Tasks, Resume(t) PROVE Quiet /\ Moves
  BY <1>1, <1>5, <1>10
<1>11. UNCHANGED <<call, outcome>> => Quiet /\ Moves
  OBVIOUS
<1> HIDE DEF Quiet, Moves
<1>12. Quiet /\ Moves
  BY <1>7, <1>8, <1>9, <1>10, <1>11 DEF Next
<1>13. QED
  BY <1>12 DEF Quiet, Moves

LEMMA SequenceInvInit == TransactionsAssumption /\ Init => SequenceInv
<1> SUFFICES ASSUME TransactionsAssumption, Init PROVE SequenceInv
  OBVIOUS
<1>1. DOMAIN sigs = {} /\ \A t \in Tasks : call[t] = 1 /\ Calls[t] \in Nat \ {0}
  BY DEF Init, TransactionsAssumption
<1>2. QED
  BY <1>1, TxInvInit DEF SequenceInv, StatusInv, CallInv

LEMMA SequenceInvNext == TransactionsAssumption /\ SequenceInv /\ [Next]_txVars => SequenceInv'
<1> SUFFICES ASSUME TransactionsAssumption, SequenceInv, [Next]_txVars PROVE SequenceInv'
  OBVIOUS
<1> USE DEF SequenceInv
<1>1. TxInv /\ TypeOK /\ TxInv'
  BY TxInvNext DEF TxInv
<1>2. /\ DOMAIN sigs = 1..Len(sigs) /\ Len(sigs) \in Nat
      /\ DOMAIN sigs' = 1..Len(sigs')
  BY <1>1 DEF TypeOK, TxInv
<1>3. StatusInv'
  <2>1. CASE \E s : Executable(s) /\ CarryOutExecute(s) /\ Grows(0, {s})
    BY <1>2, <2>1 DEF StatusInv, Grows
  <2>2. CASE \E added \in {0, 1} :
               /\ Grows(added, {})
               /\ added = 1 => /\ sigs'[Len(sigs) + 1].sent = FALSE
                               /\ sigs'[Len(sigs) + 1].status = "signed"
    BY <1>2, <2>2 DEF StatusInv, Grows, OnNetwork
  <2>3. QED
    BY <1>1, <2>1, <2>2, StepSends
<1>4. CallInv'
  <2>1. \A t \in Tasks : call[t] \in Nat \ {0} /\ Calls[t] \in Nat
    BY <1>1 DEF TypeOK, TransactionsAssumption
  <2>2. CASE \E t \in Tasks : Ends(t)
    <3>1. UNCHANGED call
      BY <2>2 DEF Ends, WaitReturns
    <3>2. QED
      BY <3>1 DEF CallInv
  <2>3. CASE ~\E t \in Tasks : Ends(t)
    BY <1>1, <2>1, <2>3, StepTells DEF CallInv
  <2>4. QED
    BY <2>2, <2>3
<1>5. QED
  BY <1>1, <1>3, <1>4

(* A step that sends nothing new settles some transactions, or none.       *)
LEMMA SettlesNext ==
  ASSUME SequenceInv, SequenceInv', NEW added \in {0, 1}, NEW Sent, Grows(added, Sent),
         \A s \in Sent : s \in DOMAIN sigs /\ sigs[s].sent,
         added = 1 => sigs'[Len(sigs) + 1].sent = FALSE,
         \A t \in Tasks : Told(t)' = Told(t)
  PROVE  Abstract!Settle
<1> DEFINE given == {r \in DOMAIN sigs : sigs[r].sent}
           entry(s) == [task |-> sigs[s].task, call |-> sigs[s].call, fate |-> Fate(sigs[s].status)]
           sent == [s \in given |-> entry(s)]
           told == [t \in Tasks |-> Told(t)]
<1>1. /\ DOMAIN sigs = 1..Len(sigs) /\ DOMAIN sigs' = 1..Len(sigs')
      /\ Len(sigs) \in Nat /\ Len(sigs') = Len(sigs) + added
      /\ \A s \in DOMAIN sigs' : sigs'[s] \in Signature
      /\ \A s \in DOMAIN sigs : sigs[s] \in Signature
  BY DEF SequenceInv, TxInv, TypeOK, Grows
<1>2. given' = given
  BY <1>1 DEF Grows
<1>3. told' = told
  OBVIOUS
<1>4. ASSUME NEW s \in given
      PROVE  \/ entry(s)' = entry(s)
             \/ /\ entry(s).fate = "open"
                /\ \E fate \in {"confirmed", "failed"} : entry(s)' = [entry(s) EXCEPT !.fate = fate]
  <2>1. /\ sigs'[s].task = sigs[s].task /\ sigs'[s].call = sigs[s].call
        /\ sigs[s].status \in Terminal => sigs'[s].status = sigs[s].status
    BY <1>4 DEF Grows
  <2>2. CASE Fate(sigs'[s].status) = Fate(sigs[s].status)
    BY <2>1, <2>2
  <2>3. CASE Fate(sigs'[s].status) # Fate(sigs[s].status)
    <3>1. Fate(sigs[s].status) = "open" /\ Fate(sigs'[s].status) \in {"confirmed", "failed"}
      BY <2>1, <2>3 DEF Fate, Terminal
    <3>2. entry(s)' = [entry(s) EXCEPT !.fate = Fate(sigs'[s].status)]
      BY <2>1
    <3>3. QED
      BY <3>1, <3>2
  <2>4. QED
    BY <2>2, <2>3
<1> HIDE DEF given, entry
<1>5. /\ DOMAIN sent = given /\ DOMAIN sent' = given
      /\ \A s \in given : sent[s] = entry(s) /\ sent'[s] = entry(s)'
  BY <1>2
<1> HIDE DEF sent
<1>6. /\ DOMAIN sent' = DOMAIN sent
      /\ \A id \in DOMAIN sent :
           \/ sent'[id] = sent[id]
           \/ /\ sent[id].fate = "open"
              /\ \E fate \in {"confirmed", "failed"} : sent'[id] = [sent[id] EXCEPT !.fate = fate]
  BY <1>4, <1>5
<1>7. QED
  BY <1>3, <1>6 DEF Abstract!Settle, sent, given, entry

(* The calls a task has left behind are confirmed.                         *)
LEMMA BehindIsConfirmed ==
  ASSUME SequenceInv, NEW t \in Tasks, NEW c \in Nat, c < call[t]
  PROVE  \A n \in 1..c : \E r \in DOMAIN sigs :
           sigs[r].sent /\ sigs[r].task = t /\ sigs[r].call = n /\ sigs[r].status = "confirmed"
<1> SUFFICES ASSUME NEW n \in 1..c
             PROVE  \E r \in DOMAIN sigs :
                      sigs[r].sent /\ sigs[r].task = t /\ sigs[r].call = n /\ sigs[r].status = "confirmed"
  OBVIOUS
<1>1. n \in Nat \ {0} /\ call[t] \in Nat /\ n < call[t]
  BY DEF SequenceInv, TxInv, TypeOK
<1>2. PICK r \in DOMAIN sigs : sigs[r].task = t /\ sigs[r].call = n /\ sigs[r].status = "confirmed"
  BY <1>1 DEF SequenceInv, TxInv, ConfirmedInv
<1>3. QED
  BY <1>2 DEF SequenceInv, StatusInv, OnNetwork

(* What is sent is the one signature of the call its task is at, and the   *)
(* task was not told that the call is dead.                                *)
LEMMA SendsNext ==
  ASSUME SequenceInv, NEW s \in DOMAIN sigs, Executable(s), CarryOutExecute(s), ~sigs[s].sent,
         \A t \in Tasks : Told(t)' = Told(t)
  PROVE  Abstract!SNext
<1> DEFINE given == {r \in DOMAIN sigs : sigs[r].sent}
           entry(r) == [task |-> sigs[r].task, call |-> sigs[r].call, fate |-> Fate(sigs[r].status)]
           sent == [r \in given |-> entry(r)]
           told == [t \in Tasks |-> Told(t)]
           t == sigs[s].task
           c == sigs[s].call
<1>1. /\ TxInv /\ t \in Tasks /\ c \in 1..call[t] /\ call[t] \in 1..Calls[t]
      /\ call[t] \in Nat \ {0} /\ Calls[t] \in Nat
      /\ \A r \in DOMAIN sigs : sigs[r] \in Signature
  <2>1. TxInv /\ TypeOK /\ CallInv
    BY DEF SequenceInv, TxInv
  <2>2. t \in Tasks
    BY <2>1, SigsTyped
  <2>3. /\ call[t] \in Nat \ {0} /\ call[t] \in 1..Calls[t] /\ Calls[t] \in Nat
    BY <2>1, <2>2, TransactionsAssumption DEF TypeOK, CallInv, TransactionsAssumption
  <2>4. c \in 1..call[t]
    BY <2>1 DEF TxInv, SignedInv
  <2>5. \A r \in DOMAIN sigs : sigs[r] \in Signature
    BY <2>1 DEF TypeOK
  <2>6. QED
    BY <2>1, <2>2, <2>3, <2>4, <2>5
<1>2. sigs[s].status = "signed"
  BY DEF CarryOutExecute, Sendable, SequenceInv, StatusInv, OnNetwork
<1>3. c = call[t]
  <2>1. SUFFICES ASSUME c < call[t] PROVE FALSE
    BY <1>1
  <2>2. PICK r \in DOMAIN sigs :
          sigs[r].sent /\ sigs[r].task = t /\ sigs[r].call = c /\ sigs[r].status = "confirmed"
    BY <1>1, <2>1, BehindIsConfirmed
  <2>3. r = s
    BY <1>1, <2>2 DEF TxInv, OneInv, Executable, Same
  <2>4. QED
    BY <1>2, <2>2, <2>3
<1>4. uuid[t] = s
  BY <1>1, <1>3 DEF TxInv, OneInv
<1>5. told[t] = "nothing"
  <2>1. s # 0
    BY <1>1, SigsTyped DEF TxInv
  <2>2. outcome[t] \notin Terminal
    BY <1>1, <1>2, <1>4 DEF TxInv, FinalIsFinal, Terminal
  <2>3. QED
    BY <1>1, <2>2 DEF Told, Terminal
<1>6. \A n \in 1..c - 1 : \E r \in given : entry(r) = [task |-> t, call |-> n, fate |-> "confirmed"]
  <2>1. c - 1 \in Nat /\ c - 1 < call[t]
    BY <1>1, <1>3
  <2>2. \A n \in 1..c - 1 : \E r \in DOMAIN sigs :
           sigs[r].sent /\ sigs[r].task = t /\ sigs[r].call = n /\ sigs[r].status = "confirmed"
    BY <1>1, <2>1, BehindIsConfirmed
  <2>3. QED
    BY <2>2 DEF Fate
<1>7. ~\E r \in given : entry(r).task = t /\ entry(r).call = c
  BY <1>1 DEF TxInv, OneInv, Executable, Same
<1>8. /\ s \notin given /\ given' = given \cup {s}
      /\ \A r \in given : entry(r)' = entry(r)
      /\ entry(s)' = [task |-> t, call |-> c, fate |-> "open"]
  <2>1. PICK status \in {"broadcasting", "broadcasted"} :
          sigs' = [sigs EXCEPT ![s].status = status, ![s].sent = TRUE]
    BY DEF CarryOutExecute
  <2>2. /\ DOMAIN sigs' = DOMAIN sigs
        /\ \A r \in DOMAIN sigs : r # s => sigs'[r] = sigs[r]
        /\ sigs'[s] = [sigs[s] EXCEPT !.status = status, !.sent = TRUE]
    BY <1>1, <2>1 DEF TxInv, TypeOK
  <2>3. sigs'[s].task = t /\ sigs'[s].call = c /\ sigs'[s].status = status /\ sigs'[s].sent = TRUE
    BY <1>1, <2>2 DEF Signature
  <2>4. QED
    BY <2>2, <2>3 DEF Fate
<1> HIDE DEF given, entry
<1>9. /\ DOMAIN sent = given /\ \A r \in given : sent[r] = entry(r)
      /\ DOMAIN sent' = given \cup {s}
      /\ sent' = [r \in DOMAIN sent \cup {s} |->
                    IF r = s THEN [task |-> t, call |-> c, fate |-> "open"] ELSE sent[r]]
  BY <1>8
<1>10. told' = told
  OBVIOUS
<1> HIDE DEF sent, told, t, c
<1>11. Abstract!ConfirmedUpTo(t, c - 1)
  BY <1>6, <1>9 DEF Abstract!ConfirmedUpTo, Abstract!IsOf, sent, given, entry
<1>12. ~\E other \in DOMAIN sent : Abstract!IsOf(other, t, c)
  BY <1>7, <1>9 DEF Abstract!IsOf, sent, given, entry
<1>13. t \in Tasks /\ c \in 1..Calls[t]
  BY <1>1, <1>3
<1>14. Abstract!Send(s)
  BY <1>5, <1>9, <1>10, <1>11, <1>12, <1>13 DEF Abstract!Send, sent, told, given, entry
<1>15. s \in DOMAIN sent' \ DOMAIN sent
  BY <1>8, <1>9
<1>16. QED
  BY <1>14, <1>15 DEF Abstract!SNext, sent, given, entry

(* What a program is told at its end: all its calls are confirmed, or the  *)
(* one it is at has failed, or was not sent.                               *)
LEMMA TellsNext ==
  ASSUME SequenceInv, NEW t \in Tasks, Ends(t)
  PROVE  Abstract!Tell(t)
<1> DEFINE given == {r \in DOMAIN sigs : sigs[r].sent}
           entry(r) == [task |-> sigs[r].task, call |-> sigs[r].call, fate |-> Fate(sigs[r].status)]
           sent == [r \in given |-> entry(r)]
           told == [u \in Tasks |-> Told(u)]
           c == call[t]
           status == sigs[uuid[t]].status
<1>1. /\ TxInv /\ c \in 1..Calls[t] /\ c \in Nat \ {0} /\ Calls[t] \in Nat
      /\ outcome \in [Tasks -> {"none", "error"} \cup Terminal]
      /\ uuid[t] \in DOMAIN sigs /\ sigs[uuid[t]].task = t /\ sigs[uuid[t]].call = c
  BY TransactionsAssumption
  DEF SequenceInv, TxInv, TypeOK, HeldInv, CallInv, Ends, WaitReturns, Waiting, TransactionsAssumption
<1>2. /\ outcome[t] = "none" /\ status \in Terminal
      /\ status = "confirmed" => c = Calls[t]
      /\ outcome' = [outcome EXCEPT ![t] = status]
      /\ UNCHANGED sigs
  BY <1>1 DEF Ends, WaitReturns, Waiting, IsTerminal, GoesOn, chainVars
<1>3. /\ told[t] = "nothing"
      /\ told' = [told EXCEPT ![t] = IF status = "confirmed" THEN "confirmed" ELSE "dead"]
  BY <1>1, <1>2 DEF Told, Terminal
<1>4. sent' = sent
  BY <1>2
<1>5. \A n \in 1..c - 1 : \E r \in given : entry(r) = [task |-> t, call |-> n, fate |-> "confirmed"]
  <2>1. c - 1 \in Nat /\ c - 1 < call[t]
    BY <1>1
  <2>2. \A n \in 1..c - 1 : \E r \in DOMAIN sigs :
           sigs[r].sent /\ sigs[r].task = t /\ sigs[r].call = n /\ sigs[r].status = "confirmed"
    BY <2>1, BehindIsConfirmed
  <2>3. QED
    BY <2>2 DEF Fate
<1>6. status = "confirmed" =>
        uuid[t] \in given /\ entry(uuid[t]) = [task |-> t, call |-> c, fate |-> "confirmed"]
  BY <1>1 DEF SequenceInv, StatusInv, OnNetwork, Fate
<1>7. status # "confirmed" =>
        \A r \in given : entry(r).task = t /\ entry(r).call = c => entry(r).fate = "failed"
  <2> SUFFICES ASSUME status # "confirmed", NEW r \in given,
                      sigs[r].task = t, sigs[r].call = c
               PROVE  Fate(sigs[r].status) = "failed"
    OBVIOUS
  <2>1. uuid[t] = r
    BY <1>1 DEF TxInv, OneInv, Executable
  <2>2. status = "failed"
    BY <1>2, <2>1 DEF SequenceInv, StatusInv, OnNetwork, Terminal
  <2>3. QED
    BY <2>1, <2>2 DEF Fate
<1> HIDE DEF given, entry
<1>8. DOMAIN sent = given /\ \A r \in given : sent[r] = entry(r)
  OBVIOUS
<1> HIDE DEF sent, told, c, status
<1>9. Abstract!ConfirmedUpTo(t, c - 1)
  BY <1>5, <1>8 DEF Abstract!ConfirmedUpTo, Abstract!IsOf, sent, given, entry
<1>10. CASE status = "confirmed"
  <2>1. \A n \in 1..Calls[t] :
          \E r \in given : entry(r) = [task |-> t, call |-> n, fate |-> "confirmed"]
    <3>1. \A n \in 1..Calls[t] : n = c \/ n \in 1..c - 1
      BY <1>1, <1>2, <1>10
    <3>2. QED
      BY <1>5, <1>6, <1>10, <3>1
  <2>2. Abstract!ConfirmedUpTo(t, Calls[t])
    BY <1>8, <2>1 DEF Abstract!ConfirmedUpTo, Abstract!IsOf, sent, given, entry
  <2>3. told' = [told EXCEPT ![t] = "confirmed"]
    BY <1>3, <1>10
  <2>4. QED
    BY <1>3, <1>4, <2>2, <2>3 DEF Abstract!Tell, sent, told, given, entry
<1>11. CASE status # "confirmed"
  <2>1. \A id \in DOMAIN sent : Abstract!IsOf(id, t, c) => sent[id].fate = "failed"
    BY <1>7, <1>8, <1>11 DEF Abstract!IsOf, sent, given, entry
  <2>2. told' = [told EXCEPT ![t] = "dead"]
    BY <1>3, <1>11
  <2>3. \E n \in 1..Calls[t] :
          /\ Abstract!ConfirmedUpTo(t, n - 1)
          /\ \A id \in DOMAIN sent : Abstract!IsOf(id, t, n) => sent[id].fate = "failed"
    BY <1>1, <1>9, <2>1
  <2>4. QED
    BY <1>3, <1>4, <2>2, <2>3 DEF Abstract!Tell, sent, told, given, entry
<1>12. QED
  BY <1>10, <1>11

LEMMA SequenceInit == Init => Abstract!SInit
<1> SUFFICES ASSUME Init PROVE Abstract!SInit
  OBVIOUS
<1>1. {r \in DOMAIN sigs : sigs[r].sent} = {}
  BY DEF Init
<1>2. \A t \in Tasks : Told(t) = "nothing"
  BY DEF Init, Told, Terminal
<1>3. QED
  BY <1>1, <1>2 DEF Abstract!SInit

LEMMA SequenceNext ==
  ASSUME TransactionsAssumption, SequenceInv, SequenceInv', [Next]_txVars
  PROVE  Abstract!SNext
<1>1. CASE \E t \in Tasks : Ends(t)
  BY <1>1, TellsNext DEF Abstract!SNext
<1>2. CASE ~\E t \in Tasks : Ends(t)
  <2>1. TxInv /\ TypeOK
    BY DEF SequenceInv, TxInv
  <2>2. \A t \in Tasks : Told(t)' = Told(t)
    BY <1>2, <2>1, StepTells
  <2>3. ASSUME NEW s, Executable(s), CarryOutExecute(s), Grows(0, {s}) PROVE Abstract!SNext
    <3>1. s \in DOMAIN sigs
      BY <2>3 DEF Executable
    <3>2. CASE sigs[s].sent
      BY <2>2, <2>3, <3>1, <3>2, SettlesNext DEF Abstract!SNext
    <3>3. CASE ~sigs[s].sent
      BY <2>2, <2>3, <3>1, <3>3, SendsNext
    <3>4. QED
      BY <3>2, <3>3
  <2>4. ASSUME NEW added \in {0, 1}, Grows(added, {}),
               added = 1 => sigs'[Len(sigs) + 1].sent = FALSE
        PROVE  Abstract!SNext
    <3>1. \E none : Grows(added, none) /\ \A s \in none : s \in DOMAIN sigs /\ sigs[s].sent
      BY <2>4
    <3>2. Abstract!Settle
      BY <2>2, <2>4, <3>1, SettlesNext
    <3>3. QED
      BY <3>2 DEF Abstract!SNext
  <2>5. QED
    BY <2>1, <2>3, <2>4, StepSends
<1>3. QED
  BY <1>1, <1>2

(* Every behaviour of the tasks, the gateway and the chain is one of       *)
(* CallSequence: a call is sent once, after the ones before it, and not    *)
(* after its program was told the end, and what it was told is true.       *)
THEOREM SequenceRefinement == Spec => ImplementsSequence
<1>1. TransactionsAssumption /\ SequenceInv /\ SequenceInv' /\ [Next]_txVars
        => [Abstract!SNext]_(Abstract!sequenceVars)
  BY SequenceNext
<1>2. QED
  BY SequenceInit, SequenceInvInit, SequenceInvNext, <1>1, TransactionsAssumption, PTL
  DEF Spec, ImplementsSequence, Abstract!SSpec
=============================================================================
