------------------------------- MODULE Jettons -------------------------------
(***************************************************************************)
(* jetton_transfer: transfers of a client that run side by side.  Each     *)
(* looks up the sender's Jetton wallet unless the caller supplies it, asks *)
(* whether the recipient has one, sizes the gas by the answer and hands a  *)
(* contract call to sign.  They share the cache of the TON RPC client; the *)
(* chain deploys wallets meanwhile.                                        *)
(***************************************************************************)
EXTENDS ContractCalls

CONSTANTS
  Transfers,       \* the transfers of a client
  JettonRequests,  \* what a caller may ask for
  Wallets          \* the Jetton wallets there may be, as <<owner, master>>

VARIABLES
  request,   \* of a transfer: its JettonTransferRequest
  step,      \* of a transfer: what it waits for, or how it ended
  wallet,    \* of a transfer: the Jetton wallet to call, once it is known
  signed,    \* of a transfer: what it handed to sign
  cache,     \* TonRpc._cache: the wallets looked up so far
  deployed   \* the chain: the Jetton wallets that exist

jettonVars == <<request, step, wallet, signed, cache, deployed>>

(* Where the master keeps the balance of an owner: an address of its own   *)
(* for every two of them, whether there is a wallet yet or not.            *)
WalletAddress(owner, master) == [tag |-> "jetton_wallet", owner |-> owner, master |-> master]

Missing == {Null, Val("")}

ExistingWalletGas == Val("70000000")    \* 0.07 TON
NewWalletGas      == Val("150000000")   \* 0.15 TON

(* Mutation: the wallet of an owner, of whatever Jetton.                   *)
CacheKeyByOwner(req) == <<req.from_address>>
CacheKey(req) == <<req.from_address, req.jetton_master>>

Known(k) == \E entry \in cache : entry.key = k

-----------------------------------------------------------------------------
JettonInit ==
  /\ request \in [Transfers -> JettonRequests]
  /\ step = [t \in Transfers |-> "start"]
  /\ wallet = [t \in Transfers |-> Null]
  /\ signed = [t \in Transfers |-> Null]
  /\ cache = {}
  /\ deployed \in SUBSET Wallets

Raise(t) == step' = [step EXCEPT ![t] = "raised"] /\ UNCHANGED <<wallet, signed>>

ResponseTo(req) ==
  IF req.response_destination \in Missing THEN req.from_address ELSE req.response_destination

(* One nanoTON carries a memo along.                                       *)
ForwardTon(req) ==
  IF req.forward_ton_amount # Null THEN req.forward_ton_amount
  ELSE IF req.memo \in Missing THEN Val("0") ELSE Val("1")

Sign(t, to, gas) ==
  LET req == request[t] IN
  /\ signed' = [signed EXCEPT ![t] =
       SignTonCall([network |-> req.network, from_address |-> req.from_address, contract |-> to,
                    bounce |-> Val("True"), value |-> gas, url_callback |-> req.url_callback,
                    body_cell |-> JettonTransferBody(
                      Or(req.query_id, Val("0")), req.amount, req.recipient, ResponseTo(req), ForwardTon(req),
                      IF req.memo \in Missing THEN Null ELSE TextComment(req.memo))])]
  /\ step' = [step EXCEPT ![t] = "signed"]

(* The sender's wallet is known: build the body, and size the gas unless   *)
(* the caller has.                                                         *)
Resolved(t, to) ==
  LET req == request[t] IN
  IF ~ParsesTon(req.recipient) \/ ~ParsesTon(ResponseTo(req)) \/ req.amount = Val("negative")
  THEN Raise(t)
  ELSE /\ wallet' = [wallet EXCEPT ![t] = to]
       /\ \/ req.attached_ton # Null /\ Sign(t, to, req.attached_ton)
          \/ req.attached_ton = Null /\ req.jetton_master \in Missing /\ Sign(t, to, NewWalletGas)
          \/ /\ req.attached_ton = Null /\ req.jetton_master \notin Missing
             /\ step' = [step EXCEPT ![t] = "has_jetton_wallet"] /\ UNCHANGED signed

JettonTransfer(t) ==
  LET req == request[t] IN
  /\ step[t] = "start"
  /\ IF req.recipient \in Missing \/ {req.jetton_master, req.jetton_wallet_address} \subseteq Missing
     THEN Raise(t)
     ELSE IF req.jetton_wallet_address \notin Missing
     THEN Resolved(t, req.jetton_wallet_address)
     ELSE IF Known(CacheKey(req))
     THEN \E entry \in cache : entry.key = CacheKey(req) /\ Resolved(t, entry.wallet)
     ELSE step' = [step EXCEPT ![t] = "via_run_method"] /\ UNCHANGED <<wallet, signed>>
  /\ UNCHANGED <<request, cache, deployed>>

(* A later lookup of the same key overwrites the entry of an earlier one.  *)
LookedUp(t) ==
  LET req == request[t]
      to  == WalletAddress(req.from_address, req.jetton_master) IN
  /\ cache' = {entry \in cache : entry.key # CacheKey(req)} \cup {[key |-> CacheKey(req), wallet |-> to]}
  /\ Resolved(t, to)

(* The get-method of the master works for an owner that has no wallet yet. *)
ViaRunMethod(t) ==
  /\ step[t] = "via_run_method"
  /\ \/ LookedUp(t)
     \/ step' = [step EXCEPT ![t] = "via_index"] /\ UNCHANGED <<wallet, signed, cache>>   \* it failed
  /\ UNCHANGED <<request, deployed>>

(* The indexer knows only wallets that exist.                              *)
ViaIndex(t) ==
  LET req == request[t] IN
  /\ step[t] = "via_index"
  /\ \/ <<req.from_address, req.jetton_master>> \in deployed /\ LookedUp(t)
     \/ Raise(t) /\ UNCHANGED cache
  /\ UNCHANGED <<request, deployed>>

(* Mutation: an RPC error counts as a wallet.                              *)
HasWalletOrError(t, failed) ==
  failed \/ <<request[t].recipient, request[t].jetton_master>> \in deployed

(* has_jetton_wallet: an RPC error is "no", which costs more.              *)
HasJettonWallet(t, failed) ==
  ~failed /\ <<request[t].recipient, request[t].jetton_master>> \in deployed

SizeGas(t) ==
  /\ step[t] = "has_jetton_wallet"
  /\ \E failed \in BOOLEAN :
       Sign(t, wallet[t], IF HasJettonWallet(t, failed) THEN ExistingWalletGas ELSE NewWalletGas)
  /\ UNCHANGED <<request, wallet, cache, deployed>>

Deploy(w) ==
  /\ w \notin deployed /\ deployed' = deployed \cup {w}
  /\ UNCHANGED <<request, step, wallet, signed, cache>>

JettonNext ==
  \/ \E t \in Transfers : JettonTransfer(t) \/ ViaRunMethod(t) \/ ViaIndex(t) \/ SizeGas(t)
  \/ \E w \in Wallets : Deploy(w)

JettonSpec == JettonInit /\ [][JettonNext]_jettonVars

-----------------------------------------------------------------------------
(* A transfer calls the wallet of its own sender and of its own Jetton,    *)
(* whoever filled the cache, or the wallet the caller supplied, and sends  *)
(* to its own recipient; it is budgeted for an existing wallet only when   *)
(* the recipient has one, or the caller said so.                           *)
RightWallet ==
  \A t \in Transfers : step[t] = "signed" =>
    LET req  == request[t]
        call == signed[t].members.calls.items[1].members IN
    /\ call.to = IF req.jetton_wallet_address \in Missing
                 THEN WalletAddress(req.from_address, req.jetton_master)
                 ELSE req.jetton_wallet_address
    /\ call.data.of.destination = req.recipient
    /\ req.attached_ton = Null /\ call.value = ExistingWalletGas =>
         <<req.recipient, req.jetton_master>> \in deployed
=============================================================================
