---------------------------- MODULE Jettons_proofs ----------------------------
(* Proofs about Jettons, for any transfers, requests and wallets, however  *)
(* the transfers interleave and whatever the chain deploys meanwhile.      *)
EXTENDS Jettons, TLAPS

(* The wallet a transfer is to call.                                       *)
RightTarget(req) ==
  IF req.jetton_wallet_address \in Missing
  THEN WalletAddress(req.from_address, req.jetton_master)
  ELSE req.jetton_wallet_address

(* The contract call in what a transfer handed to sign.                    *)
CallIn(built) == built.members.calls.items[1].members

(* What a transfer may hand to sign: RightWallet, of one transfer.         *)
SignedRight(t) ==
  /\ CallIn(signed[t]).to = RightTarget(request[t])
  /\ CallIn(signed[t]).data.of.destination = request[t].recipient
  /\ request[t].attached_ton = Null /\ CallIn(signed[t]).value = ExistingWalletGas =>
       <<request[t].recipient, request[t].jetton_master>> \in deployed

DomainsInv == DOMAIN step = Transfers /\ DOMAIN wallet = Transfers /\ DOMAIN signed = Transfers

(* Whoever looked it up, an entry holds the wallet its key stands for.     *)
CacheInv == \A entry \in cache : entry.wallet = WalletAddress(entry.key[1], entry.key[2])

(* What a transfer knows while it waits.                                   *)
WaitingInv ==
  \A t \in Transfers :
    /\ step[t] \in {"via_run_method", "via_index"} => request[t].jetton_wallet_address \in Missing
    /\ step[t] = "has_jetton_wallet" =>
         wallet[t] = RightTarget(request[t]) /\ request[t].attached_ton = Null

SignedInv == \A t \in Transfers : step[t] = "signed" => SignedRight(t)

JettonInv == DomainsInv /\ CacheInv /\ WaitingInv /\ SignedInv

-----------------------------------------------------------------------------
LEMMA GasDiffers ==
  /\ ValueString(NewWalletGas) = NewWalletGas
  /\ NewWalletGas # ExistingWalletGas
<1>1. \A x, y : Val(x) = Val(y) => x = y
  <2> SUFFICES ASSUME NEW x, NEW y, Val(x) = Val(y) PROVE x = y
    OBVIOUS
  <2>1. Val(x).v = Val(y).v
    OBVIOUS
  <2>2. QED
    BY <2>1 DEF Val
<1>2. \A x : Val(x) # Null
  <2> SUFFICES ASSUME NEW x, Val(x) = Null PROVE FALSE
    OBVIOUS
  <2>1. Val(x).tag = Null.tag
    OBVIOUS
  <2>2. QED
    BY <2>1 DEF Val, Null
<1>3. "150000000" # "70000000" /\ "150000000" # ""
  OBVIOUS
<1>4. QED
  BY <1>1, <1>2, <1>3 DEF NewWalletGas, ExistingWalletGas, ValueString

(* sign: the call of the wallet given, with the gas given.                 *)
LEMMA SignBuilds ==
  ASSUME NEW t \in Transfers, NEW to, NEW gas, DomainsInv, Sign(t, to, gas)
  PROVE  /\ step' = [step EXCEPT ![t] = "signed"]
         /\ DOMAIN signed' = Transfers
         /\ \A u \in Transfers : u # t => signed'[u] = signed[u]
         /\ CallIn(signed'[t]).to = to /\ CallIn(signed'[t]).value = ValueString(gas)
         /\ CallIn(signed'[t]).data.of.destination = request[t].recipient
<1> DEFINE req == request[t]
           body == JettonTransferBody(
                     Or(req.query_id, Val("0")), req.amount, req.recipient, ResponseTo(req),
                     ForwardTon(req), IF req.memo \in Missing THEN Null ELSE TextComment(req.memo))
           made == [network |-> req.network, from_address |-> req.from_address, contract |-> to,
                    bounce |-> Val("True"), value |-> gas, url_callback |-> req.url_callback,
                    body_cell |-> body]
           sent == CallIn(SignTonCall(made))
<1>1. signed' = [signed EXCEPT ![t] = SignTonCall(made)] /\ step' = [step EXCEPT ![t] = "signed"]
  BY DEF Sign
<1>2. body.destination = req.recipient
  BY DEF JettonTransferBody
<1> HIDE DEF body
<1>3. made.contract = to /\ made.value = gas /\ made.body_cell = body
  OBVIOUS
<1> HIDE DEF made
<1>4. sent.to = to /\ sent.value = ValueString(gas) /\ sent.data.of = body
  BY <1>3 DEF CallIn, SignTonCall, ContractRequest, Call, Object, List, B64
<1>5. DOMAIN signed = Transfers
  BY DEF DomainsInv
<1> HIDE DEF sent
<1>6. signed'[t] = SignTonCall(made) /\ \A u \in Transfers : u # t => signed'[u] = signed[u]
  BY <1>1, <1>5
<1>7. DOMAIN signed' = Transfers
  BY <1>1, <1>5
<1>8. QED
  BY <1>1, <1>2, <1>4, <1>6, <1>7 DEF sent

-----------------------------------------------------------------------------
(* The invariant.                                                          *)

(* A transfer that hands the right wallet to sign, for a gas that fits.    *)
LEMMA SignInv ==
  ASSUME JettonInv, NEW t \in Transfers, NEW gas, Sign(t, RightTarget(request[t]), gas),
         request[t].attached_ton = Null /\ ValueString(gas) = ExistingWalletGas =>
           <<request[t].recipient, request[t].jetton_master>> \in deployed,
         DOMAIN wallet' = Transfers, \A u \in Transfers : u # t => wallet'[u] = wallet[u],
         UNCHANGED <<request, deployed>>
  PROVE  DomainsInv' /\ WaitingInv' /\ SignedInv'
<1> DEFINE to == RightTarget(request[t])
<1>0. DomainsInv /\ Sign(t, to, gas)
  BY DEF JettonInv
<1> HIDE DEF to
<1>1. /\ step' = [step EXCEPT ![t] = "signed"] /\ DOMAIN signed' = Transfers
      /\ \A u \in Transfers : u # t => signed'[u] = signed[u]
      /\ CallIn(signed'[t]).to = to /\ CallIn(signed'[t]).value = ValueString(gas)
      /\ CallIn(signed'[t]).data.of.destination = request[t].recipient
  BY <1>0, SignBuilds
<1>2. /\ DOMAIN step' = Transfers /\ step'[t] = "signed"
      /\ \A u \in Transfers : u # t => step'[u] = step[u]
  BY <1>1 DEF JettonInv, DomainsInv
<1>3. DomainsInv'
  BY <1>1, <1>2 DEF DomainsInv
<1>4. WaitingInv'
  BY <1>2 DEF JettonInv, WaitingInv, RightTarget
<1>5. SignedRight(t)'
  BY <1>1 DEF to, SignedRight, RightTarget
<1>6. \A u \in Transfers : u # t /\ SignedRight(u) => SignedRight(u)'
  BY <1>1 DEF SignedRight, RightTarget
<1>7. SignedInv'
  BY <1>2, <1>5, <1>6 DEF JettonInv, SignedInv
<1>8. QED
  BY <1>3, <1>4, <1>7

(* A transfer goes to another step, and no further.                        *)
LEMMA MoveInv ==
  ASSUME JettonInv, NEW t \in Transfers, NEW where, where # "signed",
         step' = [step EXCEPT ![t] = where],
         where \in {"via_run_method", "via_index"} => request[t].jetton_wallet_address \in Missing,
         where = "has_jetton_wallet" =>
           wallet'[t] = RightTarget(request[t]) /\ request[t].attached_ton = Null,
         DOMAIN wallet' = Transfers, \A u \in Transfers : u # t => wallet'[u] = wallet[u],
         UNCHANGED <<request, signed, deployed>>
  PROVE  DomainsInv' /\ WaitingInv' /\ SignedInv'
<1>1. /\ DOMAIN step' = Transfers /\ step'[t] = where
      /\ \A u \in Transfers : u # t => step'[u] = step[u]
  BY DEF JettonInv, DomainsInv
<1>2. DomainsInv'
  BY <1>1 DEF JettonInv, DomainsInv
<1>3. WaitingInv'
  BY <1>1 DEF JettonInv, WaitingInv, RightTarget
<1>4. SignedInv'
  BY <1>1 DEF JettonInv, SignedInv, SignedRight, RightTarget
<1>5. QED
  BY <1>2, <1>3, <1>4

LEMMA RaiseInv ==
  ASSUME JettonInv, NEW t \in Transfers, Raise(t), UNCHANGED <<request, deployed>>
  PROVE  DomainsInv' /\ WaitingInv' /\ SignedInv'
<1>1. step' = [step EXCEPT ![t] = "raised"] /\ UNCHANGED <<wallet, signed>>
  BY DEF Raise
<1>2. DOMAIN wallet' = Transfers /\ \A u \in Transfers : u # t => wallet'[u] = wallet[u]
  BY <1>1 DEF JettonInv, DomainsInv
<1>3. QED
  BY <1>1, <1>2, MoveInv

LEMMA ResolvedInv ==
  ASSUME JettonInv, NEW t \in Transfers, Resolved(t, RightTarget(request[t])),
         UNCHANGED <<request, deployed>>
  PROVE  DomainsInv' /\ WaitingInv' /\ SignedInv'
<1> DEFINE req == request[t]
           to == RightTarget(req)
<1>1. CASE Raise(t)
  BY <1>1, RaiseInv
<1>2. CASE ~Raise(t)
  <2>1. wallet' = [wallet EXCEPT ![t] = to]
    BY <1>2 DEF Resolved
  <2>2. /\ DOMAIN wallet' = Transfers /\ wallet'[t] = to
        /\ \A u \in Transfers : u # t => wallet'[u] = wallet[u]
    BY <2>1 DEF JettonInv, DomainsInv
  <2>3. CASE req.attached_ton # Null /\ Sign(t, to, req.attached_ton)
    BY <2>2, <2>3, SignInv
  <2>4. CASE req.attached_ton = Null /\ Sign(t, to, NewWalletGas)
    BY <2>2, <2>4, SignInv, GasDiffers
  <2>5. CASE /\ req.attached_ton = Null /\ step' = [step EXCEPT ![t] = "has_jetton_wallet"]
             /\ UNCHANGED signed
    BY <2>2, <2>5, MoveInv
  <2>6. QED
    BY <1>2, <2>3, <2>4, <2>5 DEF Resolved
<1>3. QED
  BY <1>1, <1>2

(* The cache after a lookup, whose key is the sender and the Jetton.       *)
LEMMA LookedUpInv ==
  ASSUME JettonInv, NEW t \in Transfers, LookedUp(t), request[t].jetton_wallet_address \in Missing,
         UNCHANGED <<request, deployed>>
  PROVE  JettonInv'
<1> DEFINE req == request[t]
           to == WalletAddress(req.from_address, req.jetton_master)
           entry == [key |-> CacheKey(req), wallet |-> to]
<1>1. to = RightTarget(req)
  BY DEF RightTarget
<1>2. DomainsInv' /\ WaitingInv' /\ SignedInv'
  BY <1>1, ResolvedInv DEF LookedUp
<1>3. cache' \subseteq cache \cup {entry}
  BY DEF LookedUp
<1>4. entry.wallet = WalletAddress(entry.key[1], entry.key[2])
  BY DEF CacheKey
<1> HIDE DEF entry
<1>5. CacheInv'
  BY <1>3, <1>4 DEF JettonInv, CacheInv
<1>6. QED
  BY <1>2, <1>5 DEF JettonInv

LEMMA JettonTransferInv ==
  ASSUME JettonInv, NEW t \in Transfers, JettonTransfer(t)
  PROVE  JettonInv'
<1> DEFINE req == request[t]
<1>1. UNCHANGED <<request, cache, deployed>> /\ CacheInv'
  BY DEF JettonTransfer, JettonInv, CacheInv
<1>2. CASE Raise(t)
  BY <1>1, <1>2, RaiseInv DEF JettonInv
<1>3. CASE req.jetton_wallet_address \notin Missing /\ Resolved(t, req.jetton_wallet_address)
  <2>1. req.jetton_wallet_address = RightTarget(req)
    BY <1>3 DEF RightTarget
  <2>2. QED
    BY <1>1, <1>3, <2>1, ResolvedInv DEF JettonInv
<1>4. ASSUME req.jetton_wallet_address \in Missing, NEW entry \in cache,
             entry.key = CacheKey(req), Resolved(t, entry.wallet)
      PROVE  JettonInv'
  <2>1. entry.wallet = WalletAddress(req.from_address, req.jetton_master)
    BY <1>4 DEF JettonInv, CacheInv, CacheKey
  <2>2. entry.wallet = RightTarget(req)
    BY <1>4, <2>1 DEF RightTarget
  <2>3. QED
    BY <1>1, <1>4, <2>2, ResolvedInv DEF JettonInv
<1>5. CASE /\ req.jetton_wallet_address \in Missing
           /\ step' = [step EXCEPT ![t] = "via_run_method"] /\ UNCHANGED <<wallet, signed>>
  <2>1. DOMAIN wallet' = Transfers /\ \A u \in Transfers : u # t => wallet'[u] = wallet[u]
    BY <1>5 DEF JettonInv, DomainsInv
  <2>2. QED
    BY <1>1, <1>5, <2>1, MoveInv DEF JettonInv
<1>6. QED
  BY <1>2, <1>3, <1>4, <1>5 DEF JettonTransfer

LEMMA JettonInvNext == JettonInv /\ [JettonNext]_jettonVars => JettonInv'
<1> SUFFICES ASSUME JettonInv, [JettonNext]_jettonVars PROVE JettonInv'
  OBVIOUS
<1>1. ASSUME NEW t \in Transfers, ViaRunMethod(t) PROVE JettonInv'
  <2>1. request[t].jetton_wallet_address \in Missing /\ UNCHANGED <<request, deployed>>
    BY <1>1 DEF ViaRunMethod, JettonInv, WaitingInv
  <2>2. CASE LookedUp(t)
    BY <2>1, <2>2, LookedUpInv
  <2>3. CASE step' = [step EXCEPT ![t] = "via_index"] /\ UNCHANGED <<wallet, signed, cache>>
    <3>1. DOMAIN wallet' = Transfers /\ \A u \in Transfers : u # t => wallet'[u] = wallet[u]
      BY <2>3 DEF JettonInv, DomainsInv
    <3>2. DomainsInv' /\ WaitingInv' /\ SignedInv'
      BY <2>1, <2>3, <3>1, MoveInv
    <3>3. QED
      BY <2>3, <3>2 DEF JettonInv, CacheInv
  <2>4. QED
    BY <1>1, <2>2, <2>3 DEF ViaRunMethod
<1>2. ASSUME NEW t \in Transfers, ViaIndex(t) PROVE JettonInv'
  <2>1. request[t].jetton_wallet_address \in Missing /\ UNCHANGED <<request, deployed>>
    BY <1>2 DEF ViaIndex, JettonInv, WaitingInv
  <2>2. CASE LookedUp(t)
    BY <2>1, <2>2, LookedUpInv
  <2>3. CASE Raise(t) /\ UNCHANGED cache
    BY <2>1, <2>3, RaiseInv DEF JettonInv, CacheInv
  <2>4. QED
    BY <1>2, <2>2, <2>3 DEF ViaIndex
<1>3. ASSUME NEW t \in Transfers, SizeGas(t) PROVE JettonInv'
  <2>1. /\ wallet[t] = RightTarget(request[t]) /\ UNCHANGED <<request, wallet, cache, deployed>>
        /\ DOMAIN wallet' = Transfers
    BY <1>3 DEF SizeGas, JettonInv, WaitingInv, DomainsInv
  <2>2. PICK failed \in BOOLEAN :
          Sign(t, wallet[t], IF HasJettonWallet(t, failed) THEN ExistingWalletGas ELSE NewWalletGas)
    BY <1>3 DEF SizeGas
  <2>3. DomainsInv' /\ WaitingInv' /\ SignedInv'
    <3>1. CASE HasJettonWallet(t, failed)
      BY <2>1, <2>2, <3>1, SignInv DEF HasJettonWallet
    <3>2. CASE ~HasJettonWallet(t, failed)
      BY <2>1, <2>2, <3>2, SignInv, GasDiffers
    <3>3. QED
      BY <3>1, <3>2
  <2>4. QED
    BY <2>1, <2>3 DEF JettonInv, CacheInv
<1>4. ASSUME NEW w \in Wallets, Deploy(w) PROVE JettonInv'
  <2>1. UNCHANGED <<request, step, wallet, signed, cache>> /\ deployed \subseteq deployed'
    BY <1>4 DEF Deploy
  <2>2. \A t \in Transfers : SignedRight(t) => SignedRight(t)'
    BY <2>1 DEF SignedRight, RightTarget
  <2>3. QED
    BY <2>1, <2>2 DEF JettonInv, DomainsInv, CacheInv, WaitingInv, SignedInv, RightTarget
<1>5. CASE UNCHANGED jettonVars
  BY <1>5 DEF jettonVars, JettonInv, DomainsInv, CacheInv, WaitingInv, SignedInv, SignedRight,
              RightTarget
<1>6. QED
  BY <1>1, <1>2, <1>3, <1>4, <1>5, JettonTransferInv DEF JettonNext

(* A transfer calls the wallet of its own sender and Jetton, or the one    *)
(* the caller supplied, whoever filled the cache that all of them share;   *)
(* and pays for an existing wallet only where there is one.                *)
THEOREM RightWalletCorrect == JettonSpec => []RightWallet
<1>1. JettonInit => JettonInv
  BY DEF JettonInit, JettonInv, DomainsInv, CacheInv, WaitingInv, SignedInv
<1>2. JettonInv => RightWallet
  BY DEF JettonInv, SignedInv, SignedRight, CallIn, RightTarget, RightWallet
<1>3. QED
  BY <1>1, <1>2, JettonInvNext, PTL DEF JettonSpec
=============================================================================
