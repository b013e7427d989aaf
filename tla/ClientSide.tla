------------------------------ MODULE ClientSide ------------------------------
(***************************************************************************)
(* What the SDK does in memory before and after a request: a behaviour is  *)
(* one call of encode_evm_call (EvmAbi), or the transfers of Jettons, or   *)
(* one job of the conversions: a service's arguments to its request body,  *)
(* a helper's to its contract call, an answer or a webhook event to typed  *)
(* objects, amounts and Borsh arguments to what is sent.                   *)
(***************************************************************************)
EXTENDS EvmAbi, Jettons, Services, Amounts, Borsh

CONSTANTS
  Jobs,             \* the conversions, but for Borsh
  AnchorTypes,      \* the argument types of Anchor methods
  AnchorArgs(_)     \* the arguments they are called with

VARIABLES job, result

clientVars == <<vars, jettonVars, job, result>>

NoJob == [kind |-> "none"]

NoEvmCall  == call = [types |-> <<>>, args |-> <<>>] /\ outcome = "idle" /\ calldata = <<>>
NoTransfer ==
  /\ request = [t \in Transfers |-> Null] /\ step = [t \in Transfers |-> "idle"]
  /\ wallet = [t \in Transfers |-> Null] /\ signed = [t \in Transfers |-> Null]
  /\ cache = {} /\ deployed = Wallets

ClientInit ==
  /\ \/ Init /\ NoTransfer /\ job = NoJob
     \/ NoEvmCall /\ JettonInit /\ job = NoJob
     \/ NoEvmCall /\ NoTransfer /\ job \in Jobs
     \/ /\ NoEvmCall /\ NoTransfer
        /\ \E types \in AnchorTypes : \E args \in AnchorArgs(types) :
             job = [kind |-> "anchor", method |-> "swap", types |-> types, args |-> args]
  /\ result = Null

(* A helper builds its request and hands it to sign.                       *)
Built(helper, req) ==
  CASE helper = "sign_evm_call"    -> SignEvmCall(req)
    [] helper = "erc20_transfer"   -> Erc20Transfer(req)
    [] helper = "sign_anchor_call" -> SignAnchorCall(req)
    [] helper = "sign_solana_call" -> SignSolanaCall(req)
    [] helper = "sign_ton_call"    -> SignTonCall(req)
    [] helper = "nft_transfer"     -> NftTransfer(req)
    [] helper = "send_ton_comment" -> SendTonComment(req)

Done(j) ==
  CASE j.kind = "request"  -> Body(j.route, j.args)
    [] j.kind = "raw"      -> RequestBody(j.value)
    [] j.kind = "helper"   ->
         LET built == Built(j.helper, j.req) IN
         IF built = CryptoChiefError THEN CryptoChiefError
         ELSE Body(TransactionsService.sign, built.members)
    [] j.kind = "response" -> Result(j.route, j.raw)
    [] j.kind = "event"    -> CoerceWebhookEvent(j.prefix, j.raw)
    [] j.kind = "human"    -> HumanToBase(j.human, j.decimals)
    [] j.kind = "base"     -> BaseToHuman(j.base, j.decimals)
    [] j.kind = "anchor"   -> AnchorInstruction(j.method, j.types, j.args)

Work ==
  /\ job # NoJob /\ result = Null
  /\ result' = [of |-> Done(job)]
  /\ UNCHANGED <<vars, jettonVars, job>>

ClientNext ==
  \/ EncodeEvmCall /\ UNCHANGED <<jettonVars, job, result>>
  \/ JettonNext /\ job = NoJob /\ outcome = "idle" /\ UNCHANGED <<vars, job, result>>
  \/ Work

ClientSpec == ClientInit /\ [][ClientNext]_clientVars

-----------------------------------------------------------------------------
(* Properties.                                                             *)

Worked(kinds) == job.kind \in kinds /\ result # Null

Members(raw) == IF raw = Null THEN Obj(Empty) ELSE raw

(* What a service returns is typed all the way down as it is annotated,    *)
(* lists where lists are promised even for null, and holds all of the      *)
(* answer the class declares; a webhook event too, whose dict comes        *)
(* unchanged when its prefix is unknown.  The one None the annotations do  *)
(* not have is an element of a list whose answer had null in its place.    *)
ReadsTyped ==
  /\ Worked({"response"}) =>
       /\ IsA(result.of, job.route.returns)
       /\ Keeps(result.of, IF job.raw.tag = "list" THEN List([i \in DOMAIN job.raw.items |->
                                                               Members(job.raw.items[i])])
                           ELSE IF job.route.returns.kind = "list" THEN job.raw
                           ELSE Members(job.raw))
  /\ Worked({"event"}) =>
       /\ Keeps(result.of, job.raw)
       /\ job.prefix \in DOMAIN EventByPrefix => IsA(result.of, A(EventByPrefix[job.prefix]))

RECURSIVE HasNaN(_)
HasNaN(v) ==
  CASE v.tag \in {"obj", "instance"} -> \E k \in DOMAIN v.members : HasNaN(v.members[k])
    [] v.tag = "list" -> \E i \in DOMAIN v.items : HasNaN(v.items[i])
    [] OTHER -> v = Float("nan")

LacksRequired(j) ==
  \E p \in DOMAIN j.args : j.route.takes[p].kind = "required" /\ j.args[p] = Null

(* The argument of a helper that names the contract called.                *)
Target ==
  [sign_evm_call    |-> "contract",   erc20_transfer   |-> "token_contract",
   sign_anchor_call |-> "program",    sign_solana_call |-> "program",
   sign_ton_call    |-> "contract",   nft_transfer     |-> "nft_item",
   send_ton_comment |-> "recipient"]

(* What a call is worth, where it is worth anything: the amount given; for *)
(* None, "" or zero it is zero, but for an NFT the default budget.         *)
AmountArgument ==
  [sign_evm_call |-> "value", sign_ton_call |-> "value", nft_transfer |-> "attached_ton",
   send_ton_comment |-> "amount_ton"]
SumOf(given, helper) ==
  LET asked == IF helper \in DOMAIN AmountArgument THEN given[AmountArgument[helper]] ELSE Null IN
  IF asked \notin {Null, Val(""), Val("0")} THEN asked
  ELSE IF helper = "nft_transfer" THEN NftAttached ELSE Val("0")

(* What no call can be made of: a method or arguments that do not encode,  *)
(* an NFT or a recipient left out, an address that is none.                *)
Refusable(given, helper) ==
  CASE helper \in {"sign_evm_call", "sign_anchor_call"} -> ~Encodes(given)
    [] helper = "nft_transfer" ->
         \/ {given.nft_item, given.new_owner} \cap {Null, Val("")} # {}
         \/ ~ParsesTon(given.new_owner) \/ ~ParsesTon(given.response_destination)
    [] helper = "send_ton_comment" -> given.recipient \in {Null, Val("")}
    [] OTHER -> FALSE

(* The message of a TON helper is for whom it was meant.                   *)
MeantFor(given, helper, message) ==
  /\ helper = "nft_transfer" =>
       /\ message.destination = given.new_owner
       /\ message.response \in {given.response_destination, given.from_address}
       /\ message.response # given.response_destination =>
            given.response_destination \in {Null, Val("")}
  /\ helper = "send_ton_comment" => message.text = given.text

(* The request a helper made of its arguments is one call of the contract  *)
(* named, with the sender, the amount and the flags that were given, and   *)
(* no others.                                                              *)
CallsAsAsked(given, helper, body) ==
  LET sent == body.calls.items[1].members IN
  /\ Len(body.calls.items) = 1 /\ body.type = Val("contract")
  /\ {"to_address", "value", "contract"} \cap DOMAIN body = {}
  /\ \A f \in {"network", "from_address", "url_callback"} :
       Carries(Obj([k \in {f} \cap DOMAIN body |-> body[k]]), Obj([k \in {f} |-> given[k]]))
  /\ IF helper \in {"sign_anchor_call", "sign_solana_call"} THEN "value" \notin DOMAIN sent
     ELSE sent.value = SumOf(given, helper)
  /\ \A f \in {"accounts", "bounce"} \cap DOMAIN given :
       IF given[f] = Null THEN f \notin DOMAIN sent
       ELSE f \in DOMAIN sent /\ Carries(sent[f], given[f])
  /\ sent.to = given[Target[helper]] /\ MeantFor(given, helper, sent.data.of)

(* A request body carries every argument the caller gave, at any depth,    *)
(* and no None; a call is refused only for NaN or a required None.  A      *)
(* contract call carries what its helper was given, and is refused when    *)
(* and only when no call can be made of that.                              *)
SendsWhatIsSet ==
  /\ Worked({"request"}) =>
       LET given == Obj(Given(job.route, job.args)) IN
       IF result.of = CryptoChiefError THEN HasNaN(given) \/ LacksRequired(job)
       ELSE Carries(result.of, given)
  /\ Worked({"raw"}) =>
       IF result.of = CryptoChiefError THEN HasNaN(job.value) ELSE Carries(result.of, job.value)
  /\ Worked({"helper"}) =>
       IF result.of = CryptoChiefError THEN Refusable(job.req, job.helper)
       ELSE ~Refusable(job.req, job.helper) /\ CallsAsAsked(job.req, job.helper, result.of.members)

(* Amounts are exact: no digit is lost on the way to base units but those  *)
(* below one, nothing but a plain decimal is taken for an amount, and what *)
(* base_to_human prints of an amount that is not negative is read back as  *)
(* the same amount.                                                        *)
AmountExact ==
  /\ Worked({"human"}) => Exact(job.human, job.decimals, result.of)
  /\ Worked({"base"}) => ReadBack(job.base, job.decimals, result.of)

(* A key as its bytes, whichever form it was given in.                     *)
PlainForm(t, v) ==
  IF t.kind = "pubkey" /\ v.form = "base58"
  THEN [form |-> "bytes",
        of |-> CHOOSE b \in [1..KeyLength -> 0..(Byte256 - 1)] : Base58Encode(b) = v.of]
  ELSE v

(* A program reads back the Borsh arguments it was called with, whatever   *)
(* their nesting; a value of its type is never refused, one that does not  *)
(* fit a u128, an array of fixed length or a key always is.                *)
BorshReadsBack ==
  Worked({"anchor"}) =>
    LET misfits == {i \in DOMAIN job.args : ~Fits(job.args[i], job.types[i])}
        prefix  == Discriminator(job.method)
        read    == ReadMany(job.types, Drop(result.of.b, Len(prefix))) IN
    /\ misfits = {} =>
         /\ result.of # BorshError
         /\ SubSeq(result.of.b, 1, Len(prefix)) = prefix
         /\ read.value = [i \in DOMAIN job.args |-> PlainForm(job.types[i], job.args[i])]
         /\ Len(prefix) + read.length = Len(result.of.b)
    /\ (\E i \in misfits : job.types[i].kind \in {"u128", "fixed", "pubkey"}) =>
         result.of = BorshError
=============================================================================
