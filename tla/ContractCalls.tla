---------------------------- MODULE ContractCalls ----------------------------
(***************************************************************************)
(* The helpers of TransactionsService that build a contract call and sign  *)
(* it.  A request is a record of values, Null where an argument is left    *)
(* out; what a helper builds is the instance it hands to sign.             *)
(***************************************************************************)
EXTENDS PyValues

(* Bytes as the text the API takes them in.                                *)
Hex(bytes) == [tag |-> "hex", of |-> bytes]
B64(bytes) == [tag |-> "base64", of |-> bytes]

(* Mutation: a test for None where the code tests for truth.               *)
ZeroIfNone(v) == IF v = Null THEN Val("0") ELSE v

(* _value_string: a call without a value sends zero.                       *)
ValueString(v) == IF v \in {Null, Val("")} THEN Val("0") ELSE v

Call(to, data, value, accounts, bounce) ==
  Object("ContractCall", [to |-> to, data |-> data, value |-> value, accounts |-> accounts,
                          bounce |-> bounce])

ContractRequest(req, call) ==
  Object("SignTransactionRequest",
         [network |-> req.network, from_address |-> req.from_address, type |-> Val("contract"),
          url_callback |-> req.url_callback, calls |-> List(<<call>>),
          to_address |-> Null, value |-> Null, contract |-> Null])

(* The encoders raise on a method they cannot parse or arguments that do   *)
(* not fit it: EvmAbi and Borsh.                                           *)
Encodes(req) == req.method # Val("malformed")

SignEvmCall(req) ==
  IF Encodes(req)
  THEN ContractRequest(req, Call(req.contract, Hex(<<req.method, req.args>>), ValueString(req.value),
                                 Null, Null))
  ELSE CryptoChiefError

Erc20Transfer(req) ==
  SignEvmCall([network |-> req.network, from_address |-> req.from_address,
               contract |-> req.token_contract, method |-> Val("transfer(address,uint256)"),
               args |-> List(<<req.recipient, req.amount>>), value |-> Null,
               url_callback |-> req.url_callback])

SignAnchorCall(req) ==
  IF Encodes(req)
  THEN ContractRequest(req, Call(req.program, B64(<<req.method, req.args>>), Null, req.accounts, Null))
  ELSE CryptoChiefError

SignSolanaCall(req) ==
  ContractRequest(req, Call(req.program, B64(req.instruction_data), Null, req.accounts, Null))

SignTonCall(req) ==
  ContractRequest(req, Call(req.contract, B64(req.body_cell), ValueString(req.value), Null, req.bounce))

(* A number that is None or zero gives way to another.                     *)
Or(v, other) == IF v \in {Null, Val("0")} THEN other ELSE v

(* Addresses TON's parser refuses.                                         *)
ParsesTon(address) == address # Val("malformed")

(* The message bodies: the fields of the cells, payloads as a reference.   *)
JettonTransferBody(queryId, amount, destination, response, forward, payload) ==
  [op |-> "jetton_transfer", query_id |-> queryId, amount |-> amount, destination |-> destination,
   response |-> response, forward |-> forward, payload |-> payload]
NftTransferBody(queryId, newOwner, response, forward) ==
  [op |-> "nft_transfer", query_id |-> queryId, destination |-> newOwner, response |-> response,
   forward |-> forward, payload |-> Null]
TextComment(text) == [op |-> "comment", text |-> text]

NftAttached == Val("50000000")   \* 0.05 TON

NftTransfer(req) ==
  LET response == IF req.response_destination \in {Null, Val("")} THEN req.from_address
                  ELSE req.response_destination IN
  IF \/ {req.nft_item, req.new_owner} \cap {Null, Val("")} # {}
     \/ ~ParsesTon(req.new_owner) \/ ~ParsesTon(response)
  THEN CryptoChiefError
  ELSE SignTonCall([network |-> req.network, from_address |-> req.from_address,
                    contract |-> req.nft_item, bounce |-> Val("True"),
                    body_cell |-> NftTransferBody(Or(req.query_id, Val("0")), req.new_owner, response,
                                                  Or(req.forward_ton_amount, Val("0"))),
                    value |-> Or(req.attached_ton, NftAttached), url_callback |-> req.url_callback])

SendTonComment(req) ==
  IF req.recipient \in {Null, Val("")} THEN CryptoChiefError
  ELSE SignTonCall([network |-> req.network, from_address |-> req.from_address,
                    contract |-> req.recipient, bounce |-> Val("False"),
                    body_cell |-> TextComment(req.text), value |-> Or(req.amount_ton, Val("0")),
                    url_callback |-> req.url_callback])
=============================================================================
