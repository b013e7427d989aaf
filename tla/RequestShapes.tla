---------------------------- MODULE RequestShapes -----------------------------
(* The dataclasses to_payload turns into a request body.                   *)
EXTENDS PayloadTypes

(* assets.py                                                               *)
Asset == Some({"network", "coin"})

AssetsPolicy ==
               "allow" :> Opt(ListOf(A("Asset"))) @@ "exclude" :> Opt(ListOf(A("Asset")))

(* pagination.py                                                           *)
HistoryQuery ==
  Some({"page", "page_size", "status", "coin", "network", "date_from", "date_to"})

(* services/currencies.py                                                  *)
ConvertRequest == Plain({"from_", "to", "amount"}) @@ Some({"provider"})

(* services/energy.py                                                      *)
EnergyQuoteRequest == Plain({"receive_address"}) @@ Some({"energy", "duration_sec"})

EnergyRentRequest == Some({"receive_address", "energy", "duration_sec", "quote_ref"})

(* services/native.py                                                      *)
NativeQuoteRequest == Plain({"network", "receive_address", "amount"})

NativeBuyRequest == Some({"network", "receive_address", "amount", "quote_ref"})

(* services/payins.py                                                      *)
CreatePayInRequest ==
  Plain({"order_id", "user_id", "mode"})
  @@ Some({"to_address", "master_wallet_address", "environment", "lifetime_sec",
           "url_callback", "url_success", "url_error", "additional_data",
           "accuracy_payment_percent", "is_payment_multiple", "amount_fiat", "currency",
           "course_source", "amount_crypto"})
  @@ "assets" :> Opt(A("AssetsPolicy")) @@ "asset" :> Opt(A("Asset"))

SelectAssetRequest ==
  Plain({"uuid", "coin", "network"}) @@ Some({"master_wallet_address"})

(* services/payouts.py                                                     *)
EstimatePayoutRequest ==
  Plain({"network", "coin", "amount", "to_address"})
  @@ Some({"allow_multiple_sources", "auto_convert", "max_fee_amount_fiat", "memo"})
  @@ "from_addresses" :> Opt(ListOf(Scalar))
  @@ "auto_convert_policy" :> Opt(A("AssetsPolicy"))

ExecutePayoutRequest ==
  EstimatePayoutRequest @@ Plain({"order_id", "user_id", "url_callback"})

BatchPayoutRequest ==
  Some({"url_callback"}) @@ "items" :> ListOf(A("ExecutePayoutRequest"))

(* services/static_deposits.py                                             *)
StaticDepositHistoryQuery ==
  Some({"address", "status", "coin", "network", "date_from", "date_to", "page",
        "page_size"})

(* services/sweeps.py                                                      *)
SweepHistoryQuery == Some({"mode", "status", "search", "page", "page_size"})

(* services/transactions.py                                                *)
SolanaAccount == Plain({"pubkey", "is_signer", "is_writable"})

ContractCall ==
  Plain({"to", "data"}) @@ Some({"value", "bounce"})
  @@ "accounts" :> Opt(ListOf(A("SolanaAccount")))

SignTransactionRequest ==
  Plain({"network", "from_address", "type"})
  @@ Some({"to_address", "value", "contract", "url_callback"})
  @@ "calls" :> Opt(ListOf(A("ContractCall")))

EstimateTransactionRequest ==
  Plain({"network", "from_address", "type"})
  @@ Some({"to_address", "value", "contract"})

ExecuteTransactionRequest == Plain({"uuid"}) @@ Some({"signed_tx_hex"})

(* services/wallets.py                                                     *)
GenerateWalletRequest ==
  Plain({"wallet_type", "chain_family"})
  @@ Some({"master_wallet_address", "callback_url", "label"})

-----------------------------------------------------------------------------
(* By name.                                                                *)
RequestShapes ==
  [Asset |-> Asset, AssetsPolicy |-> AssetsPolicy,
   BatchPayoutRequest |-> BatchPayoutRequest, ContractCall |-> ContractCall,
   ConvertRequest |-> ConvertRequest, CreatePayInRequest |-> CreatePayInRequest,
   EnergyQuoteRequest |-> EnergyQuoteRequest, EnergyRentRequest |-> EnergyRentRequest,
   EstimatePayoutRequest |-> EstimatePayoutRequest,
   EstimateTransactionRequest |-> EstimateTransactionRequest,
   ExecutePayoutRequest |-> ExecutePayoutRequest,
   ExecuteTransactionRequest |-> ExecuteTransactionRequest,
   GenerateWalletRequest |-> GenerateWalletRequest, HistoryQuery |-> HistoryQuery,
   NativeBuyRequest |-> NativeBuyRequest, NativeQuoteRequest |-> NativeQuoteRequest,
   SelectAssetRequest |-> SelectAssetRequest,
   SignTransactionRequest |-> SignTransactionRequest, SolanaAccount |-> SolanaAccount,
   StaticDepositHistoryQuery |-> StaticDepositHistoryQuery,
   SweepHistoryQuery |-> SweepHistoryQuery]
=============================================================================
