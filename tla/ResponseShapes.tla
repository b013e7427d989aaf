---------------------------- MODULE ResponseShapes ----------------------------
(* The dataclasses from_dict builds: of each, the fields it declares and   *)
(* their types.  All of them have defaults.                                *)
EXTENDS PayloadTypes

(* pagination.py                                                           *)
HistoryMeta == Plain({"page", "page_size", "total"}) @@ Some({"total_pages"})

(* services/blockchain.py                                                  *)
SupportedChain == Plain({"name", "type"})

AvailableContract ==
  Plain({"is_test", "decimals"})
  @@ Some({"network", "coin", "contract", "chain_family", "type"})

AvailableContractsResponse == "items" :> Opt(ListOf(A("AvailableContract")))

WalletBalanceRow ==
  Plain({"address", "decimals"}) @@ Some({"value", "human_value", "contract"})

TxStatusRow ==
  Plain({"confirmations"}) @@ Some({"fee", "human_fee", "block_number", "status"})

(* services/credits.py                                                     *)
CreditsBalance ==
  Plain({"credits_balance", "usd_balance", "is_postpaid", "debt_limit_credits",
         "can_execute_gas_operations", "gas_ops_min_credits", "timestamp"})

CreditsTopup ==
  Plain({"invoice_id", "payment_link", "amount", "currency", "status", "order_uuid",
         "expired_at"})

(* services/currencies.py                                                  *)
ConvertResponse ==
  Plain({"amount_crypto", "amount_fiat", "crypto_to_usdt", "fiat_to_usd",
         "timestamp_crypto", "timestamp_fiat"})
  @@ Some({"crypto", "exchange", "fiat"})

FiatCurrency == Plain({"code", "name"})

CryptoCurrencies ==
  Plain({"count", "quote"}) @@ "tickers" :> Opt(ListOf(Scalar))
  @@ "by_exchange" :> Opt(MapOf(ListOf(Scalar)))

(* services/energy.py                                                      *)
EnergyQuote ==
  Plain({"ref", "receive_address", "energy", "duration_sec", "price_sun",
         "price_trx", "recipient_state", "burn_price_sun", "burn_price_trx",
         "saving_trx", "expires_at", "expires_in_sec"})
  @@ Some({"price_usd", "credits", "trx_usd", "burn_price_usd", "burn_price_credits",
           "saving_usd", "saving_credits"})

EnergyOrder ==
  Plain({"id", "idempotency_key", "status", "receive_address", "energy",
         "duration_sec", "price_sun", "price_trx", "delivered_energy", "settled",
         "needs_attention", "created_at"})
  @@ Some({"price_usd", "credits", "trx_usd", "error_code", "error", "delivered_at"})

(* services/native.py                                                      *)
NativeQuote ==
  Plain({"ref", "network", "receive_address", "amount", "coin_price_usd",
         "transfer_fee", "transfer_fee_usd", "subtotal_usd", "total_usd", "credits",
         "coin_usd", "expires_at", "expires_in_sec"})

NativeOrder ==
  Plain({"id", "idempotency_key", "status", "network", "receive_address", "amount",
         "settled", "needs_attention", "created_at"})
  @@ Some({"tx_hash", "transfer_fee", "transfer_fee_usd", "coin_price_usd", "total_usd",
           "credits", "coin_usd", "error_code", "error", "delivered_at"})

(* services/payins.py                                                      *)
CoinOption == Some({"coin", "network", "chain_family", "contract"})

PayIn ==
  Plain({"uuid", "status"})
  @@ Some({"type", "order_id", "user_id", "mode", "amount_crypto", "amount_fiat",
           "currency", "payment_coin", "payment_network", "to_address", "payment_link",
           "url_callback", "url_success", "url_error", "additional_data", "can_cancel",
           "is_payment_multiple", "received_amount_crypto", "remaining_amount_crypto",
           "expired_at", "created_at", "updated_at"})
  @@ "coins" :> Opt(ListOf(A("CoinOption")))
  @@ "payments" :> Opt(ListOf(A("PayInPayment")))

PayInHistoryResponse ==
           "items" :> Opt(ListOf(A("PayIn"))) @@ "meta" :> Opt(A("HistoryMeta"))

(* services/payouts.py                                                     *)
PayoutFeeInfo ==
  Some({"fee_mode", "estimated_fiat", "estimated_coin", "estimated_asset"})

PayoutSource ==
  Some({"address", "network", "coin", "amount_crypto", "amount", "need_refuel",
        "refuel_amount", "estimated_fee", "estimated_fee_fiat", "fee_paid",
        "fee_paid_fiat", "txid", "confirmations"})

EstimatePayoutResponse ==
  Some({"network", "coin", "amount", "amount_to_receive", "to_address",
        "auto_convert_applied"})
  @@ "fee_info" :> Opt(A("PayoutFeeInfo"))
  @@ "sources" :> Opt(ListOf(A("PayoutSource")))
  @@ "service_operations" :> Opt(ListOf(MapOf(Scalar)))

PayoutInfo ==
  Plain({"uuid", "status"})
  @@ Some({"order_id", "network", "coin", "amount", "to_address", "txid",
           "confirmations", "required_confirmations", "url_callback", "created_at",
           "updated_at", "error"})
  @@ "sources" :> Opt(ListOf(A("PayoutSource")))
  @@ "service_operations" :> Opt(ListOf(MapOf(Scalar)))

BatchItemResult ==
  Plain({"index"}) @@ Some({"order_id", "status", "uuid", "error", "http_status"})

BatchPayoutResponse ==
  Plain({"total", "accepted", "rejected"}) @@ Some({"batch_uuid"})
  @@ "items" :> Opt(ListOf(A("BatchItemResult")))

PayoutHistoryResponse ==
  "items" :> Opt(ListOf(A("PayoutInfo"))) @@ "meta" :> Opt(A("HistoryMeta"))

(* services/static_deposits.py                                             *)
StaticDeposit ==
  Plain({"uuid", "status"})
  @@ Some({"network", "chain_family", "coin", "contract", "decimals", "to_address",
           "from_address", "tx_hash", "block_number", "amount", "amount_fiat",
           "confirmations", "required_confirmations", "found_in_mempool", "log_type",
           "created_at", "updated_at", "confirmed_at", "paid_at"})

StaticDepositHistoryResponse ==
           "items" :> Opt(ListOf(A("StaticDeposit"))) @@ "meta" :> Opt(A("HistoryMeta"))

(* services/sweeps.py                                                      *)
Sweep ==
  Plain({"task_id", "status"})
  @@ Some({"sweep_tx_hash", "gas_pump_tx_hash", "wallet_address", "chain",
           "chain_family", "asset_symbol", "asset_type", "amount_human", "type_work",
           "sweep_confirmations", "required_confirmations", "completed_at",
           "total_fee_usd", "gas_pump_source", "gas_pump_fee_human", "gas_pump_fee_usd",
           "sweep_fee_human", "sweep_fee_usd", "real_gas_pump_fee_human",
           "real_gas_pump_fee_usd", "real_sweep_fee_human", "real_sweep_fee_usd",
           "created_at", "gas_fee_human", "gas_fee_fiat", "service_fee_fiat",
           "updated_at"})

SweepPolicy ==
  Plain({"type_work", "fee_mode", "gas_source"})
  @@ Some({"threshold_amount_usd", "source"})

SweepOverride ==
  Plain({"locked"})
  @@ Some({"network_code", "type_work", "threshold_amount_usd", "fee_mode",
           "gas_source", "source"})

SweepSettings ==
  Some({"wallet_address", "network_code"}) @@ "effective" :> Opt(A("SweepPolicy"))
  @@ "override" :> Opt(A("SweepOverride"))
  @@ "project_default" :> Opt(A("SweepPolicy"))

SweepHistoryResponse ==
        "items" :> Opt(ListOf(A("Sweep"))) @@ "meta" :> Opt(A("HistoryMeta"))

ForceSweepResponse == Plain({"status"})

(* services/transactions.py                                                *)
SignTransactionResponse ==
  Plain({"uuid", "status"})
  @@ Some({"signed_tx_hex", "tx_hash", "expires_at", "chain_family", "network"})
  @@ "superseded_uuids" :> ListOf(Scalar)

EstimateTransactionResponse ==
  Plain({"estimated_fee", "required"})
  @@ Some({"estimated_fee_fiat", "required_fiat", "network", "chain_family", "type",
           "from_address", "to_address", "fee_expected", "fee_limit", "energy",
           "energy_fee", "bandwidth_fee", "activation_fee"})

TransactionInfo ==
  Plain({"uuid", "status"})
  @@ Some({"network", "chain_family", "from_address", "to_address", "type", "value",
           "coin", "contract", "tx_hash", "confirmations", "required_confirmations",
           "signed_tx_hex", "expires_at", "nonce", "actual_fee", "actual_fee_fiat",
           "created_at", "updated_at", "error_reason", "error"})

TransactionHistoryResponse ==
           "items" :> Opt(ListOf(A("TransactionInfo"))) @@ "meta" :> Opt(A("HistoryMeta"))

(* services/wallets.py                                                     *)
WalletCoinBalance ==
  Plain({"decimals"})
  @@ Some({"address", "chain", "coin", "contract", "value", "human_value", "amount_usd",
           "timestamp"})

Wallet ==
  Plain({"address"})
  @@ Some({"chain_family", "type", "wallet_type", "frozen", "master_wallet_address",
           "callback_url", "label", "private_key_encrypted", "created_at",
           "total_balance_usd"})
  @@ "coins" :> Opt(ListOf(A("WalletCoinBalance")))

ListWalletsResponse == "items" :> Opt(ListOf(A("Wallet")))

(* services/webhooks.py                                                    *)
WebhookAttempt ==
  Plain({"attempt", "response_truncated"})
  @@ Some({"http_status", "error", "duration_ms", "target_url", "created_at",
           "response_body", "response_content_type"})

WebhookPayload == Plain({"body", "bytes", "truncated"})

WebhookDelivery ==
  Plain({"uuid", "event_type", "reference", "target_url", "status", "attempts",
         "max_attempts", "resend_count"})
  @@ Some({"last_error", "last_http_status", "next_attempt_at", "delivered_at",
           "created_at", "superseded_by"})
  @@ "attempt_history" :> ListOf(A("WebhookAttempt"))
  @@ "payload" :> Opt(A("WebhookPayload"))

WebhookResendResult ==
  Plain({"uuid", "event_type", "reference", "status", "queued", "attempts",
         "resend_count"})
  @@ Some({"reason", "superseded_by", "retry_after_seconds"})

StaticDepositResendResult ==
  Plain({"uuid", "queued", "total"})
  @@ "deliveries" :> ListOf(A("WebhookResendResult"))

(* services/withdrawals.py                                                 *)
Withdrawal ==
  Plain({"uuid", "status"})
  @@ Some({"network", "coin", "amount", "from_address", "to_address", "need_refuel",
           "refuel_tx_hash", "refuel_status", "tx_hash", "error_reason",
           "confirmations", "required_confirmations", "estimated_fee_fiat",
           "actual_fee_fiat", "fee_mode", "created_at", "completed_at", "contract",
           "amount_fiat", "updated_at", "confirmed_at", "error"})

WithdrawalHistoryResponse ==
           "items" :> Opt(ListOf(A("Withdrawal"))) @@ "meta" :> Opt(A("HistoryMeta"))

(* webhook.py                                                              *)
PayoutWebhookEvent ==
  Plain({"event", "uuid", "status"})
  @@ Some({"order_id", "user_id", "amount_requested", "amount_to_receive", "to_address",
           "sources", "service_operations", "confirmations", "required_confirmations",
           "created_at", "completed_at", "error_reason"})
  @@ "fee_info" :> Opt(MapOf(Scalar))

TransactionWebhookEvent ==
  Plain({"event", "uuid", "status"})
  @@ Some({"network", "chain_family", "type", "from_address", "to_address", "value",
           "contract", "tx_hash", "confirmations", "required_confirmations",
           "created_at", "completed_at", "error_reason"})

PayInPayment == Some({"txid", "amount_crypto", "confirmations", "status", "seen_at"})

PayInWebhookEvent ==
  Plain({"event", "uuid", "status"})
  @@ Some({"order_id", "user_id", "prev_status", "mode", "amount_crypto", "amount_fiat",
           "fact_amount_crypto", "fact_amount_fiat", "currency", "payment_coin",
           "payment_network", "to_address", "txid", "is_payment_multiple",
           "received_amount_crypto", "remaining_amount_crypto"})
  @@ "payments" :> Opt(ListOf(A("PayInPayment")))

StaticDepositWebhookEvent ==
  Plain({"event", "uuid", "status"})
  @@ Some({"network", "chain_family", "coin", "contract", "decimals", "to_address",
           "from_address", "tx_hash", "amount", "amount_fiat", "confirmations",
           "required_confirmations", "found_in_mempool", "log_type", "block_number",
           "created_at", "updated_at", "confirmed_at", "paid_at"})

SweepWebhookEvent ==
  Plain({"event", "task_id", "status", "wallet_address", "network", "asset_symbol",
         "sweep_tx_hash", "sweep_confirmations"})
  @@ Some({"to_address", "chain_family", "asset_contract", "asset_type", "amount_raw",
           "amount_human", "gas_pump_tx_hash", "required_confirmations", "confirmed_at",
           "type_work", "total_fee_usd"})

-----------------------------------------------------------------------------
(* By name, as an annotation refers to them.                               *)
ResponseShapes ==
  [AvailableContract |-> AvailableContract,
   AvailableContractsResponse |-> AvailableContractsResponse,
   BatchItemResult |-> BatchItemResult, BatchPayoutResponse |-> BatchPayoutResponse,
   CoinOption |-> CoinOption, ConvertResponse |-> ConvertResponse,
   CreditsBalance |-> CreditsBalance, CreditsTopup |-> CreditsTopup,
   CryptoCurrencies |-> CryptoCurrencies, EnergyOrder |-> EnergyOrder,
   EnergyQuote |-> EnergyQuote, EstimatePayoutResponse |-> EstimatePayoutResponse,
   EstimateTransactionResponse |-> EstimateTransactionResponse,
   FiatCurrency |-> FiatCurrency, ForceSweepResponse |-> ForceSweepResponse,
   HistoryMeta |-> HistoryMeta, ListWalletsResponse |-> ListWalletsResponse,
   NativeOrder |-> NativeOrder, NativeQuote |-> NativeQuote, PayIn |-> PayIn,
   PayInHistoryResponse |-> PayInHistoryResponse, PayInPayment |-> PayInPayment,
   PayInWebhookEvent |-> PayInWebhookEvent, PayoutFeeInfo |-> PayoutFeeInfo,
   PayoutHistoryResponse |-> PayoutHistoryResponse, PayoutInfo |-> PayoutInfo,
   PayoutSource |-> PayoutSource, PayoutWebhookEvent |-> PayoutWebhookEvent,
   SignTransactionResponse |-> SignTransactionResponse, StaticDeposit |-> StaticDeposit,
   StaticDepositHistoryResponse |-> StaticDepositHistoryResponse,
   StaticDepositResendResult |-> StaticDepositResendResult,
   StaticDepositWebhookEvent |-> StaticDepositWebhookEvent,
   SupportedChain |-> SupportedChain, Sweep |-> Sweep,
   SweepHistoryResponse |-> SweepHistoryResponse, SweepOverride |-> SweepOverride,
   SweepPolicy |-> SweepPolicy, SweepSettings |-> SweepSettings,
   SweepWebhookEvent |-> SweepWebhookEvent,
   TransactionHistoryResponse |-> TransactionHistoryResponse,
   TransactionInfo |-> TransactionInfo,
   TransactionWebhookEvent |-> TransactionWebhookEvent, TxStatusRow |-> TxStatusRow,
   Wallet |-> Wallet, WalletBalanceRow |-> WalletBalanceRow,
   WalletCoinBalance |-> WalletCoinBalance, WebhookAttempt |-> WebhookAttempt,
   WebhookDelivery |-> WebhookDelivery, WebhookPayload |-> WebhookPayload,
   WebhookResendResult |-> WebhookResendResult, Withdrawal |-> Withdrawal,
   WithdrawalHistoryResponse |-> WithdrawalHistoryResponse]
=============================================================================
