------------------------------- MODULE Services -------------------------------
(***************************************************************************)
(* The functions of the services that are one signed request: what each    *)
(* takes, the path it posts to and what it returns.  energy.rent and       *)
(* native.buy, whose errors may be orders, are in Orders; the wait_for     *)
(* functions are in Poll; sweeps.update_settings is in Settings.           *)
(***************************************************************************)
EXTENDS Payloads

(* A function that takes a dataclass, or one by default; and one that      *)
(* takes arguments, which become the members of its body by name.          *)
Takes(class, path, returns) == [path |-> path, takes |-> RequestShapes[class], returns |-> returns]
Args(shape, path, returns)  == [path |-> path, takes |-> shape, returns |-> returns]

Nothing      == [f \in {} |-> Scalar]
IfTruthy(fs) == [f \in fs |-> [kind |-> "truthy"]]     \* "if x:", not "if x is not None:"
Required(fs) == [f \in fs |-> [kind |-> "required"]]   \* None is refused, "" is sent

Uuid(path, returns)    == Args(Plain({"uuid"}), path, returns)
Address(path, returns) == Args(Plain({"address"}), path, returns)

BlockchainService ==
  [supported_chains    |-> Args(Nothing, "/v1/blockchains/list", ListOf(A("SupportedChain"))),
   contracts_available |-> Args(IfTruthy({"network"}), "/v1/blockchain/contracts/available",
                                A("AvailableContractsResponse")),
   contracts_list      |-> Args(Nothing, "/v1/blockchain/contracts/list",
                                A("AvailableContractsResponse")),
   wallet_balance      |-> Args(Plain({"chain", "addresses"}) @@ IfTruthy({"contracts"}),
                                "/v1/blockchain/wallet/balance", ListOf(A("WalletBalanceRow"))),
   transaction_status  |-> Args(Plain({"chain", "hash"}), "/v1/blockchain/transaction/status",
                                ListOf(A("TxStatusRow")))]

CreditsService ==
  [balance |-> Args(Nothing, "/v1/credits/balance", A("CreditsBalance")),
   topup   |-> Args(Plain({"amount", "currency"}) @@ Some({"url_success", "url_error"}),
                    "/v1/credits/topup", A("CreditsTopup"))]

(* The body says "from" for from_, a word Python reserves.                 *)
ConvertBody == Plain({"from", "to", "amount"}) @@ Some({"provider"})
CurrenciesService ==
  [fiat_to_crypto |-> Args(ConvertBody, "/v1/currencies/convert/fiat-crypto", A("ConvertResponse")),
   crypto_to_fiat |-> Args(ConvertBody, "/v1/currencies/convert/crypto-fiat", A("ConvertResponse")),
   fiats          |-> Args(Nothing, "/v1/currencies/fiats", ListOf(A("FiatCurrency"))),
   cryptos        |-> Args(Nothing, "/v1/currencies/cryptos", A("CryptoCurrencies"))]

EnergyService ==
  [quote |-> Takes("EnergyQuoteRequest", "/v1/energy/quote", A("EnergyQuote")),
   order |-> Args(Plain({"key"}), "/v1/energy/order", A("EnergyOrder"))]

NativeService ==
  [quote |-> Takes("NativeQuoteRequest", "/v1/native/quote", A("NativeQuote")),
   order |-> Args(Plain({"key"}), "/v1/native/order", A("NativeOrder"))]

PayInsService ==
  [create       |-> Takes("CreatePayInRequest", "/v1/payments/order/create", A("PayIn")),
   select_asset |-> Takes("SelectAssetRequest", "/v1/payments/asset/select", A("PayIn")),
   reset_asset  |-> Uuid("/v1/payments/asset/reset", A("PayIn")),
   cancel       |-> Uuid("/v1/payments/order/cancel", A("PayIn")),
   info         |-> Uuid("/v1/payments/order/info", A("PayIn")),
   history      |-> Takes("HistoryQuery", "/v1/payments/history", A("PayInHistoryResponse"))]

PayoutsService ==
  [estimate       |-> Takes("EstimatePayoutRequest", "/v1/payout/estimate", A("EstimatePayoutResponse")),
   execute        |-> Takes("ExecutePayoutRequest", "/v1/payout/execute", A("PayoutInfo")),
   info           |-> Uuid("/v1/payout/info", A("PayoutInfo")),
   history        |-> Takes("HistoryQuery", "/v1/payout/history", A("PayoutHistoryResponse")),
   batch_estimate |-> Takes("BatchPayoutRequest", "/v1/payout/batch/estimate", A("BatchPayoutResponse")),
   batch_execute  |-> Takes("BatchPayoutRequest", "/v1/payout/batch/execute", A("BatchPayoutResponse"))]

StaticDepositsService ==
  [info    |-> Uuid("/v1/static-deposit/info", A("StaticDeposit")),
   history |-> Takes("StaticDepositHistoryQuery", "/v1/static-deposit/history",
                     A("StaticDepositHistoryResponse"))]

SweepsService ==
  [force          |-> Args(Plain({"address", "network_code"}), "/v1/sweeps/force", A("ForceSweepResponse")),
   history        |-> Takes("SweepHistoryQuery", "/v1/sweeps/history", A("SweepHistoryResponse")),
   wallet_history |-> Args(Plain({"address"}) @@ Some({"mode", "status", "search", "page", "page_size"}),
                           "/v1/sweeps/wallet/history", A("SweepHistoryResponse")),
   settings       |-> Args(IfTruthy({"address", "network_code"}), "/v1/sweeps/settings",
                           A("SweepSettings"))]

TransactionsService ==
  [estimate |-> Takes("EstimateTransactionRequest", "/v1/transaction/estimate",
                      A("EstimateTransactionResponse")),
   sign     |-> Takes("SignTransactionRequest", "/v1/transaction/signature", A("SignTransactionResponse")),
   execute  |-> Takes("ExecuteTransactionRequest", "/v1/transaction/execute", A("TransactionInfo")),
   info     |-> Uuid("/v1/transaction/info", A("TransactionInfo")),
   history  |-> Takes("HistoryQuery", "/v1/transaction/history", A("TransactionHistoryResponse"))]

WalletsService ==
  [generate         |-> Takes("GenerateWalletRequest", "/v1/wallets/generate", A("Wallet")),
   list             |-> Args(Nothing, "/v1/wallets/list", A("ListWalletsResponse")),
   info             |-> Address("/v1/wallets/info", A("Wallet")),
   pay_in_history   |-> Args(Plain({"address"}) @@ Some({"date_from", "date_to", "page", "page_size"}),
                             "/v1/wallets/history", A("PayInHistoryResponse")),
   freeze           |-> Address("/v1/wallets/freeze", A("Wallet")),
   rebind_master    |-> Args(Plain({"address", "master_wallet_address"}),
                             "/v1/wallets/rebind-master", A("Wallet")),
   set_callback_url |-> Args(Plain({"address"}) @@ Required({"callback_url"}),
                             "/v1/wallets/callback-url", A("Wallet")),
   set_label        |-> Args(Plain({"address"}) @@ Required({"label"}), "/v1/wallets/label", A("Wallet"))]

WebhooksService ==
  [info                  |-> Uuid("/v1/webhooks/info", A("WebhookDelivery")),
   resend                |-> Uuid("/v1/webhooks/resend", A("WebhookResendResult")),
   resend_static_deposit |-> Uuid("/v1/static-deposits/resend", A("StaticDepositResendResult"))]

WithdrawalsService ==
  [info    |-> Uuid("/v1/withdrawal/info", A("Withdrawal")),
   history |-> Takes("HistoryQuery", "/v1/withdrawal/history", A("WithdrawalHistoryResponse"))]

RoutesOf(service) == {service[f] : f \in DOMAIN service}
Routes ==
  UNION {RoutesOf(s) : s \in {BlockchainService, CreditsService, CurrenciesService, EnergyService,
                              NativeService, PayInsService, PayoutsService, StaticDepositsService,
                              SweepsService, TransactionsService, WalletsService, WebhooksService,
                              WithdrawalsService}}

-----------------------------------------------------------------------------
(* A call of a function with the values of its arguments.                  *)

(* Arguments that count as given.                                          *)
Given(route, args) ==
  [p \in DOMAIN args |->
     IF route.takes[p].kind = "truthy" /\ args[p] \in {Val(""), List(<<>>)} THEN Null ELSE args[p]]

Body(route, args) ==
  IF \E p \in DOMAIN args : route.takes[p].kind = "required" /\ args[p] = Null
  THEN CryptoChiefError
  ELSE RequestBody(ToPayload(Obj(Given(route, args))))

(* List functions answer with a bare array; null is an empty one.          *)
Result(route, raw) ==
  IF route.returns.kind = "list"
  THEN List(IF raw = Null THEN <<>>
            ELSE [i \in DOMAIN raw.items |-> FromDict(route.returns.of.name, raw.items[i])])
  ELSE FromDict(route.returns.name, raw)

(* parse_webhook: the event's prefix names the class; a dict is returned   *)
(* as it is when no class is known for it.                                 *)
EventByPrefix ==
  [payout |-> "PayoutWebhookEvent", transaction |-> "TransactionWebhookEvent",
   invoice |-> "PayInWebhookEvent", static_deposit |-> "StaticDepositWebhookEvent",
   sweep |-> "SweepWebhookEvent"]
CoerceWebhookEvent(prefix, data) ==
  IF prefix \in DOMAIN EventByPrefix THEN FromDict(EventByPrefix[prefix], data) ELSE data
=============================================================================
