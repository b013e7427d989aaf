# The cryptochief Python SDK in TLA+

`src/cryptochief` is an asyncio client of a payment gateway: it signs every
request, retries some of them, corrects its clock when the gateway asks for it,
recovers the result of a purchase from an error answer, polls objects until
they are final, verifies webhooks and encodes contract calls. This directory
models the parts of it in which order, time and failure matter, checks them with
TLC on small instances and proves their main properties with TLAPS for every
instance.

Contents: [inventory](#inventory), [plan](#plan), [Transport](#transport),
[Orders](#orders), [Poll](#poll), [IdempotencyKeys](#idempotencykeys),
[Settings](#settings), [Wallets](#wallets), [Transactions](#transactions),
[Webhooks](#webhooks), [EvmAbi](#evmabi), [ClientSide](#clientside),
[what is not modelled](#what-is-not-modelled), [how to run](#how-to-run).
`PROJECT.json` maps each definition to its lines, and lists the runs, the
mutations, the findings, the hazards and the theorems.

## Inventory

| component | state it keeps | operations | what is hard | what makes it correct |
|---|---|---|---|---|
| request loop (`client.py`, `transport.py`, `errors.py`) | per client: retry budget, clock offset; per call: attempt, `clock_corrected`, last error | `request` | calls of several tasks share the offset; lost and late answers; an iteration that is not counted; clocks that differ and step | the budget is neither overdrawn nor lost; no retry is refused as a replay; one correction is enough; every call ends |
| purchases (`services/native.py`, `energy.py`, `base.py`) | none in the SDK; the gateway keeps one order per idempotency key | `quote`, `buy` / `rent`, `order` | an order may travel in an error answer, on a status the loop retries; crashes; the documented rules on keys | a purchase is delivered at most once; a final answer is true; an order that was reported is returned |
| polling (`poll.py`, `wait_for` of payouts, pay-ins, transactions) | deadline, last state | `wait_for_terminal` | a fetch may outlast the interval and the deadline; errors are swallowed | bounded overrun, bounded number of fetches, no timeout over an object that was final in time, it ends |
| idempotency key (`idempotency.py`) | a context variable | the block `idempotency_key`, the argument of `request` | nested blocks, tasks started inside one, generators | a call carries the key of the innermost block around it |
| signature (`sign.py`) | none | `hmac_v1_sign`, `sign_webhook_v1` | what is joined must be separable again | two requests that differ have different strings to sign |
| error envelopes (`transport.py`) | none | `parse_api_error` | three shapes of envelope, a relayed refusal, an order in an error body | the code is never a sentence; a refusal with a time corrects the clock in every shape |
| webhooks (`webhook.py`, `services/webhooks.py`) | the receiver's set of delivery ids (documented, not in the SDK) | `verify_webhook`, `parse_webhook_event`, `info`, `resend` | repeats, resends, reordering; a receiver that dies; edges of the window | an event is handled once; delivered means handled; fresh is accepted, stale refused |
| sweep settings (`services/sweeps.py`, `sentinels.py`) | none; two-level policy at the gateway | `settings`, `update_settings`, `force` | a field is unset, cleared or set | an update changes what it names and nothing else |
| wallets (`services/wallets.py`) | none; a wallet at the gateway | `generate`, `freeze`, `rebind_master`, `set_callback_url`, `set_label` | `freeze` toggles and is retried; late absolute writes | a successful call has had its effect once |
| transactions (`services/transactions.py`) | none; signatures and nonces at the gateway | `estimate`, `sign`, `execute`, the call helpers | a retried or late `sign`; superseded and expired signatures; a call that depends on another | a call is sent at most once, and after the one it depends on; a final status stays |
| TON helpers (`ton/`) | a cache of wallet addresses | lookups, messages, addresses | the cache is filled after an await; a fallback source; the recipient's wallet may appear meanwhile | a transfer calls the wallet of its own sender and Jetton, with gas enough for the recipient's |
| encoders (`contract/`) | none | ABI, borsh, base58, TRON addresses | offsets, widths, padding | a decoder reads back what was encoded |
| amounts (`amount.py`) | none | `human_to_base`, `base_to_human` | digits, signs, precision | the conversions are inverse where they should be |
| mapping (`_models.py`) | none | `to_payload`, `request_body`, `from_dict` | absent, null and unknown members, at any depth | what is sent is what was set; what is read has the types declared |
| client life cycle (`client.py`, `rsa.py`) | HTTP client, RSA key or its error, TON client | `aclose`, `rsa_decrypt`, `ton_rpc` | `aclose` during calls; a remembered error | resources are built once and closed once |
| other services | none | one request each | an argument left out, `None`, empty or zero | as for the mapping |
| data | none | - | - | - |

How they interact: every service method is one call of the request loop;
`wait_for` makes such calls in a loop of its own; `buy` reads the error the loop
raises; the loop reads the idempotency key from the context; signing reads the
clock and the offset at each attempt. The SDK starts no task of its own: calls
interleave because the application runs several, and they interleave only at
`await`. The models therefore make one action of the code between two awaits.

## Plan

Modules with a state machine, each proved about in a module of its own:
`Transport` with its abstract `RequestContract`, `Orders` with `Purchase`, `Poll`,
`IdempotencyKeys` with `LexicalKeys`, `Settings`, `Transactions` with
`CallSequence`, `Webhooks` with `Notifications`. `Wallets` composes `freeze` with `Transport`.

Modules of the work in memory around a request, gathered in `ClientSide` and
checked by TLC in one run: `PyValues`, `PayloadTypes`, `RequestShapes`, `ResponseShapes` (the
dataclasses), `Payloads` (the conversions), `Services` (the functions of every
service), `ContractCalls`, `Jettons`, `EvmAbi`, `Borsh`, `Amounts`. Of these `Jettons` has
interleavings, and proofs in `Jettons_proofs`.

What could still be added, most valuable first:

1. A composition in which `Orders` takes its key from a block of
   `IdempotencyKeys`, and one in which `Transactions` runs over `Transport`.
2. `TonAddress` and the parser of error envelopes.

## Transport

`Transport.tla` is `CryptoChiefClient.request` (client.py:133-227) run by the
calls `Calls` of one client.

* A call is `idle`, in `asyncio.sleep` (`backoff`), waiting for httpx (`http`)
  or `done`. `Begin` is everything up to the first `await` of httpx, `Wake` what
  follows the sleep, `NetworkFailure` the `except httpx.HTTPError` branch,
  `RetryLater` the retryable statuses, `CorrectClock` the timestamp refusal with
  a server time, `Settle` every other answer, `Cancel` the `CancelledError` of
  either await.
* `clockOffset` is `_clock_offset`: shared, read at each signature, overwritten
  by any call's correction. `attempt` and `corrected` are the locals of the loop.
* `wire` is the exchange a call waits for. What the gateway may do with it is in
  `Refuse` and `Serve`; a request nobody waits for any
  more is counted in `adrift` and may `Land` at any later time.
* Clocks: `now` is the gateway's second, the local clock reads
  `now + skew` or one second more (both are floors). `StepLocalClock` steps it.

`RequestContract.tla` is what the loop promises a service call: the operation is
carried out at most `retries + 1` times, a result means at least once, a refusal with
no failed attempt before it means never, not even later, and any other error leaves it
open. A refusal is an error of an HTTP status below 500, which the caller reads in
`http_status`. An error of 500 or more is none, not even the first attempt's:
`is_retryable` calls only 502, 503 and 504 retryable (errors.py:186), so a 500 or a
520 is raised at once, and the operation may have been carried out behind it (the
answer `"failed"`). The refusal clause is what a caller relies on who corrects a
refused request and sends it anew; behind a failed attempt or a 5xx it does not hold
(sweeps.py:386).

Bounds. Two calls, because the hazard is one call installing an offset between
another's correction and its next retry. Budgets -1, 0 and 1: the loop that
never runs, the one without a retry, and one with a retry, after which nothing
new happens. Two skews, one inside and one far outside the window; `transport_retry`
has the far one only, where a call's first request is refused and, once one of the
calls has corrected the clock, the other's is not. `MaxAdrift` and `MaxClockSteps`
bound how often the environment misbehaves, and `MaxTime` the clock; the theorems have
none of these limits. `transport_clock` takes states for the same that differ in
`executed` alone (`VIEW Clockwork`): nothing but the effects counted in it depends on it,
and its two properties speak of the clocks.

| run | question | answer |
|---|---|---|
| `transport_retry` | is the budget exact, are nonces fresh, does the loop implement its contract, does every call end? | yes: 1 + retries requests, plus one if the clock was corrected; at most 2 * retries + 3 steps (`StepsRunOut`), and the end under the fairness below (`CallsEnd`) |
| `transport_clock` | is one correction enough, for the call and for the client, while requests take time and the local clock may be stepped? | yes, with the window at its limit, `Window = SendDelay + RecvDelay + 1`: until the clock is stepped every later request of any call is in the window (`CorrectionIsShared`), and only a call corrected before the step can be refused again |

Assumptions on the environment, each the least that the properties need:

* `WindowAssumption`: `Window >= SendDelay + RecvDelay + 1`. The window is 300 s
  (errors.py:120). httpx's default `timeout=60` of the client applies to each of
  pool, connect, write and read, so a request is at most 180 s old when it
  arrives and the answer at most 60 s when read: 300 >= 180 + 60 + 1. This does
  not hold for a client built with a timeout above 74 s; there a second refusal
  is possible, and the call then raises it.
* The gateway checks the timestamp, then the nonce, then acts, and remembers the
  nonces of refused requests too, which is the stricter choice.
* Behind a 5xx, retried or raised at once, the operation may have been carried out, or
  not, or may still be; behind an error of a status below 500 it was not. An order that
  travels in an error is the one exception, and `Orders` models it.

Fairness (`FairSpec`): `asyncio.sleep` returns, and httpx answers or times out
and its handler runs. The gateway and the caller owe nothing: a gateway that is
silent for ever is a network failure, by httpx's timeouts.

Proved in `Transport_proofs.tla`, for any set of calls, any budgets, skews and
delays within `WindowAssumption`: `TypeCorrect`, `InvCorrect`, `BudgetCorrect`,
`NonceCorrect`, `CorrectionCorrect`, `SharedCorrect`, `StepsRunOutCorrect`, `Refinement`
and `UnretriedCorrect`. None of the properties is inductive. `IInv` holds the types and
adds, per call:

* `BudgetInv`: a request in the air belongs to an attempt not counted yet.
* `EffectInv`: executions, and requests that may still become one, are paid for by
  attempts; a refusal pays for none.
* `RefusalInv`: a call refused (status below 500) before any attempt failed has nothing executed and nothing
  adrift. A call ends so with `attempt = 0`, and then `EffectInv` leaves nothing due.
* `NonceInv`: the gateway has seen no nonce beyond those sent.
* `ClockInv`: offset and skew cancel up to the return leg and one second as long as the
  clock was not stepped since the call's correction.

and for the client `OffsetInv`, the same bound on the shared offset once any call has
corrected it. The step that needs care in both is another call's correction: it replaces
the offset by one that is good for the same reason (`FreshOffset`).

`Refinement` maps a call's outcome to what its caller can tell apart (`Result`). The first
two invariants give `TakeEffect` its budget, and `RefusalInv` shows that nothing lands
after a refusal. `StepsRunOutCorrect` is the half of `CallsEnd` that needs no fairness: each step of
a call uses up one of those it has left, and no step of another call, of the
gateway or of a clock gives one back. That the next step is taken is liveness, and
model-checked only. `UnretriedCorrect` is the converse of the hazard of a retry: without
one, what a call asks for happens at most once, and exactly once if it returns a result.
It needs `SuccessInv`: a call is answered with a result only after it was carried out.

## Orders

`Orders.tla` is one purchase through `native.buy` or `energy.rent`, made by a
merchant process that follows the docstring: after `refused` a new key is
allowed, after an `APIError` the same key, after `unresolved` no purchase but
`order`. `Retryable`, `RetryOrRaise` and the `Receive...` actions are the request
loop as `buy` sees it, `OrderFromError` and `Recover` the recovery of an order
from an error. `Crash` loses everything but the key. The gateway keeps one order
per key (`Process`), reports it on the documented statuses (`Report`), may answer
with a failure of its own front end, retried or raised at once (`Unavailable`), even
while the request is still on its way (`Postpone`), and settles an unresolved
order by what really happened (`Resolve`). Signatures and clocks are left to
`Transport`.

`Purchase.tla` is the purchase the merchant means: its goods leave at most once,
and the merchant believes `delivered` or `nothing` only when it is so.

Bounds of `orders`: three keys and four calls, so that two keys are given up and
late requests of both can land while the third is in use; one retry; energy
orders, whose `unresolved` may also become `refunded` (the larger set).

| run | question | answer |
|---|---|---|
| `orders` | delivered at most once, truthful answers, `Purchase` implemented? | yes |
| `orders_reported` | is an order the gateway reported always returned? | no: see below |

**Finding.** An order refused with HTTP 502 is an answer the loop retries
(client.py:211) before `buy` can look at its body. If the retry gets no answer, or
a 5xx of a proxy, the last error carries no order and `buy` raises `APIError`,
while native.py:149 says "the answer is always the order" and :167 lets only
failures with no order raise. Nothing is lost: the same key leads back to the
order, and `DeliveredOnce` holds. The caller sees a failure where the gateway
had given a final answer.

Proved in `Orders_proofs.tla`, for any number of keys, calls and retries:
`OrdersInvCorrect` (the types and the properties below it rest on),
`OrdersDeliveredOnce`, `OrdersTruthful`, `OrdersRefinement` and
`ReportedOrderIsReturnedUnretried`: without retries the finding cannot occur, for
the one answer a call gets is the one `buy` looks at (`OneAnswerInv`). The invariant `OrdersInv` says that a key is left behind only
with a final order that delivered nothing and that no later key has been used;
so a late request of an old key changes nothing. That is why the documented
rule is safe, and why an answer must not be taken for a refusal unless the order
is in it: the mutation `OrderFromAnyBody` does so and breaks every property.

## Poll

`Poll.tla` is `wait_for_terminal` (poll.py:26-57) and the object it waits for.
Time is `time.monotonic()` from the call; a fetch is a whole request with its
retries, takes at most `FetchMax`, and looks at the object at some instant
between its start and its end; the event loop resumes a sleeper at most `Lag`
late. `Pause` is the end of an iteration (lines 54-57), reached from a state that
is not final (`FetchReturns`) and from a retryable error (`FetchFails`). `Turn`
is the object entering one of the final statuses.

| run | question | answer |
|---|---|---|
| `poll` | how far is the timeout overrun, how many fetches are made, is a timeout ever wrong, does it end? | `OverrunBounded`, `FetchesBounded`, `TimeoutJustified`, `WaitEnds` |

Bounds: intervals 1, 3 and the default, timeouts 1, 4, 6 and the default, so that
the interval divides the timeout, does not, and exceeds it; `MaxTime` is beyond
the last instant any call reaches (`OverrunBounded`), so it cuts nothing off.

Fairness: time passes, a fetch ends (httpx's timeouts and a finite budget:
`CallsEnd` of Transport), and a sleeper is resumed.

Proved in `Poll_proofs.tla`, for any arguments, `FetchMax` and `Lag`:
`PollTypeCorrect`, `PollInvCorrect`, `PollOverrunBounded`,
`PollTimeoutJustified`, `PollFetchesBounded`. The invariant, `PollInv`, is the types and
`TimesInv`, which places each fetch: either it began a whole interval after the one
before, or it is the one look taken at the deadline. `PollFetchesBounded` is the half of
`WaitEnds` that needs no fairness: the loop has only so many fetches to make.

## IdempotencyKeys

`IdempotencyKeys.tla` is the block `idempotency_key` (idempotency.py:17-52) and the
key `request` takes from it (client.py:164-173). `current[t]` is `_CURRENT` in the
context of task `t`, `tokens[t]` the values its open blocks saved. `Enter` and
`Exit` are the two ends of a block, `Spawn` is `asyncio.create_task` with its copy
of the context, `Request` and `Buy` are calls, the second refusing an empty key.
`header[t]` is the key all attempts of the call in progress carry. The format of a
key is one bit: `BadKeys` fail the check and nothing is stored or sent.

`LexicalKeys.tla` is the promise: a stack of keys per task, and a call carries the
top of it, unless it is given its own.

| run | question | answer |
|---|---|---|
| `idempotency_keys` | does each call carry the key lexically around it? | yes, `LexicalKeys` is implemented |

Bounds: two tasks, so that one may start inside a block of the other, two keys and
two open blocks per task, so that a block is left for another key and for none.
Assumption: a task leaves its blocks in the order of their nesting. A generator
that yields inside a block, and whose consumer lets it go in another order, breaks
it.

Proved in `IdempotencyKeys_proofs.tla`, for any tasks, keys and depth:
`TypeCorrect` and `KeysAreLexical`, the refinement, action by action; a task's
stack is `<<current>> \o tokens`.

## Settings

`Settings.tla` is the writes of one wallet's settings by several callers:
`update_settings` (sweeps.py:330-386), `set_label` and `set_callback_url`
(wallets.py:183-252). A cell is a field in a layer (the address, or one of its
networks) or a name of the wallet. `Means` and `Meant` say what a call asks for, by
the docstrings: `None` leaves alone, `CLEAR` and `""` clear. `Named`, `UpdateBody`
and `NameBody` are the body the code builds, `Put` what the gateway makes of it.
`Retry`, `NetworkFailure`, `Fail`, `Succeed` and `Cancel` are the request loop as a
write sees it, `Land` a request given up on that arrives after all. A 5xx, retried
(502, 503, 504) or raised at once (500, 520: `"failed"`), comes with the write made
(`Carry`), without it (`Refuse`) or before it (`Postpone`). Clocks and
signatures are left to `Transport`; so is the backoff, since a request may travel
for any time.

| run | question | answer |
|---|---|---|
| `settings` | does a write change anything but what it names, and does it stand? | `OnlyAsAsked`, `SoleWriterPrevails` |

`SoleWriterPrevails` names its exception: `doubtful` cells, of a call that ended
without a clear answer. Among these ends are a refusal of a retry
(`SWEEP_SETTINGS_LOCKED`), because the attempt before it may have been carried out, and
a 500, of the first attempt too, because the write may have been made before it.

Bounds: one network beside the address, two fields and one name; five things to ask
(set and clear, both layers, `""` for a network), of cells that each of them changes;
three calls by two callers with one retry, so that a third call meets the late request
of the first while the second is under way.

Proved in `Settings_proofs.tla`, for any callers, networks, fields, names and
values: `SettingsInvCorrect`, `SettingsSoleWriter`, `SettingsOnlyAsAsked`. They rest
on `PutMeans`: what the gateway stores from the body is what the call means. The
invariant `SettingsInv` includes the types and adds that requests adrift concern doubtful cells only, and
how a cell stands during the call of its only writer.

## Wallets

`Wallets.tla` takes every call of `Transport` for a `wallets.freeze` of one wallet
(wallets.py:136-138).

**Finding** (`freeze_retried`, `FreezeToggles` violated). `freeze` goes through the
retry loop. If the gateway carries out a freeze and its answer is lost, the retry
toggles back, and the one call, which "toggles the frozen flag" (wallets.py:137),
returns the wallet as it was. The run assumes a gateway that carries out each
request it receives; without a retry each call
toggles once (`UnretriedCorrect` of Transport). That the toggles of all calls add up
is a sum over the calls, an induction that the prover does not reach.

## Transactions

`Transactions.tla` is `sign`, `execute` and `wait_for` (services/transactions.py:335-371)
over the loop of `client.request`, as the examples use them (sign_execute.py,
uniswap_swap.py): a task signs a call, executes the uuid it was given, waits for a
final status, and goes on to the next call only when that is `confirmed`. `pc` is the
method a task is in, `attempt` the loop's counter, `uuid` what it holds. `ServeSign`,
`ServeExecute` and `Refuse` are the answers, each of which may be an error that is
retried or raised though the request was carried out; `Abandon` gives up on a request
that may `Land` later. `Resume` is a merchant who tries again after an error: the method that
raised it, or, with a uuid in hand, the wait.

The gateway and the chain are external, taken from the statuses (transactions.py:37-56)
and the docs of the SDK: a new signature of an EVM address cancels the ones not executed
(`superseded_uuids`), one that is executed has a nonce in a row with those before it,
an execute may leave its outcome open (`broadcasting`), a block takes the next nonce.

`CallSequence.tla` is what a program that makes its calls one after the other may rely
on: of each call it sees the transactions sent and what became of them (`sent`), and
of each program what it was told (`told`). `Send` asks that the calls before are
confirmed, that this one was not sent, and that the program was not told the end;
`Tell` that what is told is true: `dead` is a call that failed or will never be sent.
A signature that was sent is a transaction of it, a final `outcome` is what is told,
and signing, retries, cancelled signatures and what is adrift are stutters.

| run | question | answer |
|---|---|---|
| `transactions` | can a call be sent twice, a dependent call be signed early, or a final answer change? | no: `SentOnce`, `InOrder`, `FinalIsFinal` |
| | is a program ever told that its calls ended when one of them may still be sent? | no: `ImplementsSequence` |

Two signatures of one call do arise, from a retried or late `sign`; but only one of
them is known to the task, and the other can be executed by nobody. `SentOnce` rests on
that and on the merchant not signing a call again once it holds a uuid: the mutation
`ResumeSigning`, which begins anew after any error, breaks it.

Bounds: a program of two calls and one of a single call on one address, so that each
supersedes the other's signatures; one retry each and one resumption in all; three
signatures, so that a call may have two and still be followed by the next.

Proved in `Transactions_proofs.tla`, for any tasks, calls, retries and signatures:
`TransactionsTypeCorrect`, `SentOnceCorrect`, `InOrderCorrect`, `FinalIsFinalCorrect`.
None is inductive. `TxInv` adds what a task past `sign` holds (`HeldInv`), what may be
adrift (`AdriftInv`), that no signature is of a call its task has not come to
(`SignedInv`), that a call left behind is confirmed (`ConfirmedInv`), and `OneInv`: a
signature is executable if it was sent, is held, or is in an `execute` adrift, and of
a call there is at most one such. The lemmas say once what each action may do to the
signatures (`Grows`), and one lemma per conjunct is enough for all actions.

`SequenceRefinement` proves `Spec => ImplementsSequence`. `StatusInv` and `CallInv` join
`TxInv`: a signature was sent exactly if its status says so, and a task is at a call it
has. `StepSends` says that a step sends nothing or one executable signature, which
`OneInv` makes the only one of its call and `ConfirmedInv` puts after the confirmed
ones; `StepTells` that a task is told nothing but by the last answer of its `wait_for`.
From then on the signature it holds has a final status (`FinalIsFinal`), and `OneInv`
lets no other one of that call be executed; so nothing is sent after it.

## Webhooks

`Webhooks.tla` is `verify_webhook` and `parse_webhook_event` (webhook.py:162-255) in the
endpoint of examples/webhook_server.py, against the platform that delivers. `Verdict` is
the checks in the code's order; `Window` and `OutOfRange` count whole seconds of clocks
that run in half seconds, as the code floors both. `Signed` is what the signature
covers (sign.py:127-149). `Receive`, `Handle` and `Answer` are the handler: it verifies,
acts unless the delivery is on record, then acknowledges; `EndsUnacknowledged` is a 401
or its death, at any point. The record survives a crash and is written with the
effect, keyed on the delivery id, which the docs call "the natural idempotency key for
your receiver" (services/webhooks.py:8). The example only prints that id
(webhook_server.py:91) and hints, in a comment, at a record keyed on the event's
`task_id` (:55); here each event has one delivery, so that the two keys agree.

`Notifications.tla` is what endpoint and platform may rely on between them, with the
posts out of sight: an event happens, is dropped when newer news of its object overtakes
it before anything was posted (`Happen`), is acted on once and only while it is open
(`Act`), and is counted as delivered only after that (`Learn`) until someone resends it
(`Forget`). Attempts, posts, their damage and the endpoint's death are stutters.

The platform is external: it attempts a delivery anew with a new timestamp, drops one
that a newer event of the object overtook before it was sent, and refuses to resend
while it is sending or has newer news. A post may be late, arrive twice (`Receive` may
leave it on the wire) or be damaged in one of its parts.

| run | question | answer |
|---|---|---|
| `webhooks` | is an event handled once, is delivered handled, does the window accept what is fresh and nothing else? | yes: `HandledOnce`, `DeliveredIsHandled`, `AcceptedIsFresh`, `PunctualIsAccepted` |
| | is an event ever acted on that was dropped, or known before it was acted on? | no: `ImplementsNotifications` |

`AcceptedIsFresh` and `PunctualIsAccepted` meet up to the second that the floors cost:
whole seconds of the tolerance are always accepted, a second beyond it never. A
tolerance below one second is a window of none, one of zero is the default.

Bounds: two events of one object, two attempts each, a clock behind and one ahead,
tolerances of zero (the default is taken) and of half a second, one damaged post.

Proved in `Webhooks_proofs.tla`, for any deliveries, attempts, clock skews, tolerances
and damage: `WebhooksTypeCorrect`, `HandledOnceCorrect`, `DeliveredIsHandledCorrect`,
`AcceptedIsFreshCorrect`, `PunctualIsAcceptedCorrect`. `HookInv` says that every post
carries the signature of what was sent, whatever became of the rest (`WireInv`), that
a recorded request is of a seen delivery (`ServingInv`), and that an event was handled
exactly if its delivery was seen (`SeenInv`). `NotificationsRefinement` proves
`Spec => ImplementsNotifications`; it needs `PostedInv` besides: what is on the wire,
served or handled was posted, and what is cancelled never was. The mutation
`WithoutBody`, a signature that does not cover the body, lets an endpoint act on an
event that was not posted, or twice. The arithmetic of the window is in
`WindowBounds`.

## EvmAbi

`EvmAbi.tla` is the ABI encoder (contract/evm_abi.py:140-316) against the decoder of
a contract. Words are numbers; `Pack` fills them from bytes, `Offset` and `Assemble`
lay out heads and tails. `string` is taken with `bytes`, `address` and `bool` with
`uint`; the parsing of signatures and of the texts of values is left out.

| run | question | answer |
|---|---|---|
| `client_side` | does a contract read back what was passed, and is no value of the types refused? | yes, where every fixed array is one word or stands beside no dynamic type |
| `evm_abi_wide` | and a fixed array of two words beside a dynamic argument? | no: see below |

**Finding.** `head_size = 32 * len(types)` (evm_abi.py:278) counts one word for each
argument, while the head of a static `T[N]` is `N` words (or more), which the next
lines do put into the heads. In `f(uint256[2],bytes)` the offset of the bytes is
64, where their tail begins at 96, and the contract takes the offset word itself
for the length. evm_abi.py:7-8 promises fixed and dynamic arrays of any supported
type.

Bounds: words of two bytes of four bits, so that bytes fill a word, leave it half
full and take a second; arrays of arrays, static and dynamic; all signatures of one
and two types, and of three simple ones. `int<M>` arguments are of their range: the
code does not check it (evm_abi.py:239).

## ClientSide

`ClientSide.tla` is what the SDK does in memory around a request. A behaviour is one
call of the ABI encoder, or two Jetton transfers, or one job: a service's arguments to
its body, a helper's to its contract call, an answer or an event to typed objects,
amounts and Borsh arguments to what is sent.

* `PyValues.tla` has the values: each has a tag (null, scalar, enum member, float,
  list, dict, dataclass instance).
* `Payloads.tla` is `_models.py`. `ToPayload`, `WireValue`, `RequestBody`, `Coerce` and
  `FromDict` are the functions of those names. `RequestShapes.tla` and
  `ResponseShapes.tla` are the dataclasses: a field is a scalar, a class, a list, a map
  or `Optional` of one.
* `Services.tla` is each function of each service as the arguments it takes, the path
  and the type it returns. Arguments differ: a dataclass's `None` is left out;
  `if x:` also drops what is empty (`IfTruthy`); `set_label` and `set_callback_url`
  refuse `None` and send `""` (`Required`). `CoerceWebhookEvent` picks an event's class.
* `ContractCalls.tla` and `Jettons.tla` are the helpers of `TransactionsService`
  (375-554) with `ton/messages.py` and `ton/rpc.py`. `Jettons` has the awaits: the cached
  lookup with its two sources, then the question whether the recipient has a wallet,
  while the chain deploys wallets and other transfers fill the same cache.
* `Borsh.tla` is contract/borsh.py and base58.py, with the reader of an Anchor program
  beside it; `Amounts.tla` is amount.py on sequences of characters.

| property of `client_side` | what it says |
|---|---|
| `ReadsTyped` | what a service returns has the declared types all the way down, lists where lists are promised even for null, and nothing declared is lost |
| `SendsWhatIsSet` | a body carries all that was given at any depth and no `None`; a call is refused only for NaN or a required `None`; a helper makes one call of the contract named, with the amount and the flags given, and refuses if and only if no call can be made of its arguments |
| `AmountExact` | no digit is lost above a base unit, nothing but a plain decimal is accepted, a printed amount that is not negative is read back |
| `BorshReadsBack` | a program reads back its arguments, whatever their nesting; what does not fit a u128, a fixed array or a key is refused |
| `RightWallet` | a transfer calls the wallet of its own sender and Jetton, whoever filled the cache, and is budgeted for an existing wallet only when there is one |
| `DecodesBack`, `AcceptsValues` | see [EvmAbi](#evmabi) |

Three places where the code may surprise, and what the properties say of them:

* `base_to_human` drops the sign of a negative amount (amount.py:80), though amount.py:69
  calls it the inverse of `human_to_base`. No string converts to a negative amount
  (amount.py:43), so `AmountExact` speaks of the others; `BaseToHuman` prints negative
  ones as the code does.
* A null among the elements of a list is passed through as `None` (_models.py:123-127),
  which `List[Class]` does not announce. The answers tried contain such elements, and
  `ReadsTyped` allows that one `None` and no other.
* An amount that is `None`, `""` or zero is taken as not given: an NFT transfer with
  `attached_ton=0` attaches the default 0.05 TON (transactions.py:533), and an EVM call, a
  TON call or a comment sends zero. `SumOf` in `SendsWhatIsSet` states that.

Bounds. Each function is called with everything, with the least, and with either of
them changed in one argument, at any depth, to every form it may have; each answer has
one field at a time missing, null, empty or of another form. The conversions treat
fields one by one, so combinations of two add nothing. Dicts of `client.request` are
nested twice. Amounts are all strings of up to four characters (digits 0 and 7, dot,
minus, exponent, space, letter) at -1 to 3 decimals. A Borsh byte has one bit, so that
a u64 is a number below 2^8 and a u128 one below 2^16, and each width has values at its
limits and beyond; types stand alone, in pairs and nested once. Two transfers share
the cache, from two senders and of two Jettons.

Proved in `Jettons_proofs.tla`, for any transfers, arguments, wallets and sources:
`RightWalletCorrect`, under `JettonSpec`, the transfers of `Jettons` alone (the other
jobs of `ClientSide` leave its variables as they are). The invariant says that a cache
entry holds the wallet of its own key, whoever filled it (`CacheInv`), and what a
transfer knows at each of its awaits (`WaitingInv`). The chain only deploys wallets, so
an answer that one exists does not go stale.

The other modules define conversions by recursion over data, which the prover does not
reach.

## What is not modelled

* `sign.py`: the string to sign joins its fields with a line break that none of them
  can hold, and the rest is a hash. Its timestamp and nonce are in `Transport`, the
  webhook's signature in `Webhooks`, as the record of what it covers.
* `parse_api_error` (transport.py): it only reads; `Transport` and `Orders` take the
  status and the flags the loop tests as inputs.
* `aclose`, `rsa_decrypt`, `decrypt_private_key`: two flags whose hazards are listed. The
  code has no rule for being closed during a call.
* `ton/address.py`: a parser with a CRC over single bits, of which a small alphabet
  would show nothing. The parsers of ABI signatures and of addresses in texts are left
  out for the same reason, and each is one bit: it raises or does not.
* The text forms of webhook headers: they are single and well formed, missing or
  repeated.
* Keccak, SHA-256, HMAC: library code, symbols where they matter.
* The jitter of `backoff_delay` (any sleep is allowed), logging, messages, constants and
  re-exports.

`Transport` leaves out errors of httpx that are not `HTTPError`; they end a call at once.

Only model-checked: the liveness properties (`CallsEnd`, `WaitEnds`; what bounds each
loop is proved, as `StepsRunOut` and `FetchesBounded`), and of the run
`client_side` what is recursion over data (`DecodesBack`, `AcceptsValues`, `ReadsTyped`,
`SendsWhatIsSet`, `AmountExact`, `BorshReadsBack`). A null in a plain scalar slot is passed through as `None` by the code
(`from_dict`), and `ReadsTyped` claims no more.

Not covered by a property, though the code is modelled: an integer too large for a Borsh
width up to u64, which is cut to it; and the order in which different events of one object
are handled. `PROJECT.json` says why under "hazards".

## How to run

    tlc -workers 2 -config MCTransport_retry.cfg MCTransport
    tlc -workers 2 -config MCClientSide.cfg MCClientSide
    tlapm Transport_proofs.tla

A component's module holds the specification and its properties, its `MC...`
module the values of the constants, its `..._proofs` module the theorems. The
assumptions (`TransportAssumption`, `WindowAssumption`, `OrdersAssumption`,
`PollAssumption`, `KeysAssumption`, `SettingsAssumption`, `TransactionsAssumption`,
`WebhooksAssumption`, `EvmAbiAssumption`, `BorshAssumption`) are
evaluated by every run of the module.
Definitions marked *Mutation* are plausible defects of the definition that
follows them; replacing it by the mutation must break the property that
`PROJECT.json` names. `CHECK_DEADLOCK FALSE` is set throughout because every one
of these programs stops when its calls are done.
