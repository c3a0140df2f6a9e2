# RSends, verified

A TLA+ development of RSends: a non-custodial gateway in which a payer calls a
router contract (or sends a TRC-20 transfer), the merchant receives the money in
the same transaction, and the backend only has to *notice* it. Being
non-custodial, it cannot lose funds; what it can do is tell a merchant "paid" too
early, tell nobody, tell twice, or forget an invoice. What its checkout page can
do is take a payment that is out off the payer's screen, so that it is made
twice, or never report it; what its dashboard can do is sign a live session out.
Those are the subjects of the modules.

Paths below are relative to `src/services/backend/app/` (the Python backend) or,
where they start with `lib/`, `hooks/`, `components/` or `app/pay`, to
`src/apps/web/` (the Next.js application), unless they start with `src/`.

## 1. Inventory

| Component | State | Operations | Talks to | What is hard | Correct when |
|---|---|---|---|---|---|
| EVM payment indexer (`services/payment_indexer.py`) | `payment_settlements` rows, in-memory reorg evidence and terminal ratchet, cursor | `_tick`: heads, ingest, sweep, finalize, reverse | RPC manager, intents, webhooks | reorgs, providers that lag, lie or fail, restarts, two finality modes | paid means final; reversed means really gone; the merchant hears about both |
| Indexer cursor (same file, `models/indexer_models.py`) | cursor in Postgres, copy in Redis | chunked scan, tail re-scan, adoption | RPC manager | partial windows, lost stores, swallowed errors | no block is skipped |
| Intent lifecycle (`services/intent_service.py`, `api/merchant_routes.py`, `tasks/webhook_tasks.py`) | `payment_intents` | create, GET (auto-expire), cancel, resolve, expiry task | indexer, webhooks | stale reads against row locks at READ COMMITTED | a status that was left is not written back |
| Webhook delivery (`services/webhook_service.py`, `tasks/webhook_tasks.py`) | `webhook_deliveries`, endpoint health | enqueue, attempt, retry ladder, auto-disable, health check | merchant endpoints | concurrent workers, a crash after the POST | every event arrives at least once, under one id |
| Routers (`src/packages/contracts/src/`, `services/split_math.py`) | fee per asset, paused | pay, split, configure | payers, recipients, the backend's copy of the split | rounding, overflow, recipients that run code or refuse, fees that change between quote and payment | what comes in goes out, to the unit; both sides compute the same legs |
| TRON path (`services/tron_poller.py`, `tron_matcher.py`, `tron_hints.py`, `tron_verifier.py`) | timestamp cursor, transfers, hints, partial payments | poll, match, hint, verify | TronGrid, intents | paging, amount-only matching, ambiguity | each transfer settles at most one invoice, and none is skipped |
| RPC manager (`services/rpc_manager.py`) | provider health | call, failover | nodes | it is the source of lies and outages | (environment of the indexer) |
| Circuit breaker (`services/circuit_breaker.py`) | Redis state machine, local fallback | call, probe | Redis | several workers, half-open counting | few probes; recovery |
| Idempotency (`middleware/idempotency.py`) | lock and cached response in Redis | claim, wait, store | API | lock expiry | one execution per key |
| Hosted checkout: poll and page (`lib/web3/usePaymentIntent.ts`, `app/pay/[intentId]/_components/HostedCheckout.tsx`) | what the page knows of the intent, poll mode and timer, open fetches | fetch, retry, refresh, sync polling, local expiry | intent API | fetches overlap and are never aborted; failures, throttling | the poll does not die; "paid" is the backend's word |
| Hosted checkout: EVM wallet flow (`lib/web3/useHostedCheckout.ts`, `checkoutState.ts`, `ActionArea.tsx`) | wallet, chain reads, mutations, receipt | connect, switch, approve, sign, pay, retry, change wallet | wallet, router, poll | wallet, receipt, poll and clock move independently; prompts outlive the page's interest | a payment that is out stays on the screen; success is real |
| Hosted checkout: TRON flow (`lib/web3/tron/useTronPayment.ts`, `TronPayPanel.tsx`, `TronWalletProvider.tsx`) | panel status, generation counter, running attempts | pay, retry, watch the receipt | TronLink, node, poll | `pay()` resumes after every await in a page that may have moved on | no second transfer; nothing finished for a stale payer |
| Browser session (`lib/auth-client.ts`, `lib/logoutClient.ts`, `app/api/rp-auth`, `services/auth_service.py`) | cookies, refresh in flight and broadcast tokens per tab, Web Lock, session record | refused call, refresh, rotate, sign out, log in | Redis, NextAuth | one-time refresh token shared by tabs, lost answers, reloads | one tab refreshes at a time; only a dead session is signed out |
| Keys and limits (`services/user_api_key_service.py`, `key_usage_service.py`) | key rows, counters | check, count | API | read-then-write | the limit holds |
| The rest (rate limits, organisations, sign-in, fee invoices, registry, AML, audit, the pages of the dashboard and the landing site) | see `PROJECT.json` | | | mostly one transaction each, or no state | |

The backend's components meet in two places. The **intent row** is written by the
merchant's calls, the expiry task, the indexer and the TRON matcher; a pending
or final settlement *holds* it against expiry and cancellation
(`settlement_hold_exists`). The **webhook** is dispatched by the indexer under a
claim column (`webhook_fired_at`, `reversal_fired_at`) that is released when the
dispatch raises. The browser meets the backend in two more: the checkout page
*reads* the intent, through answers that may be late, lost or refused, and the
dashboard exchanges its refresh token through a proxy that sets the cookie.

## 2. Modules

| Module | What it is |
|---|---|
| `SettlementIndexer` | the indexer on one chain, with the chain, the providers, the merchant and the expiry task around it |
| `PaymentPromise` | what the indexer promises a merchant about an invoice (abstract) |
| `MCSettlementIndexer` | instances for TLC |
| `SettlementIndexer_proofs` | TLAPS proofs about `SettlementIndexer` |
| `SettlementPromise_proofs` | TLAPS proofs of what a merchant is told, and of the refinement of `PaymentPromise` |
| `IntentTransactions` | the database transactions that write one intent, statement by statement |
| `IntentLifecycle` | the life of an intent as its merchant may rely on it (abstract) |
| `MCIntentTransactions` | instances for TLC |
| `IntentTransactions_proofs` | TLAPS proofs about `IntentTransactions` |
| `WebhookDelivery` | the deliveries to one endpoint, their retries, and the endpoint's health, under concurrent workers and producers |
| `MCWebhookDelivery` | instances for TLC |
| `WebhookDelivery_proofs` | TLAPS proofs about `WebhookDelivery` |
| `IndexerCursor` | how the indexer walks the chain: the cursor in two stores, windows, chunks |
| `MCIndexerCursor` | its instance for TLC |
| `IndexerCursor_proofs` | TLAPS proofs about `IndexerCursor` |
| `IntentPoll` | the poll of the checkout page, with the backend it asks |
| `EvmCheckout` | the wallet flow on a router chain, over `IntentPoll` |
| `TronCheckout` | the TRON flow, over `IntentPoll` |
| `HostedCheckout` | the page: one poll, and the flow that the intent's chain calls for |
| `MCHostedCheckout` | instances for TLC |
| `HostedCheckout_proofs` | TLAPS proofs about the poll, both flows, and the types of the page |
| `SessionRefresh` | calls, tabs, refresh requests, the rotation at the backend, log-out and log-in |
| `MCSessionRefresh` | instances for TLC |
| `SessionRefresh_proofs` | TLAPS proofs about `SessionRefresh` |
| `Router` | the three payment contracts, a call and its legs, with the backend's copy of the split |
| `MCRouter` | its instance for TLC |
| `Router_proofs` | TLAPS proofs about `Router`, and about the sums it takes |

### SettlementIndexer

| State | Code |
|---|---|
| `head`, `finalized`, `forks`, `ver`, `at` | the chain: tip, finalized height, which fork owns each canonical block, where each log is |
| `status`, `rowH`, `rowV`, `fired`, `revFired` | `payment_settlements`: `status`, `block_number`, `block_hash`, `webhook_fired_at`, `reversal_fired_at` |
| `phase`, `finalHead`, `todo` | locals of a running `_tick` |
| `ratchet` | `PaymentWatcher._terminal_ratchet` |
| `evidence` | `_REORG_SUSPECTS` |
| `honest` | history: some evidence of the running streak was true |
| `istatus`, `matched` | `payment_intents.status`, `matched_tx_hash` |
| `told` | webhook events recorded for the merchant of each intent |
| `revLost` | history: a `payment.reversed` dispatch of this intent raised |
| `mode` | `settings.indexer_use_finalized_tag` |

A block hash is a pair (height, fork). Every fork is fresh, so a hash that left
the canonical chain does not come back; a transaction that was dropped may be
included again anywhere above.

| Action | Code |
|---|---|
| `Mine`, `Reorg`, `AdvanceFinality` | the chain (external) |
| `Create`, `Expire`, `Cancel`, `Resolve` | `create_intent`, `_claim_intent_expiry`, `cancel_payment_intent`, `resolve_late_payment` |
| `TickBegin(tag)` | `_tick` up to the ratchet, with `tag` the answer to the finalized-tag query |
| `Ingest(l)` | `_record_settlement` of one log |
| `BeginReconcile(sent)` | the unfired-webhook sweep and the selection of `_finalize_and_reconcile` |
| `KeepRow`, `FinalizeRow`, `SuspectReorg`, `ReverseRow`, `ReverseConflict` | one selected row: nothing to do; `_finalize_settlement`; one evidence tick; `_reverse_settlement`; the same, rolled back by `uq_intent_pending_amount` |
| `TickFails`, `Restart` | an exception out of `_tick`; a new process |

What is abstracted, and why it is safe to:

- *Rows commit one by one.* The code commits a reconcile once. A reconcile that
  is rolled back half-way leaves its earlier rows as they were and their
  evidence counters popped, which is what `KeepRow` does to them; so every
  committed outcome of the code is one of the model. What the model does not
  show is the webhook that was already posted when the transaction rolled back
  (a listed hazard, for the webhook module).
- *The scan window.* Within a tick any log on the canonical chain may be
  ingested, in any order, or none. The window and the cursor are
  `IndexerCursor`: its `TailIsRescanned` is why the fairness of `Ingest` offers a
  log again and again while its block is not final, and no longer than that.
- *Validation.* Whether a log matches its intent does not change over time, so
  it is a constant (`Valid`); an invoice id nobody issued is `NoIntent`.
- *False evidence.* A provider may report a canonical block as replaced and a
  live transaction as absent (`Noise`), which is what B-2 in the code defends
  against; it is never wrong for a whole evidence window without one true
  answer. `honest` is that assumption.
- *One event per intent.* `send_webhook` deduplicates by intent, event and
  endpoint, so `told` is a set.
- *Intent steps are atomic.* `IntentTransactions` takes them apart: an intent
  with an observed payment is never cancelled there, and until GET or resolve
  overwrites a status its transactions implement the life cycle that the atomic
  steps follow. The
  guard of `Expire` is a little stronger than the code, which may expire an
  invoice whose payment is being ingested at that moment; such an invoice is
  *open* as before and is paid all the same. GET's auto-expire is left out here,
  because it breaks the life cycle (finding 2).
- *Finality mode* is a setting and does not change over a behaviour.

### IndexerCursor

| State | Code |
|---|---|
| `head`, `finalized`, `forks` | the chain |
| `pg`, `redis` | `indexer_cursors.last_block`; the Redis key, as long as it is read |
| `next`, `end` | `chunk_start` and `end_block` of a running `_tick` |
| `origin` | history: the first cursor |
| `seen` | history: for each block as it is now, that no scan has met it, that it is in, that its ingest raised, or that it came after the watcher had passed (`gone`) |

| Actions | Code |
|---|---|
| `Grow`, `Reorg`, `AdvanceFinality` | the chain (external) |
| `TickBegin(latest, floor)`: `FirstRun`, `BeginScan` | `_tick` up to the chunk loop: no cursor yet; the window |
| `ScanChunk(bad)` | one round of the loop, with `bad` the blocks whose ingest raises |
| `TickFails` | an exception, or a restart |

Redis is read only while Postgres has no cursor, so `redis` is forgotten from
then on. A write may reach either store or neither; whether the tick went on
because of Redis or broke off is left open. The heads a tick reads may be a block
old, and its floor may be the confirmation depth (an outage of the tag, or depth
mode). The node that answers `eth_getLogs` is assumed to know the blocks that
exist, which is what `HEAD_SAFETY_MARGIN` is for. A configured start block, the
decoders and what an ingest does with a log are left out.

### PaymentPromise

Five moves on an invoice (open, close, pay, announce, retract, and a late
retraction of a lost one). `SettlementIndexer` implements it under the mapping
`StateOf`: pending, expired and review are *open* (a late payment still pays
them), paid is *paid*, cancelled, completed and refunded are *closed* for ever.

### IntentTransactions

One intent, its settlements, and every transaction that may write it. The
variables `status`, `matched` and `row` hold what is committed; `pc[a]` says how
far the transaction of actor `a` is, `lock` who holds the row lock of the intent,
`job` and `seen` what the watcher has read. `due` is "`expires_at` has passed".

| Actions | Code |
|---|---|
| `IngestLock`, `IngestCommit` | `_record_settlement`: the intent's `FOR UPDATE`, then the settlement row |
| `FinalizeRead`, `FinalizeNoop`, `FinalizeFlush`, `FinalizeCommit` | `_finalize_settlement`: a plain SELECT, and an ORM write by primary key |
| `ReverseRead`, `ReverseUnmatched`, `ReverseFlush`, `ReverseCommit` | `_reverse_settlement` |
| `CancelLock`, `CancelRefused`, `CancelCleared`, `CancelCommit` | both cancel routes: `FOR UPDATE`, hold check, write |
| `ClaimStart`, `ClaimLock`, `ClaimLost`, `ClaimCommit` | `_claim_intent_expiry`: one conditional UPDATE |
| `GetRead`, `GetCheck`, `GetCommit` | the auto-expiry of `GET /payment-intent` |
| `ResolveRead`, `ResolveCommit` | `resolve_late_payment` |
| `Rollback`, `ExpiryPasses` | any failure of a transaction; the clock |

The rules are those of Postgres at READ COMMITTED, the default that the
application's engine does not change. A statement sees what was committed when
it began. `SELECT ... FOR UPDATE` and a write wait for the row lock, which is
kept to the end of the transaction. An UPDATE that waited evaluates its WHERE
clause again on the *new version of that row*, but its `NOT EXISTS` subquery on
`payment_settlements` keeps the old snapshot: `ClaimLock` therefore checks the
status again and the hold not. An ORM write names the primary key only, so it
overwrites whatever is there (`FinalizeCommit`, `GetCommit`, `ResolveCommit`).
The history variable `lost` says that GET or resolve, which read without a lock,
did that to a status they had not read.

There is one watcher per chain: the service runs as one instance
(`src/render.yaml`), and a watcher works through its rows in sequence. It is
free to work on any of the intent's rows at any time: which row is reversed and
why is the subject of `SettlementIndexer`.

### IntentLifecycle

Three moves (close, pay, un-pay). A cancelled, completed or refunded intent
stays so, and a paid one can only go back to pending. Under the identity mapping
the transactions implement it as long as GET and resolve have overwritten no
status they had not read (`lost`).

### WebhookDelivery

One endpoint of a merchant. Producers are transactions that call `send_webhook`,
which inserts a delivery and posts it at once, inside the caller's transaction.
Workers are runs of the delivery task, started every 15 seconds and allowed to
overlap: each selects a batch of pending deliveries without a lock, and works it
off in *one* transaction.

| State | Code |
|---|---|
| `row`, `rowNow`, `holder` | `webhook_deliveries` (`status`, `retries`) as committed, as last written, and who holds the row lock |
| `end`, `endNow`, `endHolder` | `merchant_webhooks` (`is_active`, `consecutive_permanent_failures`), in the same way |
| `pc`, `batch`, `cur` | where a transaction is, the deliveries it still has to visit, the one it is at |
| `saw`, `sees` | what its session loaded and need not read again: `retries`, with the batch, and `is_active`, with the first delivery it visits (`{}` before) |
| `answer` | how the attempt ended: 2xx, transient, permanent on the last try, refused egress |
| `asked` | the columns a request to re-enable is about to write |
| `tries`, `got`, `excused`, `blame` | history: POSTs made, 2xx answered, given up without a POST, give-ups counted since the count was last 0 |

| Action | Code |
|---|---|
| `Produce` | `send_webhook` up to the attempt; an inactive endpoint gets nothing |
| `Select`, `Visit`, `Abandon` | `process_pending_deliveries`: the query, the next delivery, "not found or inactive" |
| `Post` | `_attempt_delivery` up to the answer |
| `Delivered`, `Retry`, `GiveUp`, `Blocked` | the same, what it records, with `_note_delivery_success` and `_note_permanent_failure` |
| `Commit`, `Rollback` | the end of the task's or of the caller's transaction |
| `EnableRead`, `EnableWrite` | `enable_org_webhook`, which reads without a lock |

What is abstracted:

- *Statements.* A record writes the delivery, then the endpoint, and waits for
  each lock; here it takes both in one step. Two transactions that wait for each
  other end with one of them rolled back, and `Rollback` is always possible.
- *Columns.* The ORM writes the columns an attribute assignment changed. A
  worker that schedules a retry therefore overwrites `retries` with the number
  it read plus one, but not a `status` another worker committed meanwhile.
- *The identity map.* A session that loaded the endpoint for an earlier delivery
  may still use that copy, and a refresh replaces it. `Visit` and `Abandon`
  allow the loaded and the current value.
- *Time.* `next_retry_at` and the batch limit of 50 select some of the pending
  deliveries, at some time; `Select` takes any of them, at any time.
- *Events.* The unique key (intent, event, endpoint) is the identity of a
  delivery. A producer's row is not visible to others before the commit.

### IntentPoll

The hook `usePaymentIntent`. A tick opens a fetch and nothing aborts one, so the
module keeps a set of open requests: each is *sent*, then *served* with the
status the intent had at that moment, then *arrives* whenever it likes.

| State | Code |
|---|---|
| `status` | the intent at the backend; `absent` is a 404 |
| `phase`, `backendPaid` | the React states of these names (`phase` is `loading`, `not_found`, `unreachable` or the status shown) |
| `mode`, `timer` | `modeRef`; `timerRef` is set |
| `windowOver` | the initial fetch has been failing for its whole window |
| `requests` | the open fetches |

| Action | Code |
|---|---|
| `TimerFires`, `Schedule` | `tick`, `schedule`/`scheduleIn` |
| `Serve` | `GET /api/merchant/payment-intent/{id}` reading the row |
| `Arrive`, `Fail` | the continuation of `fetchOnce`: an answer or a 404; anything else |
| `WindowEnds` | the window of the initial fetch |
| `Refresh`, `Resume`, `StartSync` | `refresh()`, the retry button, `startSyncPolling()` |
| `BackendMoves` | the indexer, the TRON matcher and the expiry task, as a payer sees them |

`review` stands for every status that settles the invoice without being paid
(review, refunded, partial, overpaid): the page treats them alike. Backoffs and
the limiter's `Retry-After` are delays and so are left out. A paid intent that is
reversed afterwards is left out too: the page has stopped asking.

### EvmCheckout

`Step` is `deriveCheckoutStep`, `View` what `HostedCheckout.tsx` renders from the
poll and the step, and every control is an action guarded by the view that
offers it.

| State | Code |
|---|---|
| `route` | native, permit, or approve-and-pay |
| `connected`, `onChain`, `switchRefused` | wagmi's account and chain, the refused network switch |
| `reads`, `allowed` | fee, balance and permit data; the allowance last read |
| `approval`, `signing`, `payment` | the approve mutation and its receipt, the typed-data signature, the pay mutation |
| `fate`; `receipt`, `unread` | the transaction on chain; what the page read of it |
| `forgotten` | a prompt that is open in a wallet the page no longer listens to |

| Action | Code |
|---|---|
| `Connect`, `WalletChanges`, `SwitchNetwork` | the connect button, the wallet's own changes, `switchChain` |
| `ReadsSettle`, `RetryReads` | the contract reads and their refetch |
| `Approve`, `AnswerApprove`, `ApproveMined` | `approve()` and its receipt |
| `Pay`, `AnswerSign`, `AnswerPay` | `pay()` |
| `PaymentMined`, `ReceiptStalls`, `ReadReceipt` | the receipt of the payment, with `startSyncPolling` |
| `Retry`, `UseDifferentWallet` | `reset()`; the escape that disconnects and resets |
| `AnswerForgotten`, `SignForgotten` | what a prompt that was left open does when it is answered |

What is abstracted: an insufficient balance and a quote that is not there yet
are both "not enough to pay" (`reads = "wanting"`), since neither offers Pay; a
wallet's refusal is one of four classes (`humanizeTxError`). A refusal of the
chain that reads like a rejection would, once the wallet is disconnected, show
`rejected` where the model shows `failed`. The advisory hint that reports the
transaction to the backend is left out: it changes nothing on the page.

### TronCheckout

`pay()` is one long attempt. The model follows it from await to await (the
intent, the node, the wallet, the broadcast), and lets the payer, the poll and
other attempts act in between.

| State | Code |
|---|---|
| `account` | `wallet.address` |
| `panel`, `shown` | `TronPayStatus`, and the attempt whose txid it shows |
| `attempts` | each run of `pay()`: its await, whether the generation counter has passed it by, whether it was rebuilt, the payer it captured |
| `transfers` | what became of the transaction of each attempt |
| `slipped` | history: a stale attempt ended, the answer of a broadcast was lost, or the panel was taken down, with a transfer possibly out |

| Action | Code |
|---|---|
| `IdentityChanges` | the identity effect with `INVALIDATES`; connection and disconnection, by the panel's button or in the wallet, are changes too |
| `TronPay`, `TronRetry` | the Pay and Retry buttons |
| `CheckIntent`, `AskToSign`, `Signed`, `Rebuild`, `Broadcast` | `pay()`, await by await |
| `Abandon`, `Throw`, `OrphanEnds` | the `StaleAttempt` branch; every other exception; an attempt whose panel is unmounted |
| `Mine`, `WatchReceipt` | the chain; the receipt watch |
| `Panel` | mounting and unmounting with the status the poll shows |

What the payer sees is `Screen`, a function of `account` and `panel`:
`TronPayPanel` asks for a wallet before it looks at the status, which the hook
keeps meanwhile. A direct answer about the intent that names no status (429, 502)
passes for a pending one in `CheckIntent`, as `res.ok` is not asked. Energy, bandwidth and fee arithmetic decide only whether `pay()` throws, which
it always may. A rebuild may be signed and broadcast once more, as in the code.

### HostedCheckout

Composes the poll with one of the flows. A step of the poll is also a step of
the TRON panel, which is mounted only while the page shows the intent as
pending; the EVM view is a function of both states, so it needs no step. The
local countdown asks the backend once (`LocalExpiry`).

### SessionRefresh

A call that is answered 401 joins the refresh of its tab (`refreshInFlight`) or
starts one; refreshes of all tabs queue for one Web Lock; the tab that has it
sends the cookies of the moment; the backend compares, rotates and answers, or
revokes the session when the token was rotated away. It also refuses a user who is
gone or not active, after it has rotated; and it ends sessions by itself.

| State | Code |
|---|---|
| `store` | the refresh hash of each session in Redis, 0 without a record |
| `jar`, `signedIn` | the cookies `rsends_sid`, `rsends_refresh`; the NextAuth session |
| `holder`, `flight` | the Web Lock; `refreshInFlight` of each tab and how far it is |
| `remote`, `mail` | `remoteToken`; broadcasts not heard yet |
| `exchange` | the refresh requests: sent, compared, granted, denied |
| `waiting` | the calls that await the refresh of their tab |
| `leaving` | `performLogout` of the button |
| `lost` | history, since the login: an answer was lost or came to other cookies; the backend ended the session, or refused its user, for another reason than reuse; the session cookie ran out |

| Action | Code |
|---|---|
| `Refused` | `apiCall` on a 401 |
| `ReuseRemote`, `Ask` | `refreshUnderCrossTabLock`, `doRefresh` |
| `Read`, `Rotate` | `rotate_refresh_token`: the comparison (with the revocation of a reused token), and the write |
| `RefuseUser` | `refresh`, after the rotation: the user is missing or not active, 401, and the cookie goes with the exception |
| `SessionEnds` | the record goes without a word to the browser: `DELETE /sessions/{id}` and `revoke-all` from another session, a password reset (`_invalidate_all_user_sessions`), the purge of a deleted account (`_purge_redis_sessions`), 7 days without a refresh (`SESSION_REDIS_TTL`) |
| `CookieAges` | `rsends_sid` expires 7 days after the login (`auth_email_routes.py:101-109`): `refresh` renews `rsends_refresh` only |
| `Granted`, `Denied`, `SignOut` | the tab gets its answer; `performLogout` on a refusal |
| `ServerFails`, `Unavailable`, `Dropped` | a 5xx; a lost connection or the proxy's timeout; a request nobody waits for |
| `Hear`, `RemoteAges`, `Reload` | BroadcastChannel, the 10 s of `remoteToken`, a closed or reloaded tab |
| `Logout`, `Revoke`, `Leave`, `RevokeFails`, `Login` | the logout button and the next sign-in |

Tokens are numbered as they are minted, so a refresh token and the access token
that came with it share a number. Reads and writes of one request at the backend
are separate steps, since the code neither locks nor compares-and-swaps. A retry
of the logout uses the cookies of that moment; how many there are is left out.
The NextAuth session ends with a sign-out only: its own seven idle days are left
out, and end what they end as a sign-out would. A logout whose revocation is skipped
because Redis is down (`revoke_session` is best effort) is left out too: the
browser forgets the cookies all the same.

### Router

A call is a frame: it is entered with the money, computes its legs, pays them one
by one, and returns or is rolled back as a whole. `kind` says which contract it
is. A recipient's code runs while its leg is paid: `nonReentrant` keeps it out of
every payment function, but it may be the owner, so `SetFeeConfig` and `SetPaused`
are possible at any time.

| State | Code |
|---|---|
| `config`, `paused` | `feeConfig` of a token and of the native asset; `Pausable` |
| `offer` | the quote of `build_onchain_payment`, whose fee becomes `maxFee` and, with the amount, `msg.value` |
| `asset`, `amount`, `fee`, `shares`, `legs`, `i`, `bpsSum`, `allocated` | arguments and locals of the call |
| `held` | native money of the call that is still in the contract |
| `sent`, `saved` | history: what the legs paid; what a revert restores |

| Action | Code |
|---|---|
| `Quote` | `quoteFee`, asked by the backend |
| `PayFee`, `PayPlain`, `PaySplit` | the payment functions of `RSendsRouter`, `RSendsRouterV2` and `RSendsSplitRouter` up to the first transfer, or to the loop |
| `ComputeLeg`, `Computed`, `Refuse` | `_computeAmounts`: a turn of the loop, the remainder, a failed check or an overflow |
| `PayLeg`, `Return`, `Revert` | one transfer; the end; a transfer that fails, or no gas |
| `SetFeeConfig`, `SetPaused` | the owner |

A word is `0..MaxUint`: Solidity's arithmetic panics beyond it. The permit
variants differ in nothing that is paid. Left out are addresses (zero checks, the
fee collector and its change), lists of unequal length, permit signatures,
transfer of ownership, and tokens that take a fee of their own, which the headers
of the contracts exclude.

## 3. Runs

| Run | Instance | Question | States |
|---|---|---|---|
| `indexer` | 2 valid payments of 1 invoice in 2 transactions, a second invoice of the same amount, both modes, 2 blocks, 1 fork, evidence windows 1/2, noise, review possible | all invariants, both action properties, refinement of `PaymentPromise` | 1.5M |
| `indexer_live` | a valid and a mismatching log of 1 transaction, 2 invoices of the same amount, tag mode, no noise, 1 fork | liveness | 58,316 |
| `cursor` | 3 blocks, 1 fork, windows of 2 blocks in chunks of 1, lagging heads, refused writes | no block is skipped, every final one is reached, the tail is repaired | 16,029 |
| `indexer_stale_evidence` | tag mode, 1 payment, windows 2/2, noise, 1 fork | finding: evidence outlives the block it was about | violation |
| `intents` | 2 payments, 2 cancels, 2 expiry tasks, 1 GET, 1 resolve, review possible | the hold against cancel, the match, refinement of `IntentLifecycle`; a due intent is closed | 55,826 |
| `intents_get_expiry` | 1 payment, 1 GET | finding: GET expires an intent with an observed payment | violation |
| `webhooks` | 2 deliveries, 2 workers, 1 producer, 3 attempts, disabled after 2 give-ups | causes and ends of deliveries, the count that disables | 1.0M |
| `webhooks_live` | 1 delivery, 2 workers, 1 producer, 4 attempts | a delivery ends, though its count is overwritten | 6,586 |
| `checkout` | the three flows, 1 open fetch with a payer and 2 without, 2 accounts, 2 attempts, prompts left open, a node that loses answers | the poll, what the payer sees of a payment, that it is reported | 0.5M |
| `tron_second_transfer` | TRON, no lost answers | finding: Pay is offered while a transfer is out | violation |
| `router` | the 3 contracts, a word of 60000, amounts 0 to 13, 13 lists of shares, 4 fee configurations | conservation, the same legs as the backend's, refusals | 393,799 |
| `session` | 2 tabs with a call each, 2 requests at the server, 2 sessions, 3 tokens, Web Locks | nobody waits in vain; the tabs never make their session unrefreshable; only the dead are signed out | 0.8M |

Why the bounds suffice. Two logs are the smallest number with a paying and a
superseded settlement; two intents the smallest with an amount conflict. Two
blocks let a payment move, be finalized above or below the other, and leave a
confirmation between tip and gate. One fork gives a reorganisation during every
phase of a tick. A window of 2 has a first and a completing answer; windows
1/2 tell the pending one from the final one, and the other two runs have 2 for
both. Blocks that are replaced twice, and longer windows, are left to the proofs,
which bound neither. `MaxHeight` and `MaxForks`
are the only bounds on the behaviours; ticks, failures and restarts are
unbounded. `indexer` exchanges the two payments as a symmetry: they are
interchangeable together with their transactions, and its properties do not
name either. Deadlock is checked everywhere: a watcher can always begin a tick.

In `cursor` three blocks and windows of two make a tail that is longer than a
window, and chunks of one let a tick die between two. The margin is 0 there: it
only keeps the highest blocks out of a window, which three blocks cannot spare.
`MaxHeight` and `MaxForks` are the bounds on the behaviours; the system may stop
at them, with everything scanned and no tick that changes anything (no deadlock
check).

The intent runs have no bound on behaviours at all: the state is finite, and
every request may be repeated for ever. There is one intent: a cancel, an ingest,
a GET and a resolve each work on one. The expiry task (`webhook_tasks.py:121-160`)
and the reconcile of a tick (`payment_indexer.py:1098-1207`) work through several in
one transaction and may hold several locks; to the one intent of the model the
others are a longer wait, or a rollback that their failure or a deadlock causes, and
a transaction may wait or be rolled back at any time. Two cancels, or two expiry tasks, are two contenders of
the same kind for the lock beside the watcher.

In `webhooks` two deliveries are the smallest batch that is more than one, and
with a threshold of two they reach the disabling of an endpoint inside one
transaction, across two, and around a success. Three attempts have a first, a
middle and a last; in `webhooks_live` four let a slow worker put the count back
by more than one. `tries` is counted up to the limit only. Nothing else bounds
the behaviours: rollbacks, selections and re-enabling are unlimited. Deliveries
are interchangeable, and so are the workers (symmetry, safety run only).

In `checkout` one fetch besides the payer's actions gives every order of
serving, arriving and acting, because a fetch that was served keeps its answer
for as long as it likes; two fetches, whose answers overtake each other, are
explored in the instance without a payer (`Width`). Two attempts are the
smallest number with a stale and a live one, two accounts the smallest with a
switch; one prompt can be forgotten at a time. Every request and control may be
repeated for ever, except that an attempt with a transfer is not used again. The
page may really stop: a paid intent is shown and nothing more happens, so
deadlock is not an error there.

In `session` two tabs with a call each contend for the lock and hear each other's
tokens. Further calls of a tab join its flight and settle with it, which is proved
for any number of them (`WaitersAreServed`) and left to the proof. Two requests are one
with a tab and one that its tab gave up on. Two sessions let a request of the
old one meet the cookies of the new one; three tokens are a login and two
rotations, or two logins and one. `Sessions` and `MaxToken` end the behaviours
(no deadlock check); the proofs need neither bound. The two tabs, each with its
call, are interchangeable, and so are the requests.

In `router` the word is small enough that an amount of 7 overflows with a share
of 100 %, and every list of shares is there for a reason: equal and unequal
shares, remainders of 0, 1 and more units, shares that round to nothing, 20 and 21
recipients, none, one, a zero, a sum one below and one above, and one that
overflows on its own. The fee configurations have a threshold, a surcharge that
overflows, and a disabled asset. Calls follow each other without end.

### Fairness (`checkout`)

The browser's timers fire and a receipt that can be read is read (weak
fairness). A backend that is asked again and again answers some of the time:
strong fairness of serving *some* request and of *some* answer arriving. It may
fail any number of times in between. Nothing is assumed of the payer or of the
wallet, and nothing about the order of answers.

### Fairness (`indexer_live`)

`_loop` swallows every exception and polls again, so a tick always begins:
strong fairness of `TickBegin(finalized)` says that the finalized tag is
answered truthfully again and again, not that it is always. Strong fairness of
the reconcile of such a tick and of a row's finalization says that an outage does
not hit every tick at the same place for ever. Strong fairness of a log's ingest
is assumed only *while its block is not final*: a tick scans from
`min(cursor, floor) + 1`, so it comes back to the unfinalized tail and to nothing
else; an exception while a log is ingested is swallowed (`payment_indexer.py:1625-1630`)
and the cursor advances, so a log that no scan took in before its block was final
is not seen again. That the ticks do come back to a block of the tail is
`TailIsRescanned`, with its conditions: a tail no longer than a window, and a
chain that has grown `HEAD_SAFETY_MARGIN` beyond the block. Weak fairness
of the remaining row steps and of ending a tick is the process being scheduled.
Nothing is assumed of merchants, of the chain's progress, or of restarts.

### Fairness (`cursor`)

In tag mode. The chain grows (weak fairness). `_loop` begins a tick every few
seconds whatever the last one did: strong fairness of a tick that reads the heads
as they are. Strong fairness of a chunk without failures, one condition for each
block and for whether the window goes on after it: failures, each of which may
hit any tick, do not hit the same chunk for ever.

### Fairness (`intents`)

A transaction that has begun goes on (weak fairness of the watcher's and the
cancel's steps once begun). For the expiry task, which Celery starts every
minute: Postgres grants a row lock in turn, so a claim that waits again and again
for a lock that is released again and again gets it (`ClaimLock`, and the release
while it waits); and the task is not rolled back every time before it commits.
Since the task commits all due intents and their webhooks at once, that is an
assumption on the whole batch: one intent whose claim always failed would take
the others' expiry with it, every minute, and is excluded. Nothing forces a merchant to cancel or a payer to pay.

### Fairness (`webhooks_live`)

A transaction that has begun goes on: it posts, records, visits and commits
(weak fairness), and a statement that waits for a lock for ever is rolled back.
For the delivery itself the assumptions are strong fairness: the task runs every
15 seconds, so a delivery that is due again and again is selected again and
again; and rollbacks do not hit *every* batch with it at the same place. That
last assumption is one the code does not earn for a batch of many: a batch is one
transaction, and a delivery whose processing raises each time would keep the
others of its batch from ever committing. The run has one delivery, so it says
nothing about that (a listed hazard).

## 4. Properties

- `PaidIsBacked`: an intent is paid exactly while the settlement it was matched
  to is valid and final, and matched only then.
- `UnpaidIsRetracted`: a merchant told `payment.completed` whose intent is not
  paid was told `payment.reversed`, or that dispatch raised.
- `TagFinalIsNotStranded`: in tag mode a canonical final row never leaves its
  intent waiting (F-4).
- `FinalReversalIsGenuine`: a final row is reversed only if its block is gone
  (B-2, F-1), whatever the mode, the noise and the restarts. So it is never
  reversed once truly finalized (`FinalizedIsForever`).
- `KeepsPromise`: the refinement. Part of it is that `payment.reversed` never
  comes out of the blue (`RetractsOnlyWhatWasTold`).
- `PaidIsAnnounced`: the sweep tells every paid merchant in the end.
- `FinalizedPaymentSettles`: a valid payment on the chain is taken in from the
  block it is in now, again after each reorganisation, and once that block is
  final its invoice is no longer open. The exceptions are in its statement: a
  payment that a reorganisation drops, and one that no scan took in while its
  block was not final, because ingesting it raised every time or because the
  watcher was behind. The second is a payment the program loses for good when
  the cursor has passed it, as `TailIsRescanned` says too.

- `NoBlockIsSkipped`: above the first cursor the watcher is past no block that no
  scan has met. The window moves back and forth, the cursor may come from either
  store, and a tick may die anywhere.
- `FinalBlocksAreReached`: the watcher gets to every finalized block, though the
  re-scan of the tail starts over in every tick.
- `TailIsRescanned`: a block whose ingest raised, or that was replaced after the
  watcher had passed, is taken in after all, if it is within a window of the
  finalized height and not finalized first.

- `HoldExcludesCancel`: an intent with an observed payment is never cancelled
  (F-5), whoever else writes it. It holds because ingest and cancel take the
  same lock, and neither the hold check nor the write alone would do.
- `MatchedIsFinal`: the settlement an intent is matched to is final, also when
  GET or resolve overwrote the status.
- `KeepsLifecycle`: the refinement, up to the first time GET or resolve overwrites
  a status it has not read (`lost`); among others no expiry or cancel is written
  over a paid intent, though `_finalize_settlement` reads without a lock too.
- `DueIsClosed`: an intent past its time does not stay pending, unless a payment
  is observed; no transaction keeps the lock.

- `EndsForCause`: a delivery is `delivered` only if the endpoint answered 2xx and
  `failed` only after `MAX_RETRIES` POSTs, or because it must not be contacted.
  Workers lose each other's increments of `retries`; that may add attempts and
  takes none away.
- `EndsForGood`: a delivery that ended is never pending again.
- `CountsEveryGiveUp`: `consecutive_permanent_failures` is the number of give-ups
  recorded since it was last cleared. Concurrent workers, rollbacks and
  re-enabling lose none.
- `DisabledByRun`: an endpoint is disabled only by a run of
  `DISABLE_AFTER_PERMANENT_FAILURES` give-ups without a success in between.
- `EveryDeliveryEnds`: the retry ladder ends for every delivery on record.

The checkout page:

- `PollIsAlive`: unless it was stopped, the poll has a fetch open or its timer
  set, whatever failed, was throttled or was asked for again.
- `PaidIsTheBackendsWord`: `backendPaid` stands for an answer the backend gave,
  and stays true of it.
- `SuccessIsReal`: "success" is shown only for a mined transaction of this page
  and an intent that the backend has completed.
- `PaymentIsOnScreen`: a transaction whose hash the page has stays on the screen,
  and never as failed, through expiries, disconnects, network changes and errors.
- `DropsOnlyForForgottenSignature`: that hash is given up in one way only, by a
  permit signature that was left open in another wallet and is given later.
- `TransferIsOnScreen`: the same on TRON, for what `TronPayPanel` renders
  (`Screen`): without a wallet its connect prompt, which offers no payment, and
  else the state of the payment. So a payer who disconnects loses sight of a
  transfer, and finds it again with the next wallet, whichever that is. For good
  it is lost from sight in three ways (`slipped`): a stale attempt ends late
  (finding 3), the answer of the broadcast is lost, or the page shows another
  status and unmounts the panel.
- `BroadcastsForTheAccountShown`: an attempt that was overtaken by an account
  switch broadcasts nothing, unless it was already rebuilding.
- `PaymentIsReported`: once the backend has the intent completed, a payment that
  the page follows is reported.

The routers:

- `PaysExactly`: a call whose legs are paid has passed on exactly the amount and
  the fee, never more than was quoted, and no contract keeps a unit of it,
  whichever leg fails and whatever the owner configures meanwhile.
- `MirrorAgrees`: the legs of a split are those of `compute_split_amounts`, which
  the indexer compares with the event; the first recipient's exceeds its share by
  less than one unit per recipient.
- `RefusesOnlyTheInvalid`: the contract refuses no split that the backend accepts,
  unless an amount times a share overflows.

The browser session:

- `NobodyWaitsInVain`: a call that waits has the refresh of its tab, a refresh has
  its request, and the lock is with the one tab that uses it.
- `RefreshableUnlessLost`: a signed-in browser holds the refresh token the backend
  expects, or its successor is on the way. The exceptions, since the login: an
  answer was lost (also a 5xx or a crash after the write); the backend ended the
  session for another reason than reuse; it refused the user after the rotation;
  the session cookie ran out. So reuse detection never strikes a session whose tabs
  only race each other, which is what `rotate_refresh_token` relies on the client
  for.
- `SignsOutOnlyTheDead`: a refused refresh signs the browser out only if the
  cookies it then has would be refused too.

## 5. Findings

1. **Evidence outlives its block** (`indexer_stale_evidence`). Re-inclusion
   re-points a pending row without resetting its counter, so the new block can
   be reversed on one false answer, though "a single unverified RPC answer never
   reverses a payment". The row then stays `reorged`: the same block hash is a
   duplicate.
2. **GET expires an observed payment** (`intents_get_expiry`). The auto-expiry
   reads the intent without a lock, checks the hold, and writes `expired` by
   primary key; a payment ingested, or finalized, in between is overwritten,
   "mai" in the comment notwithstanding. If it was only ingested, its
   finalization still pays the intent; if it was final, the intent stays expired
   with the money received.
3. **A stale attempt disturbs a payment in flight** (`tron_second_transfer`).
   `pay()` awaits the intent, the payer switches account, and the attempt is
   stale; an attempt of the new account signs and broadcasts, and the panel is
   *processing*. The stale attempt resumes, and its `StaleAttempt` branch sets the
   panel to *connected* whatever it shows: Pay is offered, though the generation
   counter is there to make "an in-flight attempt abandon itself rather than
   finish against a stale payer" (`useTronPayment.ts:31-32`) and "anything already
   signed or broadcast is left alone: that transaction is valid and on its way, and
   an account switch does not unmake it" (214-215).

Also noted, of the indexer: in depth mode a second settlement is stamped final as
a no-op, and if the first is later reversed it never pays the invoice, which the
docstring of `_finalize_settlement` excludes in tag mode only; and a failed
`payment.reversed` releases its claim for a retry by "the next reconcile", which
selects no reversed row. `TagFinalIsNotStranded` and `UnpaidIsRetracted` (its
`revLost`) are stated accordingly.

The re-scan that repairs a passed block ends at finality: one that is replaced and
finalized between two ticks that get to it, as while the service is down, or
beyond the window of a tick, is not scanned again (`gone`), though the comment at
`payment_indexer.py:1534` has the tail always re-scanned so that a re-inclusion
is observed; and a log whose ingest raised in catch-up, below the finalized
height, is passed for good. The window begins at the lower of the cursor and the
finalized height. `TailIsRescanned` excepts both.

Of the intents: resolve has the same shape, so a merchant's `refunded` may overwrite
the indexer's `paid` of a review intent; no document says otherwise. With *two* valid events of one invoice in one transaction,
`UnpaidIsRetracted` fails, since the reversal compares transactions and not
rows. The routers emit one event per call, so it takes a batching contract;
`OnePaymentPerTx` states the assumption.

Of the webhooks, what the model shows the code does *not* promise, and no
document says it does: an event may be posted more than once (after a rollback,
or by two workers; delivery is "at-least-once and unordered"); a `delivered` row
may be overwritten with `failed` by a worker whose last attempt ended later; two
workers that give up on the same delivery count it twice against the endpoint,
though `_note_permanent_failure` says "ONE permanently-failed delivery"; and a
request to re-enable that read the endpoint before it was disabled writes the
count and not the flag.

Of the checkout page: with two fetches open, one that was served before the
intent was closed may arrive last and show it as pending again with the poll
stopped (`PendingIsWatched`, which the header of the hook states for one fetch at
a time, is therefore no invariant); the page recovers at the local expiry or when
the tab regains focus. A transport fault while *sending* shows
`chain_unreachable`, whose control asks only the reads again.

Of the session: a rotation that is open while the user logs out writes its record
back after the revocation, so the backend keeps a session whose cookies are gone;
it does the same to a revocation from another device, a password reset or the
purge of an account, none of which waits for it. A rotation whose answer is lost
ends in a sign-out, since the next refresh presents a token that was rotated away.
A user who is not active is refused only after the rotation was written
(`auth_routes.py:150-161`), so being active again does not help: the browser has
the old token. And a user who is active every day must sign in again seven days
after the login, because `refresh` never renews `rsends_sid`. `lost` excepts them
all, and no more.

## 6. Proofs

For every set of logs, transactions and intents, every window and every bound,
from `ConstantsOK`:

| Theorem | Property | Inductive invariant |
|---|---|---|
| `TypeCorrect` | `TypeOK` | itself |
| `PaidStaysBacked` | `PaidIsBacked` | with `TypeOK` |
| `FinalReversalsAreGenuine` | `FinalReversalIsGenuine` | `EvidenceInv`, `TodoIsLive` |
| `FinalizedRowsAreForever` | `FinalizedIsForever` | the same |
| `UnpaidPaymentsAreRetracted` | `UnpaidIsRetracted` | `AnnouncedInv`, from `OnePaymentPerTx` |
| `RetractionsFollowAnnouncements` | `RetractsOnlyWhatWasTold` | `ClaimInv` |
| `TagFinalsAreNeverStranded` | `TagFinalIsNotStranded` | `OnRecord`, `TagGate`, `TagSettles`, from `OnePaymentPerTx` |
| `IndexerKeepsPromise` | `KeepsPromise` | `AnnouncedInv`, `EarnedClaims`, from `OnePaymentPerTx` |

`PaidIsBacked` alone is inductive. The reversal theorems need to know that
evidence about a final row is true of the row's *present* block: a row that is
final is never re-pointed, and a block that left the chain stays off it
(`EvidenceIsTrue`), while nothing below the finalized height is ever replaced
(`ver` changes only above it). `TodoIsLive` says that a selected row is still
pending or final when it is examined. The retraction theorem needs that a claim
column set means an event recorded (`ClaimsAreTold`), that only a valid log has
a live row (`LiveIsValid`), and that a standing announcement belongs to the
row that pays (`StandsAnnounced`), which is where `OnePaymentPerTx` is used.

A reversal is announced only by a row whose payment claim is set, and that claim
means an event recorded, so `ClaimInv` needs nothing of the chain. Under the tag a
final row is at or below the finalized height (`TagGate`), where no block is
replaced, so the row whose match made a second settlement a no-op is never
reversed: what was settled stays settled (`TagSettles`). For the refinement, each
step of the indexer is one move of `PaymentPromise` or none; the only hard one is
the announcement by the sweep, which comes ticks after the payment it is about.
`EarnedClaims` says that an announcement whose payment no longer stands was
retracted, or that its retraction was lost, so a sweep that announces finds the
invoice paid by that very row. `OnePaymentPerTx` is an assumption of these two
theorems only, not of the first.

For every margin, window, range, depth, height and number of forks, from
`CursorConstants`: `TypeCorrect` (`TypeOK`) and `NothingIsSkipped`
(`NoBlockIsSkipped`). The inductive invariant is both with `HasCursor`: a tick
runs only with a cursor in Postgres, which adopts the one of Redis before it
scans, so that a refused write of a chunk leaves the older cursor and never
none; and the first cursor is set with the first write. A window begins no higher
than the block after the cursor, a chunk where the last one ended, so each step
past a block is a scan of it.

For every set of settlements and of concurrent requests, from `ConstantsOK`:

| Theorem | Property | Inductive invariant |
|---|---|---|
| `TypeCorrect` | `TypeOK` | itself |
| `MatchedStaysFinal` | `MatchedIsFinal` | `JobInv` |
| `HeldIsNeverCancelled` | `HoldExcludesCancel` | `CancelInv`, `JobInv` |
| `TransactionsKeepLifecycle` | `KeepsLifecycle` | `StatusInv` |

`JobInv` ties the watcher's place to the row it works on: what it finalizes is
pending, what it reverses is the intent's match. `CancelInv` says that a cancel
that found no hold still finds none: a row becomes a hold only under the lock the
cancel has. `StatusInv` says that the status a transaction relies on is still
there when it writes; for a finalization, which read without a lock, that
nobody closed the intent for good in between.
The three invariants hold with any number of GETs and resolves; `StatusInv` is
about a past in which neither has overwritten a status it had not read, which
is all that the other transactions rely on. After that the life cycle is in
fact broken (finding 2).

For every set of deliveries, workers and producers, every retry limit and every
threshold, from `ConstantsOK`:

| Theorem | Property | Inductive invariant |
|---|---|---|
| `TypeCorrect` | `TypeOK` | itself |
| `DeliveriesEndForCause` | `EndsForCause` | `AttemptInv` |
| `DeliveriesEndForGood` | `EndsForGood` | `EndedInv` |
| `GiveUpsCounted` | `CountsEveryGiveUp` | `WorkInv`, `BlameInv`, `FreshInv`, `CountInv`, `EndedInv` |
| `DisabledByARun` | `DisabledByRun` | `RunInv`, with the above |

`AttemptInv` says that no count, in a row or in a session, exceeds the POSTs made,
which is why lost increments are harmless. `EndedInv` says that no transaction
holds a version that would take an end back. The count is the number of pairs
(who gave up, on what), so it is right if nobody gives up twice on the same
delivery while the first time still counts: `FreshInv`. That needs `BlameInv`,
that a counted delivery has ended, at least in the version of the transaction
that counts it, so it cannot be selected again; and `WorkInv`, that a transaction
visits a delivery once. `RunInv` says that a transaction that switched the
endpoint off knows it and attempts nothing more, so no later success of the same
transaction ends the run it is about to commit.

For every set of tabs and calls, every number of requests, sessions and tokens,
from the assumptions of the module:

| Theorem | Property | Inductive invariant |
|---|---|---|
| `TypeCorrect` | `TypeOK` | itself |
| `WaitersAreServed` | `NobodyWaitsInVain` | `Owners`, with or without Web Locks |
| `SessionStaysRefreshable` | `RefreshableUnlessLost` | `IInv`, with Web Locks |
| `OnlyTheDeadAreSignedOut` | `SignsOutOnlyTheDead` | `IInv`, with Web Locks |

`IInv` is `TypeOK`, `Owners`, `Numbers`, `Agreement` and `Refusals`. The Web Lock
makes the one request that belongs to a tab unique (`Owners`); tokens are not
minted twice (`Numbers`). As long as nothing was lost since the login, the
requests that name the present session all have a tab, so there is one, the browser
has the cookie of that session, and the request
agrees with the cookies and with the record (`Agreement`): before the rotation
all three hold the same token, after it the record and the answer do. What was
refused stays refused, since a token that is written later is a new one, and no
other tab is granted it while the refused one has the lock (`Refusals`). Without Web Locks the last two
properties are false: two tabs then present the same token.

For every set of fetches, accounts and attempts, from `FamiliesAssumption`:

| Theorem | Property | Inductive invariant |
|---|---|---|
| `PollStaysAlive` | `PollIsAlive` | `PollInv` |
| `PaidIsBackendsWord` | `PaidIsTheBackendsWord` | `PollInv` |
| `SuccessIsGenuine` | `SuccessIsReal` | `PageInv` |
| `PaymentStaysOnScreen` | `PaymentIsOnScreen` | `PageInv` |
| `HashIsKept` | `DropsOnlyForForgottenSignature` | `PageInv` |
| `TransfersStayOnScreen` | `TransferIsOnScreen` | `TronPageInv` |
| `BroadcastsAreForTheAccount` | `BroadcastsForTheAccountShown` | `TronPageInv` |
| `TypeCorrect` | `TypeOK` | all of them |

The poll needs to know what an open fetch carries (`PollFacts`): a completed
answer is still true when it arrives, since a paid intent stays paid as long as
the page asks, and an intent that was shown is never a 404. It follows that a page
that shows an intent goes on showing one, which the wallet flow relies on.
`EvmFacts` adds that a hash the page has is that of the one payment that is out,
that the receipt it read is that payment's, and that no payment is asked for
while a signature is. In the TRON flow the panel and the attempts are kept in
step by the code's own staleness check, and the invariant says how (`Sight`):
until something slips there is at most one attempt that is not stale, the panel
shows where it awaits, it is for the panel's account until its first broadcast,
and a transfer that is out is the one the panel's state names, connected or not.
`slipped` is exactly what breaks this, and `tron_second_transfer` shows that the code does break it.

For every word size, every amount, every list of shares of 16 bits and every fee
configuration, from `WordOK` and `InputsOK`:

| Theorem | Property | Inductive invariant |
|---|---|---|
| `TypeCorrect` | `TypeOK` | `FrameInv` |
| `CallsPayExactly` | `PaysExactly` | `FrameInv` |
| `SplitsAgreeWithMirror` | `MirrorAgrees` | `FrameInv` |
| `SplitsRefuseOnlyInvalid` | `RefusesOnlyTheInvalid` | `FrameInv` |

`Computing` says of the loop that `bpsSum` and `allocated` are the sums of what it
has seen, and that `allocated` is within one unit per leg of the share of the sum
(`RoundingStep`: each floor loses less than one unit, and floors add up).
Hence, with shares of exactly 100 %, the remainder is not negative and less than
the number of recipients (`DustIsSmall`), and with at most 20 of them the sum of
the legs fits a word although nobody checks it before the end (`AllocatedFits`).
`Paying` says that the legs come to the total and that what has left the contract
is what the paid ones come to.

`SumTo`, the sum of a list, is a recursive function, and what it computes needs
induction, for which no installed prover can use the library's theorem. The
module proves its own principle for sets in place of operators (`SetInduction`: a
set with 0 and closed under successor has every natural number), from the
pigeonhole principle: were m missing, successor would map the members below
m one to one into those that are not 0. `SumExists` and `SumAgrees` are the
recursion, the lemmas after them what a sum is, bounds and does when a term
changes.

Every invariant and every action property of the passing runs is proved;
`FinalizedIsForever` and `RetractsOnlyWhatWasTold` are proved for their own sake,
and follow from properties that the run does check. Only model-checked are `PaymentIsReported`, `FinalizedPaymentSettles` and the other
liveness properties, which the prover does not do.

## 7. Not modelled, and plan

Left for later, in order of weight:

1. `TronSettlement`: cursor over pages and addresses, matching, hints.
2. `Access`: usage limits, idempotency lock, breaker probes.
3. An abstract at-least-once channel implemented by `WebhookDelivery`, and the
   event order a merchant sees, which joins it to `SettlementIndexer`.

Not planned: rate limiting, organisations, sign-in, fee invoices, AML, audit,
notifications and registry tables. They are sequential or stateless with respect
to payments; `PROJECT.json` gives the reason for each.

Nor are the pages of the dashboard, the onboarding, the admin area and the
landing site, which are most of the TypeScript by volume: components that render
what one request answered, forms that post once, animations, tables of tokens
and chains, and archived code that nothing imports. What they share that has a
state over time is the session, which is modelled. For that reason the modules
stand for a small share of the repository's lines, and a larger one would have to
be claimed rather than modelled.
