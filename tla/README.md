# TLA+ models of PaymentGateway

Formal models of the payment gateway in this repository: what each service keeps, the steps
it takes between two database transactions or external calls, and what must hold however those
steps interleave, fail or get lost. TLC checks the models on small instances; TLAPS proves the
safety properties of all of them but `Routing`, for every instance.

- [The system](#the-system)
- [The modules and the code](#the-modules-and-the-code)
- [The runs](#the-runs)
- [Where the code and its documentation disagree](#where-the-code-and-its-documentation-disagree)
- [The proofs](#the-proofs)
- [Not modelled](#not-modelled)
- [The plan](#the-plan)

## The system

| Component | State | Operations that change it | What is hard | What makes it correct |
|---|---|---|---|---|
| **payment** (`internal/payment`) | `payments` row with a version, `payment_attempts`, `payment_events`, `refunds`, outbox | CreatePayment (authorization saga with failover), ConfirmPayment, CapturePayment, VoidPayment, CreateRefund | calls race on one row while the PSP is asked outside any transaction; replies get lost; clients hang up | the row agrees with the PSP, with its attempts, with its refunds and with its events; money is conserved |
| **routing and circuit breaker** (`payment/adapter/provider`) | per provider: state, failure counter, probe flag; capability cache | Allow, Report, Route | late reports, a probe that is never reported | an open breaker eventually lets one probe through |
| **provider-mock, provider-stripe** | the PSP's transactions (mock); nothing (stub) | Authorize, Capture, Void, Refund, a status query that ends an authentication | executed but not answered; repeated; handlers that decide on a copy and write later | idempotent by key |
| **webhook** (`internal/webhook`) | `webhook_deliveries` with a version, `webhook_delivery_attempts`, `processed_events`, retry keys in memory, endpoint cache | ingest and fan out, claim, deliver, reap, cancel on 410, manual retry | workers overtaken by the reaper, crashes between request and save, redelivered events | one writer per claim, bounded attempts, final states final, every delivery ends |
| **ledger** (`internal/ledger`) | accounts, journals with entries, balances, inbox, outbox | HandlePaymentEvent, ReverseJournal, PostManualJournal, CreateAccount, all through `postJournalTx` | events twice or out of order, transactions that lock the same rows in opposite orders, two reversals at once | every journal balanced, each event posted once, a journal reversed at most once |
| **reconciliation** (`internal/reconciliation`) | settlement files, lines, runs, discrepancies, a projection of payment events | ImportSettlementFile, the projector's HandlePaymentEvent, ResolveDiscrepancy | one file imported twice at once, events out of order, differences that two runs find | one import per file, no line passed over, no discrepancy closed twice |
| **merchant** (`internal/merchant`) | merchants, API keys, webhook endpoints and secrets, routing rules | create and update the merchant, create and revoke keys, create, change, rotate and delete endpoints, overwrite the routing preferences | limits that are counted before the insert; calls without the merchant's lock that write old copies back | limits hold; closed, revoked and deleted are final; no rotation is lost |
| **api-gateway** (`internal/gateway`) | idempotency records in Valkey, rate-limit counters | Begin, Complete, Abort around each POST | a lock that expires under a running request | one execution per key, replays equal to the original |
| **outbox and event bus** (`pkg/outbox`, `pkg/eventbus`) | outbox rows, Kafka offsets | relay batches, consume with retries, DLQ | crash after publish, order within an aggregate | at least once, idempotent consumers |

How they interact: the gateway calls `payment-service` over gRPC; `payment-service` calls a PSP
adapter and writes its events to the outbox in the transaction that changes the payment; relays
publish them to Kafka; ledger, webhook and reconciliation consume them, each with an inbox that
makes repetition harmless. `merchant-service` answers routing and endpoint lookups.

`PROJECT.json` lists the components with their status, and under `hazards` the places where this
code can go wrong in ways a test would hardly reach.

## The modules and the code

| Module | Models | Notes |
|---|---|---|
| `PaymentDomain` | `internal/payment/domain` | pure operators: the status table, each command of the aggregate as a guard (`XxxOK`) and a result (`Xxx`), the error categories, the CHECKs of the `payments` table |
| `PaymentLifecycle` | — | abstract specification: one payment's status and amounts with no concurrency, no PSP, no copies |
| `PaymentService` | `internal/payment/app`, `adapter/postgres`, `internal/providermock` | every API call is a process; composes `PaymentDomain`, a PSP and the network; `Lifecycle` is the refinement mapping to `PaymentLifecycle` |
| `WebhookDelivery` | `internal/webhook` | workers, reaper, retry calls and the Kafka consumer over the delivery rows |
| `LedgerDomain` | `internal/ledger/domain` | pure operators: the chart of accounts and signed deltas, `Journal.Validate`, `Reverse` and `ValidateReversal`, every posting template |
| `Ledger` | `internal/ledger/app`, `adapter/postgres`, the triggers of `migrations/ledger` | consumer threads and operator calls over one PostgreSQL database, statement by statement |
| `EventPipeline` | `pkg/outbox`, `pkg/eventbus`, the topic routing of `cmd/payment-service` | outbox rows, relays, two Kafka topics, one consumer with a dead-letter topic |
| `IdempotencyKey` | `internal/gateway/idempotency.go`, `pkg/idempotency/valkey.go`, the unique key of `payment-service` | the life of one idempotency key, Valkey command by command |
| `Routing` | `payment/adapter/provider/provider.go` | circuit breakers, `Route`, and the saga as far as it reports to them |
| `Reconciliation` | `internal/reconciliation` | projector, importers, matcher and operators |
| `MerchantService` | `internal/merchant` | the calls that change one merchant, its keys, endpoints and preferences, statement by statement |
| `PaymentServiceProofs`, `WebhookDeliveryProofs`, `LedgerProofs`, `EventPipelineProofs`, `IdempotencyKeyProofs`, `ReconciliationProofs`, `MerchantServiceProofs` | — | theorems about the module of that name, with their inductive invariants |
| `SumTheorems` | — | lemmas about sums over finite sets, for the ledger's balances and the refund counters |
| `MC…` | — | one per module: constants for TLC |

### PaymentService

State: `row`, `attempts`, `events` and `refunds` are the database; `txn` is what the PSP did,
`net` the calls still on the wire; `req` is the state of every API call, including `p`, the
payment **as the call loaded it**; `lapsed` the deadlines that have passed.

A call is cut into steps exactly where the Go code commits, or calls the PSP. CreatePayment is
`CreateLookup`, `CreateTx1`, then per attempt `AuthorizeReturns`, `ResolveUnknown`, and one of
`ApplyRequiresAction`, `ApplyFailed` (keep unknown, fail over, or fail) and the approval steps it
shares with ConfirmPayment (`ApprovedNeedsCapture`, `CaptureNowReturns`, `ApprovedAsIs`,
`ApplyApproved`). CapturePayment, VoidPayment and CreateRefund each load or reserve, call the PSP
and finish in a `Tx2`. `Persist` is the whole of `persist`: row under its version, attempts,
events and outbox, all or nothing.

The PSP (`PspAuthorize` … `PspStatus`) executes a message at any time after it was sent, also
after the caller gave up, or never; a caller sees the reply or a transport error *whether or not*
the call was executed. provider-mock's handlers take a copy of the transaction (`Store.Get`), release
the lock, decide, and write (`Store.Update`) without looking again. With the constant
`Linearizable` FALSE the model does the same: `PspRead` and `QueryRead` are the reads, `View` what a
handler decides on, and the write comes later and is unconditional. With `Linearizable` TRUE a call
is one step. That is an **assumption** about the PSPs behind the adapters in production, which the
repository does not contain; it is not true of provider-mock. Only what relates the row to the PSP's
own records needs it (`CapturedMatchesPsp`, `VoidedIsVoidAtPsp`, `RefundsBackedByPsp`); everything
about payment-service's own tables is proved without it. `Crash` ends a call between any two steps (a database error has the same
effect); `ClientCancel` ends the calls whose remaining work runs under the request's context, and
only those.

Data that no property tells apart is folded: amounts are integers in one currency, provider
references are the number of the attempt that created them, the ten error categories are the four
the service treats differently.

### WebhookDelivery

State: `del` and `log` are the delivery and attempt rows, `processed` the inbox, `worker` and
`retry` the goroutines with their **copies** of the row, `keys` the in-memory retry keys. `sent`
and `resets` only count, for the properties.

`Claim` is one row of `ClaimDue`; `LookupFails`, `Lookup`, `Send`, `Save` and `DisableEndpoint`
are `Deliver`; `Reap` is one row of `ReapStuck`; `RetryCheck` … `RetryPut` are `RetryDelivery`.
Due dates and timeouts are left out: what may be due may be claimed, and what is in flight may be
found stuck, also while its worker lives (it can wait for the semaphore or for an endpoint lookup
longer than `InFlightTimeout`). The endpoint cache may be minutes stale and the merchant may
change endpoints at any time, so a lookup may answer anything.

### Ledger

State: `journals`, `inbox`, `accounts`, `balances` and `outbox` are committed tables; `dlq` the
dead-letter topic; `tx` the call each worker is in, with the draft journal and the balance rows its
open transaction has **locked and not yet committed**. `journals.event_id` is unique, so a journal
is named by its event id (or by the idempotency key of an operator's call).

Each SQL statement is a step at READ COMMITTED: it reads what is committed, waits while another
open transaction holds the row it needs (`Blockers`), and publishes nothing before `Commit`.
`MarkProcessed` is the inbox insert together with `TemplateFor`; `LinkReversal` is `linkReversal`;
`CheckExisting`, `EnsureAccount`, `InsertJournal`, `InsertEntry` (with the balance trigger) and
`Commit` (with the deferred balance check) are `postJournalTx`, which `ReverseJournal` and
`PostManualJournal` use too. Any statement may fail (`DatabaseError`), the process may die
(`Crash`), and transactions that wait for each other in a cycle are found by PostgreSQL, which
aborts one of them (`AbortDeadlock`). `FailConsumer` is `handleWithRetry` with its DLQ. One
merchant and one currency are modelled: accounts of different merchants never meet in a journal.

### EventPipeline

State: `written` transactions, `published` rows, per relay the `batch` it has locked, the topics'
`log`s, the consumer's `committed` offset and position, `handled` and `dlq`.

`WriteTransaction` commits a transaction; `created_at` is the time it began, so a later commit may
come first in the relay's order. `FetchUnpublished` is the `SELECT … FOR UPDATE SKIP LOCKED`; rows
of one transaction share `created_at` and come in any order. `PublishOk` and `PublishError` handle one message, an error
being possible although the broker has the record; `CommitBatch` marks what was published,
`AbortBatch` is a failed update, commit or process. `HandleOk`, `HandleError`, `DeadLetter` and
`Stop` are the consumer's loop, `Restart` a crash or a lost partition. `MaxFaults` bounds the
faults of one behaviour.

### IdempotencyKey

State: `rec`, the value in Valkey; `rows`, what `payment-service` has under the key in its
payments and refunds tables; per client where its request is, whether its context is still live,
and the answer. `holder` and `lost` are history.

`BeginSetNX`, `BeginGet`, `CompleteGet`, `CompleteSet` and `Abort` are one Valkey command each;
each may fail, and fails once the request's context is over (`Timeout`). `ServeNew` …
`ServeTimedOut` are the forwarded call. Time is ordered, not counted: the lock's 30 s start after
the 30 s of the request's context, so a lock does not expire under a request whose context lives
(`LockExpires`). The model thereby shows what the two equal constants do for the code: with a
shorter lock, or an `Abort` under a context of its own, `OneForwarder` fails.

### Routing

State: per provider its `breaker` (state, failure count, probe flag, whether `OpenDuration` has
passed) and whether it is `up`; per saga the candidates left. `Route` asks **every** eligible
breaker at once, `Tx1` may end the call before any provider is called, `CallAnswered` and
`CallFailed` report the result of one call. Which providers are eligible (capabilities, token) is
any subset.

### Reconciliation

State: `processed`, `records`, `files` (status, version), `runs`, `discs`, `posted` are tables;
`lock` says which open transaction holds a file's row or its uncommitted `file_hash`; `imp` and
`ops` are the calls with their copies. `seen` is history: the discrepancies a file's import found
open when it looked.

`Project` is the projector with its `source_seq` guard. `FindImported`, `RecordParseFailure`,
`LoadFile`, `CreateFile` or `ReopenFile`, `Match` and `Commit` are ImportSettlementFile; `Match`
takes what `reconcile` reads from the database, which other transactions may have changed by the
time of the commit. `Differences` is `Match` of the matcher. `ResolveLoad` and `ResolveSave` are
ResolveDiscrepancy. The grace period is a flag a record gets at some time (`Age`).

### MerchantService

State: `merchant`, `rules`, `keys` and `endpoints` are the rows; `lock` says which open transaction
holds the merchant's row; `call` the statement each call executes next, its request and the endpoint
row **as it has read it**.

A call that takes `lockMerchant` begins with `LockMerchant`; `CountActive` and `CountLive` are the
SELECTs before an insert, `GetWebhookEndpoint` the one before an update. RevokeApiKey (`GetApiKey`,
`RevokeApiKey`) and DeleteWebhookEndpoint (`BeginDelete`, `DeleteWebhookEndpoint`) take no lock on
the merchant; the first updates without a version, the second with one (`Update`). The writes of a
call and its outbox row are one step with the commit. Time appears as `KeyExpires`, and in
`ExpirePreviousSecret`, which may or may not find the 24 hours over. One merchant and one mode are
modelled; limits are per merchant, and per mode for keys.

## The runs

All use small concrete sets; no cfg replaces a definition. Deadlock checking is on in `ledger`,
where every wait must be resolved by another worker or by PostgreSQL's deadlock detection, and in
`merchant` (the operations of both repeat for ever). It is off elsewhere because the systems may stop: all
calls have returned, every delivery is final, every event handled, every file imported.

| Run | Instance | Checks |
|---|---|---|
| `authorize` | 2 CreatePayment calls of one key, 1 confirm, 1 capture, 2 providers, 2 attempts, 1 status query, the PSP as provider-mock | `TypeOK`, `AttemptDiscipline`, `OneSagaPerKey`, liveness `CallsReturn` |
| `settle` | 1 create, 1 confirm, 1 capture of any amount, 1 void, 3 refunds of any amounts, two of them with one key, amount 2, a `Linearizable` PSP | `CapturedMatchesPsp`, `VoidedIsVoidAtPsp`, `RefundCountersMatch`, `RefundsBackedByPsp`, `RefundTx2NeverRejected`, `LogMatchesRow`, `CopiesAreStaleOrCurrent`, refinement `ImplementsLifecycle` |
| `webhook` | 1 event and endpoint, 2 workers, 1 manual retry, 2 attempts, 1 failed lookup | `TypeOK`, `OneHolder`, `AttemptBudget`, `LogExplainsStatus`, `FinalUntilRetried`, liveness `Settles` |
| `ledger` | 2 consumer threads, 1 operator, the events of a refund that fails, one that posts nothing, one that cannot be posted; 1 key, 2 manual journals, 1 retry | `TypeOK`, `TemplatesBalance`, `NoBalanceDrift`, `ProcessedMeansPosted`, `ClearingIsEmptied`, `ReversalsCancelOut` |
| `pipeline` | 3 rows of 2 transactions, one of them poison, 2 relays, batches of 2, 1 retry, 3 faults | `TypeOK`, `NothingLost`, `DuplicatesNeedFaults`, liveness `EventsArrive` |
| `idempotency` | 2 clients with one payload, 1 with another, 2 faults | `TypeOK`, `OneForwarder`, `AnswersMatch`, liveness `RetriesEnd` |
| `reconciliation` | 1 payment with 2 events, 2 files (one names the payment twice, one an unknown payment, both one refund), 2 importers, 2 operators | `TypeOK`, `ImportedOnce`, `RecordIsNewest`, `LinesAccounted`, `ResolvedOnce` |
| `merchant` | 2 calls, 2 keys and 2 endpoints with room for one each, endpoints changed twice | `TypeOK`, `LimitsHold`, `NothingUndone` |
| `double_authorization`, `capture_twice`, `reversed_twice`, `probe_lost` | the smallest instance that shows the divergence | one property each, violated |

**Why these bounds.** Every race in `payment-service` is between two calls on one row, so two
calls that race, plus one that interferes, produce it. Amount 2 lets two
partial refunds or captures differ; amount 1 is enough where amounts do not matter. Two providers
and two attempts give one failover, with and without a provider left. `authorize` runs against a
PSP with provider-mock's separate reads and writes, so that what it checks holds whatever the PSP
answers; `settle` against a `Linearizable` one, without which its first two properties and
`RefundsBackedByPsp` are false (the others are proved for either). Two creations, a confirmation and a capture race in `authorize`; in `settle` the
captures that CreatePayment and ConfirmPayment ask for race with a CapturePayment of another
amount, with a void and with refunds. That no other mixture of calls breaks a safety property is
what the theorems say. In `webhook` two workers
suffice for one to be overtaken by the other, two attempts for a retry followed by a dead letter;
deliveries only interact through `DisableEndpoint`, which treats each row alike, so one delivery is
enough for what the properties say.

In `ledger` the two journals of a failed refund lock the same two accounts in opposite orders, so
two threads reach a deadlock, and the operator may reverse or adjust in between; amounts only
appear in sums. `TemplatesBalance` also evaluates every template for all amounts and fees up to 3,
zero and the whole amount included. In `pipeline` two rows of one transaction and a batch of two
give reordering within a batch and between relays; three faults let a row fail, be aborted and be
redelivered. In `idempotency` two faults suffice for a timeout followed by a failed `Abort`. In
`reconciliation`, `MaxVersion` bounds how often a file fails to parse again, since each failure
only increases its version; both files have a line for the same refund, so a run may find the other
one's discrepancy open, closed by an operator, or not yet committed. In `merchant` a limit of one with two ids lets two creators race for the
last place, and two changes let a rotation and a deletion overtake each other in both orders.
Consumers, importers, operators, calls and generated ids, and in `settle` the refunds of
one key, are interchangeable and no liveness is checked in those runs, so symmetry is sound there.

**Fairness.** `CallsReturn` assumes that a goroutine that serves a call keeps running
(`WF` of its own steps). The code justifies it: each PSP call has its own deadline (`callCtx`), so
a waiting call can always go on with a timeout, and delays end. Nothing is assumed of the PSP, the
payer, the client or the clock. `Settles` assumes that a worker's request, lookup and save return,
that the dispatcher goes on claiming what is due and the reaper goes on looking (both are loops on
a ticker that only end at shutdown). `MaxLookupErrors` bounds the endpoint lookups that fail: a
failed lookup gives its attempt back, so an endless row of them would keep a delivery open for
ever, which is how the code is meant to behave while `merchant-service` is down. `EventsArrive`
assumes that each relay goes on polling and the consumer goes on handling (endless loops), and of
faults only that there are finitely many. `RetriesEnd` assumes that a handler runs to its end, that
the client retries when it is told to, and that Valkey expires the lock; nothing is assumed of the
expiry of cached responses. `ProvidersComeBack` assumes that requests keep coming and calls return,
that `OpenDuration` passes and that outages end: under all of this the breaker still stays shut.

Each property has a mutant in `PROJECT.json`: a plausible bug in the code (a missing
`AND version = …`, a dropped unique index, a wrong amount, an attempt not given back) that makes
TLC find the property violated under the run's own configuration.

## Where the code and its documentation disagree

- **`NoDoubleAuthorization`.** A connection that breaks after the PSP executed the authorization
  is `provider_unavailable` (`provider_result.go:52`) and leads to an immediate failover; a
  timeout is queried by a reference the attempt does not have, and NOT_FOUND also leads to a
  failover. `docs/02-domain-and-ledger.md:322` forbids failover before the outcome is known.
- **`ReversedOnce`.** `postJournalTx` checks with a plain read that a journal is not reversed yet,
  and no unique index backs the check, so the consumer's J-REF-FAIL and an operator's
  ReverseJournal can both commit; `docs/02-domain-and-ledger.md:527` says the application
  guarantees a single reversal.
- **`ProvidersComeBack`.** `Allow` hands out the half-open probe when `Route` lists a candidate,
  but only a call reports back: a fallback that is not needed keeps the probe for ever
  (`provider.go:178`), against the comment on `Allow` and `docs/09-testing-strategy.md:173`.
- **`SameKeySameResult`.** Two captures of one payment carry one PSP idempotency key, but
  provider-mock's Capture never looks at it, reads a copy and writes unconditionally
  (`providermock/service.go:240`, `:266`): both execute and each caller is told its own amount.
  `docs/09-testing-strategy.md:254` promises real idempotency of the mock, and
  `docs/05-flows-and-sequences.md:250` counts on it. At such a PSP the row may keep an amount the
  PSP has overwritten, a void and a capture may both succeed, a stalled capture may shrink what
  refunds were drawn on, and a status query that found an authentication pending puts a voided or
  captured transaction back to authorized (`:347`): `CapturedMatchesPsp`, `VoidedIsVoidAtPsp` and,
  with two captures, `RefundsBackedByPsp` fail with `Linearizable` FALSE.
Reachable in the models too, without a run of their own:

- The approval of a payment is recorded under the client's context (`create_payment.go:281`), so a
  client that hangs up loses it; `docs/05-flows-and-sequences.md:935` says such writes must not be
  cancellable.
- A refund whose connection broke after the PSP executed it is recorded failed and its reservation
  released (`operations.go:378`), against `docs/05-flows-and-sequences.md:490`.
- RetryDelivery looks its key up before the save and stores it after, so two calls with one key may
  both reset the delivery, against the comment at `internal/webhook/app/service.go:362`.
- reconcile's ExistsOpen does not see what another open import is about to insert, and no unique
  index does either: two imports at once open one difference twice, against the comments at
  `internal/reconciliation/app/service.go:338` and `ports.go:100`.
- A manual retry restarts `attempt_no`, and the attempt rows after it are silently dropped;
  `docs/04-data-model.md:512` says the number is not reset.
- The relay sends refund events to `refund.events` (`cmd/payment-service/main.go:83`), but ledger,
  webhook and reconciliation subscribe to `payment.events` only, so no refund event reaches them;
  `docs/02-domain-and-ledger.md:831` names all three as consumers of `refund.events`. In
  `EventPipeline` this is `TopicFor` against `Subscription`, and why `EventsArrive` is stated for
  the subscribed topic.
- Two RevokeApiKey calls that read the key before either commits both write `revoked_at` and both
  publish `api_key.revoked`; the comment at `internal/merchant/app/apikey.go:110` says a key that
  is revoked gets no second event.
- CreateRefund replays the refund under a key without comparing request hashes
  (`operations.go:276`), unlike CreatePayment; this is why `AnswersMatch` speaks of payments only.
- ImportSettlementFile wants to read the existing file after the insert of its hash failed, but
  PostgreSQL has aborted the transaction by then: the import ends with an error instead.
- Read in the code while modelling it: VerifyApiKey refuses every key of a closed merchant
  (`internal/merchant/app/apikey.go:211`), which the gateway answers with `invalid_api_key`, so the
  reads that `docs/03-api.md:183` allows are refused as well; and nobody consumes
  `merchant.events`, so a revoked key stays in the gateway's cache for its 60 s
  (`internal/gateway/auth.go:123`), where `docs/06-security-compliance.md:229` promises less than a second.
- A payment that is projected after its line was imported is not matched again.

## The proofs

Every safety property of a passing run is a theorem, for every value of the constants: any number
of calls, workers, events, rows and providers, any amounts, any bound. Three of them carry a
hypothesis, `ASSUME Linearizable`, without which they are false (see above).

| Module | Theorem | States |
|---|---|---|
| `PaymentServiceProofs` | `Inductive` | `Spec => []IInv`, the invariant behind the others |
| | `TypeCorrect` | `TypeOK` |
| | `OptimisticLock` | `CopiesAreStaleOrCurrent`: a copy with the current version is the row |
| | `OneSaga` | `OneSagaPerKey`: one CreatePayment call per key asks a PSP |
| | `Refinement` | `ImplementsLifecycle`: each commit is a step of `PaymentLifecycle` |
| | `MoneyConserved` | refunds given or reserved are within what was captured, that within what was authorized |
| | `LogComplete` | `LogMatchesRow`: `payment_events` is the row's history |
| | `AttemptsDisciplined` | `AttemptDiscipline`: one open attempt, the settled payment routed to the approved one |
| | `CountersMatch` | `RefundCountersMatch`: the counters are the sums of the refunds rows |
| | `RefundGoesThrough` | `RefundTx2NeverRejected` |
| | `CapturesAgree`, `VoidsAgree`, `RefundsBacked` | `CapturedMatchesPsp`, `VoidedIsVoidAtPsp`, `RefundsBackedByPsp`: what is recorded is what the PSP did, **assuming `Linearizable`** |
| `WebhookDeliveryProofs` | `TypeCorrect`, `Fencing` | `TypeOK`, `OneHolder`: of all that claimed a delivery one can still save |
| | `FinalStays` | `FinalUntilRetried` (an action property) |
| | `LogExplains`, `BudgetHolds` | `LogExplainsStatus`, `AttemptBudget` |
| `LedgerProofs` | `TypeCorrect`, `InboxAtomic` | `TypeOK`, `ProcessedMeansPosted` |
| | `NoDrift` | `NoBalanceDrift`: a balance is the sum of its entries |
| | `TemplatesCorrect` | `TemplatesBalance` for all amounts and fees, not only the small ones TLC tries |
| | `ReversalsExact`, `ClearingEmptied` | `ReversalsCancelOut`, `ClearingIsEmptied` |
| `EventPipelineProofs` | `TypeCorrect`, `AtLeastOnce` | `TypeOK`, `NothingLost` |
| | `DuplicatesBounded` | `DuplicatesNeedFaults`: a fault costs at most one batch of duplicates |
| `IdempotencyKeyProofs` | `TypeCorrect`, `LockExcludes`, `OwnAnswers` | `TypeOK`, `OneForwarder`, `AnswersMatch` |
| `ReconciliationProofs` | `TypeCorrect`, `FileImportedOnce` | `TypeOK`, `ImportedOnce` |
| | `NewestWins`, `NoLineForgotten`, `ClosedOnce` | `RecordIsNewest`, `LinesAccounted`, `ResolvedOnce` |
| `MerchantServiceProofs` | `TypeCorrect`, `LimitsKept` | `TypeOK`, `LimitsHold` |
| | `FinishedStaysFinished` | `NothingUndone` (an action property) |

*Assumptions.* All are named, stand in the module that declares the constant, and are evaluated by
TLC on that module's runs. Most say that sets of ids are finite, kinds of calls disjoint, bounds
natural numbers and `None` nobody's name. Those that say something of the code's surroundings:
`AmountAssumption` (the amount is positive, as NewPayment requires), `RefundAssumption` of `Ledger`
(the events of one refund carry one amount: that it was created, and how it ended) and
`ReconciliationAssumption` (the events of a payment are numbered in order).

### payment-service

None of the properties is inductive alone. That a stale copy is refused needs to know that a copy
with the current version **is** the row; that a commit is a lifecycle step needs to know, in each
control state, which status the held copy has (a saga's copy is still `created`, a confirmation's
`requires_action`), that the amounts in the row obey the CHECKs, and which amount a call carries.
The proof has four layers.

1. `IInv`: `RowOK` (types, status against amounts, the CHECKs), `StoreOK` (the other tables, at
   most `MaxAttempts` attempts), `CallOK` for every call (its copy is stale or current, and what
   its control state implies about copy, attempt and amount) and `OneSagaPerKey`. One lemma per
   action; most are instances of a few step lemmas: a step that touches only its own call
   (`QuietStep`, `MoveStep`, `EndStep`), a step of the PSP (`AnswerStep`, `OutsideStep`), and a
   commit (`CommitTo`, `CommitStep`, `PersistStep`), after which every other copy is stale. The
   refinement and `MoneyConserved` follow from the same lemmas.
2. What a transaction may do to the database is one of a short list (`TxInsert`, `TxChallenge`,
   `TxUnknown`, `TxFailover`, `TxReject`, `TxApprove`, `TxApproveAndTake`, `TxTake`, `TxVoid`,
   `TxReserve`, `TxGiveBack`, `TxRelease`). The event log (`Story`) and the attempts (`AttemptsOK`)
   are preserved by each entry of the list, with no look at the control state any more.
3. `RefundsOK`: which call owns which pending refunds row, with its amount. The counters are sums
   over rows of which each transaction changes one.
4. `PspOK`: `TxnOK` (a transaction of the PSP), `WireOK` (what a message on the wire, perhaps long
   abandoned by its caller, was sent under), `Knows` (what the answer a call holds says of the PSP
   **now**) and `Backed` (the row against the PSP). Two facts carry it: the PSP never takes back a
   charge, a refund or a void (`PspMoves`), so an old answer stays true; and until a payment is
   approved every capture on the wire is for the whole amount (`Early`), so one that arrives late
   charges nothing else than what is recorded. This layer is the one that assumes `Linearizable`:
   `Unread` (no handler holds a copy) is its invariant, so what the PSP decides on is the
   transaction itself. The first three layers hold for either PSP.

`IInv` was checked with TLC on instances with either PSP, and `Linked`, the conjunction of all four
layers, on those with a `Linearizable` one, before they were proved.

### The other services

- **WebhookDelivery.** `ClaimOK` and `OutcomeOK` relate a worker's copy to the row; `Fenced` says
  that two workers' copies of one delivery have different versions, so that at most one is the
  row's. `LogExplainsStatus` is inductive with them. For `AttemptBudget`, `Budget` counts the
  requests made **and** those that workers who claimed an attempt still owe (`Owed`).
- **Ledger.** `CallOK` says of every open transaction that the balance rows it has locked are the
  committed ones plus the lines it has written so far, and that its draft balances and belongs to
  its event; `Apart`, that no two open transactions hold one row or one journal id. `NoBalanceDrift` then
  survives a commit because the sums over journals grow by exactly the draft. That a refund's
  clearing is emptied is a sum over events paired with each other (`SumPaired`).
- **EventPipeline.** `Exclusive` (no row in two batches, the effect of SKIP LOCKED), `HandedOver`
  (a published row is in its topic), `ConsumerOK`, and `Paid`: the records plus those that will be
  published again are at most the rows plus a batch for each fault.
- **IdempotencyKey.** `ToCache` (what a request is about to cache is final and its own), `LockHeld`
  (the lock in Valkey is the live forwarder's) and `Matching` (cached answer, hash and row agree),
  the last two until a lock is lost to an expiry under a dead request.
- **Reconciliation.** `LockOK` (a file's row is locked by exactly the import past the load),
  `ImportOK` and `ResultOK`: a computed matching still accounts for every line at its commit,
  although records changed and discrepancies were opened and closed meanwhile. What an import found
  open (`seen`) only changes while it has its file's row, so never for a file that is imported.
- **MerchantService.** `LockOK`; `CopyOK`, a copy with the current version is the row; `SlotFree`:
  whoever has counted holds the lock, so the place counted is still free at the insert.

The inductive invariants of these modules hold under TLC on the instances of their runs too, apart
from type conjuncts that TLC cannot evaluate (the ledger's tables and transactions range over all
integers; some fields hold a record or `None`), which `TypeOK` covers there.

**Sums.** Balances and counters are folds over sets. `SumTheorems` derives their algebra (adding an
element, equal terms, opposite terms, pairs) from `FiniteInduction`, an induction over the subsets
of a finite set that is stated with sets of sets, hence first-order, and proved from the library's
finite-set theorems.

*Only model-checked.* Liveness (`CallsReturn`, `Settles`, `EventsArrive`, `RetriesEnd`), which is
outside the prover's reach, and `Routing`, whose one question is a liveness property that the code
does not have. The four violated properties have counterexamples instead of proofs.

## Not modelled

- `Expire`, disputes and chargebacks: in the status table, but no code path calls them. The
  sweeper, the attempt-resolver and the reconcilers the docs describe do not exist in the code.
- Reads (Get, List, pagination), formatting, authentication, rate limiting, metrics, logging.
- The `refunds_guard_total` trigger: it repeats, in SQL, what ReserveRefund guarantees.
- The mock PSP's scenario table; the Stripe adapter, a stub.
- **Merchant**: reads, VerifyApiKey with its asynchronous `last_used_at`, encryption, validation of
  URLs, names and scopes. `external_ref` is checked before the insert without an index, as a comment
  in CreateMerchant says; the model has one merchant.
- **Webhook endpoint cache**: its promise is a TTL. `WebhookDelivery` lets a lookup answer anything.
- **api-gateway** other than the idempotency middleware: a stateless translation from REST to gRPC;
  the rate limiter counts in clock windows and fails open, and the cache of verified keys is a TTL. The in-memory idempotency store serves
  tests and development.
- **Ledger**: `SettlementTemplate`, which has no caller, and closed accounts, which no code makes.
- **Reconciliation**: the file parsers (a file parses or it does not), refund and dispute records
  (their events do not reach the projector), fee mismatches (the fee is not persisted, so a run
  cannot see one), reports.
- **Capability cache** of the router; poll intervals, backoff times and fetch errors of the bus.
- `api/gen`, 21 500 of the 48 600 lines of Go, is generated from the protobuf files; the platform
  packages (configuration, logging, tracing, HTTP and gRPC plumbing) hold no state of the system.

## The plan

1. **The two caches**, webhook endpoints and verified keys, composed with `MerchantService` and a
   clock, if invalidation is to promise more than a TTL.
2. **Proofs that are easier to keep**: `PaymentServiceProofs` is long because it treats each action
   in each layer; deriving layers 3 and 4 from the list of transactions alone would shorten it.
3. **Composition**: `EventPipeline`'s at-least-once delivery as the abstract bus under `Ledger` and
   `WebhookDelivery`, which now assume it by letting an event be handled at any time and again.
