# Kobo: verification

TLA+ models of Kobo, a virtual-account reconciliation engine: money arrives at
Nomba, is announced by webhooks, and has to reach the right invoices of a
double-entry ledger exactly once; surplus money is paid back under maker-checker
control; a school product bills on top; operators watch and decide in a web
console. TLC checks the models on small instances, TLAPS proves the theorems for
all values of the constants. Paths below are relative to the repository.

## 1. Inventory

| Component | State | Operations | What is hard | What makes it correct |
|---|---|---|---|---|
| Webhook receiver (`apps/api/src/app.ts`) | `raw_events` | verify, insert if new, enqueue, answer 200 | insert and `queue.add` are two steps; webhooks are lost, repeated, reordered | a persisted event is handled; duplicates change nothing |
| Webhook signature, normaliser (`packages/nomba/src/signature.ts`, `normalize.ts`) | none | HMAC in two schemes, naira to kobo | a stripped header, null for missing, binary fractions | genuine webhooks and no others; one amount by every path |
| Reconcile worker (`apps/worker/src/worker.ts`, `reconcile-runner.ts`) | `payments`, `ledger_entries`, `invoices`, `exceptions`, BullMQ jobs | credit, reversal, payout events | several executions of one job; crash, lost lock, exception | a session is credited once; an event is marked with its effect |
| Backfill poller (`backfill.ts`) | none | list, check, insert, enqueue | races webhooks | money is found although no webhook came |
| Sweeper (`sweeper.ts`) | none | select unprocessed, enqueue | a job id that is already there makes the add a no-op; limit 500 | no event stays behind |
| Core engine (`packages/core`) | none | waterfall, label, postings | boundaries | FIFO, debits = credits, right refund |
| Operator API (`app.ts`, `school.ts`) | `exceptions`, `pending_refunds`, `customers`, `virtual_accounts` | onboard, create invoice, resolve, re-attribute, approve | acts on what was read earlier; three steps without a transaction; legal orders nobody tried | ledger and invoices agree; what is reported exists |
| Standing credit (`packages/school/src/credit.ts`) | `ledger_entries` | apply credit | reads before it locks | credit covers the refunds that are owed |
| Refund payout (`payout.ts`, `app.ts`, `reconcile-runner.ts`) | `pending_refunds`, the transfer at Nomba | approve, transfer, retry, finalise by webhook | lost answers, retries, crashes, two approvers, webhooks before the commit | paid once, posted once, never stranded |
| Billing (`packages/school`) | `invoices`, `rules`, `rule_consumptions`, `customers.cohort` | run, create rule, promote | concurrent transactions, aborts, one-time rules | one invoice per student and reference, best discount, one-time rules once |
| Token manager (`packages/nomba/src/token.ts`) | a token and a lease in Redis, a mutex per process | get a token | lease expiry, waiting, crash of the holder | one refresher, no older token over a newer one, no call hangs |
| Nomba client (`packages/nomba/src/real.ts`) | none | virtual accounts, listing, transfers, retries | answers are lost | what is retried happens once |
| Migrator, seed, runtime (`packages/db`, `server.ts`, `worker.ts`) | `_kobo_migrations`, the schema, seed rows | boot, migrate, seed, listen, consume, stop | overlapping deploys, death half way | no boot leaves what the next refuses |
| Reporting queries (`queries.ts`, `school.ts`) | none | KPIs, statements, defaulters | several queries tell one story | the pages agree with one another and with the ledger |
| Web console (`apps/web`) | session in `localStorage`, React Query's cache | sign in and out, navigate, poll, mutate | polls race mutations; other tabs; lost answers; expiry | no page goes on showing what its operator has changed |
| Mock Nomba, scripts, deployment | none | - | - | - |

The components meet in PostgreSQL (system of record), in the BullMQ queues
(`reconcile`, `payout`, `backfill`, `sweep`) and at Nomba. The receiver, the
poller and the sweeper are producers of reconcile jobs, whose id is that of the
raw event; the reconcile worker writes payments, postings, invoices and refunds
in one transaction per event; the API approves refunds and enqueues payout
jobs; Nomba's payout webhooks come back through the receiver and the reconcile
worker. Billing creates the invoices that payments settle later. The console
reads all of it by polling and writes through the API.

## 2. Modules

| Module | Models | Checked by | Proofs |
|---|---|---|---|
| `ExactlyOnceCredit` | abstract: money that arrived is credited at most once, and unwound at most once after a reversal | `ingestion_safety` | refinement, `Ingestion_proofs` |
| `Ingestion` | receiver, queue, workers, poller, sweeper, Nomba's side | `ingestion_*` | `Ingestion_proofs` |
| `Inbound` | signature, schemas, listed transactions, synthetic payload, normaliser, whose money it is | `pipeline` | `Pipeline_proofs` |
| `Waterfall` | `reconcile()` and `applyCredit()` | `pipeline` | `Ledger_proofs`, `Pipeline_proofs` |
| `Ledger` (extends `Waterfall`) | what the transactions do to invoices, ledger, refunds, exceptions; credit application in three steps | `ledger_safety` | `Ledger_proofs` |
| `Reports` (extends `Ledger`) | the queries and what the pages compute from their answers | `ledger_safety` | `Ledger_proofs` |
| `RefundPromise` | abstract: a refund is approved, paid, drawn down once, for good | `payout` | refinement, `RefundPayout_proofs` |
| `RefundPayout` | approve requests, payout jobs, Nomba's transfer, payout webhooks | `payout*` | `RefundPayout_proofs` |
| `FeeEngine` | rule matching and `computeNetFee()` | `billing` | `Billing_proofs` |
| `Billing` (extends `FeeEngine`) | billing runs as READ COMMITTED transactions, rules, promotion | `billing` | `Billing_proofs` |
| `TokenLease` | `getAccessToken` in several processes | `token` | `Caches_proofs` |
| `Boot` | migrator, seed, start and stop of API and worker processes | `onboarding` | `Onboarding_proofs` |
| `Onboarding` (extends `Boot`, uses `FeeEngine`) | `POST /customers`, `POST /school/roster`, roster tags, a payment to a new number | `onboarding` | `Onboarding_proofs` |
| `Console` | one browser tab: session, pages, cache, polls, mutations | `console` | `Caches_proofs` |

`MC*` modules hold the instances' definitions for TLC; `MCPipeline` also composes
`Inbound` with `Waterfall` and has the reference definitions. `Sums` models
nothing: it has the lemmas about sums over finite sets that three of the proof
modules cite.

### Ingestion

`raw_events.session_id` and `payments.session_id` are UNIQUE, so tables are
functions of the session; a BullMQ job has the raw event's id, so the queue is
one, too. A webhook is one action up to its insert and a second for `queue.add`
(`ReceiveWebhook`, `Enqueue`, or `EnqueueLost` when the process dies or Redis
is down). The poller is three steps (`BackfillList`, `BackfillCheck`,
`BackfillInsert`), the sweeper two. An execution of `processRawEvent` reads the
row (`LoadEvent`), passes the idempotency gate (`SessionGate`), which sees only
committed rows, and commits payment, postings and `processed_at` together
(`CommitCredit`) or fails on the unique key (`CommitConflict`). `holder` is the
lock of the job: after `RecoverStalled` a slow execution goes on beside the
second one, and it cannot move the job any more. `bank`, `credits`, `contras` and
`told` are the outside and history: the abstract specification speaks of them.

### Inbound and the pipeline

`Inbound` is computation on one message. A field that may be missing is a set
of at most one value, a JSON scalar keeps its kind, since `String(null)`, `??`
and the schemas treat null, missing, numbers and strings differently. An amount
in naira is an integer of hundredths of a kobo; the multiplication by 100 may
add a noise of less than half a kobo, which stands for binary fractions, and
`NairaToKobo` rounds. `Hmac` is an injective function of key and text.
`MCPipeline` sends one transfer through `Receive` or through `Scanned` and
`BuildSyntheticPayload`, then `NormalizeInboundPayment` and the waterfall. A
webhook may leave out the alias fields and the fee, a listed transaction every
field that is optional in `RawTransaction` (`real.ts:216-228`), its amount and its
fee included: `num()` makes zero of what is nowhere (`real.ts:229-237`).

### Waterfall

The loops are described by their runs: `rem[i]` is the loop variable
`remaining` after the i-th invoice, and `Runs` is the set of functions with
the loop's step relation. No recursion is needed. `AppliedTotal` is the loop's
other variable, `receivableApplied`: what the invoices take, added up one by one.
`CustomerPostings` posts it beside the surplus that remains, so that debits equal
credits only if the two variables move together. `MCPipeline` compares with a
reference: each invoice gets what the older ones leave over.

### Ledger and Reports

One action per database transaction, with postings kept as the net effect per
payment and kind of account. `applyCustomerCredit` is three actions, since it
reads the balance and the reserved refunds before it locks the invoices.
`excused` remembers customers whose credit was cut from behind: an application
used figures that were stale when it locked, a payment was reversed, or a
payout came back. Invoices of zero, which a billing run creates for a full
discount, are among the inputs. `Reports` has no state: every query is an
operator over these tables, on one snapshot, and the cards the pages compute in
the browser are operators over the answers.

### RefundPromise and RefundPayout

An approve request reads, writes and enqueues in three steps; the payout job
reads, calls Nomba and commits in three more, with every outcome of
the call: accepted, rejected, timed out with or without effect. Every statement
of the job may throw (`Throws`): the reads, whatever status they would have
found; the transaction and the update of `markFailed`, without having written
(`CommitThrows`) or with everything written and only the answer lost (the
second disjunct of `CommitSent` and `MarkFailed`). What throws is retried; the
last attempt writes `failed` whatever the status is (`RetryOrGiveUp`), or that
update throws as well and nobody writes (`GiveUpThrows`). The stalled check and
its limit are actions, too. The merchant reference makes all calls for a refund
one transfer.

Two history variables name what the code does not hold. `disturbed` has the
refunds whose status was written over by a webhook, by a stale approval or, once
sent, by a last attempt, or whose payout ran twice at once; `unwritten` has those
whose last attempt could not write. `RefundPromise` knows none of this: a stage,
whether Nomba has the transfer, and how often the credit was drawn down. The
mapping takes the stage from `pending_refunds.status` and a disturbed refund to
`contested`, about which the promise says nothing more. What the excuses hide is
told in section 5.

### Billing

A run is a transaction: each of its statements sees what is committed by then,
an insert under a unique key waits (`Blocked`) for an uncommitted row and rolls
the whole run back when that row is committed. Rules may be created and
cohorts promoted between any two statements. `Abort` is a lost connection or the
victim of a deadlock, at any point. An invoice keeps the rules that were
`offered` as history. A reference is a pair; the code's string
`cohort-period` is taken for injective.

### TokenLease

Tokens are numbered as Nomba issues them, and `Age` brings the oldest fresh one
near its expiry. `EnterMutex` to `Leave` is `runExclusive`. `GiveUp` is the end
of the two-second wait, `LeaseLapses` the lease's ten seconds over while its
holder is still busy, `OrphanExpires` the same after the holder's death.
`Release` deletes the key whoever set it, as the code does. `unleased` remembers
the calls that refresh without a lease: they gave up, or it was taken from them.

### Boot and Onboarding

An instance looks for `_kobo_migrations`, creates it, reads it, runs each script
and records it in a step of its own (`RunScript`, `Record`), then seeds row by
row, listens and starts consumers. A script another instance has run meanwhile
fails, as CREATE TABLE does, and the process ends and is started again. The
flags of `env.ts` choose who migrates, seeds and consumes; without
`SEED_ON_BOOT` and `MIGRATE_ON_BOOT` the database is prepared beforehand.

`Onboarding` adds requests: each row of a roster is an account at Nomba (with
the client's retries), a customer and a virtual account, three commits that may
each fail, and the server may die between any two. A payment goes to a number
that was reported, is announced by a webhook with or without the account
reference, or found by the poll, and is credited or becomes an orphan. The tags
of the roster go through `Metadata` and the dialogs' labels back into a rule's
predicate, which is matched with `FeeEngine!MatchesMetadata`.

### Console

One query, `view`, is followed through all pages: queries do not influence one
another. What matters of a cached answer is whether it misses a change, and
whose: `current`, `old`, or `mine` for a change this page asked for. Pages are
built of their parts (`Content`): what each shows and which mutations it offers.
`Invalidated` is what the hooks invalidate, `Changed` what the handlers change
of the same queries; the property speaks of both. `Poll` begins a request,
`Serve` answers it on the server and `Deliver` brings the answer, so that a
mutation may come between. The other tabs are `Elsewhere`, whose writes to
`localStorage` arrive by `Sync`.

## 3. Runs

| Run | Bounds | What it shows |
|---|---|---|
| `ingestion_safety` | 2 sessions, 2 executions, sweep limit 1, 1 fault, 1 exception | `TypeOK`, `CreditedOnce`, `ProcessedIsPosted`, `CompletedIsProcessed`; every step implements `ExactlyOnceCredit` |
| `ingestion_liveness` | 1 session, 2 executions, 1 fault, no exception | `PaidIsCredited` even if no webhook arrives, `EventsDrain` |
| `ingestion_reversal` (violation) | 1 session, no fault | finding 1 |
| `ingestion_job_fails` (violation) | 1 session, 1 exception | finding 2 |
| `pipeline` | payments and fees to 5, up to 3 invoices of up to 2 each in every status; every kind of webhook and listed transaction, with and without amount, fee, session and time; noise -1 to 1 | `GenuineIsAccepted`, `PathsConverge`, `Fifo`, `StatusFits`, `PostingsBalance`, `DecisionFits` |
| `ledger_safety` | 1 customer, 2 payments, 2 invoices of 0 or 2, 2 credit applications, reversals and returned payouts | `InvoicesConsistent`, `PaymentsBalanced`, `SettledIsReceivable`, `CreditCoversRefunds`, `StatementExplains`, `ReportsAgree` |
| `payout` | 1 refund, 2 approvers, 2 executions, 2 attempts, 2 faults (and the update of a last attempt), the webhooks `payout_success` and `payout_refund` | `TypeOK`, `KeepsPromise` (implements `RefundPromise`), `NotStranded` |
| `payout_timeout_webhook` (violation) | 1 approver, 1 execution, 1 fault | finding 3 |
| `billing` | 2 students, 2 cohorts, 1 period, 2 runs, a catalogue of rules | `EveryStudentBilled`, `HighestWins`, `OneTimeOnce`, `ConsumedIffApplied` |
| `token` | 2 processes, 3 calls, 1 ageing, 1 failed call, 1 lapse or crash | `TypeOK`, `SoleRefresher`, `CacheAdvances`, `CallsReturn`, `LeaseRecovers` |
| `onboarding` | 2 instances, 2 migrations, 2 seed rows, 1 stop or crash, 1 request, a roster of 2, 1 retry, 1 error, 1 payment | `MigratedInOrder`, `ServesReady`, `ReportTruthful`, `TagReaches`, `ComesUp`, `MoneyArrives` |
| `console` | every query, page and mutation; 1 mutation sent, 2 disturbances | `ReadYourWrites`, `CatchesUp`, `SignedOutEverywhere` |

Why the bounds are enough to be interesting. Two executions and one fault are
what an overlap after a stall takes, two sessions what the sweep limit and the
refinement's independence take. Payments of 1 and 3 against invoices of 2
give partial, exact (in two parts) and surplus settlement, a payment over two
invoices, and a fee of 1 that leaves no cash. Two attempts are the smallest
number with a retry and a last one; two faults exhaust them (a commit whose
answer is lost and then a read that throws, say) or combine a timeout with a
crash. `GiveUpThrows` needs no fault of its own, since it ends the job.
`payout_failed` is left out of `payout`: `finalisePayout` does the same for it as
for `payout_refund`, and with all three the graph has a million states, which
liveness makes slow; the proofs are for any set of webhooks. With one period and two cohorts a student still gets two
references, by promotion. Two instances race for the migrations, one stop lets
one die between a script and its record, two migrations make an order and two
rows a half written seed or roster. One mutation and two disturbances are a
poll in flight, somebody else's change and a lost answer in any order. The noise
is one hundredth of a kobo either way; rounding makes no difference up to 49,
which `NoiseIsSmall` asks for.

The bounds `MaxFaults`, `MaxThrows`, `MaxErrors`, `MaxAges`, `MaxLapses`,
`MaxStops`, `MaxWrites`, `MaxDisturbances` and `MaxInvoices` occur only as
guards of the actions they count, never in a property. Every property of a
passing run has a mutant of the code that breaks it; mutants that need a
definition of their own are named so in the modules.

`CHECK_DEADLOCK FALSE` stands where the system may stop: when all bounded work
is done. `ingestion_*` and `console` check deadlock: the poller and the
operator go on for ever. Symmetry is used only in runs without liveness. The
type invariants of `Ledger`, `Billing`, `Console` and `Onboarding` are in no
run's list; each is proved for all values of the constants (section 4).

### Fairness

`Ingestion`: started handlers go on, the cron jobs fire (every five minutes,
`worker.ts`), consumers take waiting jobs, the stalled check runs. Nomba owes
nothing, so every webhook may be lost. The poller's window of one day is left
out: `PaidIsCredited` holds for an outage of the poller shorter than that.
`RefundPayout`: requests in flight go on and jobs are executed; nobody has to
approve, no webhook has to come. `TokenLease`: calls go on, Nomba answers or the
request fails, Redis expires keys. `Onboarding`: the platform starts what has
ended, processes and requests go on, the poll repeats and jobs are taken; nobody
has to send, pay or announce. `Console`: requests are answered, storage events
arrive, intervals come round while the tab is looked at. Weak fairness is enough
everywhere: what must happen stays enabled until it does, and faults are bounded.

## 4. Proofs

Every proof uses only the named assumptions on constants of its module, so the
theorems hold for any number of sessions, workers, customers, refunds, runs,
instances and rows (finitely many where a sum is taken), and any bounds.

`Ingestion_proofs`:

- `TypeCorrect`.
- `Invariance`: `CreditedOnce` is not inductive, as nothing in it says that the
  execution at the commit may still insert. `IInv` adds to the types that a
  payment row exists exactly for credited sessions and is refunded exactly for
  unwound ones (`PostedInv`), that rows, payments and listed transfers have
  money behind them at Nomba (`RowInv`), and what an execution at each program
  counter knows about its event (`WorkInv`: at `done` it is processed, on the
  credit path it is a `payment_success`). `ProcessedIsPosted` and
  `CompletedIsProcessed` are parts of it.
- `CreditedOnceAlways`, `ProcessedIsPostedAlways`, `CompletedIsProcessedAlways`
  follow from it.
- `IngestionImplementsExactlyOnce`: every action is `Settle`, `Credit`, `Unwind`
  or a stutter of `ExactlyOnceCredit` (the variables have the same names, so the
  refinement mapping is the identity).
- `InHandAlways`: without a crash, a stall or an exception an event that is to be
  handled is with the request that inserted it, waiting in the queue, or in an
  execution; the sweeper is needed for nothing else. `HandInv` carries with it
  why a finished job can stand in an event's way, which gives
- `StuckForAReasonAlways`, the safe half of `EventsDrain`: only a job that failed,
  after an exception or `MaxStalledCount` stalls, keeps its event unprocessed
  (finding 2). A job that was completed never does.

`Caches_proofs`, about `TokenLease`:

- `TypeCorrect`, with the mutex: held exactly by the call that is inside.
- `Invariance`: `LeaseInv` says that a refresher which is not excused owns the
  key (that is what excludes a second one), `CacheInv` that what it is about to
  write is newer than the cache. The latter needs the former: between obtaining
  and writing no other leased call may write.
- `SoleRefresherAlways`, `CacheAdvancesAlways`.
- `NothingLeftBehindAlways`, the safe half of `CallsReturn` and `LeaseRecovers`: a
  process's mutex belongs to a call of its own that is under way, and a call that
  has the lease is refreshing or in its `finally`. So no return, early or by an
  exception, leaves either behind; only a death leaves a lease, to its expiry.

and about `Console`, for any number of mutations and disturbances:

- `ConsoleInvariance`, `ConsoleTypeCorrect`.
- `ReadYourWritesAlways`: the property is about a page at rest, so it is not
  inductive. `OwnWritesInv` says that an answer without the page's own write is
  shown, or about to be, with nothing asked for, only while a call of this page
  that changed the query has its callback still to come. A callback then asks
  again, as what the hooks invalidate has all that a page shows of what its own
  mutations change (`RefreshesItsPage`, over the tables); another page starts
  without that answer (`EnterForgets`).

`RefundPayout_proofs`:

- `TypeCorrect`, which also says that a slot that is not free has a refund.
- `Invariance`: an execution that may still write to an undisturbed refund finds
  it approved, is the only one, and has a transfer once Nomba has accepted; of one
  that threw only the second holds, as its own commit may have gone unheard
  (`WorkInv`).
  `PostedIffSent` needs this: at the commit nothing else says that the entry is
  not there yet. `StartedInv` adds that a refund with a job is not pending any
  more, as a job whose read throws would otherwise fail one nobody approved.
- `DrawnDownOnce` follows: posted exactly once when sent, not at all otherwise,
  through throwing statements and lost answers.
- `RefundPayoutKeepsPromise`: a step concerns one refund, and moves it as
  `RefundPromise` allows or leaves it; the others keep stage, transfer and
  entries. The mapping is that of `Promise` in `RefundPayout`.
- `ApprovedInHandAlways`, the safe half of `NotStranded`: while no process has
  died or stalled, an approved refund is with a request that has still to enqueue
  it or has a payout job, whatever is retried, timed out or answered by a webhook,
  unless the update of its last attempt threw.

`Sums` (lemmas only): in what order a finite set is added up does not matter, so
that a sum over it is a term and the sum of the rest, is additive and is monotone.
The library's induction rules take a predicate as a parameter, which the provers
cannot instantiate; the lemmas use a set in its place (`NaturalInduction`,
`SubsetInduction`, from the well-foundedness of the natural numbers). `Ledger`,
`Reports`, `Waterfall`, `FeeEngine` and `MCPipeline` write all their sums as
`SumFunction`, to which the lemmas apply.

`Ledger_proofs` (about `Ledger` and `Reports`):

- `Invariance`, `InvoicesConsistentAlways`, `PaymentsBalancedAlways`. The
  invariant adds to the two properties the types of the rows the postings come
  from. `PouredConsistent` is the lemma about the engine: a run of the loop
  leaves every invoice within what is owed and with the status of its amounts,
  however many there are. `Least` gets the first touched invoice from the
  well-foundedness of the natural numbers.
- `RowsAlways`: a payment, its postings, its refund and its exception fit
  together (`RowsInv`): which rows a payment of this status can have, when
  suspense is overdrawn, and that receivable, credit and what was paid out make
  up the gross (`ExplainedOf`).
- `CreditCoversRefundsAlways`: what a payment leaves of its customer's credit
  once its own refund is set aside (`SlackAt`) is not lowered by any transaction
  but those that excuse the customer, and an application takes no more than the
  sum (`Covered`).
- `SettledAlways`, `SettledIsReceivableAlways`: the property compares totals, but
  a reversal takes back from one invoice. `SettledFor` therefore adds that each
  invoice is settled by at least what the payments that touched nothing else put
  there (`Put`), and `MatchedOf` that a payment with a receivable has an invoice:
  so the clamp at zero of the roll-back never cuts anything off.
- `TypeCorrect`: with the two invariants, that only customers are excused.
- `StatementExplainsAlways`, `ReportsAgreeAlways`: these follow from the three
  invariants. What the rows say of one payment or one invoice is added up, and
  the payments are split into disjoint sets by label and status. Sums over
  customers use `CustomersAssumption`, those over sessions
  `SessionsAssumption` (both sets are finite).

`Billing_proofs`:

- `Invariance`: the committed tables keep the unique keys, and what is consumed
  is what the invoices use (`Committed`); a run has consumed what its own rows
  use, but for the one it is at (`Local`); none of its rows is committed, and
  each student it is done with has an invoice here or there (`Against`); the
  uncommitted rows of two runs have no key in common (`Apart`). The last is what
  `Blocked` is for, and without it a commit could break the first.
- `EveryStudentBilledAlways`, `OneTimeOnceAlways`, `ConsumedIffAppliedAlways`.
- `PricedAlways`, `HighestWinsAlways`: each invoice is a value `NetFees` may
  return for the rules it was offered, and these are finitely many, as the rules
  are made one at a time (`PricedInv`; nothing is assumed about the catalogue).
  `WinnerTakesAll`: the discount computeNetFee ends up with is worth as much as
  the best of them, and never more than the base.
- `TypeCorrect`: that amounts are never negative needs the same argument, and
  that a run bills under a reference that exists (`PlacedInv`).

`Onboarding_proofs`:

- `BootInvariance`: types, what of the schema exists beside what is recorded
  (`SchemaInv`), and what an instance has seen when it serves (`ReadyInv`), kept
  also by the steps of `Onboarding`, which leave the boot alone or end it.
- `MigratedInOrderAlways`, `ServesReadyAlways`.
- `ReportTruthfulAlways`: a request's row counter says which rows are in
  `created` or `failed` already, and what is in `created` exists
  (`RequestInvariance`).
- `NeverOrphanAlways`: the safe half of `MoneyArrives`. The customer and the
  number that a report names are in the tables, which nothing removes, so that
  `Reconcile` finds the customer by either key.
- `TypeCorrect`: a customer has an account at Nomba and a number its customer at
  every point where a request may fail or die (`TablesNested`).
- `TagReachesAlways`: for any roster in which a written tag has one value at
  most (`RosterAssumption`, what `parseRoster` reads), the predicate sent for an
  offered choice is the tag the choice was made from (`ChoiceIsTag`).

`Pipeline_proofs` (about `MCPipeline`, for any bounds of amounts and invoices):

- `PipelineInvariance`: what `body`, `normal` and `rem` are at each verdict.
- `GenuineIsAcceptedAlways`: by either scheme, in any letter case and with any
  primitive types, the text the receiver signs is the text that was signed
  (`SameText`, `Verified`), as the model of HMAC is injective.
- `PathsConvergeAlways`: half a kobo is never reached by the noise, so that
  rounding gives back the kobo (`Rounding`), through the parsers' chains of
  alternatives on either path (`WebhookFacts`, `ListingFacts`, `EngineSees`),
  none given included (`FirstOfNone`: a fee shown nowhere becomes zero).
- `FifoAlways`: the runs of the loop have exactly one value (`OneRun`), the
  remainder before each invoice is the amount less what the older ones asked
  for, or zero (`Pouring`), and so each gets the share of the reference
  (`ShareIs`). `StatusFitsAlways` and `DecisionFitsAlways` follow from the same
  facts, for any amount and any number of invoices.
- `PostingsBalanceAlways`: by induction over the invoices, what has been applied
  and what remains make up the gross at every turn of the loop (`AppliedAddsUp`,
  with `Telescope` of `Sums`).

Only model-checked:

- Everything temporal that is not an invariant or a step property:
  `PaidIsCredited`, `EventsDrain`, `CallsReturn`, `LeaseRecovers`, `NotStranded`,
  `ComesUp`, `MoneyArrives`, `CatchesUp`, `SignedOutEverywhere`. Liveness under
  fairness is out of the provers' reach. The safe halves of five are
  proved: `StuckForAReasonAlways` (`EventsDrain`), `NothingLeftBehindAlways`
  (`CallsReturn`, `LeaseRecovers`), `ApprovedInHandAlways` (`NotStranded`),
  `NeverOrphanAlways` (`MoneyArrives`). That the steps then happen rests on TLC.
- The assumptions on constants, which TLC evaluates for the instances.

## 5. Findings

1. A reversal carries the session id of its credit, so the receiver's
   `ON CONFLICT (session_id) DO NOTHING` drops it and answers 200: the credit is
   never unwound (`README.md:214` promises it). Run `ingestion_reversal`.
2. Reconcile jobs have no attempts, and a failed job keeps its id: after one
   exception each later add by the sweeper is a no-op and the event is stuck
   (`0001_init.sql:69`, `README.md:215`). Run `ingestion_job_fails`.
3. `payout_success` marks a refund sent without posting. If it is processed after
   a transfer whose commit failed and before the retry, the retry skips and the
   payout is never posted (`payout.ts:11-12`, `94-96`). Run
   `payout_timeout_webhook`.

Also seen while modelling, without a run of their own. Money:

- A reversal takes the whole amount from the first invoice the payment had
  touched, clamped at zero; the others stay settled
  (`reconcile-runner.ts:277`). `SettledIsReceivable` leaves such payments out.
- Two approve requests can both pass the status check (`app.ts:390`); two jobs
  then post the payout twice. A stalled payout that runs twice does the same
  (`payout.ts:45`). `KeepsPromise` counts such refunds as disturbed.
- When the answer of the payout's COMMIT is lost, the attempt throws although the
  refund is sent and its entry posted. If the attempts that follow throw as well
  (a database that is away for a while), or if it was the last one, the consumer
  writes `failed` over `sent` (`worker.ts:79-83`, whose comment speaks only of a
  refund "stuck `approved`"). The refund can then be approved again and its
  credit is drawn down a second time, against `payout.ts:94-96`; Nomba recognises
  the merchant reference, so no money leaves twice. `KeepsPromise` counts these
  refunds as disturbed from that write on.
- If the last attempt's update throws itself, the refund stays approved without a
  job, although no process died: re-approval is answered 409. That is against
  "never leave a refund silently stranded" (`payout.ts:7`). `NotStranded` excuses
  it by `unwritten`.
- An approve request that dies between the update and `queue.add`, or whose add
  Redis refuses (`app.ts:396-406`), leaves the refund approved for ever, too:
  nothing sweeps. `NotStranded` excuses it, and a payout whose worker died or
  stalled more often than BullMQ allows.
- A payout that Nomba takes back after `sent` marks the refund failed and posts
  nothing (`reconcile-runner.ts:225`): the wallet has the money again, the
  customer's credit stays drawn down. `CreditCoversRefunds` excuses it.
- The payout job's commit sets `sent` over a `failed` that `payout_failed` has
  written meanwhile (`payout.ts:98`, `reconcile-runner.ts:225`).
- Two credit applications that read before either locks spend the same credit
  (`school/src/credit.ts:38`); `CreditCoversRefunds` excuses it.
- Re-attribution looks at the exception only: after a reversal of the orphan it
  takes money out of suspense that is not there (`app.ts:348-351`).
- The reversal of a payment whose surplus was paid out unwinds the payout's
  entries, too (`reconcile-runner.ts:236`, `263`).
- "Backfill and live webhooks converge on identical ledger writes"
  (`backfill.ts:6-7`) holds of listed transactions that show their fee. One
  that shows it neither as `fee` nor as `meta.fee` is taken to be free
  (`real.ts:229-237`), so that the backfill books the gross as cash where the
  webhook splits off the fee. `PathsConverge` says so.
- A listed transaction without `sessionId` is keyed by `meta.transactionId`
  (`real.ts:235`): if its webhook has a session id, both are credited.
- The poller looks at neither type nor status of a transaction
  (`backfill.ts:81`), looks back one day (`backfill.ts:51`), and writes null for
  the time of one that has none (`backfill.ts:41`), which the schema refuses
  (`nomba-webhook.ts:51`), so that its job fails.
- A payment that came by backfill has no sender account, so that its refund
  cannot be paid out (`payout.ts:58`).
- `transferToBank` sends the refund's amount in kobo (`real.ts:102`), while
  `money.ts:35` has a conversion "to a naira number for the Nomba payout API".
- The API accepts charges in percent; billing charges their basis points as
  kobo (`school.ts:163-168`, `billing.ts:84`). Promoting a cohort between two
  runs of one period bills its students twice (`billing.ts:37`).

Processes:

- "Only ONE instance refreshes at a time" (`token.ts:6`) is given up on purpose
  after two seconds of waiting; `SoleRefresher` says exactly when. A process that
  acquires the lease does not read the cache again (`token.ts:63`), so it may
  refresh a token a peer has just refreshed.
- 500 events that always throw fill the sweep's limit (`sweeper.ts:33`).
- `POST /customers` with a typed reference that was onboarded half way is
  refused ever after (`app.ts:200`); with a blank one, an operator whose answer
  was lost makes a second customer (`NewCustomerModal.tsx:42`).
- JSON null is signed as missing but refused by the schema (`app.ts:169`).
- `proposed_by` is never written, so the maker is not known to the check of
  maker and checker (`app.ts:393`).

Pages:

- `getStatement` reads balances and lists in separate queries, not in one
  snapshot (`queries.ts:100`); the timeline ignores reversals
  (`charts.tsx:332`); `defaulters` are ordered by the text of the amount
  (`school.ts:243`); two cards add up one page of rows
  (`school/page.tsx:131`, `customers/page.tsx:52`).
- `useCustomers` leaves the limit out of its key (`hooks.ts:30`); the exception
  queue stays on a page that has become empty (`ExceptionQueue.tsx:96`); a 401
  that comes late clears a newer session (`api.ts:65`).
- Lines of a roster that do not parse are dropped without a word
  (`students/page.tsx:62`), and numeric metadata that came by the API matches
  no rule (`match.ts:12`).

## 6. Not modelled

- The mock of Nomba: a test double. The modules model Nomba from how the code
  uses it and mark such definitions external.
- Scripts, deployment files, logging, the environment apart from the flags of a
  boot.
- Password hashing and the role check of a token; the separation of maker and
  checker as persons, a comparison of two addresses, is left out of `ApproveRefund`.
- Markup, formatting, paging, filters and form checks of the console, and the
  generic `components/ui`: they keep no state that reaches another part.
- Pages of Nomba's listing, HTTP headers and codes beyond success and failure.
- The sweeper's grace period, which only removes races. `FOR UPDATE` in `Ledger`
  makes a transaction that locks a customer's open invoices atomic. The credit
  application inside a billing run is the one of `Ledger`; its locks are not in
  `Billing`.

Hazards without a property say why in `PROJECT.json`. Re-attribution after a
reversal, the percentage charge and the two keys of one transfer are behaviours
the code has and no document settles; a property would state the modeller's
opinion. Where two approvals or two executions meet, where a payout comes back and
where the approve handler dies, the code does go wrong: the models take these
steps, and the properties name and excuse what they touch, so they would not
catch it. The same is said, as a note, of the excused part of hazards that a
property covers otherwise: stale credit applications, reversals over several
invoices, refreshers without a lease, last attempts that throw.

## 7. How the parts fit, and what could follow

`ExactlyOnceCredit` is what `Ledger` assumes of `Ingestion`: a session is credited
at most once, which is the guard `payment[s].status = "none"` of
`ReconcileCustomer`. `RefundPromise` is what it assumes of `RefundPayout` for
undisturbed refunds; `Ledger` lets a disturbed one come back (`ReturnPayout`).
`Inbound` decides whether `ReconcileCustomer` or `ReconcileOrphan` is taken, and
`Onboarding` which customers there are to find. The composition of `Ingestion`
and `Ledger` in one state space adds interleavings, not behaviours, as each event
meets the ledger in one transaction.

What could follow: every invariant and step property of the runs is proved, so
what is left to prove is liveness. It needs a prover for fairness, with the
invariants above (`HandInv`, `NothingLeftBehind`, `ApprovedInHand`) as the
premises of its leads-to rules.
