# Comparta, verified

Comparta holds USDC for organizations: one custodial wallet per organization at
Circle, divided in a Postgres ledger into buckets. This directory models the code
that moves that money, and the records kept of it, in TLA+: the modules are checked
by TLC on small instances and their main invariants are proved by TLAPS for all
instances.

Line references are to the repository's sources (`PROJECT.json` maps every
definition of the models to the lines it stands for).

## 1. The system

A Next.js application (API routes under `app/api`), a handful of BullMQ and cron
jobs (`jobs/`), Postgres through Prisma, Redis, and Circle as the custodian. All
processes share the database and talk to Circle; none shares memory. What makes the
code hard is that a logical operation is a row of database statements and provider
calls, run by requests that are retried, webhooks that are delivered late, twice
and out of order, and processes that may die between any two statements. Nearly
every service reads a row, decides, calls someone, and writes the row by its id.

| Component | State it keeps | Operations | What makes it correct |
|---|---|---|---|
| Ledger engine (`lib/ledger/engine.ts`) | append-only `LedgerEntry` rows with a running `balanceAfter`, Postgres row locks | `recordEntry`, `transferBetweenLedgerAccounts`, `getBalance`, `reconcileAccount` | snapshots never drift from the history; a reference is recorded once; a transfer is atomic; nothing is overdrawn; transactions do not deadlock |
| Outbound transfers (`lib/transfers/send.ts`) | `OnchainTransaction` rows: status, `submittedAt`, hash | `sendPayment`: write-ahead row, claim, provider call, confirmation, debit | a payment leaves custody again only if the provider's answer was lost, is debited once, and the row says so |
| Pending-send sweep (`lib/circle/reconciliation.ts`) | the same rows | list stuck rows, match them to transfers, confirm, debit | resolves only what was really sent |
| HTTP idempotency (`lib/transfers/idempotency.ts`) | `IdempotencyKey` rows with 24 h expiry | reserve, complete, fail, replay | a repeated request does its work again only if the answer was lost, and gets the answer of its own payload |
| Unified Balance deposit (`lib/transfers/fundUnifiedBalance.ts`) | bucket debits keyed by the deposit's hash | check, deposit into Gateway, debit each bucket | what is answered 200 is booked |
| Payment links (`lib/paymentLinks/*`, `app/api/webhooks/circle`) | links with counters, checkout sessions, deposit wallets | start, deposit notice: claim, sweep, confirm; recovery; inbound match; refund; expiry | swept once, a notice credited once, settled at its price, counted |
| Invoices and card checkouts (`lib/invoices`, `app/api/webhooks/circle-payments`, `jobs/invoiceOverdue.worker.ts`) | invoices, card sessions, `OnchainTransaction` rows | send, view, void, pay by card or by transfer, remind | money reported twice with its hash is credited once; a session is confirmed with its credit; an invoice never goes back |
| Inbound transfers (`lib/transfers/receive.ts`) | the inbound `OnchainTransaction` and its credit | match links and invoices, credit a bucket, run rules | one credit per notice, to the bucket the match names |
| Payroll (`lib/payroll/*`, `jobs/executePayroll.ts`) | runs, items, schedules | draft, approve, execute, retry, complete | an item is paid again only after a lost answer; a run ends and has tried everyone; no period is passed over |
| Recurring transfers (`lib/dca`, `jobs/processRecurringTransfers.ts`) | executions per due date | pick due, send, advance, pause, cancel | a row pays again only after a lost answer; no cycle is skipped |
| Unified Balance payments (`sendUnified.ts`), automatic deposit (`autoDeposit.ts`) | a cumulative counter per chain, Gateway balances | top up and send; deposit the delta | spent again only after a lost answer; nothing credited that was not deposited |
| Yield (`lib/savings/yield.ts`, `jobs/confirmYieldRedemption.ts`) | positions, redemption requests | deploy, redeem, confirm | a redemption is credited once; a position loses only what was redeemed |
| Allocation and savings rules (`lib/allocationRules`, `lib/savings/sweep.ts`) | rule executions | allocate, sweep | no money is made or lost, whatever overlaps or stops |
| Onchain agreements (`lib/onchain-agreements/service.ts`) | a mirror of a contract's agreement | submit and record, sync | the mirror is never ahead of the chain |
| Confirmation job (`jobs/confirmTransaction.ts`) | the rows of `sendPayment` | poll, confirm, reverse | (never reached, section 5) |
| Buckets, OTP, rate limits, identity, contacts, FX, insights, notifications, realtime, UI | rows of their own, read models | | nothing moves money by them |

How they interact: every debit and credit goes through the ledger engine, inside the
caller's transaction or in one of its own. `sendPayment` is the road out for a person,
a payroll item and a recurring transfer alike; `sendUnifiedBalancePayment` copies its
protocol for the Gateway; the refund and sweep paths of payment links ask Circle
themselves. Circle calls back through `app/api/webhooks/circle` (transfers) and
`app/api/webhooks/circle-payments` (card payments), which report some of the same
money. An inbound transfer that is credited runs the allocation and savings rules; a
confirmed payroll payment calls back into its run. The HTTP layer puts
`idempotency.ts` around `sendPayment` and `fundUnifiedBalance`. The jobs call the same
functions, and nothing keeps a job from running twice at once.

## 2. Modules

    RowSums <- AbstractLedger                 AbstractPayments
       ^            ^ refines                      ^ refines
       +------ LedgerEngine                   SendPayment    PaymentLinkSettlement    IdempotentRequest

                 KeyedPayment (what a caller sees of SendPayment, which implements it per key)
                   ^            ^
              PayrollRun   RecurringTransfer   PayrollSchedule   YieldRedemption
                               UnifiedTransfer   MoneyRules   InvoiceCheckout   AgreementMirror

`MCLedgerEngine`, `MCSendPayment`, `MCPaymentLinkSettlement`, `MCIdempotentRequest` and
`MCPayrollRun` give one component a small instance;
`MCServices` gives one to the seven services from PayrollSchedule to AgreementMirror,
RecurringTransfer included. They have no variable in common, so its initial state
picks one of them and the others rest. `Machines` says which may be picked.

The components meet at abstractions. A ledger entry is a keyed, atomic debit or credit
in the other modules because LedgerEngine implements AbstractLedger. A payment behind
an Idempotency-Key is lookup, claim, confirmation and debit, and one behind a payroll
item or a recurring transfer is a KeyedPayment, because that is what SendPayment shows
of it. That is checked and proved, not assumed: `ImplementsKeyedPayment` says that every
step of SendPayment, whatever calls, crashes and sweeps interleave on a key, is one of
KeyedPayment's outcomes for that key or is not seen of it, lost answers included. It
holds where payments differ in payee or amount (the sweep finds a transfer by these
alone), so that is also an assumption of what is shown of payroll and recurring
transfers.

**Lost answers.** `sendTransaction`, the Gateway's deposit and the unified spend wrap
every error of the provider, timeouts and answers without a hash included, as
`CircleApiError` (wallets.ts:381-388, 472-479, unifiedBalance.ts:508-522), and every
caller takes that for "nothing was sent" and opens its row to a retry (a sweep of a
deposit wallet apart, which leaves its session SWEEPING). So each protocol has a step in
which the money leaves and nobody is told: `LoseAnswer` (SendPayment,
IdempotentRequest), `Unanswered` (KeyedPayment, hence PayrollRun and RecurringTransfer),
`SpendUnanswered`, `ArcUnanswered` and `DepositUnanswered` (UnifiedTransfer),
`SweepUnanswered` (PaymentLinkSettlement). None of these protocols pays once, whatever
their comments say (executePayroll.ts:66-68 "never double-submits", execution.ts:45-49
"can't be double-submitted", sendUnified.ts:337-339 with a branch that is not reached).
What they keep, and what is checked and proved, is that a payment is made *again only if
the answer to the time before was lost*: the properties count both.

**RowSums, AbstractLedger, LedgerEngine** (`lib/ledger/engine.ts`). One transaction per
worker, one step per database statement: begin, row lock (`SELECT ... FOR UPDATE`),
balance read, key lookup, insert, commit. Rows are stamped with the inserting host's
clock (`createdAt @default(now())`), and "latest" means the greatest stamp, as in the
code; `Skew` says how far each clock is ahead, and `Elapsed` how many ticks pass between
two inserts: with 0 in it, two rows may share a stamp, and either is the
latest. `Rollback` is a lost connection at any statement. `DuplicateKey` is the unique index, which waits for an uncommitted
competitor, `NotFound` a request for an account that has no row (`Missing`). `AuditHistory` and `AuditSnapshot` are the two reads of `reconcileAccount`.
AbstractLedger says what callers may rely on: a transaction applies, at once, exactly
the postings of its operation whose keys are new, and overdraws nothing.

**AbstractPayments, SendPayment** (`send.ts`, `reconciliation.ts`, and the error
wrapping of `wallets.ts` and `appKit.ts`). A call walks through find, create, claim (the
compare-and-swap on `submittedAt`), submit, answer, three separate confirmation writes,
and the debit; the sweep lists, matches, confirms and debits on its own. `Accept`,
`Refuse` and `LoseAnswer` are the provider; `LostAnswers` says whether the last exists
in an instance. A collision on the hash adopts a row that need not be the wallet's own
(`Adopt`).
`Crash` and `SweepCrash` may strike anywhere. AbstractPayments: a payment is paid at
most once, then booked at most once, by its own amount.

**PaymentLinkSettlement** (`paymentLinks/{checkout,reconciliation,completion}.ts`,
`webhooks/circle/route.ts`, `receive.ts`, the expiry worker). `transfers` is what moved
on chain, in order; a webhook handler takes *any* transfer at *any* time, so notices
arrive late, repeatedly and in every order. A handler is at one `pc` between two
database transactions. Three paths may confirm a session: the deposit notice that
claims and sweeps it (`Claim`, `Sweep`, `Lookup`, `InsertRow`, `Confirm`), the recovery
on the sweep's outbound notice (`FindStuck`, `Resolve`, `CheckStuck`), and the
treasury's inbound notice matched by amount (`ReceiveInbound`, `Match`, `Park`,
`CreditDefault`, then the wrong-amount `Refund`). `Strangers` lets anyone pay the
treasury, `Operators` lets a parked deposit be returned by hand. With `NoticeHashes =
{TRUE, FALSE}` a notice may come without the transfer's hash: the recovery then stores
the notice's id in its place and the inbound handler nothing (route.ts:278,
receive.ts:162, 179), so one transfer may have up to three rows, told apart by `Keys`.
A unique violation inside a transaction aborts it, so the catch block of receive.ts:175
finds nothing it could use. Of an inbound transfer, states that are not terminal are
ignored (receive.ts); a deposit notice is not looked at for its state, and its wallet
may not yet hold the money: the claim is then made all the same and the sweep fails.

**IdempotentRequest** (`idempotency.ts`, the routes `transfers/send` and
`wallet/unified-balance/deposit`, `fundUnifiedBalance.ts`). One key at one of the two
endpoints: lookup, delete of an expired row, upsert or its unique violation, work,
completion, and the routes' catch block, each its own step, so requests overlap between
them. `effects` are the transfers made, `lost` those of them that were not answered.

**PayrollRun** (`payroll/runs.ts`, `executePayroll.ts`, `completion.ts`). The life of one
run. An editor's request reads the status (`ReadRun`) and writes later (`WriteItem`,
`WriteStatus`, `Approve`), over whatever the run has become; after an approval it queues
the job (`Enqueue`) unless it dies, which `Recover` repairs by hand. A job loads the
items not yet SENT (`Load`), pays them one by one (`Pay`, `Submit`, `Answer`, then
`RecordSent` or `RecordFailed`) and completes the run; `Die` and a failing write are
counted in `MaxFaults`. A retry of one item runs beside it, and so do the completion hook
(`HookRead`, `HookWrite`) and the sweep of pending sends (`Reconcile`).

**PayrollSchedule** (`scheduler.ts`, `schedules.ts`). Sweeps list a due schedule, look for a
draft of the period, generate it, and advance the date by a plain write; owners edit,
deactivate, and delete drafts in between.

**RecurringTransfer** (`processRecurringTransfers.ts`, `dca/execution.ts`,
`dca/service.ts`). A sweep lists the transfer, finds or creates the row of the cycle (or
takes over a stale one), checks, pays, marks the row and advances. Clients pause, resume
and cancel by a read and a later write.

**YieldRedemption** (`savings/yield.ts`, `confirmYieldRedemption.ts`). Deployments debit,
convert and create positions; clicks read positions and what is held of them, create
requests, submit them and queue their confirmation; the confirmation job polls and
finalizes in a transaction that is two steps, the read and the locked write.

**UnifiedTransfer** (`sendUnified.ts`, `autoDeposit.ts`, `unifiedBalance.ts`). A payment
claims its row, compares the Gateway's balance, tops it up from Arc and from what lies
on the other chain, waits, spends, confirms, and debits what it topped up. The sweep
deposits the same delta. The Gateway confirms deposits when it likes.

**MoneyRules** (`receive.ts` after its commit, `allocationRules/engine.ts`,
`savings/sweep.ts`). Deliveries of inbound transfers commit their credit and then run an
allocation and a savings sweep; payers and the daily worker run beside them.

**InvoiceCheckout** (`invoices/service.ts`, `invoices/reconciliation.ts`,
`circle-payments/route.ts`, `checkout.ts`, `receive.ts`, `invoiceOverdue.worker.ts`).
A card payment and its transfer are the same money, so it has two notices; both may be
handled at any time and any number of times, with or without the hash
(`NoticeHashes`). Requests and notices between two of their
steps are members of sets and have no bound. `SettleCard` is the transaction that claims
the session, inserts the row and confirms, all or nothing.

**AgreementMirror** (`onchain-agreements/service.ts`). `chain` and `mempool` are external: an
agreement and the operator's transactions, mined in order, each of which may revert
although its estimation passed. An operation submits and then records; a crash comes
between. `syncAgreementFromChain` reads and copies in two halves, and syncs overlap.

## 3. Runs

Passing runs (every property has a mutant of the model that breaks it):

| Run | Instance | Shows |
|---|---|---|
| `ledger_engine` | 2 buckets and one that is missing, 2 workers, 6 operations (a credit claimed by two buckets, a payment, transfers both ways and to the missing one), 4 attempts, one clock, stamps that may tie | NoDrift, RecordedOnce, TransferAtomic, NeverOverdrawn, TransactionsEnd; implements AbstractLedger |
| `send_payment` | 2 payments of amounts 1 and 2 to one payee, a bucket of 2, 2 callers, 4 calls, crashes, sweeps, no lost answers | SentOnce, BooksFollowChain, PendingUntracked, ConfirmedIsFinal; implements AbstractPayments |
| `send_payment_hostile` | the same with 3 calls, and the provider's answer may be lost | OneSubmitter; implements KeyedPayment for each key |
| `link_settlement` | 2 sessions of one single-use link at one price, 2 handlers that may die anywhere, amounts right and wrong, strangers, refunds, returns by hand, notices with and without the hash, 2 transfers | SweptOnce, ConfirmedHasCredit, NothingUncounted, CreditedOnce, CreditsBrought, ConfirmedAtItsPrice |
| `idempotency` | both endpoints, 2 payloads, 2 requests at once, 4 in all, crashes, expiry, lost answers | PaidAgainOnlyIfLost, OneAnswer, OkMeansBooked |
| `payroll` | a run of 2 items, 2 editors, 2 executions of its job, a retry, 3 edits, a crash or failed write, a lost answer per item | ItemPaidAgainOnlyIfLost, SentWasPaid, EveryoneTried |
| `payroll_live` | 3 items, one unresolvable, fair workers, a crash | ProcessingEnds |
| `services` | the seven services of MCServices, each with two overlapping workers, senders, handlers or syncs, and a crash, failure or lost answer | NoPeriodSkipped, RowPaidAgainOnlyIfLost, SuccessWasPaid, AdvancesOneCycle, OutcomeMatchesCircle, PositionKeepsRest, SpentAgainOnlyIfLost, DepositsBackCredits, MoneyAccounted, SecondCreditUnhashed, CheckoutBacked, MirrorNotAhead |

Runs that find the code departing from what it says (each is a finding of
`PROJECT.json`, with the lines quoted):

| Run | Property | What happens |
|---|---|---|
| `send_payment_lost_answer` | SentOnce | `appKit.ts` wraps *every* error, timeouts too, so `send.ts:245` takes an unknown outcome for a rejection, un-claims the row, and a retry pays again; the same error handling lets a payroll item, a recurring transfer's row and a unified payment be paid again, which the properties ...AgainOnlyIfLost of the other runs except by counting the lost answers |
| `deposit_twice` | MadeAgainOnlyIfLost | two deposits with one key look it up before either reserves it, the upsert lets both through, and the money is moved twice though every answer arrived; also reached by a refused duplicate that frees the key of the running request |
| `link_wrong_session` | ConfirmedWasPaid | a sweep's inbound notice, handled before the sweep is confirmed, confirms another session of the same price, whose payer paid nothing (reconciliation.ts:160-161 "never heuristically guesses") |
| `yield_double_redeem` | RedeemedOnce | two clicks read what is available before either creates its request, and Circle is asked to redeem the same USYC twice; with `Clicks = {w1}` the run ends likewise, by a confirmation that commits between the two reads of one click |

The models state more of what the sources say than these runs repeat. The following
configurations are kept beside them; each ends in a counterexample
(`tlc -config <cfg> <MC module>`):

| Configuration | Property | Source of the claim, and what happens |
|---|---|---|
| `LedgerEngineSkew.cfg` | NeverDrifts | README.md:119 "never drifts": with two clocks the newest `createdAt` is not the last row committed, and the next balance starts from a stale one; with one clock (`Skew <- NoSkew`) two rows of one millisecond do the same |
| `SendPaymentAlike.cfg` | BooksFollowChain | reconciliation.ts:75-76: of two equal payments to one payee the sweep confirms the one never made |
| `SendPaymentUnswept.cfg` | SentIsConfirmed | send.ts:260 "resolves this later": nothing calls the sweep |
| `SendPaymentUndebited.cfg` | SentIsDebited | send.ts:373-375: a crash between CONFIRMED and the debit is repaired by nobody, not even a scheduled sweep |
| `SendPaymentOverspent.cfg` | SentIsCovered | send.ts:138-140: the row lock is taken after the money left |
| `PaymentLinkSettlementCounters.cfg` | CountersMatch | completion.ts:79-81: recovery and sweeping handler both confirm one session, which is counted twice |
| `PaymentLinkSettlementUses.cfg` | UsesRespected | service.ts:221-222 "exactly one": maxUses is checked when a checkout starts |
| `PaymentLinkSettlementBucket.cfg` | CreditedToItsBucket | schema.prisma:946: an early inbound notice credits the default bucket for good |
| `PaymentLinkSettlementReturned.cfg` | CreditsBacked | schema.prisma:230: the notice of a deposit returned by hand confirms and credits its session |
| `PaymentLinkSettlementSentBack.cfg` | SweepsStay | reconciliation.ts:172-175: a sweep is refunded to the deposit wallet it came from |
| `PaymentLinkSettlementRefunds.cfg` | RefundedOnce | reconciliation.ts:125-126: two stray payments blamed on one session refund one of them twice |
| `PaymentLinkSettlementUnhashed.cfg` | TransferCreditedOnce | receive.ts:22-25 "rather than double-crediting the ledger": a sweep whose inbound notice comes without the hash has a second row, and is credited twice |
| `InvoiceDowngraded.cfg` | NeverDowngraded | invoices/service.ts:297-298 "only ever forward": a page view finds the invoice SENT, it is voided, paid or overdue meanwhile, and the view writes VIEWED over that |
| `IdempotentRequestRace.cfg` | OneInFlight | idempotency.ts:49-51 "race-safe": the upsert takes over a PENDING row |
| `IdempotentRequestReplay.cfg` | CompletedStays | idempotency.ts:41: a 409 for a reused key marks the COMPLETED row FAILED, and the other payload is then answered with this one's payment |

Five more are definitions without a configuration of their own; put them in place of
the properties of `Services.cfg`, with `Machines` reduced to the service:

| Service | Property | Source of the claim, and what happens |
|---|---|---|
| `unified` | NothingLeftBehind | schema.prisma:550-552: the counter is written back from what was read, so a sweep may find no delta while money lies on the chain |
| `rules` | SweepsKeepFloor | sweep.ts:30-36 "never drops below": a payment between the sweep's read and its transfer |
| `invoices` (`Reminders = {w1, w2}`, `MaxSweeps = 2`) | RemindedOnce | invoiceOverdue.worker.ts:5-7 "never sends a milestone twice": the mail and its count are two steps |
| `agreements` | AuthorizedOnChain | onchain-agreements/service.ts:11-15: the flag is set when the transaction is submitted, which may revert |
| `agreements` | AgreementsRecorded | service.ts:4-9: a crash between submission and record leaves an agreement no row knows, and a retry makes another |

What else the models have, seen while writing them and stated by no property:

- *Payroll.* An item added after the balance check of the approval is paid unapproved; an
  item is FAILED though paid when another execution holds its claim; SENT is never
  CONFIRMED if the hook comes first; a late `returnRunToDraft` or delete overwrites
  PROCESSING; a retry that dies leaves PENDING in a COMPLETED run; FAILED items are
  executed again by a redelivered job, where executePayroll.ts:15-18 has them skipped.
- *Recurring transfers.* An internal transfer is made again after a crash, under a fresh
  reference (dca/execution.ts:41-49); overlapping sweeps make two rows for one cycle and
  pay both; a cancelled transfer is executed from a stale list; a paid row is marked FAILED
  when the write of SUCCESS fails.
- *Yield.* A position keeps what another confirmation took off it (a lost update, never
  too little); a crash between debit and conversion loses the deployment; a conversion
  whose answer is lost is reversed though it was made; a request whose job gave up stays
  PROCESSING.
- *Unified Balance.* The shortfall is debited from the bucket even when no top-up was
  needed by then; a top-up followed by a failed spend is never debited; an exception that
  is not CircleApiError leaves the claim in place for good.
- *Rules.* Of two concurrent deliveries of one notice both run the rules, though
  receive.ts:22-25 has the second be a no-op; a crash after the commit loses them;
  a savings sweep that moved money may be logged FAILED; two
  daily workers sweep twice.
- *Invoices.* If the card notice or the inbound one comes without the txHash, the money is
  credited twice, which SecondCreditUnhashed allows and nothing else; when the inbound notice comes first
  the session stays PENDING and the link unused, though paid; send, void, view and PAID
  overwrite each other; the link of a VOID invoice stays payable.
- *Payment links.* A deposit notice of a transfer that is not complete, or never completes,
  claims its session and fails to sweep it (route.ts:148-171 does not look at the state);
  nothing releases the claim. A failed or dead handler's event is answered 200 and not
  delivered again (route.ts:111-122), so a session that was swept may never be confirmed:
  no liveness is claimed of it.
- *Agreements.* Syncs that copy out of order move the mirror back.

### Bounds

- Amounts are 1 to 3 units. The code adds, subtracts and compares bigints; amounts
  matter by being equal, different, or too large for a balance, and all three occur.
- Two workers, callers, handlers, sweeps or syncs: every conflict of these protocols is
  between a pair, and a third repeats one of the two.
- `MaxAttempts = 4` (ledger): a repetition of each side of a transfer beside a second
  transaction. `Elapsed = {0, 1}`: the next insert has the same stamp or a later one.
- `MaxCalls = 4` (payments): both payments and two retries; 3 with lost answers, where a
  retry of one of them is what matters. `MaxLost = 1` (payroll, recurring transfers): one
  answer per key is lost, so a key may be paid twice and not a third time.
- `MaxTransfers = 2` (links): a deposit and its sweep, or its return, or a stranger's
  payment and its refund, while the other session is open beside them. The configurations
  that end in a counterexample go to 3 and 4 where they need it, and the same instance with
  3 transfers has been checked with hashed notices only (1.46 million states).
- `MaxRequests = 4` (idempotency): the first, its duplicate, one more of each payload.
- Payroll: `MaxEdits = 3` is submission, approval and one late write; `MaxJobs = 1` with
  two workers is a job delivered again while it runs; `MaxFaults` is discussed under
  Fairness.
- Schedule and recurring transfer: three periods or cycles, so that a sweep may lag two
  behind; two failures; two rows for one cycle.
- Yield: two deployments of 2, two requests that split a position, one attempt of a poll
  before it gives up, one loss. The double redemption needs no loss at all.
- Unified: two payments of 1 and 2, two arrivals, three calls, one stop: the first call
  may fail at any point and be retried beside the other payment.
- Rules: two inbound transfers of 2 and 3 over a floor of 1, one payment, one scheduled
  day, one error.
- Invoices: one invoice with one card session and one direct payment of the same amount,
  hence three notices of two moneys; two milestones are not needed for what is checked.
- Agreements: six transactions make an agreement, its module, a deposit, an activation and
  two ends that compete; two wait in the mempool, so that one makes the other revert.
- SYMMETRY is used for callers, handlers, requests and items, which are interchangeable,
  and never in a run with a liveness property.
- `CHECK_DEADLOCK FALSE` everywhere: a system of requests is at rest when all of them
  are answered and the bounds are used up. That nobody waits forever is
  TransactionsEnd, not the deadlock check.

### Fairness

- LedgerEngine: weak fairness of each worker's next statement. Postgres grants a free
  lock and runs a statement it was sent; callers need not call, connections need not
  break.
- SendPayment: weak fairness of a caller's own steps (an async function runs on). The
  sweep has none in `FairSpec`, because nothing in the repository schedules it.
  `SweptSpec` adds a scheduled sweep, to show which losses even that would not repair.
- PaymentLinkSettlement: none. Nothing guarantees that a notice is handled in the end.
- PayrollRun: weak fairness of each job worker (BullMQ keeps them running, and a call of
  the provider ends) and of the request that approved the run on its way to the queue.
  Nothing is assumed of editors, retries, the hook or the sweep. ProcessingEnds excepts a
  run whose request died before it queued the job (`stranded`): nothing repairs that but
  an operator. `MaxFaults = 1`, because BullMQ gives up a job that stalls twice, and a
  run is then PROCESSING for good.

## 4. Proofs

| Theorem | States | Assumes |
|---|---|---|
| `LedgerEngineProofs!TypeCorrect` | TypeOK | |
| `...!NeverRecordedTwice` | RecordedOnce | |
| `...!TransfersAtomic` | TransferAtomic | callers do not reuse references across operations |
| `...!SnapshotsNeverDrift`, `RowsChain` | NoDrift, and ChainOK, which it rests on: of each account as long as its stamps follow the order of its commits | |
| `...!AccountsNeverOverdrawn` | NeverOverdrawn, likewise | |
| `...!EngineImplementsLedger` | refines AbstractLedger as long as all stamps are in order | |
| `SendPaymentProofs!TypeCorrect` | TypeOK | |
| `...!SubmittersExclusive` | OneSubmitter | |
| `...!NeverSentTwice` | SentOnce | no lost answers |
| `...!BooksAlwaysFollowChain`, `PendingNeverTracked`, `ConfirmationsStay` | BooksFollowChain, PendingUntracked, ConfirmedIsFinal | no lost answers; payments differ in payee or amount |
| `...!PaymentsImplemented` | refines AbstractPayments | the same |
| `...!KeyedPaymentImplemented` | ImplementsKeyedPayment, with lost answers | payments differ in payee or amount |
| `PaymentLinkSettlementProofs!TypeCorrect` | TypeOK | |
| `...!SweepsOnce`, `CreditsOnce` | SweptOnce, CreditedOnce | |
| `...!ConfirmsCredited`, `CountsAll` | ConfirmedHasCredit, NothingUncounted | |
| `...!CreditsBroughtOrReturned` | a credit is what its transfer brought to the treasury, or the transfer is a return by hand | |
| `...!ConfirmsAtItsPrice` | a CONFIRMED session names a transfer of its price to the treasury, or a return by hand | |
| `IdempotentRequestProofs!TypeCorrect` | TypeOK, with it that no bucket is overdrawn | |
| `...!PaysAgainOnlyIfLost`, `AnswersAgree`, `OkIsBooked` | PaidAgainOnlyIfLost, OneAnswer, OkMeansBooked | |
| `PayrollRunProofs!PayrollTypeCorrect` | PayrollTypeOK | |
| `...!PaysItemAgainOnlyIfLost`, `SentItemsWerePaid`, `TriesEveryone` | ItemPaidAgainOnlyIfLost, SentWasPaid, EveryoneTried | KeyedPayment, as implemented above |
| `RecurringTransferProofs!RecurringTypeCorrect` | RecurringTypeOK | |
| `...!PaysRowAgainOnlyIfLost`, `SuccessfulRowsWerePaid` | RowPaidAgainOnlyIfLost, SuccessWasPaid | KeyedPayment, as implemented above |
| `...!LeavesNoCycleBehind` | AdvancesOneCycle | |
| `PayoutProofs!SkipsNoPeriod` | NoPeriodSkipped | |
| `...!UnifiedTypeCorrect`, `SpendsAgainOnlyIfLost` | UnifiedTypeOK, SpentAgainOnlyIfLost | |
| `...!DepositsBacked` | DepositsBackCredits | |
| `...!YieldTypeCorrect`, `OutcomeIsCircles` | YieldTypeOK, OutcomeMatchesCircle | |
| `...!RestIsKept` | PositionKeepsRest | |
| `...!RulesTypeCorrect`, `MoneyIsAccounted` | RulesTypeOK, MoneyAccounted | |
| `...!ConfirmsWithCredit` | CheckoutBacked | |
| `...!CreditsAgainOnlyUnhashed` | SecondCreditUnhashed | |
| `...!MirrorTypeCorrect`, `MirrorLags` | MirrorTypeOK, MirrorNotAhead | |

The named `ASSUME`s of each module are the other assumptions: disjoint names, positive
amounts, well-formed operations, natural bounds. None limits the number of workers,
accounts, payments, callers, links, sessions, handlers, items, invoices or transfers.

How the arguments run:

- **Ledger.** `TypeInv` adds to the types where a transaction stands in its operation,
  which bounds its indices. `KeyInv`: a key is written by at most one open
  transaction and not by one that is committed, which is what the unique index
  gives; it makes RecordedOnce inductive. `ChainInv`: a transaction that has read a
  balance holds the account's lock, and as long as the account's stamps are in order it
  read the balance of the *last* row and every row continues the one before. Only this
  makes NoDrift inductive: the snapshot the code reads is then the tail, and the tail is
  the sum, which grows by the delta of each appended row. The refinement maps a commit to one `Apply` and all else to
  stuttering.
- **Payments.** `ClaimInv`: a row stays submitted as long as a caller holds it, so the
  claim excludes a second holder. `SendInv`: a row that is free was never paid, and a
  caller about to submit or un-claim has not paid; here lost answers must be excluded.
  `BookInv`: what a call or a sweep believes to be its transfer is the payment's own,
  which needs payments to be told apart; it also keeps hashes from moving. The keyed view
  does without `SendInv`, since answers may be lost there: `SeenInv` keeps of `BookInv`
  that identifiers and matches are the payment's own, and that a row free to be claimed
  says FAILED or was never paid. `Seen` is a payment's row and the number of its
  transfers (how many answers were lost is KeyedPayment's own history, which no outcome
  depends on but the bound), and each action is shown to be one outcome of KeyedPayment for the key it works on
  (`ClaimSeen`, `AcceptSeen`, `UnclaimSeen`, `MarkSeen`, `SweepSeen`) and nothing for the others
  (`QuietStep`). The step that is not obvious: a sweep confirms only a claimed row whose
  transfer was made.
- **Links.** `TypeInv` records what a handler knows by its place. `ClaimInv`: a session
  whose wallet was swept, or is being swept, is past PENDING and never returns to it.
  `OneRow`: a row is written where the search of its writer found none of that notice or
  hash. `ConfirmInv`: a handler about to confirm has its row, and the row its credit. `CountInv`:
  what a confirming handler has read of the counters is not ahead of them. `BroughtInv`
  follows the amounts: transfers are only appended (`ChainGrows`), what leaves a deposit
  wallet is its sweep at the expected price or a return by hand, and the amount a handler
  carries is what its transfer brought. `PaidInv` says what a handler is about to settle is
  a session of exactly that amount. Both hold with strangers and operators, for any prices
  and with or without hashes; what they except is the deposit returned by hand.
- **Keys.** `PayInv`: a payment is SENDING as long as a request holds it, which is why
  it is exclusive although the key layer is not, and why a CONFIRMED one is final; while
  it is free, or still to be sent, every transfer made so far is one without an answer.
  `AnswerInv`: what a request is about to answer, what the key stores and what was
  answered is *settled*: the confirmed payment, or a deposit booked in full. It needs
  what a debiting request owes: what it named less what is left is booked.
- **Payroll.** `PayInv`: the row of an item tells how often it was paid beyond its lost answers, a payer's place
  tells the state of the row it holds, one payer of an item at a time is at the provider,
  and what is recorded SENT, or waits for the hook, is settled. `TryInv`: unless a late
  write reopened the run, each execution covers what its approver saw, in that an approved
  item is tried, taken off, or still on that execution's list.
- **Recurring transfers.** `RecurringInv` is the same of rows; `CycleCovered` adds that a
  sweep works on a row of the cycle it listed, and does not come to its advance without
  one or a logged error. The advance itself is conditional (`StillDue`).
- **Schedule.** `ScheduleInv`: all periods before a date that a sweep holds are generated or
  excused, and one about to advance has seen the run of its date. So it does not matter
  whose write is last.
- **Unified Balance.** `SpendInv`: a sender's place between claim and confirmation tells that
  its row is claimed and whether it is spent beyond its lost answers, and no two senders are there for one row.
  `BooksInv`: what is credited *and what every actor between deposit and booking still
  carries* is at most what was deposited. The sum runs over the actors that are there,
  finitely many at any time, which is part of the invariant.
- **Yield.** `YieldShape` bounds what clicks and confirmations point to. `OutcomeInv`: status,
  Circle's conversion, submission, credits and tries of a request agree, and the place of
  a confirmation tells which outcome it has seen. `RestInv`: a position and its completed
  requests make up the deployment, and *will still* when a confirmation commits the
  balance it remembers, its own request apart. It is inductive although the write is
  stale, because another commit in between only adds a completed request to the sum; the
  equality, which the code does not keep, is lost at the same step.
- **Sums.** `SumProofs` derives what the proofs about money in a set of rows need from the fold that
  defines a sum over a finite set: adding and removing a member, agreement, integers and
  naturals. The induction runs over
  the subsets of a set, by the least natural that fails, so no theorem takes an operator.
- **Rules.** `AccountsInv`: the source, what was saved and what was spent make up the floor
  and the inflows of the transfers with a row, finitely many, whatever handlers carry.
- **Invoices.** `CheckoutInv`: rows, committed or about to be inserted, are of a money that may
  have them, and a session is CONFIRMED exactly with its card row, because claim and insert
  are one transaction. `OneRowInv` adds that committed rows do not collide with each other nor
  with the row of a match under way, and that a money has one match at a time.
- **Agreements.** `MirrorInv`: what a sync has read, and what the mirror has, precedes the
  chain, and the chain only moves on: `Precedes` is preserved by every outcome of a mined
  transaction, and a record changes nothing that is money past CREATED.

Every safety property of a passing run is stated by a theorem. Only model-checked:
liveness (TransactionsEnd, ProcessingEnds), which the prover does not reach. The
properties that fail cannot be theorems. Three restrictions remain. The ledger's
conclusions are of accounts whose stamps follow the order of commits, a condition in the
properties themselves, which differing clocks and ties break. SentOnce, BooksFollowChain
and what builds on them assume that no answer is lost; KeyedPayment and the properties
that count lost answers do not. BooksFollowChain and KeyedPayment assume payments that
differ in payee or amount. Each is what a counterexample of section 3 uses.

## 5. What is not modelled, and why

`PROJECT.json` lists every component. Most of the repository is the user interface:
pages, components, generated contract bindings; rendering has no state to model. Left out
for good: serializers, e-mail, PDF, FX, language-model insights, realtime broadcasts
(nothing reads them back), signature verification, access control (OTP, rate limits,
authorization), and lookups without state (identity).

- **`jobs/confirmTransaction.ts`** polls and reverses PENDING rows that carry a
  `circleTransactionId`. No code path makes such a row: `sendPayment` writes CONFIRMED
  before the id (PendingUntracked, proved), and all other writers insert CONFIRMED rows
  with their ids. A model of it would have one action, the poll that finds nothing.
- **`migrateLedgerToOnchain.ts`** is a one-time fix by its own words. It reads the excess of
  the ledger and debits it without a lock, so payments in between make it too large; a
  failed read of the chain is logged and counted as a balance of zero (lines 64-69), so
  that the excess it then shows is the whole ledger.
- **Buckets**: `archiveBucket` checks and then updates, `recordEntry` ignores the flag, so an
  entry may land in an archived bucket. Nothing else about buckets is concurrent.
- **Within modelled parts**: payees and the edit of an item's amount, the edit of a recurring
  transfer's amount and dates, scheduled allocation rules, percentages and rounding, net
  asset value, the Gateway's fee and the dust threshold, pausing a link, links without an
  invoice at the card checkout, time gates of agreements. None of these is told apart by a
  property. Chain registration inside the deposit route succeeds or fails.

Amounts have no overflow in the code (bigint), so none in the models.

Hazards the list in `PROJECT.json` had no room for, all kept in a module: a process that
dies with an idempotency key PENDING blocks its retries until it expires; the audit
compares two reads that no transaction holds together; maxUses against open checkouts; a
claim of a deposit session that nothing releases after a crash; the FAILED that
`startWalletCheckout` writes over whatever its session has become; the overdue
reminder that is mailed before it is counted (invoiceOverdue.worker.ts:72, RemindedOnce).

## 6. Plan

1. The paid part of UnifiedTransfer as a keyed payment of its own, step by step as
   SendPayment does it, and the payment inside IdempotentRequest likewise, so that the
   three protocols copied from each other are held to one specification.
2. Composition: AbstractLedger with AbstractPayments and the link and invoice credits, for
   "the sum of the buckets equals what the treasury holds", with the exact list of steps
   that separate the two for a while and the crashes that separate them for good.
3. The migration tool, if it is kept, against payments and deposits.
