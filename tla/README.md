# gnubok: a TLA+ verification project

This directory models the parts of the repository whose correctness depends on
the order in which independent requests, background jobs and operators act on
one Postgres database. Server code runs in stateless processes without
in-memory locks; a use case is a sequence of statements, each a transaction of
its own, and what protects the data is what the database accepts: conditional
updates (compare-and-set), triggers, unique indexes and `SECURITY DEFINER`
functions. Every module here therefore has the same shape: the tables are
variables, a request is a record with a program counter, one action is one
statement, its guard is what the database checks, and its branches are the
ways it can end (applied, refused, applied with the reply lost).

Contents: 1 inventory, 2 modules, 3 runs, 4 fairness and time, 5 findings,
6 proofs, 7 what is only model-checked, 8 what is not modelled, 9 plan.

## 1. Inventory of the system

Paths are below the repository's root. Each entry gives the state kept, the
operations, what is hard, and what makes the component correct.

### Bookkeeping core

* **Bookkeeping engine** (`lib/bookkeeping/engine.ts`). State: `journal_entries`
  (status `draft`, `posted`, `reversed`, `cancelled`; voucher number; links
  `reverses_id`, `reversed_by_id`, `correction_of_id`), `journal_entry_lines`.
  Operations: `createDraftEntry`, `updateDraftEntry`, `commitEntry`,
  `createJournalEntry`, `reverseEntry`, `replaceOpeningBalanceEntry`,
  `commitAssetDisposal`. Hard: a reversal is seven statements; another request,
  a period lock, an error or a crash can come between any two, and the clean-up
  ignores its own errors. Correct when a voucher is reversed at most once, every
  reversal has its storno, and what is booked never changes.
* **Storno service** (`lib/core/bookkeeping/storno-service.ts`). `correctEntry`
  posts a storno and a corrected voucher and only then marks the original;
  `recordateEntry` does so across two periods; `cancelEntry` is the
  compensation. Correct when no amount is counted twice.
* **Voucher numbering and posting integrity** (SQL). State:
  `voucher_sequences.last_number`, the unique index on numbers. Operations:
  `next_voucher_number` (a transaction of its own: a later failure burns the
  number), `commit_journal_entry` (number and posting in one transaction), the
  triggers for immutability, balance and period lock. Correct when numbers are
  unique and no gap goes unexplained.
* **Deletion** (`delete_last_voucher`, SQL). Removes a draft or the last voucher
  of a series, hands the number out again and restores the original of a storno.
  Correct when nothing points at what is gone and the series goes on.
* **Period service** (`lib/core/bookkeeping/period-service.ts`). State: the flags
  `locked_at`, `is_closed`, `closed_externally` and `closing_entry_id` of
  `fiscal_periods`. Operations: lock, unlock, close, close externally, reopen,
  next period; each reads the flags, decides, and writes in a later statement.
  Correct when a closed year stays closed, and was closed for a cause.
* **Year-end closing** (`lib/core/bookkeeping/year-end-service.ts`): posts the
  closing voucher, checks and perhaps reverses it, links, locks and closes, in
  separate statements beside all the others.
* **Opening balances, kontantmetod cut-off** (`lib/core/bookkeeping`,
  `lib/bokslut`): chains of vouchers over two periods.
* **Invoice payments** (`lib/invoices/settle-invoice-payment.ts` and its
  neighbours, `link_invoice_to_voucher`). State: `invoices.status` and
  `paid_amount`, the sub-ledger `invoice_payments`, and the payment's voucher.
  A settlement posts the voucher, inserts the row, then sets the invoice by a
  compare-and-set on its status; a loser takes row and voucher back. A reversal
  of the voucher takes back what it paid in four statements. Correct when an
  invoice, its rows and their vouchers say the same once nobody is at work.
* **Bank transaction anchors** (the tail of `reverseEntry`,
  `release_reversed_entry_transactions`, `lib/reconciliation`): further
  statements after the reversal is decided.
* **Draft editing** (`updateDraftEntry`): header, delete of lines, insert of
  lines in three statements.
* **Booking of bank transactions** (`lib/transactions/categorize-core.ts`, the
  categorize route). State: `transactions.journal_entry_id`. Reads the row, runs
  the duplicate guard, posts a voucher, links it by a compare-and-set on the
  pointer and reverses it when that fails. Correct when a transaction counts once.
* **Producers of vouchers**: invoices and their payments, supplier invoices,
  payroll, accruals, assets, SIE import, currency revaluation, sales orders.

### Asynchronous work

* **Pending operations** (`lib/pending-operations`). State: `pending_operations`
  (`pending`, `committing`, `committed`, `rejected`, `failed_partial`). Work is
  staged by an agent and executed when a user approves it: a compare-and-set
  claims the row, the executor runs with side effects, a last statement records
  the outcome, and a sweep resolves what a dead process left behind. Hard: the
  side effects are posted before the outcome is. Correct when an operation is
  executed by one process at a time, posts once, and ends under a status that
  says what it did.
* **Webhook dispatcher** (`lib/webhooks/dispatcher.ts` and its SQL functions).
  State: `webhooks`, `webhook_deliveries`. A cycle sweeps stranded rows, claims
  due ones, posts them within a budget, records outcomes and releases the rest.
  An attempt first resolves and vets the receiver's name (`pinned-fetch.ts`,
  `url-guard.ts`), without a time limit, and then posts under one. Hard: nothing
  but elapsed time separates a live claim from a dead one. Correct when a live
  claim is never taken over, attempts are capped, and every delivery ends, for a
  cause.
* **Webhook management**: fan-out (`handler.ts`), test, retry, PATCH, DELETE.
* **Event bus, bank sync, cron jobs, MCP OAuth, idempotency keys**.

### Everything else

Documents, reports, PDF, XML and file formats, e-mail, AI agents, the user
interface and third-party connectors compute or render from the state above, or
talk to external services. `PROJECT.json` lists every component with its
sources and status.

### How they interact

The engine, the storno service, the deletion and the period lock share
`journal_entries`, `voucher_sequences` and `fiscal_periods`; they never call each
other and meet only in the database: `Journal` and `JournalDeletion` compose
them. Executors of pending operations and the categorize route call the engine
and share `transactions` and `invoices`: `PendingOperations` composes approval,
executors, bookings by hand, editing, rejection and the sweep, with
`createJournalEntry` and `reverseEntry` as single statements, because their
insides are `Journal`'s subject. Settlements, links and reversals meet in
`invoices`, `invoice_payments` and `journal_entries`, and meet the operations on
the period in `fiscal_periods`, which decides what may still be posted, reversed
or cancelled: `InvoicePayments` has the former, `PeriodControl` extends it by the
latter, and only the composition is checked. The dispatcher meets fan-out, the
retry and test routes and the management routes in `webhook_deliveries` and
`webhooks`: `WebhookDelivery` composes them.

## 2. The modules

| module | models |
| --- | --- |
| `Journal` | engine, storno service, numbering, triggers, period lock |
| `JournalDeletion` | extends `Journal` by `delete_last_voucher` |
| `JournalProofs` | theorems: types, lines, finality of booked history |
| `JournalReversalProofs` | theorems: a reversal stands; stornos and corrections are accounted for |
| `JournalNumberProofs` | theorems: voucher numbers are fresh and the series has no gap |
| `JournalDeletionProofs` | theorems on `JournalDeletion`: links resolve, a reversal stands |
| `Ledger` | abstract specification: what the books promise of their vouchers |
| `JournalLedger` | extends `Journal` by the refinement mapping to `Ledger` |
| `JournalLedgerProofs` | theorems: `Journal` implements `Ledger`; a locked period is frozen |
| `PendingOperations` | staged operations, two executors, sweep, bookings by hand |
| `PendingOperationsProofs` | theorems: types, claims, at most one voucher, a transaction booked once, clean rejections |
| `InvoicePayments` | settlement, linking and reversal of customer payments |
| `PeriodControl` | extends `InvoicePayments` by the life of the period and the year-end run |
| `PeriodControlProofs` | theorems: types, closing, no forgotten voucher, sub-ledgers agree |
| `WebhookDelivery` | dispatch cycles, deliveries, webhooks, time |
| `WebhookDeliveryProofs` | theorems: types, live claims, attempts, causes of death, back-off |
| `MCJournal`, `MCDeletion`, `MCOperations`, `MCBooks`, `MCWebhooks` | instances for TLC: symmetry sets and the back-off tables |

Operators whose comment begins "Faulty form" are variants of the operator that
follows. No specification uses them; they are the plausible bugs against which
each property is tested (`mutants` in `PROJECT.json`): with the variant in
place of the operator TLC finds the property violated.

### Journal

| variable | in the code |
| --- | --- |
| `entry` | rows of `journal_entries`: status, number, period, source, links, and whether it has lines |
| `nextId` | the next identifier (ids are UUIDs in the code; only their freshness matters) |
| `lastNumber` | `voucher_sequences.last_number`, by period |
| `locked` | `fiscal_periods.locked_at IS NOT NULL` |
| `job` | the local variables and position of each running request |
| `started` | how many requests were made (bound) |

One voucher series per period is modelled. Amounts are abstracted to "has
lines": a draft with its lines balances, one without does not, which is what the
balance trigger distinguishes at posting.

`StartCreate`, `StartReverse`, `StartCorrect` read the original and begin;
`AllocateNumber` is `next_voucher_number`; `InsertHeader`, `InsertLines`, `Post`
are the statements that reversal and correction share (roles `storno` and
`correction`); `MarkReversed` is the compare-and-set on the original;
`UndoHeader` and `UndoLines` are the two statements of a compensation, which go
on whatever they return; `Commit`, `CancelDraft`, `CancelIfDraft` are those of
`createJournalEntry`. `CommitDraft` is the commit route, `CancelOrphan` is
`cancelOrphanedPaymentEntry`, `LockPeriod` and `UnlockPeriod` the operator.
`Crash` ends a request between two statements. What triggers and indexes refuse
is in the guards: `StatusSteps`, `StatusAccepted`, `PostAccepted`,
`CommitAccepted`, `InsertAccepted`, `LinesAccepted`, `LinesRemovable`,
`ReversalAccepted`, `NumberFree`.

### JournalDeletion

One more action, `DeleteVoucher`, for both branches of `delete_last_voucher`: a
draft that nothing refers to, and the last voucher of the series in an open
period. The function is one transaction that locks the period and the sequence
row, so it is one action.

### Ledger and JournalLedger

`Ledger` knows no requests, drafts or clean-ups: a voucher is `open`, then
`booked` at a free number of its series, then `reversed` by a voucher that is in
the ledger too, or `withdrawn`, which a voucher that reversed another cannot be;
a frozen series does not change. `JournalLedger` instantiates it with the status,
number, period and `reversed_by_id` of the headers and with the locks of the
periods; `KeepsTheBooks` is the abstract specification under that mapping. A
draft is still `open`, so inserting, writing lines and consuming numbers are
stutters; posting by a request, by `commit_journal_entry` or by the commit route
is `Book`, the compare-and-set on the original is `Reverse`, every cancellation
`Withdraw`.

### PendingOperations

| variable | in the code |
| --- | --- |
| `op` | `pending_operations`: status, age beyond the sweep's threshold, the sweep's mark |
| `voucher` | journal entries that book the transaction, with who posted them |
| `tx` | the bank transaction, its `journal_entry_id` and `invoice_id`, its invoice and payment row |
| `storno` | history: operations whose executor has reversed an earlier booking |
| `edit`, `job`, `sweep` | an edit between its read and its write; running requests; running sweeps |
| `runs` | how many requests were made (bound) |

`Approve` and `Claim` are the dispatcher's start; `ReadTransaction`, `Guard`,
`Book`, `Link`, `Undo` the categorize executor and the categorize route;
`ReverseOld`, `Unlink`, `Pay`, `Settle`, `RecordPayment`, `Point` the match
executor; `Conclude` the dispatcher's end. `ListStuck`, `Probe`, `Resolve` are
the sweep, whose two runs may overlap. The parameters of an operation are data
and left out; an edit matters because it touches the row's age.

### InvoicePayments

| variable | in the code |
| --- | --- |
| `period` | the row of `fiscal_periods`: locked, closed, closed externally, closing voucher |
| `invoice` | `invoices`: status and `paid_amount` |
| `voucher` | `journal_entries`: status, source, the invoice it is for, its amount |
| `rows` | `invoice_payments` |
| `job` | the local variables and position of each running request |
| `stray` | rows and vouchers that the error log names for manual clean-up |
| `crossed` | history: invoices on which two requests have got in each other's way |
| `requests` | how many requests were made (bound) |

`Settle`, `Post`, `Record`, `Flip` are the plan and the statements of
`settleInvoicePayment`, `Remove` and `Cancel` its way back
(`removeInvoicePaymentRow`, `cancelOrphanedPaymentEntry`). `Link` is
`link_invoice_to_voucher`, one transaction that holds the invoice. `Reverse` is
`reverseEntry` up to its compare-and-set, and `Lookup`, `Reread`, `Revert`,
`Purge` are the statements of `syncInvoiceStatusFromPaymentEntry` behind it.

Two variables make the exceptions of the properties explicit. `stray` has what
the code itself reports as left behind: a row that could not be deleted, a
voucher that could not be cancelled. `crossed` is written by no code: an invoice
enters it when a request overwrites a `paid_amount` that has changed since it was
read, links or reverses a voucher a settlement still has in hand, or reverses a
voucher whose rows are not the ones the reversal will look for. Section 5 lists
them: `SubLedgerAgrees` says these are the only ways to a wrong sub-ledger.

### PeriodControl

One more variable, `clerk`: the position of each request on the period, with the
closing voucher of a year-end run. The `Start...` actions are the reads and
decisions, the `Write...` actions the updates, of `lockPeriod`, `unlockPeriod`,
`closePeriod`, `markPeriodClosedExternally` and `reopenExternallyClosedPeriod`;
the last two have a guard in the update, the others do not. `StartYearEnd`,
`PostClosing`, `Check`, `LinkClosing`, `GoOnToLock`, `GoOnToClose` are
`executeYearEndClosing`, which goes through `WriteLock` and `WriteClose` like a
request of its own; `ClosingAccepted` is the trigger that protects
`closing_entry_id`.

### WebhookDelivery

| variable | in the code |
| --- | --- |
| `hook` | `webhooks`: active, disabled or deleted |
| `delivery` | `webhook_deliveries`: status, attempts, webhook, time to `next_attempt_at`, time since `updated_at` |
| `emit` | webhooks a fan-out, test or retry has read and will insert rows for |
| `cycle` | the local variables of each dispatch cycle, with its clocks |
| `post` | history: the POSTs issued for each delivery, and what its last attempt found it dead for |

`Sweep` is `recover_stuck_webhook_deliveries`, `Claim` is
`claim_due_webhook_deliveries`, `LoadWebhooks`, `Pick`, `GiveUp`, `Drop`,
`Touch`, `Resolve`, `Answer`, `Record`, `Release` the body of
`dispatchDueDeliveries`; `Resolve` and `Answer` are the two waits of
`pinnedHttpsFetch`, for the name and for the receiver, and `Snapshot`, `Disable`,
`Audit` the three statements of `disableWebhook`. `Tick` lets one unit of time
pass for all timers; `Limit` says how long a cycle may stay at each step.

## 3. The runs

Passing runs (deadlock is not checked in any of them: when every allowed request
has been made and all have ended, the system rests, as the real one does):

| run | instance | shows |
| --- | --- | --- |
| `journal_race` | 2 processes, 3 requests, 2 periods, no faults | `StornoAccounted`, `CorrectionAccounted`, `HeldNumberFresh`, `NoGap`, `ReversalStands`, `BookedIsFinal`, `KeepsTheBooks`: whatever the interleaving, the loser of a race leaves no storno, correction or number behind, and the books show only promised steps |
| `journal_faults` | 2 processes, 2 requests of all kinds, errors, lost replies, lock and unlock, correction drafts posted by hand | `TypeOK`, `HeldNumberFresh`, `PostedKeepsLines`, `LedgerFrozen`, `BookedIsFinal`: no fault damages what is booked, and a locked period is frozen |
| `deletion_links` | 2 processes, 2 requests, 2 periods, crashes, deletion at any time | `ReversalStands`, `LinksResolve` |
| `books` | 2 workers, 2 clerks, 4 requests in all, 1 invoice of amount 2, 1 imported voucher, every statement of a settlement may fail | `TypeOK`, `SubLedgerAgrees`, `VouchersAccounted`, `ClosedForCause`, `ClosedIsFinal`: payments and the closing of their period, in any order |
| `webhook_batch` | 2 cycles, 1 webhook, 2 deliveries, batches of 2, 2 attempts, all faults; names take time to resolve, statements do not | `TypeOK`, `ClaimsHold`, `FailedWasCharged`, `AttemptsCapped`, `BackoffNearlyKept` |
| `webhook_settles` | 2 dispatchers killed again and again, 1 delivery, 2 attempts, slow statements and names, fairness | `ClaimsHold`, `DeadForCause`, `DeliveriesSettle` |
| `operations_faults` | 1 categorize, 1 match operation, bookings by hand, 3 requests, all faults | `TypeOK`, `ClaimHeld`, `PostedOnce` |
| `operations_booked` | 2 categorize operations, bookings by hand, no faults | `BookedOnce` |
| `operations_settle` | 2 match operations for one invoice, crashes, fairness | `ClaimHeld`, `PostedOnce`, `RejectedIsClean`, `OperationsSettle` |

### The properties in words

* `StornoAccounted`, `CorrectionAccounted`: a posted storno is the one its
  original was reversed by, and a posted correction replaces a reversed original,
  except while the request that posted it still has it in hand.
* `HeldNumberFresh`: a number handed out and not yet written is on no header and
  in no other request's hand. `NoGap`: every number issued is on a header or in
  hand.
* `ReversalStands`: what an original was reversed by is its own storno, which was
  posted and never cancelled. `BookedIsFinal`: what is posted can only become
  reversed or cancelled, what is reversed never changes. `PostedKeepsLines`,
  `LedgerFrozen`: no compensation removes the lines of a booked voucher, and
  nothing changes the ledger of a period while it is locked.
* `KeepsTheBooks`: `Journal` implements `Ledger` (section 2).
* `SubLedgerAgrees`: on an invoice nobody works on, `paid_amount` is the sum of
  its payment rows, the status goes with it, and every row's voucher is posted;
  rows in `stray` do not count, and invoices in `crossed` are excepted. The sum
  is `AmountOf`, the number of units (row, 1), (row, 2), ... of the rows: a
  cardinality, which the proofs can reason about where they could not unfold a
  fold.
  `VouchersAccounted`: a posted payment voucher has its row, is in the hands of a
  settlement, or was reported.
* `ClosedForCause`: a closed period was closed elsewhere, or is linked to a voucher
  that a year-end run posted and no clean-up has cancelled. That voucher may have
  been reversed before the close: `closePeriod` looks at the link only (section
  5). `ClosedIsFinal`: what a year-end run has closed is neither reopened
  nor relabelled, and keeps a closing voucher.
* `LinksResolve`: no stored link points at a deleted voucher.
* `ClaimsHold`: rows a live cycle has claimed stay its own. `AttemptsCapped`,
  `FailedWasCharged`: every POST is charged before the row can be claimed again,
  and a status tells whether something was charged. `BackoffNearlyKept`: a retry
  comes early by no more than the cycle before it had run when it posted, the
  sweep, the budget, a touch and the resolution of the name included (`Loss`).
  `DeadForCause`, `DeliveriesSettle`: every delivery ends, and is given up only when
  attempts are used up, the last attempt found it dead (the receiver refused it,
  or its name was unsafe or could not be looked up), or the webhook is gone.
* `ClaimHeld`: while a process executes an operation the row is `committing` and
  no other process executes it. `PostedOnce`: an operation has at most one
  standing voucher. `BookedOnce`: every standing voucher of the transaction is the
  one it points at, or in the hand of a request about to link or undo it.
  `RejectedIsClean`: an operation that ends `rejected` through its executor or a
  user has no standing voucher. `OperationsSettle`: none stays `committing`.

### The bounds and why they are enough

* *Processes.* Every hazard of the ledger is a race of two requests for one row;
  a third actor (operator, commit route, deletion) acts in single statements and
  is not counted as a process. `journal_race` allows a third request after one of
  the first two has ended, which is what it takes to correct a voucher that a
  compensation is about to cancel.
* *Requests* (`MaxJobs`, `MaxRuns`) bound the length of a behaviour. Two requests
  that overlap show the race, the third meets what they left.
* *Crashes in the journal.* With as many requests as processes a crash adds
  nothing to a safety property: a request that takes no further step is a
  behaviour already, so `journal_faults` leaves `crash` out. `deletion_links` and
  the other modules have it.
* *Periods.* Two, because re-dating involves two; one where only locks matter.
* *Seeds.* One posted voucher exists at the start, as the target of the first
  requests; further ones are made by the requests.
* *Amounts* (`books`). `Total` 2 is the smallest that can be paid in two parts,
  so that partial payments, overpayment and rows of equal and of different size
  occur. One voucher imported before lets linking and external closing happen.
  One invoice: the requests on it are what races. A voucher meets two invoices
  only when it is linked to one and pays the other; the model marks both, and
  the theorems on vouchers and on the sub-ledger cover any number of invoices.
* *Time* (`WebhookDelivery`). `Timeout` 1, `Budget` 2 or 4, `Slack` 0 or 6,
  `Latency` 0 or 1 and `Lookup` 1 keep the order of the real constants (10 s,
  120 s, 30 s) with statements and name resolutions that take time: the window
  exceeds the budget plus a timeout, and the back-off tables are either shorter or
  longer than a cycle, like the real first (60 s) and later steps. Timers saturate
  where nothing compares them any more. `WindowFits` is the inequality the claims
  need; section 4 says what it means. `webhook_batch` (`0 + 1 <= 2`) satisfies it;
  there a row waits behind another one's attempt. `webhook_settles` (`7 + 1 <= 8`)
  satisfies it with nothing to spare; with its one delivery it shows the slow
  statements under the sweep, and not the limit itself. That is what the theorem
  is for, and section 5 has the instance just beyond it.
* *Attempts.* `MaxAttempts` 2 instead of 8: an attempt with a back-off behind it,
  and the last.
* *Symmetry* of processes, cycles and sweeps is used only in runs without
  liveness properties.

## 4. Fairness and time

* `PendingOperations!FairSpec`: a process that is alive goes on (`WF` of
  `Advance`; it may crash at any point instead), a row whose process is gone
  grows old (`WF` of `Age`), and the cron runs the sweep (`WF` of `Sweep`). The
  sweep runs in the expiry cron, daily in `vercel.json`; the threshold
  (`STUCK_COMMITTING_THRESHOLD_MINUTES`, 15 minutes) is well above what the
  platform lets an invocation run. `Age` is therefore enabled only for rows no
  process executes: this is the one assumption about time in that module.
* `WebhookDelivery!FairSpec`: time passes (`SF` of `Tick`), the cron starts
  cycles and cycles go on (`WF`), and processes are not killed at the same
  statement for ever: some cycle gets through its sweep and some cycle through its
  claim, again and again (`SF` of each). `SF` is needed because a
  crash disables the statement; a platform that killed every cycle inside its
  first statement would deliver nothing, and no code could help. The `WF` of a
  dispatcher is for `Start` and `Advance` together, one step or the other. In
  `webhook_settles` every statement and every name resolution takes at most one
  unit, and cycles are killed but statements do not fail.
* *The window.* The sweep tells a dead cycle from a live one by the age of its
  rows, so what a live cycle may wait for matters. `Limit` lists it: a statement
  takes at most `Latency`, a request at most `Timeout` (the absolute timer of
  `pinned-fetch.ts:258`), and the resolution of a name at most `Lookup`. The last is
  an assumption about the deployment and not about the code: `pinnedHttpsFetch`
  awaits `dns.resolve4` and `dns.resolve6` (`url-guard.ts:93`) before it arms any
  timer. After its last look at the budget a cycle can still touch a row, resolve
  a name, post, record, disable the webhook in three statements, and release the
  rest in two: seven statements and a name. `WindowFits` says that they fit into
  what the window leaves beyond the budget check,
  `7 * Latency + Lookup <= Timeout + Slack + 1`; with the code's constants, seven
  statements and one name resolution have to take no longer than 40 s. A resolver
  that retries over several servers can exceed that by itself, `maxDuration`
  (300 s) ends a cycle only long after the window of 160 s, and section 5 says what
  happens then. A process that is frozen and resumes later is
  a cycle outside the inequality as well.
* `Journal` and `PeriodControl` have no liveness property: a request is a straight
  line of statements, and nothing resumes one that died.

## 5. Findings

Three runs end in a counterexample. Each checks one property taken from a text
of the repository that the code does not keep.

* `deletion_stuck` (`SeriesGoesOn`): `delete_last_voucher` computes the last
  number without cancelled headers and decrements `last_number` below one of
  them; the unique index counts cancelled headers, so the next number is taken
  and every later posting of the series fails.
* `webhook_delete` (`HooksDeletable`): a webhook with a `delivered` or `dead`
  delivery cannot be deleted, because `ON DELETE SET NULL` is an update of a row
  that `enforce_webhook_delivery_immutability` protects.
* `operations_storno` (`RejectedReversedNothing`): a match that reversed the
  earlier booking and then finds an account missing is handed back to `pending`
  without a record of the storno, and can be rejected.

Divergences met while modelling that no run lists. Each can be seen by checking
the named property in an instance with the named ingredient.

* `StornoAccounted` with a lockable period: a lock between the posting of a
  storno and the compare-and-set refuses both the compare-and-set and the
  clean-up, and the storno stays posted beside a posted original.
* `ReversalStands` with `lostReply`: the compare-and-set is applied, its reply is
  lost, and the request cancels the storno of an original that is now reversed
  (`engine.ts:1231` reads `casError` as "another concurrent reversal").
* `CorrectionAccounted` under `DeletionSpec`: deleting the storno of a re-dated
  voucher restores the original while the corrected one stays.
* A storno can be corrected, and is then reversed itself: `reverseEntry` refuses
  that (`engine.ts:1077`), `correctEntry` does not.
* `ClaimsHold` without `WindowFits`, for example in the instance of `webhook_batch`
  with `Lookup` 3 and no faults (with 2 it holds): a name that takes too long to
  resolve keeps a cycle alive beyond the window, and the next cycle's sweep
  charges and re-arms the rows that wait behind it. `dispatcher.ts:161-163` says
  the window is wider than any live cycle can be; `pinned-fetch.ts:92` awaits the
  resolution before the timer of line 258, and nothing bounds it.
* `DeadForCause` with `error`: `loadWebhooksByIds` returns an empty map on a
  database error (`dispatcher.ts:400`), and the dispatcher marks the whole batch
  `dead` as `webhook_deleted`, at its first attempt.
* A resolver that fails or times out is reported like an unsafe name
  (`url-guard.ts:116`), so the delivery is `dead` at once and the webhook disabled
  (`Resolve`); the dispatcher's header (lines 12-16) has network
  errors retried and only HTTP 410 and used-up attempts final.
* The first retry can follow at once after an attempt made late in a cycle:
  `next_attempt_at` is computed from the cycle's start (`dispatcher.ts:434`).
* `BookedOnce` with a match operation: a booking by hand between the duplicate
  guard and the unconditional last write of a match is overwritten and stays
  posted.
* The sweep takes any booking of the transaction as evidence that the operation
  itself has posted (`recover-stuck-committing.ts:130`).
* Two partial payments of one invoice that overlap both post a voucher and a row,
  and the later compare-and-set overwrites the `paid_amount` of the earlier
  (`settle-invoice-payment.ts:316`; its header, lines 30-32, says that general
  ledger and sub-ledger never diverge). `SubLedgerAgrees` without `crossed`.
* The match route answers a lost compare-and-set and leaves its voucher posted
  (`app/api/transactions/[id]/match-invoice/route.ts:684`); the mutant of
  `VouchersAccounted` is a settlement that ends like it.
* The reversal of a payment voucher that has no row for its invoice takes the
  whole `paid_amount` back (`payment-sync.ts:167`), also when the row
  is still to be written.
* The tail of a reversal runs for payment vouchers only (`engine.ts:1454`): when
  an imported voucher that was linked to an invoice is reversed, row, amount and
  status stay.
* A voucher reversed, or a period locked, while its settlement has it in hand
  cannot be cancelled; the settlement reports it (`stray`).
* Two year-end runs that overlap both post a closing voucher, and the trigger
  lets one of them link its own; the other stays posted. An unlock decided before
  a closing takes the lock off the closed period; the triggers refuse writes to a
  closed period all the same, which is why no property claims the lock.
* `closePeriod` asks only whether `closing_entry_id` is set
  (`period-service.ts:380`): when the linked closing voucher was reversed before
  the period was locked, the period closes without an effective closing.
* An edit whose read precedes the approval writes its parameters into a row that
  is already executing the old ones (`app/api/pending-operations/[id]/route.ts`).

## 6. What is proved

The proofs hold for every number of processes and requests, every set of periods,
operations or invoices and every choice of faults, from the assumption on the
constants of the module alone (`JournalAssumption` unless another is named),
unless stated. Those
about `WebhookDelivery`, except for its types, have the premise `WindowFits` besides
(section 4). The run named in section 3 checks the same formula on its instance first.

* `TypeCorrect`: `Spec => []TypeOK` (`JournalProofs`). `TypeOK` is not inductive:
  that `SetStatus`, `LinkReversal` and the undo list act on existing headers
  depends on what a request holds at each step. `Hands` says it (which of `own`,
  `storno`, `original` are identifiers at which program counter), and
  `IType == TypeOK /\ Hands` is inductive.
* `LinesStay`: `Spec => []PostedKeepsLines`. A header can be posted by its own
  request or by the commit route; in both cases the balance trigger has seen the
  lines, and lines are removed only from drafts and cancelled headers, none of
  which can be posted again without lines.
* `HistoryFinal`: `Spec => BookedIsFinal`, an action property. Besides the guards
  of the triggers it needs `IdsFresh`: no request inserts over an existing
  header.
* `NumbersFresh`: `Spec => []HeldNumberFresh` (`JournalNumberProofs`). The
  inductive invariant `Numbers` says that all numbers on headers of a period are
  at most `lastNumber`, and that a held number is in range, on no header, and
  held once. Posting a draft takes `lastNumber + 1`, which is above all of these.
* `ReversalsStand`: `Spec => []ReversalStands` under the assumption that no reply
  of an applied statement is lost (`"lostReply" \notin Faults`;
  `JournalReversalProofs`). The inductive invariant `Reversals` ties each step of
  a request to the header it holds: between `Post` and `MarkReversed` its storno
  is posted and refers to the original, and an undo list contains only headers
  that no original was reversed by, which is why a compensation never cancels a
  storno that stands. With lost replies this is false (section 5).
* `StornosAccounted`, `CorrectionsAccounted`: `Spec => []StornoAccounted` and
  `Spec => []CorrectionAccounted` if no statement fails for a passing reason, nothing
  crashes and no period is locked under way (`Faults \subseteq {"lostReply"}`,
  `Lockable = {}`). The property lets a request excuse a posted voucher by holding it;
  the inductive invariant `Accounted` says what for: it is about to mark the original,
  to post the correction that follows, or to cancel the voucher, and no further step
  of the request forgets it (`Minded`). The difficult step is a lost compare-and-set,
  by which every voucher of the request passes to its undo list while the winner's
  storno stays. Replies may be lost: the reply of an insert leaves a header that
  nobody knows, but a draft without lines, which the balance trigger lets nobody
  post, so that `Accounted` speaks of `Live` headers only; and a reversal whose reply
  is lost is undone, with an original that stays reversed by a cancelled storno
  (section 5), which is no posted one. Each assumption that is left is needed: an undo
  ignores a passing error, a crash leaves the storno with nobody, and a lock refuses
  compare-and-set and undo alike (section 5).
* `SeriesGapless`: `Spec => []NoGap` if besides no reply is lost and no
  draft of a reversal or a correction is posted by hand (`Faults = {}`,
  `Lockable = {}`, `Committable \subseteq {"regular"}`). `Gapless` adds
  that a draft of `createDraftEntry` has no number yet, so that posting it
  overwrites none, and that the original a request inserts for is there. Each
  assumption is needed: a request that fails, misses a reply, crashes or is locked
  out between `next_voucher_number` and the insert loses its number, and a numbered
  draft posted by hand gets a second one and loses the first.
* `LinksAlwaysResolve`: `DeletionSpec => []LinksResolve` (`JournalDeletionProofs`),
  for every fault and lock. `Links` adds that what is pointed at is no draft,
  because the draft branch of `delete_last_voucher` looks at no links, that a
  reversed original and its storno point at each other, which is why restoring
  the original leaves no link behind, and that what a request remembers by its id
  is still what it was, or gone.
* `ReversalsOutliveDeletion`: `DeletionSpec => []ReversalStands` if no reply of an
  applied statement is lost. A deletion keeps `Reversals` under `Links`: it takes
  a storno away only together with the reversal of its original.

* `LockedStaysFrozen`: `Spec => LedgerFrozen` (`JournalLedgerProofs`). A step
  has one of seven effects on headers and locks (`StepEffects`), each of which the
  triggers refuse for a voucher of a locked period.
* `JournalKeepsTheBooks`: `Spec => KeepsTheBooks` unless replies are lost. The
  initial states map to initial states, and each of the seven effects maps to a
  step of `Ledger` or to a stutter, under the invariants of the proofs above:
  that `Book` finds its number free is `Numbers`, that `Withdraw` takes no
  voucher a reversal rests on is `Reversals`.
* `OperationsTyped`: `Spec => []TypeOK` (`PendingOperationsProofs`, from
  `OperationsAssumption`). The vouchers are finitely many, so that a type can
  only be kept if one is left for every request about to post: `Room` counts
  vouchers in use and requests before their posting against the requests made.
* `ClaimsHeld`: `Spec => []ClaimHeld`. `Claimed` adds that a row being executed
  is not old, and that a row a sweep has listed is neither pending nor executed;
  hence no sweep resolves a row under its executor, however long ago it listed it.
* `PostedAtMostOnce`: `Spec => []PostedOnce`. `Once` adds that an operation that
  is pending, or whose executor has yet to post, has no standing voucher: what
  posts twice would have to be pending in between, and a row goes back to
  pending only before it has posted or after its voucher was reversed.
* `TransactionBookedOnce`: `Spec => []BookedOnce` without matches and faults
  (`Matching = {}`, `Faults = {}`). `DirectInv` adds that whoever goes on to post or to
  link has seen a pointer that was empty or whose voucher was reversed, so that a
  compare-and-set that succeeds replaces no posted booking. A match overwrites a
  booking by hand (section 5); an error in the undo, a lost reply of the posting
  and a crash before the link each leave a posted voucher that nobody holds.
* `RejectionsClean`: `Spec => []RejectedIsClean` if no reply of an applied statement
  is lost, and passing errors occur only where all operations are matches; crashes
  are allowed. `Clean` says of each position from which an executor can get to a
  rejection that its operation has no standing voucher, or only the one it is about
  to undo, and that only a booking gets to an undo. When the undo fails, or the
  reply of the posting is lost, the executor answers as if nothing stood, and the
  operation is rejected beside its voucher; a match that has posted ends
  `failed_partial` instead.
* `BooksTyped`: `ControlSpec => []TypeOK` (`PeriodControlProofs`, from
  `PaymentsAssumption`). It says among others that `paid_amount` stays between 0
  and the total under any race, because what is written was read with room left.
  `Room` counts vouchers for settlements and closings as above.
* `ClosesWithCause`, `ClosedStaysFinal`: `ControlSpec => []ClosedForCause` and
  `ControlSpec => ClosedIsFinal`. A request about to close has seen a link
  (`ClosesForCause`), and the link is never taken away, so the unguarded update
  cannot close without one. `Backed` says that what a year-end run has in hand and
  what the period is linked to is a voucher such a run has posted. That it stays
  one (`ClosingStands`) needs the sub-ledger's invariant `Booked`: the only
  cancellation is that of a settlement, and the voucher a settlement holds is a
  payment's.
* `NoVoucherForgotten`: `ControlSpec => []VouchersAccounted`. `Accounted` adds
  that a settlement is alone with its voucher, that the row of a settlement about
  to set the invoice is there if its voucher is posted, and that a reversal
  deletes rows only of a voucher that is no longer posted.
* `SubLedgersAgree`: `ControlSpec => []SubLedgerAgrees`, with no further assumption.
  The property is about invoices at rest, so the invariant `Booked` has to say what
  holds while somebody is at work: `Agrees` leaves out of the sum the row that a
  settlement has inserted and not yet paid, or a reversal has taken off
  `paid_amount` and not yet deleted, and allows a row without a posted voucher to
  a reversal about to take it off. `Worked` says what a request can rely on until it
  is crossed: a settlement that its voucher is posted and its row is as it wrote
  it, a reversal that it alone reverses its voucher and will find the row.
  `RowsKnown`, `Closings` and `StatusKept` are the facts about rows, closing vouchers
  and the status that this rests on. Every step that could break it for an invoice
  enters the invoice in `crossed` or the row in `stray`: these are all the ways to a
  wrong sub-ledger in the model, for every number of requests.
* `DeliveriesTyped`: `Spec => []TypeOK` (`WebhookDeliveryProofs`, from
  `WebhookAssumption`). `Typed` says of each row of a cycle that it is one that was
  claimed, and keeps `attempts` inside the back-off table.
* `LiveClaimsHold`: `Spec => []ClaimsHold` if `WindowFits`. `Held` bounds, for each
  position of a cycle, how far the cycle may be from the end of its sweep: the
  last pick comes before `Budget - Timeout`, and after it there are at most a
  touch, a name, an answer, a record, three statements that disable the webhook
  and the releases. `WithinWindow` shows from `WindowFits` that this is inside the
  window, for every timeout, budget, latency and lookup time. `WindowFits` is a
  premise of the theorem and not among the assumptions on the constants, because
  the code does not guarantee it (sections 4 and 5).
  It adds that rows of a cycle are in flight, not older than the cycle has run
  since its sweep, that no statement has run for more than `Latency`, and that no
  other cycle holds the rows.
* `PostsCapped`, `FailedMeansCharged`: `Spec => []AttemptsCapped` and
  `Spec => []FailedWasCharged` if `WindowFits`: no delivery is posted more often
  than it was charged, and its status says whether it was charged at all.
  `Counted`: a row a cycle holds and has not tried was
  posted no more often than it was charged, any row in flight at most once more.
* `GivenUpForCause`: `Spec => []DeadForCause` if no statement fails outright
  (`"error" \notin Faults`) and `WindowFits`. `Caused`: a webhook that a cycle's lookup did not
  return was deleted, and with it the reference of every delivery to it.
  With errors this is false (section 5).
* `BackoffKept`: `Spec => BackoffNearlyKept` if `WindowFits`, an action property. `Spaced`: a row that
  waits has as much of its back-off before it as it has not yet waited, less
  `Loss`; a row a cycle holds and has not tried had waited that long at the cycle's
  `now`; and a row it has tried was posted at most `Loss` after that `now`, from which
  the next back-off is computed. `Loss` is what a cycle can take from its `now` to
  its last POST: two statements, the budget less a timeout, and a name.

Each proof has one step per action; lemmas about the statements (`SetStatus`,
`SetLines`, inserts) are stated once and cited by name. The temporal step is
`Init => Inv`, `Inv /\ [Next]_vars => Inv'` and PTL.

## 7. What is only model-checked

Liveness: `DeliveriesSettle` and `OperationsSettle`. They need fairness, hence
`ENABLED`, which is out of the prover's reach. The inductive invariants under
the safety properties beside them in the same runs are proved.

Every other property of the passing runs is a theorem. The theorems with an
assumption on `Faults`, `Lockable`, `Committable` or `Matching` assume no more than the
run that checks the property. For each part of such an assumption TLC has a
counterexample without it, described in section 6. Without `WindowFits`,
`AttemptsCapped`, `FailedWasCharged` and `DeadForCause` fail like `ClaimsHold` once
`Lookup` exceeds the window and a back-off together (8 in the instance of
`webhook_batch` with a back-off of 1): a cycle that nobody expects back posts,
records or releases a row another cycle holds. For `BackoffNearlyKept` TLC found no
counterexample of that kind; there `WindowFits` is what the proof needs.

The three properties that the runs of section 5 refute are not theorems, of course.

## 8. What is not modelled, and why

* Exceptions of the immutability triggers for inline corrections (rättelse) of
  text and dimensions, role and tenant checks, the company-wide lock date, and
  the guard on the depth of correction chains: they refuse or allow single
  statements independently of the interleavings studied here.
* Triggers that read another row under READ COMMITTED may see it as it was when
  the statement began. A period lock that commits between the trigger's read and
  the commit of the statement is not modelled: a statement is atomic here.
* Draft editing (`updateDraftEntry`): what could go wrong is in the lines, which
  `Journal` reduces to whether there are any.
* Of the tail of `reverseEntry`: the release of bank transactions and links in
  `transaction_voucher_links`, and errors, which it logs and ignores.
* Of the payments: crashes and lost replies inside a settlement, the
  match-invoice route, batch vouchers, credit notes, supplier payments, rounding
  to whole kronor and foreign currency, and the `force` override of a match.
* Of the period: the count of unbooked bank transactions before a lock, and of
  the year-end run currency revaluation, the next period, its opening balances
  and the appropriation of the result.
* Which addresses `validateWebhookUrl` takes for unsafe: `Resolve` ends in any of
  its verdicts.
* Executors other than categorize and match: they follow the same protocol with
  other side effects.
* Amounts beyond those of a payment, currencies, VAT, account mapping, texts and
  file formats.
* By far most of the repository's lines are the user interface, tables of rates
  and error texts, schemas, reports, file formats and connectors to external
  services: computation and rendering without a protocol. The modules cover the
  statements that several actors interleave.

## 9. Plan

Done: `Journal` with `JournalDeletion`, `Ledger` and its refinement,
`WebhookDelivery`, `PendingOperations`, `InvoicePayments` with `PeriodControl`, and
the theorems of section 6. Worth doing next, in this order:

1. `Anchors`: the release of bank transactions behind a reversal, with
   `transaction_voucher_links` and the reconciliation.
2. The match-invoice route and supplier payments beside `settleInvoicePayment`.
3. `DraftEditing`: `updateDraftEntry` against itself and against a commit.
4. Idempotency keys: replay of an answered request.
5. Proofs: an abstract specification of a staged operation (proposed, executed
   once, settled) that `PendingOperations` implements.

Runs are few on purpose: a new module gets one run for its safety properties,
and takes the place of a weaker run where two ask the same question.
