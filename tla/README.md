# kAIkei: a verification project

kAIkei is an accounting system: a FastAPI application (`src/backend/app`) over
PostgreSQL, with a Next.js user interface. This directory holds TLA+ models of the
parts of it where several requests, workers or retries meet and of the services
that compute, the TLC configurations that check them on small instances, and
proofs of main properties for every size.

## 1. How the program runs

Every HTTP request has one database session (`core/database.py:29-39`): the
handler runs, then the transaction commits; an exception rolls it back. The
database is PostgreSQL at its default level, READ COMMITTED. What follows from
that, and is the subject of most modules:

- A handler reads a row with a plain SELECT, decides on what it read, and writes
  later. No row has a version column, and only the webhook worker locks what it
  reads. Between the read and the write other requests may commit.
- SQLAlchemy writes `UPDATE ... SET <columns whose value changed> WHERE <primary
  key>`. The condition the handler checked is not in the WHERE clause, and a column
  that the handler did not change relative to its own read is not written.
- An UPDATE, or an INSERT under a unique constraint, waits for an open transaction
  that wrote the same row or key. Where there is no constraint, nothing waits.
- A handler that commits in the middle (a service with a `commit` of its own) has
  several transactions, and may end between two of them.
- Two background tasks per server process (`services/background_jobs.py`) repeat
  for ever: send due webhooks, dispatch due jobs. The same two functions are also
  endpoints, and nothing keeps two of them apart.

About eighty services under `services/` keep nothing: they compute an answer from
what they are given. Money is `Decimal`, rounded to whole yen where each says.

## 2. Inventory

| component | state | operations | what is hard | correct means |
|---|---|---|---|---|
| Journal approval (`approval_service.py`, `journals.py`, `approvals.py`) | `journal_headers.approval_status, approved_by, is_voided`; `approval_logs`; `approval_workflows` | create, submit, approve, reject, post, void, define a workflow | guards on stale reads; the workflow read after the journal; columns written back | segregation of duties, a log that agrees with the row, the declared transitions |
| Journal numbering and CSV import (`journal_numbering.py`, `journals.py:524-655`) | `journal_headers.journal_number`, unique per company | number and insert, retry in a savepoint, several lines per transaction | two readers of one maximum, rollback after others read past, waiting, retry limit | unique, gap-free numbers; every request ends |
| Webhook queue (`webhook_service.py`) | `webhook_deliveries`: status, attempts, retry time | enqueue, select, lock, send, record, replay | crash between send and commit, two workers, replay beside a worker | one sender per row, attempts counted, every delivery settles |
| Scheduled jobs (`job_scheduler.py`, `job_dispatch.py`, `jobs.py`) | `scheduled_jobs.next_run_at`; `job_executions` | create, dispatch, run by hand, start, complete | late or overlapping dispatchers, attempts, calendar edges | once per period, bounded attempts, every execution ends |
| Documents that move through statuses: invoices, expenses, payments, tax returns, payroll, bonus, year-end, fixed assets | a status (or an accumulated amount) each | transitions by a table, one by one and in batches, calculation, depreciation, disposal | overlapping transitions, suppressed errors, batches that look at one record | a move, its journal and its notice happen once and together |
| Automatic journals (`auto_journal.py`) | headers and lines it inserts | a generator per document | half-written journals when an error is suppressed | balanced entries with the document's amounts |
| Idempotency middleware | `idempotency_records` | look up, run, save | no reservation between look-up and save, a look-up that fails counts as a miss | one execution per key |
| Bank reconciliation (`bank_reconciliation.py`) | `bank_statement_lines` | import, automatic run, match, unmatch | a run works on lists it read | a journal line settles one statement line |
| Registers: accounts, sub-accounts, tax rules, partners, companies, employees, budgets, office tasks, attendance, invoice numbers, settings, archived documents | their rows | create after a look-up, create what is missing, delete, clock in and out, archive, supersede | look-up and insert without a constraint; several commits per request | a key has one row, a document its current version and its file |
| Ledgers, reports, period close (`reports.py`, `ledger_*.py`, `journals.py`) | journals, accounts, `period_closes` | totals, statements, ratios, files, close, reopen | each report has a query of its own, and one column is read by a name two have; accounts change under their postings | the reports agree with each other |
| Audit (`audit_inspection.py`, `audit_detection.py`) | `audit_detections` | inspect, scan, review | overlapping scans, two sets of rules | a finding is logged once, both find the same large and (of one counterparty) repeated journals |
| Pay of a year (`payroll.py`, `bonus.py`, `year_end.py`) | records by employee and month, term, year | calculate, calculate again, hire, dismiss | each calculation reads what the others have committed, and may overlap another | what was withheld and the year's tax agree; caps hold |
| Orders to cash (`order_fulfillment.py`, `sales_closing.py`, `receivable_*.py`, `bad_debt_*.py`, `credit_limit.py`) | none: lists handed from one to the next | ship, close, match, age, write off | rounding, cut-off days, one service's output in another | every yen counted once |
| Calculators of consumption, income and corporate tax, insurance, wages, benefits | none | about sixty pure functions | brackets, caps, rounding, calendar | parts make the whole, more never gives less |
| Imports and monthly close of payroll (`*_import.py`, `payroll_close.py`) | none | read rows, run the services | cells that are blank or unreadable | what is read is what is computed with |
| Notifications (`notification_service.py`) | `notifications` | create, mark read, preferences | commits for its caller | nothing of the caller's is half done |
| Authentication, rate limits, IP rules, audit log middleware | sessions, counters | in front of every handler | | taken as given |
| AI, integrations, knowledge, operations, storage | calls to other services | | | not modelled |
| Frontend | none the server relies on | | | not modelled |

Interactions: the journal endpoints, the CSV import and the generators all number
journals through `insert_with_number`; the document transitions call a generator
and then `create_notification`, which enqueues webhooks; bank lines are matched
with the lines of the journals that documents wrote; reports and audit read all
journals anew; payroll, bonus and year-end read each other's records; the
background tasks drive the webhook queue and the job dispatcher; an external
worker, which is not part of the repository, drives the executions through the API.

## 3. The modules

Every module has a header comment, one action per handler or step, and the names
of the code. `PROJECT.json` maps each definition to its lines. Definitions under a
comment that starts with `MUTANT` or `Mutant` are deliberate faults: each is a
plausible bug of the definition below it, no specification uses it, and
`PROJECT.json` says which property fails when it takes that definition's place.

### State machines

**JournalApproval.** A request is `Begin` (the SELECT of the authenticated user begins
its transaction, whose time `created_at` of its log entry is), `Read` (SELECT, guard of the operation, permission
of the endpoint), for an approval `CheckWorkflow` (the second SELECT), then `Commit`
(flush, log entry, commit) or `Rollback`. `request[s].seen` is what the session
loaded; `OrmUpdate` writes the columns that differ from it and leaves the rest as
they are now. The UPDATE and the commit are one step because the row lock of the
flush keeps other writers out until the commit and nobody reads a flushed row.
`in_force` is a history variable: the workflows at the moment of the read. Entries are
numbered by their commits, but `get_approval_history` reads them in the order of
`created_at`: `ReadBefore` is that order, in which two requests that began between the
same commits may come either way, and `Alone` says that no other logged request
overlapped an entry's. The history properties are about that order.

**NumberBook and JournalNumbering.** `JournalNumbering` has transactions that insert
one header (`POST /journals`) or several (the import). `next_journal_number` reads
the numbers visible to the transaction, `insert` succeeds or waits, `retry` rolls
the savepoint back and reads again, `give_up` fails after `MAX_ATTEMPTS`,
`rollback` may happen at any time. `NumberBook` is the promise: a company's book
grows only at its end, by whole batches. `IsABook` states that the table, read in
the order of its numbers, is such a book.

**WebhookDelivery.** `select_due`, `lock`/`skip`, `post`, `record`, `finish` are the
steps of `process_due_deliveries`; `crash` ends a run anywhere and loses what it has
not committed; `replay_read` and `replay_write` are the two halves of
`replay_delivery`. The retry time is none, due or later, and `elapse` turns later
into due. `settled` counts the attempts recorded since the row was enqueued or
replayed.

**JobExecution.** A dispatcher's run is `select_due_jobs`, one `claim` or pass per
due job (the session flushes the previous job's writes before each query, so its
row lock is held from then on), `commit_dispatch`, `finish_dispatch`, or
`fail_dispatch`. `start_job_execution`/`commit_start` and
`complete_job_execution`/`commit_complete` are the two halves of the worker's
requests, `run_scheduled_job`/`commit_run` those of a run by hand. Time is a counter
with `tick`; the next run is the next multiple of the job's period. `JobCalendar`
(over `Calendar`) has the real `compute_next_run` over days, hours, months and leap
years: hour precision is enough, because all times it computes are on the hour.

**Documents**, with the generators of `auto_journal.py` (accounts by prefix, lines,
balance check, what is left behind when an account is missing) and the answers that the
idempotency middleware keeps (`Hit`, `Saved`, `Expired`). One module has all documents, because their handlers have one shape: read
the rows, judge them by the table of transitions, then commit the updates, the
journals and the notice in one transaction. `Verdicts` keeps what differs, such as
that a batch looks at its first record only. The middleware is a look-up before and
a save after, in transactions of their own; the look-up may fail, and the handler runs
then although an answer is kept (`LookedUp`); `Lose` ends a request anywhere.
`overlapped` and `excused` are history variables: rows that two requests had read
together, and keys whose protection was interrupted.

**BankReconciliation** extends Documents: statement lines are imported and matched
with the cash lines of `journals`, by `auto_reconcile` (`LoadCandidates` is its
second SELECT; `Matchings` its loop over the lines) or by hand, while the documents
go on writing journals.

**Registers.** One behaviour is about one register. A request reads (`AskAccount`,
`AskTask`, `AskConstrained`, `AskAttendance`, `AskDocument`, with the guards of the
look-ups), keeps the row it found, and writes later (`insert`, `create_task`,
`delete`, `clock_in`, `clock_out`, `create_manual_attendance`); archived documents
are written in up to three steps (`put_object`, `archive_document`,
`supersede_document`), and `Fail` ends a request anywhere. A look-up that finds two
rows raises in `scalar_one_or_none`, so it is no step. `unguarded` is a history
variable: the keys that two requests had looked up before either wrote, that were
entered without a look-up, whose replacement was interrupted, or whose day had an
end before its beginning.

**Bookkeeping** composes `Ledgers` (what every report makes of journals and accounts)
and `Audits` (what an inspection and a scan find): journals are written and voided,
accounts retired, given another type and deleted, months closed, and scans read and
write with other requests in between.

**PayYear** composes `Wages` (over `SocialInsurance`) into the year of a company: monthly
payroll, bonuses, year-end adjustment, hiring and dismissal, in the plain order and with a
bounded number of deviations from it. A calculation of bonuses is three steps of a
clerk's request, as in the code: `calculate_bonus` deletes the term's records,
`read_paid` sums up what is committed and works out the new ones, `commit_bonus` commits
both. A DELETE of rows that another request has deleted waits for it (`Waits`); of records
that the other one has not committed it sees nothing, so that a term may end up with two
sets of records, which is why `bonus` keeps a sequence for each. `bonuses_overlapped` is a history
variable. The handlers of the month and of the year-end adjustment are one step each: no
property is about two of them that overlap.

### Services that compute

`Yen` has the roundings, as exact integer arithmetic on fractions. `ConsumptionTax`,
`CorporateTaxes`, `SocialInsurance` (with the benefits), `Wages` (with the income tax),
`Sales`, `Payments` (with the matching of deposits and withdrawals), `Receivables`, `Drafts`
and `Imports` have one operator per
service, named as the service or its method; `ValueError` stands for a refusal, and
`None` for a value that is absent. They are composed three times:

- **OrdersToCash** is a state machine whose actions enter a shipment or a deposit; every
  service computes from the lists there are, each from what the one before it
  returned: sales, invoices, settlements, aging, losses, allowances, drafts.
- **Calculators** asks a topic (a wage, a bonus, a profit, a day, a file) again and again with a
  larger amount, and keeps the answer: an abstract caller, in whose behaviour
  "larger" and "before" have a meaning.
- **PayYear** (above) keeps what the services of pay compute.

`CalculatorsSpec` has all three kinds of callers, each followed alone: they share no records.

### Model-checking modules

`MC*` give the constants their values. A behaviour of `MCDocuments` has the documents and
the requests of one *world* (one kind of document); `MCBackOffice` adds a world with a
bank statement and one for each register. One world at a time keeps the instance
small and loses nothing: the handlers of two kinds share no rows. `BankSpec` and
`RegisterSpec` are the specifications of BankReconciliation and Registers by
themselves, `BackOfficeSpec` of `MCBackOffice` puts them side by side. The constants
of `JournalNumbering` are model values and need no such module.

### Proof modules

`<module>Proofs` extends its module with the theorems about it, for six state machines and
for PayYear; `BackOfficeProofs` is about BankReconciliation and Registers and extends
`DocumentsProofs`; `BookkeepingProofs` also extends Calculators, with which it shares the
calendar. Section 6 goes through them.

## 4. The runs

| run | instance | shows |
|---|---|---|
| `approval` | one journal, creator, approver and administrator, three workflow definitions (threshold below, at, above the amount), two overlapping requests, log of four | `HistoryWellFounded`, `HistoryEndsInStatus`, `HistoryIsAWalk`, `ApprovalBacked`, `ApprovalObeysWorkflow`, `VoidIsFinal` |
| `approval_posted_final` | the same | `PostedIsFinal` fails |
| `numbering` | four headers, two companies, three transactions, two attempts, fair | `UniqueNumbers`, `GapFree`, `OneHolder`, `AttemptsAreEarned`, `HolderNeverRetries`, `IsABook`, `EveryRequestEnds` |
| `webhook` | two deliveries of two tenants, background and manual run, two replays, two attempts, fair | `OnlyPendingIsSent`, `AttemptsAreCounted`, `EveryDeliverySettles` |
| `webhook_delivered_final` | the same | `DeliveredIsFinal` fails |
| `jobs` | two jobs, of periods 1 and 3 (the second falls due after the last tick and is run by hand once), two ticks, one dispatcher, one worker, two attempts, fair | `OncePerPeriod`, `AttemptsAreSpent`, `DueIsDispatched`, `EveryExecutionEnds` |
| `jobs_twice` | two dispatchers, two ticks | `OncePerPeriod` fails |
| `jobs_two_workers` | two workers, two ticks | `TerminalIsFinal` fails |
| `documents` | `MCBackOffice`: every kind of document with complete and incomplete charts of accounts, two requests together and five in all, one idempotency key; two invoices with a statement of two lines; six registers with two keys, two requests together, four in all | `JournalsCarryTheirDocument`, `OneRecordPerMove`, `DepreciationAddsUp`, `KeyRunsOnce`, `BatchMovesTogether`, `MatchesAreOneToOne`, `RegisteredOnce` |
| `documents_paid_final` | payroll of two employees | `PaidIsFinal` fails |
| `books` | two journals out of six payloads over two months, five accounts, three changes, two overlapping scans | `BooksBalance`, `FoundOnce` |
| `services` | orders of 3 and 4 pieces at 333.50 and 0.50 yen in up to four shipments, up to two deposits; 32 ladders of amounts; schedules over eight years; a year of a clerk with relatives, a director above the caps and a newcomer, with two bonuses, two clerks whose calculations may overlap, two deviations | `MoneyIsCountedOnce`, `PartsMakeTheWhole`, `MoreIsMore`, `NextRunIsEarliest`, `WithholdingReconciles`, `BonusPremiumIsCapped` |

`approval`, `numbering`, `webhook` and `jobs` also check their module's `TypeOK`.

Some statements about a state are checked as properties of the step that leads to
it (`MoneyIsCountedOnce`, `PartsMakeTheWhole`): each says that something holds of the
inputs after every step, and the steps are the only way inputs change.

Why the bounds are enough to be interesting. A stale read needs one other request,
so two sessions show every pairwise overlap, and a log of four entries holds a
whole life with one rejection. Three transactions let one wait for a second while
a third commits; four headers let an import of two lines meet two others. Two
attempts distinguish the first, the last and the one too many. A period of 1 over
two ticks lets the dispatcher miss a period. Five requests take a document through
its longest life with a repeated request; four take a day's attendance from a row
by hand through both clocks, and a document through three versions. Two journals are
enough for a duplicate (of the same counterparty or another), for a month before and after, and for every report to have
something to disagree about; three changes let an account be retyped or deleted
after a scan read. Two deviations let a bonus be calculated again after the other
one, a month after the year-end, or two calculations overlap. The ladders of `MCCalculators` have the amounts at and on
both sides of every bracket, grade, cap and month. `MaxLog`, `Horizon`, `MaxRuns`,
`MaxRequests`, `MaxCalls`, `MaxJournals`, `MaxChanges`, `MAX_DEVIATIONS`,
`MaxShipments`, `MaxDeposits`, the sets `Journals` and `Deliveries` (each member is
created once) and `Years` are the bounds; all other counters are bounded by the
code. Deadlock is not checked where these are used up: the systems then really stop.

### Disagreements with the repository's own words

Shown by a run:

- `approval_service.py:33` gives `posted` no successor. A rejection that read
  `approved` just before a post committed writes `rejected` over `posted`
  (`PostedIsFinal`).
- `webhook_service.py:473` says delivered rows are not queued again, so that the
  customer gets no duplicate. Two overlapping replays of a failed row do queue one
  again after it was delivered (`DeliveredIsFinal`).
- `job_dispatch.py:28` says a dispatched job waits for its next period. Two
  dispatchers that overlap dispatch it twice (`OncePerPeriod` with two
  dispatchers).
- `payroll.py:1238-1243` gives `paid` no successor. A batch (1477-1489) checks its first
  record and writes all: it takes a record that was paid by itself back to
  `approved`, and the next batch pays it again (`PaidIsFinal`). No requests overlap.
- `job_scheduler.py:86-87` refuses to move an execution that succeeded or is dead. With two
  external workers a start that was read before the execution ended is written over
  its end (`TerminalIsFinal`; `jobs.py:147-153`).

All but that of `payroll.py` come from a decision on an unlocked read. A condition in the
UPDATE, a version column or SELECT FOR UPDATE would make each of those properties hold.

Seen while modelling, and left to the owners:

- `approval_service.py:32` lets `approved` become `posted` or `draft`, and the docstring of
  `reject` (131) says submitted → rejected; its guard (134) takes approved journals too, with no
  other request about. The model follows the guard: an approved journal that is rejected is a step of
  `HistoryIsAWalk` like any other.
- `bonus.py:119-120` says the yearly cap of the standard bonus counts what the year has paid.
  Two calculations that overlap do not see each other's records, and each counts up to the cap. That
  is a behaviour of `PayYear`; `BonusPremiumIsCapped` promises the cap until the first overlap.
- `journals.py:162` promises what was debited and what was credited in a period. The query selects two
  columns named `debit_credit` (169, 173) and the row gives the first, the account's side: every
  entry, also one against that side, counts on it and raises the balance. The ledger's file reads
  the same rows. `Ledgers` counts as the code does (`Entered`).
- `auto_journal.py:153, 207, 262, 333` find cash under 12, sales under 41, depreciation
  under 53, withholding under 22; in `STANDARD_CHART_OF_ACCOUNTS` (`masters.py:32-118`) these
  prefixes are other accounts. `Documents` knows accounts by prefix only.
- The general ledger opens an account on its own side and closes it by its type
  (`journals.py:264, 310-314`), and its file subtracts every credit (697): an asset on the
  credit side opens with the opposite of what it closed with. The journal file repeats
  amounts for each pair of a debit and a credit line (498-513). `LedgerRollsForward` and
  `FileAddsUp` are stated for the cases in which the parts agree, the former also only for
  accounts never posted to against their side.
- An inspection calls two journals of one date, total and accounts repeated whoever they are with
  (`audit_inspection.py:20-61`); a scan only if the first description of a line, or else the summary,
  is the same (`audit_detection.py:155, 344-357`): what one reports the other may not.
- The approval history is sorted by `created_at` (`approval_service.py:193`), the start of the
  transaction: of two requests that overlap the later entry may be the earlier commit, and the history
  then ends in another status than the journal has.
- A failing look-up of an idempotency key is taken for a miss (`idempotency.py:157-159`), and the
  handler runs again under a key whose answer is kept.
- `reports.py:486` compares the sides of the balance sheet without the year's income.
- Reports count drafts and rejected journals; a voided journal can still be approved and
  posted (`journals.py:382`); nothing that writes journals asks whether the month is closed.
- A second payroll of a month deletes its records, the paid ones too (`payroll.py:705`);
  the individual "paid" writes no journal (1437), the batch does.
- A wage below the salary deduction raises in `income_deduction.py:30` and fails the payroll
  of the whole company; `tests/test_monthly_withholding.py:14-19` expects no tax.
- The last shipment of an order takes what rounding left, which may be negative, and
  `sales_closing.py:121` then refuses the whole list.
- `create_invoice` rounds tax half up (`invoices.py:138`), the tax calculator down
  (`tax_calculator.py:27`).
- A bank file that is imported again is inserted again (`bank_reconciliation.py:249-276`).
- The idempotency hash covers the body only (`idempotency.py:69-71`): one key on two paths
  is answered with the first one's answer.
- Two overlapping creations of one code leave two rows, after which every look-up of the code
  raises; two first clock-ins of a day leave the employee unable to clock out. A new
  version of an archived document is committed before the old one points at it: after a
  crash in between, or when an old version is replaced a second time, two are current.
- Of a manual attendance row that has only an end, the hours stay 0 after the clock-in
  (`attendance.py:51-94` does not work them out).
- `qualification_loss.py:110` sets `event_month_premium_charged` whenever somebody came and
  went within one month, also when the event lies in the month after (a birthday on the
  first of a month, for `age_70`): the final month of the same answer is then another one.

## 5. Fairness, and why the code justifies it

- `JournalNumbering`: weak fairness of each transaction's next step; a handler that
  can go on does. `EveryRequestEnds` is about runs in which other transactions stop
  failing: a rollback after an insert may let another one overtake, every time.
- `WebhookDelivery`: the clock runs, a run that is under way goes on (the HTTP call
  has a timeout of ten seconds) and the background task comes back
  (`run_job_forever` catches every exception and sleeps a fixed time). Manual runs
  and replays need not come. `EveryDeliverySettles` is about runs in which crashes
  and replays stop.
- `JobExecution`: the dispatcher comes back for the same reason. The external
  worker is assumed to take up what can be started, again and again, and to report
  an end of it (strong fairness, because other requests disable and enable these
  steps). The repository does not contain this worker: a worker that vanishes leaves
  its execution `running`, and the job is then never dispatched again.

The other modules state safety only: a request that its client does not send is owed to nobody.

## 6. What is proved

TLAPS checks eight modules; 34 of their theorems are listed in `PROJECT.json`. They
hold for every value of the constants, under the named assumptions of the modules.
Two kinds of assumption deserve a word. `WorldsAssumption`, `AmountsAssumption`,
`StatementsAssumption` and `BooksAssumption` say what a behaviour may start from and what
clients may send: rows with the columns of their table, amounts that are natural
numbers (of a journal's lines any integers), journals that are lists. `MasterAssumption` asks for
natural numbers as salaries, bonus months and rates. `MomentsAssumption` keeps the moments that
Calculators asks for before the last month of its calendar, which is the model's bound, not the program's. The request schemas and the table definitions of
the repository see to that, and TLC evaluates them on every instance. Limits on
calls, runs and entries are arbitrary numbers, so no theorem depends on a bound.

Most properties are about requests that decide on what they read before somebody else
wrote. None of them is inductive: each needs an invariant about the requests under
way, what they have read, and what is still true of it.

- **JournalApprovalProofs.** Whatever a request in flight has read was once the row
  (`RequestsSound`: the status it saw was reached by the log, the creator is the
  row's), and every logged approval was by an authorised other user (`LogSound`).
  A write is justified by what its request read, not by the row it hits.
  `ApprovalBacked` follows because an approved or posted status that was seen has an
  approval behind it; `VoidIsFinal` because no operation clears the flag on the loaded
  object, and a column that did not change is not written. `ApprovalObeysWorkflow` needs
  that workflows are only ever added, so that those in force when a request read its
  journal are among those its check reads (`ChecksSound`). The order in which the history is read
  is handled by `Alone`: the request of such an entry began when the log ended just before its entry,
  so what it read is what the log said then, and no later one comes before it
  (`HistoryMatchesRow`, `HistoryWalks`). About entries of requests that overlapped nothing is
  claimed but `HistoryIsWellFounded`. `PostingIsFinal` proves `PostedIsFinal` from the premise that no two
  requests work on a journal together (`OneRequestPerJournal`).
- **JournalNumberingProofs.** Committed numbers of a company are 1..base; an open
  transaction with inserted headers holds exactly base+1..top; only one does. Two
  blocks that both start at base+1 would share a key, so the unique constraint keeps
  the second out; a rollback leaves no gap because the block lies above everything
  committed. The retry bound comes from counting the commits since the request began.
  `NumberingIsABook` is the refinement: initial states map to empty books, a commit to
  one `Enter` of the transaction's block, every other step to a stutter. It needs in addition
  that no header is entered twice, in one book or in two (`IdsDistinct`).
- **WebhookDeliveryProofs.** A run that waits for a receiver holds the row's lock, and
  whoever else writes rows waits for it: the row stays the pending one the run read, with
  the attempts it read (`OnlyPendingIsSent` is part of the invariant, and
  `AttemptsAreCounted` follows). Any number of workers, replays and attempts. With one
  replay at a time (`OneReplay`) a delivered row stays as it is (`DeliveredOnce`).
- **JobExecutionProofs.** Types for any callers. With one dispatcher
  (`OneDispatcher`): what a run has picked stays due until it commits, and each
  schedule lies beyond the period of every execution dispatched for it. With one
  external worker (`OneExecutor`): what a request has read is still the row when it
  writes. The arithmetic lemma `NextRunIsLater` carries the periods.
- **DocumentsProofs.** `HandlerRunsOnce`: a key that nothing interrupted (no lost answer, no
  failed look-up, no overlap) has one request at
  most, and whether its handler ran can be read off that request and the kept answer
  (`KeysSound`). `BatchesMoveTogether`: a row that only one request has read is still what that
  request read (`ReadsSound`). `RecordsFollowMoves`: from that, a request that may move a
  document finds a journal and a notice for every status the document had passed, and
  no others (`RecordsSound`). `AssetsAddUp`: as it is stored and as anybody read it, an asset
  was depreciated by the sum of its records or by less, and never by more than its
  base (`DepreciationSound`). `JournalsCarry`: every generator writes entries that balance
  and carry the sums of the rows it was given, or a header alone; rows keep their
  amounts, and a recalculation gives its records fresh ids (`AmountsSound`, `JournalsSound`).
  That a payroll may be deleted and calculated again does not break this because a
  journal's ids are never given out again.
- **BackOfficeProofs.** `MatchesStayOneToOne`: the loop of `auto_reconcile` pairs lines
  and candidates one to one, which is proved by induction on the number of lines it has gone
  through; a run that nothing overlaps has loaded candidates that no line names
  (`BankSound`). It promises nothing of lines matched by hand, which the code does not compare, nor of
  runs that overlap. `DocumentsBesideTheBank` carries the five properties of Documents over to
  behaviours in which statements are imported and matched as well. `RowsAreUnique`: what a
  request has read of a key stays true until it writes, unless the key is `unguarded`; and an
  archived version that is about to be superseded has a later one already (`RegistersSound`).
- **BookkeepingProofs.** A scan that is not behind is about to log only what the log has not
  (`ScansSound`), because whoever has read the log before another scan's write is behind
  from then on. For the second half of `FoundOnce`, a journal that an inspection finds
  large, or repeated with the same counterparty, is among the snapshots of a scan with the
  same date and total. `BooksAlwaysBalance`: each report adds up the same lines in parts of its own, by
  account, month, journal, type or code, so `BooksBalance` is a list of equations between sums
  over parts of one set of lines or of accounts. The module first proves what a sum over a finite set
  is (it exists, it does not depend on the order, it splits over unions, differences and
  classes, it survives renaming), then that every line of a journal has a part (each account
  its type, each day its month), then the equations. What they need of the
  state is `BooksSound`: every journal that was kept passed `validate`, so it is balanced and
  names accounts of the chart, and no operation changes an account's side. That the ledger, which
  counts every entry on its account's side, rolls forward is proved for the accounts all of whose
  postings are there (`NettedIsTheBalance`); for others it is false.
  `JobsRunAtTheFirstMoment`: for every moment and every accepted daily, weekly or monthly schedule (the lemmas do
  not look at which ones a run enumerates) no day from the moment to the next run is one
  that the schedule stands for and is not over. It rests on lemmas on the calendar: the first days of
  the months grow, every day has one month, every month one day of the schedule.
- **PayYearProofs.** `BonusPremiumStaysCapped`: a term is calculated against the cap less what
  the other term *paid*, while the property is about what was *counted*. `BonusSound`
  says, until two calculations overlap: each term has one calculation at most, at most one request is
  under way, of no term more was counted than was paid, of the two together what was counted
  stays within the cap, and so it will when the request under way commits (`RequestSound`, kept
  by `BeginIsSound`, `ReadIsSound` and `CommitIsSound`). It holds in either
  order of the terms and when one is calculated again. A lemma on half premiums carries it to
  yen: the halves of two amounts, each rounded to whole yen, exceed the half of their cap by one
  yen at most.

Premises that the program does not enforce are stated in the theorem that needs them:
`OneRequestPerJournal`, `OneReplay`, `OneDispatcher`, `OneExecutor`. The first three are necessary:
the runs `approval_posted_final`, `webhook_delivered_final` and `jobs_twice` violate the same
property without the premise; with two workers an attempt can be lost in the way `jobs_two_workers`
loses an end. All other theorems
hold for any number of callers, and name in their history variables (`overlapped`,
`excused`, `unguarded`) what they do not promise.

How recursion is handled: sums, matchings and orderings are recursive functions over
an initial interval of the natural numbers. That such a function exists and what it
returns is proved by `NatSetInduction`, which is derived from the well-foundedness of inclusion
between finite sets, since the induction theorems of the library take an operator as a parameter.
Sums over sets recurse over finite subsets instead; induction on their size proves the same of them.

Only model-checked:

- `WithholdingReconciles`: twelve estimates of a month against the tax of the year, through
  tables of rates; it depends on the figures of the tables, and the tolerance is not derived.
- `MoneyIsCountedOnce`, `PartsMakeTheWhole` and `MoreIsMore`: they run through forty services, with
  folds that take an operator as a parameter and tables of rates.
- Liveness, which the prover does not reach: `EveryRequestEnds`, `EveryDeliverySettles`,
  `DueIsDispatched`, `EveryExecutionEnds`.

## 7. Known limits

- A request whose guard fails is not a step: it answers with an error and rolls
  back. Its reads cannot be observed by others. Rows that are not there (404) and
  permissions are not modelled, except in JournalApproval.
- Amounts of documents are small fixed numbers; texts are not modelled. The services
  that compute have the real rates and tables; a date they look at is a day number,
  a month or a datum of the input.
- Webhook endpoints are always active (the program never deactivates one and
  cannot delete one with deliveries).
- Jobs of equal priority may be dispatched in any order, which includes the order
  of the query.
- The failure of the commit inside `create_notification` is the failure of the request.
- Bank reconciliation: a name either resembles or does not; rows of the file that are
  skipped and the limit of 1000 lines are left out. Payment matching leaves out the cap on
  the subsets it tries (`MAX_SUBSET_STATES`).
- The transfer file: field widths are left out, and whether a name can be encoded is a
  datum. Exported files are cells, not text.
- The scan's SELECTs are one step; its limit of 500 journals and Benford's law are left out.
- The lines of a journal are read in the order in which they were inserted, although the SELECT of the
  scan asks for none.
- PayYear: of the year's calculations only those of bonuses are several steps; a payroll or a year-end
  adjustment that overlaps another request is not modelled.
- Registers: an UPDATE of other columns of a row is no step; the day of attendance does
  not end.
- The hazards in `PROJECT.json` that no property covers have a note each.

Not modelled, and why: authentication, roles, sessions, rate limits, IP rules and the
audit log middleware (a modelled request is one that was let through); language models,
knowledge sources and integrations (their answers are outside any model); storage,
hashing, search and retention dates; list, read and print endpoints;
request schemas (they decide what is enumerated) and migrations; the user interface.

## 8. Plan

What is left, most useful first:

1. The monotonicity of the single rounding operators of Yen and of the brackets, from
   which `MoreIsMore` follows for the services that only compose them.
2. The creation of documents, and the list of closes and the legal ledger files of reports.py.
