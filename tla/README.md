# Verification of Kronos HRMS: leave requests, their approvals and their ledger

This directory holds TLA+ models of the HR system in `src/`, the TLC runs that check them on
small instances, and proofs checked by TLAPS. Its core is what happens to a leave request, what
that does to the time ledger, who decides about it and how the decision travels between two
services. Around it stand the balance a request is checked against, business trips and expense
reports, the notification queue, and the monthly timesheets. The rest is inventoried below.

## The system

FastAPI services over PostgreSQL (`backend/src/services/*`), each with its own schema; they
call each other over HTTP (`shared/clients`). Every request handler runs in one transaction
that `core/database.get_db` commits or rolls back. The isolation level is READ COMMITTED,
`autoflush` is off, no query uses `FOR UPDATE`, no table has a version column, and the checks
discussed here have no database constraint behind them. Celery (`worker.py`) runs periodic
tasks.

| Component | State | Operations | Talks to | Hard part |
|---|---|---|---|---|
| Leave requests (`leaves/services/workflow.py`, `crud.py`, `enterprise.py`) | `leave_requests` row: status, dates, breakdown, deducted flag | create, edit, delete, submit, approve, approve with conditions, accept or decline the conditions, reject, revoke, reopen, cancel, recall, modify | ledger (same transaction), approvals (HTTP inside the transaction), notifications, audit | handlers decide on what they first read and write later |
| Time ledger (`leaves/ledger`) | append-only entries, by year and kind of balance | record usage, reverse usage, accrue, adjust | called by the workflow and the accrual jobs | idempotency by "is there an entry already?" |
| Balance, policy, accrual (`balance_service`, `policy_engine`, `accrual_service`) | balances are sums over the ledger | validate a request, accrue monthly, roll over | config, calendar | pending requests, year boundaries, repeated jobs |
| Recall, sickness, voluntary work (`enterprise.py`) | interruption rows | recall, partial recall, interrupt, resume | ledger (methods that are empty) | restored days are reported and not written |
| Approvals (`approvals/workflow_engine.py`, `services/*`) | approval request, decision rows, level, history | create, approve, reject, cancel, approve with conditions, delegate, expire | calls back the service that asked | two paths to the status: the engine, and endpoints that bypass it |
| Expenses (`expenses/services/*`) | trips, reports, items, allowances, ledger | create, edit, submit, approve, reject, complete, pay, cancel, delete | approvals | stale decisions; rows deleted under one another; an answer nobody looks at |
| Notifications (`notifications`, `background_jobs/tasks`) | queue, e-mail log with attempts | create, process the queue, bulk send, mark read, retry | mail and push providers | two consumers of one queue, retries that stop |
| Smart working (`smart_working/service.py`) | agreements, requests | create an agreement, sign it, request a day, decide | approvals | no agreement ever becomes active |
| HR reporting (`hr_reporting`) | timesheets, reports | aggregate, generate, confirm; a nightly update that reaches no sheet | leaves, calendar, expenses | two sheets of a month, a confirmation racing another, failures that are swallowed |
| Signature, auth, calendar, config, audit | rows; a configuration cache; MFA secrets | CRUD, sign, verify a code | Keycloak | stale cache, reused code |
| Reconciliation (`background_jobs/tasks`, `scripts`) | - | look for disagreements between the tables | leaves, ledger, approvals | repairs by hand what the handlers lost |

What makes each of them correct:

* *leave requests and ledger*: a request is charged once; a reversal answers a charge and is
  written once; an approved request is charged for its own dates; an approval that is taken
  back returns the days; two requests of one person do not hold the same day;
* *approval engine*: a request is resolved when, and only when, its mode is satisfied; levels
  are complete and in order;
* *between the two*: a pending leave has somebody who can decide on it; what is decided reaches
  the leave; a leave is not approved unless somebody approved it;
* *balance*: a submission is let through only when the balance covers it and what is pending;
  the two ways to credit accruals agree, and a recalculation never credits more than the
  contract earns;
* *expenses*: an approved trip has the allowances of its dates, once; a report is paid once per
  approval, and not without one; no report names a trip that is gone;
* *notifications*: each leaves the queue and does not come back; a failed e-mail is tried again,
  up to its limit and no further;
* *timesheets*: a month has one sheet; what was confirmed does not change; a draft is kept up to
  date.

`PROJECT.json` lists the hazards behind these properties, each at its line, and which property
covers it.

## Modules

| Module | Models |
|---|---|
| `LeaveCharge` | abstract: what the ledger promises about one request (uncharged, charged, refunded; disputed once a stale handler wrote it) |
| `LeaveWorkflow` | the leave request, its ledger entries, and the handlers that run at the same time |
| `LeaveWorkflow_proofs` | theorems about it; the refinement of `LeaveCharge`; what holds of the requests no stale handler wrote |
| `ApprovalEngine` | one approval request: decision rows, modes, levels, direct endpoints |
| `ApprovalEngine_proofs` | theorems about it |
| `ApprovalSync` | extends `LeaveWorkflow` with the approval requests, the POST and the callback |
| `ApprovalSync_proofs` | theorems about it; it implements `LeaveWorkflow` |
| `LeaveBalance` | one balance of one employee: accruals, recalculation, corrections, and the check of a submission under its settings |
| `LeaveBalance_proofs` | theorems about it |
| `Expenses` | business trips, their daily allowances, expense reports |
| `Expenses_proofs` | theorems about it |
| `Notifications` | the notification queue with its consumers; e-mail logs and their retries |
| `Notifications_proofs` | theorems about it |
| `Timesheets` | one employee's monthly sheets: generation, confirmation, and the nightly task as what it does |
| `Timesheets_proofs` | theorems about it |
| `SumLemmas` | lemmas on sums over finite sets, and on minimal subsets, which the proofs share |
| `MC...` | small instances |

`LeaveCharge` is implemented by `LeaveWorkflow`, which is implemented by `ApprovalSync`.
`LeaveBalance` takes up the requests where `LeaveWorkflow` leaves them: it keeps what moves
balances. The other modules stand beside each other, as the services do: what connects
them in the code are reads over HTTP (the aggregator of the timesheets) and calls whose answer
is not used (notifications).

### LeaveWorkflow

`status`, `period`, `details`, `deducted` are columns of the row (`details` is the period the
breakdown `deduction_details` was computed for); `usage` counts the groups of USAGE entries that
refer to the request and `refunds` the groups of reversals, by the operation that wrote them.
`tx[h]` is what handler `h` has read.

*Where a handler is cut.* `LeaveRequestRepository.get` reads the row; `update` assigns, flushes
(this UPDATE takes the row lock, held until the commit) and refreshes. So a handler is
`Read...(h, r)`: read and check, and one action named after the method: from the first UPDATE to
the commit. In between any other handler can run. Handlers that wait for the lock go on, after
the other's commit, with the status they read before: their `UPDATE` names the row by id only.
What they read after the lock (ledger entries, the refreshed `deduction_details` and
`balance_deducted`) is current, hence `RecordUsage` and `ReverseUsage` look at the present state
while the branches on the old status look at `tx[h].seen`. `revoke_approval` is different: it
calls `_restore_balance` before its UPDATE, so `RevokeReadsLedger` is a step of its own.
`Rollback` is an exception, a lost client or a crash anywhere before the commit.

*What is charged.* A group of entries stands for the whole breakdown, written in one transaction;
of its amount only zero is told apart. `record_usage` skips amounts that are not positive
(`ledger/service.py` 207), so a request for dates without working day (`Workless`) has a breakdown
that comes to nothing (`Amount`): its approval sets the flag and writes no entry.

*History.* `stale` are the running handlers that another's commit has overtaken: one that wrote
the row they read, or a row of the same user, which a look for overlaps may have read. A handler
of `stale` that commits puts its request into `raced`. A version column checked by every `UPDATE`
would refuse that commit. The histories guard nothing; some properties are stated for the requests
outside `raced`, so that two handlers may overlap wherever they do no harm, and each theorem says which harm
takes an overtaken handler.

*Abstractions.* A day interval stands for dates and half-days. The caller's identity is left
out: owner and approver checks refuse and leave no trace. So do the policy rules on notice,
length and balance: a refused submission is one that does not start. Creation is one action
although it also reads before it writes: the draft it makes blocks nobody's dates until it is
submitted, and submission repeats the check. `Direct` says whether approvers also use the leave
service's own approve and reject endpoints, which do not ask for PENDING, next to the callback,
which does. `COMPLETED` is never assigned in the code.

### ApprovalEngine

One approval request with at least one approver (without approvers no decision row exists and
the engine accepts only an administrator's forced decision). `rows` are the decision rows in
order of creation. A decision is three steps: `ReadDecision` (request and decisions are
loaded once, and checked), `CountPending` (its own row is updated, and the pending rows are
queried in committed state), `Decide` (status and level, commit). `Settle` is the second half of
approve, reject and cancel, which write the status without the engine. `mode` is fixed, while
the code reads it from the workflow configuration at each decision; editing configurations is
left in the plan.

### ApprovalSync

`submit_request` holds its row lock while it waits for the POST (`creating[h]`: posted, created).
The approval request is committed by the other service before the leave is. When the POST
fails or times out the submission rolls back (`AbandonSubmission`); a POST that timed out may
still be executed (`late`). A decision takes the approval row's lock and calls back
(`TakeDecision`), and commits after the answer or the time-out (`CommitDecision`), or not at all
(`AbortDecision`). A callback is executed at any later time (`Deliver`), ignored when the leave
is not PENDING (`Ignore`), or lost. The engine's outcome of a conditional approval is left open,
which covers every behaviour of `ApprovalEngine`. Creation is one action: the duplicate check
never refuses (it compares with 'pending', the column holds 'PENDING'), and from the third
request on its query raises.

### LeaveBalance

The entries of the ledger for one employee, one year and one kind of leave, summed by what they
are: `accrued`, `manual`, `recalculated` (credits), `subtracted` (debits), and `charged` and
`refunded`, the requests with USAGE entries and with reversals. `Credited` and `Net` are
`get_balance_summary`. The usage of a request is in the ledger under the name of its leave type
('vacation'), the summary is asked for VACATION_AC: so `charged` is in no sum, and
`recalculate_user_accrual` need not tell it apart. `ForNew` subtracts the pending days twice,
because `validate_request` subtracts them from a summary that has done so.

`CheckSubmission` finds one of the settings in `Policies`: whether an insufficient balance is an
error (`blocks`: `leaves.block_insufficient_balance`, and a leave type without
`allow_negative_balance`) or a warning at most, and whether the leave type requires approval. Without
approval the submission itself records the usage. `Reopen` makes a closed request pending again, with no
look at the balance. `valued` are the requests with a breakdown: one that was cancelled as a draft
and reopened has none, and its approval writes no usage.

A submission and a recalculation read first (`CheckSubmission`, `ReadAccruals`) and write later;
the other operations do not look at the balance. The history variable `stale` says that one of
them wrote after the figure it had read changed. Amounts are whole numbers of a fraction of a
cent, `Cent` of which make a hundredth of a day: the monthly rate is any such number (22/12 is none
of whole cents), and every entry passes through `Stored`, the rounding of the column
`Numeric(6, 2)`, while the recalculation adds up unrounded months. `Worked` is the
number of days of a month that the contract covers, and the two ways to accrue (the monthly run
from `MinDays` on, the preview from the first day on) differ on it.

### Expenses

`trip` and `report` are the status columns, `period` the dates of a trip, `allowances` the
generations of DailyAllowance rows (a generation is `Days(p)` when generated, a row per day), `link` the trip of
a report, `number` the counter of its number. Handlers read with `ReadTrip`, `ReadReport` or
`ReadForReport` and write in an action named after the method. The repository's `update` reads
the row again, but the session returns the object it holds: the columns keep their first values,
and SQLAlchemy writes a column only when the value assigned differs from the value it loaded
(`Assigned`). So a late `approve_report` on a report that was read APPROVED writes nothing. Deleting a
trip deletes the reports that were loaded with it, through the ORM; a report filed since is
unlinked by the foreign key (ON DELETE SET NULL). `overlapped` is history: the trips and reports
that two handlers worked on at once.

`UpdateAllowance` (PUT `/allowances/{id}`) makes a day full or half in any status of the trip; it cannot
move the day. `edited` is history: the trips with such an edit since their allowances were generated.

The items of a report are unreachable: `add_item` passes a column that the table does not have,
and every call fails. The approvals service is asked when a trip or report is submitted, but its
callback reaches no method of this service, and its answer is not used; decisions come through
the service's own endpoints. `MaxApprovals` bounds the approvals and the payments of a report.

### Notifications

`status` and `read` are the rows of the queue, and `older` their order: a row's `created_at` is
`now()`, the start of the transaction that adds it, so `Create` (a transaction of `Callers` begins
and adds a row) fixes its place, and the others see it once `CommitBatch` makes it visible, perhaps
after younger rows. `run[w]` is what a transaction has picked (`ids`) and added (`new`).
`process_queue` is called by the task of every minute (`Beats`) and at the end of a bulk request (a
caller that goes on to `ReadBatch`), in the transaction that has added its notifications; a caller that
does not is `create_notification` alone. A run is cut between the read of the batch
and the commit: no row is claimed, so two runs may hold the same one. `Outcome` is fixed by the
code: an in-app notification is sent by being settled, while the e-mail and push senders use
attributes that do not exist and raise. `retry[w]` is a run of `process_email_retries`: `RetryOne`
tries the next e-mail and either leaves it to the commit at the end, or (no template) commits
everything so far; `seen` are the counts it had read, which it writes back plus one. It reads the
oldest `RetryLimit` e-mails, which are numbered by `created_at` and committed in any order. The
provider's `send` always raises, so no e-mail is ever delivered and none needs a SENT status.
An id stands for many notifications in turn: `Forget` lets an old one go out of sight, and is a
bound, not code.

### Timesheets

`sheets[m]` are the rows of a month in the order of insertion, each with its status and the last
day the aggregator filled. `get_or_create_timesheet` reads the row of the month, and waits for the
aggregator (`Fetch`) before it inserts. The aggregator gives days that have come as worked. It asks for
leaves and trips too, but at endpoints that the leaves and expenses services do not have
(`shared/clients/leave.py` 103-107, `attendance.py` 201-202), and a failed answer is replaced by none:
so leaves and trips never reach a sheet, and no variable stands for them. Only when the lookup of the
employee fails, or something unforeseen, does it answer no days (`FetchFails`, `Blank`).

No constraint forbids a second row, and the lookup (`scalar_one_or_none`) raises on two. `Deadline`
is `check_confirmation_window` with the day of the settings held within a shorter month. The
confirmation of an existing sheet waits for nobody, hence `fetched` at once. `raced` is history:
months on which a handler wrote although the month had changed since it read.

`NightlyUpdate` is the task of two in the morning as the code has it: it names `UUID`, which only
another function imports (`tasks.py` 169, 231), every employee raises `NameError`, the error is logged
and the task ends well, having changed nothing. Nor does it run as deployed: its queue,
`reporting`, is not among those `docker-compose.yml` 401 gives a worker.

## Runs

| Run | Instance | Question |
|---|---|---|
| `leave_concurrent` | 1 request, 2 handlers, 2 intervals (one without working day), all operations, `Direct` | what the ledger keeps in spite of stale reads and, outside `raced`, of flag and refunds; it implements `LeaveCharge` |
| `leave_booking` | 2 requests of one user (one of a leave type without balance and approval), 2 handlers, 3 intervals (two overlap by their boundary day), no reopen and modify, callbacks only | outside `raced`, no day is booked twice and the charge is for the row's dates |
| `approvals_concurrent` | 3 approvers (one an administrator), 1 more administrator, 2 handlers, 4 modes | quorum, levels and order with stale counts |
| `sync_decisions` | 1 leave, 2 handlers, 2 approval requests, lossy callbacks, 1 late POST per leave | the two services together |
| `balances` | 2 requests of a hundredth, 2 months (the second short), 2 handlers, a rate of a cent and a third, the strictest and the laxest settings | accruals against recalculation, with the rounding of every entry; what a blocking check covers |
| `expenses` | 1 trip, 2 intervals (one day, two days), 1 report, 2 handlers | allowances, links and payments with stale decisions, edits and deletions |
| `notifications` | 2 notifications (one in-app), batch of 1, one run of the task, two requests that add rows; 1 e-mail, 2 runs of the retry task, 3 tries | the queue drains and nothing comes back; retries happen and end |
| `timesheets` | months of 2 days and of 1, deadline in the next or in the same month, 2 requests at a time | one sheet, frozen once confirmed |
| `double_refund`, `lost_decision`, `stale_timesheet`, `unreserved` | the smallest instance that shows it | what a comment or docstring promises and the code does not do |

*Bounds.* Every race in the code is between two handlers on one row, so two handlers and one
request meet all of them pairwise; the ledger properties speak of one request at a time and no
action reads another request's ledger. Two requests are needed for overlaps only. Three
approvers are the smallest number for which a majority is neither one nor all and a sequence has
a middle. `MaxDay` lets a leave lie in the future, begin and be past; `leave_booking`, whose
properties do not look at the calendar, stays on the first day. `MaxRows` leaves room
for one forced decision beyond the assigned rows. Two approval requests are all the code can
handle, and `MaxLate` = 1 lets one arrive after its submission gave up and after a second
submission. `sync_decisions` leaves CANCELLED out of the decisions, because the leave side treats
it as REJECTED. `Handlers` are a symmetry set in the runs with two of them whose properties do not tell
handlers apart (not in `leave_concurrent`).

In `balances`, a month of full days and a short one are the two cases of the accrual rules; a third of
a cent is the coarsest fraction that is rounded both ways; a correction of one hundredth up or down
moves the balance. `MaxRuns` = 1 gives each month one accrual run, before, in or after the month. Two
requests are the smallest number of which one fits and both do not, and one may pass unchecked, or be
reopened, before the other is checked; as they are of the same length they are a symmetry set too. The
two settings differ in both switches, and each submission finds one of them. In `expenses` a
handler of a trip meets another one of the same trip, or one of its report; `MaxApprovals` = 2 lets
a report be approved and paid again. In `notifications` a batch of one leaves a notification
waiting, a row committed late may go before it, and two runs can hold the same e-mail; the limit of
the retry query (50 in the code) is not exceeded there. In `timesheets` the second month is
shorter than the deadline's day, so the deadline is held within it; the first has a day on which it
is neither new nor over.

*Deadlock* is checked in `notifications`, `balances`, `timesheets` and `stale_timesheet`. The other runs turn it off: a history in
which every request is closed or deleted, or decided, or paid, and calendar and ids are at their bounds, is a
legitimate end.

*Fairness.* One specification states it, `Notifications`: Celery's beat schedule (`worker.py`
31-52) starts the queue task every minute and the retry task every five minutes, hence weak
fairness of the reads of a batch and of the retries. A run can crash, and is started again: strong
fairness of `CommitBatch`, `RetryOne` and `CommitRetries` says that not every run crashes. Nothing
is assumed of bulk requests, employees, approvers or administrators, nor of the other modules: a leave may
wait for ever for an approver, who is a human being, and no task would bring a timesheet up to date.

### What the violation runs show

* `double_refund`: revoke reads the ledger before it locks the row, so a cancellation that
  commits in between is followed by a second reversal, and the balance grows twice.
* `lost_decision`: a decision taken before the submission commits finds a draft, is answered 200
  and dropped.
* `unreserved`: the usage of an approved request is booked under a name that no balance is read
  for, so its days can be asked for again.
* `stale_timesheet`: the nightly task runs, and the draft of the current month stays as it was.

### What the models show besides

The properties of the passing runs are stated with the exceptions that the code needs, and each exception is
a behaviour worth knowing:

* cancel branches on the status it first read; an approval that commits before its UPDATE leaves
  a cancelled request that is still charged (`WithdrawalRefunds` excepts the requests in `raced`);
* a submission that was overtaken after it looked for overlaps books days twice, and one that was
  overtaken by an edit is charged for the dates it read (`NoDoubleBooking`, `ChargedForItsDates` likewise);
* a request for days without work is approved with the flag and no entry (`ChargedWhenApproved` says which), so
  the reconciliation check (`leaves/repository.py` 339-357), which looks for approved requests with
  the one and without the other, counts it although nothing is missing;
* where an insufficient balance only warns, or a request is reopened, pending days may exceed the balance; the
  next submission that is checked counts them (`PendingIsCovered`);
* the monthly runs round each entry, the recalculation does not: for a rate such as 22/12 it finds
  cents to correct although nothing is missing (`AccrualsAgree` allows half a cent a month);
* a request that is cancelled, reopened and approved again finds its old USAGE entries and
  writes no new ones, while the reversal stays: the approved leave costs nothing;
* the approve endpoint of the approvals service writes APPROVED without the engine, so the mode ALL
  is not asked for; and two approvals at the same time count one vote each, so that the request
  may stay pending with all its rows decided (`EngineQuorum` speaks of the engine's own steps);
* approving a trip again after it was cancelled, and a report after it was paid, is allowed: a report is paid
  as often as it is approved, not once (`PaymentPerApproval`);
* an approval that overlaps an edit generates the allowances of the old dates
  (`AllowancesMatchDates` excepts the trips in `overlapped`);
* a single allowance can be edited whatever the trip's status, and every new approval generates
  all of them again, without the edit (`AllowancesMatchDates` asks for the days always, and for full
  and half days only until an edit);
* two approvals of one trip at the same time do not double its allowances, although no
  index forbids it: the row lock is taken before the old ones are deleted;
* an e-mail that failed while its template was active becomes PENDING after its next try and is looked for by
  nobody: `FailedIsRetried` says that it leaves the list, not that it is sent;
* two requests that generate a sheet of one month at the same time make the month unreadable
  (`OneSheet` excepts the months in `raced`), and of two confirmations at the same time the later one
  overwrites the time of the earlier (`ConfirmedIsFrozen` likewise);
* a sheet shows the days up to the moment it was first asked for, and nothing fills the rest;
* a notification committed late goes before those that waited, so none is promised a place, only that
  it leaves;
* the recalculation of accruals counts manual corrections as accruals and takes them back.

## Proofs

For every value of the constants that their assumptions admit (any number of requests, intervals,
handlers, callbacks, trips, runs, months):

| Theorem | States |
|---|---|
| `LeaveWorkflow_proofs`: `TypeCorrect`; `ApprovalSync_proofs`: `SyncTypeCorrect` | the type invariants |
| `ChargedAtMostOnce` | one group of USAGE entries per request |
| `ApprovedIsInLedger` | an approved request has its flag, and its entries unless its breakdown comes to nothing |
| `NoRefundFromNothing` | a reversal has usage to reverse, also when revoke decided on a stale read |
| `LockedRefundsPayOnce` | cancel and reject together write one group of reversals |
| `RefundsPayOnce` | a request outside `raced` is paid back once, revocations included |
| `LedgerImplementsAccounts` | `Spec` implements `LeaveCharge`, whatever overlaps; an account is disputed once its request is in `raced` |
| `FlagTellsTheLedger` | outside `raced`, a charged request whose flag is cleared has been refunded |
| `WithdrawalsRefund` | outside `raced`, a rejected or cancelled approval has its days returned |
| `ChargesAreForTheDates` | outside `raced`, without modification: a request is charged for its own dates |
| `DaysAreBookedOnce` | outside `raced`, callbacks only, no modification and no reopening: no day is booked twice |
| `ApprovalEngine_proofs`: `TypesCorrect` | the type invariant |
| `EngineKeepsQuorum` | what the engine resolves has the votes its mode asks for, whatever decisions overlap |
| `LevelsAreComplete`, `DecisionsInOrder` | a sequence completes its levels, and approvers decide in its order |
| `WorkflowIsKept` | `SyncSpec` implements `LeaveWorkflow`'s `Spec`, so what is proved of `Spec` holds of the composition |
| `LedgerIsKept` | the ledger invariants, of the composition |
| `AccountsAreKept` | two refinements in a row: `SyncSpec` implements `LeaveCharge` |
| `DatesAreHeldOnce` | `DaysAreBookedOnce` of the composition, where decisions only come through callbacks, whatever the approvals service does |
| `SubmissionsAreAsked` | a pending leave has an approval request, assuming that nobody reopens |
| `ApprovalsAreDecided` | nothing is approved or charged unless an approver once decided for it |
| `LeaveBalance_proofs`: `TypesCorrect`, `RecalculationsBounded` | recalculations never credit more than the contract earns, to half a cent, unless a handler wrote on a stale figure |
| `SubmissionsAreCovered` | under any settings: the balance covers what a submission that could be blocked adds and all that is pending, unless a figure it read had moved |
| `AccrualsAreRecalculated` | the months' runs, each called once, and the recalculation agree to half a cent a month, when no month is short |
| `Expenses_proofs`: `TypesCorrect` | the type invariant |
| `AllowancesAreSingle`, `ApprovedTripsHaveAllowances` | an approved trip has one generation of allowances, whatever overlaps |
| `LinkedTripsExist` | no report names a deleted trip |
| `PaymentsWereApproved` | no report is paid that was never approved |
| `AllowancesAreForTheDates` | outside `overlapped`, an approved trip has an allowance for each day of its dates, as generated until one is edited |
| `PaymentsMatchApprovals` | outside `overlapped`, a report is paid at most once per approval |
| `Notifications_proofs`: `TypesCorrect` | the type invariant |
| `PendingAreUnread` | what was read is not in the queue |
| `OldestAreTaken` | a batch is the oldest `batch_size` of what its transaction sees of the queue, or all of it |
| `SettledAreSettled` | nothing settled comes back into the queue |
| `TriesAreBounded` | no e-mail is tried more often than the limit |
| `Timesheets_proofs`: `TypesCorrect` | the type invariant: a sheet holds days of its own month |
| `SheetsAreSingle`, `ConfirmedSheetsAreFrozen` | one sheet a month, frozen once confirmed, outside the months in `raced` |

Each proof module states its inductive invariant and proves `Init`, one lemma per action (or kind of
action), and the theorems that follow from it.

*LeaveWorkflow.* `IInv` is types and the four ledger invariants. `RefundAnswersCharge` is not
inductive alone: revoke commits on what it read earlier, so `RefundReadsHold` says that what it
read still holds (usage never decreases). A step leaves the ledger alone (`QuietStep`), records
usage (`ChargeStep`) or reverses it (`RefundStep`); each action is one of the three.

`FreshInv` is what a handler outside `stale` may rely on (`Fresh`): every check it made on reading is
still true when it commits (`Checked`: the status is the one it read, and a submission still overlaps
nothing), and so is what it read of the ledger. A commit spares the handlers it does not overtake
(`WriteSpares`). For any number of handlers, the requests outside `raced` are then those that only
such handlers have written: a cleared flag has its reversal (`FlagFollows`), a withdrawal of an approval refunds what was charged
(`WithdrawalStep`), a second reversal finds the first (`ReversalOnce`), a status that holds dates
comes from a submission that found no overlap (`BookingStep`). Without modifications a breakdown is
that of the row's dates (`BreakdownInv`), since editing stops where breakdowns begin.
For the refinement, a commit moves one account (`AccountWrite`): one of a stale handler is a
`Dispute`, and one of another handler charges, refunds or leaves it, because the reversals it has read
are still all there are (`AccountStep`). `double_refund` shows why a revocation that another commit
has overtaken must be left to `Dispute`.

*ApprovalEngine.* `Readings` says of every running decision that what it has read is a lower
bound: the votes it counts are on record, the rows that are pending now were pending when it looked, and none of
them is below the level it knows. `Recorded` says the same of rows for which a condition was approved.
Quorum, completeness of levels and order follow from it action by action, because decisions are only
ever added.

*ApprovalSync.* `SInv` (only a running submission waits for a POST) is added. What a step does to
one handler (`HandlerStep`), one row (`RowStep`), the approval requests (`ApprovalsStep`) and the
callbacks (`CallbackStep`) is stated once; from these, `AskedInv` adds that an answered POST has
created a request, and `FavourInv` that an approval on its way (in a callback, a handler, the
row, the ledger) goes back to an approver.

*LeaveBalance.* `BaseInv` is types and `RecalculationWithinContract`: a fresh recalculation credits
what is missing to `Entitlement`, which never shrinks (`EntitlementGrows`), while the other
actions do not credit recalculations; what the column adds to it in rounding is half a cent at most
(`StoredIsNear`). `SubmissionsChecked` adds that a submission under way was
let through by the figure it read, if its settings block; a step that submits a checked request is
the second half of that submission (`SubmittedBySubmit`), which finds the figure unless `stale`.
`AccruedByRuns` says that the accruals are the stored rate times the runs of the months that earn
one: a sum over months, of which each run raises one term. Between it and the entitlement stands
half a cent for each month (`ErrorsAdd`).

*SumLemmas.* `MapThenSumSet` folds a set in an order of its own (a `CHOOSE` at each step).
`SumTakesAny` shows that the order does not matter, and from it follows what one changed term does
to a sum. These are inductions over the size of a set. The library's induction
theorems take an operator and cannot be applied, so each proof assumes the claim false of some subset,
takes one that is minimal among those (`MinimalSubset`, from the well-foundedness of strict
inclusion) and contradicts it; the function behind the fold is shown to exist in the same way
(`SumsExist`).

*Expenses.* `Base` says that what a handler has read admits its operation (`Admitted`).
`Generations` adds that a trip which some handler has read as APPROVED or COMPLETED has its
allowances: such a handler writes the status back after the trip may have moved. `Grants` adds the
same for payments: a report that is, or was read, APPROVED has been approved. `LinkedTripExists`
rests on the foreign key and the deletion alone. For rows outside `overlapped`, `AloneInv` says
that a handler is the only one on its row, which is as it read it (`AloneTrips`; a report may
have been deleted with its trip, `AloneReports`), and that an approved report has a payment due. An
edit of an allowance keeps the days (`EditsDo`).

*Notifications.* `QueueInv`: read notifications are settled, and what a transaction adds is taken
neither by a row nor by another. `Aged`: `older` is a total order of the rows, those not yet committed
included; a new row comes last, rows that go leave the others in their order (`RowsGo`), and a
commit moves none. A batch takes those that have fewer than `batch_size` before them, which in a
total order are the first ones (`FirstOnes`, which counts with cardinalities): `OldestAreTaken`.
`MailInv`: the counts a retry run has read are below the limit, so what it writes back is at most
the limit, whatever another run has written meanwhile.

`QueueDrains` follows from the fairness of the runs and because each committed batch takes from the
front, while only the transactions that had begun can still put a row there. That argument stays
with TLC.

*Timesheets.* `Shape` gives the types month by month: the sheets of a month and a handler that works
on it hold days of that month (`HeldInMonth`: what the calendar leaves of a month). `Prepared`: a
handler that is to insert saw no row, one that is to write on a row saw a draft. With it a commit
that finds what it saw keeps `OneSheet` and touches no confirmed sheet.

Every type invariant, safety invariant and action property of a run that is expected to pass is proved,
some under assumptions the table names. Only model-checked is liveness: `QueueDrains` and
`FailedIsRetried`. Liveness under fairness and `ENABLED` are out of the
prover's reach. What the violated runs show is a counterexample and needs no proof.

## Not modelled, and why

* *Smart working*: nothing makes an agreement ACTIVE. `create_agreement` writes PENDING, and
  `sign_agreement` reads an attribute that no model defines and raises. Requests, presence and
  attendance all need an active agreement, so only rows of an earlier schema could reach them.
* *Items of expense reports and the expense ledger*: the first cannot be stored, the second is
  called by nobody. Amounts and meals of allowances are data.
* *Partial recall, closures, sickness interruptions, voluntary work*: rows of their own, and
  balance methods with an empty body: nothing they do reaches a balance. Rollover and expiration
  of balances are empty as well.
* *Approval expiration and reminders*: nothing sets a deadline, so they find nothing.
* *Reports, snapshots, statistics, calendar views, delegations*: queries, or rows without a life
  cycle.
* *Frontend, gateway, deployment, audit log, signatures, schemas and migrations*: no state machine;
  the schema was read for constraints.
* *Deadline reminders* keep no record of what they sent.

## What is left of the plan

1. *Configuration cache*: a write against a cache fill; editing workflow configurations between
   two decisions of one request.
2. *MFA*: a code used twice within its window.
3. *Calendar*: working days as a function checked against a reference definition.
4. *Repairs*: the reconciliation scripts run by hand while handlers work.
5. *Abstract queue*: a specification of what the notification queue promises (oldest first of what is
   visible, nothing comes back), which `Notifications` would implement.
