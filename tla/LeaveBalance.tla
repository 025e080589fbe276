---------------------------- MODULE LeaveBalance ----------------------------
(***************************************************************************)
(* The balance of one employee for one year and one kind of leave: what    *)
(* the contract earns (monthly accruals, recalculation), what an           *)
(* administrator adds or takes, what leave requests use, and the check of  *)
(* the balance when a request is submitted.                                *)
(*                                                                         *)
(* Balances are computed from the entries of the time ledger.  The entries *)
(* of accruals and adjustments carry the name the summary asks for         *)
(* (VACATION_AC, ROL, PERMITS); the usage of a request and its reversal    *)
(* carry the balance_type of the leave type (vacation, rol, permits),      *)
(* which no summary asks for.                                              *)
(*                                                                         *)
(* The submission and the recalculation read the balance first and write   *)
(* later, in READ COMMITTED transactions that lock nothing of the balance; *)
(* the other operations do not look at it.  The life of a request is       *)
(* reduced to what moves balances; LeaveWorkflow has the whole of it.      *)
(*                                                                         *)
(* Amounts are whole numbers of a fraction of a cent, of which Cent make a *)
(* hundredth: rates such as 22/12 days a month are computed unrounded, and *)
(* an entry of the ledger, Numeric(6, 2), rounds what it is given.         *)
(***************************************************************************)
EXTENDS Integers, FiniteSets, FiniteSetsExt

CONSTANTS
    Requests,           \* leave requests of this kind
    Days,               \* [Requests -> Nat]: days_requested
    Policies,           \* settings a submission may find (see Policy)
    Counted,            \* requests whose leave type has the code the summary counts (FER, ROL, PER)
    Handlers,           \* handlers that may run at the same time
    LastMonth,          \* bound: the year is LastMonth months long
    Worked,             \* [1 .. LastMonth -> Nat]: days of the month the contract covers
    Cent,               \* a hundredth, the precision of the ledger
    Rate,               \* what a month earns, unrounded
    MinDays,            \* days of a month that earn its accrual
    MaxRuns,            \* bound: accrual runs of one month
    MaxAmount           \* bound: what adjustments add, and take

\* blocks: an insufficient balance is an error (leaves.block_insufficient_balance, for a
\* leave type without allow_negative_balance) and not a warning at most;
\* approval: requires_approval of the leave type.  Both are read at each submission.
Policy == [blocks : BOOLEAN, approval : BOOLEAN]

Months == 1 .. LastMonth
Status == {"DRAFT", "PENDING", "APPROVED", "CLOSED"}

ASSUME BalanceAssumption ==
    /\ IsFiniteSet(Requests)
    /\ Days \in [Requests -> Nat]
    /\ Counted \subseteq Requests
    /\ Policies \subseteq Policy
    /\ LastMonth \in Nat \ {0}
    /\ Worked \in [Months -> Nat]
    /\ Cent \in Nat \ {0} /\ Rate \in Nat
    /\ MinDays \in Nat \ {0}

VARIABLES
    status,             \* LeaveRequest.status; PENDING also for conditional approvals,
                        \* CLOSED when rejected or cancelled
    valued,             \* requests with deduction_details
    accrued, manual,    \* ACCRUAL and manual ADJUSTMENT_ADD entries, summed
    recalculated,       \* ADJUSTMENT_ADD entries of recalculations
    subtracted,         \* ADJUSTMENT_SUB entries
    charged, refunded,  \* requests with USAGE entries, and with reversals of them
    runs,               \* accrual runs of each month
    now,                \* the current month
    tx,                 \* what each running handler has read
    stale               \* history: a handler wrote after the figure it had read changed

ledger == <<accrued, manual, recalculated, subtracted, charged, refunded>>
vars == <<status, valued, ledger, runs, now, tx, stale>>

-----------------------------------------------------------------------------
(* Balances *)

DaysOf(S) == MapThenSumSet(LAMBDA r : Days[r], S)

\* What the column keeps of an amount: the nearest hundredth, halves up.
Stored(x) == Cent * ((2 * x + Cent) \div (2 * Cent))

\* get_balance_summary
Credited == accrued + manual + recalculated
Debited == subtracted
Net == Credited - Debited

\* get_pending_by_user_and_year, by the code of the leave type.
Pending == DaysOf({r \in Counted : status[r] = "PENDING"})

\* The pending days left out.
UnreservedForNew == Net

\* validate_request: the summary has subtracted the pending days already.
ForNew == (Net - Pending) - Pending

\* The month under way left out.
PastEntitlement == Rate * Cardinality({m \in 1 .. now - 1 : Worked[m] > 0})

\* _calculate_accrual_preview: every month begun in which the contract covers a day.
Entitlement == Rate * Cardinality({m \in 1 .. now : Worked[m] > 0})

\* record_usage writes no entry for an amount of zero.
UsageOf(S) == {r \in S : Days[r] > 0}

Idle == [op |-> "idle"]

TypeOK ==
    /\ status \in [Requests -> Status]
    /\ valued \subseteq Requests
    /\ accrued \in Nat /\ manual \in Nat /\ recalculated \in Nat /\ subtracted \in Nat
    /\ charged \subseteq Requests /\ refunded \subseteq Requests
    /\ runs \in [Months -> Nat]
    /\ now \in Months
    /\ stale \in BOOLEAN
    /\ \A h \in Handlers :
        \/ tx[h] = Idle
        \/ tx[h].op = "submit" /\ tx[h].req \in Requests /\ tx[h].policy \in Policy
        \/ tx[h].op = "recalculate" /\ tx[h].delta \in Int

Init ==
    /\ status = [r \in Requests |-> "DRAFT"]
    /\ valued = {}
    /\ accrued = 0 /\ manual = 0 /\ recalculated = 0 /\ subtracted = 0
    /\ charged = {} /\ refunded = {}
    /\ runs = [m \in Months |-> 0]
    /\ now = 1
    /\ tx = [h \in Handlers |-> Idle]
    /\ stale = FALSE

-----------------------------------------------------------------------------
(* Operations that read the balance *)

\* submit_request up to the balance check: where an insufficient balance is no error, the
\* request passes, with a warning or without.
CheckSubmission(h, r, p) ==
    /\ tx[h] = Idle
    /\ status[r] = "DRAFT"
    /\ p.blocks => Days[r] <= ForNew
    /\ tx' = [tx EXCEPT ![h] = [op |-> "submit", req |-> r, seen |-> ForNew, policy |-> p]]
    /\ UNCHANGED <<status, valued, ledger, runs, now, stale>>

\* The rest of it: a request that requires no approval is approved and charged at once.
Submit(h) ==
    /\ tx[h].op = "submit"
    /\ valued' = valued \union {tx[h].req}
    /\ IF tx[h].policy.approval
       THEN /\ status' = [status EXCEPT ![tx[h].req] = "PENDING"]
            /\ UNCHANGED charged
       ELSE /\ status' = [status EXCEPT ![tx[h].req] = "APPROVED"]
            /\ charged' = charged \union UsageOf({tx[h].req})
    /\ stale' = (stale \/ tx[h].seen # ForNew \/ status[tx[h].req] # "DRAFT")
    /\ tx' = [tx EXCEPT ![h] = Idle]
    /\ UNCHANGED <<accrued, manual, recalculated, subtracted, refunded, runs, now>>

\* Measured against the accruals only.
AccrualShortfall == Entitlement - accrued

\* recalculate_user_accrual: what should be there less what is.
Shortfall == Entitlement - Credited

ReadAccruals(h) ==
    /\ tx[h] = Idle
    /\ tx' = [tx EXCEPT ![h] = [op |-> "recalculate", delta |-> Shortfall]]
    /\ UNCHANGED <<status, valued, ledger, runs, now, stale>>

\* The sign of the difference ignored.
SignedRecalculate(h) ==
    /\ tx[h].op = "recalculate"
    /\ recalculated' = recalculated + tx[h].delta
    /\ stale' = (stale \/ tx[h].delta # Shortfall)
    /\ tx' = [tx EXCEPT ![h] = Idle]
    /\ UNCHANGED <<status, valued, accrued, manual, subtracted, charged, refunded, runs, now>>

\* A positive difference is a credit, a negative one a debit.
Recalculate(h) ==
    /\ tx[h].op = "recalculate"
    /\ tx[h].delta < 0 => subtracted + Stored(-tx[h].delta) <= MaxAmount
    /\ IF tx[h].delta >= 0
       THEN recalculated' = recalculated + Stored(tx[h].delta) /\ UNCHANGED subtracted
       ELSE subtracted' = subtracted + Stored(-tx[h].delta) /\ UNCHANGED recalculated
    /\ stale' = (stale \/ tx[h].delta # Shortfall)
    /\ tx' = [tx EXCEPT ![h] = Idle]
    /\ UNCHANGED <<status, valued, accrued, manual, charged, refunded, runs, now>>

Rollback(h) ==
    /\ tx[h] # Idle
    /\ tx' = [tx EXCEPT ![h] = Idle]
    /\ UNCHANGED <<status, valued, ledger, runs, now, stale>>

-----------------------------------------------------------------------------
(* Operations that do not *)

\* run_monthly_accruals, for any month, as often as it is called: each entry is rounded.
RunMonthlyAccruals(m) ==
    /\ runs[m] < MaxRuns
    /\ runs' = [runs EXCEPT ![m] = @ + 1]
    /\ accrued' = accrued + IF Worked[m] >= MinDays THEN Stored(Rate) ELSE 0
    /\ UNCHANGED <<status, valued, manual, recalculated, subtracted, charged, refunded, now,
                   tx, stale>>

\* adjust_balance, import_balances
AdjustBalance(n) ==
    /\ IF n > 0 THEN manual + n <= MaxAmount ELSE subtracted - n <= MaxAmount
    /\ IF n > 0
       THEN manual' = manual + n /\ UNCHANGED subtracted
       ELSE subtracted' = subtracted - n /\ UNCHANGED manual
    /\ UNCHANGED <<status, valued, accrued, recalculated, charged, refunded, runs, now, tx,
                   stale>>

\* The usage of an approved request is recorded, once (record_usage), if it has a breakdown.
Approve(r) ==
    /\ status[r] = "PENDING"
    /\ status' = [status EXCEPT ![r] = "APPROVED"]
    /\ charged' = charged \union UsageOf({r} \intersect valued)
    /\ UNCHANGED <<valued, accrued, manual, recalculated, subtracted, refunded, runs, now, tx,
                   stale>>

\* A pending request is rejected or cancelled, or a draft cancelled.
Close(r) ==
    /\ status[r] \in {"DRAFT", "PENDING"}
    /\ status' = [status EXCEPT ![r] = "CLOSED"]
    /\ UNCHANGED <<valued, ledger, runs, now, tx, stale>>

\* An approved one is cancelled or revoked: its usage is reversed, once (reverse_usage).
Withdraw(r) ==
    /\ status[r] = "APPROVED"
    /\ status' = [status EXCEPT ![r] = "CLOSED"]
    /\ refunded' = refunded \union (charged \intersect {r})
    /\ UNCHANGED <<valued, accrued, manual, recalculated, subtracted, charged, runs, now, tx,
                   stale>>

\* reopen_request: pending again, with no look at the balance.
Reopen(r) ==
    /\ status[r] = "CLOSED"
    /\ status' = [status EXCEPT ![r] = "PENDING"]
    /\ UNCHANGED <<valued, ledger, runs, now, tx, stale>>

NextMonth ==
    /\ now < LastMonth
    /\ now' = now + 1
    /\ UNCHANGED <<status, valued, ledger, runs, tx, stale>>

Next ==
    \/ \E h \in Handlers :
        \/ \E r \in Requests, p \in Policies : CheckSubmission(h, r, p)
        \/ Submit(h) \/ ReadAccruals(h) \/ Recalculate(h) \/ Rollback(h)
    \/ \E m \in Months : RunMonthlyAccruals(m)
    \/ \E n \in {-Cent, Cent} : AdjustBalance(n)
    \/ \E r \in Requests : Approve(r) \/ Close(r) \/ Withdraw(r) \/ Reopen(r)
    \/ NextMonth

Spec == Init /\ [][Next]_vars

-----------------------------------------------------------------------------
\* The step submits r, which an insufficient balance would have stopped, with the figures
\* its check had read.
SubmitsChecked(h, r) ==
    /\ tx[h].op = "submit" /\ tx[h].req = r /\ tx[h].policy.blocks /\ tx'[h] = Idle
    /\ status[r] = "DRAFT" /\ status'[r] \in {"PENDING", "APPROVED"}
    /\ ~stale'

\* Where an insufficient balance blocks, and no handler wrote on a balance that had moved,
\* a request is let through only when the balance covers it together with everything that
\* is pending, whoever made that pending: requests that only drew a warning, or that were
\* reopened without a check, are counted against the ones that come after them.
PendingIsCovered ==
    [][\A h \in Handlers, r \in Requests :
        SubmitsChecked(h, r) => Pending + Days[r] <= Net]_vars

\* Likewise, recalculations never credit more than the contract earns, rounded to a cent,
\* whatever accruals, corrections and requests come between them.
RecalculationWithinContract == ~stale => 2 * recalculated <= 2 * Entitlement + Cent

Distance(a, b) == IF a >= b THEN a - b ELSE b - a

\* The two ways to compute accruals agree up to rounding: when every month begun was accrued
\* once, none ahead of its time, and none is short, a recalculation finds half a cent to
\* correct for each month at most, which is what the entries of the job lost or gained.
AccrualsAgree ==
    (/\ \A m \in Months : runs[m] = IF m <= now THEN 1 ELSE 0
     /\ \A m \in 1 .. now : Worked[m] \notin 1 .. MinDays - 1
     /\ manual = 0 /\ recalculated = 0) => 2 * Distance(Entitlement, Credited) <= now * Cent

(* What a comment promises and the code does not do. *)

\* "Record balance usage when leave is approved" (ledger/service.py), so that the days of
\* approved requests cannot be asked for again.
ApprovedIsReserved ==
    [][\A h \in Handlers, r \in Requests :
        SubmitsChecked(h, r) => Pending + Days[r] + DaysOf(charged \ refunded) <= Net]_vars
=============================================================================
