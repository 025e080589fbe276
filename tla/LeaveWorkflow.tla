--------------------------- MODULE LeaveWorkflow ---------------------------
(***************************************************************************)
(* The life of a leave request in the leaves service, with the two things  *)
(* it keeps in step: the row in leave_requests and the USAGE / reversal    *)
(* entries in the time ledger.                                             *)
(*                                                                         *)
(* Every HTTP handler runs in one READ COMMITTED transaction and works in  *)
(* two parts.  It first reads the row and checks it (action Read...); the  *)
(* object keeps the attributes of that first read.  Later it issues its    *)
(* first UPDATE, which takes the row lock, and from there to the commit no *)
(* other handler can write the row, nor commit ledger entries for it       *)
(* (actions Submit, Approve, ...).  Between the two parts any other handler*)
(* may run from start to end.  No handler reads the row again "for update" *)
(* and no UPDATE compares a version.                                       *)
(*                                                                         *)
(* revoke_approval differs: it reads the ledger before its first UPDATE    *)
(* (RevokeReadsLedger), so that read too may be stale when it commits.     *)
(*                                                                         *)
(* The caller's identity is abstracted: an operation reserved to the owner *)
(* is only tried by the owner.  The policy rules that only look at the     *)
(* leave type (notice, length, balance) can refuse a submission and leave  *)
(* no trace, which is a submission that does not start here.               *)
(***************************************************************************)
EXTENDS Integers, FiniteSets

CONSTANTS
    Requests,           \* leave request ids
    Owner,              \* [Requests -> users]
    Periods,            \* intervals of days a request can ask for
    First, Last,        \* [Periods -> days]
    Workless,           \* periods without a working day: weekends, holidays, closures
    MaxDay,             \* bound: the calendar stops here
    ScalesBalance,      \* requests whose leave type has scales_balance
    RequiresApproval,   \* requests whose leave type has requires_approval
    Handlers,           \* handlers that may run at the same time
    Ops,                \* operations the clients use
    Direct,             \* approvers also decide through the leaves service's own endpoints
    NoPeriod            \* deduction_details not set

AllOps == {"edit", "delete", "submit", "cancel", "approve", "approve_conditional",
           "accept", "decline", "reject", "revoke", "reopen", "recall", "modify"}

\* The operations that may write a reversal.
RefundOps == {"cancel", "reject", "revoke"}

\* LeaveRequestStatus; NONE before the row exists, DELETED after it is gone.
\* Nothing in the code sets COMPLETED.
Status == {"NONE", "DRAFT", "PENDING", "APPROVED", "APPROVED_CONDITIONAL",
           "REJECTED", "CANCELLED", "RECALLED", "DELETED"}

ASSUME ConfigAssumption ==
    /\ First \in [Periods -> Int]
    /\ Last \in [Periods -> Int]
    /\ Workless \subseteq Periods
    /\ MaxDay \in Nat
    /\ ScalesBalance \subseteq Requests
    /\ RequiresApproval \subseteq Requests
    /\ Ops \subseteq AllOps
    /\ Direct \in BOOLEAN
    /\ NoPeriod \notin Periods

VARIABLES
    status, period,     \* LeaveRequest.status, start_date/end_date
    details,            \* LeaveRequest.deduction_details: the period it was computed for
    deducted,           \* LeaveRequest.balance_deducted
    usage,              \* groups of USAGE entries that refer to the request
    refunds,            \* groups of LEAVE_CANCELLATION entries, by the operation that wrote them
    tx,                 \* what each running handler has read
    today,
    stale,              \* history: handlers whose reads a commit has overtaken
    raced               \* history: requests a stale handler has written

vars == <<status, period, details, deducted, usage, refunds, tx, today, stale, raced>>
row == <<status, period, details, deducted>>
ledger == <<usage, refunds>>
history == <<stale, raced>>

\* The first reads of a handler: the operation, its request, the status seen, the
\* period it works with, and what revoke read in the ledger.
Tx == [op : AllOps, req : Requests, seen : Status, dates : Periods,
       refund : {"unread", "yes", "no"}]
Idle == [op |-> "idle"]

TypeOK ==
    /\ status \in [Requests -> Status]
    /\ period \in [Requests -> Periods]
    /\ details \in [Requests -> Periods \cup {NoPeriod}]
    /\ deducted \in [Requests -> BOOLEAN]
    /\ usage \in [Requests -> Nat]
    /\ refunds \in [Requests -> [RefundOps -> Nat]]
    /\ tx \in [Handlers -> Tx \cup {Idle}]
    /\ today \in Nat
    /\ stale \subseteq Handlers
    /\ raced \subseteq Requests

Init ==
    /\ status = [r \in Requests |-> "NONE"]
    /\ \E p \in Periods : period = [r \in Requests |-> p]
    /\ details = [r \in Requests |-> NoPeriod]
    /\ deducted = [r \in Requests |-> FALSE]
    /\ usage = [r \in Requests |-> 0]
    /\ refunds = [r \in Requests |-> [o \in RefundOps |-> 0]]
    /\ tx = [h \in Handlers |-> Idle]
    /\ today = 0
    /\ stale = {}
    /\ raced = {}

-----------------------------------------------------------------------------
(* Queries *)

Exists(r) == status[r] \notin {"NONE", "DELETED"}

\* The boundary day is forgotten.
MutantOverlaps(r, p) ==
    \E q \in Requests \ {r} :
        /\ Owner[q] = Owner[r]
        /\ Exists(q)
        /\ status[q] \notin {"REJECTED", "CANCELLED", "DRAFT"}
        /\ First[period[q]] < Last[p]
        /\ Last[period[q]] > First[p]

\* LeaveRequestRepository.check_overlap: another request of the same user in a
\* status that holds its dates.
Overlaps(r, p) ==
    \E q \in Requests \ {r} :
        /\ Owner[q] = Owner[r]
        /\ Exists(q)
        /\ status[q] \notin {"REJECTED", "CANCELLED", "DRAFT"}
        /\ First[period[q]] <= Last[p]
        /\ Last[period[q]] >= First[p]

Refunded(r) == refunds[r]["cancel"] + refunds[r]["reject"] + refunds[r]["revoke"]

\* Two ways to lose a check of reverse_usage: the one for earlier reversals, and the
\* one for original entries.
RepeatedRefundable(r) == usage[r] > 0
UnchargedRefundable(r) == Refunded(r) = 0

\* reverse_usage writes entries when there is usage and no reversal yet.
Refundable(r) == usage[r] > 0 /\ Refunded(r) = 0

-----------------------------------------------------------------------------
(* First part of a handler: read the committed row, check it, go on. *)

Open(h, o, r, p) ==
    /\ o \in Ops
    /\ tx[h] = Idle
    /\ tx' = [tx EXCEPT ![h] = [op |-> o, req |-> r, seen |-> status[r],
                                dates |-> p, refund |-> "unread"]]
    /\ UNCHANGED <<row, ledger, today, history>>

PendingEdit(h, r, p) ==
    /\ status[r] \in {"DRAFT", "PENDING"}
    /\ p # period[r] /\ ~Overlaps(r, p)
    /\ Open(h, "edit", r, p)

ReadEdit(h, r, p) ==
    /\ status[r] = "DRAFT"
    /\ p # period[r] /\ ~Overlaps(r, p)
    /\ Open(h, "edit", r, p)

ReadDelete(h, r) == status[r] = "DRAFT" /\ Open(h, "delete", r, period[r])

ReadSubmit(h, r) ==
    /\ status[r] = "DRAFT"
    /\ ~Overlaps(r, period[r])
    /\ Open(h, "submit", r, period[r])

ReadCancel(h, r) ==
    /\ status[r] \in {"DRAFT", "PENDING", "APPROVED"}
    /\ Open(h, "cancel", r, period[r])

\* The callback from the approvals service adds the guard PENDING; the approver's
\* own endpoint does not.
Decidable(r) == Exists(r) /\ status[r] # "DRAFT" /\ (Direct \/ status[r] = "PENDING")

ReadApprove(h, r) ==
    /\ Decidable(r) /\ status[r] # "APPROVED"
    /\ Open(h, "approve", r, period[r])

ReadApproveConditional(h, r) ==
    /\ status[r] = "PENDING"
    /\ Open(h, "approve_conditional", r, period[r])

ReadAcceptCondition(h, r) ==
    /\ status[r] = "APPROVED_CONDITIONAL"
    /\ \E o \in {"accept", "decline"} : Open(h, o, r, period[r])

ReadReject(h, r) ==
    /\ Decidable(r) /\ status[r] # "REJECTED"
    /\ Open(h, "reject", r, period[r])

ReadRevoke(h, r) ==
    /\ status[r] \in {"APPROVED", "APPROVED_CONDITIONAL"}
    /\ First[period[r]] > today
    /\ Open(h, "revoke", r, period[r])

ReadReopen(h, r) ==
    /\ status[r] \in {"REJECTED", "CANCELLED"}
    /\ First[period[r]] >= today
    /\ Open(h, "reopen", r, period[r])

ReadRecall(h, r) ==
    /\ status[r] \in {"APPROVED", "APPROVED_CONDITIONAL"}
    /\ First[period[r]] <= today
    /\ Open(h, "recall", r, period[r])

ReadModify(h, r, p) ==
    /\ status[r] \in {"APPROVED", "APPROVED_CONDITIONAL"}
    /\ First[period[r]] > today
    /\ p # period[r] /\ First[p] >= today
    /\ Open(h, "modify", r, p)

\* _restore_balance of revoke_approval looks for a reversal before any UPDATE.
RevokeReadsLedger(h) ==
    /\ tx[h].op = "revoke" /\ tx[h].seen = "APPROVED" /\ tx[h].refund = "unread"
    /\ tx' = [tx EXCEPT ![h].refund = IF Refundable(tx[h].req) THEN "yes" ELSE "no"]
    /\ UNCHANGED <<row, ledger, today, history>>

-----------------------------------------------------------------------------
(* Second part: UPDATE, ledger entries and commit, under the row lock. *)

\* The handlers that run beside h and have read what it writes: the row, or, when they
\* looked for overlaps, the rows of the same user.
Overtaken(h) ==
    {k \in Handlers \ {h} : tx[k] # Idle /\ Owner[tx[k].req] = Owner[tx[h].req]}

\* The row is still there, and the transaction ends.  History: who has been overtaken by
\* it, and whether it had been itself.
Commit(h, o) ==
    /\ tx[h].op = o
    /\ Exists(tx[h].req)
    /\ tx' = [tx EXCEPT ![h] = Idle]
    /\ stale' = (stale \ {h}) \cup Overtaken(h)
    /\ raced' = IF h \in stale THEN raced \cup {tx[h].req} ELSE raced
    /\ UNCHANGED today

SetStatus(r, s) == status' = [status EXCEPT ![r] = s]

\* What a breakdown charges: nothing for a leave type that scales no balance, nor for
\* dates without a working day; the length of the others is not told apart.
Amount(d) == IF d \in Workless \cup {NoPeriod} THEN 0 ELSE 1

\* Without its idempotency check.
RepeatedRecordUsage(r, d) ==
    /\ usage' = IF Amount(d) = 0 THEN usage ELSE [usage EXCEPT ![r] = @ + 1]
    /\ deducted' = [deducted EXCEPT ![r] = TRUE]
    /\ UNCHANGED refunds

\* record_usage, then balance_deducted = True whatever it did: no entries when there are
\* some already, nor for a breakdown that is empty or comes to nothing.
RecordUsage(r, d) ==
    /\ usage' = IF usage[r] > 0 \/ Amount(d) = 0 THEN usage
                ELSE [usage EXCEPT ![r] = @ + 1]
    /\ deducted' = [deducted EXCEPT ![r] = TRUE]
    /\ UNCHANGED refunds

\* The entries carry the wrong sign; the flag goes and the entries do not follow.
NegativeReverseUsage(r, o, write) ==
    /\ refunds' = IF write THEN [refunds EXCEPT ![r][o] = @ - 1] ELSE refunds
    /\ deducted' = [deducted EXCEPT ![r] = FALSE]
    /\ UNCHANGED usage

FlagOnlyReverseUsage(r, o, write) ==
    /\ deducted' = [deducted EXCEPT ![r] = FALSE]
    /\ UNCHANGED ledger

\* reverse_usage, then balance_deducted = False.
ReverseUsage(r, o, write) ==
    /\ refunds' = IF write THEN [refunds EXCEPT ![r][o] = @ + 1] ELSE refunds
    /\ deducted' = [deducted EXCEPT ![r] = FALSE]
    /\ UNCHANGED usage

Create(r, p) ==
    /\ status[r] = "NONE"
    /\ ~Overlaps(r, p)
    /\ SetStatus(r, "DRAFT")
    /\ period' = [period EXCEPT ![r] = p]
    /\ UNCHANGED <<details, deducted, ledger, tx, today, history>>

Edit(h) ==
    /\ Commit(h, "edit")
    /\ period' = [period EXCEPT ![tx[h].req] = tx[h].dates]
    /\ UNCHANGED <<status, details, deducted, ledger>>

Delete(h) ==
    /\ Commit(h, "delete")
    /\ SetStatus(tx[h].req, "DELETED")
    /\ UNCHANGED <<period, details, deducted, ledger>>

\* The breakdown policy validation computed, for the dates it read.
Breakdown(h) == IF tx[h].req \in ScalesBalance THEN tx[h].dates ELSE NoPeriod

Submit(h) ==
    LET r == tx[h].req IN
    /\ Commit(h, "submit")
    /\ details' = [details EXCEPT ![r] = Breakdown(h)]
    /\ UNCHANGED period
    /\ \/ /\ r \in RequiresApproval
          /\ SetStatus(r, "PENDING")
          /\ UNCHANGED <<deducted, ledger>>
       \/ /\ r \notin RequiresApproval
          /\ SetStatus(r, "APPROVED")
          /\ RecordUsage(r, Breakdown(h))

\* After its UPDATE the handler's object is refreshed: deduction_details and
\* balance_deducted are current, the status it branches on is the one first seen.
Approve(h) ==
    LET r == tx[h].req IN
    /\ Commit(h, "approve")
    /\ SetStatus(r, "APPROVED")
    /\ RecordUsage(r, details[r])
    /\ UNCHANGED <<period, details>>

ApproveConditional(h) ==
    /\ Commit(h, "approve_conditional")
    /\ SetStatus(tx[h].req, "APPROVED_CONDITIONAL")
    /\ UNCHANGED <<period, details, deducted, ledger>>

FreeAcceptCondition(h) ==
    /\ Commit(h, "accept")
    /\ SetStatus(tx[h].req, "APPROVED")
    /\ UNCHANGED <<period, details, deducted, ledger>>

AcceptCondition(h) ==
    LET r == tx[h].req IN
    /\ Commit(h, "accept")
    /\ SetStatus(r, "APPROVED")
    /\ RecordUsage(r, details[r])
    /\ UNCHANGED <<period, details>>

DeclineCondition(h) ==
    /\ Commit(h, "decline")
    /\ SetStatus(tx[h].req, "CANCELLED")
    /\ UNCHANGED <<period, details, deducted, ledger>>

UnrefundedReject(h) ==
    /\ Commit(h, "reject")
    /\ SetStatus(tx[h].req, "REJECTED")
    /\ UNCHANGED <<period, details, deducted, ledger>>

Reject(h) ==
    LET r == tx[h].req IN
    /\ Commit(h, "reject")
    /\ SetStatus(r, "REJECTED")
    /\ IF tx[h].seen = "APPROVED"
       THEN ReverseUsage(r, "reject", Refundable(r))
       ELSE UNCHANGED <<deducted, ledger>>
    /\ UNCHANGED <<period, details>>

Cancel(h) ==
    LET r == tx[h].req IN
    /\ Commit(h, "cancel")
    /\ SetStatus(r, "CANCELLED")
    /\ IF tx[h].seen = "APPROVED" /\ deducted[r]
       THEN ReverseUsage(r, "cancel", Refundable(r))
       ELSE UNCHANGED <<deducted, ledger>>
    /\ UNCHANGED <<period, details>>

Revoke(h) ==
    LET r == tx[h].req IN
    /\ Commit(h, "revoke")
    /\ SetStatus(r, "REJECTED")
    /\ IF tx[h].seen = "APPROVED"
       THEN /\ tx[h].refund # "unread"
            /\ ReverseUsage(r, "revoke", tx[h].refund = "yes")
       ELSE UNCHANGED <<deducted, ledger>>
    /\ UNCHANGED <<period, details>>

Reopen(h) ==
    /\ Commit(h, "reopen")
    /\ SetStatus(tx[h].req, "PENDING")
    /\ UNCHANGED <<period, details, deducted, ledger>>

\* restore_partial_balance is an empty method: the ledger does not change.
Recall(h) ==
    /\ Commit(h, "recall")
    /\ SetStatus(tx[h].req, "RECALLED")
    /\ UNCHANGED <<period, details, deducted, ledger>>

\* deduct_balance and restore_partial_balance are empty methods too.
Modify(h) ==
    /\ Commit(h, "modify")
    /\ period' = [period EXCEPT ![tx[h].req] = tx[h].dates]
    /\ UNCHANGED <<status, details, deducted, ledger>>

\* An error, a lost client or a crash: get_db rolls back.
Rollback(h) ==
    /\ tx[h] # Idle
    /\ tx' = [tx EXCEPT ![h] = Idle]
    /\ stale' = stale \ {h}
    /\ UNCHANGED <<row, ledger, today, raced>>

Midnight ==
    /\ today < MaxDay
    /\ today' = today + 1
    /\ UNCHANGED <<row, ledger, tx, history>>

-----------------------------------------------------------------------------

Read(h, r) ==
    \/ ReadDelete(h, r) \/ ReadSubmit(h, r) \/ ReadCancel(h, r)
    \/ ReadApprove(h, r) \/ ReadApproveConditional(h, r) \/ ReadAcceptCondition(h, r)
    \/ ReadReject(h, r) \/ ReadRevoke(h, r) \/ ReadReopen(h, r) \/ ReadRecall(h, r)
    \/ \E p \in Periods : ReadEdit(h, r, p) \/ ReadModify(h, r, p)

Write(h) ==
    \/ Edit(h) \/ Delete(h) \/ Submit(h) \/ Cancel(h) \/ Approve(h)
    \/ ApproveConditional(h) \/ AcceptCondition(h) \/ DeclineCondition(h)
    \/ Reject(h) \/ Revoke(h) \/ Reopen(h) \/ Recall(h) \/ Modify(h)

Next ==
    \/ \E r \in Requests, p \in Periods : Create(r, p)
    \/ \E h \in Handlers, r \in Requests : Read(h, r)
    \/ \E h \in Handlers : RevokeReadsLedger(h) \/ Write(h) \/ Rollback(h)
    \/ Midnight

Spec == Init /\ [][Next]_vars

-----------------------------------------------------------------------------
(* What the handlers keep, however they interleave. *)

\* A request is charged once, whatever number of approvals and acceptances race:
\* record_usage looks for entries after the UPDATE that took the row lock.
UsageOnce == \A r \in Requests : usage[r] <= 1

\* An approved request has its flag, and its USAGE entry too unless its breakdown comes
\* to nothing, whoever approved it and whatever withdrawal overlapped.
ChargedWhenApproved ==
    \A r \in Requests :
        status[r] = "APPROVED" => deducted[r] /\ (usage[r] > 0 \/ Amount(details[r]) = 0)

\* No refund without a charge.
RefundAnswersCharge == \A r \in Requests : Refunded(r) > 0 => usage[r] > 0

\* The withdrawals that look for a reversal under the row lock never pay a second
\* one, however often the request is approved again.
LockedRefundOnce == \A r \in Requests : refunds[r]["cancel"] + refunds[r]["reject"] <= 1

(* What they keep for the requests that no handler wrote on stale reads: what a    *)
(* version column on the row would give.                                          *)

\* The usage is paid back once, revocations included and however often the request is
\* approved again: a second reversal takes two withdrawals that overlap.
UnracedRefundOnce == \A r \in Requests \ raced : Refunded(r) <= 1

\* An approval that is withdrawn gives back what it had charged: days are only lost to a
\* withdrawal that overlaps an approval.
WithdrawalRefunds ==
    [][\A r \in Requests :
        status[r] = "APPROVED" /\ status'[r] \in {"REJECTED", "CANCELLED"}
        /\ usage[r] > 0 /\ r \notin raced'
            => Refunded(r)' > 0]_vars

\* The breakdown a charge is taken from was computed for the dates the request has
\* (modify_approved_request apart, which does not compute another).
ChargedForItsDates ==
    \A r \in Requests \ raced :
        status[r] = "APPROVED" /\ details[r] # NoPeriod => details[r] = period[r]

\* Two requests of one user that both hold their dates have no day in common, unless a
\* submission was overtaken after it looked for overlaps.
NoDoubleBooking ==
    \A q, r \in Requests \ raced :
        q # r /\ Owner[q] = Owner[r]
        /\ {status[q], status[r]} \subseteq {"PENDING", "APPROVED", "APPROVED_CONDITIONAL", "RECALLED"}
            => Last[period[q]] < First[period[r]] \/ Last[period[r]] < First[period[q]]

\* balance_deducted tells the truth about the ledger: cleared on a charged request,
\* a reversal exists.
FlagMatchesLedger ==
    \A r \in Requests \ raced : usage[r] > 0 /\ ~deducted[r] => Refunded(r) > 0

\* The ledger behaves as one account per request: charged once, then refunded once.
Account(r) ==
    CASE r \in raced -> "disputed"
      [] r \notin raced /\ usage[r] = 0 /\ Refunded(r) = 0 -> "uncharged"
      [] r \notin raced /\ usage[r] = 1 /\ Refunded(r) = 0 -> "charged"
      [] r \notin raced /\ usage[r] = 1 /\ Refunded(r) = 1 -> "refunded"
      [] OTHER -> "overdrawn"

Ledger == INSTANCE LeaveCharge WITH account <- [r \in Requests |-> Account(r)]
LedgerKeepsAccounts == Ledger!Spec

(* What the comments of the code promise and the code does not do. *)

\* "Check for existing reversals (idempotency)" (ledger/service.py): one reversal at
\* most answers the usage of a request.
RefundOnce == \A r \in Requests : Refunded(r) <= 1
=============================================================================
