------------------------------ MODULE Expenses ------------------------------
(***************************************************************************)
(* Business trips, their daily allowances and the expense reports filed    *)
(* for them.                                                               *)
(*                                                                         *)
(* A handler runs in one READ COMMITTED transaction.  It reads the row and *)
(* checks its status (ReadTrip, ReadReport, ReadForReport), and later      *)
(* issues an UPDATE that takes the row lock, held to the commit (the other *)
(* actions).  The repository reads the row again before the UPDATE, but    *)
(* the session keeps the object it has: the columns keep the values of the *)
(* first read, and a column is written only when its value differs from    *)
(* them.  No UPDATE compares a version; an UPDATE of a deleted row fails   *)
(* (Rollback).                                                             *)
(*                                                                         *)
(* The caller's identity, the texts and the amounts are left out (of an    *)
(* allowance only whether its day is full or half is kept).  So are        *)
(* the items of a report (add_item names a column the table does not have  *)
(* and always fails) and the decisions of the approvals service (its       *)
(* callback reaches no method of this service): trips and reports are      *)
(* decided through their own endpoints.                                    *)
(***************************************************************************)
EXTENDS Integers, Sequences, FiniteSets

CONSTANTS
    Trips, Reports,     \* ids
    Periods,            \* intervals of days of a trip
    First, Last,        \* [Periods -> days]
    NoTrip,             \* trip_id is null
    Handlers,           \* handlers that may run at the same time
    MaxApprovals        \* bound: approvals, and payments, of one report

TripOps == {"update", "submit", "approve", "reject", "complete", "delete", "cancel"}
ReportOps == {"submit", "approve", "reject", "pay", "delete", "cancel"}

\* NONE before the row exists, DELETED after.  Nothing writes SUBMITTED in a trip.
TripStatus == {"NONE", "DRAFT", "PENDING", "APPROVED", "REJECTED", "CANCELLED",
               "COMPLETED", "DELETED"}
ReportStatus == {"NONE", "DRAFT", "SUBMITTED", "APPROVED", "REJECTED", "CANCELLED",
                 "PAID", "DELETED"}
Gone == {"NONE", "DELETED"}

ASSUME ExpensesAssumption ==
    /\ First \in [Periods -> Int]
    /\ Last \in [Periods -> Int]
    /\ \A p \in Periods : First[p] <= Last[p]
    /\ NoTrip \notin Trips
    /\ IsFiniteSet(Reports)
    /\ MaxApprovals \in Nat

VARIABLES
    trip,               \* BusinessTrip.status
    period,             \* start_date, end_date
    allowances,         \* the generations of DailyAllowance rows a trip has
    report,             \* ExpenseReport.status
    link,               \* ExpenseReport.trip_id
    number,             \* the counter in ExpenseReport.report_number
    granted, paid,      \* history: approvals and payments of a report
    edited,             \* history: trips with an allowance edited since they were generated
    overlapped,         \* history: trips and reports two handlers worked on at once
    tx                  \* what each running handler has read

trips == <<trip, period, allowances, edited>>
reports == <<report, link, number, granted, paid>>
vars == <<trips, reports, overlapped, tx>>

Idle == [kind |-> "idle"]
TripTx == [kind : {"trip"}, op : TripOps, id : Trips, seen : TripStatus, dates : Periods,
           new : Periods, loaded : SUBSET Reports]
ReportTx == [kind : {"report"}, op : ReportOps, id : Reports, seen : ReportStatus]
FileTx == [kind : {"file"}, trip : Trips \cup {NoTrip}, number : Nat]

\* DailyAllowance.is_full_day of each day that has a row.
Kinds == {"full", "half"}
Generation == UNION {[First[p] .. Last[p] -> Kinds] : p \in Periods}

\* generate_allowances: a row per day; first and last day are half days, unless they
\* are the same.
Days(p) == [d \in First[p] .. Last[p] |->
              IF d \notin {First[p], Last[p]} \/ First[p] = Last[p] THEN "full" ELSE "half"]

TypeOK ==
    /\ trip \in [Trips -> TripStatus]
    /\ period \in [Trips -> Periods]
    /\ allowances \in [Trips -> Seq(Generation)]
    /\ report \in [Reports -> ReportStatus]
    /\ link \in [Reports -> Trips \cup {NoTrip}]
    /\ number \in [Reports -> Nat]
    /\ granted \in [Reports -> Nat]
    /\ paid \in [Reports -> Nat]
    /\ edited \subseteq Trips
    /\ overlapped \subseteq Trips \cup Reports
    /\ tx \in [Handlers -> {Idle} \cup TripTx \cup ReportTx \cup FileTx]

Init ==
    /\ trip = [t \in Trips |-> "NONE"]
    /\ period \in [Trips -> Periods]
    /\ allowances = [t \in Trips |-> <<>>]
    /\ report = [r \in Reports |-> "NONE"]
    /\ link = [r \in Reports |-> NoTrip]
    /\ number = [r \in Reports |-> 0]
    /\ granted = [r \in Reports |-> 0]
    /\ paid = [r \in Reports |-> 0]
    /\ edited = {}
    /\ overlapped = {}
    /\ tx = [h \in Handlers |-> Idle]

-----------------------------------------------------------------------------
(* First part of a handler *)

\* History: handlers that work on the trip or report x now.
Meet(kind, x) ==
    overlapped' = IF \E g \in Handlers : tx[g].kind = kind /\ tx[g].id = x
                  THEN overlapped \cup {x} ELSE overlapped

\* update_trip without its test.
EditableTripFrom == [o \in TripOps |->
    CASE o = "update" -> TripStatus \ Gone
      [] o \in {"submit", "delete"} -> {"DRAFT"}
      [] o \in {"approve", "reject"} -> TripStatus \ (Gone \cup {"DRAFT"})
      [] o = "complete" -> {"APPROVED"}
      [] o = "cancel" -> {"PENDING", "APPROVED"}]

\* The statuses from which a handler goes on.
TripFrom == [o \in TripOps |->
    CASE o \in {"update", "submit", "delete"} -> {"DRAFT"}
      [] o \in {"approve", "reject"} -> TripStatus \ (Gone \cup {"DRAFT"})
      [] o = "complete" -> {"APPROVED"}
      [] o = "cancel" -> {"PENDING", "APPROVED"}]

\* mark_paid with the test of approve_report.
LaxReportFrom == [o \in ReportOps |->
    CASE o \in {"submit", "delete"} -> {"DRAFT"}
      [] o \in {"approve", "reject", "pay"} -> ReportStatus \ (Gone \cup {"DRAFT"})
      [] o = "cancel" -> {"SUBMITTED", "APPROVED"}]

\* mark_paid that lets a paid report through.
RepayReportFrom == [o \in ReportOps |->
    CASE o \in {"submit", "delete"} -> {"DRAFT"}
      [] o \in {"approve", "reject"} -> ReportStatus \ (Gone \cup {"DRAFT"})
      [] o = "pay" -> {"APPROVED", "PAID"}
      [] o = "cancel" -> {"SUBMITTED", "APPROVED"}]

ReportFrom == [o \in ReportOps |->
    CASE o \in {"submit", "delete"} -> {"DRAFT"}
      [] o \in {"approve", "reject"} -> ReportStatus \ (Gone \cup {"DRAFT"})
      [] o = "pay" -> {"APPROVED"}
      [] o = "cancel" -> {"SUBMITTED", "APPROVED"}]

\* get_trip, with its reports (selectinload; only a deletion uses them), and the check of
\* the status.
ReadTrip(h, o, t, p) ==
    /\ tx[h] = Idle
    /\ trip[t] \in TripFrom[o]
    /\ o = "update" \/ p = period[t]
    /\ tx' = [tx EXCEPT ![h] = [kind |-> "trip", op |-> o, id |-> t, seen |-> trip[t],
                                dates |-> period[t], new |-> p,
                                loaded |-> {r \in Reports :
                                    o = "delete" /\ report[r] \notin Gone /\ link[r] = t}]]
    /\ Meet("trip", t)
    /\ UNCHANGED <<trips, reports>>

ReadReport(h, o, r) ==
    /\ tx[h] = Idle
    /\ report[r] \in ReportFrom[o]
    /\ tx' = [tx EXCEPT ![h] = [kind |-> "report", op |-> o, id |-> r, seen |-> report[r]]]
    /\ Meet("report", r)
    /\ UNCHANGED <<trips, reports>>

\* generate_report_number: one more than the reports of the year.
NextNumber == Cardinality({r \in Reports : report[r] \notin Gone}) + 1

\* create_report: the trip exists, whatever its status.  Bound: an id is left.
ReadForReport(h, t) ==
    /\ tx[h] = Idle
    /\ \E r \in Reports : report[r] = "NONE"
    /\ t # NoTrip => trip[t] \notin Gone
    /\ tx' = [tx EXCEPT ![h] = [kind |-> "file", trip |-> t, number |-> NextNumber]]
    /\ UNCHANGED <<trips, reports, overlapped>>

-----------------------------------------------------------------------------
(* Second part: UPDATE and commit *)

\* The value a column has after an assignment: not written when it is the one read.
Assigned(seen, value, current) == IF value = seen THEN current ELSE value

SetTrip(h, o, s) ==
    LET t == tx[h].id IN
    /\ tx[h].kind = "trip" /\ tx[h].op = o
    /\ trip[t] \notin Gone
    /\ trip' = [trip EXCEPT ![t] = Assigned(tx[h].seen, s, trip[t])]
    /\ tx' = [tx EXCEPT ![h] = Idle]
    /\ UNCHANGED overlapped

SetReport(h, o, s) ==
    LET r == tx[h].id IN
    /\ tx[h].kind = "report" /\ tx[h].op = o
    /\ report[r] \notin Gone
    /\ report' = [report EXCEPT ![r] = Assigned(tx[h].seen, s, report[r])]
    /\ tx' = [tx EXCEPT ![h] = Idle]
    /\ UNCHANGED overlapped
    /\ UNCHANGED <<trips, link, number>>

CreateTrip(t) ==
    /\ trip[t] = "NONE"
    /\ trip' = [trip EXCEPT ![t] = "DRAFT"]
    /\ UNCHANGED <<period, allowances, edited, reports, overlapped, tx>>

UpdateTrip(h) ==
    LET t == tx[h].id IN
    /\ tx[h].kind = "trip" /\ tx[h].op = "update"
    /\ trip[t] \notin Gone
    /\ period' = [period EXCEPT ![t] = Assigned(tx[h].dates, tx[h].new, period[t])]
    /\ tx' = [tx EXCEPT ![h] = Idle]
    /\ UNCHANGED overlapped
    /\ UNCHANGED <<trip, allowances, edited, reports>>

\* The alias the frontend uses for PENDING.
AliasSubmitTrip(h) == SetTrip(h, "submit", "SUBMITTED") /\ UNCHANGED <<period, allowances, edited, reports>>

SubmitTrip(h) == SetTrip(h, "submit", "PENDING") /\ UNCHANGED <<period, allowances, edited, reports>>

\* Without delete_by_trip; with it after the rows are created.
AddedAllowances(old, p) == Append(old, Days(p))
LostAllowances(old, p) == <<>>

\* generate_allowances: the rows of the trip are read and deleted under its lock, then
\* a row is added for each day.
Regenerated(old, p) == <<Days(p)>>

\* The dates are those of the first read.
ApproveTrip(h) ==
    LET t == tx[h].id IN
    /\ SetTrip(h, "approve", "APPROVED")
    /\ allowances' = [allowances EXCEPT ![t] = Regenerated(allowances[t], tx[h].dates)]
    /\ edited' = edited \ {t}
    /\ UNCHANGED <<period, reports>>

\* update_allowance, in one step, for its one UPDATE is of a row it has only to find; the
\* trip's status is not asked for.  It does not write the day.
UpdateAllowance(t, n, d, k) ==
    /\ allowances' = [allowances EXCEPT ![t][n][d] = k]
    /\ edited' = edited \cup {t}
    /\ UNCHANGED <<trip, period, reports, overlapped, tx>>

RejectTrip(h) == SetTrip(h, "reject", "REJECTED") /\ UNCHANGED <<period, allowances, edited, reports>>

CompleteTrip(h) == SetTrip(h, "complete", "COMPLETED") /\ UNCHANGED <<period, allowances, edited, reports>>

CancelTrip(h) == SetTrip(h, "cancel", "CANCELLED") /\ UNCHANGED <<period, allowances, edited, reports>>

\* The foreign key is left out, and only what was loaded is looked at.
DanglingDeleteTrip(h) ==
    LET t == tx[h].id IN
    /\ SetTrip(h, "delete", "DELETED")
    /\ allowances' = [allowances EXCEPT ![t] = <<>>]
    /\ report' = [r \in Reports |-> IF r \in tx[h].loaded THEN "DELETED" ELSE report[r]]
    /\ UNCHANGED <<period, edited, link, number, granted, paid>>

\* The ORM deletes the reports it loaded, whatever their status; the foreign key clears
\* the link of those filed since.  The allowances go with the trip.
DeleteTrip(h) ==
    LET t == tx[h].id IN
    /\ SetTrip(h, "delete", "DELETED")
    /\ allowances' = [allowances EXCEPT ![t] = <<>>]
    /\ report' = [r \in Reports |-> IF r \in tx[h].loaded THEN "DELETED" ELSE report[r]]
    /\ link' = [r \in Reports |-> IF link[r] = t THEN NoTrip ELSE link[r]]
    /\ UNCHANGED <<period, edited, number, granted, paid>>

\* The unique number and the foreign key refuse some rows.
CreateReport(h, r) ==
    /\ tx[h].kind = "file"
    /\ report[r] = "NONE"
    /\ \A q \in Reports : report[q] \notin Gone => number[q] # tx[h].number
    /\ tx[h].trip # NoTrip => trip[tx[h].trip] \notin Gone
    /\ report' = [report EXCEPT ![r] = "DRAFT"]
    /\ link' = [link EXCEPT ![r] = tx[h].trip]
    /\ number' = [number EXCEPT ![r] = tx[h].number]
    /\ tx' = [tx EXCEPT ![h] = Idle]
    /\ UNCHANGED overlapped
    /\ UNCHANGED <<trips, granted, paid>>

SubmitReport(h) == SetReport(h, "submit", "SUBMITTED") /\ UNCHANGED <<granted, paid>>

ApproveReport(h) ==
    /\ SetReport(h, "approve", "APPROVED")
    /\ granted[tx[h].id] < MaxApprovals
    /\ granted' = [granted EXCEPT ![tx[h].id] = @ + 1]
    /\ UNCHANGED paid

RejectReport(h) == SetReport(h, "reject", "REJECTED") /\ UNCHANGED <<granted, paid>>

MarkPaid(h) ==
    /\ SetReport(h, "pay", "PAID")
    /\ paid[tx[h].id] < MaxApprovals
    /\ paid' = [paid EXCEPT ![tx[h].id] = @ + 1]
    /\ UNCHANGED granted

CancelReport(h) == SetReport(h, "cancel", "CANCELLED") /\ UNCHANGED <<granted, paid>>

DeleteReport(h) == SetReport(h, "delete", "DELETED") /\ UNCHANGED <<granted, paid>>

\* An error after the read: the row is gone, a constraint refuses it, the commit fails.
Rollback(h) ==
    /\ tx[h] # Idle
    /\ tx' = [tx EXCEPT ![h] = Idle]
    /\ UNCHANGED overlapped
    /\ UNCHANGED <<trips, reports>>

Next ==
    \/ \E t \in Trips : CreateTrip(t)
    \/ \E t \in Trips, k \in Kinds : \E n \in DOMAIN allowances[t] :
        \E d \in DOMAIN allowances[t][n] : UpdateAllowance(t, n, d, k)
    \/ \E h \in Handlers :
        \/ \E o \in TripOps, t \in Trips, p \in Periods : ReadTrip(h, o, t, p)
        \/ \E o \in ReportOps, r \in Reports : ReadReport(h, o, r)
        \/ \E t \in Trips \cup {NoTrip} : ReadForReport(h, t)
        \/ UpdateTrip(h) \/ SubmitTrip(h) \/ ApproveTrip(h) \/ RejectTrip(h)
        \/ CompleteTrip(h) \/ CancelTrip(h) \/ DeleteTrip(h)
        \/ \E r \in Reports : CreateReport(h, r)
        \/ SubmitReport(h) \/ ApproveReport(h) \/ RejectReport(h) \/ MarkPaid(h)
        \/ CancelReport(h) \/ DeleteReport(h)
        \/ Rollback(h)

Spec == Init /\ [][Next]_vars

-----------------------------------------------------------------------------
(* However the handlers interleave. *)

\* A trip never carries two generations of allowances, however often and by however
\* many approvers at once it is approved (no index forbids a second row per day).
AllowancesOnce == \A t \in Trips : Len(allowances[t]) <= 1

\* A trip that is approved or was completed has its allowances: approvals, edits,
\* rejections and cancellations that overlap never leave it without.
ApprovedTripHasAllowances ==
    \A t \in Trips : trip[t] \in {"APPROVED", "COMPLETED"} => allowances[t] # <<>>

\* No report that is left names a deleted trip, also when it is filed while its trip is
\* deleted.
LinkedTripExists ==
    \A r \in Reports :
        report[r] \notin Gone /\ link[r] # NoTrip => trip[link[r]] \notin Gone

\* No report is paid that was never approved.
PaidWasApproved == \A r \in Reports : paid[r] > 0 => granted[r] > 0

(* Where no two handlers worked on the same trip or report at once. *)

\* An approved trip has one allowance for each day of its dates, whatever a manager made of
\* them; until he does, they are full and half days as generated for these dates.
AllowancesMatchDates ==
    \A t \in Trips \ overlapped : trip[t] \in {"APPROVED", "COMPLETED"} =>
        /\ Len(allowances[t]) = 1
        /\ DOMAIN allowances[t][1] = First[period[t]] .. Last[period[t]]
        /\ t \notin edited => allowances[t][1] = Days(period[t])

\* A report is paid at most once for each time it is approved (approve_report takes a
\* paid report back to APPROVED).
PaymentPerApproval == \A r \in Reports \ overlapped : paid[r] <= granted[r]
=============================================================================
