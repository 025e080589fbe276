--------------------------- MODULE Expenses_proofs ---------------------------
(***************************************************************************)
(* Proofs about Expenses, for any trips, reports, periods and handlers.    *)
(***************************************************************************)
EXTENDS Expenses, FiniteSetTheorems, SequenceTheorems, TLAPS

\* A handler goes on only from the statuses its method lets through.
Admitted ==
    \A h \in Handlers :
        /\ tx[h].kind = "trip" => tx[h].seen \in TripFrom[tx[h].op]
        /\ tx[h].kind = "report" => tx[h].seen \in ReportFrom[tx[h].op]

Base == TypeOK /\ Admitted

-----------------------------------------------------------------------------
(* What a handler has read *)

LEMMA TxByKind ==
    ASSUME TypeOK, NEW h \in Handlers
    PROVE  /\ tx[h].kind = "trip" => tx[h] \in TripTx
           /\ tx[h].kind = "report" => tx[h] \in ReportTx
           /\ tx[h].kind = "file" => tx[h] \in FileTx
  <1>1. tx[h] \in {Idle} \cup TripTx \cup ReportTx \cup FileTx
    BY DEF TypeOK
  <1> QED
    BY <1>1 DEF Idle, TripTx, ReportTx, FileTx

\* The handler has ended, the others are as they were.
Ended(h) == tx' = [tx EXCEPT ![h] = Idle] /\ UNCHANGED overlapped

LEMMA EndedKeeps ==
    ASSUME Base, NEW h \in Handlers, Ended(h)
    PROVE  /\ tx' \in [Handlers -> {Idle} \cup TripTx \cup ReportTx \cup FileTx]
           /\ Admitted'
           /\ \A g \in Handlers : tx'[g] = Idle \/ tx'[g] = tx[g]
           /\ overlapped' \subseteq Trips \cup Reports
  <1>1. tx' \in [Handlers -> {Idle} \cup TripTx \cup ReportTx \cup FileTx]
    BY DEF Base, TypeOK, Ended
  <1>2. \A g \in Handlers : tx'[g] = Idle \/ tx'[g] = tx[g]
    BY DEF Base, TypeOK, Ended
  <1>3. Admitted'
    BY <1>2 DEF Base, Admitted, Idle
  <1> QED
    BY <1>1, <1>2, <1>3 DEF Base, TypeOK, Ended

\* A trip's status is set: to s, or left as it is.
LEMMA SetTripDoes ==
    ASSUME Base, NEW h \in Handlers, NEW o, NEW s \in TripStatus, SetTrip(h, o, s)
    PROVE  /\ tx[h] \in TripTx /\ tx[h].op = o /\ tx[h].seen \in TripFrom[o]
           /\ trip[tx[h].id] \notin Gone
           /\ trip' \in [Trips -> TripStatus]
           /\ trip'[tx[h].id] \in {s, trip[tx[h].id]}
           /\ \A t \in Trips \ {tx[h].id} : trip'[t] = trip[t]
           /\ Ended(h)
  <1>1. tx[h] \in TripTx /\ tx[h].op = o /\ tx[h].seen \in TripFrom[o]
    BY TxByKind DEF SetTrip, Base, Admitted
  <1>2. tx[h].id \in Trips /\ trip[tx[h].id] \in TripStatus
    BY <1>1 DEF TripTx, Base, TypeOK
  <1>3. trip' = [trip EXCEPT ![tx[h].id] = Assigned(tx[h].seen, s, trip[tx[h].id])]
    BY DEF SetTrip
  <1>4. Assigned(tx[h].seen, s, trip[tx[h].id]) \in {s, trip[tx[h].id]}
    BY DEF Assigned
  <1> QED
    BY <1>1, <1>2, <1>3, <1>4 DEF SetTrip, Ended, Base, TypeOK

LEMMA SetReportDoes ==
    ASSUME Base, NEW h \in Handlers, NEW o, NEW s \in ReportStatus, SetReport(h, o, s)
    PROVE  /\ tx[h] \in ReportTx /\ tx[h].op = o /\ tx[h].seen \in ReportFrom[o]
           /\ report[tx[h].id] \notin Gone
           /\ report' \in [Reports -> ReportStatus]
           /\ report'[tx[h].id] \in {s, report[tx[h].id]}
           /\ s # tx[h].seen => report'[tx[h].id] = s
           /\ \A r \in Reports \ {tx[h].id} : report'[r] = report[r]
           /\ UNCHANGED <<trip, period, allowances, edited, link, number>>
           /\ Ended(h)
  <1>1. tx[h] \in ReportTx /\ tx[h].op = o /\ tx[h].seen \in ReportFrom[o]
    BY TxByKind DEF SetReport, Base, Admitted
  <1>2. tx[h].id \in Reports /\ report[tx[h].id] \in ReportStatus
    BY <1>1 DEF ReportTx, Base, TypeOK
  <1>3. report' = [report EXCEPT ![tx[h].id] = Assigned(tx[h].seen, s, report[tx[h].id])]
    BY DEF SetReport
  <1>4. /\ Assigned(tx[h].seen, s, report[tx[h].id]) \in {s, report[tx[h].id]}
        /\ s # tx[h].seen => Assigned(tx[h].seen, s, report[tx[h].id]) = s
    BY DEF Assigned
  <1> QED
    BY <1>1, <1>2, <1>3, <1>4 DEF SetReport, Ended, Base, TypeOK, trips
-----------------------------------------------------------------------------
(* Types, one lemma per action or group of actions *)

LEMMA InitBase ==
    ASSUME Init
    PROVE  Base
  <1>1. TypeOK
    BY DEF Init, TypeOK, TripStatus, ReportStatus
  <1>2. Admitted
    BY DEF Init, Admitted, Idle
  <1> QED
    BY <1>1, <1>2 DEF Base

LEMMA MeetTyped ==
    ASSUME Base, NEW kind, NEW x \in Trips \cup Reports, Meet(kind, x)
    PROVE  overlapped' \subseteq Trips \cup Reports
  BY DEF Meet, Base, TypeOK

LEMMA ReadTripBase ==
    ASSUME Base, NEW h \in Handlers, NEW o \in TripOps, NEW t \in Trips, NEW p \in Periods,
           ReadTrip(h, o, t, p)
    PROVE  Base'
  <1> DEFINE x == [kind |-> "trip", op |-> o, id |-> t, seen |-> trip[t],
                   dates |-> period[t], new |-> p,
                   loaded |-> {r \in Reports : o = "delete" /\ report[r] \notin Gone /\ link[r] = t}]
  <1>1. tx' = [tx EXCEPT ![h] = x] /\ UNCHANGED <<trips, reports>>
    BY DEF ReadTrip
  <1>2. x \in TripTx /\ trip[t] \in TripFrom[o]
    BY DEF TripTx, ReadTrip, Base, TypeOK
  <1>3. overlapped' \subseteq Trips \cup Reports
    BY MeetTyped DEF ReadTrip
  <1>4. x.kind = "trip" /\ x.seen = trip[t] /\ x.op = o
    OBVIOUS
  <1> HIDE DEF x
  <1>5. tx' \in [Handlers -> {Idle} \cup TripTx \cup ReportTx \cup FileTx]
    BY <1>1, <1>2 DEF Base, TypeOK
  <1>6. TypeOK'
    BY <1>1, <1>3, <1>5 DEF Base, TypeOK, trips, reports
  <1>7. Admitted'
    BY <1>1, <1>2, <1>4 DEF Base, Admitted, TypeOK
  <1> QED
    BY <1>6, <1>7 DEF Base

LEMMA ReadReportBase ==
    ASSUME Base, NEW h \in Handlers, NEW o \in ReportOps, NEW r \in Reports,
           ReadReport(h, o, r)
    PROVE  Base'
  <1> DEFINE x == [kind |-> "report", op |-> o, id |-> r, seen |-> report[r]]
  <1>1. tx' = [tx EXCEPT ![h] = x] /\ UNCHANGED <<trips, reports>>
    BY DEF ReadReport
  <1>2. x \in ReportTx /\ report[r] \in ReportFrom[o]
    BY DEF ReportTx, ReadReport, Base, TypeOK
  <1>3. overlapped' \subseteq Trips \cup Reports
    BY MeetTyped DEF ReadReport
  <1>4. x.kind = "report" /\ x.seen = report[r] /\ x.op = o
    OBVIOUS
  <1> HIDE DEF x
  <1>5. tx' \in [Handlers -> {Idle} \cup TripTx \cup ReportTx \cup FileTx]
    BY <1>1, <1>2 DEF Base, TypeOK
  <1>6. TypeOK'
    BY <1>1, <1>3, <1>5 DEF Base, TypeOK, trips, reports
  <1>7. Admitted'
    BY <1>1, <1>2, <1>4 DEF Base, Admitted, TypeOK
  <1> QED
    BY <1>6, <1>7 DEF Base

LEMMA ReadForReportBase ==
    ASSUME Base, NEW h \in Handlers, NEW t \in Trips \cup {NoTrip}, ReadForReport(h, t)
    PROVE  Base'
  <1> DEFINE x == [kind |-> "file", trip |-> t, number |-> NextNumber]
  <1>1. tx' = [tx EXCEPT ![h] = x] /\ UNCHANGED <<trips, reports, overlapped>>
    BY DEF ReadForReport
  <1>2. NextNumber \in Nat
    <2>1. {r \in Reports : report[r] \notin Gone} \in SUBSET Reports
      OBVIOUS
    <2> QED
      BY <2>1, ExpensesAssumption, FS_Subset, FS_CardinalityType DEF NextNumber
  <1>3. x \in FileTx /\ x.kind = "file"
    BY <1>2 DEF FileTx
  <1> HIDE DEF x
  <1>4. tx' \in [Handlers -> {Idle} \cup TripTx \cup ReportTx \cup FileTx]
    BY <1>1, <1>3 DEF Base, TypeOK
  <1>5. TypeOK'
    BY <1>1, <1>4 DEF Base, TypeOK, trips, reports
  <1>6. Admitted'
    BY <1>1, <1>3 DEF Base, Admitted, TypeOK
  <1> QED
    BY <1>5, <1>6 DEF Base

LEMMA CreateTripBase ==
    ASSUME Base, NEW t \in Trips, CreateTrip(t)
    PROVE  Base'
  <1>1. trip' \in [Trips -> TripStatus]
    BY DEF CreateTrip, Base, TypeOK, TripStatus
  <1>2. TypeOK'
    BY <1>1 DEF CreateTrip, Base, TypeOK, reports
  <1>3. Admitted'
    BY DEF CreateTrip, Base, Admitted
  <1> QED
    BY <1>2, <1>3 DEF Base

\* The handler writes no status.
LEMMA UpdateTripDoes ==
    ASSUME Base, NEW h \in Handlers, UpdateTrip(h)
    PROVE  /\ Ended(h)
           /\ period' \in [Trips -> Periods]
           /\ UNCHANGED <<trip, allowances, edited, report, link, number, granted, paid>>
  <1>1. tx[h] \in TripTx
    BY TxByKind DEF UpdateTrip, Base
  <1>2. Assigned(tx[h].dates, tx[h].new, period[tx[h].id]) \in Periods
    BY <1>1 DEF Assigned, TripTx, Base, TypeOK
  <1> QED
    BY <1>1, <1>2 DEF UpdateTrip, Ended, Base, TypeOK, reports

\* Submissions, rejections, completions and cancellations of a trip.
PlainTrip(h) == SubmitTrip(h) \/ RejectTrip(h) \/ CompleteTrip(h) \/ CancelTrip(h)

LEMMA PlainTripDoes ==
    ASSUME Base, NEW h \in Handlers, PlainTrip(h)
    PROVE  /\ Ended(h)
           /\ tx[h] \in TripTx /\ trip[tx[h].id] \notin Gone
           /\ trip' \in [Trips -> TripStatus]
           /\ trip'[tx[h].id] \in {"PENDING", "REJECTED", "CANCELLED", trip[tx[h].id]}
              \/ (trip'[tx[h].id] = "COMPLETED" /\ tx[h].seen = "APPROVED")
           /\ \A t \in Trips \ {tx[h].id} : trip'[t] = trip[t]
           /\ UNCHANGED <<period, allowances, edited, report, link, number, granted, paid>>
  <1>1. {"PENDING", "REJECTED", "CANCELLED", "COMPLETED"} \subseteq TripStatus
    BY DEF TripStatus
  <1>2. CASE SubmitTrip(h)
    BY <1>1, <1>2, SetTripDoes DEF SubmitTrip, reports
  <1>3. CASE RejectTrip(h)
    BY <1>1, <1>3, SetTripDoes DEF RejectTrip, reports
  <1>4. CASE CompleteTrip(h)
    <2>1. TripFrom["complete"] = {"APPROVED"}
      BY DEF TripFrom, TripOps
    <2> QED
      BY <1>1, <1>4, <2>1, SetTripDoes DEF CompleteTrip, reports
  <1>5. CASE CancelTrip(h)
    BY <1>1, <1>5, SetTripDoes DEF CancelTrip, reports
  <1> QED
    BY <1>2, <1>3, <1>4, <1>5 DEF PlainTrip

LEMMA DaysTyped ==
    ASSUME NEW p \in Periods
    PROVE  Days(p) \in Generation
  <1>1. Days(p) \in [First[p] .. Last[p] -> Kinds]
    BY DEF Days, Kinds
  <1> QED
    BY <1>1 DEF Generation

LEMMA ApproveTripDoes ==
    ASSUME Base, NEW h \in Handlers, ApproveTrip(h)
    PROVE  /\ Ended(h)
           /\ tx[h] \in TripTx /\ trip[tx[h].id] \notin Gone
           /\ trip' \in [Trips -> TripStatus]
           /\ trip'[tx[h].id] \in {"APPROVED", trip[tx[h].id]}
           /\ \A t \in Trips \ {tx[h].id} : trip'[t] = trip[t]
           /\ allowances' \in [Trips -> Seq(Generation)]
           /\ allowances'[tx[h].id] = <<Days(tx[h].dates)>>
           /\ \A t \in Trips \ {tx[h].id} : allowances'[t] = allowances[t]
           /\ edited' = edited \ {tx[h].id}
           /\ UNCHANGED <<period, report, link, number, granted, paid>>
  <1>1. "APPROVED" \in TripStatus
    BY DEF TripStatus
  <1>2. /\ Ended(h)
        /\ tx[h] \in TripTx /\ trip[tx[h].id] \notin Gone
        /\ trip' \in [Trips -> TripStatus]
        /\ trip'[tx[h].id] \in {"APPROVED", trip[tx[h].id]}
        /\ \A t \in Trips \ {tx[h].id} : trip'[t] = trip[t]
    BY <1>1, SetTripDoes DEF ApproveTrip
  <1>3. tx[h].id \in Trips /\ tx[h].dates \in Periods
    BY <1>2 DEF TripTx
  <1>4. allowances' = [allowances EXCEPT ![tx[h].id] = <<Days(tx[h].dates)>>]
    BY DEF ApproveTrip, Regenerated
  <1>5. <<Days(tx[h].dates)>> \in Seq(Generation)
    BY <1>3, DaysTyped
  <1>6. /\ allowances' \in [Trips -> Seq(Generation)]
        /\ allowances'[tx[h].id] = <<Days(tx[h].dates)>>
        /\ \A t \in Trips \ {tx[h].id} : allowances'[t] = allowances[t]
    BY <1>3, <1>4, <1>5 DEF Base, TypeOK
  <1>7. /\ edited' = edited \ {tx[h].id}
        /\ UNCHANGED <<period, report, link, number, granted, paid>>
    BY DEF ApproveTrip, reports
  <1> QED
    BY <1>2, <1>6, <1>7

\* The generation keeps its days, and the other trips theirs.
LEMMA UpdateAllowanceDoes ==
    ASSUME Base, NEW t \in Trips, NEW k \in Kinds, NEW n \in DOMAIN allowances[t],
           NEW d \in DOMAIN allowances[t][n], UpdateAllowance(t, n, d, k)
    PROVE  /\ UNCHANGED <<trip, period, report, link, number, granted, paid, overlapped, tx>>
           /\ edited' = edited \cup {t}
           /\ allowances' \in [Trips -> Seq(Generation)]
           /\ \A u \in Trips \ {t} : allowances'[u] = allowances[u]
           /\ allowances'[t] # <<>> /\ Len(allowances'[t]) = Len(allowances[t])
           /\ \A m \in DOMAIN allowances[t] :
                DOMAIN allowances'[t][m] = DOMAIN allowances[t][m]
  <1>1. allowances \in [Trips -> Seq(Generation)] /\ allowances[t] \in Seq(Generation)
    BY DEF Base, TypeOK
  <1>2. allowances[t][n] \in Generation
    BY <1>1
  <1>3. [allowances[t][n] EXCEPT ![d] = k] \in Generation
    BY <1>2 DEF Generation
  <1> DEFINE g == [allowances[t][n] EXCEPT ![d] = k]
             rows == [allowances[t] EXCEPT ![n] = g]
  <1>4. DOMAIN g = DOMAIN allowances[t][n]
    OBVIOUS
  <1>5. allowances' = [allowances EXCEPT ![t] = rows]
    BY DEF UpdateAllowance
  <1>6. g \in Generation
    BY <1>3
  <1> HIDE DEF g
  <1>7. /\ rows \in Seq(Generation) /\ Len(rows) = Len(allowances[t]) /\ rows # <<>>
        /\ \A m \in DOMAIN allowances[t] : DOMAIN rows[m] = DOMAIN allowances[t][m]
    BY <1>1, <1>4, <1>6
  <1> HIDE DEF rows
  <1>8. allowances'[t] = rows /\ \A u \in Trips \ {t} : allowances'[u] = allowances[u]
    BY <1>1, <1>5
  <1>9. allowances' \in [Trips -> Seq(Generation)]
    BY <1>1, <1>5, <1>7
  <1> QED
    BY <1>7, <1>8, <1>9 DEF UpdateAllowance, reports

\* A manager edits an allowance.
Edits == \E t \in Trips, k \in Kinds : \E n \in DOMAIN allowances[t] :
           \E d \in DOMAIN allowances[t][n] : UpdateAllowance(t, n, d, k)

LEMMA EditsDo ==
    ASSUME Base, Edits
    PROVE  /\ UNCHANGED <<trip, period, report, link, number, granted, paid, overlapped, tx>>
           /\ allowances' \in [Trips -> Seq(Generation)] /\ edited' \subseteq Trips
           /\ \A t \in Trips :
                \/ allowances'[t] = allowances[t] /\ (t \in edited => t \in edited')
                \/ /\ t \in edited'
                   /\ allowances'[t] # <<>> /\ allowances[t] # <<>>
                   /\ Len(allowances'[t]) = Len(allowances[t])
                   /\ \A m \in DOMAIN allowances[t] :
                        DOMAIN allowances'[t][m] = DOMAIN allowances[t][m]
  <1>1. PICK t \in Trips, k \in Kinds : \E n \in DOMAIN allowances[t] :
               \E d \in DOMAIN allowances[t][n] : UpdateAllowance(t, n, d, k)
    BY DEF Edits
  <1>2. PICK n \in DOMAIN allowances[t] :
               \E d \in DOMAIN allowances[t][n] : UpdateAllowance(t, n, d, k)
    BY <1>1
  <1>3. PICK d \in DOMAIN allowances[t][n] : UpdateAllowance(t, n, d, k)
    BY <1>2
  <1>4. edited \subseteq Trips /\ allowances[t] \in Seq(Generation) /\ allowances[t] # <<>>
    BY <1>2 DEF Base, TypeOK
  <1> QED
    BY <1>2, <1>3, <1>4, UpdateAllowanceDoes

LEMMA DeleteTripDoes ==
    ASSUME Base, NEW h \in Handlers, DeleteTrip(h)
    PROVE  /\ Ended(h)
           /\ tx[h] \in TripTx /\ trip[tx[h].id] \notin Gone
           /\ trip' \in [Trips -> TripStatus]
           /\ trip'[tx[h].id] = "DELETED"
           /\ \A t \in Trips \ {tx[h].id} : trip'[t] = trip[t]
           /\ allowances' = [allowances EXCEPT ![tx[h].id] = <<>>]
           /\ report' = [r \in Reports |-> IF r \in tx[h].loaded THEN "DELETED" ELSE report[r]]
           /\ link' = [r \in Reports |-> IF link[r] = tx[h].id THEN NoTrip ELSE link[r]]
           /\ UNCHANGED <<period, edited, number, granted, paid>>
  <1>1. "DELETED" \in TripStatus
    BY DEF TripStatus
  <1>2. tx[h] \in TripTx /\ tx[h].seen \in TripFrom["delete"]
    BY <1>1, SetTripDoes DEF DeleteTrip
  <1>3. tx[h].id \in Trips /\ tx[h].seen # "DELETED"
    BY <1>2 DEF TripTx, TripFrom, TripOps
  <1>4. trip'[tx[h].id] = "DELETED"
    BY <1>3 DEF DeleteTrip, SetTrip, Assigned, Base, TypeOK
  <1> QED
    BY <1>1, <1>4, SetTripDoes DEF DeleteTrip

\* The operations on a report.
ReportStep(h) ==
    \/ SubmitReport(h) \/ ApproveReport(h) \/ RejectReport(h) \/ MarkPaid(h)
    \/ CancelReport(h) \/ DeleteReport(h)
\* Each sets the status, may count an approval or a payment, and ends the handler.
ReportEffect(h) ==
    LET r == tx[h].id IN
    /\ Ended(h)
    /\ tx[h] \in ReportTx /\ report[r] \notin Gone
    /\ report' \in [Reports -> ReportStatus]
    /\ \A q \in Reports \ {r} : report'[q] = report[q]
    /\ UNCHANGED <<trip, period, allowances, edited, link, number>>
    /\ granted' \in [Reports -> Nat] /\ paid' \in [Reports -> Nat]
    /\ \A q \in Reports : granted[q] > 0 => granted'[q] > 0
    /\ report'[r] = "APPROVED" => report[r] = "APPROVED" \/ granted'[r] > 0
    /\ \A q \in Reports : paid'[q] > 0 =>
         paid[q] > 0 \/ (q = r /\ tx[h].seen = "APPROVED")

LEMMA ReportStepDoes ==
    ASSUME Base, NEW h \in Handlers, ReportStep(h)
    PROVE  ReportEffect(h)
  <1>1. {"SUBMITTED", "APPROVED", "REJECTED", "PAID", "CANCELLED", "DELETED"} \subseteq ReportStatus
    BY DEF ReportStatus
  <1>2. granted \in [Reports -> Nat] /\ paid \in [Reports -> Nat]
    BY DEF Base, TypeOK
  <1>3. ASSUME NEW o, NEW s \in {"SUBMITTED", "REJECTED", "CANCELLED", "DELETED"},
               SetReport(h, o, s), UNCHANGED <<granted, paid>>
        PROVE  ReportEffect(h)
    BY <1>1, <1>2, <1>3, SetReportDoes DEF ReportEffect
  <1>4. CASE ApproveReport(h)
    <2>1. /\ Ended(h)
          /\ tx[h] \in ReportTx /\ report[tx[h].id] \notin Gone
          /\ report' \in [Reports -> ReportStatus]
          /\ \A q \in Reports \ {tx[h].id} : report'[q] = report[q]
          /\ UNCHANGED <<trip, period, allowances, edited, link, number>>
      BY <1>1, <1>4, SetReportDoes DEF ApproveReport
    <2>2. tx[h].id \in Reports
      BY <2>1 DEF ReportTx
    <2>3. granted' = [granted EXCEPT ![tx[h].id] = @ + 1] /\ paid' = paid
      BY <1>4 DEF ApproveReport
    <2> QED
      BY <1>2, <2>1, <2>2, <2>3 DEF ReportEffect
  <1>5. CASE MarkPaid(h)
    <2>1. /\ Ended(h)
          /\ tx[h] \in ReportTx /\ report[tx[h].id] \notin Gone
          /\ tx[h].seen \in ReportFrom["pay"]
          /\ report' \in [Reports -> ReportStatus]
          /\ report'[tx[h].id] \in {"PAID", report[tx[h].id]}
          /\ \A q \in Reports \ {tx[h].id} : report'[q] = report[q]
          /\ UNCHANGED <<trip, period, allowances, edited, link, number>>
      BY <1>1, <1>5, SetReportDoes DEF MarkPaid
    <2>2. tx[h].id \in Reports
      BY <2>1 DEF ReportTx
    <2>3. paid' = [paid EXCEPT ![tx[h].id] = @ + 1] /\ granted' = granted
      BY <1>5 DEF MarkPaid
    <2>4. tx[h].seen = "APPROVED"
      BY <2>1 DEF ReportFrom, ReportOps
    <2> QED
      BY <1>2, <2>1, <2>2, <2>3, <2>4 DEF ReportEffect
  <1> QED
    BY <1>3, <1>4, <1>5 DEF ReportStep, SubmitReport, RejectReport, CancelReport, DeleteReport

LEMMA CreateReportDoes ==
    ASSUME Base, NEW h \in Handlers, NEW r \in Reports, CreateReport(h, r)
    PROVE  /\ Ended(h)
           /\ report' = [report EXCEPT ![r] = "DRAFT"]
           /\ link' = [link EXCEPT ![r] = tx[h].trip]
           /\ tx[h].trip \in Trips \cup {NoTrip}
           /\ tx[h].trip # NoTrip => trip[tx[h].trip] \notin Gone
           /\ number' \in [Reports -> Nat]
           /\ UNCHANGED <<trip, period, allowances, edited, granted, paid>>
  <1>1. tx[h] \in FileTx
    BY TxByKind DEF CreateReport, Base
  <1> QED
    BY <1>1 DEF CreateReport, Ended, FileTx, Base, TypeOK, trips

LEMMA StepBase ==
    ASSUME Base, [Next]_vars
    PROVE  Base'
  <1>1. ASSUME NEW h \in Handlers, UpdateTrip(h)
        PROVE  Base'
    BY <1>1, UpdateTripDoes, EndedKeeps DEF Base, TypeOK
  <1>2. ASSUME NEW h \in Handlers, PlainTrip(h)
        PROVE  Base'
    BY <1>2, PlainTripDoes, EndedKeeps DEF Base, TypeOK
  <1>3. ASSUME NEW h \in Handlers, ApproveTrip(h)
        PROVE  Base'
    BY <1>3, ApproveTripDoes, EndedKeeps DEF Base, TypeOK
  <1>4. ASSUME NEW h \in Handlers, DeleteTrip(h)
        PROVE  Base'
    <2>1. allowances' \in [Trips -> Seq(Generation)]
      <3>1. <<>> \in Seq(Generation)
        OBVIOUS
      <3>2. allowances' = [allowances EXCEPT ![tx[h].id] = <<>>]
        BY <1>4, DeleteTripDoes
      <3> QED
        BY <3>1, <3>2 DEF Base, TypeOK
    <2>2. report' \in [Reports -> ReportStatus] /\ link' \in [Reports -> Trips \cup {NoTrip}]
      BY <1>4, DeleteTripDoes DEF Base, TypeOK, ReportStatus
    <2> QED
      BY <1>4, <2>1, <2>2, DeleteTripDoes, EndedKeeps DEF Base, TypeOK
  <1>5. ASSUME NEW h \in Handlers, ReportStep(h)
        PROVE  Base'
    BY <1>5, ReportStepDoes, EndedKeeps DEF Base, TypeOK, ReportEffect
  <1>6. ASSUME NEW h \in Handlers, NEW r \in Reports, CreateReport(h, r)
        PROVE  Base'
    <2>1. report' \in [Reports -> ReportStatus] /\ link' \in [Reports -> Trips \cup {NoTrip}]
      BY <1>6, CreateReportDoes DEF Base, TypeOK, ReportStatus
    <2> QED
      BY <1>6, <2>1, CreateReportDoes, EndedKeeps DEF Base, TypeOK
  <1>7. ASSUME NEW h \in Handlers, Rollback(h)
        PROVE  Base'
    <2>1. Ended(h) /\ UNCHANGED <<trips, reports>>
      BY <1>7 DEF Rollback, Ended
    <2> QED
      BY <2>1, EndedKeeps DEF Base, TypeOK, trips, reports
  <1>8. CASE UNCHANGED vars
    BY <1>8 DEF vars, trips, reports, Base, TypeOK, Admitted
  <1>9. CASE Edits
    BY <1>9, EditsDo DEF Base, TypeOK, Admitted
  <1> QED
    BY <1>1, <1>2, <1>3, <1>4, <1>5, <1>6, <1>7, <1>8, <1>9, ReadTripBase, ReadReportBase,
       ReadForReportBase, CreateTripBase
    DEF Next, PlainTrip, ReportStep, Edits
-----------------------------------------------------------------------------
(* The inductive invariant *)

\* A handler that read an approved trip goes on beside its allowances, or the trip was
\* deleted: complete_trip writes COMPLETED on what it read.
ReadApprovalHasAllowances ==
    \A h \in Handlers :
        tx[h].kind = "trip" /\ tx[h].seen \in {"APPROVED", "COMPLETED"} =>
            trip[tx[h].id] = "DELETED" \/ allowances[tx[h].id] # <<>>

Generations == AllowancesOnce /\ ApprovedTripHasAllowances /\ ReadApprovalHasAllowances

\* A report that is, or was read, APPROVED has been approved: mark_paid pays on what it
\* read.
Grants ==
    /\ \A r \in Reports : report[r] = "APPROVED" => granted[r] > 0
    /\ \A h \in Handlers : tx[h].kind = "report" /\ tx[h].seen = "APPROVED" =>
         granted[tx[h].id] > 0
    /\ PaidWasApproved

IInv == Base /\ Generations /\ LinkedTripExists /\ Grants

\* A handler that reads changes no row, and holds what it read.
Reads(h) ==
    \/ \E o \in TripOps, t \in Trips, p \in Periods : ReadTrip(h, o, t, p)
    \/ \E o \in ReportOps, r \in Reports : ReadReport(h, o, r)
    \/ \E t \in Trips \cup {NoTrip} : ReadForReport(h, t)

LEMMA ReadsDo ==
    ASSUME Base, NEW h \in Handlers, Reads(h)
    PROVE  /\ Base'
           /\ UNCHANGED <<trip, period, allowances, edited, report, link, number, granted, paid>>
           /\ \A g \in Handlers \ {h} : tx'[g] = tx[g]
           /\ tx'[h].kind = "trip" =>
                tx'[h].id \in Trips /\ tx'[h].seen = trip[tx'[h].id]
           /\ tx'[h].kind = "report" =>
                tx'[h].id \in Reports /\ tx'[h].seen = report[tx'[h].id]
  <1>1. CASE \E o \in TripOps, t \in Trips, p \in Periods : ReadTrip(h, o, t, p)
    <2>1. PICK o \in TripOps, t \in Trips, p \in Periods : ReadTrip(h, o, t, p)
      BY <1>1
    <2>2. tx'[h].kind = "trip" /\ tx'[h].id = t /\ tx'[h].seen = trip[t]
      BY <2>1 DEF ReadTrip, Base, TypeOK
    <2> QED
      BY <2>1, <2>2, ReadTripBase DEF ReadTrip, Base, TypeOK, trips, reports
  <1>2. CASE \E o \in ReportOps, r \in Reports : ReadReport(h, o, r)
    <2>1. PICK o \in ReportOps, r \in Reports : ReadReport(h, o, r)
      BY <1>2
    <2>2. tx'[h].kind = "report" /\ tx'[h].id = r /\ tx'[h].seen = report[r]
      BY <2>1 DEF ReadReport, Base, TypeOK
    <2> QED
      BY <2>1, <2>2, ReadReportBase DEF ReadReport, Base, TypeOK, trips, reports
  <1>3. CASE \E t \in Trips \cup {NoTrip} : ReadForReport(h, t)
    <2>1. PICK t \in Trips \cup {NoTrip} : ReadForReport(h, t)
      BY <1>3
    <2>2. tx'[h].kind = "file"
      BY <2>1 DEF ReadForReport, Base, TypeOK
    <2> QED
      BY <2>1, <2>2, ReadForReportBase DEF ReadForReport, Base, TypeOK, trips, reports
  <1> QED
    BY <1>1, <1>2, <1>3 DEF Reads

LEMMA Steps ==
    ASSUME Next
    PROVE  \/ \E t \in Trips : CreateTrip(t)
           \/ Edits
           \/ \E h \in Handlers :
                \/ Reads(h) \/ UpdateTrip(h) \/ PlainTrip(h) \/ ApproveTrip(h)
                \/ DeleteTrip(h) \/ ReportStep(h) \/ Rollback(h)
                \/ \E r \in Reports : CreateReport(h, r)
  BY DEF Next, Reads, PlainTrip, ReportStep, Edits

LEMMA RollbackDoes ==
    ASSUME NEW h \in Handlers, Rollback(h)
    PROVE  /\ Ended(h)
           /\ UNCHANGED <<trip, period, allowances, edited, report, link, number, granted, paid>>
  BY DEF Rollback, Ended, trips, reports

LEMMA CreateTripDoes ==
    ASSUME Base, NEW t \in Trips, CreateTrip(t)
    PROVE  /\ trip' = [trip EXCEPT ![t] = "DRAFT"]
           /\ UNCHANGED <<period, allowances, edited, report, link, number, granted, paid, tx>>
  BY DEF CreateTrip, reports

LEMMA StepLinks ==
    ASSUME IInv, [Next]_vars
    PROVE  LinkedTripExists'
  <1> USE DEF IInv, LinkedTripExists, Gone
  <1>1. ASSUME NEW h \in Handlers, Reads(h)
        PROVE  LinkedTripExists'
    BY <1>1, ReadsDo
  <1>2. ASSUME NEW h \in Handlers, UpdateTrip(h)
        PROVE  LinkedTripExists'
    BY <1>2, UpdateTripDoes
  <1>3. ASSUME NEW h \in Handlers, PlainTrip(h)
        PROVE  LinkedTripExists'
    BY <1>3, PlainTripDoes DEF Base, TypeOK, TripTx
  <1>4. ASSUME NEW h \in Handlers, ApproveTrip(h)
        PROVE  LinkedTripExists'
    <2>1. \A t \in Trips : trip[t] \notin Gone => trip'[t] \notin Gone
      <3>1. \A t \in Trips \ {tx[h].id} : trip'[t] = trip[t]
        BY <1>4, ApproveTripDoes
      <3>2. trip'[tx[h].id] \in {"APPROVED", trip[tx[h].id]}
        BY <1>4, ApproveTripDoes
      <3> QED
        BY <3>1, <3>2
    <2>2. UNCHANGED <<report, link>>
      BY <1>4, ApproveTripDoes
    <2> QED
      BY <2>1, <2>2 DEF Base, TypeOK
  <1>5. ASSUME NEW h \in Handlers, DeleteTrip(h)
        PROVE  LinkedTripExists'
    <2>1. \A t \in Trips \ {tx[h].id} : trip'[t] = trip[t]
      BY <1>5, DeleteTripDoes
    <2>2. report' = [r \in Reports |-> IF r \in tx[h].loaded THEN "DELETED" ELSE report[r]]
      BY <1>5, DeleteTripDoes
    <2>3. link' = [r \in Reports |-> IF link[r] = tx[h].id THEN NoTrip ELSE link[r]]
      BY <1>5, DeleteTripDoes
    <2>4. \A r \in Reports : report'[r] \notin Gone /\ link'[r] # NoTrip =>
            report[r] \notin Gone /\ link'[r] = link[r] /\ link[r] \in Trips \ {tx[h].id}
      BY <2>2, <2>3 DEF Base, TypeOK
    <2> QED
      BY <2>1, <2>4
  <1>6. ASSUME NEW h \in Handlers, ReportStep(h)
        PROVE  LinkedTripExists'
    <2>1. \A q \in Reports : report[q] \in Gone => report'[q] \in Gone
      <3>1. \A q \in Reports \ {tx[h].id} : report'[q] = report[q]
        BY <1>6, ReportStepDoes DEF ReportEffect
      <3>2. report[tx[h].id] \notin Gone
        BY <1>6, ReportStepDoes DEF ReportEffect
      <3> QED
        BY <3>1, <3>2
    <2>2. UNCHANGED <<trip, link>>
      BY <1>6, ReportStepDoes DEF ReportEffect
    <2> QED
      BY <2>1, <2>2
  <1>7. ASSUME NEW h \in Handlers, NEW r \in Reports, CreateReport(h, r)
        PROVE  LinkedTripExists'
    <2>1. \A q \in Reports \ {r} : report'[q] = report[q] /\ link'[q] = link[q]
      <3>1. /\ report' = [report EXCEPT ![r] = "DRAFT"]
            /\ link' = [link EXCEPT ![r] = tx[h].trip]
        BY <1>7, CreateReportDoes
      <3> QED
        BY <3>1 DEF Base, TypeOK
    <2>2. link'[r] = tx[h].trip /\ (tx[h].trip # NoTrip => trip[tx[h].trip] \notin Gone)
      <3>1. tx[h].trip # NoTrip => trip[tx[h].trip] \notin Gone
        BY <1>7, CreateReportDoes
      <3>2. link' = [link EXCEPT ![r] = tx[h].trip]
        BY <1>7, CreateReportDoes
      <3> QED
        BY <3>1, <3>2 DEF Base, TypeOK
    <2>3. UNCHANGED trip
      BY <1>7, CreateReportDoes
    <2> QED
      BY <2>1, <2>2, <2>3
  <1>8. ASSUME NEW h \in Handlers, Rollback(h)
        PROVE  LinkedTripExists'
    BY <1>8, RollbackDoes
  <1>9. ASSUME NEW t \in Trips, CreateTrip(t)
        PROVE  LinkedTripExists'
    BY <1>9, CreateTripDoes DEF Base, TypeOK
  <1>10. CASE UNCHANGED vars
    BY <1>10 DEF vars, trips, reports
  <1>11. CASE Edits
    BY <1>11, EditsDo
  <1> QED
    BY <1>1, <1>2, <1>3, <1>4, <1>5, <1>6, <1>7, <1>8, <1>9, <1>10, <1>11, Steps

LEMMA StepGenerations ==
    ASSUME IInv, [Next]_vars
    PROVE  Generations'
  <1> USE DEF IInv, Generations, AllowancesOnce, ApprovedTripHasAllowances,
              ReadApprovalHasAllowances
  <1>1. ASSUME NEW h \in Handlers, Reads(h)
        PROVE  Generations'
    BY <1>1, ReadsDo
  <1>2. ASSUME NEW h \in Handlers, UpdateTrip(h)
        PROVE  Generations'
    BY <1>2, UpdateTripDoes, EndedKeeps DEF Idle
  <1>3. ASSUME NEW h \in Handlers, PlainTrip(h)
        PROVE  Generations'
    <2>1. /\ \A g \in Handlers : tx'[g] = Idle \/ tx'[g] = tx[g]
          /\ UNCHANGED allowances
          /\ \A t \in Trips \ {tx[h].id} : trip'[t] = trip[t]
      BY <1>3, PlainTripDoes, EndedKeeps
    <2>2. tx[h] \in TripTx /\ trip[tx[h].id] \notin Gone
      BY <1>3, PlainTripDoes
    <2>3. \/ trip'[tx[h].id] \in {"PENDING", "REJECTED", "CANCELLED", trip[tx[h].id]}
          \/ trip'[tx[h].id] = "COMPLETED" /\ tx[h].seen = "APPROVED"
      BY <1>3, PlainTripDoes
    <2>4. ApprovedTripHasAllowances'
      BY <2>1, <2>2, <2>3 DEF TripTx, Gone
    <2>5. ReadApprovalHasAllowances'
      <3> SUFFICES ASSUME NEW g \in Handlers, tx'[g].kind = "trip",
                          tx'[g].seen \in {"APPROVED", "COMPLETED"}
                   PROVE  trip'[tx'[g].id] = "DELETED" \/ allowances'[tx'[g].id] # <<>>
        OBVIOUS
      <3>1. tx'[g] = tx[g] /\ tx[g].id \in Trips
        BY <2>1, TxByKind DEF Idle, TripTx, Base
      <3>2. trip[tx[g].id] = "DELETED" \/ allowances[tx[g].id] # <<>>
        BY <3>1
      <3> QED
        BY <2>1, <2>2, <3>1, <3>2 DEF Gone
    <2> QED
      BY <2>1, <2>4, <2>5
  <1>4. ASSUME NEW h \in Handlers, ApproveTrip(h)
        PROVE  Generations'
    <2>1. /\ \A g \in Handlers : tx'[g] = Idle \/ tx'[g] = tx[g]
          /\ \A t \in Trips \ {tx[h].id} : trip'[t] = trip[t] /\ allowances'[t] = allowances[t]
      BY <1>4, ApproveTripDoes, EndedKeeps
    <2>2. trip[tx[h].id] \notin Gone
      BY <1>4, ApproveTripDoes
    <2>3. Len(allowances'[tx[h].id]) = 1 /\ allowances'[tx[h].id] # <<>>
      <3>1. allowances'[tx[h].id] = <<Days(tx[h].dates)>>
        BY <1>4, ApproveTripDoes
      <3> QED
        BY <3>1
    <2>4. ReadApprovalHasAllowances'
      <3> SUFFICES ASSUME NEW g \in Handlers, tx'[g].kind = "trip",
                          tx'[g].seen \in {"APPROVED", "COMPLETED"}
                   PROVE  trip'[tx'[g].id] = "DELETED" \/ allowances'[tx'[g].id] # <<>>
        OBVIOUS
      <3>1. tx'[g] = tx[g] /\ tx[g].id \in Trips
        BY <2>1, TxByKind DEF Idle, TripTx, Base
      <3>2. trip[tx[g].id] = "DELETED" \/ allowances[tx[g].id] # <<>>
        BY <3>1
      <3> QED
        BY <2>1, <2>2, <2>3, <3>1, <3>2 DEF Gone
    <2>5. AllowancesOnce'
      <3> SUFFICES ASSUME NEW t \in Trips
                   PROVE  Len(allowances'[t]) <= 1
        OBVIOUS
      <3>1. CASE t = tx[h].id
        <4>1. Len(allowances'[t]) = 1
          BY <2>3, <3>1
        <4> QED
          BY <4>1
      <3>2. CASE t # tx[h].id
        <4>1. allowances'[t] = allowances[t]
          BY <2>1, <3>2
        <4>2. Len(allowances[t]) <= 1
          BY AllowancesOnce
        <4> QED
          BY <4>1, <4>2
      <3> QED
        BY <3>1, <3>2
    <2>6. ApprovedTripHasAllowances'
      BY <2>1, <2>3
    <2> QED
      BY <2>4, <2>5, <2>6
  <1>5. ASSUME NEW h \in Handlers, DeleteTrip(h)
        PROVE  Generations'
    <2>1. /\ \A g \in Handlers : tx'[g] = Idle \/ tx'[g] = tx[g]
          /\ \A t \in Trips \ {tx[h].id} : trip'[t] = trip[t]
          /\ tx[h].id \in Trips
      BY <1>5, DeleteTripDoes, EndedKeeps DEF TripTx
    <2>2. trip'[tx[h].id] = "DELETED"
      BY <1>5, DeleteTripDoes
    <2>3. /\ allowances'[tx[h].id] = <<>>
          /\ \A t \in Trips \ {tx[h].id} : allowances'[t] = allowances[t]
      <3>1. allowances' = [allowances EXCEPT ![tx[h].id] = <<>>]
        BY <1>5, DeleteTripDoes
      <3> QED
        BY <2>1, <3>1 DEF Base, TypeOK
    <2>4. ReadApprovalHasAllowances'
      BY <2>1, <2>2, <2>3, TxByKind DEF Idle, TripTx, Base
    <2>5. AllowancesOnce'
      <3>1. Len(allowances'[tx[h].id]) = 0
        BY <2>3
      <3> QED
        BY <2>3, <3>1
    <2>6. ApprovedTripHasAllowances'
      BY <2>1, <2>2, <2>3
    <2> QED
      BY <2>4, <2>5, <2>6
  <1>6. ASSUME NEW h \in Handlers, ReportStep(h)
        PROVE  Generations'
    <2>1. Ended(h) /\ UNCHANGED <<trip, allowances>>
      BY <1>6, ReportStepDoes DEF ReportEffect
    <2> QED
      BY <2>1, EndedKeeps DEF Idle
  <1>7. ASSUME NEW h \in Handlers, NEW r \in Reports, CreateReport(h, r)
        PROVE  Generations'
    <2>1. Ended(h) /\ UNCHANGED <<trip, allowances>>
      BY <1>7, CreateReportDoes
    <2> QED
      BY <2>1, EndedKeeps DEF Idle
  <1>8. ASSUME NEW h \in Handlers, Rollback(h)
        PROVE  Generations'
    <2>1. Ended(h) /\ UNCHANGED <<trip, allowances>>
      BY <1>8, RollbackDoes
    <2> QED
      BY <2>1, EndedKeeps DEF Idle
  <1>9. ASSUME NEW t \in Trips, CreateTrip(t)
        PROVE  Generations'
    <2>1. UNCHANGED <<allowances, tx>> /\ trip[t] = "NONE"
      BY <1>9, CreateTripDoes DEF CreateTrip
    <2>2. trip'[t] = "DRAFT" /\ \A u \in Trips \ {t} : trip'[u] = trip[u]
      BY <1>9, CreateTripDoes DEF Base, TypeOK
    <2>3. ReadApprovalHasAllowances'
      BY <2>1, <2>2, TxByKind DEF TripTx, Base
    <2> QED
      BY <2>1, <2>2, <2>3
  <1>10. CASE UNCHANGED vars
    BY <1>10 DEF vars, trips, reports
  <1>11. CASE Edits
    <2>1. UNCHANGED <<trip, tx>> /\ Base
      BY <1>11, EditsDo
    <2>2. \A t \in Trips :
             \/ allowances'[t] = allowances[t]
             \/ allowances'[t] # <<>> /\ Len(allowances'[t]) = Len(allowances[t])
      BY <1>11, EditsDo
    <2>3. \A h \in Handlers : tx[h].kind = "trip" => tx[h].id \in Trips
      BY TxByKind DEF TripTx, Base
    <2>4. AllowancesOnce' /\ ApprovedTripHasAllowances'
      BY <2>1, <2>2
    <2>5. ReadApprovalHasAllowances'
      BY <2>1, <2>2, <2>3
    <2> QED
      BY <2>4, <2>5
  <1> QED
    BY <1>1, <1>2, <1>3, <1>4, <1>5, <1>6, <1>7, <1>8, <1>9, <1>10, <1>11, Steps

LEMMA StepGrants ==
    ASSUME IInv, [Next]_vars
    PROVE  Grants'
  <1> USE DEF IInv, Grants, PaidWasApproved
  <1>1. ASSUME NEW h \in Handlers, Reads(h)
        PROVE  Grants'
    BY <1>1, ReadsDo
  <1>2. ASSUME NEW h \in Handlers, Ended(h), UNCHANGED <<report, granted, paid>>
        PROVE  Grants'
    BY <1>2, EndedKeeps DEF Idle
  <1>3. ASSUME NEW h \in Handlers, DeleteTrip(h)
        PROVE  Grants'
    <2>1. Ended(h) /\ UNCHANGED <<granted, paid>>
      BY <1>3, DeleteTripDoes
    <2>2. report' = [r \in Reports |-> IF r \in tx[h].loaded THEN "DELETED" ELSE report[r]]
      BY <1>3, DeleteTripDoes
    <2>3. \A r \in Reports : report'[r] = "APPROVED" => report[r] = "APPROVED"
      BY <2>2
    <2> QED
      BY <2>1, <2>3, EndedKeeps DEF Idle
  <1>4. ASSUME NEW h \in Handlers, ReportStep(h)
        PROVE  Grants'
    <2>1. Ended(h) /\ tx[h] \in ReportTx
      BY <1>4, ReportStepDoes DEF ReportEffect
    <2>2. tx[h].kind = "report" /\ tx[h].id \in Reports
      BY <2>1 DEF ReportTx
    <2>3. \A q \in Reports : granted[q] > 0 => granted'[q] > 0
      BY <1>4, ReportStepDoes DEF ReportEffect
    <2>4. PaidWasApproved'
      <3>1. \A q \in Reports : paid'[q] > 0 =>
              paid[q] > 0 \/ (q = tx[h].id /\ tx[h].seen = "APPROVED")
        BY <1>4, ReportStepDoes DEF ReportEffect
      <3> QED
        BY <2>2, <2>3, <3>1
    <2>5. \A r \in Reports : report'[r] = "APPROVED" => granted'[r] > 0
      <3>1. \A q \in Reports \ {tx[h].id} : report'[q] = report[q]
        BY <1>4, ReportStepDoes DEF ReportEffect
      <3>2. report'[tx[h].id] = "APPROVED" =>
              report[tx[h].id] = "APPROVED" \/ granted'[tx[h].id] > 0
        BY <1>4, ReportStepDoes DEF ReportEffect
      <3> QED
        BY <2>2, <2>3, <3>1, <3>2
    <2>6. ASSUME NEW g \in Handlers, tx'[g].kind = "report", tx'[g].seen = "APPROVED"
          PROVE  granted'[tx'[g].id] > 0
      <3>1. tx'[g] = tx[g]
        BY <2>1, <2>6, EndedKeeps DEF Idle
      <3>2. tx[g].id \in Reports /\ granted[tx[g].id] > 0
        BY <2>6, <3>1, TxByKind DEF ReportTx, Base
      <3> QED
        BY <2>3, <3>1, <3>2
    <2> QED
      BY <2>4, <2>5, <2>6
  <1>5. ASSUME NEW h \in Handlers, NEW r \in Reports, CreateReport(h, r)
        PROVE  Grants'
    <2>1. Ended(h) /\ UNCHANGED <<granted, paid>>
      BY <1>5, CreateReportDoes
    <2>2. report' = [report EXCEPT ![r] = "DRAFT"]
      BY <1>5, CreateReportDoes
    <2>3. \A q \in Reports : report'[q] = "APPROVED" => report[q] = "APPROVED"
      BY <2>2 DEF Base, TypeOK
    <2> QED
      BY <2>1, <2>3, EndedKeeps DEF Idle
  <1>6. ASSUME NEW t \in Trips, CreateTrip(t)
        PROVE  Grants'
    BY <1>6, CreateTripDoes
  <1>7. CASE UNCHANGED vars
    BY <1>7 DEF vars, trips, reports
  <1>8. ASSUME NEW h \in Handlers,
               UpdateTrip(h) \/ PlainTrip(h) \/ ApproveTrip(h) \/ Rollback(h)
        PROVE  Ended(h) /\ UNCHANGED <<report, granted, paid>>
    BY <1>8, UpdateTripDoes, PlainTripDoes, ApproveTripDoes, RollbackDoes
  <1>9. CASE Edits
    BY <1>9, EditsDo
  <1> QED
    BY <1>1, <1>2, <1>3, <1>4, <1>5, <1>6, <1>7, <1>8, <1>9, Steps

-----------------------------------------------------------------------------
(* Trips and reports that two handlers never worked on at once *)

\* Nobody else works on the trip of h, which is as h read it.
AloneTrips ==
    \A h \in Handlers : tx[h].kind = "trip" /\ tx[h].id \notin overlapped =>
        /\ tx[h].seen = trip[tx[h].id] /\ tx[h].dates = period[tx[h].id]
        /\ \A g \in Handlers : tx[g].kind = "trip" /\ tx[g].id = tx[h].id => g = h

\* Likewise for reports, which delete_trip may delete all the same.
AloneReports ==
    \A h \in Handlers : tx[h].kind = "report" /\ tx[h].id \notin overlapped =>
        /\ report[tx[h].id] \in {tx[h].seen, "DELETED"}
        /\ \A g \in Handlers : tx[g].kind = "report" /\ tx[g].id = tx[h].id => g = h

\* An approved report has an approval that is not paid yet.
PaymentDue ==
    \A r \in Reports \ overlapped :
        /\ paid[r] <= granted[r]
        /\ report[r] = "APPROVED" => paid[r] < granted[r]

AloneInv == AloneTrips /\ AloneReports /\ AllowancesMatchDates /\ PaymentDue

LEMMA EndedAlone ==
    ASSUME Base, AloneTrips, AloneReports, NEW h \in Handlers, Ended(h),
           \A t \in Trips : \/ trip'[t] = trip[t] /\ period'[t] = period[t]
                            \/ tx[h].kind = "trip" /\ tx[h].id = t,
           \A r \in Reports : \/ report'[r] \in {report[r], "DELETED"}
                              \/ report[r] = "NONE"
                              \/ tx[h].kind = "report" /\ tx[h].id = r
    PROVE  AloneTrips' /\ AloneReports'
  <1>1. /\ tx'[h].kind = "idle" /\ UNCHANGED overlapped
        /\ \A g \in Handlers : tx'[g].kind # "idle" => tx'[g] = tx[g] /\ g # h
    BY DEF Base, TypeOK, Ended, Idle
  <1>2. AloneTrips'
    <2> SUFFICES ASSUME NEW g \in Handlers, tx'[g].kind = "trip", tx'[g].id \notin overlapped'
                 PROVE  /\ tx'[g].seen = trip'[tx'[g].id] /\ tx'[g].dates = period'[tx'[g].id]
                        /\ \A f \in Handlers : tx'[f].kind = "trip" /\ tx'[f].id = tx'[g].id => f = g
      BY DEF AloneTrips
    <2>1. tx'[g] = tx[g] /\ g # h /\ tx[g].id \in Trips
      BY <1>1, TxByKind DEF Base, TripTx
    <2>2. /\ tx[g].seen = trip[tx[g].id] /\ tx[g].dates = period[tx[g].id]
          /\ \A f \in Handlers : tx[f].kind = "trip" /\ tx[f].id = tx[g].id => f = g
      BY <1>1, <2>1 DEF AloneTrips
    <2>3. trip'[tx[g].id] = trip[tx[g].id] /\ period'[tx[g].id] = period[tx[g].id]
      BY <2>1, <2>2
    <2> QED
      BY <1>1, <2>1, <2>2, <2>3
  <1>3. AloneReports'
    <2> SUFFICES ASSUME NEW g \in Handlers, tx'[g].kind = "report", tx'[g].id \notin overlapped'
                 PROVE  /\ report'[tx'[g].id] \in {tx'[g].seen, "DELETED"}
                        /\ \A f \in Handlers : tx'[f].kind = "report" /\ tx'[f].id = tx'[g].id => f = g
      BY DEF AloneReports
    <2>1. tx'[g] = tx[g] /\ g # h /\ tx[g] \in ReportTx
      BY <1>1, TxByKind DEF Base
    <2>2. /\ report[tx[g].id] \in {tx[g].seen, "DELETED"}
          /\ \A f \in Handlers : tx[f].kind = "report" /\ tx[f].id = tx[g].id => f = g
      BY <1>1, <2>1 DEF AloneReports
    <2>3. tx[g].id \in Reports /\ tx[g].seen # "NONE"
      <3>1. \A o \in ReportOps : "NONE" \notin ReportFrom[o]
        BY DEF ReportOps, ReportFrom, Gone
      <3>2. tx[g].op \in ReportOps /\ tx[g].seen \in ReportFrom[tx[g].op]
        BY <2>1 DEF ReportTx, Base, Admitted
      <3> QED
        BY <2>1, <3>1, <3>2 DEF ReportTx
    <2>4. report'[tx[g].id] \in {report[tx[g].id], "DELETED"}
      BY <2>1, <2>2, <2>3
    <2> QED
      BY <1>1, <2>1, <2>2, <2>4
  <1> QED
    BY <1>2, <1>3

\* A handler that reads a row meets those that work on it.
LEMMA ReadsAlone ==
    ASSUME Base, AloneTrips, AloneReports, NEW h \in Handlers, Reads(h)
    PROVE  AloneTrips' /\ AloneReports' /\ overlapped \subseteq overlapped'
  <1>1. /\ UNCHANGED <<trip, period, report>>
        /\ \A g \in Handlers \ {h} : tx'[g] = tx[g]
    BY ReadsDo
  <1>2. CASE \E o \in TripOps, t \in Trips, p \in Periods : ReadTrip(h, o, t, p)
    <2>1. PICK o \in TripOps, t \in Trips, p \in Periods : ReadTrip(h, o, t, p)
      BY <1>2
    <2>2. /\ tx'[h].kind = "trip" /\ tx'[h].id = t
          /\ tx'[h].seen = trip[t] /\ tx'[h].dates = period[t]
      BY <2>1 DEF ReadTrip, Base, TypeOK
    <2>3. /\ overlapped \subseteq overlapped'
          /\ t \notin overlapped' => \A g \in Handlers : ~(tx[g].kind = "trip" /\ tx[g].id = t)
      BY <2>1 DEF ReadTrip, Meet
    <2>4. AloneTrips'
      <3> SUFFICES ASSUME NEW g \in Handlers, tx'[g].kind = "trip", tx'[g].id \notin overlapped'
                   PROVE  /\ tx'[g].seen = trip'[tx'[g].id] /\ tx'[g].dates = period'[tx'[g].id]
                          /\ \A f \in Handlers :
                               tx'[f].kind = "trip" /\ tx'[f].id = tx'[g].id => f = g
        BY DEF AloneTrips
      <3>1. CASE g = h
        BY <1>1, <2>2, <2>3, <3>1
      <3>2. CASE g # h
        <4>1. tx'[g] = tx[g] /\ tx[g].id \notin overlapped
          BY <1>1, <2>3, <3>2
        <4>2. tx[g].id # t
          BY <2>3, <4>1
        <4> QED
          BY <1>1, <2>2, <4>1, <4>2 DEF AloneTrips
      <3> QED
        BY <3>1, <3>2
    <2>5. AloneReports'
      BY <1>1, <2>2, <2>3 DEF AloneReports
    <2> QED
      BY <2>3, <2>4, <2>5
  <1>3. CASE \E o \in ReportOps, r \in Reports : ReadReport(h, o, r)
    <2>1. PICK o \in ReportOps, r \in Reports : ReadReport(h, o, r)
      BY <1>3
    <2>2. tx'[h].kind = "report" /\ tx'[h].id = r /\ tx'[h].seen = report[r]
      BY <2>1 DEF ReadReport, Base, TypeOK
    <2>3. /\ overlapped \subseteq overlapped'
          /\ r \notin overlapped' => \A g \in Handlers : ~(tx[g].kind = "report" /\ tx[g].id = r)
      BY <2>1 DEF ReadReport, Meet
    <2>4. AloneReports'
      <3> SUFFICES ASSUME NEW g \in Handlers, tx'[g].kind = "report", tx'[g].id \notin overlapped'
                   PROVE  /\ report'[tx'[g].id] \in {tx'[g].seen, "DELETED"}
                          /\ \A f \in Handlers :
                               tx'[f].kind = "report" /\ tx'[f].id = tx'[g].id => f = g
        BY DEF AloneReports
      <3>1. CASE g = h
        BY <1>1, <2>2, <2>3, <3>1
      <3>2. CASE g # h
        <4>1. tx'[g] = tx[g] /\ tx[g].id \notin overlapped
          BY <1>1, <2>3, <3>2
        <4>2. tx[g].id # r
          BY <2>3, <4>1
        <4> QED
          BY <1>1, <2>2, <4>1, <4>2 DEF AloneReports
      <3> QED
        BY <3>1, <3>2
    <2>5. AloneTrips'
      BY <1>1, <2>2, <2>3 DEF AloneTrips
    <2> QED
      BY <2>3, <2>4, <2>5
  <1>4. CASE \E t \in Trips \cup {NoTrip} : ReadForReport(h, t)
    <2>1. tx'[h].kind = "file" /\ UNCHANGED overlapped
      BY <1>4 DEF ReadForReport, Base, TypeOK
    <2> QED
      BY <1>1, <2>1 DEF AloneTrips, AloneReports
  <1> QED
    BY <1>2, <1>3, <1>4 DEF Reads

\* What a report's step counts, and the status it then has.
LEMMA ReportStepCounts ==
    ASSUME Base, NEW h \in Handlers, ReportStep(h)
    PROVE  LET r == tx[h].id IN
           \/ UNCHANGED <<granted, paid>> /\ (report'[r] = "APPROVED" => report[r] = "APPROVED")
           \/ granted' = [granted EXCEPT ![r] = @ + 1] /\ UNCHANGED paid
           \/ /\ paid' = [paid EXCEPT ![r] = @ + 1] /\ UNCHANGED granted
              /\ tx[h].seen = "APPROVED" /\ report'[r] = "PAID"
  <1>1. {"SUBMITTED", "REJECTED", "PAID", "CANCELLED", "DELETED"} \subseteq ReportStatus
    BY DEF ReportStatus
  <1>2. ASSUME NEW o, NEW s \in {"SUBMITTED", "REJECTED", "CANCELLED", "DELETED"},
               SetReport(h, o, s)
        PROVE  report'[tx[h].id] = "APPROVED" => report[tx[h].id] = "APPROVED"
    <2>1. report'[tx[h].id] \in {s, report[tx[h].id]}
      BY <1>1, <1>2, SetReportDoes
    <2> QED
      BY <2>1
  <1>3. CASE MarkPaid(h)
    <2>1. SetReport(h, "pay", "PAID")
      BY <1>3 DEF MarkPaid
    <2>2. tx[h].seen \in ReportFrom["pay"]
      BY <1>1, <2>1, SetReportDoes
    <2>3. tx[h].seen = "APPROVED"
      BY <2>2 DEF ReportFrom, ReportOps
    <2>4. report'[tx[h].id] = "PAID"
      BY <1>1, <2>1, <2>3, SetReportDoes
    <2> QED
      BY <1>3, <2>3, <2>4 DEF MarkPaid
  <1>4. CASE ApproveReport(h)
    BY <1>4 DEF ApproveReport
  <1> QED
    BY <1>2, <1>3, <1>4
    DEF ReportStep, SubmitReport, RejectReport, CancelReport, DeleteReport

\* A handler whose trip nobody else works on writes on what it read.
LEMMA StepMatches ==
    ASSUME Base, AloneInv, NEW h \in Handlers,
           UpdateTrip(h) \/ PlainTrip(h) \/ ApproveTrip(h) \/ DeleteTrip(h)
    PROVE  AllowancesMatchDates' /\ tx[h].kind = "trip"
  <1>1. tx[h] \in TripTx /\ Ended(h)
    BY TxByKind, UpdateTripDoes, PlainTripDoes, ApproveTripDoes, DeleteTripDoes
    DEF UpdateTrip, Base
  <1>2. tx[h].id \in Trips /\ tx[h].kind = "trip" /\ UNCHANGED overlapped
    BY <1>1 DEF TripTx, Ended
  <1>3. tx[h].id \notin overlapped =>
          tx[h].seen = trip[tx[h].id] /\ tx[h].dates = period[tx[h].id]
    BY <1>2 DEF AloneInv, AloneTrips
  <1>4. CASE UpdateTrip(h)
    <2>1. tx[h].seen = "DRAFT"
      BY <1>2, <1>4 DEF Base, Admitted, UpdateTrip, TripFrom, TripOps
    <2>2. \A t \in Trips \ {tx[h].id} : period'[t] = period[t]
      BY <1>4 DEF UpdateTrip, Base, TypeOK
    <2>3. UNCHANGED <<trip, allowances, edited>>
      BY <1>4, UpdateTripDoes
    <2> QED
      BY <1>2, <1>3, <2>1, <2>2, <2>3 DEF AloneInv, AllowancesMatchDates
  <1>5. CASE PlainTrip(h)
    <2>1. /\ UNCHANGED <<period, allowances, edited>>
          /\ \A t \in Trips \ {tx[h].id} : trip'[t] = trip[t]
      BY <1>5, PlainTripDoes
    <2>2. \/ trip'[tx[h].id] \in {"PENDING", "REJECTED", "CANCELLED", trip[tx[h].id]}
          \/ trip'[tx[h].id] = "COMPLETED" /\ tx[h].seen = "APPROVED"
      BY <1>5, PlainTripDoes
    <2> QED
      BY <1>2, <1>3, <2>1, <2>2 DEF AloneInv, AllowancesMatchDates
  <1>6. CASE ApproveTrip(h)
    <2>1. /\ UNCHANGED period
          /\ \A t \in Trips \ {tx[h].id} : trip'[t] = trip[t] /\ allowances'[t] = allowances[t]
          /\ allowances'[tx[h].id] = <<Days(tx[h].dates)>>
          /\ edited' = edited \ {tx[h].id}
      BY <1>6, ApproveTripDoes
    <2>2. DOMAIN Days(tx[h].dates) = First[tx[h].dates] .. Last[tx[h].dates]
      BY DEF Days
    <2>3. /\ Len(allowances'[tx[h].id]) = 1
          /\ allowances'[tx[h].id][1] = Days(tx[h].dates)
      BY <2>1
    <2> QED
      BY <1>2, <1>3, <2>1, <2>2, <2>3 DEF AloneInv, AllowancesMatchDates
  <1>7. CASE DeleteTrip(h)
    <2>1. /\ UNCHANGED <<period, edited>>
          /\ trip'[tx[h].id] = "DELETED"
          /\ \A t \in Trips \ {tx[h].id} : trip'[t] = trip[t]
      BY <1>7, DeleteTripDoes
    <2>2. allowances' = [allowances EXCEPT ![tx[h].id] = <<>>]
      BY <1>7, DeleteTripDoes
    <2>3. \A t \in Trips \ {tx[h].id} : allowances'[t] = allowances[t]
      BY <2>2 DEF Base, TypeOK
    <2> QED
      BY <1>2, <2>1, <2>3 DEF AloneInv, AllowancesMatchDates
  <1> QED
    BY <1>2, <1>4, <1>5, <1>6, <1>7

LEMMA StepPayments ==
    ASSUME Base, AloneInv, NEW h \in Handlers, ReportStep(h)
    PROVE  PaymentDue' /\ tx[h].kind = "report"
  <1>1. /\ Ended(h) /\ tx[h] \in ReportTx /\ report[tx[h].id] \notin Gone
        /\ \A q \in Reports \ {tx[h].id} : report'[q] = report[q]
    BY ReportStepDoes DEF ReportEffect
  <1>2. tx[h].id \in Reports /\ tx[h].kind = "report" /\ UNCHANGED overlapped
    BY <1>1 DEF ReportTx, Ended
  <1>3. tx[h].id \notin overlapped => report[tx[h].id] = tx[h].seen
    BY <1>1, <1>2 DEF AloneInv, AloneReports, Gone
  <1>4. granted \in [Reports -> Nat] /\ paid \in [Reports -> Nat]
    BY DEF Base, TypeOK
  <1>5. \A q \in Reports \ {tx[h].id} : granted'[q] = granted[q] /\ paid'[q] = paid[q]
    BY <1>2, <1>4, ReportStepCounts
  <1>6. tx[h].id \notin overlapped =>
          /\ paid'[tx[h].id] <= granted'[tx[h].id]
          /\ report'[tx[h].id] = "APPROVED" => paid'[tx[h].id] < granted'[tx[h].id]
    <2> DEFINE r == tx[h].id
    <2> SUFFICES ASSUME r \notin overlapped
                 PROVE  /\ paid'[r] <= granted'[r]
                        /\ report'[r] = "APPROVED" => paid'[r] < granted'[r]
      OBVIOUS
    <2>1. /\ paid[r] <= granted[r] /\ paid[r] \in Nat /\ granted[r] \in Nat
          /\ report[r] = "APPROVED" => paid[r] < granted[r]
      BY <1>2, <1>4 DEF AloneInv, PaymentDue
    <2>2. CASE /\ UNCHANGED <<granted, paid>>
               /\ report'[r] = "APPROVED" => report[r] = "APPROVED"
      BY <2>1, <2>2
    <2>3. CASE granted' = [granted EXCEPT ![r] = @ + 1] /\ UNCHANGED paid
      <3>1. granted'[r] = granted[r] + 1 /\ paid'[r] = paid[r]
        BY <1>2, <1>4, <2>3
      <3> QED
        BY <2>1, <3>1
    <2>4. CASE /\ paid' = [paid EXCEPT ![r] = @ + 1] /\ UNCHANGED granted
               /\ tx[h].seen = "APPROVED" /\ report'[r] = "PAID"
      <3>1. paid'[r] = paid[r] + 1 /\ granted'[r] = granted[r]
        BY <1>2, <1>4, <2>4
      <3>2. report[r] = "APPROVED"
        BY <1>3, <2>4
      <3> QED
        BY <2>1, <2>4, <3>1, <3>2
    <2> QED
      BY <2>2, <2>3, <2>4, ReportStepCounts
  <1>7. PaymentDue'
    <2> SUFFICES ASSUME NEW q \in Reports \ overlapped'
                 PROVE  /\ paid'[q] <= granted'[q]
                        /\ report'[q] = "APPROVED" => paid'[q] < granted'[q]
      BY DEF PaymentDue
    <2>1. CASE q = tx[h].id
      BY <1>2, <1>6, <2>1
    <2>2. CASE q # tx[h].id
      BY <1>1, <1>2, <1>5, <2>2 DEF AloneInv, PaymentDue
    <2> QED
      BY <2>1, <2>2
  <1> QED
    BY <1>2, <1>7

LEMMA StepAlone ==
    ASSUME Base, AloneInv, [Next]_vars
    PROVE  AloneInv'
  <1> USE DEF AloneInv
  <1>1. ASSUME NEW h \in Handlers, Reads(h)
        PROVE  AloneInv'
    <2>1. AloneTrips' /\ AloneReports' /\ overlapped \subseteq overlapped'
      BY <1>1, ReadsAlone
    <2>2. UNCHANGED <<trip, period, allowances, edited, report, granted, paid>>
      BY <1>1, ReadsDo
    <2> QED
      BY <2>1, <2>2 DEF AllowancesMatchDates, PaymentDue
  <1>2. ASSUME NEW h \in Handlers, UpdateTrip(h) \/ PlainTrip(h) \/ ApproveTrip(h)
        PROVE  AloneInv'
    <2>1. /\ Ended(h) /\ UNCHANGED <<report, granted, paid>>
          /\ \A t \in Trips \ {tx[h].id} : trip'[t] = trip[t] /\ period'[t] = period[t]
      <3>1. UpdateTrip(h) => \A t \in Trips \ {tx[h].id} : period'[t] = period[t]
        BY DEF UpdateTrip, Base, TypeOK
      <3> QED
        BY <1>2, <3>1, UpdateTripDoes, PlainTripDoes, ApproveTripDoes
    <2>2. AllowancesMatchDates' /\ tx[h].kind = "trip"
      BY <1>2, StepMatches
    <2>3. AloneTrips' /\ AloneReports'
      BY <2>1, <2>2, EndedAlone
    <2> QED
      BY <2>1, <2>2, <2>3 DEF PaymentDue, Ended
  <1>3. ASSUME NEW h \in Handlers, DeleteTrip(h)
        PROVE  AloneInv'
    <2>1. /\ Ended(h) /\ UNCHANGED <<period, granted, paid>>
          /\ \A t \in Trips \ {tx[h].id} : trip'[t] = trip[t]
          /\ report' = [r \in Reports |-> IF r \in tx[h].loaded THEN "DELETED" ELSE report[r]]
      BY <1>3, DeleteTripDoes
    <2>2. AllowancesMatchDates' /\ tx[h].kind = "trip"
      BY <1>3, StepMatches
    <2>3. \A r \in Reports : report'[r] \in {report[r], "DELETED"}
      BY <2>1
    <2>4. AloneTrips' /\ AloneReports'
      BY <2>1, <2>2, <2>3, EndedAlone
    <2> QED
      BY <2>1, <2>2, <2>3, <2>4 DEF PaymentDue, Ended
  <1>4. ASSUME NEW h \in Handlers, ReportStep(h)
        PROVE  AloneInv'
    <2>1. /\ Ended(h) /\ UNCHANGED <<trip, period, allowances, edited>>
          /\ \A q \in Reports \ {tx[h].id} : report'[q] = report[q]
      BY <1>4, ReportStepDoes DEF ReportEffect
    <2>2. PaymentDue' /\ tx[h].kind = "report"
      BY <1>4, StepPayments
    <2>3. AloneTrips' /\ AloneReports'
      BY <2>1, <2>2, EndedAlone
    <2> QED
      BY <2>1, <2>2, <2>3 DEF AllowancesMatchDates, Ended
  <1>5. ASSUME NEW h \in Handlers, NEW r \in Reports, CreateReport(h, r)
        PROVE  AloneInv'
    <2>1. Ended(h) /\ UNCHANGED <<trip, period, allowances, edited, granted, paid>>
      BY <1>5, CreateReportDoes
    <2>2. report' = [report EXCEPT ![r] = "DRAFT"] /\ report[r] = "NONE"
      BY <1>5, CreateReportDoes DEF CreateReport
    <2>3. report'[r] = "DRAFT" /\ \A q \in Reports \ {r} : report'[q] = report[q]
      BY <2>2 DEF Base, TypeOK
    <2>4. AloneTrips' /\ AloneReports'
      <3>1. \A q \in Reports : report'[q] \in {report[q], "DELETED"} \/ report[q] = "NONE"
        BY <2>2, <2>3
      <3> QED
        BY <2>1, <3>1, EndedAlone
    <2> QED
      BY <2>1, <2>3, <2>4 DEF AllowancesMatchDates, PaymentDue, Ended
  <1>6. ASSUME NEW h \in Handlers, Rollback(h)
        PROVE  AloneInv'
    <2>1. Ended(h) /\ UNCHANGED <<trip, period, allowances, edited, report, granted, paid>>
      BY <1>6, RollbackDoes
    <2>2. AloneTrips' /\ AloneReports'
      BY <2>1, EndedAlone
    <2> QED
      BY <2>1, <2>2 DEF AllowancesMatchDates, PaymentDue, Ended
  <1>7. ASSUME NEW t \in Trips, CreateTrip(t)
        PROVE  AloneInv'
    <2>1. /\ UNCHANGED <<period, allowances, edited, report, granted, paid, tx, overlapped>>
          /\ trip[t] = "NONE"
      BY <1>7, CreateTripDoes DEF CreateTrip
    <2>2. trip'[t] = "DRAFT" /\ \A u \in Trips \ {t} : trip'[u] = trip[u]
      BY <1>7, CreateTripDoes DEF Base, TypeOK
    <2>3. \A h \in Handlers : tx[h].kind = "trip" => tx[h].id \in Trips /\ tx[h].seen # "NONE"
      <3>1. \A o \in TripOps : "NONE" \notin TripFrom[o]
        BY DEF TripOps, TripFrom, Gone
      <3> QED
        BY <3>1, TxByKind DEF TripTx, Base, Admitted
    <2>4. AloneTrips'
      <3> SUFFICES ASSUME NEW h \in Handlers, tx[h].kind = "trip", tx[h].id \notin overlapped
                   PROVE  /\ tx[h].seen = trip'[tx[h].id] /\ tx[h].dates = period[tx[h].id]
                          /\ \A g \in Handlers : tx[g].kind = "trip" /\ tx[g].id = tx[h].id => g = h
        BY <2>1 DEF AloneTrips
      <3>1. tx[h].id # t
        BY <2>1, <2>3 DEF AloneTrips
      <3> QED
        BY <2>2, <2>3, <3>1 DEF AloneTrips
    <2> QED
      BY <2>1, <2>2, <2>4 DEF AloneReports, AllowancesMatchDates, PaymentDue
  <1>8. CASE UNCHANGED vars
    BY <1>8 DEF vars, trips, reports, AloneTrips, AloneReports, AllowancesMatchDates, PaymentDue
  <1>9. CASE Edits
    <2>1. UNCHANGED <<trip, period, report, granted, paid, overlapped, tx>>
      BY <1>9, EditsDo
    <2>2. AllowancesMatchDates'
      <3> SUFFICES ASSUME NEW t \in Trips \ overlapped, trip[t] \in {"APPROVED", "COMPLETED"}
                   PROVE  /\ Len(allowances'[t]) = 1
                          /\ DOMAIN allowances'[t][1] = First[period[t]] .. Last[period[t]]
                          /\ t \notin edited' => allowances'[t][1] = Days(period[t])
        BY <2>1 DEF AllowancesMatchDates
      <3>1. /\ Len(allowances[t]) = 1
            /\ DOMAIN allowances[t][1] = First[period[t]] .. Last[period[t]]
            /\ t \notin edited => allowances[t][1] = Days(period[t])
        BY DEF AllowancesMatchDates
      <3>2. 1 \in DOMAIN allowances[t]
        BY <3>1 DEF Base, TypeOK
      <3> QED
        BY <1>9, <3>1, <3>2, EditsDo
    <2>3. AloneTrips' /\ AloneReports'
      BY <2>1 DEF AloneTrips, AloneReports
    <2> QED
      BY <2>1, <2>2, <2>3 DEF PaymentDue
  <1> QED
    BY <1>1, <1>2, <1>3, <1>4, <1>5, <1>6, <1>7, <1>8, <1>9, Steps

-----------------------------------------------------------------------------
(* The theorems *)

LEMMA InitInvariant ==
    ASSUME Init
    PROVE  IInv
  <1>1. Generations
    BY DEF Init, Generations, AllowancesOnce, ApprovedTripHasAllowances,
           ReadApprovalHasAllowances, Idle
  <1>2. LinkedTripExists /\ Grants
    BY DEF Init, LinkedTripExists, Grants, PaidWasApproved, Idle, Gone
  <1> QED
    BY <1>1, <1>2, InitBase DEF IInv

\* The inductive invariant holds in every reachable state: the rows, and what the running
\* handlers of trips.py and reports.py have read of them.
THEOREM Invariance == Spec => []IInv
  <1>1. Init => IInv
    BY InitInvariant
  <1>2. IInv /\ [Next]_vars => IInv'
    BY StepBase, StepGenerations, StepLinks, StepGrants DEF IInv
  <1> QED
    BY <1>1, <1>2, PTL DEF Spec

\* The types of the rows and of what the handlers hold, for any number of trips, reports
\* and handlers.
THEOREM TypesCorrect == Spec => []TypeOK
  <1>1. IInv => TypeOK
    BY DEF IInv, Base
  <1> QED
    BY <1>1, Invariance, PTL

\* However approve_trip calls overlap, a trip has one generation of allowances at most.
THEOREM AllowancesAreSingle == Spec => []AllowancesOnce
  <1>1. IInv => AllowancesOnce
    BY DEF IInv, Generations
  <1> QED
    BY <1>1, Invariance, PTL

\* A trip that is APPROVED or COMPLETED has allowances, although complete_trip writes on
\* a status it read earlier.
THEOREM ApprovedTripsHaveAllowances == Spec => []ApprovedTripHasAllowances
  <1>1. IInv => ApprovedTripHasAllowances
    BY DEF IInv, Generations
  <1> QED
    BY <1>1, Invariance, PTL

\* No report names a trip that delete_trip has removed.
THEOREM LinkedTripsExist == Spec => []LinkedTripExists
  <1>1. IInv => LinkedTripExists
    BY DEF IInv
  <1> QED
    BY <1>1, Invariance, PTL

\* mark_paid, which checks a status it read earlier, pays no report that was never
\* approved.
THEOREM PaymentsWereApproved == Spec => []PaidWasApproved
  <1>1. IInv => PaidWasApproved
    BY DEF IInv, Grants
  <1> QED
    BY <1>1, Invariance, PTL

\* On trips and reports that two handlers never worked on at once: what the handlers read
\* still holds when they write, and an approved report has a payment due.
THEOREM AloneInvariance == Spec => []AloneInv
  <1>1. Init => AloneInv
    BY DEF Init, AloneInv, AloneTrips, AloneReports, AllowancesMatchDates, PaymentDue, Idle
  <1>2. IInv /\ AloneInv /\ [Next]_vars => AloneInv'
    BY StepAlone DEF IInv
  <1> QED
    BY <1>1, <1>2, Invariance, PTL DEF Spec

\* approve_trip, update_trip and complete_trip that do not overlap leave an approved trip
\* with one allowance for each of its days, which update_allowance may make full or half.
THEOREM AllowancesAreForTheDates == Spec => []AllowancesMatchDates
  <1>1. AloneInv => AllowancesMatchDates
    BY DEF AloneInv
  <1> QED
    BY <1>1, AloneInvariance, PTL

\* mark_paid pays a report at most once for each approve_report, however often it is
\* approved again, when no two handlers of the report overlap.
THEOREM PaymentsMatchApprovals == Spec => []PaymentPerApproval
  <1>1. AloneInv => PaymentPerApproval
    BY DEF AloneInv, PaymentDue, PaymentPerApproval
  <1> QED
    BY <1>1, AloneInvariance, PTL

=============================================================================
