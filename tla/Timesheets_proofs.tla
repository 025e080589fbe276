-------------------------- MODULE Timesheets_proofs --------------------------
(***************************************************************************)
(* Proofs about Timesheets, for any calendar, any settings and any number  *)
(* of requests that overlap.                                               *)
(***************************************************************************)
EXTENDS Timesheets, SumLemmas, SequenceTheorems

-----------------------------------------------------------------------------
(* The calendar *)

LEMMA CalendarTyped ==
    ASSUME NEW m \in Months
    PROVE  /\ First(m) \in Nat /\ Last(m) \in Nat
           /\ 1 <= First(m) /\ First(m) <= Last(m)
  <1>1. m \in Nat /\ LastMonth \in Nat /\ m <= LastMonth
    BY TimesheetAssumption DEF Months
  <1>2. 1 .. m - 1 \in SUBSET Months
    BY <1>1 DEF Months
  <1>3. IsFiniteSet(1 .. m - 1)
    BY <1>1, FS_Interval
  <1>4. DaysIn \in [Months -> Nat \ {0}] /\ DaysIn \in [Months -> Nat]
    BY TimesheetAssumption
  <1>5. SumOf(DaysIn, 1 .. m - 1) \in Nat
    BY <1>2, <1>3, <1>4, SumIsNat
  <1>6. First(m) = 1 + SumOf(DaysIn, 1 .. m - 1)
    BY DEF First, SumOf
  <1>7. DaysIn[m] \in Nat \ {0}
    BY <1>4
  <1> QED
    BY <1>5, <1>6, <1>7 DEF Last

LEMMA MaxOfTwo ==
    ASSUME NEW a \in Int, NEW b \in Int
    PROVE  Max({a, b}) = IF a >= b THEN a ELSE b
  <1> DEFINE P(x) == x \in {a, b} /\ \A y \in {a, b} : x >= y
             x == IF a >= b THEN a ELSE b
  <1>1. P(x) /\ \A y : P(y) => y = x
    OBVIOUS
  <1>2. Max({a, b}) = CHOOSE y : P(y)
    BY DEF Max
  <1> HIDE DEF P
  <1> QED
    BY <1>1, <1>2

LEMMA MinOfTwo ==
    ASSUME NEW a \in Int, NEW b \in Int
    PROVE  Min({a, b}) = IF a <= b THEN a ELSE b
  <1> DEFINE P(x) == x \in {a, b} /\ \A y \in {a, b} : x <= y
             x == IF a <= b THEN a ELSE b
  <1>1. P(x) /\ \A y : P(y) => y = x
    OBVIOUS
  <1>2. Min({a, b}) = CHOOSE y : P(y)
    BY DEF Min
  <1> HIDE DEF P
  <1> QED
    BY <1>1, <1>2

LEMMA HeldInMonth ==
    ASSUME NEW m \in Months, NEW d \in Int
    PROVE  Held(d, m) \in First(m) - 1 .. Last(m)
  <1> DEFINE a == First(m) - 1
             z == Last(m)
  <1>1. a \in Int /\ z \in Int /\ a <= z
    BY CalendarTyped
  <1> HIDE DEF a, z
  <1>2. Max({d, a}) \in Int /\ Max({d, a}) >= a
    BY <1>1, MaxOfTwo
  <1>3. Min({Max({d, a}), z}) \in a .. z
    BY <1>1, <1>2, MinOfTwo
  <1> QED
    BY <1>3 DEF Held, a, z

-----------------------------------------------------------------------------
(* The invariant *)

\* What the aggregator may answer about a month.
Answers(m) == {Blank} \cup (First(m) - 1 .. Last(m))

Running(m) ==
    [op : {"view", "confirm"}, month : {m}, row : {0, 1}, seen : Seq(Sheets(m)), fetched : BOOLEAN,
     data : Answers(m)]

Shape ==
    /\ sheets = [m \in Months |-> sheets[m]]
    /\ \A m \in Months : sheets[m] \in Seq(Sheets(m))
    /\ today \in Days
    /\ updated \in {0} \cup Days
    /\ settings \in Settings
    /\ raced \subseteq Months
    /\ tx = [h \in Clients |-> tx[h]]
    /\ \A h \in Clients : tx[h] # Idle => tx[h].month \in Months /\ tx[h] \in Running(tx[h].month)

\* What a handler that read a month may rely on: it is to insert where it saw no row,
\* and to write on a row that it saw as a draft.
SawIt(t) ==
    /\ t.row = Len(t.seen)
    /\ t.row = 1 => t.op = "confirm" /\ t.seen[1].confirmed = 0

Prepared == \A h \in Clients : tx[h] # Idle => SawIt(tx[h])

\* OneSheet is not inductive without what the handlers saw.
IInv == Shape /\ Prepared /\ OneSheet

-----------------------------------------------------------------------------
LEMMA InitInvariant ==
    ASSUME Init
    PROVE  IInv
  <1>1. 1 \in Days
    <2>1. LastMonth \in Months
      BY TimesheetAssumption DEF Months
    <2> QED
      BY <2>1, CalendarTyped DEF Days
  <1>2. \A m \in Months : sheets[m] = <<>>
    BY DEF Init
  <1>3. Shape
    BY <1>1, <1>2 DEF Init, Shape
  <1>4. Prepared
    BY DEF Init, Prepared
  <1>5. OneSheet
    BY <1>2 DEF OneSheet
  <1> QED
    BY <1>3, <1>4, <1>5 DEF IInv

-----------------------------------------------------------------------------
(* One lemma per action. *)

LEMMA AtMostOne ==
    ASSUME NEW n \in Nat, n <= 1
    PROVE  n = 0 \/ n = 1
  OBVIOUS

\* A handler whose record stays well formed and prepared disturbs nothing.
LEMMA RecordKeeps ==
    ASSUME IInv, NEW h \in Clients, UNCHANGED <<sheets, today, updated, settings, raced>>,
           tx' = [g \in Clients |-> tx'[g]], \A g \in Clients \ {h} : tx'[g] = tx[g],
           tx'[h].month \in Months, tx'[h] \in Running(tx'[h].month), SawIt(tx'[h])
    PROVE  IInv'
  <1> USE DEF IInv
  <1>1. Shape'
    <2>1. \A g \in Clients : tx'[g] # Idle =>
            tx'[g].month \in Months /\ tx'[g] \in Running(tx'[g].month)
      BY DEF Shape
    <2> QED
      BY <2>1 DEF Shape
  <1>2. Prepared'
    BY DEF Prepared
  <1>3. OneSheet'
    BY DEF OneSheet
  <1> QED
    BY <1>1, <1>2, <1>3

LEMMA ReadKeeps ==
    ASSUME IInv, NEW h \in Clients, NEW m \in Months, NEW op \in {"view", "confirm"}, Read(h, op, m)
    PROVE  IInv'
  <1> DEFINE t == [op |-> op, month |-> m, row |-> Row(m), seen |-> sheets[m],
                   fetched |-> Row(m) = 1, data |-> Blank]
  <1>1. tx' = [tx EXCEPT ![h] = t] /\ UNCHANGED <<sheets, today, updated, settings, raced>>
    BY DEF Read
  <1>2. sheets[m] \in Seq(Sheets(m)) /\ (Len(sheets[m]) = 0 \/ Len(sheets[m]) = 1)
    <2>1. sheets[m] \in Seq(Sheets(m))
      BY DEF IInv, Shape
    <2>2. Len(sheets[m]) \in Nat
      BY <2>1, LenProperties
    <2>3. Len(sheets[m]) <= 1
      BY DEF Read
    <2>4. Len(sheets[m]) = 0 \/ Len(sheets[m]) = 1
      BY <2>2, <2>3, AtMostOne
    <2> QED
      BY <2>1, <2>4
  <1>3. t \in Running(m) /\ t.month = m
    BY <1>2 DEF Running, Row, Answers
  <1>4. SawIt(t)
    BY DEF SawIt, Row, Read, Wanted
  <1>5. /\ tx' = [g \in Clients |-> tx'[g]] /\ tx'[h] = t
        /\ \A g \in Clients \ {h} : tx'[g] = tx[g]
    <2> HIDE DEF t
    <2> QED
      BY <1>1 DEF IInv, Shape
  <1> HIDE DEF t
  <1> QED
    BY <1>1, <1>3, <1>4, <1>5, RecordKeeps

LEMMA AnsweredKeeps ==
    ASSUME IInv, NEW h \in Clients, tx[h] # Idle, NEW data \in Answers(tx[h].month),
           Answered(h, data)
    PROVE  IInv'
  <1> DEFINE t == [tx[h] EXCEPT !.fetched = TRUE, !.data = data]
             m == tx[h].month
  <1>1. tx' = [tx EXCEPT ![h] = t] /\ UNCHANGED <<sheets, today, updated, settings, raced>>
    BY DEF Answered, IInv, Shape
  <1>2. m \in Months /\ tx[h] \in Running(m) /\ SawIt(tx[h])
    BY DEF IInv, Shape, Prepared
  <1>3. t \in Running(m) /\ t.month = m /\ SawIt(t)
    BY <1>2 DEF Running, SawIt
  <1>4. /\ tx' = [g \in Clients |-> tx'[g]] /\ tx'[h] = t
        /\ \A g \in Clients \ {h} : tx'[g] = tx[g]
    <2> HIDE DEF t
    <2> QED
      BY <1>1 DEF IInv, Shape
  <1> HIDE DEF t
  <1> QED
    BY <1>1, <1>2, <1>3, <1>4, RecordKeeps

LEMMA AnswersTyped ==
    ASSUME IInv, NEW h \in Clients, tx[h] # Idle
    PROVE  /\ FactsOf(tx[h].month) \in Answers(tx[h].month)
           /\ Blank \in Answers(tx[h].month)
  <1> DEFINE m == tx[h].month
  <1>1. m \in Months
    BY DEF IInv, Shape
  <1>2. today \in Int
    <2>1. LastMonth \in Months
      BY TimesheetAssumption DEF Months
    <2> QED
      BY <2>1, CalendarTyped DEF IInv, Shape, Days
  <1> HIDE DEF m
  <1>3. Held(today, m) \in First(m) - 1 .. Last(m)
    BY <1>1, <1>2, HeldInMonth
  <1>4. FactsOf(m) = Held(today, m)
    BY DEF FactsOf
  <1>5. FactsOf(m) \in Answers(m) /\ Blank \in Answers(m)
    BY <1>3, <1>4 DEF Answers
  <1> QED
    BY <1>5 DEF m

\* An assignment to the first row of a month, if there is one.
LEMMA FirstAssigned ==
    ASSUME NEW S, NEW s \in Seq(S), NEW e, 1 \in 1 .. Len(s) => e \in S
    PROVE  [s EXCEPT ![1] = e] \in Seq(S) /\ Len([s EXCEPT ![1] = e]) = Len(s)
  <1>1. CASE 1 \in 1 .. Len(s)
    BY <1>1, ExceptSeq
  <1>2. CASE 1 \notin 1 .. Len(s)
    <2>1. [s EXCEPT ![1] = e] = s
      BY <1>2
    <2> QED
      BY <2>1
  <1> QED
    BY <1>1, <1>2

\* A commit on what was seen leaves at most one sheet; any other marks the month.
LEMMA CommitKeeps ==
    ASSUME IInv, NEW h \in Clients, Commit(h)
    PROVE  IInv'
  <1> USE DEF IInv
  <1> DEFINE t == tx[h]
             m == t.month
  <1>1. t # Idle /\ t \in Running(m) /\ SawIt(t)
    BY DEF Commit, Shape, Prepared
  <1>2. m \in Months /\ sheets[m] \in Seq(Sheets(m)) /\ Len(sheets[m]) \in Nat
    <2>1. m \in Months /\ sheets[m] \in Seq(Sheets(m))
      BY <1>1 DEF Shape
    <2> QED
      BY <2>1, LenProperties
  <1>3. sheets' = [sheets EXCEPT ![m] = Written(h)]
    BY DEF Commit
  <1>4. t.data \in Answers(m) /\ Sheets(m) = [days : Answers(m), confirmed : {0} \cup Days]
    BY <1>1 DEF Running, Sheets, Answers
  <1>5. /\ Written(h) \in Seq(Sheets(m))
        /\ t.row = 0 => Len(Written(h)) = Len(sheets[m]) + 1
        /\ t.row # 0 => Len(Written(h)) = Len(sheets[m])
    <2>1. CASE t.row = 0
      <3> DEFINE s == [days |-> t.data, confirmed |-> IF t.op = "confirm" THEN today ELSE 0]
      <3>1. s \in Sheets(m)
        BY <1>4 DEF Shape
      <3>2. Written(h) = Append(sheets[m], s)
        BY <2>1 DEF Written
      <3> HIDE DEF s
      <3> QED
        BY <1>2, <2>1, <3>1, <3>2, AppendProperties
    <2>2. CASE t.row # 0
      <3> DEFINE e == [sheets[m][1] EXCEPT !.confirmed = today]
      <3>1. Written(h) = [sheets[m] EXCEPT ![1] = e]
        BY <2>2 DEF Written
      <3>2. \A i \in 1 .. Len(sheets[m]) : sheets[m][i] \in Sheets(m)
        BY <1>2, ElementOfSeq
      <3>3. today \in Days
        BY DEF Shape
      <3>4. 1 \in 1 .. Len(sheets[m]) => e \in Sheets(m)
        BY <1>4, <3>2, <3>3
      <3> HIDE DEF e
      <3> QED
        BY <1>2, <2>2, <3>1, <3>4, FirstAssigned
    <2> QED
      BY <2>1, <2>2
  <1>6. /\ sheets' = [k \in Months |-> sheets'[k]] /\ sheets'[m] = Written(h)
        /\ \A k \in Months \ {m} : sheets'[k] = sheets[k]
    <2> HIDE DEF m
    <2> QED
      BY <1>2, <1>3 DEF Shape
  <1>7. /\ tx' = [g \in Clients |-> tx'[g]] /\ tx'[h] = Idle
        /\ \A g \in Clients \ {h} : tx'[g] = tx[g]
    BY DEF Commit, Shape
  <1>8. Shape'
    <2>1. \A k \in Months : sheets'[k] \in Seq(Sheets(k))
      BY <1>5, <1>6 DEF Shape
    <2>2. raced' \subseteq Months /\ UNCHANGED <<today, updated, settings>>
      BY <1>2 DEF Commit, Shape
    <2> QED
      BY <1>6, <1>7, <2>1, <2>2 DEF Shape
  <1>9. Prepared'
    BY <1>7 DEF Prepared
  <1>10. OneSheet'
    <2> SUFFICES ASSUME NEW n \in Months, n \notin raced'
                 PROVE  Len(sheets'[n]) <= 1
      BY DEF OneSheet
    <2>1. Len(sheets[n]) <= 1
      BY DEF Commit, OneSheet
    <2>2. CASE n # m
      BY <1>6, <2>1, <2>2
    <2>3. CASE n = m
      <3>1. sheets[m] = t.seen
        BY <2>3 DEF Commit
      <3>2. t.row = Len(sheets[m])
        BY <1>1, <3>1 DEF SawIt
      <3> QED
        BY <1>2, <1>5, <1>6, <2>1, <2>3, <3>2
    <2> QED
      BY <2>2, <2>3
  <1> QED
    BY <1>8, <1>9, <1>10

LEMMA EnvironmentKeeps ==
    ASSUME IInv,
           \/ \E h \in Clients : Rollback(h)
           \/ NightlyUpdate
           \/ NextDay
           \/ \E s \in Settings : UpdateSettings(s)
           \/ UNCHANGED vars
    PROVE  IInv'
  <1> USE DEF IInv
  <1>1. ASSUME NEW h \in Clients, Rollback(h)
        PROVE  Shape' /\ Prepared' /\ OneSheet'
    <2>1. /\ UNCHANGED <<sheets, today, updated, settings, raced>>
          /\ tx' = [g \in Clients |-> tx'[g]] /\ tx'[h] = Idle
          /\ \A g \in Clients \ {h} : tx'[g] = tx[g]
      BY <1>1 DEF Rollback, Shape
    <2> QED
      BY <2>1 DEF Shape, Prepared, OneSheet
  <1>2. CASE NightlyUpdate
    BY <1>2 DEF NightlyUpdate, Shape, Prepared, OneSheet
  <1>3. CASE NextDay
    BY <1>3 DEF NextDay, Shape, Prepared, OneSheet
  <1>4. ASSUME NEW s \in Settings, UpdateSettings(s)
        PROVE  Shape' /\ Prepared' /\ OneSheet'
    BY <1>4 DEF UpdateSettings, Shape, Prepared, OneSheet
  <1>5. CASE UNCHANGED vars
    BY <1>5 DEF vars, Shape, Prepared, OneSheet
  <1> QED
    BY <1>1, <1>2, <1>3, <1>4, <1>5

LEMMA StepKeeps ==
    ASSUME IInv, [Next]_vars
    PROVE  IInv'
  <1>1. ASSUME NEW h \in Clients, NEW m \in Months, View(h, m) \/ Confirm(h, m)
        PROVE  IInv'
    BY <1>1, ReadKeeps DEF View, Confirm
  <1>2. ASSUME NEW h \in Clients, Fetch(h) \/ FetchFails(h)
        PROVE  IInv'
    <2>1. tx[h] # Idle
      BY <1>2 DEF Fetch, FetchFails, Answered
    <2> QED
      BY <1>2, <2>1, AnswersTyped, AnsweredKeeps DEF Fetch, FetchFails
  <1>3. ASSUME NEW h \in Clients, Commit(h)
        PROVE  IInv'
    BY <1>3, CommitKeeps
  <1> QED
    BY <1>1, <1>2, <1>3, EnvironmentKeeps DEF Next

-----------------------------------------------------------------------------
\* The inductive invariant holds in every reachable state: the sheets of each month, and what
\* generation and confirmation have read of them.
THEOREM Invariance == Spec => []IInv
  BY InitInvariant, StepKeeps, PTL DEF Spec

\* The days a sheet holds are days of its month, whenever it is generated
\* (get_employee_daily_attendance_range, timesheet.py).
THEOREM TypesCorrect == Spec => []TypeOK
  <1>1. ASSUME IInv
        PROVE  TypeOK
    <2>1. \A h \in Clients : tx[h] # Idle =>
            /\ tx[h].op \in {"view", "confirm"}
            /\ tx[h].month \in Months /\ tx[h].row \in {0, 1} /\ tx[h].fetched \in BOOLEAN
      BY <1>1 DEF IInv, Shape, Running
    <2> QED
      BY <1>1, <2>1 DEF IInv, Shape, TypeOK
  <1> QED
    BY <1>1, Invariance, PTL

\* get_or_create_timesheet never leaves two sheets of a month in which no handler wrote
\* on something older than it had read.
THEOREM SheetsAreSingle == Spec => []OneSheet
  <1>1. IInv => OneSheet
    BY DEF IInv
  <1> QED
    BY <1>1, Invariance, PTL

\* confirm_timesheet never touches a confirmed sheet of such a month.
THEOREM ConfirmedSheetsAreFrozen == Spec => ConfirmedIsFrozen
  <1> DEFINE Frozen ==
               \A m \in Months \ raced' : \A i \in DOMAIN sheets[m] :
                 sheets[m][i].confirmed # 0 => sheets'[m][i] = sheets[m][i]
  <1>1. ASSUME IInv, NEW h \in Clients, Commit(h)
        PROVE  Frozen
    <2> SUFFICES ASSUME NEW m \in Months, m \notin raced', NEW i \in DOMAIN sheets[m],
                        sheets[m][i].confirmed # 0
                 PROVE  sheets'[m][i] = sheets[m][i]
      OBVIOUS
    <2> DEFINE t == tx[h]
    <2>1. sheets' = [sheets EXCEPT ![t.month] = Written(h)]
      BY <1>1 DEF Commit
    <2>2. CASE t.month # m
      BY <1>1, <2>1, <2>2 DEF IInv, Shape
    <2>3. CASE t.month = m
      <3>1. sheets[m] = t.seen
        BY <1>1, <2>3 DEF Commit
      <3>2. t \in Running(m) /\ SawIt(t)
        BY <1>1, <2>3 DEF Commit, IInv, Shape, Prepared
      <3>3. sheets[m] \in Seq(Sheets(m)) /\ i \in 1 .. Len(sheets[m])
        BY <1>1 DEF IInv, Shape
      <3>4. t.row = Len(sheets[m]) /\ t.row \in {0, 1}
        BY <3>1, <3>2 DEF SawIt, Running
      <3>5. i = 1 /\ t.row = 1
        BY <3>3, <3>4
      <3>6. t.seen[1].confirmed = 0
        BY <3>2, <3>5 DEF SawIt
      <3> QED
        BY <3>1, <3>5, <3>6
    <2> QED
      BY <2>2, <2>3
  <1>2. ASSUME IInv, [Next]_vars, ~ \E h \in Clients : Commit(h)
        PROVE  UNCHANGED sheets
    BY <1>2 DEF Next, View, Confirm, Read, Fetch, FetchFails, Answered, Rollback, NightlyUpdate,
                NextDay, UpdateSettings, vars
  <1>3. IInv /\ [Next]_vars => [Frozen]_vars
    BY <1>1, <1>2
  <1> QED
    BY <1>3, Invariance, PTL DEF Spec, ConfirmedIsFrozen
=============================================================================
