----------------------- MODULE ApprovalEngine_proofs -----------------------
(***************************************************************************)
(* The engine keeps quorum, levels and order for any number of approvers,  *)
(* administrators and handlers.  A handler decides on what it read before; *)
(* the invariant says what of that is still true: rows that are decided    *)
(* stay decided, and votes that were counted were given.                   *)
(***************************************************************************)
EXTENDS ApprovalEngine, FiniteSetTheorems, SequenceTheorems, TLAPS

Deciding(h) == tx[h].kind \in {"decide", "count"}

\* What a handler that decides may rely on.
Reading(h) ==
    LET t == tx[h] IN
    /\ t.row \in 0 .. Len(rows)
    /\ Approvals(t.votes) \subseteq approved
    /\ \A j \in Pending(rows) : rows[j].level >= t.level
    /\ IF t.own THEN t.row # 0 ELSE t.user \in Admins
    /\ t.own /\ mode = "SEQUENTIAL" /\ rows[t.row].holder \notin Admins =>
         rows[t.row].level = t.level
    /\ t.kind = "count" => Pending(rows) \subseteq t.pending \cup {t.row}

Readings == \A h \in Handlers : Deciding(h) => Reading(h)

\* An approval in a row is in the history.
Recorded == \A k \in DOMAIN rows : rows[k].decision = "APPROVED_CONDITIONAL" => k \in approved

IInv == TypeOK /\ Readings /\ Recorded /\ LevelComplete /\ DecidedInOrder /\ EngineQuorum

-----------------------------------------------------------------------------
LEMMA InitInvariant ==
    ASSUME Init
    PROVE  IInv
  <1>1. N \in Nat \ {0} /\ MaxRows \in Nat /\ MaxRows >= N /\ N = Len(Approvers)
    BY EngineAssumption DEF N
  <1>2. \A i \in 1 .. N : AssignedRow(i, mode) \in Row /\ AssignedRow(i, mode).decision = "none"
                          /\ AssignedRow(i, mode).level >= 1
    BY <1>1 DEF AssignedRow, Row, Users, Decisions
  <1>3. rows \in Seq(Row) /\ Len(rows) = N
    BY <1>1, <1>2 DEF Init
  <1>4. TypeOK
    BY <1>1, <1>3 DEF Init, TypeOK, Status
  <1>5. Readings
    BY DEF Init, Readings, Deciding, Idle
  <1>6. Recorded
    BY <1>1, <1>2 DEF Init, Recorded
  <1>7. LevelComplete
    BY <1>1, <1>2 DEF Init, LevelComplete, Pending
  <1>8. DecidedInOrder
    BY <1>1, <1>2 DEF Init, DecidedInOrder, Pending
  <1>9. EngineQuorum
    BY DEF Init, EngineQuorum
  <1> QED
    BY <1>4, <1>5, <1>6, <1>7, <1>8, <1>9 DEF IInv

-----------------------------------------------------------------------------
(* Steps that leave the rows alone *)

\* A handler goes on to x, and at most the status is set, not by the engine.
LEMMA QuietStep ==
    ASSUME IInv, NEW h \in Handlers, UNCHANGED <<mode, level, rows, approved>>,
           status' \in Status, resolver' \in {resolver, "direct"},
           NEW x \in DecideTx \cup SettleTx \cup {Idle}, tx' = [tx EXCEPT ![h] = x],
           x.kind \in {"decide", "count"} => Reading(h)'
    PROVE  IInv'
  <1>1. TypeOK'
    BY DEF IInv, TypeOK
  <1>2. tx'[h] = x /\ \A g \in Handlers \ {h} : tx'[g] = tx[g]
    BY DEF IInv, TypeOK
  <1>3. Readings'
    <2> SUFFICES ASSUME NEW g \in Handlers, Deciding(g)'
                 PROVE  Reading(g)'
      BY DEF Readings
    <2>1. CASE g = h
      BY <1>2, <2>1 DEF Deciding
    <2>2. CASE g # h
      BY <1>2, <2>2 DEF IInv, Readings, Deciding, Reading, Pending, Approvals
    <2> QED
      BY <2>1, <2>2
  <1>4. Recorded' /\ LevelComplete' /\ DecidedInOrder'
    BY DEF IInv, Recorded, LevelComplete, DecidedInOrder, Pending
  <1>5. EngineQuorum'
    BY DEF IInv, EngineQuorum, Pending
  <1> QED
    BY <1>1, <1>3, <1>4, <1>5 DEF IInv

\* Whose row it is.
LEMMA RowDecided ==
    ASSUME TypeOK, NEW u \in Users, NEW i \in DecidableRows(u)
    PROVE  /\ i \in 0 .. Len(rows) /\ i \in 0 .. MaxRows
           /\ RowsOf(u) # {} => i # 0 /\ rows[i].holder = u
           /\ RowsOf(u) = {} => u \in Admins
  <1>1. DOMAIN rows = 1 .. Len(rows) /\ Len(rows) \in Nat /\ Len(rows) <= MaxRows /\ MaxRows \in Nat
    BY EngineAssumption DEF TypeOK, N
  <1>2. CASE RowsOf(u) # {}
    BY <1>1, <1>2 DEF DecidableRows, RowsOf
  <1>3. CASE RowsOf(u) = {}
    BY <1>1, <1>3 DEF DecidableRows, OverrideRows, Pending
  <1> QED
    BY <1>2, <1>3

LEMMA ReadDecisionKeeps ==
    ASSUME IInv, NEW h \in Handlers, NEW u \in Users, NEW d \in Decisions \ {"none"},
           ReadDecision(h, u, d)
    PROVE  IInv'
  <1>1. PICK i \in DecidableRows(u) :
          /\ i # 0 => rows[i].decision = "none"
          /\ u \notin Admins /\ mode = "SEQUENTIAL" => rows[i].level = level
          /\ tx' = [tx EXCEPT ![h] =
                      [kind |-> "decide", user |-> u, decision |-> d, own |-> RowsOf(u) # {},
                       row |-> i, level |-> level,
                       votes |-> [k \in DOMAIN rows |-> rows[k].decision], pending |-> {}]]
    BY DEF ReadDecision
  <1> DEFINE votes == [k \in DOMAIN rows |-> rows[k].decision]
             x == [kind |-> "decide", user |-> u, decision |-> d, own |-> RowsOf(u) # {},
                   row |-> i, level |-> level, votes |-> votes, pending |-> {}]
  <1>2. UNCHANGED <<mode, status, level, rows, resolver, approved>>
    BY DEF ReadDecision
  <1>3. /\ i \in 0 .. Len(rows) /\ i \in 0 .. MaxRows
        /\ RowsOf(u) # {} => i # 0 /\ rows[i].holder = u
        /\ RowsOf(u) = {} => u \in Admins
    BY RowDecided DEF IInv
  <1>4. votes \in Seq(Decisions)
    <2>1. rows \in [1 .. Len(rows) -> Row] /\ Len(rows) \in Nat
      BY LenProperties DEF IInv, TypeOK
    <2>2. \A k \in 1 .. Len(rows) : rows[k].decision \in Decisions
      BY <2>1 DEF Row
    <2>3. votes \in [1 .. Len(rows) -> Decisions]
      BY <2>1, <2>2
    <2> HIDE DEF votes
    <2> QED
      BY <2>1, <2>3, SeqDef
  <1>5. x \in DecideTx
    BY <1>3, <1>4 DEF DecideTx, IInv, TypeOK
  <1>6. Approvals(votes) \subseteq approved
    BY DEF Approvals, IInv, Recorded
  <1>7. tx'[h] = x
    BY <1>1 DEF IInv, TypeOK
  <1>8. Reading(h)'
    <2>1. rows' = rows /\ mode' = mode /\ approved' = approved
      BY <1>2
    <2>2. \A j \in Pending(rows) : rows[j].level >= level
      BY DEF IInv, LevelComplete
    <2>3. x.own /\ mode = "SEQUENTIAL" /\ rows[i].holder \notin Admins => rows[i].level = level
      BY <1>1, <1>3
    <2>4. /\ x.row = i /\ x.level = level /\ x.votes = votes /\ x.user = u /\ x.kind = "decide"
          /\ (IF x.own THEN i # 0 ELSE u \in Admins)
      BY <1>3
    <2> HIDE DEF x, votes
    <2> QED
      BY <1>3, <1>6, <1>7, <2>1, <2>2, <2>3, <2>4 DEF Reading, Pending, Approvals
  <1> QED
    BY <1>1, <1>2, <1>5, <1>8, QuietStep DEF IInv, TypeOK

LEMMA ReadRequestKeeps ==
    ASSUME IInv, NEW h \in Handlers, NEW s \in DirectStatus, ReadRequest(h, s)
    PROVE  IInv'
  <1> DEFINE x == [kind |-> "settle", target |-> s, seen |-> status]
  <1>1. x \in SettleTx /\ x.kind \notin {"decide", "count"}
    BY DEF SettleTx, IInv, TypeOK
  <1> QED
    BY <1>1, QuietStep DEF ReadRequest, IInv, TypeOK

\* A handler that decides is one by the type of what it has read.
LEMMA DecidingTyped ==
    ASSUME TypeOK, NEW h \in Handlers, Deciding(h)
    PROVE  tx[h] \in DecideTx
  <1>1. tx[h] \in DecideTx \cup SettleTx \cup {Idle}
    BY DEF TypeOK
  <1> QED
    BY <1>1 DEF Deciding, SettleTx, Idle

LEMMA CountPendingKeeps ==
    ASSUME IInv, NEW h \in Handlers, CountPending(h)
    PROVE  IInv'
  <1> DEFINE x == [tx[h] EXCEPT !.kind = "count", !.pending = Pending(rows) \ {tx[h].row}]
  <1>1. Deciding(h) /\ Reading(h) /\ tx[h] \in DecideTx
    BY DecidingTyped DEF CountPending, Deciding, IInv, Readings
  <1>2. Pending(rows) \subseteq 1 .. MaxRows
    BY EngineAssumption DEF Pending, IInv, TypeOK, N
  <1>3. x \in DecideTx
    BY <1>1, <1>2 DEF DecideTx
  <1>4. tx' = [tx EXCEPT ![h] = x] /\ UNCHANGED <<mode, status, level, rows, resolver, approved>>
    BY DEF CountPending
  <1>5. tx'[h] = x
    BY <1>4 DEF IInv, TypeOK
  <1>6. Reading(h)'
    <2>1. /\ x.row = tx[h].row /\ x.level = tx[h].level /\ x.own = tx[h].own
          /\ x.user = tx[h].user /\ x.votes = tx[h].votes
          /\ x.pending = Pending(rows) \ {tx[h].row}
      BY <1>1 DEF DecideTx
    <2> QED
      BY <1>1, <1>4, <1>5, <2>1 DEF Reading, Pending, Approvals
  <1> QED
    BY <1>3, <1>4, <1>6, QuietStep DEF IInv, TypeOK

LEMMA SettleKeeps ==
    ASSUME IInv, NEW h \in Handlers, Settle(h)
    PROVE  IInv'
  <1>1. tx[h] \in SettleTx
    BY DEF Settle, IInv, TypeOK, DecideTx, Idle
  <1>2. tx[h].target \in Status
    BY <1>1 DEF SettleTx, DirectStatus, Status
  <1>3. status' \in Status /\ resolver' \in {resolver, "direct"}
    BY <1>2 DEF Settle, IInv, TypeOK
  <1>4. Idle.kind \notin {"decide", "count"}
    BY DEF Idle
  <1> QED
    BY <1>3, <1>4, QuietStep DEF Settle

LEMMA RollbackKeeps ==
    ASSUME IInv, NEW h \in Handlers, Rollback(h)
    PROVE  IInv'
  <1>1. Idle.kind \notin {"decide", "count"}
    BY DEF Idle
  <1> QED
    BY <1>1, QuietStep DEF Rollback, IInv, TypeOK

-----------------------------------------------------------------------------
(* A decision *)

\* Rows are decided or added, in favour of an administrator where the holder changes.
RowsGo ==
    /\ rows' \in Seq(Row) /\ Len(rows') \in N .. MaxRows /\ Len(rows) <= Len(rows')
    /\ \A k \in DOMAIN rows :
         /\ rows'[k].level = rows[k].level
         /\ rows'[k].holder = rows[k].holder \/ rows'[k].holder \in Admins
    /\ Pending(rows') \subseteq Pending(rows)

\* The row a decision writes.
Written(h) == IF tx[h].row = 0 THEN Len(rows) + 1 ELSE tx[h].row

LEMMA DecideReads ==
    ASSUME IInv, NEW h \in Handlers, Decide(h)
    PROVE  /\ tx[h] \in DecideTx /\ tx[h].kind = "count" /\ Reading(h)
           /\ Written(h) \in 1 .. MaxRows /\ Len(rows) \in N .. MaxRows /\ N \in Nat \ {0}
           /\ MaxRows \in Nat /\ Written(h) <= Len(rows) + 1
           /\ rows \in [1 .. Len(rows) -> Row]
  <1>1. tx[h].kind = "count"
    BY DEF Decide
  <1>2. tx[h] \in DecideTx /\ Reading(h)
    BY <1>1, DecidingTyped DEF Deciding, IInv, Readings
  <1>3. Len(rows) \in N .. MaxRows /\ N \in Nat \ {0} /\ MaxRows \in Nat
    BY EngineAssumption DEF IInv, TypeOK
  <1>4. rows \in [1 .. Len(rows) -> Row]
    BY LenProperties DEF IInv, TypeOK
  <1>5. Written(h) <= MaxRows
    BY DEF Decide, Written
  <1> QED
    BY <1>1, <1>2, <1>3, <1>4, <1>5 DEF Written, Reading

LEMMA DecideRows ==
    ASSUME IInv, NEW h \in Handlers, Decide(h)
    PROVE  /\ RowsGo
           /\ DOMAIN rows' = DOMAIN rows \cup {Written(h)}
           /\ \A k \in DOMAIN rows \ {Written(h)} : rows'[k] = rows[k]
           /\ rows'[Written(h)] = Decided(tx[h])
           /\ Decided(tx[h]).decision = tx[h].decision /\ tx[h].decision # "none"
           /\ Pending(rows') \subseteq tx[h].pending
  <1> DEFINE i == Written(h)
             t == tx[h]
             n == IF i <= Len(rows) THEN Len(rows) ELSE i
  <1>1. /\ t \in DecideTx /\ t.kind = "count" /\ Reading(h)
        /\ i \in 1 .. MaxRows /\ Len(rows) \in N .. MaxRows /\ N \in Nat \ {0}
        /\ MaxRows \in Nat /\ i <= Len(rows) + 1
        /\ rows \in [1 .. Len(rows) -> Row]
    BY DecideReads
  <1>2. rows' = [k \in DOMAIN rows \cup {i} |-> IF k = i THEN Decided(t) ELSE rows[k]]
    BY DEF Decide, Written
  <1>3. /\ t.decision \in Decisions \ {"none"} /\ t.user \in Users /\ t.level \in 1 .. N
        /\ t.own \in BOOLEAN /\ t.row \in 0 .. Len(rows)
    BY <1>1 DEF DecideTx, Reading
  <1>4. t.row # 0 => t.row \in 1 .. Len(rows) /\ rows[t.row] \in Row /\ i = t.row
    BY <1>1, <1>3 DEF Written
  <1>5. /\ t.own => t.row # 0
        /\ ~t.own => t.user \in Admins
    BY <1>1, <1>3 DEF Reading
  <1>6. Decided(t) \in Row /\ Decided(t).decision = t.decision
    BY <1>3, <1>4, <1>5 DEF Decided, Row
  <1>7. DOMAIN rows \cup {i} = 1 .. n /\ n \in N .. MaxRows /\ Len(rows) <= n /\ n \in Nat
    BY <1>1
  <1>8. rows' \in [1 .. n -> Row]
    BY <1>1, <1>2, <1>6, <1>7
  <1>9. rows' \in Seq(Row) /\ Len(rows') = n
    BY <1>7, <1>8, SeqDef
  <1>10. \A k \in DOMAIN rows :
           /\ rows'[k].level = rows[k].level
           /\ rows'[k].holder = rows[k].holder \/ rows'[k].holder \in Admins
    <2> SUFFICES ASSUME NEW k \in DOMAIN rows, k = i
                 PROVE  /\ Decided(t).level = rows[k].level
                        /\ Decided(t).holder = rows[k].holder \/ Decided(t).holder \in Admins
      BY <1>2
    <2>1. t.row = k
      BY <1>1, <1>3 DEF Written
    <2> QED
      BY <1>3, <1>4, <1>5, <2>1 DEF Decided
  <1>11. Pending(rows') \subseteq Pending(rows) \ {i}
    BY <1>2, <1>3, <1>6, <1>8, <1>7 DEF Pending
  <1>12. Pending(rows') \subseteq t.pending
    BY <1>1, <1>4, <1>11 DEF Reading, Pending, Written
  <1> QED
    BY <1>2, <1>3, <1>6, <1>7, <1>9, <1>10, <1>11, <1>12 DEF RowsGo

\* What the others have read stays true.
LEMMA ReadingKept ==
    ASSUME IInv, NEW g \in Handlers, Deciding(g), tx'[g] = tx[g], RowsGo, mode' = mode,
           approved \subseteq approved'
    PROVE  Reading(g)'
  <1> DEFINE t == tx[g]
  <1>1. t \in DecideTx /\ Reading(g)
    BY DecidingTyped DEF IInv, Readings
  <1>2. /\ Len(rows) \in Nat /\ Len(rows') \in Nat /\ Len(rows) <= Len(rows')
        /\ DOMAIN rows = 1 .. Len(rows)
    BY DEF IInv, TypeOK, RowsGo
  <1>3. t.row \in 0 .. Len(rows')
    BY <1>1, <1>2 DEF Reading
  <1>4. \A j \in Pending(rows') : rows'[j].level >= t.level
    BY <1>1 DEF Reading, RowsGo, Pending
  <1>5. t.own /\ mode = "SEQUENTIAL" /\ rows'[t.row].holder \notin Admins =>
          rows'[t.row].level = t.level
    <2> HAVE t.own /\ mode = "SEQUENTIAL" /\ rows'[t.row].holder \notin Admins
    <2>1. t.row \in DOMAIN rows
      BY <1>1, <1>2 DEF Reading
    <2> QED
      BY <1>1, <2>1 DEF Reading, RowsGo
  <1>6. t.kind = "count" => Pending(rows') \subseteq t.pending \cup {t.row}
    BY <1>1 DEF Reading, RowsGo
  <1> HIDE DEF t
  <1>7. Approvals(t.votes) \subseteq approved' /\ IF t.own THEN t.row # 0 ELSE t.user \in Admins
    BY <1>1 DEF Reading, t
  <1>8. tx'[g] = t
    BY DEF t
  <1> QED
    BY <1>3, <1>4, <1>5, <1>6, <1>7, <1>8 DEF Reading, Pending, Approvals

LEMMA DecideTyped ==
    ASSUME IInv, NEW h \in Handlers, Decide(h)
    PROVE  TypeOK'
  <1> DEFINE t == tx[h]
  <1>1. t \in DecideTx /\ Written(h) \in 1 .. MaxRows /\ N \in Nat \ {0} /\ RowsGo
    BY DecideReads, DecideRows
  <1>2. status' \in Status
    BY DEF Decide, Resolution, IInv, TypeOK, Status
  <1>3. level' \in 1 .. N
    <2>1. CASE Advances(t.decision, t.level, t.pending)
      <3>1. t.level \in 1 .. N /\ t.level < N
        BY <1>1, <2>1 DEF DecideTx, Advances, MaxLevel
      <3> QED
        BY <1>1, <2>1, <3>1 DEF Decide
    <2>2. CASE ~Advances(t.decision, t.level, t.pending)
      BY <2>2 DEF Decide, IInv, TypeOK
    <2> QED
      BY <2>1, <2>2
  <1>4. tx' \in [Handlers -> DecideTx \cup SettleTx \cup {Idle}]
    BY DEF Decide, IInv, TypeOK
  <1>5. approved' \subseteq 1 .. MaxRows
    BY <1>1 DEF Decide, Written, IInv, TypeOK
  <1>6. mode' \in Modes /\ resolver' \in {"nobody", "engine", "direct"}
    BY DEF Decide, IInv, TypeOK
  <1> QED
    BY <1>1, <1>2, <1>3, <1>4, <1>5, <1>6 DEF TypeOK, RowsGo

\* The history grows by the row that is approved.
LEMMA DecideApproves ==
    ASSUME NEW h \in Handlers, Decide(h)
    PROVE  /\ approved \subseteq approved'
           /\ tx[h].decision = "APPROVED_CONDITIONAL" => Written(h) \in approved'
           /\ mode' = mode
  BY DEF Decide, Written

LEMMA DecideReadings ==
    ASSUME IInv, NEW h \in Handlers, Decide(h)
    PROVE  Readings'
  <1>1. RowsGo /\ mode' = mode /\ approved \subseteq approved'
    BY DecideRows, DecideApproves
  <1> SUFFICES ASSUME NEW g \in Handlers, Deciding(g)'
               PROVE  Reading(g)'
    BY DEF Readings
  <1>2. tx' = [tx EXCEPT ![h] = Idle] /\ tx \in [Handlers -> DecideTx \cup SettleTx \cup {Idle}]
    BY DEF Decide, IInv, TypeOK
  <1>3. g # h
    BY <1>2 DEF Deciding, Idle
  <1>4. tx'[g] = tx[g] /\ Deciding(g)
    BY <1>2, <1>3 DEF Deciding
  <1> QED
    BY <1>1, <1>4, ReadingKept

LEMMA DecideRecorded ==
    ASSUME IInv, NEW h \in Handlers, Decide(h)
    PROVE  Recorded'
  <1> SUFFICES ASSUME NEW k \in DOMAIN rows', rows'[k].decision = "APPROVED_CONDITIONAL"
               PROVE  k \in approved'
    BY DEF Recorded
  <1>1. CASE k = Written(h)
    BY <1>1, DecideRows, DecideApproves
  <1>2. CASE k # Written(h)
    BY <1>2, DecideRows, DecideApproves DEF IInv, Recorded
  <1> QED
    BY <1>1, <1>2

\* A level is left when no row of it is pending: none of the rows pending when they were
\* counted, of which those still pending are some, and none below.
LEMMA DecideLevels ==
    ASSUME IInv, NEW h \in Handlers, Decide(h)
    PROVE  LevelComplete'
  <1> SUFFICES ASSUME NEW k \in Pending(rows')
               PROVE  rows'[k].level >= level'
    BY DEF LevelComplete
  <1> DEFINE t == tx[h]
  <1>1. k \in Pending(rows) /\ k \in t.pending /\ rows'[k].level = rows[k].level
    BY DecideRows DEF RowsGo, Pending
  <1>2. rows[k].level \in 1 .. N /\ t.level \in 1 .. N /\ level \in 1 .. N /\ N \in Nat
    BY <1>1, DecideReads DEF DecideTx, Row, Pending, IInv, TypeOK
  <1>3. CASE Advances(t.decision, t.level, t.pending)
    <2>1. level' = t.level + 1
      BY <1>3 DEF Decide
    <2>2. rows[k].level # t.level
      BY <1>1, <1>3 DEF Advances
    <2>3. rows[k].level >= t.level
      BY <1>1, DecideReads DEF Reading
    <2> QED
      BY <1>1, <1>2, <2>1, <2>2, <2>3
  <1>4. CASE ~Advances(t.decision, t.level, t.pending)
    <2>1. level' = level
      BY <1>4 DEF Decide
    <2> QED
      BY <1>1, <2>1 DEF IInv, LevelComplete
  <1> QED
    BY <1>3, <1>4

LEMMA DecideInOrder ==
    ASSUME IInv, NEW h \in Handlers, Decide(h)
    PROVE  DecidedInOrder'
  <1> SUFFICES ASSUME mode' = "SEQUENTIAL",
                      NEW i \in DOMAIN rows' \ Pending(rows'), rows'[i].holder \notin Admins,
                      NEW j \in Pending(rows')
               PROVE  rows'[j].level >= rows'[i].level
    BY DEF DecidedInOrder
  <1> DEFINE t == tx[h]
  <1>1. mode = "SEQUENTIAL" /\ j \in Pending(rows) /\ rows'[j].level = rows[j].level
    BY DecideRows, DecideApproves DEF RowsGo, Pending
  <1>2. Reading(h) /\ t \in DecideTx
    BY DecideReads
  <1>3. CASE i = Written(h)
    <2>1. rows'[i] = Decided(t) /\ Decided(t).holder = (IF t.own THEN rows[t.row].holder ELSE t.user)
      BY <1>3, DecideRows DEF Decided
    <2>2. t.own
      BY <1>2, <2>1 DEF Reading
    <2>3. t.row # 0 /\ rows[t.row].holder \notin Admins
      BY <1>2, <2>1, <2>2 DEF Reading
    <2>4. rows[t.row].level = t.level
      BY <1>1, <1>2, <2>2, <2>3 DEF Reading
    <2>5. rows'[i].level = t.level
      BY <2>1, <2>3, <2>4 DEF Decided
    <2>6. rows[j].level >= t.level
      BY <1>1, <1>2 DEF Reading
    <2> QED
      BY <1>1, <2>5, <2>6
  <1>4. CASE i # Written(h)
    <2>1. i \in DOMAIN rows /\ rows'[i] = rows[i]
      BY <1>4, DecideRows
    <2>2. i \notin Pending(rows)
      BY <2>1 DEF Pending
    <2> QED
      BY <1>1, <2>1, <2>2 DEF IInv, DecidedInOrder
  <1> QED
    BY <1>3, <1>4

-----------------------------------------------------------------------------
(* The quorum *)

\* What the engine asks of a request it resolves; EngineQuorum is Quorum for its own.
Quorum ==
    /\ mode = "ANY" => approved # {}
    /\ mode = "SEQUENTIAL" => Pending(rows) = {}
    /\ mode = "ALL" => Cardinality(approved) >= N
    /\ mode = "MAJORITY" => 2 * Cardinality(approved) > N

LEMMA QuorumOfMode ==
    ASSUME mode \in Modes
    PROVE  EngineQuorum <=> (resolver = "engine" => Quorum)
  <1>1. \/ mode = "ANY" \/ mode = "SEQUENTIAL" \/ mode = "ALL" \/ mode = "MAJORITY"
    BY DEF Modes
  <1> QED
    BY <1>1 DEF EngineQuorum, Quorum

\* More approvals, by number.
LEMMA MoreApprovals ==
    ASSUME NEW A, NEW B, A \subseteq B, B \subseteq 1 .. MaxRows
    PROVE  /\ Cardinality(A) \in Nat /\ Cardinality(B) \in Nat
           /\ Cardinality(A) <= Cardinality(B)
  <1>1. IsFiniteSet(1 .. MaxRows)
    BY EngineAssumption, FS_Interval
  <1>2. IsFiniteSet(B)
    BY <1>1, FS_Subset
  <1> QED
    BY <1>2, FS_Subset, FS_CardinalityType

\* Once there, the quorum stays.
LEMMA QuorumKept ==
    ASSUME IInv, TypeOK', Quorum, RowsGo, mode' = mode, approved \subseteq approved'
    PROVE  Quorum'
  <1>1. Cardinality(approved) \in Nat /\ Cardinality(approved') \in Nat
        /\ Cardinality(approved) <= Cardinality(approved')
    BY MoreApprovals DEF TypeOK
  <1>2. Pending(rows) = {} => Pending(rows') = {}
    BY DEF RowsGo
  <1>3. N \in Nat
    BY EngineAssumption
  <1> QED
    BY <1>1, <1>2, <1>3 DEF Quorum, Pending

\* The votes it counts, its own among them, are approvals on record.
LEMMA VotesRecorded ==
    ASSUME IInv, NEW h \in Handlers, Decide(h),
           NEW votes, votes = IF tx[h].row = 0 THEN tx[h].votes
                              ELSE [tx[h].votes EXCEPT ![Written(h)] = tx[h].decision]
    PROVE  Approvals(votes) \subseteq approved'
  <1>1. Approvals(tx[h].votes) \subseteq approved
    BY DecideReads DEF Reading
  <1> QED
    BY <1>1, DecideApproves DEF Approvals

LEMMA DecideQuorum ==
    ASSUME IInv, NEW h \in Handlers, Decide(h), TypeOK'
    PROVE  EngineQuorum'
  <1> DEFINE t == tx[h]
             votes == IF t.row = 0 THEN t.votes ELSE [t.votes EXCEPT ![Written(h)] = t.decision]
             resolved == Complete(t.decision, votes, t.level, t.pending)
  <1>1. RowsGo /\ mode' = mode /\ approved \subseteq approved' /\ mode \in Modes
    BY DecideRows, DecideApproves DEF IInv, TypeOK
  <1>2. resolver' = IF resolved THEN "engine" ELSE resolver
    BY DEF Decide, Written
  <1>3. Approvals(votes) \subseteq approved'
    BY VotesRecorded
  <1>4. Cardinality(Approvals(votes)) \in Nat /\ Cardinality(approved') \in Nat
        /\ Cardinality(Approvals(votes)) <= Cardinality(approved')
    BY <1>3, MoreApprovals DEF TypeOK
  <1>5. N \in Nat \ {0} /\ t \in DecideTx
    BY DecideReads
  <1>6. ASSUME resolved
        PROVE  Quorum'
    <2>1. mode = "ANY" => approved' # {}
      BY <1>6, DecideApproves DEF Complete
    <2>2. mode = "ALL" => Cardinality(approved') >= N
      BY <1>4, <1>5, <1>6 DEF Complete, Required
    <2>3. mode = "MAJORITY" => 2 * Cardinality(approved') > N
      <3> SUFFICES ASSUME mode = "MAJORITY" PROVE 2 * Cardinality(approved') > N
        OBVIOUS
      <3>1. Cardinality(Approvals(votes)) >= (N \div 2) + 1
        BY <1>6 DEF Complete, Required
      <3>2. 2 * ((N \div 2) + 1) > N /\ N \div 2 \in Nat
        BY <1>5
      <3> QED
        BY <1>4, <1>5, <3>1, <3>2
    <2>4. mode = "SEQUENTIAL" => Pending(rows') = {}
      <3> SUFFICES ASSUME mode = "SEQUENTIAL", NEW k \in Pending(rows')
                   PROVE  FALSE
        OBVIOUS
      <3>1. t.level >= N /\ \A i \in t.pending : rows[i].level # t.level
        BY <1>6 DEF Complete, MaxLevel
      <3>2. k \in Pending(rows) /\ k \in t.pending
        BY DecideRows DEF RowsGo
      <3>3. rows[k].level \in 1 .. N /\ rows[k].level >= t.level
        BY <3>2, DecideReads DEF Reading, Row, Pending
      <3> QED
        BY <1>5, <3>1, <3>2, <3>3 DEF DecideTx
    <2> QED
      BY <1>1, <2>1, <2>2, <2>3, <2>4 DEF Quorum, Pending
  <1>7. ASSUME ~resolved, resolver = "engine"
        PROVE  Quorum'
    BY <1>1, <1>7, QuorumOfMode, QuorumKept DEF IInv
  <1>8. EngineQuorum' <=> (resolver' = "engine" => Quorum')
    <2>1. mode' \in Modes
      BY <1>1
    <2>2. mode' = "ANY" \/ mode' = "SEQUENTIAL" \/ mode' = "ALL" \/ mode' = "MAJORITY"
      BY <2>1 DEF Modes
    <2> QED
      BY <2>2 DEF EngineQuorum, Quorum
  <1> QED
    BY <1>2, <1>6, <1>7, <1>8

-----------------------------------------------------------------------------
LEMMA StepKeeps ==
    ASSUME IInv, [Next]_vars
    PROVE  IInv'
  <1>1. ASSUME NEW h \in Handlers, Decide(h)
        PROVE  IInv'
    BY <1>1, DecideTyped, DecideReadings, DecideRecorded, DecideLevels, DecideInOrder,
       DecideQuorum DEF IInv
  <1>2. CASE Next
    BY <1>1, <1>2, ReadDecisionKeeps, ReadRequestKeeps, CountPendingKeeps, SettleKeeps,
       RollbackKeeps DEF Next
  <1>3. CASE UNCHANGED vars
    <2>1. TypeOK'
      BY <1>3 DEF vars, IInv, TypeOK
    <2>2. Readings'
      BY <1>3 DEF vars, IInv, Readings, Deciding, Reading, Pending, Approvals
    <2>3. Recorded' /\ LevelComplete' /\ DecidedInOrder' /\ EngineQuorum'
      BY <1>3 DEF vars, IInv, Recorded, LevelComplete, DecidedInOrder, EngineQuorum, Pending
    <2> QED
      BY <2>1, <2>2, <2>3 DEF IInv
  <1> QED
    BY <1>2, <1>3

\* The inductive invariant: what the handlers have read of rows, levels and votes is a
\* lower bound of what there is.
THEOREM Invariance == Spec => []IInv
  BY InitInvariant, StepKeeps, PTL DEF Spec

\* The request, its decision rows and the transactions keep their types; current_level
\* stays among the levels of the workflow.
THEOREM TypesCorrect == Spec => []TypeOK
  <1>1. IInv => TypeOK
    BY DEF IInv
  <1> QED
    BY <1>1, Invariance, PTL

\* WorkflowEngine resolves a request only on the approvals its mode asks for, however
\* many approvers decide at the same time on decisions they loaded before.
THEOREM EngineKeepsQuorum == Spec => []EngineQuorum
  <1>1. IInv => EngineQuorum
    BY DEF IInv
  <1> QED
    BY <1>1, Invariance, PTL

\* A SEQUENTIAL request leaves no level behind on which somebody has yet to decide.
THEOREM LevelsAreComplete == Spec => []LevelComplete
  <1>1. IInv => LevelComplete
    BY DEF IInv
  <1> QED
    BY <1>1, Invariance, PTL

\* Approvers who are no administrators decide in the order of the workflow, whatever
\* administrators override and delegate in between.
THEOREM DecisionsInOrder == Spec => []DecidedInOrder
  <1>1. IInv => DecidedInOrder
    BY DEF IInv
  <1> QED
    BY <1>1, Invariance, PTL
=============================================================================
