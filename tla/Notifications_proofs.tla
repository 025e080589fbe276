------------------------ MODULE Notifications_proofs ------------------------
(***************************************************************************)
(* Proofs about Notifications, for any notifications, e-mails, batch size, *)
(* limit and number of overlapping runs.                                   *)
(***************************************************************************)
EXTENDS Notifications, SumLemmas

-----------------------------------------------------------------------------
(* The queue *)

Settled == {"sent", "failed", "read"}

\* What a run may have picked and added.
Picked == [ids : SUBSET Ids, new : SUBSET Ids]

\* What was read is settled.  What a run adds is not there yet, and in no other run.
QueueInv ==
    /\ status \in [Ids -> Status]
    /\ read \in [Ids -> BOOLEAN]
    /\ run \in [Workers -> Picked]
    /\ \A n \in Ids : read[n] => status[n] \in Settled
    /\ \A w \in Workers : \A n \in Ids \cap run[w].new : status[n] = "NONE"
    /\ \A v, w \in Workers : v # w => run[v].new \cap (run[w].new \cup run[w].ids) = {}

LEMMA InitQueue ==
    ASSUME Init
    PROVE  QueueInv
  BY DEF Init, QueueInv, Status, Idle, Picked

\* One step of the queue: the invariant stays, and nothing settled becomes pending.
QueueStep == QueueInv' /\ \A n \in Ids : status[n] \in Settled => status'[n] # "pending"

\* A step of one run leaves the others as they are.
LEMMA RunChanges ==
    ASSUME run \in [Workers -> Picked], NEW w \in Workers, NEW x \in Picked,
           run' = [run EXCEPT ![w] = x]
    PROVE  /\ run' \in [Workers -> Picked]
           /\ run'[w] = x
           /\ \A v \in Workers \ {w} : run'[v] = run[v]
  OBVIOUS

\* What each action makes of the run that takes it.
LEMMA RunCreates ==
    ASSUME QueueInv, NEW w \in Workers, NEW n \in Ids, Create(w, n)
    PROVE  /\ run' \in [Workers -> Picked]
           /\ run'[w].ids = {} /\ run'[w].new = {n}
           /\ \A v \in Workers \ {w} : run'[v] = run[v]
  <1> DEFINE x == [ids |-> {}, new |-> {n}]
  <1>1. run[w] = [ids |-> {}, new |-> {}]
    BY DEF Create, Idle
  <1>2. run' = [run EXCEPT ![w] = [run[w] EXCEPT !.new = {n}]]
    BY DEF Create
  <1>3. [run[w] EXCEPT !.new = {n}] = x
    BY <1>1
  <1>4. x \in Picked /\ x.ids = {} /\ x.new = {n}
    BY DEF Picked
  <1> HIDE DEF x
  <1>5. run' = [run EXCEPT ![w] = x]
    BY <1>2, <1>3
  <1> QED
    BY <1>4, <1>5, RunChanges DEF QueueInv

LEMMA RunReads ==
    ASSUME QueueInv, NEW w \in Workers, ReadBatch(w)
    PROVE  /\ run' \in [Workers -> Picked]
           /\ run'[w].ids = Batch(run[w].new) /\ run'[w].new = run[w].new
           /\ \A v \in Workers \ {w} : run'[v] = run[v]
  <1> DEFINE x == [run[w] EXCEPT !.ids = Batch(run[w].new)]
  <1>1. run[w] \in Picked
    BY DEF QueueInv
  <1>2. Batch(run[w].new) \subseteq Ids
    BY <1>1 DEF Batch, InQueue, Picked
  <1>3. x \in Picked /\ x.ids = Batch(run[w].new) /\ x.new = run[w].new
    BY <1>1, <1>2 DEF Picked
  <1>4. run' = [run EXCEPT ![w] = x]
    BY DEF ReadBatch
  <1> HIDE DEF x
  <1> QED
    BY <1>3, <1>4, RunChanges DEF QueueInv

LEMMA RunEnds ==
    ASSUME QueueInv, NEW w \in Workers, run' = [run EXCEPT ![w] = Idle]
    PROVE  /\ run' \in [Workers -> Picked]
           /\ run'[w].ids = {} /\ run'[w].new = {}
           /\ \A v \in Workers \ {w} : run'[v] = run[v]
  <1>1. Idle \in Picked /\ Idle.ids = {} /\ Idle.new = {}
    BY DEF Idle, Picked
  <1> QED
    BY <1>1, RunChanges DEF QueueInv

LEMMA CreateKeeps ==
    ASSUME QueueInv, NEW w \in Workers, NEW n \in Ids, Create(w, n)
    PROVE  QueueStep
  <1>1. UNCHANGED <<status, read>>
    BY DEF Create
  <1>2. status[n] = "NONE" /\ \A v \in Workers : n \notin run[v].ids \cup run[v].new
    BY DEF Create, Free, Rows
  <1>3. /\ run' \in [Workers -> Picked]
        /\ run'[w].new = {n} /\ run'[w].ids = {}
        /\ \A v \in Workers \ {w} : run'[v] = run[v]
    BY RunCreates
  <1>4. \A u, v \in Workers : u # v => run'[u].new \cap (run'[v].new \cup run'[v].ids) = {}
    <2>1. \A u \in Workers \ {w} : run'[u].new \cap (run'[w].new \cup run'[w].ids) = {}
      BY <1>2, <1>3
    <2>2. \A v \in Workers \ {w} : run'[w].new \cap (run'[v].new \cup run'[v].ids) = {}
      BY <1>2, <1>3
    <2>3. \A u, v \in Workers \ {w} : u # v =>
            run'[u].new \cap (run'[v].new \cup run'[v].ids) = {}
      BY <1>3 DEF QueueInv
    <2> QED
      BY <2>1, <2>2, <2>3
  <1>5. \A v \in Workers : \A m \in Ids \cap run'[v].new : status[m] = "NONE"
    BY <1>2, <1>3 DEF QueueInv
  <1>6. QueueInv'
    BY <1>1, <1>3, <1>4, <1>5 DEF QueueInv
  <1> QED
    BY <1>1, <1>6 DEF QueueStep, Settled

LEMMA ForgetKeeps ==
    ASSUME QueueInv, NEW n \in Ids, Forget(n)
    PROVE  QueueStep
  <1>1. status' = [status EXCEPT ![n] = "NONE"] /\ read' = [read EXCEPT ![n] = FALSE]
    BY DEF Forget
  <1>2. run' = run
    BY DEF Forget
  <1>3. status' \in [Ids -> Status] /\ read' \in [Ids -> BOOLEAN]
    BY <1>1 DEF QueueInv, Status
  <1>4. \A m \in Ids : read'[m] => status'[m] \in Settled
    BY <1>1 DEF QueueInv
  <1>5. \A m \in Ids : status'[m] \in {status[m], "NONE"}
    BY <1>1 DEF QueueInv
  <1> QED
    BY <1>2, <1>3, <1>4, <1>5 DEF QueueStep, QueueInv, Settled

LEMMA MarkKeeps ==
    ASSUME QueueInv, NEW S \in SUBSET {n \in Ids : status[n] # "NONE"}, Mark(S)
    PROVE  QueueStep
  <1>1. /\ status' = [n \in Ids |-> IF n \in S THEN "read" ELSE status[n]]
        /\ read' = [n \in Ids |-> n \in S \/ read[n]]
        /\ run' = run
    BY DEF Mark
  <1>2. status' \in [Ids -> Status] /\ read' \in [Ids -> BOOLEAN]
    BY <1>1 DEF QueueInv, Status
  <1>3. \A n \in Ids : read'[n] => status'[n] \in Settled
    BY <1>1 DEF QueueInv, Settled
  <1>4. \A n \in Ids : status'[n] \in {"read", status[n]} /\ (status[n] = "NONE" => status'[n] = "NONE")
    BY <1>1
  <1> QED
    BY <1>1, <1>2, <1>3, <1>4 DEF QueueStep, QueueInv, Settled

LEMMA ReadBatchKeeps ==
    ASSUME QueueInv, NEW w \in Workers, ReadBatch(w)
    PROVE  QueueStep
  <1> DEFINE B == Batch(run[w].new)
  <1>1. UNCHANGED <<status, read>>
    BY DEF ReadBatch
  <1>2. /\ run' \in [Workers -> Picked]
        /\ run'[w].ids = B /\ run'[w].new = run[w].new
        /\ \A v \in Workers \ {w} : run'[v] = run[v]
    BY RunReads
  <1>3. \A m \in B : m \in run[w].new \/ (m \in Ids /\ status[m] = "pending")
    BY DEF Batch, InQueue, Pending
  <1> HIDE DEF B
  <1>4. \A v \in Workers : run'[v].new = run[v].new
    BY <1>2
  <1>5. \A v \in Workers \ {w} : run[v].new \cap B = {}
    BY <1>3 DEF QueueInv
  <1>6. QueueInv'
    BY <1>1, <1>2, <1>4, <1>5 DEF QueueInv
  <1> QED
    BY <1>1, <1>6 DEF QueueStep, Settled

LEMMA CommitBatchKeeps ==
    ASSUME QueueInv, NEW w \in Workers, CommitBatch(w)
    PROVE  QueueStep
  <1>1. /\ status' = [n \in Ids |-> IF n \in run[w].ids THEN Outcome(n)
                                    ELSE IF n \in run[w].new THEN "pending" ELSE status[n]]
        /\ run' = [run EXCEPT ![w] = Idle]
        /\ read' = read
    BY DEF CommitBatch
  <1>2. \A n \in Ids : Outcome(n) \in Settled /\ Settled \subseteq Status
    BY DEF Outcome, Settled, Status
  <1>3. /\ run' \in [Workers -> Picked]
        /\ run'[w].new = {} /\ run'[w].ids = {}
        /\ \A v \in Workers \ {w} : run'[v] = run[v]
    BY <1>1, RunEnds
  <1>4. status' \in [Ids -> Status]
    BY <1>1, <1>2 DEF QueueInv, Status
  <1>5. \A n \in Ids : \/ status'[n] \in Settled
                       \/ n \in run[w].new /\ status[n] = "NONE"
                       \/ status'[n] = status[n]
    BY <1>1, <1>2 DEF QueueInv
  <1>6. \A n \in Ids : read'[n] => status'[n] \in Settled
    BY <1>1, <1>5 DEF QueueInv, Settled
  <1>7. \A v \in Workers : \A n \in Ids \cap run'[v].new : status'[n] = "NONE"
    <2>1. ASSUME NEW v \in Workers \ {w}, NEW n \in Ids \cap run[v].new
          PROVE  status'[n] = "NONE"
      <3>1. n \notin run[w].new /\ n \notin run[w].ids
        BY <2>1 DEF QueueInv
      <3> QED
        BY <1>1, <2>1, <3>1 DEF QueueInv
    <2> QED
      BY <1>3, <2>1
  <1>8. \A u, v \in Workers : u # v => run'[u].new \cap (run'[v].new \cup run'[v].ids) = {}
    BY <1>3 DEF QueueInv
  <1>9. QueueInv'
    BY <1>1, <1>3, <1>4, <1>6, <1>7, <1>8 DEF QueueInv
  <1>10. \A n \in Ids : status[n] \in Settled => status'[n] # "pending"
    BY <1>5 DEF Settled
  <1> QED
    BY <1>9, <1>10 DEF QueueStep

LEMMA AbortBatchKeeps ==
    ASSUME QueueInv, NEW w \in Workers, AbortBatch(w)
    PROVE  QueueStep
  <1>1. UNCHANGED <<status, read>> /\ run' = [run EXCEPT ![w] = Idle]
    BY DEF AbortBatch
  <1>2. /\ run' \in [Workers -> Picked]
        /\ run'[w].new = {} /\ run'[w].ids = {}
        /\ \A v \in Workers \ {w} : run'[v] = run[v]
    BY <1>1, RunEnds
  <1>3. QueueInv'
    BY <1>1, <1>2 DEF QueueInv
  <1> QED
    BY <1>1, <1>3 DEF QueueStep, Settled

-----------------------------------------------------------------------------
(* The age of the rows *)

\* older is a total order of the rows, and of nothing else.
Aged ==
    /\ older \in [Ids -> SUBSET Ids]
    /\ IsFiniteSet(Rows)
    /\ \A n \in Ids : older[n] \subseteq Rows \ {n}
    /\ \A m, n \in Ids : m \in older[n] => older[m] \subseteq older[n]
    /\ \A m, n \in Rows : m # n => m \in older[n] \/ n \in older[m]

\* What a run has picked is there still.
OrderInv ==
    /\ Aged
    /\ \A w \in Workers : \A n \in run[w].ids : status[n] # "NONE" \/ n \in run[w].new

LEMMA InitOrder ==
    ASSUME Init
    PROVE  OrderInv
  <1>1. Rows = {}
    BY DEF Init, Rows, Idle
  <1>2. \A w \in Workers : run[w].ids = {}
    BY DEF Init, Idle
  <1>3. older \in [Ids -> SUBSET Ids] /\ \A n \in Ids : older[n] = {}
    BY DEF Init
  <1> QED
    BY <1>1, <1>2, <1>3, FS_EmptySet DEF OrderInv, Aged

\* Rows that go leave the others in their order.
LEMMA RowsGo ==
    ASSUME Aged, NEW S, Rows' = Rows \ S, older' = Without(S)
    PROVE  Aged'
  <1> DEFINE R == Rows
  <1>1. \A n \in Ids : /\ n \in S => older'[n] = {}
                       /\ n \notin S => older'[n] = older[n] \ S
    BY DEF Without
  <1>2. older' \in [Ids -> SUBSET Ids]
    BY DEF Without, Aged
  <1>3. IsFiniteSet(Rows')
    BY FS_Subset DEF Aged
  <1>4. R \subseteq Ids /\ Rows' = R \ S
    BY DEF Rows
  <1>5. /\ \A n \in Ids : older[n] \subseteq R \ {n}
        /\ \A m, n \in Ids : m \in older[n] => older[m] \subseteq older[n]
        /\ \A m, n \in R : m # n => m \in older[n] \/ n \in older[m]
    BY DEF Aged
  <1> HIDE DEF R
  <1>6. \A n \in Ids : older'[n] \subseteq (R \ S) \ {n}
    <2> SUFFICES ASSUME NEW n \in Ids PROVE older'[n] \subseteq (R \ S) \ {n}
      OBVIOUS
    <2> QED
      BY <1>1, <1>5
  <1>7. \A m, n \in Ids : m \in older'[n] => older'[m] \subseteq older'[n]
    <2> SUFFICES ASSUME NEW m \in Ids, NEW n \in Ids, m \in older'[n]
                 PROVE  older'[m] \subseteq older'[n]
      OBVIOUS
    <2>1. n \notin S /\ m \notin S /\ m \in older[n]
      BY <1>1
    <2> QED
      BY <1>1, <1>5, <2>1
  <1>8. \A m, n \in R \ S : m # n => m \in older'[n] \/ n \in older'[m]
    <2> SUFFICES ASSUME NEW m \in R \ S, NEW n \in R \ S, m # n
                 PROVE  m \in older'[n] \/ n \in older'[m]
      OBVIOUS
    <2> QED
      BY <1>1, <1>4, <1>5
  <1> QED
    BY <1>2, <1>3, <1>4, <1>6, <1>7, <1>8 DEF Aged

LEMMA RowsStay ==
    ASSUME Aged, Rows' = Rows, older' = older
    PROVE  Aged'
  BY DEF Aged

LEMMA CreateOrders ==
    ASSUME QueueInv, OrderInv, NEW w \in Workers, NEW n \in Ids, Create(w, n)
    PROVE  OrderInv'
  <1>1. run[w] = Idle /\ n \notin Rows /\ status' = status
    BY DEF Create, Free
  <1>2. older' = [older EXCEPT ![n] = Rows]
    BY DEF Create
  <1>3. /\ run'[w].new = {n} /\ run'[w].ids = {}
        /\ \A v \in Workers \ {w} : run'[v] = run[v]
    BY RunCreates
  <1>4. Rows' = Rows \cup {n}
    <2>1. run[w].new = {}
      BY <1>1 DEF Idle
    <2> QED
      BY <1>1, <1>3, <2>1 DEF Rows
  <1>5. Rows \subseteq Ids
    BY DEF Rows
  <1>6. \A m \in Ids : older'[m] = IF m = n THEN Rows ELSE older[m]
    BY <1>2 DEF OrderInv, Aged
  <1>7. Aged'
    <2>1. older' \in [Ids -> SUBSET Ids]
      BY <1>2, <1>5 DEF OrderInv, Aged
    <2>2. IsFiniteSet(Rows')
      BY <1>4, FS_AddElement DEF OrderInv, Aged
    <2>3. \A m \in Ids : older'[m] \subseteq Rows' \ {m}
      BY <1>1, <1>4, <1>6 DEF OrderInv, Aged
    <2>4. \A l, m \in Ids : l \in older'[m] => older'[l] \subseteq older'[m]
      BY <1>1, <1>6 DEF OrderInv, Aged
    <2>5. \A l, m \in Rows' : l # m => l \in older'[m] \/ m \in older'[l]
      BY <1>4, <1>5, <1>6 DEF OrderInv, Aged
    <2> QED
      BY <2>1, <2>2, <2>3, <2>4, <2>5 DEF Aged
  <1>9. \A v \in Workers : \A m \in run'[v].ids : status'[m] # "NONE" \/ m \in run'[v].new
    BY <1>1, <1>3 DEF OrderInv
  <1> QED
    BY <1>7, <1>9 DEF OrderInv

LEMMA ForgetOrders ==
    ASSUME QueueInv, OrderInv, NEW n \in Ids, Forget(n)
    PROVE  OrderInv'
  <1>1. /\ status[n] # "NONE" /\ \A w \in Workers : n \notin run[w].ids
        /\ status' = [status EXCEPT ![n] = "NONE"]
        /\ run' = run /\ older' = Without({n})
    BY DEF Forget
  <1>2. \A m \in Ids : status'[m] = IF m = n THEN "NONE" ELSE status[m]
    BY <1>1 DEF QueueInv
  <1>3. \A w \in Workers : n \notin run[w].new
    BY <1>1 DEF QueueInv
  <1>4. Rows' = Rows \ {n}
    BY <1>1, <1>2, <1>3 DEF Rows
  <1>5. Aged'
    BY <1>1, <1>4, RowsGo DEF OrderInv
  <1>6. \A w \in Workers : run[w].ids \subseteq Ids
    BY DEF QueueInv, Picked
  <1>7. \A w \in Workers : \A m \in run'[w].ids : status'[m] # "NONE" \/ m \in run'[w].new
    BY <1>1, <1>2, <1>6 DEF OrderInv
  <1> QED
    BY <1>1, <1>5, <1>7 DEF OrderInv

LEMMA MarkOrders ==
    ASSUME QueueInv, OrderInv, NEW S \in SUBSET {n \in Ids : status[n] # "NONE"}, Mark(S)
    PROVE  OrderInv'
  <1>1. /\ status' = [n \in Ids |-> IF n \in S THEN "read" ELSE status[n]]
        /\ run' = run /\ older' = older
    BY DEF Mark
  <1>2. \A n \in Ids : status'[n] # "NONE" <=> status[n] # "NONE"
    BY <1>1
  <1>3. Rows' = Rows
    BY <1>1, <1>2 DEF Rows
  <1>4. Aged'
    BY <1>1, <1>3, RowsStay DEF OrderInv
  <1>5. \A w \in Workers : run[w].ids \subseteq Ids
    BY DEF QueueInv, Picked
  <1>6. \A w \in Workers : \A m \in run'[w].ids : status'[m] # "NONE" \/ m \in run'[w].new
    BY <1>1, <1>2, <1>5 DEF OrderInv
  <1> QED
    BY <1>1, <1>4, <1>6 DEF OrderInv

LEMMA ReadBatchOrders ==
    ASSUME QueueInv, OrderInv, NEW w \in Workers, ReadBatch(w)
    PROVE  OrderInv'
  <1> DEFINE B == Batch(run[w].new)
  <1>1. status' = status /\ older' = older
    BY DEF ReadBatch
  <1>2. \A m \in B : status[m] # "NONE" \/ m \in run[w].new
    BY DEF Batch, InQueue, Pending
  <1>3. /\ run'[w].ids = B /\ run'[w].new = run[w].new
        /\ \A v \in Workers \ {w} : run'[v] = run[v]
    BY RunReads
  <1> HIDE DEF B
  <1>4. \A v \in Workers : run'[v].new = run[v].new
    BY <1>3
  <1>5. Rows' = Rows
    BY <1>1, <1>4 DEF Rows
  <1>6. Aged'
    BY <1>1, <1>5, RowsStay DEF OrderInv
  <1>8. \A v \in Workers : \A m \in run'[v].ids : status'[m] # "NONE" \/ m \in run'[v].new
    BY <1>1, <1>2, <1>3, <1>4 DEF OrderInv
  <1> QED
    BY <1>6, <1>8 DEF OrderInv

LEMMA CommitOrders ==
    ASSUME QueueInv, OrderInv, NEW w \in Workers, CommitBatch(w)
    PROVE  OrderInv'
  <1>1. /\ status' = [n \in Ids |-> IF n \in run[w].ids THEN Outcome(n)
                                    ELSE IF n \in run[w].new THEN "pending" ELSE status[n]]
        /\ run' = [run EXCEPT ![w] = Idle] /\ older' = older
    BY DEF CommitBatch
  <1>2. \A n \in Ids : Outcome(n) # "NONE"
    BY DEF Outcome
  <1>3. \A n \in Ids : status'[n] # "NONE" <=> status[n] # "NONE" \/ n \in run[w].new
    BY <1>1, <1>2 DEF OrderInv
  <1>5. run'[w].new = {} /\ run'[w].ids = {} /\ \A v \in Workers \ {w} : run'[v] = run[v]
    BY <1>1, RunEnds
  <1>6. Rows' = Rows
    BY <1>3, <1>5 DEF Rows
  <1>7. Aged'
    BY <1>1, <1>6, RowsStay DEF OrderInv
  <1>9. \A v \in Workers : run[v].ids \subseteq Ids
    BY DEF QueueInv, Picked
  <1>10. \A v \in Workers : \A m \in run'[v].ids : status'[m] # "NONE" \/ m \in run'[v].new
    BY <1>3, <1>5, <1>9 DEF OrderInv
  <1> QED
    BY <1>7, <1>10 DEF OrderInv

LEMMA AbortOrders ==
    ASSUME QueueInv, OrderInv, NEW w \in Workers, AbortBatch(w)
    PROVE  OrderInv'
  <1>1. status' = status /\ run' = [run EXCEPT ![w] = Idle] /\ older' = Without(run[w].new)
    BY DEF AbortBatch
  <1>3. run'[w].new = {} /\ run'[w].ids = {} /\ \A v \in Workers \ {w} : run'[v] = run[v]
    BY <1>1, RunEnds
  <1>4. \A n \in run[w].new : n \in Ids /\ status[n] = "NONE"
    BY DEF QueueInv, Picked
  <1>5. \A v \in Workers \ {w} : run[v].new \cap run[w].new = {}
    BY DEF QueueInv
  <1>6. Rows' = Rows \ run[w].new
    BY <1>1, <1>3, <1>4, <1>5 DEF Rows
  <1>7. Aged'
    BY <1>1, <1>6, RowsGo DEF OrderInv
  <1>9. \A v \in Workers : \A m \in run'[v].ids : status'[m] # "NONE" \/ m \in run'[v].new
    BY <1>1, <1>3 DEF OrderInv
  <1> QED
    BY <1>7, <1>9 DEF OrderInv

-----------------------------------------------------------------------------
(* What a batch is *)

\* A finite set in a total order, A[n] being what comes before n.  The elements with
\* fewer than k before them are the first k, or all of them.
LEMMA FirstOnes ==
    ASSUME NEW P, IsFiniteSet(P), NEW A \in [P -> SUBSET P], NEW k \in Nat,
           \A n \in P : n \notin A[n],
           \A m, n \in P : m \in A[n] => A[m] \subseteq A[n],
           \A m, n \in P : m # n => m \in A[n] \/ n \in A[m],
           NEW B, B = {n \in P : Cardinality(A[n]) < k}
    PROVE  /\ Cardinality(B) \in Nat /\ Cardinality(B) <= k
           /\ \A n \in P \ B : Cardinality(B) = k /\ B \subseteq A[n]
  <1>1. \A n \in P : IsFiniteSet(A[n]) /\ Cardinality(A[n]) \in Nat
    BY FS_Subset, FS_CardinalityType
  <1>2. ASSUME NEW m \in P, NEW n \in P, m \in A[n]
        PROVE  Cardinality(A[m]) < Cardinality(A[n])
    <2>1. A[m] \subseteq A[n] /\ A[m] # A[n]
      BY <1>2
    <2>2. Cardinality(A[m]) <= Cardinality(A[n]) /\ Cardinality(A[m]) # Cardinality(A[n])
      BY <1>1, <2>1, FS_Subset
    <2> QED
      BY <1>1, <2>2
  <1>3. Cardinality(B) \in Nat /\ Cardinality(B) <= k
    <2> DEFINE f == [n \in B |-> Cardinality(A[n])]
               T == 0 .. k - 1
    <2>1. IsFiniteSet(T) /\ Cardinality(T) = k
      BY FS_Interval
    <2>2. f \in [B -> T]
      BY <1>1
    <2>3. ASSUME NEW m \in B, NEW n \in B, f[m] = f[n]
          PROVE  m = n
      <3>1. m \in P /\ n \in P /\ Cardinality(A[m]) = Cardinality(A[n])
        BY <2>3
      <3> QED
        BY <1>1, <1>2, <3>1
    <2> HIDE DEF f, T
    <2>4. f \in Injection(B, T)
      BY <2>2, <2>3 DEF Injection, IsInjective
    <2> QED
      BY <2>1, <2>4, FS_Injection, FS_CardinalityType
  <1>4. ASSUME NEW n \in P \ B
        PROVE  B \subseteq A[n]
    <2>1. ASSUME NEW m \in B, m \notin A[n]
          PROVE  FALSE
      <3>1. m \in P /\ n \in A[m] /\ Cardinality(A[m]) < k
        BY <1>4, <2>1
      <3>2. Cardinality(A[n]) < Cardinality(A[m])
        BY <1>2, <3>1
      <3> QED
        BY <1>1, <3>1, <3>2
    <2> QED
      BY <2>1
  <1>5. ASSUME P \ B # {}
        PROVE  k <= Cardinality(B)
    <2> DEFINE T == {A[n] : n \in P \ B}
    <2>1. T \in SUBSET (SUBSET P) /\ T # {}
      BY <1>5
    <2>2. PICK s \in T : \A t \in T : ~(t \subseteq s /\ t # s)
      <3> HIDE DEF T
      <3> QED
        BY <2>1, MinimalSubset
    <2>3. PICK n \in P \ B : s = A[n]
      BY <2>2
    <2>4. ASSUME NEW m \in A[n], m \notin B
          PROVE  FALSE
      <3>1. m \in P /\ A[m] \in T
        BY <2>3, <2>4
      <3>2. A[m] \subseteq A[n] /\ A[m] # A[n]
        BY <2>3, <2>4, <3>1
      <3> QED
        BY <2>2, <2>3, <3>1, <3>2
    <2>5. A[n] \subseteq B /\ IsFiniteSet(B)
      BY <2>4, FS_Subset
    <2>6. Cardinality(A[n]) <= Cardinality(B) /\ k <= Cardinality(A[n])
      BY <1>1, <2>3, <2>5, FS_Subset
    <2> QED
      BY <1>1, <1>3, <2>6, <2>3
  <1> QED
    BY <1>3, <1>4, <1>5

\* What get_queued returns to a run: batch_size notifications at most; when some of those it
\* sees are left out, that many, all created before those.
BatchesAreOldest ==
    \A w \in Workers : LET new == run[w].new IN
        /\ Cardinality(Batch(new)) <= Limit
        /\ \A n \in InQueue(new) \ Batch(new) :
             Cardinality(Batch(new)) = Limit /\ Batch(new) \subseteq older[n]

LEMMA BatchesInOrder ==
    ASSUME QueueInv, OrderInv
    PROVE  BatchesAreOldest
  <1> SUFFICES ASSUME NEW w \in Workers, NEW new, new = run[w].new
               PROVE  /\ Cardinality(Batch(new)) <= Limit
                      /\ \A n \in InQueue(new) \ Batch(new) :
                           Cardinality(Batch(new)) = Limit /\ Batch(new) \subseteq older[n]
    BY DEF BatchesAreOldest
  <1> DEFINE P == InQueue(new)
             A == [n \in P |-> P \cap older[n]]
             B == Batch(new)
  <1>1. P \subseteq Rows /\ Rows \subseteq Ids
    BY DEF InQueue, Pending, Rows, QueueInv, Picked
  <1>2. B = {n \in P : Cardinality(A[n]) < Limit}
    BY DEF Batch
  <1>3. Limit \in Nat
    BY NotificationsAssumption
  <1> HIDE DEF P
  <1>4. /\ IsFiniteSet(P)
        /\ A \in [P -> SUBSET P]
        /\ \A n \in P : n \notin A[n]
        /\ \A m, n \in P : m \in A[n] => A[m] \subseteq A[n]
        /\ \A m, n \in P : m # n => m \in A[n] \/ n \in A[m]
    BY <1>1, FS_Subset DEF OrderInv, Aged
  <1>5. \A n \in P : A[n] \subseteq older[n]
    OBVIOUS
  <1> HIDE DEF A, B
  <1>6. /\ Cardinality(B) <= Limit
        /\ \A n \in P \ B : Cardinality(B) = Limit /\ B \subseteq A[n]
    BY <1>2, <1>3, <1>4, FirstOnes
  <1> QED
    BY <1>5, <1>6 DEF P, B

-----------------------------------------------------------------------------
(* The e-mail logs *)

RetryRun == [left : SUBSET Mails, done : SUBSET Mails, seen : [Mails -> Nat]]

\* A run holds only e-mails whose count, as it read it, was below the limit.
MailInv ==
    /\ tries \in [Mails -> Nat]
    /\ TriesBounded
    /\ retry \in [Retriers -> RetryRun]
    /\ \A w \in Retriers : \A e \in retry[w].left \cup retry[w].done : retry[w].seen[e] < MaxRetries

LEMMA InitMail ==
    ASSUME Init
    PROVE  MailInv
  <1>1. Asleep \in RetryRun /\ Asleep.left = {} /\ Asleep.done = {}
    BY DEF Asleep, RetryRun
  <1> QED
    BY <1>1, NotificationsAssumption DEF Init, MailInv, TriesBounded

LEMMA SendEmailKeeps ==
    ASSUME MailInv, NEW e \in Mails, SendEmail(e)
    PROVE  MailInv'
  BY NotificationsAssumption DEF SendEmail, MailInv, TriesBounded

LEMMA ReadRetriesKeeps ==
    ASSUME MailInv, NEW w \in Retriers, ReadRetries(w)
    PROVE  MailInv'
  <1> DEFINE x == [left |-> Retries, done |-> {},
                   seen |-> [e \in Mails |-> IF e \in Retries THEN tries[e] ELSE 0]]
  <1>1. retry' = [retry EXCEPT ![w] = x] /\ tries' = tries
    BY DEF ReadRetries
  <1>2. x \in RetryRun
    BY DEF RetryRun, MailInv, Retries
  <1>3. \A e \in x.left \cup x.done : x.seen[e] < MaxRetries
    BY DEF Retryable, Retries
  <1> HIDE DEF x
  <1> QED
    BY <1>1, <1>2, <1>3 DEF MailInv, TriesBounded

\* Writing what a run holds keeps every count within the limit.
LEMMA WriteBounded ==
    ASSUME MailInv, NEW w \in Retriers, NEW failed, NEW tried,
           failed \cup tried \subseteq retry[w].left \cup retry[w].done,
           WriteRetries(w, failed, tried)
    PROVE  tries' \in [Mails -> Nat] /\ TriesBounded'
  <1>1. tries' = [e \in Mails |->
                   IF e \in failed \cup tried THEN retry[w].seen[e] + 1 ELSE tries[e]]
    BY DEF WriteRetries
  <1>2. retry[w].seen \in [Mails -> Nat]
    BY DEF MailInv, RetryRun
  <1>3. \A e \in failed \cup tried : retry[w].seen[e] < MaxRetries
    BY DEF MailInv
  <1> QED
    BY <1>1, <1>2, <1>3, NotificationsAssumption DEF MailInv, TriesBounded

LEMMA RetryOneKeeps ==
    ASSUME MailInv, NEW w \in Retriers, NEW e \in Mails, RetryOne(w, e)
    PROVE  MailInv'
  <1>1. e \in retry[w].left /\ retry[w] \in RetryRun
    BY DEF RetryOne, MailInv
  <1>2. \E D \in {{}, retry[w].done \cup {e}} :
          retry' = [retry EXCEPT ![w].left = @ \ {e}, ![w].done = D]
    BY DEF RetryOne
  <1>3. PICK D \in {{}, retry[w].done \cup {e}} :
          retry' = [retry EXCEPT ![w].left = @ \ {e}, ![w].done = D]
    BY <1>2
  <1>4. retry' \in [Retriers -> RetryRun]
    BY <1>1, <1>3 DEF RetryRun, MailInv
  <1>5. \A v \in Retriers : \A f \in retry'[v].left \cup retry'[v].done :
          retry'[v].seen[f] < MaxRetries
    BY <1>1, <1>3 DEF RetryRun, MailInv
  <1>6. tries' \in [Mails -> Nat] /\ TriesBounded'
    <2>1. CASE template
      BY <2>1 DEF RetryOne, MailInv, TriesBounded
    <2>2. CASE ~template
      <3>1. WriteRetries(w, {e}, retry[w].done)
        BY <2>2 DEF RetryOne
      <3> QED
        BY <1>1, <3>1, WriteBounded
    <2> QED
      BY <2>1, <2>2
  <1> QED
    BY <1>4, <1>5, <1>6 DEF MailInv

LEMMA AsleepKeeps ==
    ASSUME MailInv, NEW w \in Retriers, retry' = [retry EXCEPT ![w] = Asleep],
           tries' \in [Mails -> Nat], TriesBounded'
    PROVE  MailInv'
  <1>1. Asleep \in RetryRun /\ Asleep.left = {} /\ Asleep.done = {}
    BY DEF Asleep, RetryRun
  <1> HIDE DEF Asleep
  <1> QED
    BY <1>1 DEF MailInv

LEMMA CommitRetriesKeeps ==
    ASSUME MailInv, NEW w \in Retriers, CommitRetries(w)
    PROVE  MailInv'
  BY WriteBounded, AsleepKeeps DEF CommitRetries

LEMMA AbortRetriesKeeps ==
    ASSUME MailInv, NEW w \in Retriers, AbortRetries(w)
    PROVE  MailInv'
  <1>1. tries' \in [Mails -> Nat] /\ TriesBounded'
    BY DEF AbortRetries, MailInv, TriesBounded
  <1> QED
    BY <1>1, AsleepKeeps DEF AbortRetries

MailTyped == mail \in [Mails -> MailStatus] /\ template \in BOOLEAN

LEMMA MailStaysTyped ==
    ASSUME MailTyped, [Next]_vars
    PROVE  MailTyped'
  <1>1. ASSUME NEW w, NEW failed, NEW tried, WriteRetries(w, failed, tried)
        PROVE  mail' \in [Mails -> MailStatus]
    BY <1>1 DEF WriteRetries, MailTyped, MailStatus
  <1>2. CASE QueueNext
    <2>1. UNCHANGED mails
      BY <1>2 DEF QueueNext, Create, Forget, MarkRead, MarkAllRead, Mark, ReadBatch, CommitBatch,
                  AbortBatch
    <2> QED
      BY <2>1 DEF MailTyped, mails
  <1>3. ASSUME NEW e \in Mails, SendEmail(e)
        PROVE  MailTyped'
    BY <1>3 DEF SendEmail, MailTyped, MailStatus
  <1>4. CASE SwitchTemplate
    BY <1>4 DEF SwitchTemplate, MailTyped
  <1>5. ASSUME NEW w \in Retriers, ReadRetries(w) \/ AbortRetries(w)
        PROVE  MailTyped'
    BY <1>5 DEF ReadRetries, AbortRetries, MailTyped
  <1>6. ASSUME NEW w \in Retriers, CommitRetries(w)
        PROVE  MailTyped'
    BY <1>1, <1>6 DEF CommitRetries, MailTyped
  <1>7. ASSUME NEW w \in Retriers, NEW e \in Mails, RetryOne(w, e)
        PROVE  MailTyped'
    BY <1>1, <1>7 DEF RetryOne, MailTyped
  <1>8. CASE UNCHANGED vars
    BY <1>8 DEF vars, mails, MailTyped
  <1> QED
    BY <1>2, <1>3, <1>4, <1>5, <1>6, <1>7, <1>8 DEF Next, MailNext

-----------------------------------------------------------------------------
(* The theorems *)

IInv == QueueInv /\ OrderInv /\ MailInv /\ MailTyped

LEMMA QueueUnchanged ==
    ASSUME QueueInv, UNCHANGED queue
    PROVE  QueueStep
  BY DEF QueueStep, QueueInv, queue, Settled

LEMMA OrderUnchanged ==
    ASSUME OrderInv, UNCHANGED queue
    PROVE  OrderInv'
  <1>1. Rows' = Rows
    BY DEF queue, Rows
  <1> QED
    BY <1>1, RowsStay DEF queue, OrderInv

LEMMA MailUnchanged ==
    ASSUME MailInv, UNCHANGED <<tries, retry>>
    PROVE  MailInv'
  BY DEF MailInv, TriesBounded

LEMMA StepKeeps ==
    ASSUME IInv, [Next]_vars
    PROVE  MailInv' /\ QueueStep /\ OrderInv'
  <1> USE DEF IInv
  <1>1. CASE QueueNext
    <2>1. MailInv'
      <3>1. UNCHANGED mails
        BY <1>1 DEF QueueNext, Create, Forget, MarkRead, MarkAllRead, Mark, ReadBatch,
                    CommitBatch, AbortBatch
      <3> QED
        BY <3>1, MailUnchanged DEF mails
    <2>2. ASSUME NEW n \in Ids, MarkRead(n)
          PROVE  QueueStep /\ OrderInv'
      BY <2>2, MarkKeeps, MarkOrders DEF MarkRead
    <2>3. CASE MarkAllRead
      <3>1. {n \in Ids : status[n] # "NONE" /\ ~read[n]} \in
              SUBSET {n \in Ids : status[n] # "NONE"}
        OBVIOUS
      <3> QED
        BY <2>1, <2>3, <3>1, MarkKeeps, MarkOrders DEF MarkAllRead
    <2>4. ASSUME NEW w \in Workers, ReadBatch(w) \/ CommitBatch(w) \/ AbortBatch(w)
          PROVE  QueueStep /\ OrderInv'
      BY <2>4, ReadBatchKeeps, CommitBatchKeeps, AbortBatchKeeps, ReadBatchOrders,
         CommitOrders, AbortOrders
    <2>5. ASSUME NEW w \in Callers, NEW n \in Ids, Create(w, n)
          PROVE  QueueStep /\ OrderInv'
      BY <2>5, CreateKeeps, CreateOrders DEF Workers
    <2>6. ASSUME NEW n \in Ids, Forget(n)
          PROVE  QueueStep /\ OrderInv'
      BY <2>6, ForgetKeeps, ForgetOrders
    <2> QED
      BY <1>1, <2>1, <2>2, <2>3, <2>4, <2>5, <2>6 DEF QueueNext
  <1>2. CASE MailNext
    <2>1. QueueStep /\ OrderInv'
      <3>1. UNCHANGED queue
        BY <1>2 DEF MailNext, SendEmail, SwitchTemplate, ReadRetries, RetryOne,
                    CommitRetries, AbortRetries
      <3> QED
        BY <3>1, QueueUnchanged, OrderUnchanged
    <2>2. CASE SwitchTemplate
      BY <2>1, <2>2, MailUnchanged DEF SwitchTemplate
    <2> QED
      BY <1>2, <2>1, <2>2, SendEmailKeeps, ReadRetriesKeeps, RetryOneKeeps,
         CommitRetriesKeeps, AbortRetriesKeeps
      DEF MailNext
  <1>3. CASE UNCHANGED vars
    BY <1>3, QueueUnchanged, OrderUnchanged, MailUnchanged DEF vars, mails
  <1> QED
    BY <1>1, <1>2, <1>3 DEF Next

\* The inductive invariant of the queue and of the e-mail logs.
THEOREM Invariance == Spec => []IInv
  <1>1. Init => IInv
    <2>1. Init => MailTyped
      BY DEF Init, MailTyped, MailStatus
    <2> QED
      BY <2>1, InitQueue, InitOrder, InitMail DEF IInv
  <1>2. IInv /\ [Next]_vars => IInv'
    BY StepKeeps, MailStaysTyped DEF IInv, QueueStep
  <1> QED
    BY <1>1, <1>2, PTL DEF Spec

\* The rows of the two tables and what the runs hold keep their types.
THEOREM TypesCorrect == Spec => []TypeOK
  <1>1. IInv => TypeOK
    BY DEF IInv, QueueInv, Picked, OrderInv, Aged, MailInv, MailTyped, RetryRun, TypeOK
  <1> QED
    BY <1>1, Invariance, PTL

\* process_queue, in the task or in send_bulk, takes the oldest notifications it sees,
\* batch_size of them or all there are, whatever others have picked or have not committed.
THEOREM OldestAreTaken == Spec => []BatchesAreOldest
  <1>1. IInv => BatchesAreOldest
    BY BatchesInOrder DEF IInv
  <1> QED
    BY <1>1, Invariance, PTL

\* What mark_read or mark_all_read has touched is never in the queue, however many runs
\* of process_queue and bulk requests overlap.
THEOREM PendingAreUnread == Spec => []PendingIsUnread
  <1>1. IInv => PendingIsUnread
    BY DEF IInv, QueueInv, PendingIsUnread, Pending, Settled
  <1> QED
    BY <1>1, Invariance, PTL

\* No run of process_queue or send_bulk puts a settled notification back.
THEOREM SettledAreSettled == Spec => SettledStays
  <1>1. IInv /\ [Next]_vars =>
          [\A n \in Ids : status[n] \in {"sent", "failed", "read"} => status'[n] # "pending"]_vars
    BY StepKeeps DEF QueueStep, Settled
  <1> QED
    BY <1>1, Invariance, PTL DEF Spec, SettledStays

\* The retry count of an e-mail stays within the limit for any number of overlapping
\* runs of process_email_retries.
THEOREM TriesAreBounded == Spec => []TriesBounded
  <1>1. IInv => TriesBounded
    BY DEF IInv, MailInv
  <1> QED
    BY <1>1, Invariance, PTL
=============================================================================
