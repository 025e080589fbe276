------------------------- MODULE LeaveBalance_proofs -------------------------
(***************************************************************************)
(* Proofs about LeaveBalance, for any contract, any number of requests and *)
(* handlers, any settings, any amounts and any precision of the ledger.    *)
(***************************************************************************)
EXTENDS LeaveBalance, SumLemmas

\* The types and the bound of the recalculations, with the shape of tx.
BaseInv ==
    /\ TypeOK
    /\ tx = [h \in Handlers |-> tx[h]]
    /\ RecalculationWithinContract

\* A submission that is under way and that an insufficient balance stops was let through by
\* the figure it had read.
SubmissionsChecked ==
    \A h \in Handlers : tx[h].op = "submit" /\ tx[h].policy.blocks =>
        Days[tx[h].req] <= tx[h].seen

FullMonths == {m \in Months : Worked[m] >= MinDays}

\* The accruals are what the runs of the months that earn one wrote.
AccruedByRuns == accrued = Stored(Rate) * SumOf(runs, FullMonths)

IInv == BaseInv /\ SubmissionsChecked /\ AccruedByRuns

-----------------------------------------------------------------------------
(* Rounding *)

\* The column keeps an amount to half a hundredth.
LEMMA StoredIsNear ==
    ASSUME NEW x \in Nat
    PROVE  Stored(x) \in Nat /\ 2 * Stored(x) <= 2 * x + Cent /\ 2 * x <= 2 * Stored(x) + Cent
  <1> DEFINE a == 2 * x + Cent
             b == 2 * Cent
             q == a \div b
  <1>1. Cent \in Nat \ {0} /\ a \in Nat /\ b \in Nat \ {0}
    BY BalanceAssumption
  <1>2. Stored(x) = Cent * q
    BY DEF Stored
  <1> HIDE DEF a, b
  <1>3. q \in Nat /\ b * q <= a /\ a < b * q + b
    BY <1>1
  <1> HIDE DEF q
  <1>4. b * q = 2 * (Cent * q) /\ Cent * q \in Nat
    BY <1>1, <1>3 DEF b
  <1> QED
    BY <1>1, <1>2, <1>3, <1>4 DEF a, b

-----------------------------------------------------------------------------
(* What the contract earns *)

EarningMonths(n) == {m \in 1 .. n : Worked[m] > 0}

LEMMA EarningMonthsFinite ==
    ASSUME NEW n \in Nat
    PROVE  IsFiniteSet(EarningMonths(n)) /\ Cardinality(EarningMonths(n)) \in Nat
  <1>1. IsFiniteSet(1 .. n)
    BY FS_Interval
  <1>2. EarningMonths(n) \subseteq 1 .. n
    BY DEF EarningMonths
  <1> QED
    BY <1>1, <1>2, FS_Subset, FS_CardinalityType

LEMMA ProductMonotonic ==
    ASSUME NEW a \in Nat, NEW b \in Nat, NEW c \in Nat, b <= c
    PROVE  a * b <= a * c /\ a * b \in Nat
  <1>1. a * c = a * b + a * (c - b)
    OBVIOUS
  <1>2. a * (c - b) \in Nat /\ a * b \in Nat
    OBVIOUS
  <1> QED
    BY <1>1, <1>2

LEMMA EntitlementIsNat ==
    ASSUME now \in Months
    PROVE  Entitlement \in Nat
  <1>1. now \in Nat
    BY BalanceAssumption DEF Months
  <1>2. Entitlement = Rate * Cardinality(EarningMonths(now))
    BY DEF Entitlement, EarningMonths
  <1> QED
    BY <1>1, <1>2, EarningMonthsFinite, ProductMonotonic, BalanceAssumption

\* It does not shrink from one month to the next.
LEMMA EntitlementGrows ==
    ASSUME now \in Months, now' = now + 1
    PROVE  Entitlement <= Entitlement'
  <1>1. now \in Nat /\ now + 1 \in Nat
    BY BalanceAssumption DEF Months
  <1>2. EarningMonths(now) \subseteq EarningMonths(now + 1)
    BY <1>1 DEF EarningMonths
  <1>3. Cardinality(EarningMonths(now)) <= Cardinality(EarningMonths(now + 1))
    BY <1>1, <1>2, EarningMonthsFinite, FS_Subset
  <1>4. /\ Entitlement = Rate * Cardinality(EarningMonths(now))
        /\ Entitlement' = Rate * Cardinality(EarningMonths(now + 1))
    BY DEF Entitlement, EarningMonths
  <1> QED
    BY <1>1, <1>3, <1>4, EarningMonthsFinite, ProductMonotonic, BalanceAssumption

-----------------------------------------------------------------------------
LEMMA InitInvariant ==
    ASSUME Init
    PROVE  BaseInv
  <1>1. now \in Months /\ Entitlement \in Nat
    BY EntitlementIsNat, BalanceAssumption DEF Init, Months
  <1>2. TypeOK
    BY <1>1 DEF Init, TypeOK, Status
  <1>3. RecalculationWithinContract
    BY <1>1, BalanceAssumption DEF Init, RecalculationWithinContract
  <1> QED
    BY <1>2, <1>3 DEF Init, BaseInv

-----------------------------------------------------------------------------
(* One lemma per action, or per group of actions that leave the recalculations alone. *)

LEMMA CheckSubmissionKeeps ==
    ASSUME BaseInv, NEW h \in Handlers, NEW r \in Requests, NEW p \in Policies,
           CheckSubmission(h, r, p)
    PROVE  BaseInv'
  <1> USE DEF BaseInv
  <1>1. UNCHANGED <<status, valued, accrued, manual, recalculated, subtracted, charged, refunded,
                    runs, now, stale>>
    BY DEF CheckSubmission, ledger
  <1>2. /\ tx'[h].op = "submit" /\ tx'[h].req = r /\ tx'[h].policy = p /\ p \in Policy
        /\ \A g \in Handlers \ {h} : tx'[g] = tx[g]
        /\ tx' = [g \in Handlers |-> tx'[g]]
    BY BalanceAssumption DEF CheckSubmission
  <1>3. TypeOK'
    BY <1>1, <1>2 DEF TypeOK
  <1>4. RecalculationWithinContract'
    BY <1>1 DEF RecalculationWithinContract, Entitlement
  <1> QED
    BY <1>2, <1>3, <1>4

LEMMA SubmitKeeps ==
    ASSUME BaseInv, NEW h \in Handlers, Submit(h)
    PROVE  BaseInv'
  <1> USE DEF BaseInv
  <1>1. UNCHANGED <<accrued, manual, recalculated, subtracted, refunded, runs, now>>
    BY DEF Submit
  <1>2. /\ tx'[h] = Idle
        /\ \A g \in Handlers \ {h} : tx'[g] = tx[g]
        /\ tx' = [g \in Handlers |-> tx'[g]]
    BY DEF Submit
  <1>3. /\ status' \in [Requests -> Status] /\ valued' \subseteq Requests
        /\ charged' \subseteq Requests /\ stale' \in BOOLEAN /\ (~stale' => ~stale)
    <2>1. tx[h].req \in Requests
      BY DEF Submit, TypeOK, Idle
    <2> QED
      BY <2>1 DEF Submit, TypeOK, Status, UsageOf
  <1>4. TypeOK'
    BY <1>1, <1>2, <1>3 DEF TypeOK
  <1>5. RecalculationWithinContract'
    BY <1>1, <1>3 DEF RecalculationWithinContract, Entitlement
  <1> QED
    BY <1>2, <1>4, <1>5

LEMMA ReadAccrualsKeeps ==
    ASSUME BaseInv, NEW h \in Handlers, ReadAccruals(h)
    PROVE  BaseInv'
  <1> USE DEF BaseInv
  <1>1. UNCHANGED <<status, valued, accrued, manual, recalculated, subtracted, charged, refunded,
                    runs, now, stale>>
    BY DEF ReadAccruals, ledger
  <1>2. Shortfall \in Int
    BY EntitlementIsNat DEF Shortfall, Credited, TypeOK
  <1>3. /\ tx'[h].op = "recalculate" /\ tx'[h].delta = Shortfall
        /\ \A g \in Handlers \ {h} : tx'[g] = tx[g]
        /\ tx' = [g \in Handlers |-> tx'[g]]
    BY DEF ReadAccruals
  <1>4. TypeOK'
    BY <1>1, <1>2, <1>3 DEF TypeOK
  <1>5. RecalculationWithinContract'
    BY <1>1 DEF RecalculationWithinContract, Entitlement
  <1> QED
    BY <1>3, <1>4, <1>5

\* A credit written on the figures it was computed from fills the credits up to what the
\* contract earns, of which the recalculations are a part; a debit leaves them alone.
LEMMA RecalculateKeeps ==
    ASSUME BaseInv, NEW h \in Handlers, Recalculate(h)
    PROVE  BaseInv'
  <1> USE DEF BaseInv
  <1> DEFINE d == tx[h].delta
  <1>1. d \in Int
    BY DEF Recalculate, TypeOK, Idle
  <1>2. UNCHANGED <<status, valued, accrued, manual, charged, refunded, runs, now>>
    BY DEF Recalculate
  <1>3. /\ tx'[h] = Idle
        /\ \A g \in Handlers \ {h} : tx'[g] = tx[g]
        /\ tx' = [g \in Handlers |-> tx'[g]]
    BY DEF Recalculate
  <1>4. /\ d >= 0 => recalculated' = recalculated + Stored(d) /\ subtracted' = subtracted
        /\ ~(d >= 0) => subtracted' = subtracted + Stored(-d) /\ recalculated' = recalculated
    BY DEF Recalculate
  <1>5. recalculated' \in Nat /\ subtracted' \in Nat
    <2>1. d >= 0 => Stored(d) \in Nat
      BY <1>1, StoredIsNear
    <2>2. ~(d >= 0) => Stored(-d) \in Nat
      BY <1>1, StoredIsNear
    <2> HIDE DEF d
    <2> QED
      BY <1>4, <2>1, <2>2 DEF TypeOK
  <1>6. stale' \in BOOLEAN /\ (~stale' => ~stale /\ d = Shortfall)
    BY DEF Recalculate, TypeOK
  <1>7. TypeOK'
    BY <1>2, <1>3, <1>5, <1>6 DEF TypeOK
  <1>8. RecalculationWithinContract'
    <2> SUFFICES ASSUME ~stale'
                 PROVE  2 * recalculated' <= 2 * Entitlement + Cent
      BY <1>2 DEF RecalculationWithinContract, Entitlement
    <2>1. /\ 2 * recalculated <= 2 * Entitlement + Cent
          /\ d = Entitlement - (accrued + manual + recalculated)
      BY <1>6 DEF RecalculationWithinContract, Shortfall, Credited
    <2>2. Entitlement \in Nat /\ accrued \in Nat /\ manual \in Nat /\ recalculated \in Nat
      BY EntitlementIsNat DEF TypeOK
    <2>3. d >= 0 => Stored(d) \in Nat /\ 2 * Stored(d) <= 2 * d + Cent
      BY <1>1, StoredIsNear
    <2>4. Cent \in Nat
      BY BalanceAssumption
    <2> HIDE DEF d
    <2> QED
      BY <1>1, <1>4, <2>1, <2>2, <2>3, <2>4
  <1> QED
    BY <1>3, <1>7, <1>8

LEMMA RollbackKeeps ==
    ASSUME BaseInv, NEW h \in Handlers, Rollback(h)
    PROVE  BaseInv'
  <1> USE DEF BaseInv
  <1>1. UNCHANGED <<status, valued, accrued, manual, recalculated, subtracted, charged, refunded,
                    runs, now, stale>>
    BY DEF Rollback, ledger
  <1>2. /\ tx'[h] = Idle
        /\ \A g \in Handlers \ {h} : tx'[g] = tx[g]
        /\ tx' = [g \in Handlers |-> tx'[g]]
    BY DEF Rollback
  <1>3. TypeOK'
    BY <1>1, <1>2 DEF TypeOK
  <1>4. RecalculationWithinContract'
    BY <1>1 DEF RecalculationWithinContract, Entitlement
  <1> QED
    BY <1>2, <1>3, <1>4

LEMMA AccrualRunKeeps ==
    ASSUME BaseInv, NEW m \in Months, RunMonthlyAccruals(m)
    PROVE  BaseInv'
  <1> USE DEF BaseInv
  <1>1. /\ UNCHANGED <<status, valued, manual, recalculated, subtracted, charged, refunded, now,
                       tx, stale>>
        /\ runs' = [runs EXCEPT ![m] = @ + 1]
    BY DEF RunMonthlyAccruals
  <1>2. accrued' \in Nat
    BY StoredIsNear, BalanceAssumption DEF RunMonthlyAccruals, TypeOK
  <1>3. TypeOK'
    BY <1>1, <1>2 DEF TypeOK
  <1>4. RecalculationWithinContract'
    BY <1>1 DEF RecalculationWithinContract, Entitlement
  <1> QED
    BY <1>1, <1>3, <1>4

LEMMA AdjustBalanceKeeps ==
    ASSUME BaseInv, NEW n \in {-Cent, Cent}, AdjustBalance(n)
    PROVE  BaseInv'
  <1> USE DEF BaseInv
  <1>1. /\ UNCHANGED <<status, valued, accrued, recalculated, charged, refunded, runs, now, tx,
                       stale>>
        /\ n > 0 => manual' = manual + n /\ subtracted' = subtracted
        /\ ~(n > 0) => subtracted' = subtracted - n /\ manual' = manual
    BY DEF AdjustBalance
  <1>2. manual' \in Nat /\ subtracted' \in Nat
    BY <1>1, BalanceAssumption DEF TypeOK
  <1>3. TypeOK'
    BY <1>1, <1>2 DEF TypeOK
  <1>4. RecalculationWithinContract'
    BY <1>1 DEF RecalculationWithinContract, Entitlement
  <1> QED
    BY <1>1, <1>3, <1>4

LEMMA RequestStepKeeps ==
    ASSUME BaseInv, NEW r \in Requests, Approve(r) \/ Close(r) \/ Withdraw(r) \/ Reopen(r)
    PROVE  BaseInv'
  <1> USE DEF BaseInv
  <1>1. UNCHANGED <<valued, accrued, manual, recalculated, subtracted, runs, now, tx, stale>>
    BY DEF Approve, Close, Withdraw, Reopen, ledger
  <1>2. status' \in [Requests -> Status]
    BY DEF Approve, Close, Withdraw, Reopen, TypeOK, Status
  <1>3. charged' \subseteq Requests /\ refunded' \subseteq Requests
    BY DEF Approve, Close, Withdraw, Reopen, ledger, TypeOK, UsageOf
  <1>4. TypeOK'
    BY <1>1, <1>2, <1>3 DEF TypeOK
  <1>5. RecalculationWithinContract'
    BY <1>1 DEF RecalculationWithinContract, Entitlement
  <1> QED
    BY <1>1, <1>4, <1>5

LEMMA NextMonthKeeps ==
    ASSUME BaseInv, NextMonth
    PROVE  BaseInv'
  <1> USE DEF BaseInv
  <1>1. /\ UNCHANGED <<status, valued, accrued, manual, recalculated, subtracted, charged, refunded,
                       runs, tx, stale>>
        /\ now' = now + 1
    BY DEF NextMonth, ledger
  <1>2. now' \in Months
    BY BalanceAssumption DEF NextMonth, TypeOK, Months
  <1>3. TypeOK'
    BY <1>1, <1>2 DEF TypeOK
  <1>4. Entitlement <= Entitlement' /\ Entitlement \in Nat /\ Entitlement' \in Nat
    <2>1. now \in Months
      BY DEF TypeOK
    <2>2. Entitlement <= Entitlement'
      BY <1>1, <2>1, EntitlementGrows
    <2>3. Entitlement' = Rate * Cardinality(EarningMonths(now'))
      BY DEF Entitlement, EarningMonths
    <2>4. now' \in Nat
      BY <1>2, BalanceAssumption DEF Months
    <2>5. Entitlement' \in Nat
      BY <2>3, <2>4, EarningMonthsFinite, ProductMonotonic, BalanceAssumption
    <2> QED
      BY <2>1, <2>2, <2>5, EntitlementIsNat
  <1>5. RecalculationWithinContract'
    <2>1. recalculated \in Nat /\ Cent \in Nat
      BY BalanceAssumption DEF TypeOK
    <2> QED
      BY <1>1, <1>4, <2>1 DEF RecalculationWithinContract
  <1> QED
    BY <1>1, <1>3, <1>5

LEMMA StepKeeps ==
    ASSUME BaseInv, [Next]_vars
    PROVE  BaseInv'
  <1>1. CASE UNCHANGED vars
    BY <1>1 DEF vars, ledger, BaseInv, TypeOK, RecalculationWithinContract, Entitlement
  <1>2. CASE Next
    BY <1>2, CheckSubmissionKeeps, SubmitKeeps, ReadAccrualsKeeps, RecalculateKeeps,
       RollbackKeeps, AccrualRunKeeps, AdjustBalanceKeeps, RequestStepKeeps, NextMonthKeeps
    DEF Next
  <1> QED
    BY <1>1, <1>2

-----------------------------------------------------------------------------
(* The days of pending requests *)

LEMMA DaysOfIsSum ==
    ASSUME NEW S
    PROVE  DaysOf(S) = SumOf(Days, S)
  BY DEF DaysOf, SumOf

PendingOnes == {r \in Counted : status[r] = "PENDING"}

LEMMA PendingOnesFinite ==
    /\ PendingOnes \in SUBSET Requests /\ IsFiniteSet(PendingOnes)
    /\ Pending = SumOf(Days, PendingOnes) /\ Pending \in Nat
  <1>1. PendingOnes \in SUBSET Requests
    BY BalanceAssumption DEF PendingOnes
  <1>2. IsFiniteSet(PendingOnes)
    BY <1>1, BalanceAssumption, FS_Subset
  <1>3. Pending = SumOf(Days, PendingOnes)
    BY DaysOfIsSum DEF Pending, PendingOnes
  <1>4. Days \in [Requests -> Nat]
    BY BalanceAssumption
  <1>5. SumOf(Days, PendingOnes) \in Nat
    BY <1>1, <1>2, <1>4, SumIsNat
  <1> QED
    BY <1>1, <1>2, <1>3, <1>5

LEMMA ForNewIsInt ==
    ASSUME TypeOK
    PROVE  Net \in Int /\ ForNew \in Int /\ ForNew = (Net - Pending) - Pending
  <1>1. Net \in Int
    BY DEF TypeOK, Net, Credited, Debited
  <1> QED
    BY <1>1, PendingOnesFinite DEF ForNew

-----------------------------------------------------------------------------
(* Submissions *)

LEMMA SubmissionsStayChecked ==
    ASSUME BaseInv, SubmissionsChecked, [Next]_vars
    PROVE  SubmissionsChecked'
  <1> USE DEF BaseInv
  <1>1. ASSUME NEW h \in Handlers, NEW r \in Requests, NEW p \in Policies,
               CheckSubmission(h, r, p)
        PROVE  SubmissionsChecked'
    <2>1. /\ tx'[h].seen = ForNew /\ tx'[h].req = r /\ tx'[h].policy = p
          /\ p.blocks => Days[r] <= ForNew
          /\ \A g \in Handlers \ {h} : tx'[g] = tx[g]
      BY <1>1 DEF CheckSubmission
    <2> QED
      BY <2>1 DEF SubmissionsChecked
  <1>2. ASSUME NEW h \in Handlers, Submit(h) \/ Recalculate(h) \/ Rollback(h)
        PROVE  SubmissionsChecked'
    <2>1. tx'[h] = Idle /\ \A g \in Handlers \ {h} : tx'[g] = tx[g]
      BY <1>2 DEF Submit, Recalculate, Rollback
    <2> QED
      BY <2>1 DEF SubmissionsChecked, Idle
  <1>3. ASSUME NEW h \in Handlers, ReadAccruals(h)
        PROVE  SubmissionsChecked'
    <2>1. tx'[h].op = "recalculate" /\ \A g \in Handlers \ {h} : tx'[g] = tx[g]
      BY <1>3 DEF ReadAccruals
    <2> QED
      BY <2>1 DEF SubmissionsChecked
  <1>4. CASE UNCHANGED tx
    BY <1>4 DEF SubmissionsChecked
  <1>5. CASE Next
    BY <1>1, <1>2, <1>3, <1>4, <1>5
    DEF Next, RunMonthlyAccruals, AdjustBalance, Approve, Close, Withdraw, Reopen, NextMonth
  <1> QED
    BY <1>4, <1>5 DEF vars

\* Only the second half of submit_request takes a request out of DRAFT to be approved or to
\* wait for it; the handler's own, as it ends with it.
LEMMA SubmittedBySubmit ==
    ASSUME BaseInv, Next, NEW h \in Handlers, NEW r \in Requests, SubmitsChecked(h, r)
    PROVE  Submit(h)
  <1>1. tx[h] # Idle /\ status[r] = "DRAFT" /\ status'[r] \in {"PENDING", "APPROVED"}
    BY DEF SubmitsChecked, Idle
  <1>2. tx'[h] = Idle /\ tx'[h] # tx[h]
    BY <1>1 DEF SubmitsChecked
  <1>3. ASSUME NEW q \in Requests, Approve(q) \/ Close(q) \/ Withdraw(q) \/ Reopen(q)
        PROVE  FALSE
    BY <1>1, <1>2, <1>3 DEF Approve, Close, Withdraw, Reopen
  <1>4. ASSUME NEW g \in Handlers, Submit(g)
        PROVE  g = h
    BY <1>2, <1>4 DEF Submit, BaseInv
  <1>5. ~ UNCHANGED status
    BY <1>1
  <1> QED
    BY <1>3, <1>4, <1>5
    DEF Next, CheckSubmission, ReadAccruals, Recalculate, Rollback, RunMonthlyAccruals,
        AdjustBalance, NextMonth

\* The balance that let the request through has not moved when it is written.
LEMMA SubmitIsCovered ==
    ASSUME BaseInv, SubmissionsChecked, Next,
           NEW h \in Handlers, NEW r \in Requests, SubmitsChecked(h, r)
    PROVE  Pending + Days[r] <= Net
  <1>1. Submit(h)
    BY SubmittedBySubmit
  <1>2. tx[h].op = "submit" /\ tx[h].req = r /\ tx[h].policy.blocks /\ ~stale'
    BY DEF SubmitsChecked
  <1>3. Days[r] <= tx[h].seen
    BY <1>2 DEF SubmissionsChecked
  <1>4. tx[h].seen = ForNew
    BY <1>1, <1>2 DEF Submit
  <1>5. Pending \in Nat /\ Net \in Int /\ Days[r] \in Nat /\ ForNew = (Net - Pending) - Pending
    BY PendingOnesFinite, ForNewIsInt, BalanceAssumption DEF BaseInv
  <1> QED
    BY <1>3, <1>4, <1>5

-----------------------------------------------------------------------------
(* Accruals *)

LEMMA FullMonthsFinite ==
    FullMonths \in SUBSET Months /\ IsFiniteSet(FullMonths) /\ IsFiniteSet(Months)
  <1>1. IsFiniteSet(Months)
    BY BalanceAssumption, FS_Interval DEF Months
  <1>2. FullMonths \in SUBSET Months
    BY DEF FullMonths
  <1> QED
    BY <1>1, <1>2, FS_Subset

LEMMA InitAccrued ==
    ASSUME Init
    PROVE  AccruedByRuns
  <1>1. runs \in [Months -> Nat] /\ (\A m \in FullMonths : runs[m] \in {0, 1})
    BY DEF Init, FullMonths
  <1>2. SumOf(runs, FullMonths) = Cardinality({m \in FullMonths : runs[m] = 1})
    BY <1>1, FullMonthsFinite, SumCountsOnes
  <1>3. {m \in FullMonths : runs[m] = 1} = {}
    BY DEF Init, FullMonths
  <1>4. SumOf(runs, FullMonths) = 0
    BY <1>2, <1>3, FS_EmptySet
  <1>5. Stored(Rate) \in Nat
    BY StoredIsNear, BalanceAssumption
  <1> QED
    BY <1>4, <1>5 DEF Init, AccruedByRuns

LEMMA ProductDistributes ==
    ASSUME NEW a \in Nat, NEW b \in Nat
    PROVE  a * (b + 1) = a * b + a /\ a * (b + 0) = a * b + 0
  OBVIOUS

LEMMA AccruedStaysByRuns ==
    ASSUME TypeOK, AccruedByRuns, [Next]_vars
    PROVE  AccruedByRuns'
  <1>1. ASSUME NEW m \in Months, RunMonthlyAccruals(m)
        PROVE  AccruedByRuns'
    <2> DEFINE one == IF m \in FullMonths THEN 1 ELSE 0
    <2>1. /\ runs \in [Months -> Nat] /\ runs' \in [Months -> Nat]
          /\ runs'[m] = runs[m] + 1 /\ \A k \in Months \ {m} : runs'[k] = runs[k]
      BY <1>1 DEF RunMonthlyAccruals, TypeOK
    <2>2. SumOf(runs', FullMonths) = SumOf(runs, FullMonths) + one
      <3>1. 1 \in Nat
        OBVIOUS
      <3> QED
        BY <2>1, <3>1, FullMonthsFinite, SumOfRaised
    <2>3. accrued' = accrued + IF one = 1 THEN Stored(Rate) ELSE 0
      BY <1>1 DEF RunMonthlyAccruals, FullMonths
    <2>4. SumOf(runs, FullMonths) \in Nat
      BY <2>1, FullMonthsFinite, SumIsNat
    <2>5. one \in {0, 1} /\ Stored(Rate) \in Nat
      BY StoredIsNear, BalanceAssumption
    <2> HIDE DEF one
    <2>6. accrued' = Stored(Rate) * (SumOf(runs, FullMonths) + one)
      BY <2>3, <2>4, <2>5, ProductDistributes DEF AccruedByRuns
    <2> QED
      BY <2>2, <2>6 DEF AccruedByRuns
  <1>2. CASE UNCHANGED <<accrued, runs>>
    BY <1>2 DEF AccruedByRuns
  <1>3. CASE Next
    BY <1>1, <1>2, <1>3
    DEF Next, CheckSubmission, Submit, ReadAccruals, Recalculate, Rollback, AdjustBalance,
        Approve, Close, Withdraw, Reopen, NextMonth, ledger
  <1> QED
    BY <1>2, <1>3 DEF vars, ledger

\* When each month begun was accrued once and none is short, the months that were
\* accrued are those the recalculation counts.
LEMMA AccruedMonthsCount ==
    ASSUME TypeOK, AccruedByRuns,
           \A m \in Months : runs[m] = IF m <= now THEN 1 ELSE 0,
           \A m \in 1 .. now : Worked[m] \notin 1 .. MinDays - 1
    PROVE  accrued = Stored(Rate) * Cardinality(EarningMonths(now))
  <1>1. runs \in [Months -> Nat] /\ (\A m \in FullMonths : runs[m] \in {0, 1})
    BY DEF TypeOK, FullMonths
  <1>2. SumOf(runs, FullMonths) = Cardinality({m \in FullMonths : runs[m] = 1})
    BY <1>1, FullMonthsFinite, SumCountsOnes
  <1>3. {m \in FullMonths : runs[m] = 1} = {m \in 1 .. now : Worked[m] > 0}
    <2>1. now \in Nat /\ now <= LastMonth /\ LastMonth \in Nat /\ MinDays \in Nat \ {0}
      BY BalanceAssumption DEF TypeOK, Months
    <2>2. \A m \in Months : Worked[m] \in Nat
      BY BalanceAssumption
    <2>3. \A m \in FullMonths : runs[m] = 1 => m \in 1 .. now /\ Worked[m] > 0
      BY <2>1, <2>2 DEF FullMonths, Months
    <2>4. \A m \in 1 .. now : m \in Months /\ runs[m] = 1
      BY <2>1 DEF Months
    <2>5. \A m \in 1 .. now : Worked[m] > 0 => Worked[m] >= MinDays
      BY <2>1, <2>2, <2>4
    <2> QED
      BY <2>3, <2>4, <2>5 DEF FullMonths
  <1> QED
    BY <1>2, <1>3 DEF AccruedByRuns, EarningMonths

\* n amounts that are within half a hundredth of each other add up to amounts within n halves.
LEMMA ErrorsAdd ==
    ASSUME NEW a \in Nat, NEW b \in Nat, NEW c \in Nat, NEW n \in Nat, NEW k \in Nat,
           2 * a <= 2 * b + c, n <= k
    PROVE  2 * (a * n) <= 2 * (b * n) + k * c
  <1>1. (2 * a) * n <= (2 * b + c) * n
    <2>1. (2 * b + c) * n = (2 * a) * n + (2 * b + c - 2 * a) * n
      OBVIOUS
    <2>2. (2 * b + c - 2 * a) * n \in Nat /\ (2 * a) * n \in Nat
      OBVIOUS
    <2> QED
      BY <2>1, <2>2
  <1>2. (2 * a) * n = 2 * (a * n) /\ (2 * b + c) * n = 2 * (b * n) + c * n
    OBVIOUS
  <1>3. c * n <= c * k /\ c * k = k * c
    BY ProductMonotonic
  <1>4. a * n \in Nat /\ b * n \in Nat /\ c * n \in Nat /\ k * c \in Nat
    OBVIOUS
  <1> QED
    BY <1>1, <1>2, <1>3, <1>4

-----------------------------------------------------------------------------
\* The inductive invariant holds in every reachable state: what accruals, recalculations and
\* corrections have written, and what a submission was checked against.
THEOREM Invariance == Spec => []IInv
  <1>1. Init => IInv
    <2>1. Init => SubmissionsChecked
      BY DEF Init, SubmissionsChecked, Idle
    <2> QED
      BY <2>1, InitInvariant, InitAccrued DEF IInv
  <1>2. IInv /\ [Next]_vars => IInv'
    BY StepKeeps, SubmissionsStayChecked, AccruedStaysByRuns DEF IInv, BaseInv
  <1> QED
    BY <1>1, <1>2, PTL DEF Spec

\* The entries of the ledger keep their types: recalculations and corrections write
\* amounts that are not negative (balance_service.py, accrual_service.py).
THEOREM TypesCorrect == Spec => []TypeOK
  <1>1. IInv => TypeOK
    BY DEF IInv, BaseInv
  <1> QED
    BY <1>1, Invariance, PTL

\* recalculate_user_accrual never credits more than the contract earns, to half a hundredth,
\* as long as no handler wrote on figures that had moved.
THEOREM RecalculationsBounded == Spec => []RecalculationWithinContract
  <1>1. IInv => RecalculationWithinContract
    BY DEF IInv, BaseInv
  <1> QED
    BY <1>1, Invariance, PTL

\* validate_request, where an insufficient balance is an error, lets through only what the
\* balance covers together with everything that is pending, unless the balance moved before
\* the request was written.
THEOREM SubmissionsAreCovered == Spec => PendingIsCovered
  <1>1. IInv /\ [Next]_vars =>
        [\A h \in Handlers, r \in Requests :
            SubmitsChecked(h, r) => Pending + Days[r] <= Net]_vars
    BY SubmitIsCovered DEF IInv
  <1> QED
    BY <1>1, Invariance, PTL DEF Spec, PendingIsCovered

\* run_monthly_accruals, called once for each month begun, writes what
\* _calculate_accrual_preview counts, to half a hundredth for each month, when none is short.
THEOREM AccrualsAreRecalculated == Spec => []AccrualsAgree
  <1>1. ASSUME IInv
        PROVE  AccrualsAgree
    <2> SUFFICES ASSUME \A m \in Months : runs[m] = IF m <= now THEN 1 ELSE 0,
                        \A m \in 1 .. now : Worked[m] \notin 1 .. MinDays - 1,
                        manual = 0, recalculated = 0
                 PROVE  2 * Distance(Entitlement, Credited) <= now * Cent
      BY DEF AccrualsAgree
    <2> DEFINE n == Cardinality(EarningMonths(now))
    <2>1. accrued = Stored(Rate) * n /\ accrued \in Nat
      BY <1>1, AccruedMonthsCount DEF IInv, BaseInv, TypeOK
    <2>2. Entitlement = Rate * n
      BY DEF Entitlement, EarningMonths
    <2>3. now \in Nat
      BY <1>1, BalanceAssumption DEF IInv, BaseInv, TypeOK, Months
    <2>4. n \in Nat /\ n <= now
      <3>1. IsFiniteSet(1 .. now) /\ Cardinality(1 .. now) = now
        BY <2>3, FS_Interval
      <3>2. EarningMonths(now) \subseteq 1 .. now
        BY DEF EarningMonths
      <3> QED
        BY <2>3, <3>1, <3>2, EarningMonthsFinite, FS_Subset
    <2>5. /\ Stored(Rate) \in Nat /\ Rate \in Nat /\ Cent \in Nat
          /\ 2 * Stored(Rate) <= 2 * Rate + Cent /\ 2 * Rate <= 2 * Stored(Rate) + Cent
      BY StoredIsNear, BalanceAssumption
    <2>6. Credited = accrued
      BY <2>1 DEF Credited
    <2> HIDE DEF n
    <2>7. /\ 2 * accrued <= 2 * Entitlement + now * Cent
          /\ 2 * Entitlement <= 2 * accrued + now * Cent
      BY <2>1, <2>2, <2>3, <2>4, <2>5, ErrorsAdd
    <2>8. Entitlement \in Nat /\ now * Cent \in Nat
      BY <2>2, <2>3, <2>4, <2>5
    <2> QED
      BY <2>1, <2>6, <2>7, <2>8 DEF Distance
  <1> QED
    BY <1>1, Invariance, PTL
=============================================================================
