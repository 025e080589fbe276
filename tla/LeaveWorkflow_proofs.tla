----------------------- MODULE LeaveWorkflow_proofs -----------------------
(***************************************************************************)
(* Proofs about LeaveWorkflow, for any number of requests, handlers, days  *)
(* and intervals.                                                          *)
(***************************************************************************)
EXTENDS LeaveWorkflow, TLAPS

-----------------------------------------------------------------------------
(* What the parts of a handler do to the transaction records and the row. *)

\* Opening a transaction writes a well-formed record and nothing else.
LEMMA OpenFacts ==
    ASSUME TypeOK, NEW h \in Handlers, NEW o \in AllOps, NEW r \in Requests,
           NEW p \in Periods, Open(h, o, r, p)
    PROVE  /\ TypeOK'
           /\ UNCHANGED <<status, period, details, deducted, usage, refunds, today, stale, raced>>
           /\ tx'[h] = [op |-> o, req |-> r, seen |-> status[r], dates |-> p,
                        refund |-> "unread"]
           /\ \A k \in Handlers \ {h} : tx'[k] = tx[k]
  <1>1. status[r] \in Status
    BY DEF TypeOK
  <1>2. [op |-> o, req |-> r, seen |-> status[r], dates |-> p, refund |-> "unread"] \in Tx
    BY <1>1 DEF Tx
  <1>3. tx' \in [Handlers -> Tx \cup {Idle}]
    BY <1>2 DEF Open, TypeOK
  <1> QED
    BY <1>3 DEF Open, TypeOK, row, ledger, history

\* A handler that commits had read its request, and ends idle.
LEMMA CommitFacts ==
    ASSUME TypeOK, NEW h \in Handlers, NEW o \in AllOps, Commit(h, o)
    PROVE  /\ tx[h] \in Tx
           /\ tx[h].req \in Requests /\ tx[h].dates \in Periods /\ tx[h].op = o
           /\ Exists(tx[h].req)
           /\ tx' \in [Handlers -> Tx \cup {Idle}]
           /\ tx'[h] = Idle
           /\ \A k \in Handlers \ {h} : tx'[k] = tx[k]
           /\ today' = today /\ stale' \subseteq Handlers /\ raced' \subseteq Requests
  <1>1. tx[h] # Idle
    BY DEF Commit, Idle, AllOps
  <1>2. tx[h] \in Tx
    BY <1>1 DEF TypeOK
  <1> QED
    BY <1>2 DEF Commit, TypeOK, Tx, Overtaken

\* A recorded usage is one group more at most, and only for its request.
LEMMA RecordUsageFacts ==
    ASSUME TypeOK, NEW r \in Requests, NEW d \in Periods \cup {NoPeriod}, RecordUsage(r, d)
    PROVE  /\ usage' \in [Requests -> Nat]
           /\ deducted' \in [Requests -> BOOLEAN]
           /\ refunds' = refunds
           /\ deducted'[r] = TRUE
           /\ \A q \in Requests \ {r} : usage'[q] = usage[q] /\ deducted'[q] = deducted[q]
           /\ \/ usage' = usage /\ (usage[r] > 0 \/ Amount(d) = 0)
              \/ /\ usage[r] = 0 /\ usage'[r] = 1
                 /\ usage' = [usage EXCEPT ![r] = 1]
  <1>1. deducted' = [deducted EXCEPT ![r] = TRUE] /\ deducted \in [Requests -> BOOLEAN]
    BY DEF RecordUsage, TypeOK
  <1>2. /\ deducted' \in [Requests -> BOOLEAN] /\ deducted'[r] = TRUE
        /\ \A q \in Requests \ {r} : deducted'[q] = deducted[q]
    BY <1>1
  <1>3. usage \in [Requests -> Nat] /\ usage[r] \in Nat
    BY DEF TypeOK
  <1>r. refunds' = refunds
    BY DEF RecordUsage
  <1>u. usage' = IF usage[r] > 0 \/ Amount(d) = 0 THEN usage ELSE [usage EXCEPT ![r] = @ + 1]
    BY DEF RecordUsage
  <1>4. CASE usage[r] > 0 \/ Amount(d) = 0
    BY <1>2, <1>3, <1>4, <1>r, <1>u
  <1>5. CASE ~(usage[r] > 0 \/ Amount(d) = 0)
    <2>1. usage[r] = 0 /\ usage[r] + 1 = 1
      BY <1>3, <1>5
    <2>2. usage' = [usage EXCEPT ![r] = usage[r] + 1]
      BY <1>5, <1>u, Zenon
    <2>3. usage' = [usage EXCEPT ![r] = 1]
      BY <2>1, <2>2, Zenon
    <2> QED
      BY <1>2, <1>3, <2>1, <2>3, <1>r
  <1> QED
    BY <1>4, <1>5

\* A reversal is one group more for its operation, when it is written.
LEMMA ReverseUsageFacts ==
    ASSUME TypeOK, NEW r \in Requests, NEW o \in RefundOps, NEW write \in BOOLEAN,
           ReverseUsage(r, o, write)
    PROVE  /\ refunds' \in [Requests -> [RefundOps -> Nat]]
           /\ deducted' \in [Requests -> BOOLEAN]
           /\ usage' = usage
           /\ \A q \in Requests \ {r} : refunds'[q] = refunds[q] /\ deducted'[q] = deducted[q]
           /\ ~write => refunds' = refunds
           /\ write => /\ refunds'[r][o] = refunds[r][o] + 1
                       /\ \A k \in RefundOps \ {o} : refunds'[r][k] = refunds[r][k]
  <1>1. refunds[r] \in [RefundOps -> Nat]
    BY DEF TypeOK
  <1>2. CASE write
    <2>1. refunds' = [refunds EXCEPT ![r][o] = refunds[r][o] + 1]
      BY <1>2 DEF ReverseUsage
    <2>2. refunds'[r] = [refunds[r] EXCEPT ![o] = refunds[r][o] + 1]
      BY <2>1 DEF TypeOK
    <2>3. refunds'[r] \in [RefundOps -> Nat]
      BY <1>1, <2>2
    <2>4. refunds' \in [Requests -> [RefundOps -> Nat]]
      BY <2>1, <2>3 DEF TypeOK
    <2> QED
      BY <1>1, <1>2, <2>1, <2>2, <2>4 DEF ReverseUsage, TypeOK
  <1>3. CASE ~write
    BY <1>3 DEF ReverseUsage, TypeOK
  <1> QED
    BY <1>2, <1>3

-----------------------------------------------------------------------------
(* The inductive invariant, and the three kinds of step. *)

\* Whatever has happened since revoke_approval read the ledger, the usage it decided
\* to reverse is still there.
RefundReadsHold ==
    \A h \in Handlers : tx[h] # Idle /\ tx[h].refund = "yes" => usage[tx[h].req] > 0

IInv ==
    /\ TypeOK
    /\ UsageOnce
    /\ ChargedWhenApproved
    /\ RefundAnswersCharge
    /\ LockedRefundOnce
    /\ RefundReadsHold

\* A step that leaves the ledger alone and makes nothing approved.
LEMMA QuietStep ==
    ASSUME IInv, TypeOK', usage' = usage, refunds' = refunds,
           \A r \in Requests : status'[r] = "APPROVED" =>
               /\ status[r] = "APPROVED"
               /\ details'[r] = details[r] /\ deducted'[r] = deducted[r],
           \A h \in Handlers :
               tx'[h] = tx[h] \/ tx'[h] = Idle \/ tx'[h].refund # "yes"
    PROVE  IInv'
  BY DEF IInv, UsageOnce, ChargedWhenApproved, RefundAnswersCharge, LockedRefundOnce,
         RefundReadsHold, Refunded, Amount

\* A step that approves a request and records its usage.
LEMMA ChargeStep ==
    ASSUME IInv, TypeOK', NEW r \in Requests, NEW d \in Periods \cup {NoPeriod},
           RecordUsage(r, d), SetStatus(r, "APPROVED"), details' = [details EXCEPT ![r] = d],
           \A h \in Handlers : tx'[h] = tx[h] \/ tx'[h] = Idle
    PROVE  IInv'
  <1>1. TypeOK
    BY DEF IInv
  <1>2. /\ usage' \in [Requests -> Nat] /\ refunds' = refunds /\ deducted'[r] = TRUE
        /\ \A q \in Requests \ {r} : usage'[q] = usage[q] /\ deducted'[q] = deducted[q]
        /\ \/ usage' = usage /\ (usage[r] > 0 \/ Amount(d) = 0)
           \/ usage[r] = 0 /\ usage'[r] = 1
    BY <1>1, RecordUsageFacts
  <1>3. /\ details'[r] = d
        /\ \A q \in Requests \ {r} : status'[q] = status[q] /\ details'[q] = details[q]
    BY <1>1 DEF TypeOK, SetStatus
  <1>4. usage \in [Requests -> Nat] /\ \A q \in Requests : usage[q] > 0 => usage'[q] > 0
    BY <1>1, <1>2 DEF TypeOK
  <1>5. UsageOnce'
    <2>1. SUFFICES ASSUME NEW q \in Requests  PROVE  usage'[q] <= 1
      BY DEF UsageOnce
    <2>2. usage[q] <= 1
      BY DEF IInv, UsageOnce
    <2>3. usage'[q] = usage[q] \/ usage'[q] = 1
      BY <1>2
    <2> QED
      BY <2>2, <2>3
  <1>6. ChargedWhenApproved'
    <2>1. SUFFICES ASSUME NEW q \in Requests, status'[q] = "APPROVED"
                   PROVE  deducted'[q] /\ (usage'[q] > 0 \/ Amount(details'[q]) = 0)
      BY DEF ChargedWhenApproved, Amount
    <2>2. CASE q = r
      BY <1>2, <1>3, <1>4, <2>1, <2>2 DEF Amount
    <2>3. CASE q # r
      BY <1>2, <1>3, <2>1, <2>3 DEF IInv, ChargedWhenApproved, Amount
    <2> QED
      BY <2>2, <2>3
  <1>7. RefundAnswersCharge' /\ LockedRefundOnce'
    BY <1>2, <1>4 DEF IInv, RefundAnswersCharge, LockedRefundOnce, Refunded
  <1>8. RefundReadsHold'
    <2>1. SUFFICES ASSUME NEW h \in Handlers, tx'[h] # Idle, tx'[h].refund = "yes"
                   PROVE  usage'[tx'[h].req] > 0
      BY DEF RefundReadsHold
    <2>2. tx'[h] = tx[h] /\ tx[h] \in Tx
      BY <1>1, <2>1 DEF TypeOK
    <2> QED
      BY <1>4, <2>1, <2>2 DEF IInv, RefundReadsHold, Tx
  <1> QED
    BY <1>5, <1>6, <1>7, <1>8 DEF IInv

\* A step that withdraws a request and reverses its usage, if write says so.
LEMMA RefundStep ==
    ASSUME IInv, TypeOK', NEW r \in Requests, NEW s \in Status \ {"APPROVED"},
           NEW o \in RefundOps, NEW write \in BOOLEAN, ReverseUsage(r, o, write),
           write => usage[r] > 0, write /\ o # "revoke" => Refundable(r),
           SetStatus(r, s), details' = details,
           \A h \in Handlers : tx'[h] = tx[h] \/ tx'[h] = Idle
    PROVE  IInv'
  <1>1. TypeOK
    BY DEF IInv
  <1>2. /\ refunds' \in [Requests -> [RefundOps -> Nat]]
        /\ usage' = usage
        /\ \A q \in Requests \ {r} : refunds'[q] = refunds[q] /\ deducted'[q] = deducted[q]
        /\ ~write => refunds' = refunds
        /\ write => /\ refunds'[r][o] = refunds[r][o] + 1
                    /\ \A k \in RefundOps \ {o} : refunds'[r][k] = refunds[r][k]
    BY <1>1, ReverseUsageFacts
  <1>3. UsageOnce' /\ RefundReadsHold'
    BY <1>2 DEF IInv, UsageOnce, RefundReadsHold
  <1>4. ChargedWhenApproved'
    <2>1. status'[r] # "APPROVED" /\ \A q \in Requests \ {r} : status'[q] = status[q]
      BY <1>1 DEF TypeOK, SetStatus
    <2> QED
      BY <1>2, <2>1 DEF IInv, ChargedWhenApproved, Amount
  <1>5. RefundAnswersCharge'
    BY <1>2 DEF IInv, RefundAnswersCharge, Refunded
  <1>6. LockedRefundOnce'
    <2>1. /\ refunds[r]["cancel"] \in Nat /\ refunds[r]["reject"] \in Nat
          /\ refunds[r]["revoke"] \in Nat
      BY <1>1 DEF TypeOK, RefundOps
    <2>2. CASE write /\ o # "revoke"
      <3>1. refunds[r]["cancel"] = 0 /\ refunds[r]["reject"] = 0
        BY <2>1, <2>2 DEF Refundable, Refunded
      <3>2. refunds'[r]["cancel"] + refunds'[r]["reject"] <= 1
        BY <1>2, <2>2, <3>1 DEF RefundOps
      <3> QED
        BY <1>2, <3>2 DEF IInv, LockedRefundOnce
    <2>3. CASE write /\ o = "revoke"
      BY <1>2, <2>3 DEF IInv, LockedRefundOnce, RefundOps
    <2>4. CASE ~write
      BY <1>2, <2>4 DEF IInv, LockedRefundOnce
    <2> QED
      BY <2>2, <2>3, <2>4
  <1> QED
    BY <1>3, <1>4, <1>5, <1>6 DEF IInv

-----------------------------------------------------------------------------
(* One lemma for each half of a handler, then the whole next-state relation. *)

\* Everything a handler may read first leaves row and ledger alone.
LEMMA OpenStep ==
    ASSUME IInv, NEW h \in Handlers, NEW o \in AllOps, NEW r \in Requests,
           NEW p \in Periods, Open(h, o, r, p)
    PROVE  IInv'
  <1>1. TypeOK
    BY DEF IInv
  <1>2. /\ TypeOK'
        /\ UNCHANGED <<status, period, details, deducted, usage, refunds, today>>
        /\ tx'[h] = [op |-> o, req |-> r, seen |-> status[r], dates |-> p,
                     refund |-> "unread"]
        /\ \A k \in Handlers \ {h} : tx'[k] = tx[k]
    BY <1>1, OpenFacts
  <1>3. tx'[h].refund = "unread"
    BY <1>2
  <1>4. \A k \in Handlers : tx'[k] = tx[k] \/ tx'[k].refund # "yes"
    BY <1>2, <1>3
  <1> QED
    BY <1>2, <1>4, QuietStep

LEMMA ReadOpens ==
    ASSUME TypeOK, NEW h \in Handlers, NEW r \in Requests, Read(h, r)
    PROVE  \E o \in AllOps, p \in Periods : Open(h, o, r, p)
  <1>1. period[r] \in Periods
    BY DEF TypeOK
  <1>2. CASE ReadDelete(h, r)
    BY <1>1, <1>2 DEF ReadDelete, AllOps
  <1>3. CASE ReadSubmit(h, r)
    BY <1>1, <1>3 DEF ReadSubmit, AllOps
  <1>4. CASE ReadCancel(h, r)
    BY <1>1, <1>4 DEF ReadCancel, AllOps
  <1>5. CASE ReadApprove(h, r)
    BY <1>1, <1>5 DEF ReadApprove, AllOps
  <1>6. CASE ReadApproveConditional(h, r)
    BY <1>1, <1>6 DEF ReadApproveConditional, AllOps
  <1>7. CASE ReadAcceptCondition(h, r)
    BY <1>1, <1>7 DEF ReadAcceptCondition, AllOps
  <1>8. CASE ReadReject(h, r)
    BY <1>1, <1>8 DEF ReadReject, AllOps
  <1>9. CASE ReadRevoke(h, r)
    BY <1>1, <1>9 DEF ReadRevoke, AllOps
  <1>10. CASE ReadReopen(h, r)
    BY <1>1, <1>10 DEF ReadReopen, AllOps
  <1>11. CASE ReadRecall(h, r)
    BY <1>1, <1>11 DEF ReadRecall, AllOps
  <1>12. CASE \E p \in Periods : ReadEdit(h, r, p) \/ ReadModify(h, r, p)
    BY <1>12 DEF ReadEdit, ReadModify, AllOps
  <1> QED
    BY <1>2, <1>3, <1>4, <1>5, <1>6, <1>7, <1>8, <1>9, <1>10, <1>11, <1>12 DEF Read

LEMMA ReadStep ==
    ASSUME IInv, NEW h \in Handlers, NEW r \in Requests, Read(h, r)
    PROVE  IInv'
  <1>1. \E o \in AllOps, p \in Periods : Open(h, o, r, p)
    BY ReadOpens DEF IInv
  <1> QED
    BY <1>1, OpenStep

\* The transaction record after revoke has looked at the ledger: what it saw holds.
LEMMA RevokeReadStep ==
    ASSUME IInv, NEW h \in Handlers, RevokeReadsLedger(h)
    PROVE  IInv'
  <1> DEFINE answer == IF Refundable(tx[h].req) THEN "yes" ELSE "no"
  <1>1. tx[h] \in Tx
    BY DEF IInv, TypeOK, RevokeReadsLedger, Idle
  <1>2. /\ tx' = [tx EXCEPT ![h] = [tx[h] EXCEPT !.refund = answer]]
        /\ UNCHANGED <<status, period, details, deducted, usage, refunds, today, stale, raced>>
    BY DEF RevokeReadsLedger, row, ledger, history
  <1>3. /\ [tx[h] EXCEPT !.refund = answer] \in Tx
        /\ [tx[h] EXCEPT !.refund = answer].refund = answer
        /\ [tx[h] EXCEPT !.refund = answer].req = tx[h].req
    BY <1>1 DEF Tx
  <1> HIDE DEF answer
  <1>4. tx \in [Handlers -> Tx \cup {Idle}]
    BY DEF IInv, TypeOK
  <1>5. /\ tx'[h].refund = answer /\ tx'[h].req = tx[h].req
        /\ \A k \in Handlers \ {h} : tx'[k] = tx[k]
        /\ tx' \in [Handlers -> Tx \cup {Idle}]
    BY <1>2, <1>3, <1>4
  <1>6. TypeOK'
    BY <1>2, <1>5 DEF IInv, TypeOK
  <1>7. RefundReadsHold'
    <2>1. SUFFICES ASSUME NEW k \in Handlers, tx'[k] # Idle, tx'[k].refund = "yes"
                   PROVE  usage'[tx'[k].req] > 0
      BY DEF RefundReadsHold
    <2>2. CASE k = h
      <3>1. Refundable(tx[h].req)
        BY <1>5, <2>1, <2>2 DEF answer
      <3> QED
        BY <1>2, <1>5, <2>2, <3>1 DEF Refundable
    <2>3. CASE k # h
      BY <1>2, <1>5, <2>1, <2>3 DEF IInv, RefundReadsHold
    <2> QED
      BY <2>2, <2>3
  <1>8. UsageOnce' /\ ChargedWhenApproved' /\ RefundAnswersCharge' /\ LockedRefundOnce'
    BY <1>2 DEF IInv, UsageOnce, ChargedWhenApproved, RefundAnswersCharge, LockedRefundOnce,
                Refunded, Amount
  <1> QED
    BY <1>6, <1>7, <1>8 DEF IInv

\* A commit that leaves the ledger alone and approves nothing.
LEMMA QuietCommit ==
    ASSUME IInv, NEW h \in Handlers, NEW o \in AllOps, Commit(h, o),
           status' \in [Requests -> Status], period' \in [Requests -> Periods],
           details' \in [Requests -> Periods \cup {NoPeriod}],
           UNCHANGED <<deducted, usage, refunds>>,
           \A r \in Requests : status'[r] = "APPROVED" =>
               status[r] = "APPROVED" /\ details'[r] = details[r]
    PROVE  IInv'
  <1>1. TypeOK
    BY DEF IInv
  <1>2. /\ tx' \in [Handlers -> Tx \cup {Idle}] /\ tx'[h] = Idle /\ today' = today
        /\ stale' \subseteq Handlers /\ raced' \subseteq Requests
        /\ \A k \in Handlers \ {h} : tx'[k] = tx[k]
    BY <1>1, CommitFacts
  <1>3. TypeOK'
    BY <1>1, <1>2 DEF TypeOK
  <1>4. \A k \in Handlers : tx'[k] = tx[k] \/ tx'[k] = Idle
    BY <1>2
  <1> QED
    BY <1>3, <1>4, QuietStep

\* A commit that only moves the status of its request, and not to APPROVED.
LEMMA StatusCommit ==
    ASSUME IInv, NEW h \in Handlers, NEW o \in AllOps, Commit(h, o),
           NEW s \in Status \ {"APPROVED"}, SetStatus(tx[h].req, s),
           period' = period, UNCHANGED <<details, deducted, usage, refunds>>
    PROVE  IInv'
  <1>1. TypeOK /\ tx[h].req \in Requests
    BY CommitFacts DEF IInv
  <1>2. status' \in [Requests -> Status] /\ status'[tx[h].req] = s
        /\ \A r \in Requests \ {tx[h].req} : status'[r] = status[r]
    BY <1>1 DEF TypeOK, SetStatus
  <1> QED
    BY <1>1, <1>2, QuietCommit DEF TypeOK

\* A commit that approves its request and records usage from breakdown d.
LEMMA ChargeCommit ==
    ASSUME IInv, NEW h \in Handlers, NEW o \in AllOps, Commit(h, o),
           NEW d \in Periods \cup {NoPeriod}, RecordUsage(tx[h].req, d),
           SetStatus(tx[h].req, "APPROVED"), period' = period,
           details' = [details EXCEPT ![tx[h].req] = d]
    PROVE  IInv'
  <1>1. TypeOK /\ tx[h].req \in Requests
    BY CommitFacts DEF IInv
  <1>2. /\ tx' \in [Handlers -> Tx \cup {Idle}] /\ tx'[h] = Idle /\ today' = today
        /\ stale' \subseteq Handlers /\ raced' \subseteq Requests
        /\ \A k \in Handlers \ {h} : tx'[k] = tx[k]
    BY <1>1, CommitFacts
  <1>3. /\ usage' \in [Requests -> Nat] /\ deducted' \in [Requests -> BOOLEAN]
        /\ refunds' = refunds
    BY <1>1, RecordUsageFacts
  <1>4. TypeOK'
    BY <1>1, <1>2, <1>3 DEF TypeOK, SetStatus, Status
  <1>5. \A k \in Handlers : tx'[k] = tx[k] \/ tx'[k] = Idle
    BY <1>2
  <1> QED
    BY <1>1, <1>4, <1>5, ChargeStep

\* A commit that withdraws its request and reverses its usage, if write says so.
LEMMA RefundCommit ==
    ASSUME IInv, NEW h \in Handlers, NEW o \in RefundOps, Commit(h, o),
           NEW write \in BOOLEAN, ReverseUsage(tx[h].req, o, write),
           write => usage[tx[h].req] > 0,
           write /\ o # "revoke" => Refundable(tx[h].req),
           NEW s \in Status \ {"APPROVED"}, SetStatus(tx[h].req, s),
           period' = period, details' = details
    PROVE  IInv'
  <1>1. TypeOK /\ o \in AllOps
    BY DEF IInv, RefundOps, AllOps
  <1>2. /\ tx' \in [Handlers -> Tx \cup {Idle}] /\ tx'[h] = Idle /\ today' = today
        /\ stale' \subseteq Handlers /\ raced' \subseteq Requests
        /\ \A k \in Handlers \ {h} : tx'[k] = tx[k]
        /\ tx[h].req \in Requests
    BY <1>1, CommitFacts
  <1>3. /\ refunds' \in [Requests -> [RefundOps -> Nat]]
        /\ deducted' \in [Requests -> BOOLEAN] /\ usage' = usage
    BY <1>1, <1>2, ReverseUsageFacts
  <1>4. TypeOK'
    BY <1>1, <1>2, <1>3 DEF TypeOK, SetStatus
  <1>5. \A k \in Handlers : tx'[k] = tx[k] \/ tx'[k] = Idle
    BY <1>2
  <1> QED
    BY <1>2, <1>4, <1>5, RefundStep

LEMMA WriteStep ==
    ASSUME IInv, NEW h \in Handlers, Write(h)
    PROVE  IInv'
  <1>1. TypeOK
    BY DEF IInv
  <1>2. CASE Edit(h)
    <2>1. Commit(h, "edit")
      BY <1>2 DEF Edit
    <2>2. tx[h].req \in Requests /\ tx[h].dates \in Periods
      BY <1>1, <2>1, CommitFacts DEF AllOps
    <2>3. /\ period' = [period EXCEPT ![tx[h].req] = tx[h].dates]
          /\ UNCHANGED <<status, details, deducted, usage, refunds>>
      BY <1>2 DEF Edit, ledger
    <2>4. /\ period' \in [Requests -> Periods] /\ status' \in [Requests -> Status]
          /\ details' \in [Requests -> Periods \cup {NoPeriod}]
      BY <1>1, <2>2, <2>3 DEF TypeOK
    <2> QED
      BY <2>1, <2>3, <2>4, QuietCommit DEF AllOps
  <1>3. CASE Delete(h)
    <2>1. Commit(h, "delete") /\ SetStatus(tx[h].req, "DELETED")
      BY <1>3 DEF Delete
    <2>2. period' = period /\ UNCHANGED <<details, deducted, usage, refunds>>
      BY <1>3 DEF Delete, ledger
    <2> QED
      BY <2>1, <2>2, StatusCommit DEF AllOps, Status
  <1>4. CASE Submit(h)
    <2>1. Commit(h, "submit") /\ period' = period
      BY <1>4 DEF Submit
    <2>2. tx[h].req \in Requests /\ tx[h].dates \in Periods
      BY <1>1, <2>1, CommitFacts DEF AllOps
    <2>3. Breakdown(h) \in Periods \cup {NoPeriod}
      BY <2>2 DEF Breakdown
    <2>4. details' = [details EXCEPT ![tx[h].req] = Breakdown(h)]
      BY <1>4 DEF Submit
    <2>5. CASE SetStatus(tx[h].req, "PENDING") /\ UNCHANGED <<deducted, ledger>>
      <3>1. details' \in [Requests -> Periods \cup {NoPeriod}]
        BY <1>1, <2>2, <2>3, <2>4 DEF TypeOK
      <3>2. \A r \in Requests \ {tx[h].req} : details'[r] = details[r] /\ status'[r] = status[r]
        BY <1>1, <2>2, <2>4, <2>5 DEF TypeOK, SetStatus
      <3>3. status' \in [Requests -> Status] /\ status'[tx[h].req] = "PENDING"
        BY <1>1, <2>2, <2>5 DEF TypeOK, SetStatus, Status
      <3>4. UNCHANGED <<deducted, usage, refunds>> /\ period' \in [Requests -> Periods]
        BY <1>1, <2>1, <2>5 DEF ledger, TypeOK
      <3> QED
        BY <2>1, <3>1, <3>2, <3>3, <3>4, QuietCommit DEF AllOps
    <2>6. CASE SetStatus(tx[h].req, "APPROVED") /\ RecordUsage(tx[h].req, Breakdown(h))
      BY <2>1, <2>3, <2>4, <2>6, ChargeCommit DEF AllOps
    <2> QED
      BY <1>4, <2>5, <2>6 DEF Submit
  <1>5. CASE Cancel(h)
    <2>1. /\ Commit(h, "cancel") /\ SetStatus(tx[h].req, "CANCELLED")
          /\ period' = period /\ details' = details
      BY <1>5 DEF Cancel
    <2>2. CASE tx[h].seen = "APPROVED" /\ deducted[tx[h].req]
      <3>1. ReverseUsage(tx[h].req, "cancel", Refundable(tx[h].req))
        BY <1>5, <2>2 DEF Cancel
      <3>2. Refundable(tx[h].req) \in BOOLEAN
        BY DEF Refundable
      <3>3. Refundable(tx[h].req) => usage[tx[h].req] > 0
        BY DEF Refundable
      <3> QED
        BY <2>1, <3>1, <3>2, <3>3, RefundCommit DEF RefundOps, Status
    <2>3. CASE ~(tx[h].seen = "APPROVED" /\ deducted[tx[h].req])
      <3>1. UNCHANGED <<details, deducted, usage, refunds>>
        BY <1>5, <2>1, <2>3 DEF Cancel, ledger
      <3> QED
        BY <2>1, <3>1, StatusCommit DEF AllOps, Status
    <2> QED
      BY <2>2, <2>3
  <1>6. CASE Approve(h)
    <2>1. /\ Commit(h, "approve") /\ SetStatus(tx[h].req, "APPROVED")
          /\ RecordUsage(tx[h].req, details[tx[h].req]) /\ period' = period
          /\ details' = details
      BY <1>6 DEF Approve
    <2>2. tx[h].req \in Requests
      BY <1>1, <2>1, CommitFacts DEF AllOps
    <2>3. /\ details[tx[h].req] \in Periods \cup {NoPeriod}
          /\ details' = [details EXCEPT ![tx[h].req] = details[tx[h].req]]
      BY <1>1, <2>1, <2>2 DEF TypeOK
    <2> QED
      BY <2>1, <2>3, ChargeCommit DEF AllOps
  <1>7. CASE ApproveConditional(h)
    <2>1. Commit(h, "approve_conditional") /\ SetStatus(tx[h].req, "APPROVED_CONDITIONAL")
      BY <1>7 DEF ApproveConditional
    <2>2. period' = period /\ UNCHANGED <<details, deducted, usage, refunds>>
      BY <1>7 DEF ApproveConditional, ledger
    <2> QED
      BY <2>1, <2>2, StatusCommit DEF AllOps, Status
  <1>8. CASE AcceptCondition(h)
    <2>1. /\ Commit(h, "accept") /\ SetStatus(tx[h].req, "APPROVED")
          /\ RecordUsage(tx[h].req, details[tx[h].req]) /\ period' = period
          /\ details' = details
      BY <1>8 DEF AcceptCondition
    <2>2. tx[h].req \in Requests
      BY <1>1, <2>1, CommitFacts DEF AllOps
    <2>3. /\ details[tx[h].req] \in Periods \cup {NoPeriod}
          /\ details' = [details EXCEPT ![tx[h].req] = details[tx[h].req]]
      BY <1>1, <2>1, <2>2 DEF TypeOK
    <2> QED
      BY <2>1, <2>3, ChargeCommit DEF AllOps
  <1>9. CASE DeclineCondition(h)
    <2>1. Commit(h, "decline") /\ SetStatus(tx[h].req, "CANCELLED")
      BY <1>9 DEF DeclineCondition
    <2>2. period' = period /\ UNCHANGED <<details, deducted, usage, refunds>>
      BY <1>9 DEF DeclineCondition, ledger
    <2> QED
      BY <2>1, <2>2, StatusCommit DEF AllOps, Status
  <1>10. CASE Reject(h)
    <2>1. /\ Commit(h, "reject") /\ SetStatus(tx[h].req, "REJECTED")
          /\ period' = period /\ details' = details
      BY <1>10 DEF Reject
    <2>2. CASE tx[h].seen = "APPROVED"
      <3>1. ReverseUsage(tx[h].req, "reject", Refundable(tx[h].req))
        BY <1>10, <2>2 DEF Reject
      <3>2. Refundable(tx[h].req) \in BOOLEAN
        BY DEF Refundable
      <3>3. Refundable(tx[h].req) => usage[tx[h].req] > 0
        BY DEF Refundable
      <3> QED
        BY <2>1, <3>1, <3>2, <3>3, RefundCommit DEF RefundOps, Status
    <2>3. CASE ~(tx[h].seen = "APPROVED")
      <3>1. UNCHANGED <<details, deducted, usage, refunds>>
        BY <1>10, <2>1, <2>3 DEF Reject, ledger
      <3> QED
        BY <2>1, <3>1, StatusCommit DEF AllOps, Status
    <2> QED
      BY <2>2, <2>3
  <1>11. CASE Revoke(h)
    <2>1. /\ Commit(h, "revoke") /\ SetStatus(tx[h].req, "REJECTED")
          /\ period' = period /\ details' = details
      BY <1>11 DEF Revoke
    <2>2. tx[h] \in Tx
      BY <1>1, <2>1, CommitFacts DEF AllOps
    <2>3. CASE tx[h].seen = "APPROVED"
      <3>1. ReverseUsage(tx[h].req, "revoke", tx[h].refund = "yes")
        BY <1>11, <2>3 DEF Revoke
      <3>2. tx[h] # Idle
        BY <2>1 DEF Commit, Idle
      <3>3. tx[h].refund = "yes" => usage[tx[h].req] > 0
        BY <3>2 DEF IInv, RefundReadsHold
      <3>4. (tx[h].refund = "yes") \in BOOLEAN
        OBVIOUS
      <3> QED
        BY <2>1, <3>1, <3>3, <3>4, RefundCommit DEF RefundOps, Status
    <2>4. CASE tx[h].seen # "APPROVED"
      <3>1. UNCHANGED <<details, deducted, usage, refunds>>
        BY <1>11, <2>1, <2>4 DEF Revoke, ledger
      <3> QED
        BY <2>1, <3>1, StatusCommit DEF AllOps, Status
    <2> QED
      BY <2>3, <2>4
  <1>12. CASE Reopen(h)
    <2>1. Commit(h, "reopen") /\ SetStatus(tx[h].req, "PENDING")
      BY <1>12 DEF Reopen
    <2>2. period' = period /\ UNCHANGED <<details, deducted, usage, refunds>>
      BY <1>12 DEF Reopen, ledger
    <2> QED
      BY <2>1, <2>2, StatusCommit DEF AllOps, Status
  <1>13. CASE Recall(h)
    <2>1. Commit(h, "recall") /\ SetStatus(tx[h].req, "RECALLED")
      BY <1>13 DEF Recall
    <2>2. period' = period /\ UNCHANGED <<details, deducted, usage, refunds>>
      BY <1>13 DEF Recall, ledger
    <2> QED
      BY <2>1, <2>2, StatusCommit DEF AllOps, Status
  <1>14. CASE Modify(h)
    <2>1. Commit(h, "modify")
      BY <1>14 DEF Modify
    <2>2. tx[h].req \in Requests /\ tx[h].dates \in Periods
      BY <1>1, <2>1, CommitFacts DEF AllOps
    <2>3. /\ period' = [period EXCEPT ![tx[h].req] = tx[h].dates]
          /\ UNCHANGED <<status, details, deducted, usage, refunds>>
      BY <1>14 DEF Modify, ledger
    <2>4. /\ period' \in [Requests -> Periods] /\ status' \in [Requests -> Status]
          /\ details' \in [Requests -> Periods \cup {NoPeriod}]
      BY <1>1, <2>2, <2>3 DEF TypeOK
    <2> QED
      BY <2>1, <2>3, <2>4, QuietCommit DEF AllOps
  <1> QED
    BY <1>2, <1>3, <1>4, <1>5, <1>6, <1>7, <1>8, <1>9, <1>10, <1>11, <1>12, <1>13, <1>14 DEF Write

LEMMA InitInv == Init => IInv
  <1> SUFFICES ASSUME Init  PROVE  IInv
    OBVIOUS
  <1>1. TypeOK
    BY DEF Init, TypeOK, Status
  <1>2. \A r \in Requests : usage[r] = 0 /\ status[r] # "APPROVED"
    BY DEF Init
  <1>3. \A r \in Requests : refunds[r]["cancel"] = 0 /\ refunds[r]["reject"] = 0
                             /\ refunds[r]["revoke"] = 0
    BY DEF Init, RefundOps
  <1>4. RefundReadsHold
    BY DEF Init, RefundReadsHold
  <1> QED
    BY <1>1, <1>2, <1>3, <1>4 DEF IInv, UsageOnce, ChargedWhenApproved, RefundAnswersCharge,
                                  LockedRefundOnce, Refunded

LEMMA NextInv == IInv /\ [Next]_vars => IInv'
  <1> SUFFICES ASSUME IInv, [Next]_vars  PROVE  IInv'
    OBVIOUS
  <1>1. TypeOK
    BY DEF IInv
  <1>2. ASSUME NEW r \in Requests, NEW p \in Periods, Create(r, p)
        PROVE  IInv'
    <2>1. /\ status' = [status EXCEPT ![r] = "DRAFT"] /\ period' = [period EXCEPT ![r] = p]
          /\ UNCHANGED <<details, deducted, usage, refunds, tx, today, stale, raced>>
      BY <1>2 DEF Create, SetStatus, ledger, history
    <2>2. TypeOK'
      BY <1>1, <2>1 DEF TypeOK, Status
    <2>3. \A q \in Requests : status'[q] = "APPROVED" => status[q] = "APPROVED"
      BY <1>1, <2>1 DEF TypeOK
    <2> QED
      BY <2>1, <2>2, <2>3, QuietStep
  <1>3. ASSUME NEW h \in Handlers, Rollback(h)
        PROVE  IInv'
    <2>1. /\ tx' = [tx EXCEPT ![h] = Idle]
          /\ stale' = stale \ {h}
          /\ UNCHANGED <<status, period, details, deducted, usage, refunds, today, raced>>
      BY <1>3 DEF Rollback, row, ledger
    <2>2. TypeOK' /\ \A k \in Handlers : tx'[k] = tx[k] \/ tx'[k] = Idle
      BY <1>1, <2>1 DEF TypeOK
    <2> QED
      BY <2>1, <2>2, QuietStep
  <1>4. CASE Midnight
    <2>1. /\ today' \in Nat
          /\ UNCHANGED <<status, period, details, deducted, usage, refunds, tx, stale, raced>>
      BY <1>1, <1>4 DEF Midnight, TypeOK, row, ledger, history
    <2> QED
      BY <1>1, <2>1, QuietStep DEF TypeOK
  <1>5. CASE UNCHANGED vars
    BY <1>1, <1>5, QuietStep DEF vars, TypeOK
  <1> QED
    BY <1>2, <1>3, <1>4, <1>5, ReadStep, RevokeReadStep, WriteStep DEF Next

LEMMA Invariance == Spec => []IInv
  BY InitInv, NextInv, PTL DEF Spec

-----------------------------------------------------------------------------
(* What the ledger keeps, for any number of concurrent handlers. *)

\* Every variable keeps its type.
THEOREM TypeCorrect == Spec => []TypeOK
  <1>1. IInv => TypeOK
    BY DEF IInv
  <1> QED
    BY <1>1, Invariance, PTL

\* However many approvals, acceptances and automatic approvals run at the same time, a
\* request has one group of USAGE entries at most.
THEOREM ChargedAtMostOnce == Spec => []UsageOnce
  <1>1. IInv => UsageOnce
    BY DEF IInv
  <1> QED
    BY <1>1, Invariance, PTL

\* An approved request has its flag, and its USAGE entry unless its breakdown comes to
\* nothing.
THEOREM ApprovedIsInLedger == Spec => []ChargedWhenApproved
  <1>1. IInv => ChargedWhenApproved
    BY DEF IInv
  <1> QED
    BY <1>1, Invariance, PTL

\* A reversal always has usage to reverse, also when revoke decided on a stale read.
THEOREM NoRefundFromNothing == Spec => []RefundAnswersCharge
  <1>1. IInv => RefundAnswersCharge
    BY DEF IInv
  <1> QED
    BY <1>1, Invariance, PTL

\* Cancel and reject, which look for reversals under the row lock, write one group in all.
THEOREM LockedRefundsPayOnce == Spec => []LockedRefundOnce
  <1>1. IInv => LockedRefundOnce
    BY DEF IInv
  <1> QED
    BY <1>1, Invariance, PTL

-----------------------------------------------------------------------------
(* What a commit does to the ledger. *)

\* What a running handler decided about the ledger is still true.
LedgerRead(h) ==
    tx[h].refund # "unread" =>
        tx[h].op = "revoke" /\ (tx[h].refund = "yes" <=> Refundable(tx[h].req))

\* A commit either leaves the ledger, or records usage, or reverses: what can be reversed,
\* if what it read of the ledger is still true.
LEMMA WriteLedger ==
    ASSUME TypeOK, NEW h \in Handlers, Write(h)
    PROVE  /\ tx[h] \in Tx /\ tx[h].req \in Requests /\ tx[h] # Idle /\ tx'[h] = Idle
           /\ \A k \in Handlers \ {h} : tx'[k] = tx[k]
           /\ \/ UNCHANGED <<deducted, ledger>>
              \/ \E d \in Periods \cup {NoPeriod} : RecordUsage(tx[h].req, d)
              \/ \E o \in RefundOps, write \in BOOLEAN :
                    /\ ReverseUsage(tx[h].req, o, write)
                    /\ LedgerRead(h) => (write <=> Refundable(tx[h].req))
  <1>2. \E o \in AllOps : Commit(h, o)
    BY DEF Write, Edit, Delete, Submit, Cancel, Approve, ApproveConditional, AcceptCondition,
           DeclineCondition, Reject, Revoke, Reopen, Recall, Modify, AllOps
  <1>1. tx[h] # Idle
    BY <1>2 DEF Commit, Idle, AllOps
  <1>3. /\ tx[h] \in Tx /\ tx[h].req \in Requests /\ tx[h].dates \in Periods /\ tx'[h] = Idle
        /\ \A k \in Handlers \ {h} : tx'[k] = tx[k]
    BY <1>1, <1>2, CommitFacts
  <1>4. details[tx[h].req] \in Periods \cup {NoPeriod} /\ Breakdown(h) \in Periods \cup {NoPeriod}
    BY <1>3 DEF TypeOK, Breakdown
  <1>5. Refundable(tx[h].req) \in BOOLEAN /\ (tx[h].refund = "yes") \in BOOLEAN
    BY DEF Refundable
  <1>6. CASE Edit(h) \/ Delete(h) \/ ApproveConditional(h) \/ DeclineCondition(h)
             \/ Reopen(h) \/ Recall(h) \/ Modify(h)
    <2>1. UNCHANGED <<deducted, ledger>>
      BY <1>6 DEF Edit, Delete, ApproveConditional, DeclineCondition, Reopen, Recall, Modify
    <2> QED
      BY <1>1, <1>3, <2>1
  <1>7. CASE Submit(h)
    <2>1. UNCHANGED <<deducted, ledger>> \/ RecordUsage(tx[h].req, Breakdown(h))
      BY <1>7 DEF Submit
    <2> QED
      BY <1>1, <1>3, <1>4, <2>1
  <1>8. CASE Approve(h) \/ AcceptCondition(h)
    <2>1. RecordUsage(tx[h].req, details[tx[h].req])
      BY <1>8 DEF Approve, AcceptCondition
    <2> QED
      BY <1>1, <1>3, <1>4, <2>1
  <1>9. CASE Cancel(h)
    <2>1. UNCHANGED <<deducted, ledger>> \/ ReverseUsage(tx[h].req, "cancel", Refundable(tx[h].req))
      BY <1>9 DEF Cancel
    <2> QED
      BY <1>1, <1>3, <1>5, <2>1 DEF RefundOps
  <1>10. CASE Reject(h)
    <2>1. UNCHANGED <<deducted, ledger>> \/ ReverseUsage(tx[h].req, "reject", Refundable(tx[h].req))
      BY <1>10 DEF Reject
    <2> QED
      BY <1>1, <1>3, <1>5, <2>1 DEF RefundOps
  <1>11. CASE Revoke(h)
    <2>1. UNCHANGED <<deducted, ledger>> \/ ReverseUsage(tx[h].req, "revoke", tx[h].refund = "yes")
      BY <1>11 DEF Revoke
    <2>3. LedgerRead(h) /\ tx[h].refund # "unread" =>
             (tx[h].refund = "yes" <=> Refundable(tx[h].req))
      BY DEF LedgerRead
    <2>4. UNCHANGED <<deducted, ledger>> \/ tx[h].refund # "unread"
      BY <1>11 DEF Revoke
    <2> QED
      BY <1>1, <1>3, <1>5, <2>1, <2>3, <2>4 DEF RefundOps
  <1> QED
    BY <1>6, <1>7, <1>8, <1>9, <1>10, <1>11 DEF Write

\* After a reversal that looked, the usage is reversed: by it or before.
LEMMA ReversalRefunds ==
    ASSUME TypeOK, NEW r \in Requests, NEW o \in RefundOps, NEW write \in BOOLEAN,
           ReverseUsage(r, o, write), write <=> Refundable(r), usage[r] > 0
    PROVE  Refunded(r)' > 0
  <1>1. /\ ~write => refunds' = refunds
        /\ write => /\ refunds'[r][o] = refunds[r][o] + 1
                    /\ \A k \in RefundOps \ {o} : refunds'[r][k] = refunds[r][k]
    BY ReverseUsageFacts
  <1>2. /\ refunds[r]["cancel"] \in Nat /\ refunds[r]["reject"] \in Nat
        /\ refunds[r]["revoke"] \in Nat
    BY DEF TypeOK, RefundOps
  <1>3. write => Refunded(r)' > 0
    BY <1>1, <1>2 DEF Refunded, RefundOps
  <1>4. ~write => Refunded(r) > 0
    <2>1. Refunded(r) \in Nat
      BY <1>2 DEF Refunded
    <2>2. ~write => Refunded(r) # 0
      BY DEF Refundable
    <2> QED
      BY <2>1, <2>2
  <1>5. ~write => Refunded(r)' = Refunded(r)
    BY <1>1 DEF Refunded
  <1> QED
    BY <1>3, <1>4, <1>5

\* One part of FlagMatchesLedger.
FlagOf(r) == usage[r] > 0 /\ ~deducted[r] => Refunded(r) > 0

\* The flag follows the ledger in the three kinds of commit.
LEMMA FlagFollows ==
    ASSUME IInv, NEW r \in Requests, FlagOf(r),
           \/ UNCHANGED <<deducted, ledger>>
           \/ \E d \in Periods \cup {NoPeriod} : RecordUsage(r, d)
           \/ \E o \in RefundOps, write \in BOOLEAN :
                 ReverseUsage(r, o, write) /\ (write <=> Refundable(r))
    PROVE  FlagOf(r)'
  <1>1. TypeOK
    BY DEF IInv
  <1>2. CASE UNCHANGED <<deducted, ledger>>
    BY <1>2 DEF FlagOf, Refunded, ledger
  <1>3. ASSUME NEW d \in Periods \cup {NoPeriod}, RecordUsage(r, d)
        PROVE  FlagOf(r)'
    <2>1. refunds' = refunds /\ deducted'[r] = TRUE
      BY <1>1, <1>3, RecordUsageFacts
    <2> QED
      BY <2>1 DEF FlagOf, Refunded
  <1>4. ASSUME NEW o \in RefundOps, NEW write \in BOOLEAN, ReverseUsage(r, o, write),
               write <=> Refundable(r)
        PROVE  FlagOf(r)'
    <2>1. usage' = usage
      BY <1>1, <1>4, ReverseUsageFacts
    <2>2. usage[r] > 0 => Refunded(r)' > 0
      BY <1>1, <1>4, ReversalRefunds
    <2> QED
      BY <2>1, <2>2 DEF FlagOf, Refunded
  <1> QED
    BY <1>2, <1>3, <1>4

\* A commit touches flag and ledger of its own request only.
LEMMA OtherLedgers ==
    ASSUME TypeOK, NEW r \in Requests,
           \/ UNCHANGED <<deducted, ledger>>
           \/ \E d \in Periods \cup {NoPeriod} : RecordUsage(r, d)
           \/ \E o \in RefundOps, write \in BOOLEAN : ReverseUsage(r, o, write)
    PROVE  \A q \in Requests \ {r} :
              usage'[q] = usage[q] /\ refunds'[q] = refunds[q] /\ deducted'[q] = deducted[q]
  <1>1. ASSUME NEW d \in Periods \cup {NoPeriod}, RecordUsage(r, d), NEW q \in Requests \ {r}
        PROVE  usage'[q] = usage[q] /\ refunds'[q] = refunds[q] /\ deducted'[q] = deducted[q]
    BY <1>1, RecordUsageFacts
  <1>2. ASSUME NEW o \in RefundOps, NEW write \in BOOLEAN, ReverseUsage(r, o, write),
               NEW q \in Requests \ {r}
        PROVE  usage'[q] = usage[q] /\ refunds'[q] = refunds[q] /\ deducted'[q] = deducted[q]
    BY <1>2, ReverseUsageFacts
  <1> QED
    BY <1>1, <1>2 DEF ledger

-----------------------------------------------------------------------------
(***************************************************************************)
(* What is kept for requests that no handler wrote on stale reads.  A      *)
(* handler that no commit has overtaken still finds true, when it commits, *)
(* every check it made on reading; one that was overtaken commits its      *)
(* request into raced.                                                     *)
(***************************************************************************)

\* What a handler read, and checked, when nothing came in between.
Checked(h) ==
    LET t == tx[h] IN
    /\ t.op \in Ops /\ Exists(t.req) /\ t.seen = status[t.req]
    /\ t.op \in {"edit", "delete", "submit"} => t.seen = "DRAFT"
    /\ t.op \in {"accept", "decline"} => t.seen = "APPROVED_CONDITIONAL"
    /\ t.op \in {"approve_conditional"} => t.seen = "PENDING"
    /\ t.op = "approve" => t.seen # "DRAFT" /\ (Direct \/ t.seen = "PENDING")
    /\ t.op = "recall" => t.seen \in {"APPROVED", "APPROVED_CONDITIONAL"}
    /\ t.op \notin {"edit", "modify"} => t.dates = period[t.req]
    /\ t.op = "submit" => ~Overlaps(t.req, period[t.req])

Fresh(h) == Checked(h) /\ LedgerRead(h)

FreshInv ==
    /\ IInv
    /\ \A h \in Handlers \ stale : tx[h] # Idle => Fresh(h)
    /\ \A r \in Requests \ raced : FlagOf(r)
    /\ UnracedRefundOnce

\* A breakdown is that of the dates a request was submitted with.
BreakdownInv ==
    \A r \in Requests \ raced :
        details[r] # NoPeriod => details[r] = period[r] /\ status[r] \notin {"NONE", "DRAFT"}
-----------------------------------------------------------------------------
(* Checks stay true *)

LEMMA OpenChecked ==
    ASSUME TypeOK, NEW h \in Handlers, NEW o \in AllOps, NEW r \in Requests, NEW p \in Periods,
           Open(h, o, r, p), Exists(r),
           o \in {"edit", "delete", "submit"} => status[r] = "DRAFT",
           o \in {"accept", "decline"} => status[r] = "APPROVED_CONDITIONAL",
           o \in {"approve_conditional"} => status[r] = "PENDING",
           o = "approve" => status[r] # "DRAFT" /\ (Direct \/ status[r] = "PENDING"),
           o = "recall" => status[r] \in {"APPROVED", "APPROVED_CONDITIONAL"},
           o \notin {"edit", "modify"} => p = period[r],
           o = "submit" => ~Overlaps(r, period[r])
    PROVE  /\ Fresh(h)' /\ \A k \in Handlers \ {h} : tx'[k] = tx[k]
           /\ UNCHANGED <<status, period, details, deducted, usage, refunds, stale, raced>>
  <1>1. /\ UNCHANGED <<status, period, details, deducted, usage, refunds, today, stale, raced>>
        /\ tx'[h] = [op |-> o, req |-> r, seen |-> status[r], dates |-> p, refund |-> "unread"]
        /\ \A k \in Handlers \ {h} : tx'[k] = tx[k]
    BY OpenFacts
  <1>2. /\ tx'[h].op = o /\ tx'[h].req = r /\ tx'[h].seen = status[r] /\ tx'[h].dates = p
        /\ tx'[h].refund = "unread" /\ o \in Ops
    BY <1>1 DEF Open
  <1> QED
    BY <1>1, <1>2 DEF Fresh, LedgerRead, Checked, Exists, Overlaps

LEMMA ReadChecked ==
    ASSUME TypeOK, NEW h \in Handlers, NEW r \in Requests, Read(h, r)
    PROVE  /\ Fresh(h)' /\ \A k \in Handlers \ {h} : tx'[k] = tx[k]
           /\ UNCHANGED <<status, period, details, deducted, usage, refunds, stale, raced>>
  <1>1. period[r] \in Periods
    BY DEF TypeOK
  <1>2. CASE ReadDelete(h, r)
    BY <1>1, <1>2, OpenChecked DEF ReadDelete, AllOps, Exists
  <1>3. CASE ReadSubmit(h, r)
    BY <1>1, <1>3, OpenChecked DEF ReadSubmit, AllOps, Exists
  <1>4. CASE ReadCancel(h, r)
    BY <1>1, <1>4, OpenChecked DEF ReadCancel, AllOps, Exists
  <1>5. CASE ReadApprove(h, r)
    BY <1>1, <1>5, OpenChecked DEF ReadApprove, Decidable, AllOps, Exists
  <1>6. CASE ReadApproveConditional(h, r)
    BY <1>1, <1>6, OpenChecked DEF ReadApproveConditional, AllOps, Exists
  <1>7. CASE ReadAcceptCondition(h, r)
    <2>1. PICK o \in {"accept", "decline"} : Open(h, o, r, period[r])
      BY <1>7 DEF ReadAcceptCondition
    <2>2. o \in AllOps /\ o \notin {"edit", "delete", "submit", "approve_conditional", "approve",
                                    "recall", "modify"}
      BY DEF AllOps
    <2> QED
      BY <1>1, <1>7, <2>1, <2>2, OpenChecked DEF ReadAcceptCondition, Exists
  <1>8. CASE ReadReject(h, r)
    BY <1>1, <1>8, OpenChecked DEF ReadReject, Decidable, AllOps, Exists
  <1>9. CASE ReadRevoke(h, r)
    BY <1>1, <1>9, OpenChecked DEF ReadRevoke, AllOps, Exists
  <1>10. CASE ReadReopen(h, r)
    BY <1>1, <1>10, OpenChecked DEF ReadReopen, AllOps, Exists
  <1>11. CASE ReadRecall(h, r)
    BY <1>1, <1>11, OpenChecked DEF ReadRecall, AllOps, Exists
  <1>12. CASE \E p \in Periods : ReadEdit(h, r, p)
    BY <1>12, OpenChecked DEF ReadEdit, AllOps, Exists
  <1>13. CASE \E p \in Periods : ReadModify(h, r, p)
    BY <1>13, OpenChecked DEF ReadModify, AllOps, Exists
  <1> QED
    BY <1>2, <1>3, <1>4, <1>5, <1>6, <1>7, <1>8, <1>9, <1>10, <1>11, <1>12, <1>13 DEF Read

\* A new draft holds no dates and is nobody's request in hand.
LEMMA CreateChecked ==
    ASSUME TypeOK, NEW h \in Handlers, tx[h] # Idle, Checked(h),
           NEW r \in Requests, NEW p \in Periods, Create(r, p)
    PROVE  Checked(h)'
  <1> DEFINE q == tx[h].req
  <1>1. tx[h] \in Tx /\ tx' = tx
    BY DEF TypeOK, Create
  <1>2. q \in Requests /\ q # r
    BY <1>1 DEF Tx, Checked, Exists, Create
  <1>3. /\ status'[r] = "DRAFT" /\ \A s \in Requests \ {r} : status'[s] = status[s]
        /\ \A s \in Requests \ {r} : period'[s] = period[s]
    BY DEF TypeOK, Create, SetStatus
  <1>4. Overlaps(q, period[q])' => Overlaps(q, period[q])
    BY <1>1, <1>2, <1>3 DEF Overlaps, Exists
  <1> QED
    BY <1>1, <1>2, <1>3, <1>4 DEF Checked, Exists

-----------------------------------------------------------------------------
(* What a commit does to its row *)

Holding == {"PENDING", "APPROVED", "APPROVED_CONDITIONAL", "RECALLED"}

\* Edit: a draft gets other dates.
Redated(r) ==
    status[r] = "DRAFT" /\ status'[r] = "DRAFT" /\ details'[r] = details[r]

\* Submit: a draft whose dates are free gets its breakdown.
Submitted(r) ==
    /\ status[r] = "DRAFT" /\ status'[r] \in {"PENDING", "APPROVED"}
    /\ period'[r] = period[r] /\ details'[r] \in {period[r], NoPeriod}
    /\ ~Overlaps(r, period[r])

\* The others move the status, and hold the dates only where they were held, unless a
\* closed request is opened again, or approved by the leaves service's own endpoint.
Moved(r) ==
    /\ period'[r] = period[r] /\ details'[r] = details[r]
    /\ status'[r] \notin {"NONE", "DRAFT"}
    /\ status'[r] \in Holding => status[r] \in Holding \/ "reopen" \in Ops \/ Direct

LEMMA WriteRow ==
    ASSUME TypeOK, NEW h \in Handlers, Write(h)
    PROVE  LET r == tx[h].req IN
           /\ r \in Requests /\ Exists(r)
           /\ \A q \in Requests \ {r} :
                status'[q] = status[q] /\ period'[q] = period[q] /\ details'[q] = details[q]
           /\ Checked(h) => Redated(r) \/ Submitted(r) \/ Moved(r) \/ "modify" \in Ops
  <1> DEFINE r == tx[h].req
  <1>1. NoPeriod \notin Periods
    BY ConfigAssumption
  <1>2. \E o \in AllOps : Commit(h, o)
    BY DEF Write, Edit, Delete, Submit, Cancel, Approve, ApproveConditional, AcceptCondition,
           DeclineCondition, Reject, Revoke, Reopen, Recall, Modify, AllOps
  <1>3. r \in Requests /\ tx[h] \in Tx /\ Exists(r) /\ tx[h] # Idle
    <2>1. PICK o \in AllOps : Commit(h, o)
      BY <1>2
    <2>2. tx[h] # Idle
      BY <2>1 DEF Commit, Idle, AllOps
    <2> QED
      BY <2>1, <2>2, CommitFacts
  <1>5. /\ status \in [Requests -> Status] /\ period \in [Requests -> Periods]
        /\ details \in [Requests -> Periods \cup {NoPeriod}]
    BY DEF TypeOK
  <1>6. CASE Edit(h)
    BY <1>3, <1>5, <1>6 DEF Edit, Commit, Checked, Redated
  <1>7. CASE Submit(h)
    <2>1. /\ tx[h].op = "submit" /\ details' = [details EXCEPT ![r] = Breakdown(h)]
          /\ period' = period
          /\ status' = [status EXCEPT ![r] = "PENDING"] \/ status' = [status EXCEPT ![r] = "APPROVED"]
      BY <1>7 DEF Submit, Commit, SetStatus
    <2>2. Checked(h) =>
            status[r] = "DRAFT" /\ ~Overlaps(r, period[r]) /\ tx[h].dates = period[r]
      BY <2>1 DEF Checked
    <2> QED
      BY <1>1, <1>3, <1>5, <2>1, <2>2 DEF Submitted, Breakdown
  <1>8. CASE Modify(h)
    BY <1>3, <1>5, <1>8 DEF Modify, Commit, Checked
  <1>9. ASSUME NEW s \in Status \ {"NONE", "DRAFT"}, SetStatus(r, s),
               UNCHANGED <<period, details>>,
               Checked(h) /\ s \in Holding => status[r] \in Holding \/ "reopen" \in Ops \/ Direct
        PROVE  /\ \A q \in Requests \ {r} : status'[q] = status[q] /\ period'[q] = period[q]
                                            /\ details'[q] = details[q]
               /\ Checked(h) => Moved(r)
    BY <1>3, <1>5, <1>9 DEF SetStatus, Moved
  <1>10. CASE Delete(h) \/ Cancel(h) \/ DeclineCondition(h) \/ Reject(h) \/ Revoke(h)
    <2>1. PICK s \in {"DELETED", "CANCELLED", "REJECTED"} :
             SetStatus(r, s) /\ UNCHANGED <<period, details>>
      BY <1>10 DEF Delete, Cancel, DeclineCondition, Reject, Revoke
    <2>2. s \in Status \ {"NONE", "DRAFT"} /\ s \notin Holding
      BY DEF Status, Holding
    <2> QED
      BY <1>3, <1>9, <2>1, <2>2
  <1>11. CASE Approve(h)
    <2>1. /\ tx[h].op = "approve" /\ SetStatus(r, "APPROVED") /\ UNCHANGED <<period, details>>
      BY <1>11 DEF Approve, Commit
    <2>2. Checked(h) => status[r] \in Holding \/ Direct
      BY <2>1 DEF Checked, Holding
    <2> QED
      BY <1>3, <1>9, <2>1, <2>2 DEF Status
  <1>12. CASE ApproveConditional(h)
    <2>1. /\ tx[h].op = "approve_conditional" /\ SetStatus(r, "APPROVED_CONDITIONAL")
          /\ UNCHANGED <<period, details>>
      BY <1>12 DEF ApproveConditional, Commit
    <2>2. Checked(h) => status[r] \in Holding
      BY <2>1 DEF Checked, Holding
    <2> QED
      BY <1>3, <1>9, <2>1, <2>2 DEF Status
  <1>13. CASE AcceptCondition(h)
    <2>1. /\ tx[h].op = "accept" /\ SetStatus(r, "APPROVED") /\ UNCHANGED <<period, details>>
      BY <1>13 DEF AcceptCondition, Commit
    <2>2. Checked(h) => status[r] \in Holding
      BY <2>1 DEF Checked, Holding
    <2> QED
      BY <1>3, <1>9, <2>1, <2>2 DEF Status
  <1>14. CASE Reopen(h)
    <2>1. /\ tx[h].op = "reopen" /\ SetStatus(r, "PENDING") /\ UNCHANGED <<period, details>>
      BY <1>14 DEF Reopen, Commit
    <2>2. Checked(h) => "reopen" \in Ops
      BY <2>1 DEF Checked
    <2> QED
      BY <1>3, <1>9, <2>1, <2>2 DEF Status
  <1>15. CASE Recall(h)
    <2>1. /\ tx[h].op = "recall" /\ SetStatus(r, "RECALLED") /\ UNCHANGED <<period, details>>
      BY <1>15 DEF Recall, Commit
    <2>2. Checked(h) => status[r] \in Holding
      BY <2>1 DEF Checked, Holding
    <2> QED
      BY <1>3, <1>9, <2>1, <2>2 DEF Status
  <1> QED
    BY <1>6, <1>7, <1>8, <1>10, <1>11, <1>12, <1>13, <1>14, <1>15 DEF Write

\* All other steps: rows stay, or one is created.
LEMMA OtherRow ==
    ASSUME TypeOK, Next, ~\E h \in Handlers : Write(h)
    PROVE  \/ UNCHANGED <<status, period, details, refunds, raced>>
           \/ /\ UNCHANGED <<details, refunds, raced>>
              /\ \E r \in Requests : /\ status[r] = "NONE" /\ status'[r] = "DRAFT"
                                     /\ \A q \in Requests \ {r} :
                                          status'[q] = status[q] /\ period'[q] = period[q]
  <1>1. ASSUME NEW r \in Requests, NEW p \in Periods, Create(r, p)
        PROVE  /\ UNCHANGED <<details, refunds, raced>> /\ status[r] = "NONE" /\ status'[r] = "DRAFT"
               /\ \A q \in Requests \ {r} : status'[q] = status[q] /\ period'[q] = period[q]
    BY <1>1 DEF Create, SetStatus, TypeOK, ledger, history
  <1>2. ASSUME NEW h \in Handlers, NEW r \in Requests, Read(h, r)
        PROVE  UNCHANGED <<status, period, details, refunds, raced>>
    BY <1>2, ReadChecked
  <1>3. ASSUME NEW h \in Handlers, RevokeReadsLedger(h) \/ Rollback(h) \/ Midnight
        PROVE  UNCHANGED <<status, period, details, refunds, raced>>
    BY <1>3 DEF RevokeReadsLedger, Rollback, Midnight, row, ledger, history
  <1>4. CASE Midnight
    BY <1>4 DEF Midnight, row, ledger, history
  <1> QED
    BY <1>1, <1>2, <1>3, <1>4 DEF Next

-----------------------------------------------------------------------------
(* Handlers nobody has overtaken stay fresh *)

\* What a commit does to the history.
LEMMA WriteHistory ==
    ASSUME NEW h \in Handlers, Write(h)
    PROVE  /\ stale' = (stale \ {h}) \cup Overtaken(h)
           /\ raced' = IF h \in stale THEN raced \cup {tx[h].req} ELSE raced
  <1>1. \E o \in AllOps : Commit(h, o)
    BY DEF Write, Edit, Delete, Submit, Cancel, Approve, ApproveConditional, AcceptCondition,
           DeclineCondition, Reject, Revoke, Reopen, Recall, Modify, AllOps
  <1> QED
    BY <1>1 DEF Commit

\* A reversal that looked is the first.
LEMMA ReversalOnce ==
    ASSUME TypeOK, NEW r \in Requests, Refunded(r) <= 1,
           \/ UNCHANGED <<deducted, ledger>>
           \/ \E d \in Periods \cup {NoPeriod} : RecordUsage(r, d)
           \/ \E o \in RefundOps, write \in BOOLEAN :
                 ReverseUsage(r, o, write) /\ (write <=> Refundable(r))
    PROVE  Refunded(r)' <= 1
  <1>1. ASSUME refunds' = refunds
        PROVE  Refunded(r)' <= 1
    BY <1>1 DEF Refunded
  <1>2. ASSUME NEW d \in Periods \cup {NoPeriod}, RecordUsage(r, d)
        PROVE  refunds' = refunds
    BY <1>2, RecordUsageFacts
  <1>3. ASSUME NEW o \in RefundOps, NEW write \in BOOLEAN, ReverseUsage(r, o, write),
               write <=> Refundable(r)
        PROVE  Refunded(r)' <= 1
    <2>1. /\ ~write => refunds' = refunds
          /\ write => /\ refunds'[r][o] = refunds[r][o] + 1
                      /\ \A k \in RefundOps \ {o} : refunds'[r][k] = refunds[r][k]
      BY <1>3, ReverseUsageFacts
    <2>2. /\ refunds[r]["cancel"] \in Nat /\ refunds[r]["reject"] \in Nat
          /\ refunds[r]["revoke"] \in Nat
      BY DEF TypeOK, RefundOps
    <2>3. CASE write
      <3>1. Refunded(r) = 0
        BY <1>3, <2>3 DEF Refundable
      <3>2. Refunded(r)' = Refunded(r) + 1
        BY <2>1, <2>2, <2>3 DEF Refunded, RefundOps
      <3> QED
        BY <3>1, <3>2
    <2> QED
      BY <1>1, <2>1, <2>3
  <1> QED
    BY <1>1, <1>2, <1>3 DEF ledger

\* A commit leaves alone what the handlers it does not overtake have read.
LEMMA WriteSpares ==
    ASSUME TypeOK, NEW h \in Handlers, Write(h), NEW k \in Handlers \ {h},
           tx[k] # Idle, k \notin Overtaken(h), Fresh(k)
    PROVE  Fresh(k)'
  <1> SUFFICES ASSUME NEW r, NEW q, r = tx[h].req, q = tx[k].req
               PROVE  Fresh(k)'
    OBVIOUS
  <1>1. /\ tx'[k] = tx[k] /\ tx[k] \in Tx /\ q \in Requests /\ r \in Requests
        /\ \/ UNCHANGED <<deducted, ledger>>
           \/ \E d \in Periods \cup {NoPeriod} : RecordUsage(r, d)
           \/ \E o \in RefundOps, write \in BOOLEAN : ReverseUsage(r, o, write)
    BY WriteLedger DEF TypeOK, Tx
  <1>2. Owner[q] # Owner[r]
    BY <1>1 DEF Overtaken
  <1>3. q # r
    BY <1>2
  <1>4. \A s \in Requests \ {r} : status'[s] = status[s] /\ period'[s] = period[s]
    BY WriteRow
  <1>5. usage'[q] = usage[q] /\ refunds'[q] = refunds[q]
    BY <1>1, <1>3, OtherLedgers
  <1>6. status'[q] = status[q] /\ period'[q] = period[q]
    BY <1>1, <1>3, <1>4
  <1>7. Overlaps(q, period[q])' => Overlaps(q, period[q])
    <2>1. SUFFICES ASSUME NEW s \in Requests \ {q}, Owner[s] = Owner[q], Exists(s)',
                          status'[s] \notin {"REJECTED", "CANCELLED", "DRAFT"},
                          First[period'[s]] <= Last[period'[q]],
                          Last[period'[s]] >= First[period'[q]]
                   PROVE  Overlaps(q, period[q])
      BY DEF Overlaps
    <2>2. s # r
      BY <1>2, <2>1
    <2>3. status'[s] = status[s] /\ period'[s] = period[s]
      BY <1>4, <2>2
    <2> QED
      BY <1>6, <2>1, <2>3 DEF Overlaps, Exists
  <1>9. Checked(k)'
    BY <1>1, <1>6, <1>7 DEF Fresh, Checked, Exists
  <1>10. LedgerRead(k)'
    BY <1>1, <1>5 DEF Fresh, LedgerRead, Refundable, Refunded
  <1> QED
    BY <1>9, <1>10 DEF Fresh

LEMMA WriteFresh ==
    ASSUME FreshInv, NEW h \in Handlers, Write(h)
    PROVE  FreshInv'
  <1> DEFINE r == tx[h].req
  <1>1. IInv /\ TypeOK /\ IInv'
    BY NextInv DEF FreshInv, IInv, Next
  <1>2. /\ tx[h] # Idle /\ r \in Requests /\ tx'[h] = Idle
        /\ \A k \in Handlers \ {h} : tx'[k] = tx[k]
        /\ \/ UNCHANGED <<deducted, ledger>>
           \/ \E d \in Periods \cup {NoPeriod} : RecordUsage(r, d)
           \/ \E o \in RefundOps, write \in BOOLEAN :
                 /\ ReverseUsage(r, o, write)
                 /\ LedgerRead(h) => (write <=> Refundable(r))
    BY <1>1, WriteLedger
  <1>3. /\ stale' = (stale \ {h}) \cup Overtaken(h)
        /\ raced' = IF h \in stale THEN raced \cup {r} ELSE raced
    BY WriteHistory
  <1>4. ASSUME NEW k \in Handlers \ stale', tx'[k] # Idle
        PROVE  Fresh(k)'
    <2>1. k \in Handlers \ {h} /\ tx[k] # Idle /\ k \notin Overtaken(h) /\ k \notin stale
      BY <1>2, <1>3, <1>4
    <2>2. Fresh(k)
      BY <2>1 DEF FreshInv
    <2> QED
      BY <1>1, <2>1, <2>2, WriteSpares
  <1>5. \A q \in Requests \ {r} :
           usage'[q] = usage[q] /\ refunds'[q] = refunds[q] /\ deducted'[q] = deducted[q]
    <2> HIDE DEF r
    <2> QED
      BY <1>1, <1>2, OtherLedgers
  <1>6. ASSUME NEW q \in Requests \ raced'
        PROVE  FlagOf(q)' /\ Refunded(q)' <= 1
    <2>1. q \notin raced /\ FlagOf(q) /\ Refunded(q) <= 1
      BY <1>3, <1>6 DEF FreshInv, UnracedRefundOnce
    <2>2. CASE q = r
      <3>1. h \notin stale
        BY <1>3, <1>6, <2>2
      <3>2. LedgerRead(h)
        BY <1>2, <3>1 DEF FreshInv, Fresh
      <3> HIDE DEF r
      <3> QED
        BY <1>1, <1>2, <2>1, <2>2, <3>2, FlagFollows, ReversalOnce
    <2>3. CASE q # r
      BY <1>5, <2>1, <2>3 DEF FlagOf, Refunded
    <2> QED
      BY <2>2, <2>3
  <1> QED
    BY <1>1, <1>4, <1>6 DEF FreshInv, UnracedRefundOnce

\* Handlers that only read, and steps of the environment.
LEMMA OtherFresh ==
    ASSUME FreshInv, Next, ~\E h \in Handlers : Write(h)
    PROVE  FreshInv'
  <1>1. IInv /\ TypeOK /\ IInv'
    BY NextInv DEF FreshInv, IInv
  <1>2. ASSUME UNCHANGED <<deducted, usage, refunds, raced>>,
               \A k \in Handlers \ stale' : tx'[k] # Idle => Fresh(k)'
        PROVE  FreshInv'
    BY <1>1, <1>2 DEF FreshInv, UnracedRefundOnce, FlagOf, Refunded
  <1>3. ASSUME NEW r \in Requests, NEW p \in Periods, Create(r, p)
        PROVE  FreshInv'
    <2>1. UNCHANGED <<deducted, usage, refunds, tx, stale, raced>>
      BY <1>3 DEF Create, ledger, history
    <2>2. ASSUME NEW k \in Handlers \ stale, tx[k] # Idle
          PROVE  Fresh(k)'
      <3>1. Checked(k) /\ LedgerRead(k)
        BY <2>2 DEF FreshInv, Fresh
      <3>2. Checked(k)'
        BY <1>1, <1>3, <2>2, <3>1, CreateChecked
      <3> QED
        BY <2>1, <3>1, <3>2 DEF Fresh, LedgerRead, Refundable, Refunded
    <2> QED
      BY <1>2, <2>1, <2>2
  <1>4. ASSUME NEW h \in Handlers, NEW r \in Requests, Read(h, r)
        PROVE  FreshInv'
    <2>1. /\ Fresh(h)' /\ \A k \in Handlers \ {h} : tx'[k] = tx[k]
          /\ UNCHANGED <<status, period, details, deducted, usage, refunds, stale, raced>>
      BY <1>1, <1>4, ReadChecked
    <2>2. ASSUME NEW k \in Handlers \ stale, tx'[k] # Idle, k # h
          PROVE  Fresh(k)'
      <3>1. Fresh(k) /\ tx'[k] = tx[k]
        BY <2>1, <2>2 DEF FreshInv
      <3> QED
        BY <2>1, <3>1 DEF Fresh, LedgerRead, Refundable, Refunded, Checked, Exists, Overlaps
    <2> QED
      BY <1>2, <2>1, <2>2
  <1>5. ASSUME NEW h \in Handlers, RevokeReadsLedger(h)
        PROVE  FreshInv'
    <2> DEFINE answer == IF Refundable(tx[h].req) THEN "yes" ELSE "no"
    <2>1. /\ tx[h] \in Tx /\ tx[h] # Idle /\ tx[h].op = "revoke"
          /\ tx' = [tx EXCEPT ![h] = [tx[h] EXCEPT !.refund = answer]]
          /\ UNCHANGED <<status, period, deducted, usage, refunds, stale, raced>>
      BY <1>1, <1>5 DEF RevokeReadsLedger, TypeOK, Idle, row, ledger, history
    <2>2. /\ tx'[h].op = tx[h].op /\ tx'[h].req = tx[h].req /\ tx'[h].seen = tx[h].seen
          /\ tx'[h].dates = tx[h].dates /\ tx'[h].refund = answer
          /\ \A k \in Handlers \ {h} : tx'[k] = tx[k]
      <3> HIDE DEF answer
      <3> QED
        BY <1>1, <2>1 DEF TypeOK, Tx
    <2>3. ASSUME NEW k \in Handlers \ stale, tx'[k] # Idle, k # h
          PROVE  Fresh(k)'
      <3>1. Fresh(k) /\ tx'[k] = tx[k]
        BY <2>2, <2>3 DEF FreshInv
      <3> QED
        BY <2>1, <3>1 DEF Fresh, LedgerRead, Refundable, Refunded, Checked, Exists, Overlaps
    <2>4. ASSUME h \notin stale
          PROVE  Fresh(h)'
      <3>1. Checked(h)
        BY <2>1, <2>4 DEF FreshInv, Fresh
      <3>2. Checked(h)'
        BY <2>1, <2>2, <3>1 DEF Checked, Exists, Overlaps
      <3>3. LedgerRead(h)'
        BY <2>1, <2>2 DEF LedgerRead, Refundable, Refunded
      <3> QED
        BY <3>2, <3>3 DEF Fresh
    <2> QED
      BY <1>2, <2>1, <2>3, <2>4
  <1>6. ASSUME NEW h \in Handlers, Rollback(h)
        PROVE  FreshInv'
    <2>1. /\ tx' = [tx EXCEPT ![h] = Idle] /\ stale' = stale \ {h}
          /\ UNCHANGED <<status, period, details, deducted, usage, refunds, raced>>
      BY <1>6 DEF Rollback, row, ledger
    <2>2. tx'[h] = Idle /\ \A k \in Handlers \ {h} : tx'[k] = tx[k]
      BY <1>1, <2>1 DEF TypeOK
    <2>3. ASSUME NEW k \in Handlers \ stale', tx'[k] # Idle
          PROVE  Fresh(k)'
      <3>1. k # h /\ tx'[k] = tx[k] /\ k \notin stale
        BY <2>1, <2>2, <2>3
      <3>2. Fresh(k)
        BY <2>3, <3>1 DEF FreshInv
      <3> QED
        BY <2>1, <3>1, <3>2 DEF Fresh, LedgerRead, Refundable, Refunded, Checked, Exists, Overlaps
    <2> QED
      BY <1>2, <2>1, <2>3
  <1>7. CASE Midnight
    <2>1. UNCHANGED <<status, period, deducted, usage, refunds, tx, stale, raced>>
      BY <1>7 DEF Midnight, row, ledger, history
    <2>2. ASSUME NEW k \in Handlers \ stale, tx[k] # Idle
          PROVE  Fresh(k)'
      <3>1. Fresh(k)
        BY <2>2 DEF FreshInv
      <3> QED
        BY <2>1, <3>1 DEF Fresh, LedgerRead, Refundable, Refunded, Checked, Exists, Overlaps
    <2> QED
      BY <1>2, <2>1, <2>2
  <1> QED
    BY <1>3, <1>4, <1>5, <1>6, <1>7 DEF Next

LEMMA InitFresh == Init => FreshInv
  <1> SUFFICES ASSUME Init  PROVE  FreshInv
    OBVIOUS
  <1>1. \A r \in Requests : usage[r] = 0 /\ Refunded(r) = 0
    BY DEF Init, Refunded, RefundOps
  <1>2. \A h \in Handlers : tx[h] = Idle
    BY DEF Init
  <1> QED
    BY <1>1, <1>2, InitInv DEF FreshInv, FlagOf, UnracedRefundOnce

LEMMA NextFresh == FreshInv /\ [Next]_vars => FreshInv'
  <1> SUFFICES ASSUME FreshInv, [Next]_vars  PROVE  FreshInv'
    OBVIOUS
  <1>1. CASE UNCHANGED vars
    <2>1. IInv'
      BY <1>1, NextInv DEF FreshInv
    <2> QED
      BY <1>1, <2>1 DEF vars, FreshInv, FlagOf, UnracedRefundOnce, Fresh, LedgerRead,
             Refundable, Refunded, Checked, Exists, Overlaps
  <1> QED
    BY <1>1, WriteFresh, OtherFresh

LEMMA FreshInvariance == Spec => []FreshInv
  BY InitFresh, NextFresh, PTL DEF Spec

-----------------------------------------------------------------------------
(* What follows *)

\* A request is paid back once, unless a handler wrote it on a stale read: of two
\* withdrawals that both pay, one had been overtaken by the other.
THEOREM RefundsPayOnce == Spec => []UnracedRefundOnce
  <1>1. FreshInv => UnracedRefundOnce
    BY DEF FreshInv
  <1> QED
    BY <1>1, FreshInvariance, PTL

\* balance_deducted tells the truth: where it is cleared on a charged request, the usage has
\* been reversed, unless a handler wrote the request on a stale read.
THEOREM FlagTellsTheLedger == Spec => []FlagMatchesLedger
  <1>1. FreshInv => FlagMatchesLedger
    BY DEF FreshInv, FlagOf, FlagMatchesLedger
  <1> QED
    BY <1>1, FreshInvariance, PTL

(* The ledger implements LeaveCharge. *)

account == [r \in Requests |-> Account(r)]

\* Ledger and history as they were: a stutter of the accounts.
LEMMA AccountStutter ==
    ASSUME usage' = usage, refunds' = refunds, raced' = raced
    PROVE  account' = account
  BY DEF account, Account, Refunded

\* A step that changes the account of one request to s.
LEMMA AccountSet ==
    ASSUME NEW r \in Requests, NEW s, Account(r)' = s,
           \A q \in Requests \ {r} : Account(q)' = Account(q)
    PROVE  account' = [account EXCEPT ![r] = s] /\ account[r] = Account(r)
  BY DEF account

\* Recording usage charges an uncharged account, or stutters.
LEMMA AccountCharge ==
    ASSUME IInv, NEW r \in Requests, r \notin raced, raced' = raced,
           NEW d \in Periods \cup {NoPeriod}, RecordUsage(r, d)
    PROVE  Ledger!Charge(r) \/ account' = account
  <1>1. TypeOK
    BY DEF IInv
  <1>2. /\ refunds' = refunds
        /\ \A q \in Requests \ {r} : usage'[q] = usage[q]
        /\ usage' = usage \/ (usage[r] = 0 /\ usage'[r] = 1)
    BY <1>1, RecordUsageFacts
  <1>3. CASE usage' = usage
    BY <1>2, <1>3, AccountStutter
  <1>4. CASE usage[r] = 0 /\ usage'[r] = 1
    <2>1. Refunded(r) \in Nat
      BY <1>1 DEF TypeOK, RefundOps, Refunded
    <2>2. Refunded(r) = 0 /\ Refunded(r)' = 0
      BY <1>2, <1>4, <2>1 DEF IInv, RefundAnswersCharge, Refunded
    <2>3. Account(r) = "uncharged" /\ Account(r)' = "charged"
      BY <1>4, <2>2 DEF Account
    <2>4. \A q \in Requests \ {r} : Account(q)' = Account(q)
      BY <1>2 DEF Account, Refunded
    <2> QED
      BY <2>3, <2>4, AccountSet DEF Ledger!Charge, account
  <1> QED
    BY <1>2, <1>3, <1>4

\* A reversal that looked refunds a charged account, or stutters.
LEMMA AccountRefund ==
    ASSUME IInv, NEW r \in Requests, r \notin raced, raced' = raced,
           NEW o \in RefundOps, NEW write \in BOOLEAN,
           ReverseUsage(r, o, write), write <=> Refundable(r)
    PROVE  Ledger!Refund(r) \/ account' = account
  <1>1. TypeOK
    BY DEF IInv
  <1>2. /\ usage' = usage
        /\ \A q \in Requests \ {r} : refunds'[q] = refunds[q]
        /\ ~write => refunds' = refunds
        /\ write => /\ refunds'[r][o] = refunds[r][o] + 1
                    /\ \A k \in RefundOps \ {o} : refunds'[r][k] = refunds[r][k]
    BY <1>1, ReverseUsageFacts
  <1>3. CASE ~write
    BY <1>2, <1>3, AccountStutter
  <1>4. CASE write
    <2>1. usage[r] = 1 /\ Refunded(r) = 0
      BY <1>1, <1>4 DEF Refundable, IInv, UsageOnce, TypeOK
    <2>2. /\ refunds[r]["cancel"] \in Nat /\ refunds[r]["reject"] \in Nat
          /\ refunds[r]["revoke"] \in Nat
      BY <1>1 DEF TypeOK, RefundOps
    <2>3. Refunded(r)' = 1
      <3>1. Refunded(r)' = Refunded(r) + 1
        BY <1>2, <1>4, <2>2 DEF Refunded, RefundOps
      <3> QED
        BY <2>1, <3>1
    <2>4. Account(r) = "charged" /\ Account(r)' = "refunded"
      BY <1>2, <2>1, <2>3 DEF Account
    <2>5. \A q \in Requests \ {r} : Account(q)' = Account(q)
      BY <1>2 DEF Account, Refunded
    <2> QED
      BY <2>4, <2>5, AccountSet DEF Ledger!Refund, account
  <1> QED
    BY <1>3, <1>4

\* Every commit is a step of the account of its request: a dispute when it had been
\* overtaken.
LEMMA AccountWrite ==
    ASSUME FreshInv, NEW h \in Handlers, Write(h)
    PROVE  [Ledger!Next]_account
  <1> SUFFICES ASSUME NEW r, r = tx[h].req  PROVE [Ledger!Next]_account
    OBVIOUS
  <1>1. IInv /\ TypeOK
    BY DEF FreshInv, IInv
  <1>2. /\ tx[h] # Idle /\ r \in Requests
        /\ \/ UNCHANGED <<deducted, ledger>>
           \/ \E d \in Periods \cup {NoPeriod} : RecordUsage(r, d)
           \/ \E o \in RefundOps, write \in BOOLEAN :
                 /\ ReverseUsage(r, o, write)
                 /\ LedgerRead(h) => (write <=> Refundable(r))
    BY <1>1, WriteLedger
  <1>3. raced' = IF h \in stale THEN raced \cup {r} ELSE raced
    BY WriteHistory
  <1>4. \A q \in Requests \ {r} : Account(q)' = Account(q)
    <2>1. \A q \in Requests \ {r} : usage'[q] = usage[q] /\ refunds'[q] = refunds[q]
      BY <1>1, <1>2, OtherLedgers
    <2> QED
      BY <1>3, <2>1 DEF Account, Refunded
  <1>5. CASE r \in raced
    <2>1. Account(r) = "disputed" /\ Account(r)' = "disputed"
      BY <1>3, <1>5 DEF Account
    <2> QED
      BY <1>4, <2>1 DEF account
  <1>6. CASE r \notin raced /\ h \in stale
    <2>1. Account(r)' = "disputed" /\ Account(r) # "disputed"
      BY <1>3, <1>6 DEF Account
    <2>2. Ledger!Dispute(r)
      BY <1>2, <1>4, <2>1, AccountSet DEF Ledger!Dispute, account
    <2> QED
      BY <1>2, <2>2 DEF Ledger!Next
  <1>7. CASE r \notin raced /\ h \notin stale
    <2>1. LedgerRead(h) /\ raced' = raced
      BY <1>2, <1>3, <1>7 DEF FreshInv, Fresh
    <2>2. ASSUME UNCHANGED <<deducted, ledger>>
          PROVE  account' = account
      BY <2>1, <2>2, AccountStutter DEF ledger
    <2>3. ASSUME NEW d \in Periods \cup {NoPeriod}, RecordUsage(r, d)
          PROVE  Ledger!Charge(r) \/ account' = account
      BY <1>1, <1>2, <1>7, <2>1, <2>3, AccountCharge
    <2>4. ASSUME NEW o \in RefundOps, NEW write \in BOOLEAN, ReverseUsage(r, o, write),
                 write <=> Refundable(r)
          PROVE  Ledger!Refund(r) \/ account' = account
      BY <1>1, <1>2, <1>7, <2>1, <2>4, AccountRefund
    <2>5. Ledger!Charge(r) \/ Ledger!Refund(r) \/ account' = account
      BY <1>2, <2>1, <2>2, <2>3, <2>4
    <2> QED
      BY <1>2, <2>5 DEF Ledger!Next
  <1> QED
    BY <1>5, <1>6, <1>7

\* The other steps leave ledger and history alone.
LEMMA AccountStep ==
    ASSUME FreshInv, [Next]_vars
    PROVE  [Ledger!Next]_account
  <1>1. CASE \E h \in Handlers : Write(h)
    BY <1>1, AccountWrite
  <1>2. CASE ~\E h \in Handlers : Write(h)
    <2>1. TypeOK
      BY DEF FreshInv, IInv
    <2>2. ASSUME NEW h \in Handlers, NEW r \in Requests, Read(h, r)
          PROVE  usage' = usage /\ refunds' = refunds /\ raced' = raced
      BY <2>1, <2>2, ReadChecked DEF FreshInv
    <2>3. usage' = usage /\ refunds' = refunds /\ raced' = raced
      BY <1>2, <2>2 DEF Next, vars, Create, RevokeReadsLedger, Rollback, Midnight, ledger, history
    <2> QED
      BY <2>3, AccountStutter
  <1> QED
    BY <1>1, <1>2

\* The time ledger keeps one account per request, charged once and then refunded once; of a
\* request written on a stale read it promises nothing.
THEOREM LedgerImplementsAccounts == Spec => LedgerKeepsAccounts
  <1>1. Init => Ledger!Init
    <2> SUFFICES ASSUME Init  PROVE  Ledger!Init
      OBVIOUS
    <2>1. \A r \in Requests : usage[r] = 0 /\ Refunded(r) = 0 /\ r \notin raced
      BY DEF Init, Refunded, RefundOps
    <2>2. account = [r \in Requests |-> "uncharged"]
      BY <2>1 DEF account, Account
    <2> QED
      BY <2>2 DEF Ledger!Init, account
  <1>2. FreshInv /\ [Next]_vars => [Ledger!Next]_account
    BY AccountStep
  <1> QED
    BY <1>1, <1>2, FreshInvariance, PTL DEF Spec, LedgerKeepsAccounts, Ledger!Spec, account

LEMMA BreakdownStep ==
    ASSUME "modify" \notin Ops, FreshInv, BreakdownInv, [Next]_vars
    PROVE  BreakdownInv'
  <1>1. TypeOK /\ NoPeriod \notin Periods
    BY ConfigAssumption DEF FreshInv, IInv
  <1>2. ASSUME NEW h \in Handlers, Write(h)
        PROVE  BreakdownInv'
    <2> DEFINE r == tx[h].req
    <2>1. SUFFICES ASSUME NEW q \in Requests \ raced', details'[q] # NoPeriod
                   PROVE  details'[q] = period'[q] /\ status'[q] \notin {"NONE", "DRAFT"}
      BY DEF BreakdownInv
    <2>2. raced' = IF h \in stale THEN raced \cup {r} ELSE raced
      BY <1>2, WriteHistory
    <2>3. details[q] # NoPeriod => details[q] = period[q] /\ status[q] \notin {"NONE", "DRAFT"}
      BY <2>1, <2>2 DEF BreakdownInv
    <2>4. /\ \A s \in Requests \ {r} :
                status'[s] = status[s] /\ period'[s] = period[s] /\ details'[s] = details[s]
          /\ Checked(h) => Redated(r) \/ Submitted(r) \/ Moved(r)
      BY <1>1, <1>2, WriteRow
    <2>5. CASE q = r
      <3>1. h \notin stale /\ tx[h] # Idle
        BY <1>1, <1>2, <2>1, <2>2, <2>5, WriteLedger
      <3>2. Checked(h)
        BY <3>1 DEF FreshInv, Fresh
      <3> QED
        BY <1>1, <2>1, <2>3, <2>4, <2>5, <3>2 DEF Redated, Submitted, Moved
    <2> QED
      BY <2>1, <2>3, <2>4, <2>5
  <1>3. CASE Next /\ ~\E h \in Handlers : Write(h)
    BY <1>1, <1>3, OtherRow DEF BreakdownInv
  <1>4. CASE UNCHANGED vars
    BY <1>4 DEF vars, BreakdownInv
  <1> QED
    BY <1>2, <1>3, <1>4

\* Without modifications of approved requests, the breakdown a request was charged for is
\* that of its dates, unless an edit or a submission of it was overtaken.
THEOREM ChargesAreForTheDates ==
    ASSUME "modify" \notin Ops
    PROVE  Spec => []ChargedForItsDates
  <1>1. Init => FreshInv /\ BreakdownInv
    BY InitFresh DEF Init, BreakdownInv
  <1>2. FreshInv /\ BreakdownInv /\ [Next]_vars => (FreshInv /\ BreakdownInv)'
    BY NextFresh, BreakdownStep
  <1>3. BreakdownInv => ChargedForItsDates
    BY DEF BreakdownInv, ChargedForItsDates
  <1> QED
    BY <1>1, <1>2, <1>3, PTL DEF Spec

\* Submission looks for an overlap; all other steps to a status that holds dates come from
\* one.
LEMMA BookingStep ==
    ASSUME {"modify", "reopen"} \cap Ops = {}, ~Direct, FreshInv, NoDoubleBooking, [Next]_vars
    PROVE  NoDoubleBooking'
  <1>1. TypeOK
    BY DEF FreshInv, IInv
  <1>2. ASSUME NEW h \in Handlers, Write(h)
        PROVE  NoDoubleBooking'
    <2> DEFINE r == tx[h].req
    <2>1. /\ r \in Requests /\ Exists(r) /\ tx[h] # Idle
          /\ \A q \in Requests \ {r} : status'[q] = status[q] /\ period'[q] = period[q]
          /\ Checked(h) => Redated(r) \/ Submitted(r) \/ Moved(r)
      BY <1>1, <1>2, WriteRow, WriteLedger
    <2>h. raced' = IF h \in stale THEN raced \cup {r} ELSE raced
      BY <1>2, WriteHistory
    <2>c. h \notin stale => Checked(h)
      BY <2>1 DEF FreshInv, Fresh
    <2> HIDE DEF r
    <2>2. SUFFICES ASSUME NEW p \in Requests \ raced', NEW q \in Requests \ raced', p # q,
                          Owner[p] = Owner[q],
                          status'[p] \in Holding, status'[q] \in Holding
                   PROVE  Last[period'[p]] < First[period'[q]] \/ Last[period'[q]] < First[period'[p]]
      BY DEF NoDoubleBooking, Holding
    <2>3. \A a \in Periods : First[a] \in Int /\ Last[a] \in Int
      BY ConfigAssumption
    <2>4. status[p] \in Holding /\ status[q] \in Holding =>
            Last[period[p]] < First[period[q]] \/ Last[period[q]] < First[period[p]]
      BY <2>2, <2>h DEF NoDoubleBooking, Holding
    <2>5. CASE r \notin {p, q}
      BY <2>1, <2>2, <2>4, <2>5
    <2>6. CASE r \in {p, q}
      <3>0. Redated(r) \/ Submitted(r) \/ Moved(r)
        BY <2>1, <2>2, <2>6, <2>h, <2>c
      <3>1. CASE Redated(r)
        BY <2>2, <2>6, <3>1 DEF Redated, Holding
      <3>2. CASE Moved(r)
        BY <2>1, <2>2, <2>4, <2>6, <3>2 DEF Moved
      <3>3. CASE Submitted(r)
        <4>1. ASSUME NEW s \in Requests \ {r}, Owner[s] = Owner[r], status[s] \in Holding
              PROVE  ~(First[period[s]] <= Last[period[r]] /\ Last[period[s]] >= First[period[r]])
          BY <2>1, <3>3, <4>1 DEF Submitted, Overlaps, Exists, Holding
        <4>2. period[p] \in Periods /\ period[q] \in Periods /\ period[r] \in Periods
          BY <1>1, <2>1 DEF TypeOK
        <4>3. period'[r] = period[r]
          BY <3>3 DEF Submitted
        <4>4. CASE p = r
          BY <2>1, <2>2, <2>3, <4>1, <4>2, <4>3, <4>4
        <4>5. CASE q = r
          BY <2>1, <2>2, <2>3, <4>1, <4>2, <4>3, <4>5
        <4> QED
          BY <2>6, <4>4, <4>5
      <3> QED
        BY <3>0, <3>1, <3>2, <3>3
    <2> QED
      BY <2>5, <2>6
  <1>3. CASE Next /\ ~\E h \in Handlers : Write(h)
    BY <1>1, <1>3, OtherRow DEF NoDoubleBooking
  <1>4. CASE UNCHANGED vars
    BY <1>4 DEF vars, NoDoubleBooking
  <1> QED
    BY <1>2, <1>3, <1>4

\* With callbacks only, and nothing reopened or modified, no day of a user is booked twice,
\* unless one of the two requests was written by a handler that another of this user's had
\* overtaken.
THEOREM DaysAreBookedOnce ==
    ASSUME {"modify", "reopen"} \cap Ops = {}, ~Direct
    PROVE  Spec => []NoDoubleBooking
  <1>1. Init => FreshInv /\ NoDoubleBooking
    BY InitFresh DEF Init, NoDoubleBooking
  <1>2. FreshInv /\ NoDoubleBooking /\ [Next]_vars => (FreshInv /\ NoDoubleBooking)'
    BY NextFresh, BookingStep
  <1> QED
    BY <1>1, <1>2, PTL DEF Spec

LEMMA WithdrawalStep ==
    ASSUME FreshInv, [Next]_vars, NEW r \in Requests, status[r] = "APPROVED",
           status'[r] \in {"REJECTED", "CANCELLED"}, usage[r] > 0, r \notin raced'
    PROVE  Refunded(r)' > 0
  <1>1. TypeOK
    BY DEF FreshInv, IInv
  <1>2. CASE UNCHANGED vars \/ (Next /\ ~\E h \in Handlers : Write(h))
    BY <1>1, <1>2, OtherRow DEF vars
  <1>3. ASSUME NEW h \in Handlers, Write(h)
        PROVE  Refunded(r)' > 0
    <2>1. tx[h].req = r
      BY <1>1, <1>3, WriteRow
    <2>2. \E o \in AllOps : Commit(h, o)
      BY <1>3 DEF Write, Edit, Delete, Submit, Cancel, Approve, ApproveConditional, AcceptCondition,
             DeclineCondition, Reject, Revoke, Reopen, Recall, Modify, AllOps
    <2>3. tx[h] # Idle
      BY <2>2 DEF Commit, Idle, AllOps
    <2>f. h \notin stale /\ r \notin raced
      BY <1>3, <2>1, WriteHistory
    <2>4. Checked(h) /\ LedgerRead(h) /\ FlagOf(r) /\ tx[h].seen = "APPROVED"
      BY <2>1, <2>3, <2>f DEF FreshInv, Fresh, Checked
    <2>5. ASSUME NEW s \in Status \ {"REJECTED", "CANCELLED"}, SetStatus(r, s) \/ status' = status
          PROVE  FALSE
      BY <1>1, <2>5 DEF SetStatus, TypeOK
    <2>6. ~(Edit(h) \/ Delete(h) \/ Submit(h) \/ Approve(h) \/ ApproveConditional(h)
            \/ AcceptCondition(h) \/ Reopen(h) \/ Recall(h) \/ Modify(h))
      BY <2>1, <2>5 DEF Edit, Delete, Submit, Approve, ApproveConditional, AcceptCondition,
                      Reopen, Recall, Modify, Status
    <2>7. ~DeclineCondition(h)
      BY <2>4 DEF DeclineCondition, Commit, Checked
    <2>8. Refundable(r) \in BOOLEAN
      BY DEF Refundable
    <2>9. CASE Cancel(h)
      <3>1. CASE deducted[r]
        <4>1. ReverseUsage(r, "cancel", Refundable(r))
          BY <2>1, <2>4, <2>9, <3>1 DEF Cancel
        <4> QED
          BY <1>1, <2>8, <4>1, ReversalRefunds DEF RefundOps
      <3>2. CASE ~deducted[r]
        <4>1. refunds' = refunds
          BY <2>1, <2>9, <3>2 DEF Cancel, ledger
        <4> QED
          BY <2>4, <3>2, <4>1 DEF FlagOf, Refunded
      <3> QED
        BY <3>1, <3>2
    <2>10. CASE Reject(h)
      <3>1. ReverseUsage(r, "reject", Refundable(r))
        BY <2>1, <2>4, <2>10 DEF Reject
      <3> QED
        BY <1>1, <2>8, <3>1, ReversalRefunds DEF RefundOps
    <2>11. CASE Revoke(h)
      <3>1. tx[h].refund # "unread" /\ ReverseUsage(r, "revoke", tx[h].refund = "yes")
        BY <2>1, <2>4, <2>11 DEF Revoke
      <3>2. tx[h].refund = "yes" <=> Refundable(r)
        BY <2>1, <2>4, <3>1 DEF LedgerRead
      <3> QED
        BY <1>1, <3>1, <3>2, ReversalRefunds DEF RefundOps
    <2> QED
      BY <1>3, <2>6, <2>7, <2>9, <2>10, <2>11 DEF Write
  <1> QED
    BY <1>2, <1>3

\* An approval that is withdrawn returns what it had charged, unless a handler wrote the
\* request on a stale read.
THEOREM WithdrawalsRefund == Spec => WithdrawalRefunds
  <1>1. FreshInv /\ [Next]_vars =>
          [\A r \in Requests :
            status[r] = "APPROVED" /\ status'[r] \in {"REJECTED", "CANCELLED"}
            /\ usage[r] > 0 /\ r \notin raced'
              => Refunded(r)' > 0]_vars
    BY WithdrawalStep
  <1> QED
    BY <1>1, FreshInvariance, PTL DEF Spec, WithdrawalRefunds
=============================================================================
