------------------------ MODULE ApprovalSync_proofs ------------------------
(***************************************************************************)
(* Proofs about ApprovalSync, for any number of leaves, handlers, approval *)
(* requests and callbacks under way.                                       *)
(***************************************************************************)
EXTENDS ApprovalSync, LeaveWorkflow_proofs, SequenceTheorems

-----------------------------------------------------------------------------
(* Every step of the composition is a step of LeaveWorkflow, or leaves it alone. *)

\* What a callback starts is one of the reads of the workflow.
LEMMA DecisionReads ==
    ASSUME NEW h \in Handlers, NEW c, c.req \in Requests, ReadDecision(h, c)
    PROVE  Read(h, c.req)
  BY DEF ReadDecision, Read

LEMMA LocalSteps ==
    ASSUME Local
    PROVE  Next
  <1>1. ASSUME NEW h \in Handlers, NEW r \in Requests, ClientRead(h, r)
        PROVE  Read(h, r)
    BY <1>1 DEF ClientRead, Read
  <1> QED
    BY <1>1 DEF Local, Next

LEMMA SyncSteps ==
    ASSUME SyncTypeOK, [SyncNext]_syncVars
    PROVE  [Next]_vars
  <1>1. CASE Local
    BY <1>1, LocalSteps
  <1>2. ASSUME NEW h \in Handlers, PostCreate(h) \/ CreateApproval(h)
        PROVE  UNCHANGED vars
    BY <1>2 DEF PostCreate, CreateApproval
  <1>3. ASSUME NEW h \in Handlers, CommitSubmission(h)
        PROVE  Next
    BY <1>3 DEF CommitSubmission, Next, Write
  <1>4. ASSUME NEW h \in Handlers, AbandonSubmission(h)
        PROVE  Next
    BY <1>4 DEF AbandonSubmission, Next
  <1>5. ASSUME NEW h \in Handlers, NEW c \in callbacks, Deliver(h, c)
        PROVE  Next
    <2>1. c.req \in Requests
      BY DEF SyncTypeOK, Callback
    <2>2. Read(h, c.req)
      BY <1>5, <2>1, DecisionReads DEF Deliver
    <2> QED
      BY <2>1, <2>2 DEF Next
  <1>6. ASSUME NEW c \in callbacks, Ignore(c) \/ Lose(c)
        PROVE  UNCHANGED vars
    BY <1>6 DEF Ignore, Lose
  <1>7. ASSUME NEW r \in Requests, LateCreate(r)
        PROVE  UNCHANGED vars
    BY <1>7 DEF LateCreate
  <1>8. ASSUME NEW r \in Requests, NEW n \in DOMAIN approvals[r],
               \/ \E d \in Answers : TakeDecision(r, n, d)
               \/ CommitDecision(r, n) \/ AbortDecision(r, n)
        PROVE  UNCHANGED vars
    BY <1>8 DEF TakeDecision, CommitDecision, AbortDecision
  <1>9. CASE UNCHANGED syncVars
    BY <1>9 DEF syncVars
  <1> QED
    BY <1>1, <1>2, <1>3, <1>4, <1>5, <1>6, <1>7, <1>8, <1>9 DEF SyncNext

-----------------------------------------------------------------------------
(* What a commit does to status and usage. *)

Granted == {"APPROVED", "APPROVED_CONDITIONAL"}
Granting == {"approve", "approve_conditional", "accept"}

LEMMA WriteEffect ==
    ASSUME TypeOK, NEW h \in Handlers, Write(h)
    PROVE  LET r == tx[h].req IN
           /\ tx[h] # Idle /\ r \in Requests /\ tx[h].op \in AllOps
           /\ tx'[h] = Idle /\ \A k \in Handlers \ {h} : tx'[k] = tx[k]
           /\ \A q \in Requests \ {r} : status'[q] = status[q] /\ usage'[q] = usage[q]
           /\ status'[r] = "PENDING" =>
                 \/ status[r] = "PENDING" \/ tx[h].op = "reopen"
                 \/ tx[h].op = "submit" /\ r \in RequiresApproval
           /\ status'[r] \in Granted \/ usage'[r] > 0 =>
                 \/ status[r] \in Granted \/ usage[r] > 0 \/ tx[h].op \in Granting
                 \/ r \notin RequiresApproval
  <1> DEFINE r == tx[h].req
  <1>1. PICK o \in AllOps : Commit(h, o)
    BY DEF Write, Edit, Delete, Submit, Cancel, Approve, ApproveConditional, AcceptCondition,
           DeclineCondition, Reject, Revoke, Reopen, Recall, Modify, AllOps
  <1>2. /\ tx[h] # Idle /\ r \in Requests /\ tx[h].op = o
        /\ tx[h].dates \in Periods
        /\ tx'[h] = Idle /\ \A k \in Handlers \ {h} : tx'[k] = tx[k]
    <2>1. tx[h].op = o
      BY <1>1 DEF Commit
    <2>2. tx[h] # Idle
      BY <2>1 DEF Idle, AllOps
    <2> QED
      BY <1>1, <2>1, <2>2, CommitFacts
  <1>3. /\ status \in [Requests -> Status] /\ usage \in [Requests -> Nat]
        /\ details[r] \in Periods \cup {NoPeriod}
    BY <1>2 DEF TypeOK
  <1>4. CASE Edit(h) \/ Delete(h) \/ Recall(h) \/ Modify(h) \/ DeclineCondition(h)
    <2>1. usage' = usage
      BY <1>4 DEF Edit, Delete, Recall, Modify, DeclineCondition, ledger
    <2>2. \/ status' = status
          \/ \E s \in {"DELETED", "RECALLED", "CANCELLED"} : status' = [status EXCEPT ![r] = s]
      BY <1>4 DEF Edit, Delete, Recall, Modify, DeclineCondition, SetStatus
    <2> QED
      BY <1>2, <1>3, <2>1, <2>2 DEF Granted
  <1>5. CASE Cancel(h) \/ Reject(h) \/ Revoke(h)
    <2>1. usage' = usage
      BY <1>5 DEF Cancel, Reject, Revoke, ReverseUsage, ledger
    <2>2. \E s \in {"CANCELLED", "REJECTED"} : status' = [status EXCEPT ![r] = s]
      BY <1>5 DEF Cancel, Reject, Revoke, SetStatus
    <2> QED
      BY <1>2, <1>3, <2>1, <2>2 DEF Granted
  <1>6. CASE Reopen(h)
    BY <1>2, <1>3, <1>6 DEF Reopen, Commit, SetStatus, ledger, Granted
  <1>7. CASE ApproveConditional(h)
    BY <1>2, <1>3, <1>7 DEF ApproveConditional, Commit, SetStatus, ledger, Granting
  <1>8. CASE Approve(h) \/ AcceptCondition(h)
    <2>1. tx[h].op \in Granting /\ status' = [status EXCEPT ![r] = "APPROVED"]
      BY <1>8 DEF Approve, AcceptCondition, Commit, SetStatus, Granting
    <2>2. \A q \in Requests \ {r} : usage'[q] = usage[q]
      BY <1>2, <1>3, <1>8, RecordUsageFacts DEF Approve, AcceptCondition
    <2> QED
      BY <1>2, <1>3, <2>1, <2>2
  <1>9. CASE Submit(h)
    <2>1. Breakdown(h) \in Periods \cup {NoPeriod} /\ tx[h].op = "submit"
      BY <1>2, <1>9 DEF Breakdown, Submit, Commit
    <2>2. CASE r \in RequiresApproval
      <3>1. status' = [status EXCEPT ![r] = "PENDING"] /\ usage' = usage
        BY <1>9, <2>2 DEF Submit, SetStatus, ledger
      <3> QED
        BY <1>2, <1>3, <2>1, <2>2, <3>1 DEF Granted
    <2>3. CASE r \notin RequiresApproval
      <3>1. status' = [status EXCEPT ![r] = "APPROVED"] /\ RecordUsage(r, Breakdown(h))
        BY <1>9, <2>3 DEF Submit, SetStatus
      <3>2. \A q \in Requests \ {r} : usage'[q] = usage[q]
        BY <1>2, <2>1, <3>1, RecordUsageFacts
      <3> QED
        BY <1>2, <1>3, <2>3, <3>1, <3>2
    <2> QED
      BY <2>2, <2>3
  <1> QED
    BY <1>4, <1>5, <1>6, <1>7, <1>8, <1>9 DEF Write

-----------------------------------------------------------------------------
(* Types, and the handlers that wait for the answer to a POST. *)

\* Only a running submission waits for a POST.
PostsAreSubmissions ==
    \A h \in Handlers : creating[h] # "no" => tx[h] # Idle /\ tx[h].op = "submit"

SInv == IInv /\ SyncTypeOK /\ PostsAreSubmissions

\* What a client opens is neither a decision, nor an acceptance without an offer.
LEMMA ClientOpens ==
    ASSUME TypeOK, NEW h \in Handlers, NEW r \in Requests, ClientRead(h, r)
    PROVE  \E o \in AllOps, p \in Periods :
              /\ Open(h, o, r, p) /\ o \in Ops
              /\ o \notin {"approve", "approve_conditional"}
              /\ o = "accept" => status[r] = "APPROVED_CONDITIONAL"
  <1>1. period[r] \in Periods
    BY DEF TypeOK
  <1> DEFINE Opens(o, p) == Open(h, o, r, p) /\ o \in Ops
  <1>2. \A o, p : Open(h, o, r, p) => Opens(o, p)
    BY DEF Open
  <1>3. CASE ReadDelete(h, r) \/ ReadSubmit(h, r) \/ ReadCancel(h, r)
    <2>1. \E o \in {"delete", "submit", "cancel"} : Opens(o, period[r])
      BY <1>2, <1>3 DEF ReadDelete, ReadSubmit, ReadCancel
    <2> QED
      BY <1>1, <2>1 DEF AllOps
  <1>4. CASE ReadAcceptCondition(h, r)
    <2>1. status[r] = "APPROVED_CONDITIONAL"
      BY <1>4 DEF ReadAcceptCondition
    <2>2. \E o \in {"accept", "decline"} : Opens(o, period[r])
      BY <1>2, <1>4 DEF ReadAcceptCondition
    <2> QED
      BY <1>1, <2>1, <2>2 DEF AllOps
  <1>5. CASE ReadRevoke(h, r) \/ ReadReopen(h, r) \/ ReadRecall(h, r)
    <2>1. \E o \in {"revoke", "reopen", "recall"} : Opens(o, period[r])
      BY <1>2, <1>5 DEF ReadRevoke, ReadReopen, ReadRecall
    <2> QED
      BY <1>1, <2>1 DEF AllOps
  <1>6. CASE \E p \in Periods : ReadEdit(h, r, p) \/ ReadModify(h, r, p)
    <2>1. PICK p \in Periods : ReadEdit(h, r, p) \/ ReadModify(h, r, p)
      BY <1>6
    <2>2. \E o \in {"edit", "modify"} : Opens(o, p)
      BY <1>2, <2>1 DEF ReadEdit, ReadModify
    <2> QED
      BY <2>2 DEF AllOps
  <1> QED
    BY <1>3, <1>4, <1>5, <1>6 DEF ClientRead

\* A handler that waits for the answer to its POST is not touched by the others.
LEMMA PostedWaits ==
    ASSUME SInv, Local
    PROVE  \A h \in Handlers : creating[h] # "no" => tx'[h] = tx[h]
  <1>1. TypeOK
    BY DEF SInv, IInv
  <1>2. ASSUME NEW g \in Handlers, NEW r \in Requests, ClientRead(g, r)
        PROVE  \A h \in Handlers : creating[h] # "no" => tx'[h] = tx[h]
    <2>1. creating[g] = "no"
      BY <1>1, <1>2, ClientOpens DEF SInv, PostsAreSubmissions, Open
    <2>2. \A h \in Handlers \ {g} : tx'[h] = tx[h]
      BY <1>1, <1>2, ClientOpens, OpenFacts
    <2> QED
      BY <2>1, <2>2
  <1>3. ASSUME NEW g \in Handlers, creating[g] = "no",
               RevokeReadsLedger(g) \/ Rollback(g) \/ Write(g)
        PROVE  \A h \in Handlers : creating[h] # "no" => tx'[h] = tx[h]
    <2>1. \A h \in Handlers \ {g} : tx'[h] = tx[h]
      BY <1>1, <1>3, WriteEffect DEF RevokeReadsLedger, Rollback, TypeOK
    <2> QED
      BY <1>3, <2>1
  <1>4. CASE Midnight \/ \E r \in Requests, p \in Periods : Create(r, p)
    BY <1>4 DEF Midnight, Create
  <1> QED
    BY <1>2, <1>3, <1>4 DEF Local

\* A new approval request keeps the type, and the leave has one.
LEMMA NewApprovalFacts ==
    ASSUME SyncTypeOK, NEW r \in Requests, NewApproval(r)
    PROVE  /\ approvals' \in [Requests -> Seq(Approval)]
           /\ approvals'[r] # <<>>
           /\ \A q \in Requests : approvals[q] # <<>> => approvals'[q] # <<>>
  <1> DEFINE new == [agreed |-> FALSE, deciding |-> "none"]
  <1>1. new \in Approval
    BY DEF Approval
  <1>2. approvals \in [Requests -> Seq(Approval)] /\ approvals[r] \in Seq(Approval)
    BY DEF SyncTypeOK
  <1>3. Append(approvals[r], new) \in Seq(Approval) /\ Append(approvals[r], new) # <<>>
    BY <1>1, <1>2, AppendProperties
  <1>4. approvals' = [approvals EXCEPT ![r] = Append(approvals[r], new)]
    BY DEF NewApproval
  <1> QED
    BY <1>2, <1>3, <1>4

\* A write to one approval request keeps the type and the number of requests.
LEMMA ApprovalWriteFacts ==
    ASSUME SyncTypeOK, NEW r \in Requests, NEW n \in DOMAIN approvals[r], NEW a \in Approval,
           approvals' = [approvals EXCEPT ![r][n] = a]
    PROVE  /\ approvals' \in [Requests -> Seq(Approval)]
           /\ \A q \in Requests : approvals[q] # <<>> => approvals'[q] # <<>>
  <1>1. approvals \in [Requests -> Seq(Approval)] /\ approvals[r] \in Seq(Approval)
    BY DEF SyncTypeOK
  <1>2. approvals' = [approvals EXCEPT ![r] = [approvals[r] EXCEPT ![n] = a]]
    OBVIOUS
  <1>3. [approvals[r] EXCEPT ![n] = a] \in Seq(Approval) /\ [approvals[r] EXCEPT ![n] = a] # <<>>
    BY <1>1
  <1> QED
    BY <1>1, <1>2, <1>3

\* The three steps of a decision write one approval request.
LEMMA DecisionWrites ==
    ASSUME SyncTypeOK, NEW r \in Requests, NEW n \in DOMAIN approvals[r],
           \/ \E d \in Answers : TakeDecision(r, n, d)
           \/ CommitDecision(r, n) \/ AbortDecision(r, n)
    PROVE  \E a \in Approval : approvals' = [approvals EXCEPT ![r][n] = a]
  <1>1. approvals[r][n] \in Approval
    BY DEF SyncTypeOK
  <1>2. ASSUME NEW d \in Decisions \cup {"none"}, approvals' = [approvals EXCEPT ![r][n].deciding = d]
        PROVE  \E a \in Approval : approvals' = [approvals EXCEPT ![r][n] = a]
    <2>1. [approvals[r][n] EXCEPT !.deciding = d] \in Approval
      BY <1>1 DEF Approval
    <2>2. approvals' = [approvals EXCEPT ![r][n] = [approvals[r][n] EXCEPT !.deciding = d]]
      BY <1>2
    <2> QED
      BY <2>1, <2>2
  <1>3. ASSUME NEW d \in Answers, TakeDecision(r, n, d)
        PROVE  \E a \in Approval : approvals' = [approvals EXCEPT ![r][n] = a]
    <2>1. d \in Decisions \cup {"none"}
      BY SyncAssumption
    <2> QED
      BY <1>2, <1>3, <2>1 DEF TakeDecision
  <1>4. CASE CommitDecision(r, n)
    <2>1. PICK a \in BOOLEAN :
             approvals' = [approvals EXCEPT ![r][n] = [agreed |-> a, deciding |-> "none"]]
      BY <1>4 DEF CommitDecision
    <2>2. [agreed |-> a, deciding |-> "none"] \in Approval
      BY DEF Approval
    <2> QED
      BY <2>1, <2>2
  <1>5. CASE AbortDecision(r, n)
    BY <1>2, <1>5 DEF AbortDecision
  <1> QED
    BY <1>3, <1>4, <1>5

LEMMA SyncInitInv == SyncInit => SInv
  <1> SUFFICES ASSUME SyncInit  PROVE  SInv
    OBVIOUS
  <1>1. IInv
    BY InitInv DEF SyncInit
  <1>2. SyncTypeOK
    BY <1>1, SyncAssumption DEF SyncInit, SyncTypeOK, IInv
  <1> QED
    BY <1>1, <1>2 DEF SInv, SyncInit, PostsAreSubmissions

LEMMA SyncNextInv == SInv /\ [SyncNext]_syncVars => SInv'
  <1> SUFFICES ASSUME SInv, [SyncNext]_syncVars  PROVE  SInv'
    OBVIOUS
  <1>1. IInv' /\ TypeOK'
    BY SyncSteps, NextInv DEF SInv, IInv
  <1>2. SyncTypeOK /\ TypeOK /\ MaxLate \in Nat
    BY SyncAssumption DEF SInv, IInv
  <1>3. CASE Local
    <2>1. PostsAreSubmissions'
      BY <1>3, PostedWaits DEF SInv, PostsAreSubmissions, Local
    <2> QED
      BY <1>1, <1>2, <1>3, <2>1 DEF SInv, SyncTypeOK, Local, remote
  <1>4. ASSUME NEW h \in Handlers, PostCreate(h)
        PROVE  SInv'
    <2>1. creating' = [creating EXCEPT ![h] = "posted"] /\ tx[h] # Idle /\ tx[h].op = "submit"
          /\ tx' = tx /\ UNCHANGED <<approvals, late, callbacks, favoured>>
      BY <1>4 DEF PostCreate, AsksApproval, vars, remote
    <2> QED
      BY <1>1, <1>2, <2>1 DEF SInv, SyncTypeOK, PostsAreSubmissions
  <1>5. ASSUME NEW h \in Handlers, CreateApproval(h)
        PROVE  SInv'
    <2>1. /\ creating' = [creating EXCEPT ![h] = "created"] /\ creating[h] # "no" /\ tx' = tx
          /\ NewApproval(tx[h].req) /\ UNCHANGED <<late, callbacks, favoured>>
      BY <1>5 DEF CreateApproval, vars
    <2>2. tx[h].req \in Requests
      BY <1>2, <2>1 DEF SInv, PostsAreSubmissions, TypeOK, Tx
    <2>3. approvals' \in [Requests -> Seq(Approval)]
      BY <1>2, <2>1, <2>2, NewApprovalFacts
    <2> QED
      BY <1>1, <1>2, <2>1, <2>3 DEF SInv, SyncTypeOK, PostsAreSubmissions
  <1>6. ASSUME NEW h \in Handlers, CommitSubmission(h)
        PROVE  SInv'
    <2>1. /\ creating' = [creating EXCEPT ![h] = "no"]
          /\ UNCHANGED <<approvals, late, callbacks, favoured>>
      BY <1>6 DEF CommitSubmission, remote
    <2>2. \A k \in Handlers \ {h} : tx'[k] = tx[k]
      BY <1>2, <1>6, WriteEffect DEF CommitSubmission, Write
    <2> QED
      BY <1>1, <1>2, <2>1, <2>2 DEF SInv, SyncTypeOK, PostsAreSubmissions
  <1>7. ASSUME NEW h \in Handlers, AbandonSubmission(h)
        PROVE  SInv'
    <2>1. /\ creating' = [creating EXCEPT ![h] = "no"]
          /\ UNCHANGED <<approvals, callbacks, favoured>>
          /\ tx' = [tx EXCEPT ![h] = Idle]
      BY <1>7 DEF AbandonSubmission, Rollback
    <2>2. late' \in [Requests -> 0 .. MaxLate]
      <3> DEFINE r == tx[h].req
      <3>1. r \in Requests
        BY <1>2, <1>7 DEF AbandonSubmission, Rollback, TypeOK, Tx
      <3>2. late \in [Requests -> 0 .. MaxLate]
        BY <1>2 DEF SyncTypeOK
      <3>3. late' = late \/ (late[r] < MaxLate /\ late' = [late EXCEPT ![r] = late[r] + 1])
        BY <1>7 DEF AbandonSubmission
      <3> HIDE DEF r
      <3> QED
        BY <1>2, <3>1, <3>2, <3>3
    <2> QED
      BY <1>1, <1>2, <2>1, <2>2 DEF SInv, SyncTypeOK, PostsAreSubmissions, TypeOK
  <1>8. ASSUME NEW h \in Handlers, NEW c \in callbacks, Deliver(h, c)
        PROVE  SInv'
    <2>1. callbacks' \subseteq callbacks /\ UNCHANGED <<creating, approvals, late, favoured>>
      BY <1>8 DEF Deliver
    <2>2. c.req \in Requests
      BY <1>2 DEF SyncTypeOK, Callback
    <2>3. \E o \in AllOps, p \in Periods : Open(h, o, c.req, p)
      BY <1>2, <1>8, <2>2, DecisionReads, ReadOpens DEF Deliver
    <2>4. tx[h] = Idle /\ \A k \in Handlers \ {h} : tx'[k] = tx[k]
      BY <1>2, <2>2, <2>3, OpenFacts DEF Open
    <2> QED
      BY <1>1, <1>2, <2>1, <2>4 DEF SInv, SyncTypeOK, PostsAreSubmissions
  <1>9. ASSUME NEW c \in callbacks, Ignore(c) \/ Lose(c)
        PROVE  SInv'
    <2>1. callbacks' \subseteq callbacks /\ UNCHANGED <<creating, tx, approvals, late, favoured>>
      BY <1>9 DEF Ignore, Lose, vars
    <2> QED
      BY <1>1, <1>2, <2>1 DEF SInv, SyncTypeOK, PostsAreSubmissions
  <1>10. ASSUME NEW r \in Requests, LateCreate(r)
         PROVE  SInv'
    <2>1. /\ late[r] > 0 /\ late' = [late EXCEPT ![r] = @ - 1]
          /\ NewApproval(r) \/ approvals' = approvals
          /\ UNCHANGED <<creating, tx, callbacks, favoured>>
      BY <1>10 DEF LateCreate, vars
    <2>2. approvals' \in [Requests -> Seq(Approval)]
      BY <1>2, <2>1, NewApprovalFacts DEF SyncTypeOK
    <2>3. late' \in [Requests -> 0 .. MaxLate]
      BY <1>2, <2>1 DEF SyncTypeOK
    <2> QED
      BY <1>1, <1>2, <2>1, <2>2, <2>3 DEF SInv, SyncTypeOK, PostsAreSubmissions
  <1>11. ASSUME NEW r \in Requests, NEW n \in DOMAIN approvals[r],
                \/ \E d \in Answers : TakeDecision(r, n, d)
                \/ CommitDecision(r, n) \/ AbortDecision(r, n)
         PROVE  SInv'
    <2>1. approvals' \in [Requests -> Seq(Approval)]
      BY <1>2, <1>11, DecisionWrites, ApprovalWriteFacts
    <2>2. UNCHANGED <<creating, tx, late>>
      BY <1>11 DEF TakeDecision, CommitDecision, AbortDecision, vars
    <2>3. callbacks' \subseteq Callback /\ favoured' \in [Requests -> BOOLEAN]
      <3>1. ASSUME NEW d \in Answers, TakeDecision(r, n, d)
            PROVE  callbacks' \subseteq Callback /\ favoured' \in [Requests -> BOOLEAN]
        <4>1. [req |-> r, decision |-> d] \in Callback
          BY SyncAssumption DEF Callback
        <4>2. favoured' = [favoured EXCEPT ![r] = favoured[r] \/ d \in Favourable]
          BY <3>1 DEF TakeDecision
        <4>3. favoured' \in [Requests -> BOOLEAN]
          BY <1>2, <4>2 DEF SyncTypeOK
        <4> QED
          BY <1>2, <3>1, <4>1, <4>3 DEF TakeDecision, SyncTypeOK
      <3> QED
        BY <1>2, <1>11, <3>1 DEF CommitDecision, AbortDecision, SyncTypeOK
    <2> QED
      BY <1>1, <1>2, <2>1, <2>2, <2>3 DEF SInv, SyncTypeOK, PostsAreSubmissions
  <1>12. CASE UNCHANGED syncVars
    BY <1>1, <1>2, <1>12 DEF SInv, SyncTypeOK, PostsAreSubmissions, syncVars, vars, remote
  <1> QED
    BY <1>3, <1>4, <1>5, <1>6, <1>7, <1>8, <1>9, <1>10, <1>11, <1>12 DEF SyncNext

LEMMA SyncInvariance == SyncSpec => []SInv
  BY SyncInitInv, SyncNextInv, PTL DEF SyncSpec

\* Every variable of the composition keeps its type.
THEOREM SyncTypeCorrect == SyncSpec => []SyncTypeOK
  <1>1. SInv => SyncTypeOK
    BY DEF SInv
  <1> QED
    BY <1>1, SyncInvariance, PTL

\* The leaves service keeps its workflow, whatever the approvals service sends and when: what
\* is proved of Spec (one charge, one reversal under the lock, ...) holds of the composition.
THEOREM WorkflowIsKept == SyncSpec => LeavesKeepTheirWorkflow
  <1>1. SyncInit => Init
    BY DEF SyncInit
  <1>2. SInv /\ [SyncNext]_syncVars => [Next]_vars
    BY SyncSteps DEF SInv
  <1> QED
    BY <1>1, <1>2, SyncInvariance, PTL DEF SyncSpec, LeavesKeepTheirWorkflow, Spec

-----------------------------------------------------------------------------
(* What a step of the composition does to a handler, to a row and to the   *)
(* approval requests.                                                      *)

\* A handler ends, goes on with its operation, or starts one: for a client, or for a callback.
StartsForClient(r, op) ==
    /\ op \notin {"approve", "approve_conditional"}
    /\ op = "accept" => status[r] = "APPROVED_CONDITIONAL"

StartsForCallback(r, op) ==
    \E c \in callbacks : c.req = r /\ (op \in Granting => c.decision \in Favourable)

HandlerMoves(h) ==
    \/ tx'[h] = Idle
    \/ tx[h] # Idle /\ tx'[h].op = tx[h].op /\ tx'[h].req = tx[h].req
    \/ /\ tx'[h].op \in Ops /\ tx'[h].req \in Requests
       /\ StartsForClient(tx'[h].req, tx'[h].op) \/ StartsForCallback(tx'[h].req, tx'[h].op)

LEMMA HandlerStep ==
    ASSUME SInv, [SyncNext]_syncVars, NEW h \in Handlers
    PROVE  HandlerMoves(h)
  <1>1. TypeOK /\ SyncTypeOK
    BY DEF SInv, IInv
  <1>2. ASSUME tx'[h] = tx[h]  PROVE HandlerMoves(h)
    BY <1>2 DEF HandlerMoves
  <1>3. ASSUME NEW g \in Handlers, NEW r \in Requests, ClientRead(g, r)
        PROVE  HandlerMoves(h)
    <2>1. PICK o \in AllOps, p \in Periods :
              /\ Open(g, o, r, p) /\ o \in Ops
              /\ o \notin {"approve", "approve_conditional"}
              /\ o = "accept" => status[r] = "APPROVED_CONDITIONAL"
      BY <1>1, <1>3, ClientOpens
    <2>2. /\ tx'[g].op = o /\ tx'[g].req = r
          /\ \A k \in Handlers \ {g} : tx'[k] = tx[k]
      <3>1. /\ tx'[g] = [op |-> o, req |-> r, seen |-> status[r], dates |-> p,
                         refund |-> "unread"]
            /\ \A k \in Handlers \ {g} : tx'[k] = tx[k]
        BY <1>1, <2>1, OpenFacts
      <3> QED
        BY <3>1
    <2> QED
      BY <1>2, <2>1, <2>2 DEF StartsForClient, HandlerMoves
  <1>4. ASSUME NEW g \in Handlers, NEW c \in callbacks, Deliver(g, c)
        PROVE  HandlerMoves(h)
    <2>1. c.req \in Requests
      BY <1>1 DEF SyncTypeOK, Callback
    <2>2. PICK o \in AllOps : /\ Open(g, o, c.req, period[c.req]) /\ o \in Ops
                              /\ o \in Granting => c.decision \in Favourable
      BY <1>4 DEF Deliver, ReadDecision, ReadApprove, ReadReject, ReadApproveConditional, Open,
                  AllOps, Granting, Favourable
    <2>3. period[c.req] \in Periods
      BY <1>1, <2>1 DEF TypeOK
    <2>4. /\ tx'[g].op = o /\ tx'[g].req = c.req
          /\ \A k \in Handlers \ {g} : tx'[k] = tx[k]
      <3>1. /\ tx'[g] = [op |-> o, req |-> c.req, seen |-> status[c.req],
                         dates |-> period[c.req], refund |-> "unread"]
            /\ \A k \in Handlers \ {g} : tx'[k] = tx[k]
        BY <1>1, <2>1, <2>2, <2>3, OpenFacts
      <3> QED
        BY <3>1
    <2> QED
      BY <1>2, <2>1, <2>2, <2>4 DEF StartsForCallback, HandlerMoves
  <1>5. ASSUME NEW g \in Handlers, RevokeReadsLedger(g)
        PROVE  HandlerMoves(h)
    <2>1. tx[g].op = "revoke"
      BY <1>5 DEF RevokeReadsLedger
    <2>2. tx[g] # Idle
      BY <2>1 DEF Idle
    <2>3. tx[g] \in Tx
      BY <1>1, <2>2 DEF TypeOK
    <2>4. /\ \A k \in Handlers \ {g} : tx'[k] = tx[k]
          /\ tx'[g].op = tx[g].op /\ tx'[g].req = tx[g].req
      BY <1>1, <1>5, <2>3 DEF RevokeReadsLedger, TypeOK, Tx
    <2> QED
      BY <1>2, <2>2, <2>4 DEF HandlerMoves
  <1>6. ASSUME NEW g \in Handlers, Rollback(g) \/ Write(g)
        PROVE  HandlerMoves(h)
    <2>1. tx'[g] = Idle /\ \A k \in Handlers \ {g} : tx'[k] = tx[k]
      BY <1>1, <1>6, WriteEffect DEF Rollback, TypeOK
    <2> QED
      BY <1>2, <2>1 DEF HandlerMoves
  <1>7. CASE Local
    <2>1. CASE Midnight \/ \E r \in Requests, p \in Periods : Create(r, p)
      BY <1>2, <2>1 DEF Midnight, Create
    <2> QED
      BY <1>3, <1>5, <1>6, <1>7, <2>1 DEF Local
  <1>8. ASSUME NEW g \in Handlers, CommitSubmission(g) \/ AbandonSubmission(g)
        PROVE  HandlerMoves(h)
    BY <1>6, <1>8 DEF CommitSubmission, AbandonSubmission, Write
  <1>9. ASSUME UNCHANGED vars  PROVE HandlerMoves(h)
    BY <1>2, <1>9 DEF vars
  <1>10. ASSUME NEW g \in Handlers, PostCreate(g) \/ CreateApproval(g)
         PROVE  HandlerMoves(h)
    BY <1>9, <1>10 DEF PostCreate, CreateApproval
  <1>11. ASSUME NEW c \in callbacks, Ignore(c) \/ Lose(c)
         PROVE  HandlerMoves(h)
    BY <1>9, <1>11 DEF Ignore, Lose
  <1>12. ASSUME NEW r \in Requests, LateCreate(r)
         PROVE  HandlerMoves(h)
    BY <1>9, <1>12 DEF LateCreate
  <1>13. ASSUME NEW r \in Requests, NEW n \in DOMAIN approvals[r],
                \/ \E d \in Answers : TakeDecision(r, n, d)
                \/ CommitDecision(r, n) \/ AbortDecision(r, n)
         PROVE  HandlerMoves(h)
    BY <1>9, <1>13 DEF TakeDecision, CommitDecision, AbortDecision
  <1>14. CASE UNCHANGED syncVars
    BY <1>9, <1>14 DEF syncVars
  <1> QED
    BY <1>4, <1>7, <1>8, <1>10, <1>11, <1>12, <1>13, <1>14 DEF SyncNext

\* The status and the usage of a row change when it is created and when a handler that works
\* on it commits.
RowCommits(h, r) ==
    /\ tx[h] # Idle /\ tx[h].req = r
    /\ status'[r] = "PENDING" =>
          \/ status[r] = "PENDING" \/ tx[h].op = "reopen"
          \/ approvals[r] # <<>>
    /\ status'[r] \in Granted \/ usage'[r] > 0 =>
          status[r] \in Granted \/ usage[r] > 0 \/ tx[h].op \in Granting

RowMoves(r) ==
    \/ status'[r] = status[r] /\ usage'[r] = usage[r]
    \/ status'[r] = "DRAFT" /\ usage'[r] = usage[r]
    \/ \E h \in Handlers : RowCommits(h, r)

\* The answer to the POST came after the request was created.
CreatedHasApproval == \A h \in Handlers : creating[h] = "created" => approvals[tx[h].req] # <<>>

LEMMA RowStep ==
    ASSUME SInv, CreatedHasApproval, [SyncNext]_syncVars, NEW r \in RequiresApproval
    PROVE  RowMoves(r)
  <1>1. TypeOK /\ SyncTypeOK /\ r \in Requests
    BY ConfigAssumption DEF SInv, IInv
  <1>2. ASSUME UNCHANGED <<status, usage>>  PROVE RowMoves(r)
    BY <1>2 DEF RowMoves
  <1>3. ASSUME NEW h \in Handlers, Write(h), ~AsksApproval(h) \/ creating[h] = "created"
        PROVE  RowMoves(r)
    <2>1. CASE tx[h].req # r
      BY <1>1, <1>3, <2>1, WriteEffect DEF RowMoves
    <2>2. CASE tx[h].req = r
      <3>1. /\ tx[h] # Idle
            /\ status'[r] = "PENDING" =>
                  \/ status[r] = "PENDING" \/ tx[h].op = "reopen" \/ tx[h].op = "submit"
            /\ status'[r] \in Granted \/ usage'[r] > 0 =>
                  status[r] \in Granted \/ usage[r] > 0 \/ tx[h].op \in Granting
        BY <1>1, <1>3, <2>2, WriteEffect
      <3>2. tx[h].op = "submit" => creating[h] = "created"
        BY <1>3, <2>2, <3>1 DEF AsksApproval
      <3> QED
        BY <2>2, <3>1, <3>2 DEF RowMoves, RowCommits, CreatedHasApproval
    <2> QED
      BY <2>1, <2>2
  <1>4. CASE Local
    <2>1. ASSUME NEW q \in Requests, NEW p \in Periods, Create(q, p)
          PROVE  RowMoves(r)
      BY <1>1, <2>1 DEF Create, SetStatus, ledger, TypeOK, RowMoves
    <2>2. ASSUME NEW h \in Handlers, NEW q \in Requests, ClientRead(h, q)
          PROVE  RowMoves(r)
      BY <1>1, <1>2, <2>2, ClientOpens, OpenFacts
    <2>3. ASSUME NEW h \in Handlers, RevokeReadsLedger(h) \/ Rollback(h)
          PROVE  RowMoves(r)
      BY <1>2, <2>3 DEF RevokeReadsLedger, Rollback, row, ledger
    <2>4. CASE Midnight
      BY <1>2, <2>4 DEF Midnight, row, ledger
    <2> QED
      BY <1>3, <1>4, <2>1, <2>2, <2>3, <2>4 DEF Local
  <1>5. ASSUME NEW h \in Handlers, CommitSubmission(h)
        PROVE  RowMoves(r)
    BY <1>3, <1>5 DEF CommitSubmission, Write
  <1>6. ASSUME NEW h \in Handlers, AbandonSubmission(h)
        PROVE  RowMoves(r)
    BY <1>2, <1>6 DEF AbandonSubmission, Rollback, row, ledger
  <1>7. ASSUME NEW h \in Handlers, NEW c \in callbacks, Deliver(h, c)
        PROVE  RowMoves(r)
    <2>1. c.req \in Requests
      BY <1>1 DEF SyncTypeOK, Callback
    <2>2. \E o \in AllOps, p \in Periods : Open(h, o, c.req, p)
      BY <1>1, <1>7, <2>1, DecisionReads, ReadOpens DEF Deliver
    <2> QED
      BY <1>1, <1>2, <2>1, <2>2, OpenFacts
  <1>8. ASSUME UNCHANGED vars  PROVE RowMoves(r)
    BY <1>2, <1>8 DEF vars
  <1>9. ASSUME NEW h \in Handlers, PostCreate(h) \/ CreateApproval(h)
        PROVE  RowMoves(r)
    BY <1>8, <1>9 DEF PostCreate, CreateApproval
  <1>10. ASSUME NEW c \in callbacks, Ignore(c) \/ Lose(c)
         PROVE  RowMoves(r)
    BY <1>8, <1>10 DEF Ignore, Lose
  <1>11. ASSUME NEW q \in Requests, LateCreate(q)
         PROVE  RowMoves(r)
    BY <1>8, <1>11 DEF LateCreate
  <1>12. ASSUME NEW q \in Requests, NEW n \in DOMAIN approvals[q],
                \/ \E d \in Answers : TakeDecision(q, n, d)
                \/ CommitDecision(q, n) \/ AbortDecision(q, n)
         PROVE  RowMoves(r)
    BY <1>8, <1>12 DEF TakeDecision, CommitDecision, AbortDecision
  <1>13. CASE UNCHANGED syncVars
    BY <1>8, <1>13 DEF syncVars
  <1> QED
    BY <1>4, <1>5, <1>6, <1>7, <1>9, <1>10, <1>11, <1>12, <1>13 DEF SyncNext

\* The approvals service forgets no request; a request is there when the POST is answered.
LEMMA ApprovalsStep ==
    ASSUME SInv, [SyncNext]_syncVars
    PROVE  /\ \A q \in Requests : approvals[q] # <<>> => approvals'[q] # <<>>
           /\ \A h \in Handlers : creating'[h] = "created" =>
                 /\ tx'[h] = tx[h]
                 /\ creating[h] = "created" \/ approvals'[tx[h].req] # <<>>
  <1> DEFINE Grow == \A q \in Requests : approvals[q] # <<>> => approvals'[q] # <<>>
             Answer == \A h \in Handlers : creating'[h] = "created" =>
                          /\ tx'[h] = tx[h]
                          /\ creating[h] = "created" \/ approvals'[tx[h].req] # <<>>
  <1>1. TypeOK /\ SyncTypeOK /\ creating \in [Handlers -> {"no", "posted", "created"}]
    BY DEF SInv, IInv, SyncTypeOK
  <1>2. CASE Local
    BY <1>2, PostedWaits DEF Local, remote
  <1>3. ASSUME NEW g \in Handlers, PostCreate(g)
        PROVE  Grow /\ Answer
    BY <1>1, <1>3 DEF PostCreate, remote, vars
  <1>4. ASSUME NEW g \in Handlers, CreateApproval(g)
        PROVE  Grow /\ Answer
    <2>1. /\ creating' = [creating EXCEPT ![g] = "created"] /\ creating[g] # "no" /\ tx' = tx
          /\ NewApproval(tx[g].req)
      BY <1>4 DEF CreateApproval, vars
    <2>2. tx[g].req \in Requests
      BY <1>1, <2>1 DEF SInv, PostsAreSubmissions, TypeOK, Tx
    <2>3. Grow /\ approvals'[tx[g].req] # <<>>
      BY <1>1, <2>1, <2>2, NewApprovalFacts
    <2> QED
      BY <1>1, <2>1, <2>3
  <1>5. ASSUME NEW g \in Handlers, CommitSubmission(g) \/ AbandonSubmission(g)
        PROVE  Grow /\ Answer
    <2>1. creating' = [creating EXCEPT ![g] = "no"] /\ approvals' = approvals
      BY <1>5 DEF CommitSubmission, AbandonSubmission, remote
    <2>2. \A k \in Handlers \ {g} : tx'[k] = tx[k]
      BY <1>1, <1>5, WriteEffect
         DEF CommitSubmission, AbandonSubmission, Write, Rollback, TypeOK
    <2> QED
      BY <1>1, <2>1, <2>2
  <1>6. ASSUME NEW g \in Handlers, NEW c \in callbacks, Deliver(g, c)
        PROVE  Grow /\ Answer
    <2>1. c.req \in Requests /\ UNCHANGED <<creating, approvals>>
      BY <1>1, <1>6 DEF SyncTypeOK, Callback, Deliver
    <2>2. \E o \in AllOps, p \in Periods : Open(g, o, c.req, p)
      BY <1>1, <1>6, <2>1, DecisionReads, ReadOpens DEF Deliver
    <2>3. creating[g] = "no" /\ \A k \in Handlers \ {g} : tx'[k] = tx[k]
      BY <1>1, <2>1, <2>2, OpenFacts DEF Open, SInv, PostsAreSubmissions
    <2> QED
      BY <2>1, <2>3
  <1>7. ASSUME NEW c \in callbacks, Ignore(c) \/ Lose(c)
        PROVE  Grow /\ Answer
    BY <1>7 DEF Ignore, Lose, vars
  <1>8. ASSUME NEW r \in Requests, LateCreate(r)
        PROVE  Grow /\ Answer
    <2>1. Grow
      BY <1>1, <1>8, NewApprovalFacts DEF LateCreate
    <2> QED
      BY <1>8, <2>1 DEF LateCreate, vars
  <1>9. ASSUME NEW r \in Requests, NEW n \in DOMAIN approvals[r],
               \/ \E d \in Answers : TakeDecision(r, n, d)
               \/ CommitDecision(r, n) \/ AbortDecision(r, n)
        PROVE  Grow /\ Answer
    <2>1. Grow
      BY <1>1, <1>9, DecisionWrites, ApprovalWriteFacts
    <2>2. UNCHANGED <<creating, tx>>
      BY <1>9 DEF TakeDecision, CommitDecision, AbortDecision, vars
    <2> QED
      BY <2>1, <2>2
  <1>10. CASE UNCHANGED syncVars
    BY <1>10 DEF syncVars, vars, remote
  <1> QED
    BY <1>2, <1>3, <1>4, <1>5, <1>6, <1>7, <1>8, <1>9, <1>10 DEF SyncNext

\* A submission whose POST was answered has its approval request until it ends.
LEMMA CreatedNext ==
    ASSUME SInv, CreatedHasApproval, [SyncNext]_syncVars
    PROVE  CreatedHasApproval'
  <1>1. SUFFICES ASSUME NEW h \in Handlers, creating'[h] = "created"
                 PROVE  approvals'[tx'[h].req] # <<>>
    BY DEF CreatedHasApproval
  <1>2. tx'[h] = tx[h] /\ (creating[h] = "created" \/ approvals'[tx[h].req] # <<>>)
    BY <1>1, ApprovalsStep
  <1>3. tx'[h] # Idle
    BY <1>1, SyncNextInv DEF SInv, PostsAreSubmissions
  <1>4. tx[h].req \in Requests
    BY <1>2, <1>3 DEF SInv, IInv, TypeOK, Tx
  <1> QED
    BY <1>2, <1>4, ApprovalsStep DEF CreatedHasApproval

-----------------------------------------------------------------------------
(* No leave waits for an approval nobody was asked for. *)

OpsOnly == \A h \in Handlers : tx[h] # Idle => tx[h].op \in Ops

AskedInv == SInv /\ CreatedHasApproval /\ OpsOnly /\ SubmittedHasApproval

LEMMA AskedNext ==
    ASSUME "reopen" \notin Ops, AskedInv, [SyncNext]_syncVars
    PROVE  AskedInv'
  <1>1. SInv'
    BY SyncNextInv DEF AskedInv
  <1>2. CreatedHasApproval'
    BY CreatedNext DEF AskedInv
  <1>3. OpsOnly'
    BY HandlerStep DEF AskedInv, OpsOnly, HandlerMoves
  <1>4. SubmittedHasApproval'
    <2>1. SUFFICES ASSUME NEW r \in RequiresApproval, status'[r] = "PENDING"
                   PROVE  approvals'[r] # <<>>
      BY DEF SubmittedHasApproval
    <2>2. RowMoves(r)
      BY RowStep DEF AskedInv
    <2>3. status[r] = "PENDING" \/ approvals[r] # <<>>
      BY <2>1, <2>2 DEF RowMoves, RowCommits, AskedInv, OpsOnly
    <2>4. approvals[r] # <<>> /\ r \in Requests
      BY <2>3, ConfigAssumption DEF AskedInv, SubmittedHasApproval
    <2> QED
      BY <2>4, ApprovalsStep DEF AskedInv
  <1> QED
    BY <1>1, <1>2, <1>3, <1>4 DEF AskedInv

\* Whatever fails between the two services, a leave that waits for approval has an approval
\* request to wait for, as long as nobody reopens a leave.
THEOREM SubmissionsAreAsked ==
    ASSUME "reopen" \notin Ops
    PROVE  SyncSpec => []SubmittedHasApproval
  <1>1. SyncInit => AskedInv
    BY SyncInitInv, ConfigAssumption
       DEF SyncInit, Init, AskedInv, CreatedHasApproval, OpsOnly, SubmittedHasApproval
  <1>2. AskedInv /\ [SyncNext]_syncVars => AskedInv'
    BY AskedNext
  <1>3. AskedInv => SubmittedHasApproval
    BY DEF AskedInv
  <1> QED
    BY <1>1, <1>2, <1>3, PTL DEF SyncSpec

-----------------------------------------------------------------------------
(* No leave is approved or charged unless an approver wanted it. *)

\* What the approval of a leave travels through: callbacks, handlers, the row.
FavourKnown ==
    \A r \in RequiresApproval :
        \/ favoured[r]
        \/ /\ status[r] \notin Granted /\ ~(usage[r] > 0)
           /\ \A h \in Handlers : tx[h] # Idle /\ tx[h].req = r => tx[h].op \notin Granting
           /\ \A c \in callbacks : c.req = r => c.decision \notin Favourable

FavourInv == SInv /\ CreatedHasApproval /\ FavourKnown

\* An approver's wish is not forgotten, and no callback carries one he did not have.
LEMMA CallbackStep ==
    ASSUME SInv, [SyncNext]_syncVars, NEW r \in Requests
    PROVE  /\ favoured[r] => favoured'[r]
           /\ \/ favoured'[r]
              \/ \A c \in callbacks' : c.req = r /\ c.decision \in Favourable => c \in callbacks
  <1> DEFINE Known == /\ favoured[r] => favoured'[r]
                      /\ \/ favoured'[r]
                         \/ \A c \in callbacks' :
                               c.req = r /\ c.decision \in Favourable => c \in callbacks
  <1>1. favoured \in [Requests -> BOOLEAN]
    BY DEF SInv, SyncTypeOK
  <1>2. ASSUME callbacks' \subseteq callbacks, favoured' = favoured  PROVE Known
    BY <1>2
  <1>3. CASE Local
    BY <1>2, <1>3 DEF Local, remote
  <1>4. ASSUME NEW h \in Handlers,
               \/ PostCreate(h) \/ CreateApproval(h) \/ CommitSubmission(h) \/ AbandonSubmission(h)
               \/ \E c \in callbacks : Deliver(h, c)
        PROVE  Known
    BY <1>2, <1>4 DEF PostCreate, CreateApproval, CommitSubmission, AbandonSubmission, Deliver, remote
  <1>5. ASSUME NEW c \in callbacks, Ignore(c) \/ Lose(c)
        PROVE  Known
    BY <1>2, <1>5 DEF Ignore, Lose
  <1>6. ASSUME NEW q \in Requests, LateCreate(q)
        PROVE  Known
    BY <1>2, <1>6 DEF LateCreate
  <1>7. ASSUME NEW q \in Requests, NEW n \in DOMAIN approvals[q],
               CommitDecision(q, n) \/ AbortDecision(q, n)
        PROVE  Known
    BY <1>2, <1>7 DEF CommitDecision, AbortDecision
  <1>8. ASSUME NEW q \in Requests, NEW n \in DOMAIN approvals[q], NEW d \in Answers,
               TakeDecision(q, n, d)
        PROVE  Known
    <2>1. /\ callbacks' = callbacks \cup {[req |-> q, decision |-> d]}
          /\ favoured' = [favoured EXCEPT ![q] = favoured[q] \/ d \in Favourable]
      BY <1>8 DEF TakeDecision
    <2>2. favoured'[r] = IF r = q THEN favoured[q] \/ d \in Favourable ELSE favoured[r]
      BY <1>1, <2>1
    <2>3. \A c \in callbacks' : c \in callbacks \/ (c.req = q /\ c.decision = d)
      BY <2>1
    <2> QED
      BY <2>2, <2>3
  <1>9. CASE UNCHANGED syncVars
    BY <1>2, <1>9 DEF syncVars, remote
  <1> QED
    BY <1>3, <1>4, <1>5, <1>6, <1>7, <1>8, <1>9 DEF SyncNext

LEMMA FavourNext ==
    ASSUME FavourInv, [SyncNext]_syncVars
    PROVE  FavourInv'
  <1>1. SInv' /\ CreatedHasApproval'
    BY SyncNextInv, CreatedNext DEF FavourInv
  <1>2. SUFFICES ASSUME NEW r \in RequiresApproval, ~favoured'[r]
                 PROVE  /\ status'[r] \notin Granted /\ ~(usage'[r] > 0)
                        /\ \A h \in Handlers :
                              tx'[h] # Idle /\ tx'[h].req = r => tx'[h].op \notin Granting
                        /\ \A c \in callbacks' : c.req = r => c.decision \notin Favourable
    BY <1>1 DEF FavourInv, FavourKnown
  <1>3. r \in Requests /\ ~favoured[r]
    BY <1>2, ConfigAssumption, CallbackStep DEF FavourInv
  <1>4. /\ status[r] \notin Granted /\ ~(usage[r] > 0)
        /\ \A h \in Handlers : tx[h] # Idle /\ tx[h].req = r => tx[h].op \notin Granting
        /\ \A c \in callbacks : c.req = r => c.decision \notin Favourable
    BY <1>3 DEF FavourInv, FavourKnown
  <1>5. status'[r] \notin Granted /\ ~(usage'[r] > 0)
    <2>1. RowMoves(r)
      BY RowStep DEF FavourInv
    <2> QED
      BY <1>4, <2>1 DEF RowMoves, RowCommits, Granted
  <1>6. ASSUME NEW h \in Handlers, tx'[h] # Idle, tx'[h].req = r
        PROVE  tx'[h].op \notin Granting
    <2>1. HandlerMoves(h)
      BY HandlerStep DEF FavourInv
    <2>2. StartsForClient(r, tx'[h].op) => tx'[h].op \notin Granting
      BY <1>4 DEF StartsForClient, Granted, Granting
    <2>3. StartsForCallback(r, tx'[h].op) => tx'[h].op \notin Granting
      BY <1>4 DEF StartsForCallback
    <2> QED
      BY <1>4, <1>6, <2>1, <2>2, <2>3 DEF HandlerMoves
  <1>7. \A c \in callbacks' : c.req = r => c.decision \notin Favourable
    BY <1>2, <1>3, <1>4, CallbackStep DEF FavourInv
  <1> QED
    BY <1>5, <1>6, <1>7

\* Whatever decisions are late, lost, taken back or overtaken, a leave is approved or charged
\* only if an approver once decided for it.
THEOREM ApprovalsAreDecided == SyncSpec => []ApprovedByDecision
  <1>1. SyncInit => FavourInv
    <2> SUFFICES ASSUME SyncInit  PROVE  FavourInv
      OBVIOUS
    <2>1. SInv
      BY SyncInitInv
    <2>2. CreatedHasApproval
      BY DEF SyncInit, CreatedHasApproval
    <2>3. FavourKnown
      BY ConfigAssumption DEF SyncInit, Init, FavourKnown, Granted
    <2> QED
      BY <2>1, <2>2, <2>3 DEF FavourInv
  <1>2. FavourInv /\ [SyncNext]_syncVars => FavourInv'
    BY FavourNext
  <1>3. FavourInv => ApprovedByDecision
    BY DEF FavourInv, FavourKnown, ApprovedByDecision, Granted
  <1> QED
    BY <1>1, <1>2, <1>3, PTL DEF SyncSpec

-----------------------------------------------------------------------------
(* What LeaveWorkflow promises, with the approvals service behind it. *)

\* Decisions that come late, twice, or for another request of the same leave charge it once
\* at most, and refund it only if it was charged; once, unless a handler wrote the leave on
\* reads that another had overtaken.
THEOREM LedgerIsKept ==
    SyncSpec => [](UsageOnce /\ ChargedWhenApproved /\ RefundAnswersCharge
                   /\ LockedRefundOnce /\ UnracedRefundOnce)
  <1>1. Spec => [](UsageOnce /\ ChargedWhenApproved /\ RefundAnswersCharge
                   /\ LockedRefundOnce /\ UnracedRefundOnce)
    BY ChargedAtMostOnce, ApprovedIsInLedger, NoRefundFromNothing, LockedRefundsPayOnce,
       RefundsPayOnce, PTL
  <1> QED
    BY <1>1, WorkflowIsKept, PTL DEF LeavesKeepTheirWorkflow

\* Two refinements in a row: with callbacks, lost answers and late POSTs, the time ledger is
\* one account per leave, of which nothing is promised once a stale handler has written the leave.
THEOREM AccountsAreKept == SyncSpec => LedgerKeepsAccounts
  <1>1. Spec => LedgerKeepsAccounts
    BY LedgerImplementsAccounts
  <1> QED
    BY <1>1, WorkflowIsKept, PTL DEF LeavesKeepTheirWorkflow

\* Approvals only come through callbacks here (Direct is FALSE): however handlers, callbacks
\* and late POSTs interleave, two leaves of one user that hold a common day are never both
\* the work of handlers whose reads still held, if nobody modifies or reopens.
THEOREM DatesAreHeldOnce ==
    ASSUME {"modify", "reopen"} \cap Ops = {}
    PROVE  SyncSpec => []NoDoubleBooking
  <1>1. Spec => []NoDoubleBooking
    BY DaysAreBookedOnce, SyncAssumption
  <1> QED
    BY <1>1, WorkflowIsKept, PTL DEF LeavesKeepTheirWorkflow
=============================================================================
