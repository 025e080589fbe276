---------------------------- MODULE ApprovalSync ----------------------------
(***************************************************************************)
(* Leave requests and the approval requests made for them.                 *)
(*                                                                         *)
(* submit_request calls the approvals service inside its transaction: the  *)
(* row is updated and locked, the POST creates and commits an approval     *)
(* request there, and only then the leave commits.  A POST that timed out  *)
(* may still be executed.                                                  *)
(*                                                                         *)
(* A decision calls back inside its transaction: the callback is executed  *)
(* by a handler of the leaves service, and the approval request commits    *)
(* after the answer, or after the time-out.  A callback is never repeated. *)
(*                                                                         *)
(* The leave side is LeaveWorkflow with Direct = FALSE: approvals only     *)
(* come through callbacks.  Of the approvals side (ApprovalEngine) only    *)
(* what it sends is kept; whether a conditional approval resolves the      *)
(* request is left open.                                                   *)
(***************************************************************************)
EXTENDS LeaveWorkflow, Sequences

CONSTANTS
    Answers,        \* decisions the approvers take
    Lossy,          \* callbacks can be lost
    MaxLate         \* bound on the POSTs of one leave that are still to be executed

Decisions == {"APPROVED", "REJECTED", "CANCELLED", "APPROVED_CONDITIONAL"}

ASSUME SyncAssumption ==
    Direct = FALSE /\ Answers \subseteq Decisions /\ Lossy \in BOOLEAN /\ MaxLate \in Nat

VARIABLES
    approvals,      \* approval requests of each leave, in order of creation
    creating,       \* state of the POST in a handler's submission
    late,           \* POSTs their submission no longer waits for
    callbacks,      \* callbacks under way
    favoured        \* history: an approver once decided for the leave, conditions or not

remote == <<approvals, late, callbacks, favoured>>
syncVars == <<vars, creating, remote>>

Favourable == {"APPROVED", "APPROVED_CONDITIONAL"}

\* agreed: its status is APPROVED (the others are not told apart); deciding: the decision
\* whose transaction holds its row.
Approval == [agreed : BOOLEAN, deciding : Decisions \cup {"none"}]
Callback == [req : Requests, decision : Decisions]

SyncTypeOK ==
    /\ TypeOK
    /\ approvals \in [Requests -> Seq(Approval)]
    /\ creating \in [Handlers -> {"no", "posted", "created"}]
    /\ late \in [Requests -> 0 .. MaxLate]
    /\ callbacks \subseteq Callback
    /\ favoured \in [Requests -> BOOLEAN]

SyncInit ==
    /\ Init
    /\ approvals = [r \in Requests |-> <<>>]
    /\ creating = [h \in Handlers |-> "no"]
    /\ late = [r \in Requests |-> 0]
    /\ callbacks = {}
    /\ favoured = [r \in Requests |-> FALSE]

-----------------------------------------------------------------------------
(* The leaves service *)

AsksApproval(h) == tx[h] # Idle /\ tx[h].op = "submit" /\ tx[h].req \in RequiresApproval

\* No other submission holds the lock of the row while it waits for its POST.
Unlocked(h) == \A g \in Handlers \ {h} : creating[g] # "no" => tx[g].req # tx[h].req

ClientRead(h, r) ==
    \/ ReadDelete(h, r) \/ ReadSubmit(h, r) \/ ReadCancel(h, r) \/ ReadAcceptCondition(h, r)
    \/ ReadRevoke(h, r) \/ ReadReopen(h, r) \/ ReadRecall(h, r)
    \/ \E p \in Periods : ReadEdit(h, r, p) \/ ReadModify(h, r, p)

\* The part of a handler that no approval request is involved in.
Local ==
    /\ \/ \E r \in Requests, p \in Periods : Create(r, p)
       \/ \E h \in Handlers, r \in Requests : ClientRead(h, r)
       \/ \E h \in Handlers :
            /\ creating[h] = "no"
            /\ \/ RevokeReadsLedger(h) \/ Rollback(h)
               \/ tx[h] # Idle /\ ~AsksApproval(h) /\ Unlocked(h) /\ Write(h)
       \/ Midnight
    /\ UNCHANGED <<creating, remote>>

\* submit_request after its UPDATE.
PostCreate(h) ==
    /\ AsksApproval(h) /\ Exists(tx[h].req) /\ Unlocked(h)
    /\ creating[h] = "no"
    /\ creating' = [creating EXCEPT ![h] = "posted"]
    /\ UNCHANGED <<vars, remote>>

\* The answer to the POST is not looked at.
HastyCommitSubmission(h) ==
    /\ creating[h] # "no"
    /\ Submit(h)
    /\ creating' = [creating EXCEPT ![h] = "no"]
    /\ UNCHANGED remote

\* The POST was answered: commit.
CommitSubmission(h) ==
    /\ creating[h] = "created"
    /\ Submit(h)
    /\ creating' = [creating EXCEPT ![h] = "no"]
    /\ UNCHANGED remote

\* The POST failed, timed out or its answer was lost: roll back.  It may be executed later.
AbandonSubmission(h) ==
    /\ creating[h] # "no"
    /\ Rollback(h)
    /\ creating' = [creating EXCEPT ![h] = "no"]
    /\ \/ UNCHANGED late
       \/ /\ creating[h] = "posted" /\ late[tx[h].req] < MaxLate
          /\ late' = [late EXCEPT ![tx[h].req] = @ + 1]
    /\ UNCHANGED <<approvals, callbacks, favoured>>

\* What the callback endpoint makes of a decision.
ReadDecision(h, c) ==
    \/ c.decision = "APPROVED" /\ ReadApprove(h, c.req)
    \/ c.decision \in {"REJECTED", "CANCELLED"} /\ ReadReject(h, c.req)
    \/ c.decision = "APPROVED_CONDITIONAL" /\ ReadApproveConditional(h, c.req)

\* The status is not looked at again when the callback comes.
LateDeliver(h, c) ==
    /\ c \in callbacks
    /\ Exists(c.req) /\ status[c.req] # "DRAFT"
    /\ c.decision = "APPROVED" /\ Open(h, "approve", c.req, period[c.req])
    /\ callbacks' = callbacks \ {c}
    /\ UNCHANGED <<creating, approvals, late, favoured>>

\* A rejection is taken for an approval.
ConfusedDeliver(h, c) ==
    /\ c \in callbacks
    /\ IF c.decision = "REJECTED" THEN ReadApprove(h, c.req) ELSE ReadDecision(h, c)
    /\ callbacks' = callbacks \ {c}
    /\ UNCHANGED <<creating, approvals, late, favoured>>

\* handle_approval_callback of a leave that is PENDING: the operation starts.
Deliver(h, c) ==
    /\ c \in callbacks
    /\ ReadDecision(h, c)
    /\ callbacks' = callbacks \ {c}
    /\ UNCHANGED <<creating, approvals, late, favoured>>

\* Of any other: it is answered and forgotten.
Ignore(c) ==
    /\ c \in callbacks
    /\ status[c.req] # "PENDING"
    /\ callbacks' = callbacks \ {c}
    /\ UNCHANGED <<vars, creating, approvals, late, favoured>>

Lose(c) ==
    /\ Lossy
    /\ c \in callbacks
    /\ callbacks' = callbacks \ {c}
    /\ UNCHANGED <<vars, creating, approvals, late, favoured>>

-----------------------------------------------------------------------------
(* The approvals service *)

\* The duplicate check of create_approval_request never refuses, but its query raises
\* once there are two requests for the entity.
NewApproval(r) ==
    /\ Len(approvals[r]) < 2
    /\ approvals' = [approvals EXCEPT ![r] = Append(@, [agreed |-> FALSE, deciding |-> "none"])]

CreateApproval(h) ==
    /\ creating[h] = "posted"
    /\ NewApproval(tx[h].req)
    /\ creating' = [creating EXCEPT ![h] = "created"]
    /\ UNCHANGED <<vars, late, callbacks, favoured>>

\* A POST that is executed twice.
RepeatedLateCreate(r) ==
    /\ late' = [late EXCEPT ![r] = @ - 1]
    /\ NewApproval(r)
    /\ UNCHANGED <<vars, creating, callbacks, favoured>>

LateCreate(r) ==
    /\ late[r] > 0
    /\ late' = [late EXCEPT ![r] = @ - 1]
    /\ \/ NewApproval(r)
       \/ Len(approvals[r]) >= 2 /\ UNCHANGED approvals
    /\ UNCHANGED <<vars, creating, callbacks, favoured>>

\* The UPDATE that locks the approval request, and the callback.  approve_request,
\* reject_request and cancel_request do not ask for the status; the engine behind
\* approve_conditional_request wants PENDING, but of a status read before the lock, so a
\* slow handler still decides a request that has been decided.
TakeDecision(r, n, d) ==
    /\ approvals[r][n].deciding = "none"
    /\ approvals' = [approvals EXCEPT ![r][n].deciding = d]
    /\ callbacks' = callbacks \cup {[req |-> r, decision |-> d]}
    /\ favoured' = [favoured EXCEPT ![r] = @ \/ d \in Favourable]
    /\ UNCHANGED <<vars, creating, late>>

\* The commit of the decision, after the answer or the time-out.  What the engine makes
\* of a conditional approval is left open.
CommitDecision(r, n) ==
    LET d == approvals[r][n].deciding IN
    /\ d # "none"
    /\ \E a \in IF d = "APPROVED_CONDITIONAL" THEN BOOLEAN ELSE {d = "APPROVED"} :
         approvals' = [approvals EXCEPT ![r][n] = [agreed |-> a, deciding |-> "none"]]
    /\ UNCHANGED <<vars, creating, late, callbacks, favoured>>

AbortDecision(r, n) ==
    /\ approvals[r][n].deciding # "none"
    /\ approvals' = [approvals EXCEPT ![r][n].deciding = "none"]
    /\ UNCHANGED <<vars, creating, late, callbacks, favoured>>

-----------------------------------------------------------------------------

SyncNext ==
    \/ Local
    \/ \E h \in Handlers :
        \/ PostCreate(h) \/ CreateApproval(h) \/ CommitSubmission(h) \/ AbandonSubmission(h)
        \/ \E c \in callbacks : Deliver(h, c)
    \/ \E c \in callbacks : Ignore(c) \/ Lose(c)
    \/ \E r \in Requests : LateCreate(r)
    \/ \E r \in Requests : \E n \in DOMAIN approvals[r] :
        \/ \E d \in Answers : TakeDecision(r, n, d)
        \/ CommitDecision(r, n) \/ AbortDecision(r, n)

SyncSpec == SyncInit /\ [][SyncNext]_syncVars

-----------------------------------------------------------------------------

\* The leaves service behaves as LeaveWorkflow says, whatever the approvals service
\* sends it and when: everything shown of Spec holds here.
LeavesKeepTheirWorkflow == Spec

\* A leave that waits for approval has an approval request to wait for, although either
\* transaction may fail without the other (without reopen, which asks for none).
SubmittedHasApproval ==
    \A r \in RequiresApproval : status[r] = "PENDING" => approvals[r] # <<>>

\* Days are charged, and a leave approved, only if an approver said so, whatever decisions
\* are late, lost, taken back or overtaken by another request for the same leave.
ApprovedByDecision ==
    \A r \in RequiresApproval :
        status[r] = "APPROVED" \/ usage[r] > 0
            => favoured[r]

\* "Handle callback from Approval Service when a leave request is resolved"
\* (routers/internal.py): once nothing is under way, the leave of an approved request
\* is not pending.
Quiet ==
    /\ callbacks = {}
    /\ \A h \in Handlers : tx[h] = Idle
    /\ \A r \in Requests : \A n \in DOMAIN approvals[r] : approvals[r][n].deciding = "none"

DecisionReachesLeave ==
    Quiet => \A r \in Requests :
        (\E n \in DOMAIN approvals[r] : approvals[r][n].agreed)
            => status[r] # "PENDING"
=============================================================================
