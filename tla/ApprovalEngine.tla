--------------------------- MODULE ApprovalEngine ---------------------------
(***************************************************************************)
(* One approval request of the approvals service: its decision rows, the   *)
(* workflow engine that counts them under the mode of the workflow, and    *)
(* the handlers that set its status without the engine.                    *)
(*                                                                         *)
(* approve_request, reject_request and cancel_request write the status     *)
(* directly; approve_conditional_request and delegate_request go through   *)
(* WorkflowEngine.process_decision.  Each handler is one READ COMMITTED    *)
(* transaction: it reads request and decisions once (Read...) and commits  *)
(* under the lock its UPDATE of the request takes (Decide, Settle).  The   *)
(* engine counts approvals over the decisions it read first; which rows    *)
(* are still pending it asks the database in between (CountPending), after *)
(* an UPDATE of its own row that no other transaction sees yet.            *)
(*                                                                         *)
(* Nothing sets expires_at, so the expiration task finds no request and is *)
(* left out.                                                               *)
(***************************************************************************)
EXTENDS Integers, Sequences, FiniteSets

CONSTANTS
    Approvers,      \* sequence of the users assign_approvers was given, in order
    Admins,         \* users with override_authority
    Handlers,       \* handlers that may run at the same time
    MaxRows         \* bound on the decision rows

N == Len(Approvers)
Users == {Approvers[i] : i \in 1 .. N} \cup Admins
Modes == {"ANY", "ALL", "SEQUENTIAL", "MAJORITY"}

\* ApprovalStatus, without the two values only the expiration task sets.
Status == {"PENDING", "APPROVED", "REJECTED", "CANCELLED", "APPROVED_CONDITIONAL"}

\* What process_decision is called with, and "none" for a pending row.
Decisions == {"none", "APPROVED_CONDITIONAL", "DELEGATED"}
DirectStatus == {"APPROVED", "REJECTED", "CANCELLED"}

ASSUME EngineAssumption ==
    /\ N \in Nat \ {0}
    /\ \A i, j \in 1 .. N : Approvers[i] = Approvers[j] => i = j
    /\ MaxRows \in Nat /\ MaxRows >= N

VARIABLES
    mode,           \* approval_mode of the workflow, fixed
    status,         \* ApprovalRequest.status
    level,          \* current_level
    rows,           \* ApprovalDecision rows, in order of creation
    tx,             \* what each running handler has read and is about to do
    resolver,       \* history: who set the status last
    approved        \* history: rows that have held an approval

vars == <<mode, status, level, rows, tx, resolver, approved>>

Row == [holder : Users, level : 1 .. N, decision : Decisions]

\* A decision read, and then counted: own says that the row was the user's; row 0 stands
\* for the row an administrator's forced decision creates; pending are the others' rows.
DecideTx == [kind : {"decide", "count"}, user : Users, decision : Decisions \ {"none"},
             own : BOOLEAN, row : 0 .. MaxRows, level : 1 .. N, votes : Seq(Decisions),
             pending : SUBSET (1 .. MaxRows)]
SettleTx == [kind : {"settle"}, target : DirectStatus, seen : Status]
Idle == [kind |-> "idle"]

TypeOK ==
    /\ mode \in Modes
    /\ status \in Status
    /\ level \in 1 .. N
    /\ rows \in Seq(Row) /\ Len(rows) \in N .. MaxRows
    /\ tx \in [Handlers -> DecideTx \cup SettleTx \cup {Idle}]
    /\ resolver \in {"nobody", "engine", "direct"}
    /\ approved \subseteq 1 .. MaxRows

\* assign_approvers: levels follow the order in SEQUENTIAL mode, all are 1 otherwise.
AssignedRow(i, m) ==
    [holder |-> Approvers[i], level |-> IF m = "SEQUENTIAL" THEN i ELSE 1, decision |-> "none"]

Init ==
    /\ mode \in Modes
    /\ status = "PENDING"
    /\ level = 1
    /\ rows = [i \in 1 .. N |-> AssignedRow(i, mode)]
    /\ tx = [h \in Handlers |-> Idle]
    /\ resolver = "nobody"
    /\ approved = {}

-----------------------------------------------------------------------------
(* The engine's questions *)

MaxLevel == IF mode = "SEQUENTIAL" THEN N ELSE 1

\* Half of the approvers is no majority.
HalfRequired == CASE mode = "ANY" -> 1 [] mode = "MAJORITY" -> N \div 2 [] OTHER -> N

\* _calculate_required_approvals.
Required == CASE mode = "ANY" -> 1 [] mode = "MAJORITY" -> (N \div 2) + 1 [] OTHER -> N

RowsOf(u) == {i \in DOMAIN rows : rows[i].holder = u}
Pending(rs) == {i \in DOMAIN rs : rs[i].decision = "none"}
Approvals(votes) == {i \in DOMAIN votes : votes[i] = "APPROVED_CONDITIONAL"}

\* The row user u decides on: the one he holds; for an administrator who holds none,
\* a pending one (of the current level in SEQUENTIAL mode), else a new one.
OverrideRows ==
    IF mode = "SEQUENTIAL" THEN {i \in Pending(rows) : rows[i].level = level} ELSE Pending(rows)

DecidableRows(u) ==
    IF RowsOf(u) # {} THEN IF Cardinality(RowsOf(u)) = 1 THEN RowsOf(u) ELSE {}
    ELSE IF u \notin Admins THEN {}
    ELSE IF OverrideRows # {} THEN OverrideRows ELSE {0}

\* _update_request_status, after decision d with the votes vs and the request's level l
\* as first read; ps are the rows still pending.
Complete(d, vs, l, ps) ==
    CASE mode = "ANY" -> d = "APPROVED_CONDITIONAL"
      [] mode = "ALL" -> ps = {} /\ Cardinality(Approvals(vs)) >= Required
      [] mode = "MAJORITY" -> Cardinality(Approvals(vs)) >= Required
      [] mode = "SEQUENTIAL" ->
            /\ d = "APPROVED_CONDITIONAL"
            /\ \A i \in ps : rows[i].level # l
            /\ l >= MaxLevel

\* A level too many; a level left to its first decision.
EagerAdvances(d, l, ps) ==
    /\ mode = "SEQUENTIAL" /\ d = "APPROVED_CONDITIONAL"
    /\ \A i \in ps : rows[i].level # l
    /\ l <= MaxLevel

HastyAdvances(d, l, ps) ==
    /\ mode = "SEQUENTIAL" /\ d = "APPROVED_CONDITIONAL"
    /\ l < MaxLevel

\* SEQUENTIAL: the level is done and there is another.
Advances(d, l, ps) ==
    /\ mode = "SEQUENTIAL" /\ d = "APPROVED_CONDITIONAL"
    /\ \A i \in ps : rows[i].level # l
    /\ l < MaxLevel

\* A forced decision is not among the votes the request was loaded with.
Resolution(vs) ==
    IF mode = "ANY" \/ Approvals(vs) # {} THEN "APPROVED_CONDITIONAL" ELSE "APPROVED"

-----------------------------------------------------------------------------
(* First part of a handler *)

\* Without the check of the turn.
AnyTurnRead(h, u, d) ==
    /\ tx[h] = Idle
    /\ status = "PENDING"
    /\ \E i \in DecidableRows(u) :
        /\ i = 0 => Len(rows) < MaxRows
        /\ i # 0 => rows[i].decision = "none"
        /\ tx' = [tx EXCEPT ![h] =
                    [kind |-> "decide", user |-> u, decision |-> d, own |-> RowsOf(u) # {},
                     row |-> i, level |-> level,
                     votes |-> [k \in DOMAIN rows |-> rows[k].decision], pending |-> {}]]
    /\ UNCHANGED <<mode, status, level, rows, resolver, approved>>

\* process_decision up to its checks: pending request, an undecided row of the user, and
\* his turn, which an administrator need not wait for.
ReadDecision(h, u, d) ==
    /\ tx[h] = Idle
    /\ status = "PENDING"
    /\ \E i \in DecidableRows(u) :
        /\ i = 0 => Len(rows) < MaxRows
        /\ i # 0 => rows[i].decision = "none"
        /\ u \notin Admins /\ mode = "SEQUENTIAL" => rows[i].level = level
        /\ tx' = [tx EXCEPT ![h] =
                    [kind |-> "decide", user |-> u, decision |-> d, own |-> RowsOf(u) # {},
                     row |-> i, level |-> level,
                     votes |-> [k \in DOMAIN rows |-> rows[k].decision], pending |-> {}]]
    /\ UNCHANGED <<mode, status, level, rows, resolver, approved>>

\* approve_request, reject_request, cancel_request: no check of the status, of the caller
\* or of the mode.
ReadRequest(h, s) ==
    /\ tx[h] = Idle
    /\ tx' = [tx EXCEPT ![h] = [kind |-> "settle", target |-> s, seen |-> status]]
    /\ UNCHANGED <<mode, status, level, rows, resolver, approved>>

-----------------------------------------------------------------------------
(* Second part: UPDATEs and commit *)

\* The UPDATE of the row waits for another one under way; then the rows that are pending
\* in committed state.
CountPending(h) ==
    /\ tx[h].kind = "decide"
    /\ \A g \in Handlers : tx[g].kind = "count" => tx[g].row = 0 \/ tx[g].row # tx[h].row
    /\ tx' = [tx EXCEPT ![h].kind = "count", ![h].pending = Pending(rows) \ {tx[h].row}]
    /\ UNCHANGED <<mode, status, level, rows, resolver, approved>>

\* The row tx t leaves in the place of its own, or adds.
Decided(t) ==
    [holder |-> IF t.own THEN rows[t.row].holder ELSE t.user,
     level |-> IF t.row = 0 THEN t.level ELSE rows[t.row].level,
     decision |-> t.decision]

\* The decision row and what the engine makes of it.
Decide(h) ==
    LET t == tx[h]
        i == IF t.row = 0 THEN Len(rows) + 1 ELSE t.row
        votes == IF t.row = 0 THEN t.votes ELSE [t.votes EXCEPT ![i] = t.decision]
        resolved == Complete(t.decision, votes, t.level, t.pending)
    IN  /\ t.kind = "count"
        /\ i <= MaxRows
        /\ rows' = [k \in DOMAIN rows \cup {i} |-> IF k = i THEN Decided(t) ELSE rows[k]]
        /\ status' = IF resolved THEN Resolution(votes) ELSE status
        /\ level' = IF Advances(t.decision, t.level, t.pending) THEN t.level + 1 ELSE level
        /\ resolver' = IF resolved THEN "engine" ELSE resolver
        /\ approved' = IF t.decision = "APPROVED_CONDITIONAL" THEN approved \cup {i} ELSE approved
        /\ tx' = [tx EXCEPT ![h] = Idle]
        /\ UNCHANGED mode

\* An assignment of the value that was read writes no column.
Settle(h) ==
    /\ tx[h].kind = "settle"
    /\ tx' = [tx EXCEPT ![h] = Idle]
    /\ IF tx[h].seen = tx[h].target
       THEN UNCHANGED <<status, resolver>>
       ELSE status' = tx[h].target /\ resolver' = "direct"
    /\ UNCHANGED <<mode, level, rows, approved>>

Rollback(h) ==
    /\ tx[h] # Idle
    /\ tx' = [tx EXCEPT ![h] = Idle]
    /\ UNCHANGED <<mode, status, level, rows, resolver, approved>>

Next ==
    \E h \in Handlers :
        \/ \E u \in Users, d \in Decisions \ {"none"} : ReadDecision(h, u, d)
        \/ \E s \in DirectStatus : ReadRequest(h, s)
        \/ CountPending(h)
        \/ Decide(h)
        \/ Settle(h)
        \/ Rollback(h)

Spec == Init /\ [][Next]_vars

-----------------------------------------------------------------------------
(* What the engine keeps, however its callers interleave. *)

\* The engine resolves a request only on the approvals its mode asks for, although it
\* counts them over decisions other handlers may have changed since.
EngineQuorum ==
    resolver = "engine" =>
        CASE mode = "ANY" -> approved # {}
          [] mode = "SEQUENTIAL" -> Pending(rows) = {}
          [] mode = "ALL" -> Cardinality(approved) >= N
          [] mode = "MAJORITY" -> 2 * Cardinality(approved) > N

\* The request does not leave a level before every approver of it has decided, although
\* current_level is computed from a stale value and may go back.
LevelComplete == \A i \in Pending(rows) : rows[i].level >= level

\* Approvers decide in order: a row decided by someone who is no administrator has
\* nobody pending before it.
DecidedInOrder ==
    mode = "SEQUENTIAL" =>
        \A i \in DOMAIN rows \ Pending(rows) :
            rows[i].holder \notin Admins =>
                \A j \in Pending(rows) : rows[j].level >= rows[i].level
=============================================================================
