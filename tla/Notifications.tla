--------------------------- MODULE Notifications ---------------------------
(***************************************************************************)
(* The notification queue and the retry of failed e-mails.                 *)
(*                                                                         *)
(* Two tasks of the scheduler work on them, and both read first and write  *)
(* later without claiming what they read: process_queue (every minute, and *)
(* at the end of every bulk request) settles the oldest pending            *)
(* notifications; process_email_retries (every five minutes) tries the     *)
(* oldest failed e-mails again.  Meanwhile services add notifications and  *)
(* users mark theirs read.  A run that crashes leaves nothing but what it  *)
(* had committed.                                                          *)
(*                                                                         *)
(* A row is as old as the transaction that adds it: created_at is the      *)
(* transaction's now().  So a row committed late stands before rows that   *)
(* were in the queue already.                                              *)
(*                                                                         *)
(* What a channel does is fixed by the code: an in-app notification is     *)
(* sent by being settled; the senders for e-mail and push raise on every   *)
(* notification (they use attributes that do not exist), and so does every *)
(* call of the e-mail provider.                                            *)
(***************************************************************************)
EXTENDS Integers, FiniteSets

CONSTANTS
    Ids,                \* notifications that exist at a time; an id stands for many in turn
    InApp,              \* those on the in_app channel
    Beats, Callers,     \* runs of the queue task; requests that add notifications
    Limit,              \* batch_size
    Mails,              \* e-mail logs, numbered by created_at
    Retriers,           \* runs of the retry task
    RetryLimit,         \* the limit of get_pending_retries
    MaxRetries          \* its bound on retry_count

Workers == Beats \cup Callers

ASSUME NotificationsAssumption ==
    /\ InApp \subseteq Ids
    /\ Limit \in Nat \ {0}
    /\ Mails \subseteq Nat
    /\ MaxRetries \in Nat \ {0}
    /\ RetryLimit \in Nat \ {0}
    /\ Beats \cap Callers = {}

VARIABLES
    status,             \* Notification.status; NONE: no such row, or not committed yet
    read,               \* read_at is set
    older,              \* the rows with an earlier created_at than each row's
    run,                \* what each transaction on the queue has picked, and added itself
    mail, tries,        \* EmailLog.status, retry_count
    template,           \* the e-mails' template is active
    retry               \* what each run of the retry task has left, and has not committed

queue == <<status, read, older, run>>
mails == <<mail, tries, template, retry>>
vars == <<queue, mails>>

Status == {"NONE", "pending", "sent", "failed", "read"}
MailStatus == {"NONE", "PENDING", "FAILED"}
Idle == [ids |-> {}, new |-> {}]
Asleep == [left |-> {}, done |-> {}, seen |-> [e \in Mails |-> 0]]

TypeOK ==
    /\ status \in [Ids -> Status]
    /\ read \in [Ids -> BOOLEAN]
    /\ older \in [Ids -> SUBSET Ids]
    /\ run \in [Workers -> [ids : SUBSET Ids, new : SUBSET Ids]]
    /\ mail \in [Mails -> MailStatus]
    /\ tries \in [Mails -> Nat]
    /\ template \in BOOLEAN
    /\ retry \in [Retriers -> [left : SUBSET Mails, done : SUBSET Mails, seen : [Mails -> Nat]]]

Init ==
    /\ status = [n \in Ids |-> "NONE"]
    /\ read = [n \in Ids |-> FALSE]
    /\ older = [n \in Ids |-> {}]
    /\ run = [w \in Workers |-> Idle]
    /\ mail = [e \in Mails |-> "NONE"]
    /\ tries = [e \in Mails |-> 0]
    /\ template = TRUE
    /\ retry = [w \in Retriers |-> Asleep]

-----------------------------------------------------------------------------
(* The queue *)

\* The rows of the table, those that are not committed yet included.
Rows == {n \in Ids : status[n] # "NONE" \/ \E w \in Workers : n \in run[w].new}

Free(n) == n \notin Rows /\ \A w \in Workers : n \notin run[w].ids

Without(S) == [n \in Ids |-> IF n \in S THEN {} ELSE older[n] \ S]

\* create_notification, alone or in send_bulk (one row of it, here): a transaction begins
\* and adds a row.  No caller gives a status, so the row is pending and the immediate
\* sending of queued rows never happens.
Create(w, n) ==
    /\ run[w] = Idle
    /\ Free(n)
    /\ run' = [run EXCEPT ![w].new = {n}]
    /\ older' = [older EXCEPT ![n] = Rows]
    /\ UNCHANGED <<status, read, mails>>

\* Bound, not code: a settled notification is left out of sight, and its id taken again.
Forget(n) ==
    /\ status[n] \in {"sent", "failed", "read"}
    /\ \A w \in Workers : n \notin run[w].ids
    /\ status' = [status EXCEPT ![n] = "NONE"]
    /\ read' = [read EXCEPT ![n] = FALSE]
    /\ older' = Without({n})
    /\ UNCHANGED <<run, mails>>

Pending(n) == status[n] = "pending"

\* What a transaction sees of the queue: what is committed, and what it has added.
InQueue(new) == {n \in Ids : Pending(n)} \cup new

\* Newest first.
NewestBatch(new) ==
    {n \in InQueue(new) : Cardinality({m \in InQueue(new) : n \in older[m]}) < Limit}

\* get_queued: the oldest pending ones.
Batch(new) == {n \in InQueue(new) : Cardinality(InQueue(new) \cap older[n]) < Limit}

\* process_queue, run by the task or at the end of send_bulk in its transaction: it reads
\* a batch.
ReadBatch(w) ==
    /\ run[w].ids = {}
    /\ w \in Callers => run[w].new # {}
    /\ Batch(run[w].new) # {}
    /\ run' = [run EXCEPT ![w].ids = Batch(run[w].new)]
    /\ UNCHANGED <<status, read, older, mails>>

\* Failures put back, to be tried again.
RequeuedOutcome(n) == IF n \in InApp THEN "sent" ELSE "pending"

\* The name of the status where its value should be.
NamedOutcome(n) == IF n \in InApp THEN "SENT" ELSE "FAILED"

\* mark_sent or mark_failed.
Outcome(n) == IF n \in InApp THEN "sent" ELSE "failed"

\* The statuses are written over whatever was committed since the batch was read, and
\* what was added is there for the others.  A create_notification alone has read no batch.
CommitBatch(w) ==
    /\ run[w] # Idle
    /\ status' = [n \in Ids |-> IF n \in run[w].ids THEN Outcome(n)
                                ELSE IF n \in run[w].new THEN "pending" ELSE status[n]]
    /\ run' = [run EXCEPT ![w] = Idle]
    /\ UNCHANGED <<read, older, mails>>

AbortBatch(w) ==
    /\ run[w] # Idle
    /\ run' = [run EXCEPT ![w] = Idle]
    /\ older' = Without(run[w].new)
    /\ UNCHANGED <<status, read, mails>>

\* Only read_at is set.
UnsettledMark(S) ==
    /\ read' = [n \in Ids |-> n \in S \/ read[n]]
    /\ UNCHANGED <<status, older, run, mails>>

Mark(S) ==
    /\ status' = [n \in Ids |-> IF n \in S THEN "read" ELSE status[n]]
    /\ read' = [n \in Ids |-> n \in S \/ read[n]]
    /\ UNCHANGED <<older, run, mails>>

\* mark_read: any status, any channel.
MarkRead(n) == status[n] # "NONE" /\ Mark({n})

\* mark_all_read: all without read_at, those still in the queue too.
MarkAllRead ==
    LET unread == {n \in Ids : status[n] # "NONE" /\ ~read[n]} IN
    unread # {} /\ Mark(unread)

-----------------------------------------------------------------------------
(* E-mail logs *)

\* send_email: the template is looked up, a log is added and the provider is called, in
\* one transaction.
SendEmail(e) ==
    /\ mail[e] = "NONE"
    /\ template
    /\ mail' = [mail EXCEPT ![e] = "FAILED"]
    /\ tries' = [tries EXCEPT ![e] = 1]
    /\ UNCHANGED <<queue, template, retry>>

\* An administrator deactivates or activates the template.
SwitchTemplate == template' = ~template /\ UNCHANGED <<queue, mail, tries, retry>>

\* One try too many.
LaterRetryable(e) == mail[e] = "FAILED" /\ tries[e] <= MaxRetries

Retryable(e) == mail[e] = "FAILED" /\ tries[e] < MaxRetries

\* get_pending_retries: the oldest ones.
Retries == {e \in Mails : Retryable(e) /\ Cardinality({f \in Mails : f < e /\ Retryable(f)}) < RetryLimit}

ReadRetries(w) ==
    /\ retry[w] = Asleep
    /\ Retries # {}
    /\ retry' = [retry EXCEPT ![w] = [left |-> Retries, done |-> {},
                                      seen |-> [e \in Mails |-> IF e \in Retries THEN tries[e] ELSE 0]]]
    /\ UNCHANGED <<queue, mail, tries, template>>

\* A failed try that is not counted.
UncountedWriteRetries(w, failed, tried) ==
    /\ tries' = tries
    /\ mail' = [e \in Mails |-> IF e \in failed \cup tried THEN "FAILED" ELSE mail[e]]

\* update_status(FAILED), counted on the value read, and schedule_retry below the limit.
WriteRetries(w, failed, tried) ==
    /\ tries' = [e \in Mails |-> IF e \in failed \cup tried THEN retry[w].seen[e] + 1 ELSE tries[e]]
    /\ mail' = [e \in Mails |->
                  IF e \in failed THEN "FAILED"
                  ELSE IF e \in tried
                       THEN IF retry[w].seen[e] + 1 < MaxRetries THEN "PENDING" ELSE "FAILED"
                  ELSE mail[e]]

\* The next e-mail.  The first UPDATE waits for another run's.  Without its template
\* everything so far is committed; with it the sending fails.
RetryOne(w, e) ==
    /\ e \in retry[w].left /\ \A f \in retry[w].left : e <= f
    /\ \A v \in Retriers \ {w} : e \notin retry[v].done
    /\ IF template
       THEN /\ retry' = [retry EXCEPT ![w].left = @ \ {e}, ![w].done = @ \cup {e}]
            /\ UNCHANGED <<mail, tries>>
       ELSE /\ retry' = [retry EXCEPT ![w].left = @ \ {e}, ![w].done = {}]
            /\ WriteRetries(w, {e}, retry[w].done)
    /\ UNCHANGED <<queue, template>>

CommitRetries(w) ==
    /\ retry[w] # Asleep /\ retry[w].left = {}
    /\ WriteRetries(w, {}, retry[w].done)
    /\ retry' = [retry EXCEPT ![w] = Asleep]
    /\ UNCHANGED <<queue, template>>

AbortRetries(w) ==
    /\ retry[w] # Asleep
    /\ retry' = [retry EXCEPT ![w] = Asleep]
    /\ UNCHANGED <<queue, mail, tries, template>>

QueueNext ==
    \/ \E w \in Callers, n \in Ids : Create(w, n)
    \/ \E n \in Ids : Forget(n) \/ MarkRead(n)
    \/ MarkAllRead
    \/ \E w \in Workers : ReadBatch(w) \/ CommitBatch(w) \/ AbortBatch(w)

MailNext ==
    \/ \E e \in Mails : SendEmail(e)
    \/ SwitchTemplate
    \/ \E w \in Retriers :
        \/ ReadRetries(w) \/ CommitRetries(w) \/ AbortRetries(w)
        \/ \E e \in Mails : RetryOne(w, e)

Next == QueueNext \/ MailNext

\* The scheduler starts the tasks again and again, and not every run crashes: a run that
\* can be started is, and of the runs that come to an end some commit.  Nothing is
\* assumed of the requests that add notifications and of the users.
Fairness ==
    /\ \A w \in Beats : WF_vars(ReadBatch(w)) /\ SF_vars(CommitBatch(w))
    /\ \A w \in Retriers :
        /\ WF_vars(ReadRetries(w))
        /\ \A e \in Mails : SF_vars(RetryOne(w, e))
        /\ SF_vars(CommitRetries(w))

Spec == Init /\ [][Next]_vars /\ Fairness

-----------------------------------------------------------------------------
\* A notification that was read, alone or with all others, is not in the queue.
PendingIsUnread == \A n \in Ids : Pending(n) => ~read[n]

\* Every notification leaves the queue, however many come after it and whatever crashes:
\* the oldest are taken first and no failure goes back.
QueueDrains == \A n \in Ids : Pending(n) ~> ~Pending(n)

\* A run never puts back into the queue what another run or the user has settled.
SettledStays ==
    [][\A n \in Ids : status[n] \in {"sent", "failed", "read"} => status'[n] # "pending"]_vars

\* "Max 3 retries" (repositories/email.py): the count never passes the limit, also when
\* two runs of the task overlap or the template comes and goes.
TriesBounded == \A e \in Mails : tries[e] <= MaxRetries

\* A failed e-mail below the limit is not left as it is: it is tried until it leaves the
\* retry list.
FailedIsRetried == \A e \in Mails : Retryable(e) ~> ~Retryable(e)
=============================================================================
