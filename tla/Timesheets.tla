----------------------------- MODULE Timesheets -----------------------------
(***************************************************************************)
(* The monthly timesheets of one employee.  A sheet is generated when      *)
(* somebody first asks for it, from what the aggregator gathers from the   *)
(* other services, and is never gathered anew: the nightly task that was   *)
(* to do so fails for every employee before it reaches the sheet.  The     *)
(* employee confirms it up to a deadline that the settings fix.            *)
(*                                                                         *)
(* No constraint keeps sheets of one month apart, and a handler reads,     *)
(* waits for the aggregator and then writes, in a READ COMMITTED           *)
(* transaction.                                                            *)
(*                                                                         *)
(* A sheet is filled with the days that have come.  Leaves and trips never *)
(* reach it: the aggregator asks endpoints that the leaves and expenses    *)
(* services do not have, and takes the default, none.                      *)
(***************************************************************************)
EXTENDS Integers, Sequences, FiniteSetsExt

CONSTANTS
    Clients,            \* requests of the employee that may run at the same time
    LastMonth,          \* bound: the calendar ends with month LastMonth
    DaysIn,             \* [1 .. LastMonth -> Nat \ {0}]: days of each month
    Settings            \* set of <<confirmation day, month offset>>

Months == 1 .. LastMonth

ASSUME TimesheetAssumption ==
    /\ LastMonth \in Nat \ {0}
    /\ DaysIn \in [Months -> Nat \ {0}]
    /\ Settings # {} /\ Settings \subseteq (Nat \ {0}) \X {0, 1}

VARIABLES
    sheets,             \* rows of each month, in the order of their insertion
    today,              \* the day, counted from the first of month 1
    updated,            \* day of the last run of the nightly task, 0 before the first
    settings,           \* timesheet_confirmation_day and _month_offset
    tx,                 \* what each running handler has read
    raced               \* history: months written by a handler that had read something older

vars == <<sheets, today, updated, settings, tx, raced>>

-----------------------------------------------------------------------------
(* Calendar *)

First(m) == 1 + MapThenSumSet(LAMBDA k : DaysIn[k], 1 .. m - 1)
Last(m) == First(m) + DaysIn[m] - 1
Days == 1 .. Last(LastMonth)
Current(m) == today \in First(m) .. Last(m)

\* check_confirmation_window: the day of the settings, or the last of a shorter month.
\* A deadline after the end of the calendar does not come.
Deadline(m) ==
    LET target == m + settings[2] IN
    IF target > LastMonth THEN Last(LastMonth) + 1
    ELSE First(target) + Min({settings[1], DaysIn[target]}) - 1

\* Day d held within month m.
Held(d, m) == Min({Max({d, First(m) - 1}), Last(m)})

\* The month of the answer not held to.
UnboundedFacts(m) == today

\* get_employee_daily_attendance_range: the days of the month up to the one reached are
\* filled as worked, the others left open.
FactsOf(m) == Held(today, m)

\* What it answers when the lookup of the employee, or anything unforeseen, fails: no days.
\* The answers of the other services it does without.
Blank == -1

Idle == [op |-> "idle"]

\* days: the last day filled; confirmed: the day of confirmed_at, 0 for a draft.
Sheets(m) ==
    [days : {Blank} \cup (First(m) - 1 .. Last(m)), confirmed : {0} \cup Days]

TypeOK ==
    /\ DOMAIN sheets = Months
    /\ \A m \in Months : sheets[m] \in Seq(Sheets(m))
    /\ today \in Days
    /\ updated \in {0} \cup Days
    /\ settings \in Settings
    /\ raced \subseteq Months
    /\ \A h \in Clients :
        \/ tx[h] = Idle
        \/ /\ tx[h].op \in {"view", "confirm"}
           /\ tx[h].month \in Months /\ tx[h].row \in {0, 1} /\ tx[h].fetched \in BOOLEAN

Init ==
    /\ sheets = [m \in Months |-> <<>>]
    /\ today = 1
    /\ updated = 0
    /\ settings \in Settings
    /\ tx = [h \in Clients |-> Idle]
    /\ raced = {}

-----------------------------------------------------------------------------
(* Handlers *)

\* Only drafts looked for.
DraftRow(m) == Len(SelectSeq(sheets[m], LAMBDA s : s.confirmed = 0))

\* get_or_create_timesheet: the row of the month, 0 when it is to be generated.
Row(m) == Len(sheets[m])

\* Confirmed again as often as asked for.
HeedlessWanted(op, m, row) == row = 1 => op = "confirm"

\* A look generates what is missing; a confirmation is refused when there is one.
Wanted(op, m, row) == row = 1 => op = "confirm" /\ sheets[m][row].confirmed = 0

\* The lookup fails on two rows.
Read(h, op, m) ==
    /\ tx[h] = Idle
    /\ Len(sheets[m]) <= 1
    /\ Wanted(op, m, Row(m))
    /\ tx' = [tx EXCEPT ![h] = [op |-> op, month |-> m, row |-> Row(m), seen |-> sheets[m],
                                fetched |-> Row(m) = 1, data |-> Blank]]
    /\ UNCHANGED <<sheets, today, updated, settings, raced>>

\* get_timesheet_for_user
View(h, m) == Read(h, "view", m)

\* confirm_timesheet, of a month still to come too.
Confirm(h, m) == Read(h, "confirm", m)

Answered(h, data) ==
    /\ tx[h] # Idle /\ ~tx[h].fetched
    /\ tx' = [tx EXCEPT ![h].fetched = TRUE, ![h].data = data]
    /\ UNCHANGED <<sheets, today, updated, settings, raced>>

Fetch(h) == tx[h] # Idle /\ Answered(h, FactsOf(tx[h].month))

FetchFails(h) == Answered(h, Blank)

Written(h) ==
    LET t == tx[h] IN
    IF t.row = 0
    THEN Append(sheets[t.month],
                [days |-> t.data, confirmed |-> IF t.op = "confirm" THEN today ELSE 0])
    ELSE [sheets[t.month] EXCEPT ![1].confirmed = today]

\* A confirmation is refused after the deadline.
Commit(h) ==
    /\ tx[h] # Idle /\ tx[h].fetched
    /\ tx[h].op = "confirm" => today <= Deadline(tx[h].month)
    /\ sheets' = [sheets EXCEPT ![tx[h].month] = Written(h)]
    /\ raced' = IF sheets[tx[h].month] = tx[h].seen THEN raced ELSE raced \cup {tx[h].month}
    /\ tx' = [tx EXCEPT ![h] = Idle]
    /\ UNCHANGED <<today, updated, settings>>

Rollback(h) ==
    /\ tx[h] # Idle
    /\ tx' = [tx EXCEPT ![h] = Idle]
    /\ UNCHANGED <<sheets, today, updated, settings, raced>>

-----------------------------------------------------------------------------
(* The rest of the service *)

\* update_daily_timesheets, where a worker takes its queue: for each employee the identifier
\* is made with a name that is not imported; the error is logged and the next one taken.
NightlyUpdate ==
    /\ updated < today
    /\ updated' = today
    /\ UNCHANGED <<sheets, today, settings, tx, raced>>

NextDay ==
    /\ today + 1 \in Days
    /\ today' = today + 1
    /\ UNCHANGED <<sheets, updated, settings, tx, raced>>

\* update_settings
UpdateSettings(s) ==
    /\ s # settings
    /\ settings' = s
    /\ UNCHANGED <<sheets, today, updated, tx, raced>>

Next ==
    \/ \E h \in Clients, m \in Months : View(h, m) \/ Confirm(h, m)
    \/ \E h \in Clients : Fetch(h) \/ FetchFails(h) \/ Commit(h) \/ Rollback(h)
    \/ NightlyUpdate
    \/ NextDay
    \/ \E s \in Settings : UpdateSettings(s)

Spec == Init /\ [][Next]_vars

-----------------------------------------------------------------------------
\* Unless a handler wrote on a month that had changed since it read it, the month has one
\* sheet: a second one makes every lookup of the month fail from then on.
OneSheet == \A m \in Months \ raced : Len(sheets[m]) <= 1

\* Likewise, a sheet once confirmed stays as it was confirmed: neither its days nor the time
\* of its confirmation change, whatever looks and confirmations follow.
ConfirmedIsFrozen ==
    [][\A m \in Months \ raced' : \A i \in DOMAIN sheets[m] :
        sheets[m][i].confirmed # 0 => sheets'[m][i] = sheets[m][i]]_vars

(* What a comment promises and the code does not do. *)

\* "Daily task to update all employee timesheets. Runs daily (e.g., 02:00) to keep timesheets
\* up-to-date." (tasks.py): where it ran, the draft of the current month shows that day.
NightlyUpdates ==
    [][\A m \in Months :
        updated' # updated /\ Current(m) /\ Len(sheets'[m]) = 1 /\ sheets'[m][1].confirmed = 0
            => sheets'[m][1].days = FactsOf(m)]_vars
=============================================================================
