--------------------------- MODULE MCLeaveBalance ---------------------------
(* Small instances of LeaveBalance: two requests of one hundredth in a year of two  *)
(* months, of which the second is short, under the default settings and the laxest; *)
(* and two requests of one and two hundredths in a year of one month.  The rate is  *)
(* no whole number of hundredths.                                                   *)
EXTENDS LeaveBalance, TLC

CONSTANTS r1, r2, h1, h2

TwoRequests == {r1, r2}
TwoHandlers == {h1, h2}
OneEach == [r \in TwoRequests |-> 3]
OneAndTwo == [r \in TwoRequests |-> IF r = r1 THEN 3 ELSE 6]
OneFull == [m \in 1 .. 1 |-> 30]
FullThenShort == <<30, 10>>

\* The default settings: an insufficient balance blocks, somebody approves.
DefaultPolicy == {[blocks |-> TRUE, approval |-> TRUE]}

\* The default settings, and those under which nothing blocks and nobody approves.
DefaultAndLax == DefaultPolicy \union {[blocks |-> FALSE, approval |-> FALSE]}

Interchangeable == Permutations(TwoRequests) \union Permutations(TwoHandlers)
=============================================================================
