---------------------------- MODULE MCTimesheets ----------------------------
(* A small instance of Timesheets: two months of two days and of one, the deadline  *)
(* on the second day of the next month, which falls back on its last, or on the    *)
(* first of the same month; two requests of the employee at a time.                *)
EXTENDS Timesheets, TLC

CONSTANTS c1, c2

TwoClients == {c1, c2}
Interchangeable == Permutations(TwoClients)
TwoAndOneDays == <<2, 1>>
SomeSettings == {<<2, 1>>, <<1, 0>>}
=============================================================================
