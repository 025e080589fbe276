----------------------------- MODULE MCExpenses -----------------------------
(* A small instance of Expenses: one trip with a one-day and a two-day interval,  *)
(* one report, two handlers.                                                       *)
EXTENDS Expenses, TLC

CONSTANTS t1, r1, h1, h2, short, long

OneTrip == {t1}
OneReport == {r1}
TwoHandlers == {h1, h2}
Interchangeable == Permutations(TwoHandlers)
TwoPeriods == {short, long}
FirstDay == [p \in TwoPeriods |-> 1]
LastDay == [p \in TwoPeriods |-> IF p = short THEN 1 ELSE 2]
=============================================================================
