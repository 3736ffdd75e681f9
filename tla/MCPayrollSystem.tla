--------------------------- MODULE MCPayrollSystem ---------------------------
(* A small instance of PayrollSystem. *)
EXTENDS PayrollSystem

\* Bounds of the saves of a timesheet.
Six == [s \in Sheets |-> 6]

Morning == [start |-> 9, end |-> 11, unpaid |-> 0]
OneEntryKind == {Morning}
OneWeek == {[start |-> 0, end |-> 7]}
MorningTotals == {0, 2, 4}
Mondays == {0}
EveryMonday == [k \in Keys |-> 0]
=============================================================================
