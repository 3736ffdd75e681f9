----------------------------- MODULE MCTimesheet -----------------------------
(* Small instances of Timesheet. *)
EXTENDS Timesheet

CONSTANT First   \* the timesheet that is saved more often

\* A morning of two hours, and an entry whose times are swapped.
Morning == [start |-> 9, end |-> 11, unpaid |-> 0]
Swapped == [start |-> 12, end |-> 11, unpaid |-> 0]
\* A long day with an unpaid lunch: nine hours.
LongDay == [start |-> 8, end |-> 18, unpaid |-> 1]

\* Bounds of the saves of a timesheet; the last one leaves the others as they are
\* created.
Seven == [s \in Sheets |-> 7]
Four == [s \in Sheets |-> 4]
TenAndOne == [s \in Sheets |-> IF s = First THEN 10 ELSE 1]

OneEntryKind == {Morning}
MixedEntryKinds == {LongDay, Swapped}
=============================================================================
