--------------------------- MODULE MCAvailability ---------------------------
(* Small instances of Availability: January to April 2025. *)
EXTENDS Availability, TLC

Year2025 == <<31, 28, 31, 30>>
Wednesday == 3

Plain == [start |-> 0, end |-> Never, recurring |-> FALSE, pattern |-> "none", interval |-> 1,
          days |-> {}, dayOfMonth |-> Never, from |-> Never, until |-> Never, counted |-> TRUE]

Recurring(pattern) == [Plain EXCEPT !.recurring = TRUE, !.pattern = pattern]

\* Availabilities that do not recur, with and without end; one for each pattern,
\* with and without start of the recurrence, once before the availability starts,
\* and some that are not valid.
SmallPlans ==
    {Plain, [Plain EXCEPT !.counted = FALSE],
     [Plain EXCEPT !.end = 0], [Plain EXCEPT !.start = 30, !.end = 45],
     [Recurring("DAILY") EXCEPT !.from = 29, !.until = 33, !.interval = 2],
     [Recurring("WEEKLY") EXCEPT !.days = {1, 6}, !.end = 0],
     [Recurring("WEEKLY") EXCEPT !.from = 31],
     [Recurring("BIWEEKLY") EXCEPT !.start = 31, !.days = {3}, !.from = 28],
     [Recurring("MONTHLY") EXCEPT !.dayOfMonth = 15, !.until = 60, !.counted = FALSE],
     [Recurring("MONTHLY") EXCEPT !.dayOfMonth = 31]}

Slot(from, to) == [startTime |-> from, endTime |-> to]
SmallSlotLists == {{}, {Slot(9, 17)}, {Slot(22, 6)}}

\* The first and the last of January and of February, and days next to them
RangeEnds == {0, 14, 30, 31, 44, 45, 58, 72}
OneOrNone == {{}, {31}}

Interchangeable == Permutations(Requests)
=============================================================================
