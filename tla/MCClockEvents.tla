---------------------------- MODULE MCClockEvents ----------------------------
(* A small instance of ClockEvents. *)
EXTENDS ClockEvents, TLC

At(type, time) == [type |-> type, time |-> time]

\* A session with a break, and a second clock-in at the time the break ends: before its end or
\* after it, as they are recorded. Any of these events, in any order and any of them twice, is
\* a log.
Day == {At("clock_in", 0), At("break_start", 1),
        At("break_end", 7), At("clock_in", 7), At("clock_out", 8)}

RequestSymmetry == Permutations(Requests)
=============================================================================
