----------------------------- MODULE ClockEvents -----------------------------
(***************************************************************************)
(* The clock events of one time entry, and the duration computed from      *)
(* them: recordClockEvent and verifyClockEvent of                          *)
(* services/timesheet.service.ts.                                          *)
(*                                                                         *)
(* Workers clock in and out and take breaks. Events may be recorded in any *)
(* order (a device that was offline sends its events later), so the        *)
(* calculation sorts them by their time stamps. Recording pushes the event *)
(* inside an element of timeEntries; for such a push Mongoose compares the *)
(* document's version with the copy's, and refuses the save if another     *)
(* save came between.                                                      *)
(***************************************************************************)
EXTENDS Integers, Sequences, FiniteSets, SequencesExt

CONSTANTS
    Events,     \* the events recorded: records [type, time]
    Requests,   \* request slots
    MaxEvents,  \* bound: events of the entry
    MaxVersion  \* bound: saves of the timesheet

Types == {"clock_in", "clock_out", "break_start", "break_end"}

ASSUME EventsAssumption == Events \subseteq [type : Types, time : Int]

ASSUME LimitsAssumption == MaxEvents \in Nat /\ MaxVersion \in Nat

VARIABLES
    draft,     \* is the timesheet a draft?
    events,    \* clockEvents of the entry, in the order they were recorded
    verified,  \* the places of the events that are verified
    duration,  \* calculatedDuration of the entry
    version,   \* __v of the timesheet
    req        \* req[r]: what request slot r is doing

vars == <<draft, events, verified, duration, version, req>>

-----------------------------------------------------------------------------
\* Array.prototype.sort by time stamp: events of the same time keep their order.
Place(es, i) ==
    Cardinality({j \in DOMAIN es : \/ es[j].time < es[i].time
                                   \/ es[j].time = es[i].time /\ j <= i})

Sorted(es) == [k \in DOMAIN es |-> es[CHOOSE i \in DOMAIN es : Place(es, i) = k]]

\* What the loop knows: sum so far, time of the clock-in and of the break's
\* start (empty sets when null), break time to be taken off.
Nothing == [total |-> 0, in |-> {}, break |-> {}, breaks |-> 0]

Since(times, e) == e.time - CHOOSE t \in times : TRUE

\* Faulty variant of Clock: a break may start before the worker clocks in, and
\* a break that has started is never over.
ClockAnyBreak(k, e) ==
    CASE e.type = "clock_in" -> [k EXCEPT !.in = {e.time}]
      [] e.type = "clock_out" /\ k.in # {} ->
            [k EXCEPT !.total = @ + Since(k.in, e) - k.breaks, !.in = {}, !.breaks = 0]
      [] e.type = "break_start" -> [k EXCEPT !.break = {e.time}]
      [] e.type = "break_end" /\ k.break # {} ->
            [k EXCEPT !.breaks = @ + Since(k.break, e)]
      [] OTHER -> k

\* One turn of the loop. Neither clocking in nor out ends a break that runs.
Clock(k, e) ==
    CASE e.type = "clock_in" -> [k EXCEPT !.in = {e.time}]
      [] e.type = "clock_out" /\ k.in # {} ->
            [k EXCEPT !.total = @ + Since(k.in, e) - k.breaks, !.in = {}, !.breaks = 0]
      [] e.type = "break_start" /\ k.in # {} -> [k EXCEPT !.break = {e.time}]
      [] e.type = "break_end" /\ k.break # {} ->
            [k EXCEPT !.breaks = @ + Since(k.break, e), !.break = {}]
      [] OTHER -> k

\* Faulty variant of Duration: the events are taken in the order they came.
DurationAsRecorded(es) == FoldLeft(Clock, Nothing, es).total

\* calculateDurationFromClockEvents
Duration(es) == IF Len(es) < 2 THEN 0 ELSE FoldLeft(Clock, Nothing, Sorted(es)).total

-----------------------------------------------------------------------------
Idle == [phase |-> "idle"]

\* Every save pushes to auditLogs, and a push increments __v.
NextVersion == version < MaxVersion /\ version' = version + 1

\* recordClockEvent reads: the duration is that of the copy's events and the
\* new one.
ReadRecordClockEvent(r, e) ==
    /\ req[r] = Idle
    /\ draft
    /\ version < MaxVersion  \* the bound leaves room for the save
    /\ req' = [req EXCEPT ![r] = [phase |-> "recording", event |-> e, version |-> version,
                                  duration |-> Duration(Append(events, e))]]
    /\ UNCHANGED <<draft, events, verified, duration, version>>

\* recordClockEvent throws: the timesheet is not a draft, it has no such entry,
\* or the event comes without a type or a time.
RefuseClockEvent(r) == req[r] = Idle /\ UNCHANGED vars

\* Faulty variant of SaveClockEvent: no version is compared.
SaveUnversioned(r) ==
    /\ req[r].phase = "recording"
    /\ Len(events) < MaxEvents
    /\ events' = Append(events, req[r].event)
    /\ duration' = req[r].duration
    /\ NextVersion
    /\ req' = [req EXCEPT ![r] = Idle]
    /\ UNCHANGED <<draft, verified>>

\* Faulty variant of SaveClockEvent: the newest event is put first.
SaveFirst(r) ==
    /\ req[r].phase = "recording"
    /\ req[r].version = version
    /\ Len(events) < MaxEvents
    /\ events' = <<req[r].event>> \o events
    /\ duration' = req[r].duration
    /\ NextVersion
    /\ req' = [req EXCEPT ![r] = Idle]
    /\ UNCHANGED <<draft, verified>>

\* The save of recordClockEvent: $push of the event, $set of the duration,
\* refused (Abort) unless the version is the copy's.
SaveClockEvent(r) ==
    /\ req[r].phase = "recording"
    /\ req[r].version = version
    /\ Len(events) < MaxEvents
    /\ events' = Append(events, req[r].event)
    /\ duration' = req[r].duration
    /\ NextVersion
    /\ req' = [req EXCEPT ![r] = Idle]
    /\ UNCHANGED <<draft, verified>>

\* Faulty variant of ReadVerifyClockEvent: places are counted from one.
ReadVerifyNext(r, i, ok) ==
    /\ req[r] = Idle
    /\ i \in DOMAIN events
    /\ req' = [req EXCEPT ![r] = [phase |-> "verifying", place |-> i + 1, ok |-> ok,
                                  event |-> events[i]]]
    /\ UNCHANGED <<draft, events, verified, duration, version>>

\* verifyClockEvent reads: the event is named by its place.
ReadVerifyClockEvent(r, i, ok) ==
    /\ req[r] = Idle
    /\ i \in DOMAIN events
    /\ req' = [req EXCEPT ![r] = [phase |-> "verifying", place |-> i, ok |-> ok,
                                  event |-> events[i]]]
    /\ UNCHANGED <<draft, events, verified, duration, version>>

\* The save of verifyClockEvent sets a path inside the array. Whether its
\* version is compared depends on the order of the modified paths; here it may
\* go through whatever the version is, or be refused (Abort).
SaveVerifyClockEvent(r) ==
    /\ req[r].phase = "verifying"
    /\ verified' = IF req[r].ok THEN verified \cup {req[r].place}
                                ELSE verified \ {req[r].place}
    /\ NextVersion
    /\ req' = [req EXCEPT ![r] = Idle]
    /\ UNCHANGED <<draft, events, duration>>

\* The request ends where it is.
Abort(r) ==
    /\ req[r] # Idle
    /\ req' = [req EXCEPT ![r] = Idle]
    /\ UNCHANGED <<draft, events, verified, duration, version>>

\* Another operation saves the timesheet; it may write the status.
OtherSave ==
    /\ draft' \in BOOLEAN
    /\ NextVersion
    /\ UNCHANGED <<events, verified, duration, req>>

-----------------------------------------------------------------------------
Init == /\ draft = TRUE
        /\ events = <<>>
        /\ verified = {}
        /\ duration = 0
        /\ version = 0
        /\ req = [r \in Requests |-> Idle]

Next == \/ \E r \in Requests :
               \/ \E e \in Events : ReadRecordClockEvent(r, e)
               \/ RefuseClockEvent(r)
               \/ SaveClockEvent(r)
               \/ \E i \in DOMAIN events, ok \in BOOLEAN : ReadVerifyClockEvent(r, i, ok)
               \/ SaveVerifyClockEvent(r)
               \/ Abort(r)
        \/ OtherSave

Spec == Init /\ [][Next]_vars

-----------------------------------------------------------------------------
\* Every variable has its type.
TypeOK ==
    /\ draft \in BOOLEAN
    /\ events \in Seq(Events)
    /\ verified \subseteq DOMAIN events
    /\ duration \in Int
    /\ version \in Nat
    /\ req \in [Requests ->
                       [phase : {"idle"}]
                  \cup [phase : {"recording"}, event : Events, version : Nat, duration : Int]
                  \cup [phase : {"verifying"}, place : Nat, ok : BOOLEAN, event : Events]]

\* The stored duration is the one of the stored events, whatever requests
\* overlap: the version check protects the pair that two requests could
\* otherwise tear apart.
DurationOfEvents == duration = Duration(events)

\* A verification that is under way will mark the event its verifier saw:
\* recording never moves the events that are there.
VerifiesWhatWasSeen ==
    \A r \in Requests : req[r].phase = "verifying" =>
        /\ req[r].place \in DOMAIN events
        /\ events[req[r].place] = req[r].event

-----------------------------------------------------------------------------
(* What the duration should be. *)

\* In the order of time, what may follow what.
Follows(a, b) == <<a, b>> \in {<<"clock_in", "clock_out">>, <<"clock_in", "break_start">>,
                               <<"break_start", "break_end">>, <<"break_end", "break_start">>,
                               <<"break_end", "clock_out">>, <<"clock_out", "clock_in">>}

\* A log that makes sense: no two events at the same time, sessions that
\* begin with a clock-in, breaks inside sessions. The last session may be open.
WellFormed(es) ==
    LET s == Sorted(es)
    IN  /\ \A i, j \in DOMAIN s : i # j => s[i].time # s[j].time
        /\ es # <<>> => s[1].type = "clock_in"
        /\ \A i \in 1..Len(s)-1 : Follows(s[i].type, s[i+1].type)

\* The minutes at work: the last event before is a clock-in or the end of a
\* break, and the worker has clocked out since.
MinutesWorked(es) ==
    LET Before(m) == {i \in DOMAIN es : es[i].time <= m}
        Latest(m) == CHOOSE i \in Before(m) : \A j \in Before(m) : es[j].time <= es[i].time
        Span == UNION {UNION {es[i].time..es[j].time - 1 : j \in DOMAIN es} : i \in DOMAIN es}
    IN  {m \in Span : /\ es[Latest(m)].type \in {"clock_in", "break_end"}
                      /\ \E j \in DOMAIN es : es[j].type = "clock_out" /\ es[j].time > m}

\* The duration of a log that makes sense is the number of minutes worked, in
\* whatever order its events were recorded.
DurationCountsMinutes == WellFormed(events) => duration = Cardinality(MinutesWorked(events))

\* In the order of time, a break during which the worker clocked in or out.
BrokenBreak(s) ==
    \E i, j, k \in DOMAIN s : /\ i < j /\ j < k
                             /\ s[i].type = "break_start"
                             /\ s[j].type \in {"clock_in", "clock_out"}
                             /\ s[k].type = "break_end"
                             /\ \A m \in i+1..k-1 : s[m].type # "break_end"

\* In the order of time, a break after which the worker clocked in before
\* clocking out.
ClockedInAgain(s) ==
    \E k, j \in DOMAIN s : /\ k < j
                          /\ s[k].type = "break_end"
                          /\ s[j].type = "clock_in"
                          /\ \A m \in k+1..j-1 : s[m].type # "clock_out"

\* A duration is negative only if somebody clocked in or out during a break, or
\* clocked in twice around one: such a break is taken off a session that it is
\* not part of.
NegativeOnlyByMistake ==
    duration < 0 => BrokenBreak(Sorted(events)) \/ ClockedInAgain(Sorted(events))
=============================================================================
