---------------------------- MODULE Availability ----------------------------
(***************************************************************************)
(* models/Availability.ts: an availability of a worker, the dates it       *)
(* covers and the methods that change it.                                  *)
(*                                                                         *)
(* A caller loads the document, calls a method and the method saves: the   *)
(* hook before the save may make it EXPIRED, and what is sent are the      *)
(* paths that differ from what was loaded. Sending a whole array asks that *)
(* the document has the version it was loaded with.                        *)
(*                                                                         *)
(* checkOverlap decides whether the availability meets a range of dates;   *)
(* findByDateRange asks the database a like question of those that are     *)
(* active; a recurrence it only asks for its ends.                         *)
(***************************************************************************)
EXTENDS Integers, Sequences

-----------------------------------------------------------------------------
(* The dates of JavaScript's Date: days are numbered from 0, the first day of  *)
(* month 1, and a day past the end of its month is a day of a later month.     *)

CONSTANTS
    MonthLength,   \* the lengths of the months, one after the other
    FirstWeekday   \* day of the week of day 0, Sunday = 0

ASSUME CalendarAssumption ==
    /\ MonthLength \in Seq(28 .. 31)
    /\ MonthLength # <<>>
    /\ FirstWeekday \in 0 .. 6

Months == DOMAIN MonthLength

\* The first day of a month.
FirstDay[m \in Months] == IF m = 1 THEN 0 ELSE FirstDay[m - 1] + MonthLength[m - 1]

Days == {d \in Nat : d < FirstDay[Len(MonthLength)] + MonthLength[Len(MonthLength)]}

\* Date.getFullYear and Date.getMonth, as the number of a month
MonthOf(d) == CHOOSE m \in Months : FirstDay[m] <= d /\ d < FirstDay[m] + MonthLength[m]

\* Date.getDate and Date.getDay
DayOfMonth(d) == d - FirstDay[MonthOf(d)] + 1
DayOfWeek(d) == (d + FirstWeekday) % 7

\* Date.setDate: a day past the end of the month is one of the next month.
SetDayOfMonth(d, day) == FirstDay[MonthOf(d)] + day - 1

\* Date.setMonth, by a number of months: the day of the month is kept, in the next
\* month if this one is too short.
AddMonths(d, n) == FirstDay[MonthOf(d) + n] + DayOfMonth(d) - 1

-----------------------------------------------------------------------------
CONSTANTS
    Plans,          \* what availabilities are created with
    SlotLists,      \* the time slots callers give
    FirstExceptions, \* the exceptions availabilities are created with
    ExceptionDays,  \* days callers add and remove as exceptions
    Dates,          \* the ends of the ranges that are asked for
    Requests,       \* request slots
    LastDay,        \* bound: the last day of the model's time
    MaxVersion      \* bound: saves that change an array

Never == -1   \* a date, or a day of the month, that is not given

Patterns == {"DAILY", "WEEKLY", "BIWEEKLY", "MONTHLY", "CUSTOM", "none"}
Statuses == {"ACTIVE", "INACTIVE", "PENDING", "EXPIRED"}
Slots == [startTime : 0 .. 23, endTime : 0 .. 23]

Date == Days \cup {Never}

\* recurrence.startDate, endDate and the presence of recurrence.count are
\* from, until and counted.
Plan == [start : Days, end : Date, recurring : BOOLEAN, pattern : Patterns,
         interval : Nat \ {0}, days : SUBSET (0 .. 6), dayOfMonth : (1 .. 31) \cup {Never},
         from : Date, until : Date, counted : BOOLEAN]

ASSUME AvailabilityAssumption ==
    /\ Plans \subseteq Plan
    /\ SlotLists \subseteq SUBSET Slots
    /\ FirstExceptions \subseteq SUBSET Days
    /\ ExceptionDays \subseteq Days
    /\ Dates \subseteq Days
    /\ LastDay \in Days
    /\ MaxVersion \in Nat

VARIABLES
    plan,   \* the paths no method changes
    doc,    \* the others, as stored
    today,
    req     \* req[r]: what request slot r is doing

vars == <<plan, doc, today, req>>

-----------------------------------------------------------------------------
\* The list of exceptions is the set of its dates: it is searched with some() and
\* filtered, and a date that is in it twice goes at once.
Doc == [status : Statuses, isAllDay : BOOLEAN, timeSlots : SUBSET Slots,
        exceptions : SUBSET Days, version : Nat]

\* The hook before a save, when the document's end date is past.
PastEnd(p, day) == p.end # Never /\ p.end < day

-----------------------------------------------------------------------------
(* Validation, before every save. *)

ValidSlots(c) == /\ c.isAllDay \/ c.timeSlots # {}
                 /\ \A slot \in c.timeSlots : slot.startTime < slot.endTime

\* The recurrence is a nested path, there in every document: what is asked of it
\* is asked of availabilities that do not recur too.
ValidRecurrence(p) == /\ p.pattern \in {"WEEKLY", "BIWEEKLY"} => p.days # {}
                      /\ p.pattern = "MONTHLY" => p.dayOfMonth # Never
                      /\ p.until # Never \/ p.counted

ValidDates(p) == p.end = Never \/ p.start <= p.end

Valid(p, c) == ValidSlots(c) /\ ValidRecurrence(p) /\ ValidDates(p)

-----------------------------------------------------------------------------
(* checkOverlap and findByDateRange, for a range from day s to day e. *)

\* The faulty variant of the walk: it stops before the last day of the range.
DaysWalkedShort(s, e) == s .. e - 1

\* The days the loop over a range visits.
DaysWalked(s, e) == s .. e

\* The days the loop over the months of a range visits.
MonthDaysWalked(p, s, e) ==
    {SetDayOfMonth(AddMonths(s, i), p.dayOfMonth) : i \in 0 .. MonthOf(e) - MonthOf(s)}

\* Weeks from the start of the recurrence, or of the availability.
WeeksSince(p, d) == (d - (IF p.from = Never THEN p.start ELSE p.from)) \div 7

MeetsWeekly(p, excluded, s, e) ==
    \E d \in DaysWalked(s, e) \ excluded :
        /\ DayOfWeek(d) \in p.days
        /\ p.pattern = "BIWEEKLY" => WeeksSince(p, d) % (p.interval * 2) = 0

MeetsMonthly(p, excluded, s, e) ==
    \E d \in MonthDaysWalked(p, s, e) \ excluded : s <= d /\ d <= e

MeetsRecurring(p, excluded, s, e) ==
    /\ p.until = Never \/ p.until >= s
    /\ p.from = Never \/ p.from <= e
    /\ \/ p.pattern = "DAILY"
       \/ p.pattern \in {"WEEKLY", "BIWEEKLY"} /\ MeetsWeekly(p, excluded, s, e)
       \/ p.pattern = "MONTHLY" /\ MeetsMonthly(p, excluded, s, e)

MeetsSingle(p, s, e) == p.start <= e /\ (p.end = Never \/ p.end >= s)

CheckOverlap(p, excluded, s, e) ==
    IF p.recurring THEN MeetsRecurring(p, excluded, s, e) ELSE MeetsSingle(p, s, e)

Within(d, s, e) == d # Never /\ s <= d /\ d <= e

\* The query's alternatives for a recurring availability: its weekdays and its days
\* of the month are left to the caller.
QueriedRecurring(p, s, e) == /\ p.until = Never \/ p.until >= s
                             /\ p.start <= e

\* The faulty variant of the query: nothing for an availability without end.
QueriedClosed(p, c, s, e) ==
    /\ c.status = "ACTIVE"
    /\ IF p.recurring
       THEN QueriedRecurring(p, s, e)
       ELSE \/ Within(p.start, s, e)
            \/ Within(p.end, s, e)
            \/ p.end # Never /\ p.start <= s /\ p.end >= e

\* findByDateRange, whatever the type
Queried(p, c, s, e) ==
    /\ c.status = "ACTIVE"
    /\ IF p.recurring
       THEN QueriedRecurring(p, s, e)
       ELSE \/ Within(p.start, s, e)
            \/ Within(p.end, s, e)
            \/ p.end # Never /\ p.start <= s /\ p.end >= e
            \/ p.start <= e /\ p.end = Never

-----------------------------------------------------------------------------
(* Methods: what each makes of the loaded copy c. *)

Activate(c) == [c EXCEPT !.status = "ACTIVE"]

Deactivate(c) == [c EXCEPT !.status = "INACTIVE"]

\* No method result if the slots given are not in order: updateTimeSlots throws.
UpdateTimeSlots(c) ==
    {[c EXCEPT !.timeSlots = slots, !.isAllDay = FALSE] :
        slots \in {l \in SlotLists : l # {} /\ \A slot \in l : slot.startTime < slot.endTime}}

AddException(c, day) == [c EXCEPT !.exceptions = @ \cup {day}]

RemoveException(c, day) == [c EXCEPT !.exceptions = @ \ {day}]

\* Every method on a copy; exceptions are for recurring availabilities.
Results(p, c) ==
    {Activate(c), Deactivate(c)}
        \cup UpdateTimeSlots(c)
        \cup (IF p.recurring
              THEN {AddException(c, day) : day \in ExceptionDays}
                     \cup {RemoveException(c, day) : day \in ExceptionDays}
              ELSE {})

-----------------------------------------------------------------------------
(* Requests: the document is loaded, changed and saved. *)

Idle == [phase |-> "idle"]

\* The faulty variant: the version is not asked for.
StaleAlways(copy, new) == FALSE

Pushed(copy, new) == new.exceptions \ copy.exceptions # {}

\* The save sends a whole array, of a document that has another version now.
Stale(copy, new) ==
    /\ \/ new.timeSlots # copy.timeSlots
       \/ new.exceptions # copy.exceptions /\ ~ Pushed(copy, new)
    /\ doc.version # copy.version

\* What a save makes of the stored document: the paths that differ.
Merged(copy, new) ==
    [status |-> IF new.status = copy.status THEN doc.status ELSE new.status,
     isAllDay |-> IF new.isAllDay = copy.isAllDay THEN doc.isAllDay ELSE new.isAllDay,
     timeSlots |-> IF new.timeSlots = copy.timeSlots THEN doc.timeSlots ELSE new.timeSlots,
     exceptions |-> IF new.exceptions = copy.exceptions THEN doc.exceptions
                    ELSE IF Pushed(copy, new)
                    THEN doc.exceptions \cup (new.exceptions \ copy.exceptions)
                    ELSE new.exceptions,
     version |-> doc.version + IF \/ new.timeSlots # copy.timeSlots
                                  \/ new.exceptions # copy.exceptions
                               THEN 1 ELSE 0]

\* The faulty variant: the hook leaves what is being activated.
ExpireUnlessActivated(c, past) ==
    IF past /\ c.status # "ACTIVE" THEN [c EXCEPT !.status = "EXPIRED"] ELSE c

\* The hook
Expire(c, past) == IF past THEN [c EXCEPT !.status = "EXPIRED"] ELSE c

Load(r) ==
    /\ req[r] = Idle
    /\ \E new \in Results(plan, doc) :
          req' = [req EXCEPT ![r] = [phase |-> "saving", copy |-> doc, new |-> new,
                                     loaded |-> today]]
    /\ UNCHANGED <<plan, doc, today>>

\* The hook runs on some day between the load and the write.
Save(r) ==
    /\ req[r].phase = "saving"
    /\ \E day \in req[r].loaded .. today :
          LET copy == req[r].copy
              new == Expire(req[r].new, PastEnd(plan, day))
          IN  /\ Valid(plan, new)
              /\ ~ Stale(copy, new)
              /\ Merged(copy, new).version <= MaxVersion
              /\ doc' = Merged(copy, new)
    /\ req' = [req EXCEPT ![r] = Idle]
    /\ UNCHANGED <<plan, today>>

\* A crash, a write error or a version that is not the stored one.
Abort(r) ==
    /\ req[r] # Idle
    /\ req' = [req EXCEPT ![r] = Idle]
    /\ UNCHANGED <<plan, doc, today>>

Midnight ==
    /\ today < LastDay
    /\ today' = today + 1
    /\ UNCHANGED <<plan, doc, req>>

-----------------------------------------------------------------------------
New(isAllDay, slots, exceptions) ==
    [status |-> "ACTIVE", isAllDay |-> isAllDay, timeSlots |-> slots,
     exceptions |-> exceptions, version |-> 0]

\* An availability is created.
Init == /\ today = 0
        /\ plan \in Plans
        /\ \E isAllDay \in BOOLEAN, slots \in SlotLists, exceptions \in FirstExceptions :
              /\ doc = New(isAllDay, slots, exceptions)
              /\ Valid(plan, doc)
        /\ req = [r \in Requests |-> Idle]

Next == \/ \E r \in Requests : Load(r) \/ Save(r) \/ Abort(r)
        \/ Midnight

Spec == Init /\ [][Next]_vars
-----------------------------------------------------------------------------
RequestRecord == [phase : {"idle"}] \cup [phase : {"saving"}, copy : Doc, new : Doc,
                                     loaded : 0 .. LastDay]

\* Every variable has its type.
TypeOK == /\ plan \in Plan
          /\ doc \in Doc
          /\ today \in 0 .. LastDay
          /\ req \in [Requests -> RequestRecord]

\* What the method finds to meet a range and is active, the query returns, but for a
\* recurrence that starts before its availability does, in a range that ends before
\* that; and of those that do not recur the query returns no other.
DateRangeQueryExact ==
    \A s, e \in Dates : s <= e =>
        LET found == Queried(plan, doc, s, e)
            meets == doc.status = "ACTIVE" /\ CheckOverlap(plan, doc.exceptions, s, e)
        IN  /\ ~ plan.recurring => (found <=> meets)
            /\ plan.recurring /\ meets => (found <=> plan.start <= e)

\* IRecurrenceRule: "Every X days/weeks/months", "Optional end date", "Dates to
\* exclude"
OccursOn(p, excluded, d) ==
    LET first == IF p.from = Never THEN p.start ELSE p.from
    IN  /\ d \notin excluded
        /\ first <= d
        /\ p.until = Never \/ d <= p.until
        /\ \/ p.pattern = "DAILY" /\ (d - first) % p.interval = 0
           \/ /\ p.pattern = "WEEKLY"
              /\ DayOfWeek(d) \in p.days
              /\ ((d - first) \div 7) % p.interval = 0
           \/ /\ p.pattern = "BIWEEKLY"
              /\ DayOfWeek(d) \in p.days
              /\ ((d - first) \div 7) % (2 * p.interval) = 0
           \/ /\ p.pattern = "MONTHLY"
              /\ DayOfMonth(d) = p.dayOfMonth
              /\ (MonthOf(d) - MonthOf(first)) % p.interval = 0

\* Every month of the range has the day of the month the range starts on.
FitsMonths(s, e) == \A m \in MonthOf(s) .. MonthOf(e) : DayOfMonth(s) <= MonthLength[m]

\* A range with an occurrence in it is met by the availability, unless it recurs by
\* the month and the range starts on a day that a month of the range does not have.
OccurrenceFound ==
    plan.recurring =>
        \A s, e \in Dates :
            (\E d \in s .. e : OccursOn(plan, doc.exceptions, d))
                => \/ CheckOverlap(plan, doc.exceptions, s, e)
                   \/ plan.pattern = "MONTHLY" /\ ~ FitsMonths(s, e)

\* "For monthly recurrence, check if the day of month falls within the date
\* range": the same without the exception.
MonthlyOccurrenceFound ==
    plan.recurring =>
        \A s, e \in Dates :
            (\E d \in s .. e : OccursOn(plan, doc.exceptions, d))
                => CheckOverlap(plan, doc.exceptions, s, e)

\* An exception goes only by a request that removes it, whatever copy of the list
\* that request and the others loaded.
ExceptionsKept ==
    [][\A d \in doc.exceptions \ doc'.exceptions :
          \E r \in Requests : /\ req[r].phase = "saving"
                              /\ d \in req[r].copy.exceptions
                              /\ d \notin req[r].new.exceptions]_vars

\* When the end date is past, only a request that loaded the document before can
\* still make it something else than EXPIRED.
NoRevivalAfterEnd ==
    [][(doc'.status # doc.status /\ doc'.status # "EXPIRED")
         => \E r \in Requests : /\ req[r].phase = "saving"
                                /\ ~ PastEnd(plan, req[r].loaded)]_vars
=============================================================================
