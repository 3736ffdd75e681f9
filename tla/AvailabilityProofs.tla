------------------------- MODULE AvailabilityProofs -------------------------
(* Proofs about Availability: its type, what it finds and what saves keep. *)
EXTENDS Availability, TLAPS

-----------------------------------------------------------------------------
(***************************************************************************)
(* Arrays under the version: a copy that was loaded at the stored version  *)
(* has the stored arrays, for each save that changes one counts the        *)
(* version up. A loaded copy is never of a later version.                  *)
(***************************************************************************)
CopiesAgree ==
    \A r \in Requests : req[r].phase = "saving" =>
        /\ req[r].copy.version <= doc.version
        /\ req[r].copy.version = doc.version =>
              /\ req[r].copy.exceptions = doc.exceptions
              /\ req[r].copy.timeSlots = doc.timeSlots

Inv == TypeOK /\ ValidDates(plan) /\ CopiesAgree

\* What the methods make of a document is a document, of the same version.
LEMMA ResultsAreDocs ==
    ASSUME AvailabilityAssumption, NEW p \in Plan, NEW c \in Doc, NEW new \in Results(p, c)
    PROVE  new \in Doc /\ new.version = c.version
  <1>1. CASE new = Activate(c) \/ new = Deactivate(c)
    BY <1>1 DEF Activate, Deactivate, Doc, Statuses
  <1>2. CASE new \in UpdateTimeSlots(c)
    <2>1. PICK slots \in SlotLists : new = [c EXCEPT !.timeSlots = slots, !.isAllDay = FALSE]
      BY <1>2 DEF UpdateTimeSlots
    <2>2. slots \in SUBSET Slots
      BY DEF AvailabilityAssumption
    <2>3. QED
      BY <2>1, <2>2 DEF Doc
  <1>3. CASE \E day \in ExceptionDays : new = AddException(c, day) \/ new = RemoveException(c, day)
    BY <1>3 DEF AddException, RemoveException, Doc, AvailabilityAssumption
  <1>4. QED
    BY <1>1, <1>2, <1>3 DEF Results

\* What a save stores is a document, and its version is at least the stored one.
LEMMA MergedIsDoc ==
    ASSUME doc \in Doc, NEW copy \in Doc, NEW new \in Doc
    PROVE  Merged(copy, new) \in Doc /\ doc.version <= Merged(copy, new).version
  <1>1. doc.version \in Nat /\ doc.version + 1 \in Nat /\ doc.version <= doc.version + 1
    BY DEF Doc
  <1>2. QED
    BY <1>1 DEF Merged, Doc

\* The hook changes the status alone.
LEMMA ExpireIsDoc ==
    ASSUME NEW c \in Doc, NEW past \in BOOLEAN
    PROVE  /\ Expire(c, past) \in Doc
           /\ Expire(c, past).timeSlots = c.timeSlots
           /\ Expire(c, past).exceptions = c.exceptions
           /\ past => Expire(c, past).status = "EXPIRED"
  BY DEF Expire, Doc, Statuses

THEOREM Invariance == Spec => []Inv
  <1>1. Init => Inv
    <2>1. SUFFICES ASSUME Init PROVE Inv
      OBVIOUS
    <2>2. plan \in Plan /\ ValidDates(plan)
      BY <2>1, AvailabilityAssumption DEF Init, AvailabilityAssumption, Valid
    <2>3. doc \in Doc
      <3>1. PICK isAllDay \in BOOLEAN, slots \in SlotLists, exceptions \in FirstExceptions :
                doc = New(isAllDay, slots, exceptions)
        BY <2>1 DEF Init
      <3>2. slots \in SUBSET Slots /\ exceptions \in SUBSET Days
        BY AvailabilityAssumption DEF AvailabilityAssumption
      <3>3. QED
        BY <3>1, <3>2 DEF New, Doc, Statuses
    <2>4. req \in [Requests -> RequestRecord] /\ CopiesAgree
      BY <2>1 DEF Init, RequestRecord, Idle, CopiesAgree
    <2>5. today \in 0 .. LastDay
      BY <2>1, AvailabilityAssumption DEF Init, AvailabilityAssumption, Days
    <2>6. QED
      BY <2>2, <2>3, <2>4, <2>5 DEF Inv, TypeOK
  <1>2. Inv /\ [Next]_vars => Inv'
    <2>0. SUFFICES ASSUME Inv, [Next]_vars PROVE Inv'
      OBVIOUS
    <2>1. CASE UNCHANGED vars
      BY <2>0, <2>1 DEF Inv, TypeOK, ValidDates, CopiesAgree, vars
    <2>2. ASSUME NEW r \in Requests, Load(r) PROVE Inv'
      <3>1. PICK new \in Results(plan, doc) :
                req' = [req EXCEPT ![r] = [phase |-> "saving", copy |-> doc, new |-> new,
                                           loaded |-> today]]
        BY <2>2 DEF Load
      <3>2. new \in Doc
        BY <2>0, AvailabilityAssumption, ResultsAreDocs DEF Inv, TypeOK
      <3>3. today \in 0 .. LastDay
        BY <2>0 DEF Inv, TypeOK
      <3>4. req' \in [Requests -> RequestRecord]
        BY <2>0, <3>1, <3>2, <3>3 DEF Inv, TypeOK, RequestRecord
      <3>5. CopiesAgree'
        BY <2>0, <2>2, <3>1 DEF Inv, TypeOK, CopiesAgree, Load, Doc
      <3>6. QED
        BY <2>0, <2>2, <3>4, <3>5 DEF Inv, TypeOK, ValidDates, Load
    <2>3. ASSUME NEW r \in Requests, Save(r) PROVE Inv'
      <3>1. PICK day \in req[r].loaded .. today :
                /\ ~ Stale(req[r].copy, Expire(req[r].new, PastEnd(plan, day)))
                /\ doc' = Merged(req[r].copy, Expire(req[r].new, PastEnd(plan, day)))
        BY <2>3 DEF Save
      <3> DEFINE copy == req[r].copy
                 new == Expire(req[r].new, PastEnd(plan, day))
      <3>2. copy \in Doc /\ req[r].new \in Doc
        BY <2>0, <2>3 DEF Inv, TypeOK, RequestRecord, Save
      <3>3. PastEnd(plan, day) \in BOOLEAN
        BY DEF PastEnd
      <3>4. new \in Doc
        BY <3>2, <3>3, ExpireIsDoc
      <3>5. doc' \in Doc /\ doc.version <= doc'.version
        BY <2>0, <3>1, <3>2, <3>4, MergedIsDoc DEF Inv, TypeOK
      <3>6. req' \in [Requests -> RequestRecord]
        BY <2>0, <2>3 DEF Inv, TypeOK, RequestRecord, Save, Idle
      <3>7. doc'.version = doc.version
              => doc'.exceptions = doc.exceptions /\ doc'.timeSlots = doc.timeSlots
        BY <2>0, <3>1 DEF Merged, Inv, TypeOK, Doc
      <3>8. CopiesAgree'
        BY <2>0, <2>3, <3>5, <3>7 DEF Inv, TypeOK, CopiesAgree, Save, Idle, Doc, RequestRecord
      <3>9. QED
        BY <2>0, <2>3, <3>5, <3>6, <3>8 DEF Inv, TypeOK, ValidDates, Save
    <2>4. ASSUME NEW r \in Requests, Abort(r) PROVE Inv'
      BY <2>0, <2>4 DEF Inv, TypeOK, ValidDates, CopiesAgree, Abort, Idle, RequestRecord
    <2>5. CASE Midnight
      <3>1. today' \in 0 .. LastDay
        BY <2>0, <2>5, AvailabilityAssumption
           DEF Inv, TypeOK, Midnight, AvailabilityAssumption, Days
      <3>2. QED
        BY <2>0, <2>5, <3>1 DEF Inv, TypeOK, ValidDates, CopiesAgree, Midnight
    <2>6. QED
      BY <2>0, <2>1, <2>2, <2>3, <2>4, <2>5 DEF Next
  <1>3. QED
    BY <1>1, <1>2, PTL DEF Spec

\* Every variable has its type, in every state of every instance.
THEOREM TypeCorrect == Spec => []TypeOK
  <1>1. Inv => TypeOK
    BY DEF Inv
  <1>2. QED
    BY <1>1, Invariance, PTL

-----------------------------------------------------------------------------
(* What is found. *)

\* The four alternatives of the query of findByDateRange are the test of two
\* intervals that checkOverlap makes, with and without an end; of what recurs and
\* meets the range the query leaves out only what starts after it.
THEOREM QueryExact == Spec => []DateRangeQueryExact
  <1>1. Inv => DateRangeQueryExact
    <2>1. SUFFICES ASSUME Inv, doc.status = "ACTIVE",
                          NEW s \in Dates, NEW e \in Dates, s <= e
                   PROVE  /\ ~ plan.recurring
                               => (Queried(plan, doc, s, e) <=> MeetsSingle(plan, s, e))
                          /\ plan.recurring /\ MeetsRecurring(plan, doc.exceptions, s, e)
                               => (Queried(plan, doc, s, e) <=> plan.start <= e)
      BY DEF DateRangeQueryExact, CheckOverlap, Queried
    <2>2. s \in Nat /\ e \in Nat
      BY AvailabilityAssumption DEF AvailabilityAssumption, Days
    <2>3. plan.start \in Nat /\ plan.end \in Nat \cup {Never}
      BY <2>1 DEF Inv, TypeOK, Plan, Date, Days
    <2>4. plan.end = Never \/ plan.start <= plan.end
      BY <2>1 DEF Inv, ValidDates
    <2>5. CASE plan.recurring
      BY <2>1, <2>5 DEF Queried, QueriedRecurring, MeetsRecurring
    <2>6. CASE ~ plan.recurring
      BY <2>1, <2>2, <2>3, <2>4, <2>6 DEF Queried, MeetsSingle, Within, Never
    <2>7. QED
      BY <2>5, <2>6
  <1>2. QED
    BY <1>1, Invariance, PTL

\* checkOverlap misses no occurrence of a daily, weekly or biweekly recurrence.
\* (About months only TLC says something: it takes an induction over them.)
THEOREM OccurrencesFound == Spec => [](plan.pattern # "MONTHLY" => OccurrenceFound)
  <1>1. Inv => (plan.pattern # "MONTHLY" => OccurrenceFound)
    <2>1. SUFFICES ASSUME Inv, plan.pattern # "MONTHLY", plan.recurring,
                          NEW s \in Dates, NEW e \in Dates,
                          \E d \in s .. e : OccursOn(plan, doc.exceptions, d)
                   PROVE  CheckOverlap(plan, doc.exceptions, s, e)
      BY DEF OccurrenceFound
    <2>a. PICK d \in s .. e : OccursOn(plan, doc.exceptions, d)
      BY <2>1
    <2>b. SUFFICES MeetsRecurring(plan, doc.exceptions, s, e)
      BY <2>1 DEF CheckOverlap
    <2>2. s \in Nat /\ e \in Nat /\ d \in Nat /\ s <= d /\ d <= e
      BY AvailabilityAssumption DEF AvailabilityAssumption, Days
    <2>3. /\ plan.from \in Nat \cup {Never}
          /\ plan.until \in Nat \cup {Never}
          /\ plan.start \in Nat
          /\ plan.interval \in Nat
      BY <2>1 DEF Inv, TypeOK, Plan, Date, Days
    <2>4. /\ plan.until = Never \/ plan.until >= s
          /\ plan.from = Never \/ plan.from <= e
      BY <2>a, <2>2, <2>3 DEF OccursOn, Never
    <2>5. CASE plan.pattern = "DAILY"
      BY <2>4, <2>5 DEF MeetsRecurring
    <2>6. CASE plan.pattern \in {"WEEKLY", "BIWEEKLY"}
      <3>1. d \in DaysWalked(s, e) \ doc.exceptions
        BY <2>a, <2>2 DEF DaysWalked, OccursOn
      <3>2. DayOfWeek(d) \in plan.days
        BY <2>a, <2>6 DEF OccursOn
      <3>3. 2 * plan.interval = plan.interval * 2
        BY <2>3
      <3>4. plan.pattern = "BIWEEKLY" => WeeksSince(plan, d) % (plan.interval * 2) = 0
        BY <2>a, <3>3 DEF OccursOn, WeeksSince
      <3>5. QED
        BY <2>4, <2>6, <3>1, <3>2, <3>4 DEF MeetsRecurring, MeetsWeekly
    <2>7. QED
      BY <2>1, <2>a, <2>5, <2>6 DEF OccursOn
  <1>2. QED
    BY <1>1, Invariance, PTL

-----------------------------------------------------------------------------
(* What saves keep. *)

\* The only saves that write a list of exceptions as a whole are those whose copy
\* has the stored version, hence the stored list: what they drop they mean to drop.
THEOREM ExceptionsAreKept == Spec => ExceptionsKept
  <1> DEFINE Drop(d) == \E r \in Requests : /\ req[r].phase = "saving"
                                            /\ d \in req[r].copy.exceptions
                                            /\ d \notin req[r].new.exceptions
             Kept == \A d \in doc.exceptions \ doc'.exceptions : Drop(d)
  <1>1. Inv /\ [Next]_vars => [Kept]_vars
    <2>1. SUFFICES ASSUME Inv, Next, NEW d \in doc.exceptions \ doc'.exceptions
                   PROVE  Drop(d)
      OBVIOUS
    <2>2. PICK r \in Requests : Save(r)
      BY <2>1 DEF Next, Load, Abort, Midnight
    <2>3. PICK day \in req[r].loaded .. today :
              /\ ~ Stale(req[r].copy, Expire(req[r].new, PastEnd(plan, day)))
              /\ doc' = Merged(req[r].copy, Expire(req[r].new, PastEnd(plan, day)))
      BY <2>2 DEF Save
    <2> DEFINE new == Expire(req[r].new, PastEnd(plan, day))
    <2>4. /\ req[r].phase = "saving"
          /\ req[r].new \in Doc
      BY <2>1, <2>2 DEF Inv, TypeOK, RequestRecord, Save
    <2>5. new.exceptions = req[r].new.exceptions
      BY <2>4, ExpireIsDoc DEF PastEnd
    <2>6. /\ doc'.exceptions = new.exceptions
          /\ new.exceptions # req[r].copy.exceptions
          /\ ~ Pushed(req[r].copy, new)
      BY <2>1, <2>3 DEF Merged
    <2>7. req[r].copy.version = doc.version
      BY <2>3, <2>6 DEF Stale
    <2>8. req[r].copy.exceptions = doc.exceptions
      BY <2>1, <2>4, <2>7 DEF Inv, CopiesAgree
    <2>9. QED
      BY <2>1, <2>4, <2>5, <2>6, <2>8
  <1>2. QED
    BY <1>1, Invariance, PTL DEF Spec, ExceptionsKept

\* The hook sees a day that is not before the load: once the end date is past at
\* the load, the save can store no status but EXPIRED.
THEOREM NoRevival == Spec => NoRevivalAfterEnd
  <1> DEFINE Early == (doc'.status # doc.status /\ doc'.status # "EXPIRED")
                        => \E r \in Requests : /\ req[r].phase = "saving"
                                               /\ ~ PastEnd(plan, req[r].loaded)
  <1>1. Inv /\ [Next]_vars => [Early]_vars
    <2>1. SUFFICES ASSUME Inv, Next, doc'.status # doc.status, doc'.status # "EXPIRED"
                   PROVE  \E r \in Requests : /\ req[r].phase = "saving"
                                              /\ ~ PastEnd(plan, req[r].loaded)
      OBVIOUS
    <2>2. PICK r \in Requests : Save(r)
      BY <2>1 DEF Next, Load, Abort, Midnight
    <2>3. PICK day \in req[r].loaded .. today :
              doc' = Merged(req[r].copy, Expire(req[r].new, PastEnd(plan, day)))
      BY <2>2 DEF Save
    <2>4. /\ req[r].phase = "saving"
          /\ req[r].new \in Doc
          /\ req[r].loaded \in 0 .. LastDay
      BY <2>1, <2>2 DEF Inv, TypeOK, RequestRecord, Save
    <2>5. ~ PastEnd(plan, day)
      BY <2>1, <2>3, <2>4, ExpireIsDoc DEF Merged, PastEnd
    <2>6. req[r].loaded \in Int /\ day \in Int /\ req[r].loaded <= day
      BY <2>1, <2>3, <2>4 DEF Inv, TypeOK
    <2>7. plan.end \in Int
      BY <2>1 DEF Inv, TypeOK, Plan, Date, Days, Never
    <2>8. QED
      BY <2>4, <2>5, <2>6, <2>7 DEF PastEnd
  <1>2. QED
    BY <1>1, Invariance, PTL DEF Spec, NoRevivalAfterEnd

=============================================================================
