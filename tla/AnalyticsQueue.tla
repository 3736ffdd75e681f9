---------------------------- MODULE AnalyticsQueue ----------------------------
(***************************************************************************)
(* generateReport of services/analytics.service.ts and the Map of pending  *)
(* tasks behind it. generateReport stores a report that is generating and  *)
(* puts a task; a callback of the interval processes a task by calling     *)
(* generateReport again. A walk over the Map sees what is put meanwhile,   *)
(* so that it comes to the task that it has just put.                      *)
(*                                                                         *)
(* Tasks are numbered in the order of the Map.                             *)
(***************************************************************************)
EXTENDS Integers, Sequences, FiniteSets, FiniteSetsExt

CONSTANTS
    Callers,   \* requests under way
    Ticks,     \* callbacks of the interval that may run side by side
    MaxReports \* bound: reports created over time

VARIABLES
    status,   \* status[i]: the stored status of report i
    tasks,    \* tasks[n]: the report of task n, and the failed attempts at it
    pending,  \* pendingAnalytics: the tasks in the Map
    work,     \* work[w]: what a request or a callback is doing
    history   \* succeeded: the tasks that were processed; lost: tasks that a
              \* restart took, and reports whose task was not put before it

vars == <<status, tasks, pending, work, history>>

MaxAttempts == 3

Idle == [phase |-> "idle"]

\* The report i is stored; its task is to be put.
Putting(i, n) == [phase |-> "putting", report |-> i, task |-> n]

Processing(n) == [phase |-> "processing", task |-> n]

\* The third attempt at task n failed; the status of its report is to be written.
GivingUp(n) == [phase |-> "givingUp", task |-> n]

Reports == 1..Len(status)

Go(w, step) == work' = [work EXCEPT ![w] = step]

\* The walk goes on behind task n, with what is in the Map.
WalkFrom(n, map) ==
    LET ahead == {m \in map : m > n}
    IN  IF ahead = {} THEN Idle ELSE Processing(Min(ahead))

CreateReport == status' = Append(status, "generating")

PutTask(i) == tasks' = Append(tasks, [report |-> i, attempts |-> 0])

-----------------------------------------------------------------------------
(* A faulty variant; it takes no part in Spec. *)

\* The second failure is the last.
FailTwice(k) ==
    /\ work[k].phase = "processing"
    /\ LET n == work[k].task
       IN  /\ tasks' = [tasks EXCEPT ![n].attempts = @ + 1]
           /\ IF tasks[n].attempts + 1 >= 2
              THEN pending' = pending \ {n} /\ Go(k, GivingUp(n))
              ELSE Go(k, WalkFrom(n, pending)) /\ UNCHANGED pending
    /\ UNCHANGED <<status, history>>

-----------------------------------------------------------------------------
\* generateReport for a request: the report is stored ...
Request(c) ==
    /\ work[c] = Idle
    /\ Len(status) < MaxReports
    /\ CreateReport
    /\ Go(c, Putting(Len(status) + 1, 0))
    /\ UNCHANGED <<tasks, pending, history>>

\* ... and its task put.
PutRequested(c) ==
    /\ work[c].phase = "putting"
    /\ PutTask(work[c].report)
    /\ pending' = pending \cup {Len(tasks) + 1}
    /\ Go(c, Idle)
    /\ UNCHANGED <<status, history>>

\* The interval fires.
Fire(k) ==
    /\ work[k] = Idle
    /\ pending # {}
    /\ Go(k, WalkFrom(0, pending))
    /\ UNCHANGED <<status, tasks, pending, history>>

\* processAnalyticsTask: generateReport stores another report ...
Generate(k) ==
    /\ work[k].phase = "processing"
    /\ Len(status) < MaxReports
    /\ CreateReport
    /\ Go(k, Putting(Len(status) + 1, work[k].task))
    /\ UNCHANGED <<tasks, pending, history>>

\* ... and puts another task; the first one is deleted and the walk goes on.
Succeed(k) ==
    /\ work[k].phase = "putting"
    /\ LET n == work[k].task
       IN  /\ PutTask(work[k].report)
           /\ pending' = (pending \cup {Len(tasks) + 1}) \ {n}
           /\ history' = [history EXCEPT !.succeeded = @ \cup {n}]
           /\ Go(k, WalkFrom(n, pending'))
    /\ UNCHANGED status

\* The report cannot be stored: the attempt is counted, the third deletes the task.
Fail(k) ==
    /\ work[k].phase = "processing"
    /\ LET n == work[k].task
       IN  /\ tasks' = [tasks EXCEPT ![n].attempts = @ + 1]
           /\ IF tasks[n].attempts + 1 >= MaxAttempts
              THEN pending' = pending \ {n} /\ Go(k, GivingUp(n))
              ELSE Go(k, WalkFrom(n, pending)) /\ UNCHANGED pending
    /\ UNCHANGED <<status, history>>

\* The report of the task is marked as failed, if the database answers.
GiveUp(k) ==
    /\ work[k].phase = "givingUp"
    /\ status' \in {status, [status EXCEPT ![tasks[work[k].task].report] = "failed"]}
    /\ Go(k, WalkFrom(work[k].task, pending))
    /\ UNCHANGED <<tasks, pending, history>>

\* The process ends and another one starts: the Map is empty.
Restart ==
    /\ pending' = {}
    /\ work' = [w \in DOMAIN work |-> Idle]
    /\ history' = [history EXCEPT !.lost = TRUE]
    /\ UNCHANGED <<status, tasks>>

-----------------------------------------------------------------------------
Init == /\ status = <<>>
        /\ tasks = <<>>
        /\ pending = {}
        /\ work = [w \in Callers \cup Ticks |-> Idle]
        /\ history = [succeeded |-> {}, lost |-> FALSE]

Next == \/ \E c \in Callers : Request(c) \/ PutRequested(c)
        \/ \E k \in Ticks : \/ Fire(k)
                            \/ Generate(k)
                            \/ Succeed(k)
                            \/ Fail(k)
                            \/ GiveUp(k)
        \/ Restart

Spec == Init /\ [][Next]_vars

-----------------------------------------------------------------------------
Exhausted == {n \in DOMAIN tasks : tasks[n].attempts >= MaxAttempts}

\* Every variable has its type.
TypeOK == /\ status \in Seq({"generating", "failed"}) /\ Len(status) <= MaxReports
          /\ \A n \in DOMAIN tasks : tasks[n].report \in Reports /\ tasks[n].attempts \in Nat
          /\ pending \subseteq DOMAIN tasks
          /\ history.succeeded \subseteq DOMAIN tasks

\* A report fails only after three failed attempts at its task, and a task leaves
\* the Map because it was processed, because they failed, or with the process: also
\* when several callbacks are at one task and share its count.
FailedAfterAttempts ==
    /\ \A i \in Reports : status[i] = "failed" => \E n \in Exhausted : tasks[n].report = i
    /\ history.lost \/ DOMAIN tasks \subseteq pending \cup history.succeeded \cup Exhausted

\* Processing never completes a report: as long as no task is given up and no process
\* ends, one request keeps the Map from ever being empty again, and there are at
\* least as many reports that are generating as tasks.
NeverDone ==
    (~ history.lost /\ Exhausted = {} /\ tasks # <<>>)
      => /\ pending # {}
         /\ Cardinality({i \in Reports : status[i] = "generating"}) >= Len(tasks)
=============================================================================
