---------------------------- MODULE FallbackQueue ----------------------------
(***************************************************************************)
(* The queue in memory that worker-profile.service.ts uses for document    *)
(* verification when BullMQ is not available, which is always: the module  *)
(* is wired before Redis is looked for. analytics.service.ts has the same  *)
(* loop over its own tasks.                                                *)
(*                                                                         *)
(* Every ten seconds a callback walks over the Map of pending tasks and    *)
(* awaits the processing of each. setInterval does not wait for a callback *)
(* to end, so several callbacks walk over the Map side by side, each of    *)
(* them may come to a task that another one is processing, and they share  *)
(* the task's count of attempts. A Map is walked in the order of insertion *)
(* and shows the walk what was added or deleted meanwhile: tasks are       *)
(* numbered in the order they were put, and a walk goes from a number to   *)
(* the next one that is pending at that moment.                            *)
(***************************************************************************)
EXTENDS Integers, FiniteSets, FiniteSetsExt

CONSTANTS
    Ticks,     \* callbacks of the interval that may run side by side
    MaxTasks   \* bound: tasks put over time

ASSUME QueueAssumption == MaxTasks \in Nat /\ IsFiniteSet(Ticks)

VARIABLES
    count,     \* tasks put so far
    pending,   \* pendingVerifications: the tasks in the Map
    attempts,  \* attempts[i]: failed attempts at task i
    told,      \* told[i]: notifications that the verification of i failed
    done,      \* history: the tasks that were processed with success
    lost,      \* history: the tasks that were pending at the end of a process
    tick       \* tick[k]: what callback k is doing, and at which task

vars == <<count, pending, attempts, told, done, lost, tick>>

-----------------------------------------------------------------------------
TaskIds == 1 .. MaxTasks

MaxAttempts == 3

Idle == [phase |-> "idle"]

Processing(i) == [phase |-> "processing", at |-> i]

\* The third attempt failed; the user is to be told.
GivingUp(i) == [phase |-> "givingUp", at |-> i]

\* The walk goes on behind task i, with what is in the Map now.
WalkFrom(i, map) ==
    LET ahead == {j \in map : j > i}
    IN  IF ahead = {} THEN Idle ELSE Processing(Min(ahead))

Go(k, work) == tick' = [tick EXCEPT ![k] = work]

-----------------------------------------------------------------------------
(* Faulty variants; none of them takes part in Spec. *)

\* The second failure is the last.
FailTwice(k) ==
    /\ tick[k].phase = "processing"
    /\ LET i == tick[k].at
       IN  /\ attempts' = [attempts EXCEPT ![i] = @ + 1]
           /\ IF attempts[i] + 1 >= 2
              THEN pending' = pending \ {i} /\ Go(k, GivingUp(i))
              ELSE Go(k, WalkFrom(i, pending)) /\ UNCHANGED pending
    /\ UNCHANGED <<count, told, done, lost>>

\* The failed attempt is not counted.
FailUncounted(k) ==
    /\ tick[k].phase = "processing"
    /\ LET i == tick[k].at
       IN  IF attempts[i] + 1 >= MaxAttempts
           THEN pending' = pending \ {i} /\ Go(k, GivingUp(i))
           ELSE Go(k, WalkFrom(i, pending)) /\ UNCHANGED pending
    /\ UNCHANGED <<count, attempts, told, done, lost>>

\* The task stays in the Map when its last attempt has failed.
FailKeeping(k) ==
    /\ tick[k].phase = "processing"
    /\ LET i == tick[k].at
       IN  /\ attempts' = [attempts EXCEPT ![i] = @ + 1]
           /\ attempts[i] <= MaxAttempts + Cardinality(Ticks)
           /\ Go(k, IF attempts[i] + 1 >= MaxAttempts THEN GivingUp(i)
                    ELSE WalkFrom(i, pending))
    /\ UNCHANGED <<count, pending, told, done, lost>>

-----------------------------------------------------------------------------
\* queueDocumentVerification and the end of uploadCV
Put ==
    /\ count < MaxTasks
    /\ count' = count + 1
    /\ pending' = pending \cup {count + 1}
    /\ UNCHANGED <<attempts, told, done, lost, tick>>

\* The interval fires: the callback runs up to its first await.
Fire(k) ==
    /\ tick[k] = Idle
    /\ pending # {}
    /\ Go(k, WalkFrom(0, pending))
    /\ UNCHANGED <<count, pending, attempts, told, done, lost>>

\* processVerificationTask resolved: the task is deleted (another callback may
\* have done so) and the walk goes on.
Succeed(k) ==
    /\ tick[k].phase = "processing"
    /\ LET i == tick[k].at
       IN  /\ pending' = pending \ {i}
           /\ done' = done \cup {i}
           /\ Go(k, WalkFrom(i, pending'))
    /\ UNCHANGED <<count, attempts, told, lost>>

\* It rejected: the attempt is counted, and the third deletes the task.
Fail(k) ==
    /\ tick[k].phase = "processing"
    /\ LET i == tick[k].at
       IN  /\ attempts' = [attempts EXCEPT ![i] = @ + 1]
           /\ IF attempts[i] + 1 >= MaxAttempts
              THEN pending' = pending \ {i} /\ Go(k, GivingUp(i))
              ELSE Go(k, WalkFrom(i, pending)) /\ UNCHANGED pending
    /\ UNCHANGED <<count, told, done, lost>>

\* The user is told, if the profile is found and the notification goes out;
\* an error is logged. The walk goes on.
GiveUp(k) ==
    /\ tick[k].phase = "givingUp"
    /\ LET i == tick[k].at
       IN  /\ \E sent \in {0, 1} : told' = [told EXCEPT ![i] = @ + sent]
           /\ Go(k, WalkFrom(i, pending))
    /\ UNCHANGED <<count, pending, attempts, done, lost>>

\* The process ends, by a crash or by onModuleDestroy, and another one starts.
Restart ==
    /\ lost' = lost \cup pending
    /\ pending' = {}
    /\ tick' = [k \in Ticks |-> Idle]
    /\ UNCHANGED <<count, attempts, told, done>>

-----------------------------------------------------------------------------
Init == /\ count = 0
        /\ pending = {}
        /\ attempts = [i \in TaskIds |-> 0]
        /\ told = [i \in TaskIds |-> 0]
        /\ done = {}
        /\ lost = {}
        /\ tick = [k \in Ticks |-> Idle]

Step(k) == Succeed(k) \/ Fail(k) \/ GiveUp(k)

Next == \/ Put
        \/ \E k \in Ticks : Fire(k) \/ Step(k)
        \/ Restart

\* The interval goes on firing, and what a callback awaits is settled in the end:
\* the database driver has a time limit for every operation.
Fairness == /\ WF_vars(\E k \in Ticks : Fire(k))
            /\ \A k \in Ticks : WF_vars(Step(k))

Spec == Init /\ [][Next]_vars /\ Fairness

-----------------------------------------------------------------------------
TickRecord == [phase : {"idle"}] \cup [phase : {"processing", "givingUp"}, at : TaskIds]

\* Every variable has its type.
TypeOK == /\ count \in 0 .. MaxTasks
          /\ pending \subseteq 1 .. count
          /\ attempts \in [TaskIds -> Nat]
          /\ told \in [TaskIds -> Nat]
          /\ done \subseteq 1 .. count
          /\ lost \subseteq 1 .. count
          /\ tick \in [Ticks -> TickRecord]

\* A task leaves the queue when it was processed, when it failed three times or
\* when the process ended, and for no other reason, though several callbacks
\* count and delete side by side.
LeavesForAReason ==
    \A i \in (1 .. count) \ pending : i \in done \cup lost \/ attempts[i] >= MaxAttempts

\* A user is told of a failure only after the third one, and no more often than
\* there are callbacks side by side: each that was at the task when it was
\* deleted may tell once more.
ToldOncePerCallback ==
    \A i \in TaskIds : /\ told[i] <= Cardinality(Ticks)
                       /\ told[i] > 0 => attempts[i] >= MaxAttempts /\ i \notin pending

\* Every task leaves the queue: no task is passed over by the walks for ever,
\* however many others are put and deleted during them.
EveryTaskEnds == \A i \in TaskIds : (i \in pending) ~> (i \notin pending)
=============================================================================
