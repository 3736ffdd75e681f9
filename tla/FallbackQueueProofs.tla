------------------------- MODULE FallbackQueueProofs -------------------------
(***************************************************************************)
(* The safety of the fallback queue, for every set of callbacks and every  *)
(* number of tasks.                                                        *)
(*                                                                         *)
(* How often a failure is told is bounded because every message costs a    *)
(* callback that stands at the task: as long as the task is pending,       *)
(* nothing was told; from its deletion on, no walk comes to it again, and  *)
(* each of the callbacks still at it tells at most once before it leaves.  *)
(***************************************************************************)
EXTENDS FallbackQueue, FiniteSetTheorems, TLAPS

\* The callbacks that stand at task i.
AtTask(i) == {k \in Ticks : tick[k].phase # "idle" /\ tick[k].at = i}

\* A callback stands at a task that was put.
TicksAtTasks == \A k \in Ticks : tick[k].phase # "idle" => tick[k].at \in 1 .. count

\* Nothing has happened to a number that no task has yet.
NothingAhead == \A i \in TaskIds : i > count => attempts[i] = 0

\* A callback gives a task up when it is deleted for its third failure.
GivenUpIsDeleted ==
    \A k \in Ticks : tick[k].phase = "givingUp" =>
                       /\ attempts[tick[k].at] >= MaxAttempts
                       /\ tick[k].at \notin pending

\* What was told and what may still be told of a task is bounded.
ToldBound == \A i \in TaskIds : told[i] + Cardinality(AtTask(i)) <= Cardinality(Ticks)

\* A failure is told after the third attempt, of a task that is deleted.
ToldIsDeleted ==
    \A i \in TaskIds : told[i] > 0 => attempts[i] >= MaxAttempts /\ i \notin pending

QueueInv == /\ TypeOK
            /\ TicksAtTasks
            /\ NothingAhead
            /\ GivenUpIsDeleted
            /\ LeavesForAReason
            /\ ToldBound
            /\ ToldIsDeleted

-----------------------------------------------------------------------------
\* A nonempty set of naturals has a least element.
LEMMA LeastOfNaturals ==
    ASSUME NEW X \in SUBSET Nat, X # {}
    PROVE  \E x \in X : \A y \in X : x <= y
<1>1. PICK x \in X : \A y \in X : <<y, x>> \notin OpToRel(<, Nat)
  BY NatLessThanWellFounded, WFMin
<1>2. ASSUME NEW y \in X PROVE x <= y
  <2>1. <<y, x>> \in OpToRel(<, Nat) <=> y < x
    BY Zenon DEF OpToRel
  <2>2. ~(y < x)
    BY <1>1, <2>1, Zenon
  <2> QED BY <2>2
<1> QED BY <1>2

\* Min is the least element.
LEMMA MinOfNaturals ==
    ASSUME NEW S \in SUBSET Nat, S # {}
    PROVE  Min(S) \in S /\ \A y \in S : Min(S) <= y
<1>1. \E x \in S : \A y \in S : x <= y
  BY LeastOfNaturals
<1> QED BY <1>1 DEF Min

\* A walk ends, or comes to a pending task further on.
LEMMA WalkGoesOn ==
    ASSUME NEW i \in Nat, NEW map \in SUBSET Nat
    PROVE  \/ WalkFrom(i, map) = Idle
           \/ \E j \in map : j > i /\ WalkFrom(i, map) = Processing(j)
<1> DEFINE ahead == {j \in map : j > i}
<1>1. CASE ahead = {}
  BY <1>1 DEF WalkFrom
<1>2. CASE ahead # {}
  <2>1. Min(ahead) \in ahead
    BY <1>2, MinOfNaturals
  <2>2. WalkFrom(i, map) = Processing(Min(ahead))
    BY <1>2 DEF WalkFrom
  <2> QED BY <2>1, <2>2
<1> QED BY <1>1, <1>2

\* Any callbacks are a finite number of them, at most all, and one less without
\* one of them.
LEMMA CallbackCount ==
    ASSUME NEW A \in SUBSET Ticks
    PROVE  /\ IsFiniteSet(A)
           /\ Cardinality(A) \in Nat
           /\ Cardinality(Ticks) \in Nat
           /\ \A B \in SUBSET A : Cardinality(B) \in Nat /\ Cardinality(B) <= Cardinality(A)
           /\ Cardinality(A) <= Cardinality(Ticks)
           /\ \A k \in A : Cardinality(A \ {k}) = Cardinality(A) - 1
<1>1. IsFiniteSet(Ticks)
  BY QueueAssumption
<1>2. IsFiniteSet(A) /\ Cardinality(A) <= Cardinality(Ticks)
  BY <1>1, FS_Subset
<1>3. \A B \in SUBSET A : IsFiniteSet(B) /\ Cardinality(B) <= Cardinality(A)
  BY <1>2, FS_Subset
<1>4. \A B \in SUBSET A : Cardinality(B) \in Nat
  BY <1>3, FS_CardinalityType
<1>5. \A k \in A : Cardinality(A \ {k}) = Cardinality(A) - 1
  BY <1>2, FS_RemoveElement
<1> QED BY <1>1, <1>2, <1>3, <1>4, <1>5, FS_CardinalityType

-----------------------------------------------------------------------------
\* The callback that moves on from task i leaves it, and comes to a task in map.
LEMMA MovedOn ==
    ASSUME TypeOK, NEW k \in Ticks, NEW i \in Nat, NEW map \in SUBSET (1 .. count),
           Go(k, WalkFrom(i, map))
    PROVE  /\ tick' \in [Ticks -> TickRecord]
           /\ tick'[k].phase = "idle" \/ tick'[k].phase = "processing"
           /\ tick'[k].phase # "idle" => tick'[k].at \in map /\ tick'[k].at > i
           /\ \A c \in Ticks \ {k} : tick'[c] = tick[c]
<1>1. map \in SUBSET Nat
  OBVIOUS
<1>2. WalkFrom(i, map) = Idle \/ \E j \in map : j > i /\ WalkFrom(i, map) = Processing(j)
  BY <1>1, WalkGoesOn
<1>3. tick'[k] = WalkFrom(i, map)
  BY DEF Go, TypeOK
<1>4. 1 .. count \subseteq TaskIds
  BY QueueAssumption DEF TypeOK, TaskIds
<1>5. WalkFrom(i, map) \in TickRecord
  BY <1>2, <1>4 DEF TickRecord, Idle, Processing
<1>6. tick' \in [Ticks -> TickRecord]
  BY <1>5 DEF Go, TypeOK
<1>7. tick'[k].phase = "idle" \/ tick'[k].phase = "processing"
  BY <1>2, <1>3 DEF Idle, Processing
<1>8. tick'[k].phase # "idle" => tick'[k].at \in map /\ tick'[k].at > i
  BY <1>2, <1>3 DEF Idle, Processing
<1>9. \A c \in Ticks \ {k} : tick'[c] = tick[c]
  BY DEF Go, TypeOK
<1> QED BY <1>6, <1>7, <1>8, <1>9

\* Of a task that is pending, or that no callback has come to, and that nothing
\* new was told of, no more is told or to be told than there are callbacks.
LEMMA NoNewComer ==
    ASSUME QueueInv, NEW j \in TaskIds, told'[j] = told[j],
           AtTask(j)' \subseteq AtTask(j) \/ j \in pending
    PROVE  told'[j] + Cardinality(AtTask(j)') <= Cardinality(Ticks)
<1>1. AtTask(j) \subseteq Ticks /\ AtTask(j)' \subseteq Ticks
  BY DEF AtTask
<1>2. told[j] \in Nat
  BY DEF QueueInv, TypeOK
<1>3. CASE j \in pending
  <2>1. told[j] = 0
    BY <1>2, <1>3 DEF QueueInv, ToldIsDeleted
  <2>2. Cardinality(AtTask(j)') <= Cardinality(Ticks) /\ Cardinality(AtTask(j)') \in Nat
    BY <1>1, CallbackCount
  <2> QED BY <2>1, <2>2
<1>4. CASE AtTask(j)' \subseteq AtTask(j)
  <2>1. /\ Cardinality(AtTask(j)') \in Nat
        /\ Cardinality(AtTask(j)') <= Cardinality(AtTask(j))
        /\ Cardinality(AtTask(j)) \in Nat
        /\ Cardinality(Ticks) \in Nat
    BY <1>1, <1>4, CallbackCount
  <2>2. told[j] + Cardinality(AtTask(j)) <= Cardinality(Ticks)
    BY DEF QueueInv, ToldBound
  <2> QED BY <1>2, <2>1, <2>2
<1> QED BY <1>3, <1>4

-----------------------------------------------------------------------------
\* The queue starts empty, with nothing told and all callbacks idle.
LEMMA InitInv == Init => QueueInv
<1> SUFFICES ASSUME Init PROVE QueueInv
  OBVIOUS
<1> USE DEF Init
<1>1. TypeOK
  BY QueueAssumption DEF TypeOK, TickRecord, Idle
<1>2. \A k \in Ticks : tick[k].phase = "idle"
  BY DEF Idle
<1>3. TicksAtTasks /\ NothingAhead /\ GivenUpIsDeleted /\ LeavesForAReason /\ ToldIsDeleted
  BY <1>2 DEF TicksAtTasks, NothingAhead, GivenUpIsDeleted, LeavesForAReason, ToldIsDeleted
<1>4. ToldBound
  <2> SUFFICES ASSUME NEW i \in TaskIds
               PROVE  told[i] + Cardinality(AtTask(i)) <= Cardinality(Ticks)
    BY DEF ToldBound
  <2>1. AtTask(i) = {} /\ told[i] = 0
    BY <1>2 DEF AtTask
  <2>2. Cardinality({}) = 0
    BY FS_EmptySet
  <2>3. Cardinality(Ticks) \in Nat
    BY QueueAssumption, FS_CardinalityType
  <2> QED BY <2>1, <2>2, <2>3
<1> QED BY <1>1, <1>3, <1>4 DEF QueueInv

\* A new task comes with a number that nothing is known of.
LEMMA PutInv == QueueInv /\ Put => QueueInv'
<1> SUFFICES ASSUME QueueInv, Put PROVE QueueInv'
  OBVIOUS
<1> USE DEF QueueInv, Put
<1>1. TypeOK'
  BY QueueAssumption DEF TypeOK
<1>2. TicksAtTasks'
  BY DEF TicksAtTasks, TypeOK
<1>3. NothingAhead'
  BY DEF NothingAhead, TypeOK, TaskIds
<1>4. GivenUpIsDeleted'
  BY DEF GivenUpIsDeleted, TicksAtTasks, TypeOK
<1>5. LeavesForAReason'
  BY DEF LeavesForAReason, TypeOK
<1>6. ToldBound'
  BY DEF ToldBound, AtTask
<1>7. ToldIsDeleted'
  <2>1. count + 1 \in TaskIds /\ attempts[count + 1] = 0
    BY QueueAssumption DEF TypeOK, TaskIds, NothingAhead
  <2> QED BY <2>1 DEF ToldIsDeleted, MaxAttempts, TypeOK
<1> QED BY <1>1, <1>2, <1>3, <1>4, <1>5, <1>6, <1>7

\* A callback that starts comes to a pending task.
LEMMA FireInv == ASSUME QueueInv, NEW k \in Ticks, Fire(k) PROVE QueueInv'
<1>1. /\ tick' \in [Ticks -> TickRecord]
      /\ tick'[k].phase = "idle" \/ tick'[k].phase = "processing"
      /\ tick'[k].phase # "idle" => tick'[k].at \in pending
      /\ \A c \in Ticks \ {k} : tick'[c] = tick[c]
  <2>1. TypeOK /\ pending \in SUBSET (1 .. count)
    BY DEF QueueInv, TypeOK
  <2>2. Go(k, WalkFrom(0, pending)) /\ 0 \in Nat
    BY DEF Fire
  <2> QED BY <2>1, <2>2, MovedOn
<1> USE DEF QueueInv, Fire
<1>2. TypeOK'
  BY <1>1 DEF TypeOK
<1>3. TicksAtTasks'
  <2> SUFFICES ASSUME NEW c \in Ticks, tick'[c].phase # "idle" PROVE tick'[c].at \in 1 .. count
    BY DEF TicksAtTasks
  <2>1. pending \subseteq 1 .. count
    BY DEF TypeOK
  <2>2. CASE c = k
    BY <1>1, <2>1, <2>2
  <2>3. CASE c # k
    BY <1>1, <2>3 DEF TicksAtTasks
  <2> QED BY <2>2, <2>3
<1>4. GivenUpIsDeleted'
  <2> SUFFICES ASSUME NEW c \in Ticks, tick'[c].phase = "givingUp"
               PROVE  attempts[tick'[c].at] >= MaxAttempts /\ tick'[c].at \notin pending
    BY DEF GivenUpIsDeleted
  <2>1. tick'[c] = tick[c]
    BY <1>1
  <2> QED BY <2>1 DEF GivenUpIsDeleted
<1>5. NothingAhead' /\ LeavesForAReason' /\ ToldIsDeleted'
  BY DEF NothingAhead, LeavesForAReason, ToldIsDeleted
<1>6. ToldBound'
  <2> SUFFICES ASSUME NEW j \in TaskIds
               PROVE  (told[j] + Cardinality(AtTask(j)) <= Cardinality(Ticks))'
    BY DEF ToldBound
  <2>1. AtTask(j)' \subseteq AtTask(j) \/ j \in pending
    BY <1>1 DEF AtTask
  <2> QED BY <2>1, NoNewComer
<1> QED BY <1>2, <1>3, <1>4, <1>5, <1>6

\* A success deletes the task, for the reason that it is done.
LEMMA SucceedInv == ASSUME QueueInv, NEW k \in Ticks, Succeed(k) PROVE QueueInv'
<1> DEFINE i == tick[k].at
<1>0. i \in 1 .. count /\ i \in TaskIds /\ count \in Nat
  BY QueueAssumption DEF QueueInv, TypeOK, TicksAtTasks, Succeed, TaskIds
<1>a. /\ pending' = pending \ {i}
      /\ done' = done \cup {i}
      /\ Go(k, WalkFrom(i, pending'))
      /\ UNCHANGED <<count, attempts, told, lost>>
  BY DEF Succeed
<1>1. /\ tick' \in [Ticks -> TickRecord]
      /\ tick'[k].phase = "idle" \/ tick'[k].phase = "processing"
      /\ tick'[k].phase # "idle" => tick'[k].at \in pending'
      /\ \A c \in Ticks \ {k} : tick'[c] = tick[c]
  <2>1. pending' \in SUBSET (1 .. count) /\ i \in Nat
    <3>1. i \in Nat
      BY <1>0
    <3>2. pending' \subseteq pending /\ pending \subseteq 1 .. count
      BY <1>a DEF QueueInv, TypeOK
    <3> QED BY <3>1, <3>2
  <2>2. TypeOK
    BY DEF QueueInv
  <2> HIDE DEF i
  <2> QED BY <2>1, <2>2, <1>a, MovedOn
<1> HIDE DEF i
<1> USE DEF QueueInv
<1>2. TypeOK'
  BY <1>0, <1>a, <1>1 DEF TypeOK
<1>3. TicksAtTasks'
  <2> SUFFICES ASSUME NEW c \in Ticks, tick'[c].phase # "idle" PROVE tick'[c].at \in 1 .. count
    BY <1>a DEF TicksAtTasks
  <2>1. CASE c = k
    BY <1>0, <1>a, <1>1, <2>1 DEF TypeOK
  <2>2. CASE c # k
    BY <1>1, <2>2 DEF TicksAtTasks
  <2> QED BY <2>1, <2>2
<1>4. GivenUpIsDeleted'
  BY <1>a, <1>1 DEF GivenUpIsDeleted
<1>5. NothingAhead' /\ LeavesForAReason' /\ ToldIsDeleted'
  BY <1>a DEF NothingAhead, LeavesForAReason, ToldIsDeleted
<1>6. ToldBound'
  <2> SUFFICES ASSUME NEW j \in TaskIds
               PROVE  (told[j] + Cardinality(AtTask(j)) <= Cardinality(Ticks))'
    BY DEF ToldBound
  <2>1. AtTask(j)' \subseteq AtTask(j) \/ j \in pending
    BY <1>a, <1>1 DEF AtTask
  <2> QED BY <1>a, <2>1, NoNewComer
<1> QED BY <1>2, <1>3, <1>4, <1>5, <1>6

\* A failure is counted; the third deletes the task and the callback stays with
\* it to tell the user.
LEMMA FailInv == ASSUME QueueInv, NEW k \in Ticks, Fail(k) PROVE QueueInv'
<1> DEFINE i == tick[k].at
<1>0. i \in 1 .. count /\ i \in TaskIds /\ i \in Nat /\ count \in Nat
  BY QueueAssumption DEF QueueInv, TypeOK, TicksAtTasks, Fail, TaskIds
<1>a. /\ tick[k].phase = "processing"
      /\ attempts' = [attempts EXCEPT ![i] = @ + 1]
      /\ IF attempts[i] + 1 >= MaxAttempts
         THEN pending' = pending \ {i} /\ Go(k, GivingUp(i))
         ELSE Go(k, WalkFrom(i, pending)) /\ UNCHANGED pending
      /\ UNCHANGED <<count, told, done, lost>>
  BY DEF Fail
<1>1. /\ tick' \in [Ticks -> TickRecord]
      /\ \A c \in Ticks \ {k} : tick'[c] = tick[c]
      /\ \/ /\ tick'[k].phase = "idle" \/ tick'[k].phase = "processing"
            /\ tick'[k].phase # "idle" => tick'[k].at \in pending
            /\ pending' = pending
            /\ attempts[i] + 1 < MaxAttempts
         \/ /\ tick'[k] = GivingUp(i)
            /\ pending' = pending \ {i}
            /\ attempts'[i] >= MaxAttempts
  <2>0. TypeOK /\ attempts[i] \in Nat /\ attempts'[i] = attempts[i] + 1
    BY <1>0, <1>a DEF QueueInv, TypeOK
  <2>1. CASE attempts[i] + 1 >= MaxAttempts
    <3>1. Go(k, GivingUp(i)) /\ pending' = pending \ {i}
      BY <1>a, <2>1
    <3>2. GivingUp(i) \in TickRecord
      BY <1>0 DEF GivingUp, TickRecord
    <3> HIDE DEF i
    <3> QED BY <2>0, <2>1, <3>1, <3>2 DEF Go, TypeOK
  <2>2. CASE ~(attempts[i] + 1 >= MaxAttempts)
    <3>1. Go(k, WalkFrom(i, pending)) /\ pending' = pending
      BY <1>a, <2>2
    <3>2. pending \in SUBSET (1 .. count)
      BY <2>0 DEF TypeOK
    <3>3. attempts[i] + 1 < MaxAttempts
      BY <2>0, <2>2 DEF MaxAttempts
    <3> HIDE DEF i
    <3> QED BY <1>0, <2>0, <3>1, <3>2, <3>3, MovedOn
  <2> QED BY <2>1, <2>2
<1>b. \A j \in TaskIds : attempts'[j] \in Nat /\ attempts'[j] >= attempts[j] /\ attempts[j] \in Nat
  BY <1>a DEF QueueInv, TypeOK
<1>c. /\ \A j \in TaskIds \ {i} : attempts'[j] = attempts[j]
      /\ tick[k].at = i
      /\ attempts' \in [TaskIds -> Nat]
  <2>1. attempts \in [TaskIds -> Nat] /\ tick[k].at = i
    BY DEF QueueInv, TypeOK
  <2> HIDE DEF i
  <2> QED BY <1>0, <1>a, <2>1
<1> HIDE DEF i
<1> USE DEF QueueInv
<1>2. TypeOK'
  BY <1>0, <1>a, <1>1, <1>c DEF TypeOK
<1>3. TicksAtTasks'
  <2> SUFFICES ASSUME NEW c \in Ticks, tick'[c].phase # "idle" PROVE tick'[c].at \in 1 .. count
    BY <1>a DEF TicksAtTasks
  <2>1. CASE c = k
    <3>1. pending \subseteq 1 .. count
      BY DEF TypeOK
    <3>2. tick'[k].phase # "idle" => tick'[k].at \in pending \/ tick'[k].at = i
      BY <1>1 DEF GivingUp
    <3> QED BY <1>0, <2>1, <3>1, <3>2
  <2>2. CASE c # k
    BY <1>1, <2>2 DEF TicksAtTasks
  <2> QED BY <2>1, <2>2
<1>4. GivenUpIsDeleted'
  <2> SUFFICES ASSUME NEW c \in Ticks, tick'[c].phase = "givingUp"
               PROVE  attempts'[tick'[c].at] >= MaxAttempts /\ tick'[c].at \notin pending'
    BY DEF GivenUpIsDeleted
  <2>1. CASE c = k
    BY <1>1, <2>1 DEF GivingUp
  <2>2. CASE c # k
    <3>1. tick'[c] = tick[c] /\ tick[c].at \in TaskIds
      BY <1>0, <1>1, <2>2, QueueAssumption DEF TicksAtTasks, TypeOK, TaskIds
    <3>2. attempts[tick[c].at] >= MaxAttempts /\ tick[c].at \notin pending
      BY <3>1 DEF GivenUpIsDeleted
    <3>3. attempts'[tick[c].at] >= MaxAttempts
      BY <1>b, <3>1, <3>2 DEF MaxAttempts
    <3> QED BY <1>1, <3>1, <3>2, <3>3
  <2> QED BY <2>1, <2>2
<1>5. NothingAhead'
  BY <1>0, <1>a, <1>c DEF NothingAhead
<1>6. LeavesForAReason'
  <2> SUFFICES ASSUME NEW j \in 1 .. count, j \notin pending'
               PROVE  j \in done \cup lost \/ attempts'[j] >= MaxAttempts
    BY <1>a DEF LeavesForAReason
  <2>1. j \in TaskIds
    BY QueueAssumption DEF TypeOK, TaskIds
  <2>2. CASE j \in pending
    BY <1>1, <2>2
  <2>3. CASE j \notin pending
    BY <1>b, <2>1, <2>3 DEF LeavesForAReason, MaxAttempts
  <2> QED BY <2>2, <2>3
<1>7. ToldBound'
  <2> SUFFICES ASSUME NEW j \in TaskIds
               PROVE  (told[j] + Cardinality(AtTask(j)) <= Cardinality(Ticks))'
    BY DEF ToldBound
  <2>1. AtTask(j)' \subseteq AtTask(j) \/ j \in pending
    BY <1>a, <1>1, <1>c DEF AtTask, GivingUp
  <2> QED BY <1>a, <2>1, NoNewComer
<1>8. ToldIsDeleted'
  <2> SUFFICES ASSUME NEW j \in TaskIds, told[j] > 0
               PROVE  attempts'[j] >= MaxAttempts /\ j \notin pending'
    BY <1>a DEF ToldIsDeleted
  <2> QED BY <1>1, <1>b DEF ToldIsDeleted, MaxAttempts
<1> QED BY <1>2, <1>3, <1>4, <1>5, <1>6, <1>7, <1>8

\* A callback tells at most once and leaves the task.
LEMMA GiveUpInv == ASSUME QueueInv, NEW k \in Ticks, GiveUp(k) PROVE QueueInv'
<1> DEFINE i == tick[k].at
<1>0. i \in 1 .. count /\ i \in TaskIds /\ i \in Nat /\ count \in Nat
  BY QueueAssumption DEF QueueInv, TypeOK, TicksAtTasks, GiveUp, TaskIds
<1>a. /\ tick[k].phase = "givingUp"
      /\ Go(k, WalkFrom(i, pending))
      /\ UNCHANGED <<count, pending, attempts, done, lost>>
      /\ tick[k].at = i
  BY DEF GiveUp
<1>b. PICK sent \in {0, 1} : told' = [told EXCEPT ![i] = @ + sent]
  BY DEF GiveUp
<1>1. /\ tick' \in [Ticks -> TickRecord]
      /\ tick'[k].phase = "idle" \/ tick'[k].phase = "processing"
      /\ tick'[k].phase # "idle" => tick'[k].at \in pending /\ tick'[k].at > i
      /\ \A c \in Ticks \ {k} : tick'[c] = tick[c]
  <2>1. pending \in SUBSET (1 .. count) /\ TypeOK
    BY DEF QueueInv, TypeOK
  <2> HIDE DEF i
  <2> QED BY <1>0, <2>1, <1>a, MovedOn
<1> HIDE DEF i
<1>c. attempts[i] >= MaxAttempts /\ i \notin pending
  BY <1>a DEF QueueInv, GivenUpIsDeleted
<1>d. /\ told' \in [TaskIds -> Nat]
      /\ told[i] \in Nat /\ told'[i] \in Nat /\ told'[i] <= told[i] + 1
      /\ \A j \in TaskIds \ {i} : told'[j] = told[j]
  BY <1>0, <1>b DEF QueueInv, TypeOK
<1> USE DEF QueueInv
<1>2. TypeOK'
  BY <1>0, <1>a, <1>1, <1>d DEF TypeOK
<1>3. TicksAtTasks'
  BY <1>a, <1>1 DEF TicksAtTasks, TypeOK
<1>4. GivenUpIsDeleted'
  BY <1>a, <1>1 DEF GivenUpIsDeleted
<1>5. NothingAhead' /\ LeavesForAReason'
  BY <1>a DEF NothingAhead, LeavesForAReason
<1>6. ToldIsDeleted'
  BY <1>a, <1>c, <1>d DEF ToldIsDeleted
<1>7. ToldBound'
  <2> SUFFICES ASSUME NEW j \in TaskIds
               PROVE  (told[j] + Cardinality(AtTask(j)) <= Cardinality(Ticks))'
    BY DEF ToldBound
  <2>1. CASE j = i
    <3>1. AtTask(j)' \subseteq AtTask(j) \ {k}
      <4> SUFFICES ASSUME NEW c \in Ticks, tick'[c].phase # "idle", tick'[c].at = j
                   PROVE  c \in AtTask(j) /\ c # k
        BY DEF AtTask
      <4>1. c # k
        BY <1>1, <1>c, <2>1
      <4> QED BY <1>1, <4>1 DEF AtTask
    <3>2. k \in AtTask(j) /\ AtTask(j) \in SUBSET Ticks
      BY <1>a, <2>1 DEF AtTask
    <3>3. /\ Cardinality(AtTask(j) \ {k}) = Cardinality(AtTask(j)) - 1
          /\ Cardinality(AtTask(j)) \in Nat
          /\ Cardinality(Ticks) \in Nat
      BY <3>2, CallbackCount
    <3>4. /\ Cardinality(AtTask(j)') \in Nat
          /\ Cardinality(AtTask(j)') <= Cardinality(AtTask(j) \ {k})
      <4>1. AtTask(j) \ {k} \in SUBSET Ticks
        BY <3>2
      <4> QED BY <3>1, <4>1, CallbackCount
    <3>5. told[j] + Cardinality(AtTask(j)) <= Cardinality(Ticks)
      BY DEF ToldBound
    <3>6. told'[j] + Cardinality(AtTask(j)') <= Cardinality(Ticks)
      BY <1>d, <2>1, <3>3, <3>4, <3>5
    <3> QED BY <3>6
  <2>2. CASE j # i
    <3>1. AtTask(j)' \subseteq AtTask(j) \/ j \in pending
      BY <1>a, <1>1 DEF AtTask
    <3> QED BY <1>d, <2>2, <3>1, NoNewComer
  <2> QED BY <2>1, <2>2
<1> QED BY <1>2, <1>3, <1>4, <1>5, <1>6, <1>7

\* A restart empties the Map, and no callback of the old process goes on.
LEMMA RestartInv == QueueInv /\ Restart => QueueInv'
<1> SUFFICES ASSUME QueueInv, Restart PROVE QueueInv'
  OBVIOUS
<1> USE DEF QueueInv, Restart
<1>1. \A k \in Ticks : tick'[k].phase = "idle"
  BY DEF Idle
<1>2. TypeOK'
  BY DEF TypeOK, TickRecord, Idle
<1>3. TicksAtTasks' /\ GivenUpIsDeleted'
  BY <1>1 DEF TicksAtTasks, GivenUpIsDeleted
<1>4. NothingAhead' /\ LeavesForAReason' /\ ToldIsDeleted'
  BY DEF NothingAhead, LeavesForAReason, ToldIsDeleted
<1>5. ToldBound'
  <2> SUFFICES ASSUME NEW j \in TaskIds
               PROVE  (told[j] + Cardinality(AtTask(j)) <= Cardinality(Ticks))'
    BY DEF ToldBound
  <2>1. AtTask(j)' \subseteq AtTask(j)
    BY <1>1 DEF AtTask
  <2> QED BY <2>1, NoNewComer
<1> QED BY <1>2, <1>3, <1>4, <1>5

-----------------------------------------------------------------------------
\* Every step preserves the invariant.
LEMMA NextInv == QueueInv /\ [Next]_vars => QueueInv'
<1> SUFFICES ASSUME QueueInv, [Next]_vars PROVE QueueInv'
  OBVIOUS
<1>1. CASE Put
  BY <1>1, PutInv
<1>2. ASSUME NEW k \in Ticks, Fire(k) PROVE QueueInv'
  BY <1>2, FireInv
<1>3. ASSUME NEW k \in Ticks, Step(k) PROVE QueueInv'
  BY <1>3, SucceedInv, FailInv, GiveUpInv DEF Step
<1>4. CASE Restart
  BY <1>4, RestartInv
<1>5. CASE UNCHANGED vars
  BY <1>5 DEF vars, QueueInv, TypeOK, TicksAtTasks, NothingAhead, GivenUpIsDeleted,
              LeavesForAReason, ToldBound, ToldIsDeleted, AtTask
<1> QED BY <1>1, <1>2, <1>3, <1>4, <1>5 DEF Next

\* The queue keeps its invariant, whatever the interleaving of the callbacks.
THEOREM QueueInvariant == Spec => []QueueInv
<1> QED BY InitInv, NextInv, PTL DEF Spec

\* The invariant contains what the run checks of the counts of messages.
LEMMA ToldFromInv == QueueInv => ToldOncePerCallback
<1> SUFFICES ASSUME QueueInv, NEW i \in TaskIds
             PROVE  /\ told[i] <= Cardinality(Ticks)
                    /\ told[i] > 0 => attempts[i] >= MaxAttempts /\ i \notin pending
  BY DEF ToldOncePerCallback
<1>1. AtTask(i) \in SUBSET Ticks
  BY DEF AtTask
<1>2. Cardinality(AtTask(i)) \in Nat /\ Cardinality(Ticks) \in Nat
  BY <1>1, CallbackCount
<1>3. told[i] + Cardinality(AtTask(i)) <= Cardinality(Ticks) /\ told[i] \in Nat
  BY DEF QueueInv, ToldBound, TypeOK
<1> QED BY <1>2, <1>3 DEF QueueInv, ToldIsDeleted

\* Every variable has its type.
THEOREM TypeCorrect == Spec => []TypeOK
<1> QED BY QueueInvariant, PTL DEF QueueInv

\* A task leaves the queue processed, failed three times, or with its process.
THEOREM TasksLeaveForAReason == Spec => []LeavesForAReason
<1> QED BY QueueInvariant, PTL DEF QueueInv

\* However the callbacks overlap, none of them tells of a failure twice, and none
\* before the third attempt.
THEOREM FailureToldOncePerCallback == Spec => []ToldOncePerCallback
<1> QED BY QueueInvariant, ToldFromInv, PTL
=============================================================================
