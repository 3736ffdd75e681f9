-------------------------- MODULE ClockEventsProofs --------------------------
(***************************************************************************)
(* What is proved of the clock events, for any events, any number of       *)
(* requests and any number of saves.                                       *)
(*                                                                         *)
(* First what calculateDurationFromClockEvents returns: for a log that     *)
(* makes sense the minutes worked, and a negative number only for a log    *)
(* with one of two mistakes in it.  Sorting is shown to be a permutation   *)
(* in order, and the loop is followed turn by turn, by induction over the  *)
(* set of the turns after which its state is as it should be.              *)
(*                                                                         *)
(* Then that the stored duration is the one of the stored events, and that *)
(* a verification marks the event its verifier saw.  There Duration stays  *)
(* closed but for the empty log: what matters is that a request whose      *)
(* version is still the document's has a copy of the document's events.    *)
(***************************************************************************)
EXTENDS ClockEvents, FiniteSetTheorems, TLAPS

-----------------------------------------------------------------------------
(* Induction over the naturals, stated for a set instead of a predicate. *)

\* A nonempty set of naturals has a least element.
LEMMA LeastOfNaturals ==
    ASSUME NEW X \in SUBSET Nat, X # {}
    PROVE  \E x \in X : \A y \in X : x <= y
<1>1. PICK x \in X : \A y \in X : <<y, x>> \notin OpToRel(<, Nat)
  BY NatLessThanWellFounded, WFMin
<1>2. ASSUME NEW y \in X PROVE x <= y
  <2>1. <<y, x>> \in OpToRel(<, Nat) <=> y < x
    BY Zenon DEF OpToRel
  <2>2. ~(y < x)
    BY <1>1, <2>1, Zenon
  <2> QED BY <2>2
<1> QED BY <1>2

\* A set of naturals that contains 0 and, with every member, its successor is all of Nat.
LEMMA NatSetInduction ==
    ASSUME NEW W, 0 \in W, \A n \in Nat : n \in W => n + 1 \in W
    PROVE  Nat \subseteq W
<1>1. SUFFICES ASSUME Nat \ W # {} PROVE FALSE
  OBVIOUS
<1>2. PICK x \in Nat \ W : \A y \in Nat \ W : x <= y
  BY <1>1, LeastOfNaturals
<1>3. x # 0 /\ x - 1 \in Nat
  BY <1>2
<1>4. x - 1 \notin Nat \ W /\ (x - 1) + 1 = x
  BY <1>2, <1>3
<1> QED BY <1>2, <1>3, <1>4

-----------------------------------------------------------------------------
(***************************************************************************)
(* The loop of calculateDurationFromClockEvents.  FoldLeft is defined by   *)
(* recursion over sets of places; loop states are its values on 1..i.      *)
(***************************************************************************)
IsFold(g, s, n) ==
    g = [t \in SUBSET (1..n) |-> IF t = {} THEN Nothing
                                 ELSE Clock(g[t \ {Max(t)}], s[Max(t)])]

LEMMA LargestIsMax ==
    ASSUME NEW n \in Nat, NEW t \in SUBSET (1..n), n \in t
    PROVE  Max(t) = n
<1>1. \A y \in t : n >= y
  OBVIOUS
<1>2. \A x \in t : (\A y \in t : x >= y) => x = n
  BY <1>1
<1> QED BY <1>1, <1>2 DEF Max

LEMMA FoldExists == \A s : \A n \in Nat : \E g : IsFold(g, s, n)
<1> TAKE s
<1> DEFINE T == {n \in Nat : \E g : IsFold(g, s, n)}
<1>1. 0 \in T
  <2> DEFINE g == [t \in SUBSET (1..0) |-> Nothing]
  <2>1. \A t \in SUBSET (1..0) : t = {}
    OBVIOUS
  <2>2. IsFold(g, s, 0)
    BY <2>1 DEF IsFold
  <2> QED BY <2>2
<1>2. ASSUME NEW n \in Nat, n \in T PROVE n + 1 \in T
  <2>1. PICK g : IsFold(g, s, n)
    BY <1>2
  <2> DEFINE h == [t \in SUBSET (1..n+1) |->
                      IF n + 1 \in t THEN Clock(g[t \ {n+1}], s[n+1]) ELSE g[t]]
  <2>2. ASSUME NEW t \in SUBSET (1..n+1)
        PROVE  h[t] = IF t = {} THEN Nothing ELSE Clock(h[t \ {Max(t)}], s[Max(t)])
    <3>1. CASE n + 1 \in t
      <4>1. Max(t) = n + 1
        BY <3>1, LargestIsMax
      <4>2. t \ {n+1} \in SUBSET (1..n+1) /\ n + 1 \notin t \ {n+1}
        OBVIOUS
      <4>3. h[t \ {n+1}] = g[t \ {n+1}]
        BY <4>2
      <4> QED BY <3>1, <4>1, <4>3
    <3>2. CASE n + 1 \notin t
      <4>1. t \in SUBSET (1..n) /\ h[t] = g[t]
        BY <3>2
      <4>2. g[t] = IF t = {} THEN Nothing ELSE Clock(g[t \ {Max(t)}], s[Max(t)])
        BY <2>1, <4>1 DEF IsFold
      <4>3. t \ {Max(t)} \in SUBSET (1..n+1) /\ n + 1 \notin t \ {Max(t)}
        BY <3>2
      <4>4. h[t \ {Max(t)}] = g[t \ {Max(t)}]
        BY <4>3
      <4> QED BY <4>1, <4>2, <4>4
    <3> QED BY <3>1, <3>2
  <2> HIDE DEF h
  <2>3. DOMAIN h = SUBSET (1..n+1) /\ h = [t \in SUBSET (1..n+1) |-> h[t]]
    BY DEF h
  <2>4. IsFold(h, s, n + 1)
    BY <2>2, <2>3 DEF IsFold
  <2> QED BY <2>4
<1>3. Nat \subseteq T
  <2> HIDE DEF T
  <2> QED BY <1>1, <1>2, NatSetInduction
<1> QED BY <1>3

\* k is the sequence of the states of the loop over s, before its first turn
\* and after each.
LoopStates(k, s, n) ==
    k[0] = Nothing /\ \A i \in 0..n-1 : k[i+1] = Clock(k[i], s[i+1])

LEMMA LoopOfFold ==
    ASSUME NEW n \in Nat, NEW s, DOMAIN s = 1..n
    PROVE  \E k : LoopStates(k, s, n) /\ FoldLeft(Clock, Nothing, s) = k[n]
<1> DEFINE g == CHOOSE g : IsFold(g, s, n)
           k == [i \in 0..n |-> g[1..i]]
<1>1. IsFold(g, s, n)
  BY FoldExists
<1>2. FoldLeft(Clock, Nothing, s) = g[1..n]
  BY DEF FoldLeft, MapThenFoldSet, IsFold
<1> HIDE DEF g
<1>3. g[1..0] = Nothing
  <2>1. 1..0 = {} /\ 1..0 \in SUBSET (1..n)
    OBVIOUS
  <2> QED BY <1>1, <2>1 DEF IsFold
<1>4. ASSUME NEW i \in 0..n-1 PROVE g[1..i+1] = Clock(g[1..i], s[i+1])
  <2>1. /\ 1..i+1 \in SUBSET (1..n) /\ 1..i+1 # {} /\ i + 1 \in 1..i+1
        /\ (1..i+1) \ {i+1} = 1..i
    OBVIOUS
  <2>2. Max(1..i+1) = i + 1
    BY <2>1, LargestIsMax
  <2> QED BY <1>1, <2>1, <2>2 DEF IsFold
<1>5. LoopStates(k, s, n)
  BY <1>3, <1>4 DEF LoopStates
<1> QED BY <1>2, <1>5

-----------------------------------------------------------------------------
(***************************************************************************)
(* Sorting.  Every place of the sorted log is the place of exactly one     *)
(* event, and times grow with places.                                      *)
(***************************************************************************)
Before(es, i) == {j \in DOMAIN es : \/ es[j].time < es[i].time
                                    \/ es[j].time = es[i].time /\ j <= i}

LEMMA PlaceIsRank ==
    ASSUME NEW es \in Seq(Events), NEW i \in DOMAIN es
    PROVE  /\ Place(es, i) \in 1..Len(es)
           /\ \A j \in DOMAIN es : es[i].time < es[j].time \/ (es[i].time = es[j].time /\ i < j)
                 => Place(es, i) < Place(es, j)
<1>1. \A j \in DOMAIN es : es[j].time \in Int
  BY EventsAssumption
<1>2. DOMAIN es = 1..Len(es) /\ Len(es) \in Nat
  OBVIOUS
<1>3. IsFiniteSet(1..Len(es)) /\ Cardinality(1..Len(es)) = Len(es)
  <2>1. \A m \in Nat : IsFiniteSet(1..m) /\ Cardinality(1..m) = m
    BY FS_Interval
  <2> QED BY <1>2, <2>1
<1>4. \A j \in DOMAIN es : /\ IsFiniteSet(Before(es, j)) /\ j \in Before(es, j)
                           /\ Cardinality(Before(es, j)) <= Len(es)
                           /\ Cardinality(Before(es, j)) \in Nat
                           /\ Place(es, j) = Cardinality(Before(es, j))
  <2> TAKE j \in DOMAIN es
  <2>1. Before(es, j) \in SUBSET (1..Len(es)) /\ j \in Before(es, j)
    BY <1>1, <1>2 DEF Before
  <2>2. Place(es, j) = Cardinality(Before(es, j))
    BY DEF Place, Before
  <2> QED BY <1>3, <2>1, <2>2, FS_Subset, FS_CardinalityType
<1>5. Cardinality(Before(es, i)) # 0
  BY <1>4, FS_EmptySet
<1>6. ASSUME NEW j \in DOMAIN es,
             es[i].time < es[j].time \/ (es[i].time = es[j].time /\ i < j)
      PROVE  Place(es, i) < Place(es, j)
  <2>1. Before(es, i) \in SUBSET Before(es, j) /\ j \notin Before(es, i)
    BY <1>1, <1>2, <1>6 DEF Before
  <2>2. Before(es, i) # Before(es, j)
    BY <1>4, <2>1
  <2>3. /\ Cardinality(Before(es, i)) <= Cardinality(Before(es, j))
        /\ Cardinality(Before(es, i)) # Cardinality(Before(es, j))
    BY <1>4, <2>1, <2>2, FS_Subset
  <2> QED BY <1>4, <2>3
<1> QED BY <1>2, <1>4, <1>5, <1>6

\* Which event a place of the sorted log takes.
Source(es, k) == CHOOSE i \in DOMAIN es : Place(es, i) = k

LEMMA SortedEvents ==
    ASSUME NEW es \in Seq(Events)
    PROVE  /\ Sorted(es) \in Seq(Events) /\ Len(Sorted(es)) = Len(es)
           /\ \A k \in 1..Len(es) : /\ Source(es, k) \in 1..Len(es)
                                    /\ Place(es, Source(es, k)) = k
                                    /\ Sorted(es)[k] = es[Source(es, k)]
           /\ \A i \in 1..Len(es) : Place(es, i) \in 1..Len(es) /\ Sorted(es)[Place(es, i)] = es[i]
           /\ \A i, j \in 1..Len(es) : i < j => Sorted(es)[i].time <= Sorted(es)[j].time
<1> DEFINE n == Len(es)
           f == [i \in 1..n |-> Place(es, i)]
<1>1. DOMAIN es = 1..n /\ n \in Nat /\ \A i \in 1..n : es[i] \in Events /\ es[i].time \in Int
  BY EventsAssumption
<1>2. \A i \in 1..n : Place(es, i) \in 1..n
  BY <1>1, PlaceIsRank
<1>3. ASSUME NEW i \in 1..n, NEW j \in 1..n, i # j PROVE Place(es, i) # Place(es, j)
  <2>1. \/ es[i].time < es[j].time \/ (es[i].time = es[j].time /\ i < j)
        \/ es[j].time < es[i].time \/ (es[j].time = es[i].time /\ j < i)
    <3>1. es[i].time \in Int /\ es[j].time \in Int /\ i \in Int /\ j \in Int
      BY <1>1
    <3> QED BY <1>3, <3>1
  <2>2. Place(es, i) < Place(es, j) \/ Place(es, j) < Place(es, i)
    BY <1>1, <2>1, PlaceIsRank
  <2> QED BY <1>2, <2>2
<1>4. f \in Surjection(1..n, 1..n)
  <2>1. f \in Injection(1..n, 1..n)
    BY <1>2, <1>3 DEF Injection, IsInjective
  <2> QED BY <1>1, <2>1, FS_Injection, FS_Interval
<1>5. ASSUME NEW k \in 1..n
      PROVE  /\ Source(es, k) \in 1..n /\ Place(es, Source(es, k)) = k
             /\ Sorted(es)[k] = es[Source(es, k)]
  <2>1. \E i \in 1..n : Place(es, i) = k
    BY <1>4 DEF Surjection
  <2> QED BY <1>1, <2>1 DEF Source, Sorted
<1>6. DOMAIN Sorted(es) = 1..n
  BY <1>1 DEF Sorted
<1>7. Sorted(es) \in Seq(Events) /\ Len(Sorted(es)) = n
  <2>1. \A k \in 1..n : Sorted(es)[k] \in Events
    BY <1>1, <1>5
  <2>2. Sorted(es) = [k \in 1..n |-> Sorted(es)[k]]
    BY <1>1 DEF Sorted
  <2> QED BY <1>1, <2>1, <2>2, <1>6
<1>8. ASSUME NEW i \in 1..n, NEW j \in 1..n, i < j
      PROVE  Sorted(es)[i].time <= Sorted(es)[j].time
  <2>1. PICK a, b \in 1..n : /\ Place(es, a) = i /\ Place(es, b) = j
                             /\ Sorted(es)[i] = es[a] /\ Sorted(es)[j] = es[b]
    BY <1>5
  <2>2. ~ es[b].time < es[a].time
    BY <1>1, <1>8, <2>1, PlaceIsRank
  <2> QED BY <1>1, <2>1, <2>2
<1>9. ASSUME NEW i \in 1..n PROVE Sorted(es)[Place(es, i)] = es[i]
  <2>1. /\ Place(es, i) \in 1..n /\ Source(es, Place(es, i)) \in 1..n
        /\ Place(es, Source(es, Place(es, i))) = Place(es, i)
        /\ Sorted(es)[Place(es, i)] = es[Source(es, Place(es, i))]
    BY <1>2, <1>5
  <2> QED BY <1>3, <2>1
<1> QED BY <1>2, <1>5, <1>7, <1>8, <1>9

-----------------------------------------------------------------------------
(***************************************************************************)
(* The duration is an integer.                                             *)
(***************************************************************************)
Times == {{}} \cup {{t} : t \in Int}

LoopRecord == [total : Int, in : Times, break : Times, breaks : Int]

\* One turn of the loop, case by case.
LEMMA ClockTurns ==
    ASSUME NEW k \in LoopRecord, NEW e
    PROVE  /\ e.type = "clock_in" => Clock(k, e) = [k EXCEPT !.in = {e.time}]
           /\ e.type = "clock_out" /\ k.in = {} => Clock(k, e) = k
           /\ e.type = "break_start" /\ k.in = {} => Clock(k, e) = k
           /\ e.type = "break_start" /\ k.in # {} => Clock(k, e) = [k EXCEPT !.break = {e.time}]
           /\ e.type = "break_end" /\ k.break = {} => Clock(k, e) = k
<1>1. CASE e.type = "clock_in"
  BY <1>1 DEF Clock
<1>2. CASE e.type = "clock_out"
  BY <1>2 DEF Clock
<1>3. CASE e.type = "break_start"
  BY <1>3 DEF Clock
<1>4. CASE e.type = "break_end"
  BY <1>4 DEF Clock
<1> QED BY <1>1, <1>2, <1>3, <1>4

LEMMA ClockOut ==
    ASSUME NEW k \in LoopRecord, NEW e, NEW t, e.type = "clock_out", k.in = {t}
    PROVE  Clock(k, e) = [total |-> k.total + (e.time - t) - k.breaks, in |-> {},
                          break |-> k.break, breaks |-> 0]
<1>1. Clock(k, e) = [k EXCEPT !.total = @ + Since(k.in, e) - k.breaks, !.in = {}, !.breaks = 0]
  BY DEF Clock
<1>2. Since(k.in, e) = e.time - t
  BY DEF Since
<1>3. PICK u, x, y, z : k = [total |-> u, in |-> x, break |-> y, breaks |-> z]
  BY DEF LoopRecord
<1>4. Clock(k, e) = [total |-> u + Since(k.in, e) - k.breaks, in |-> {}, break |-> y, breaks |-> 0]
  BY <1>1, <1>3
<1> QED BY <1>2, <1>3, <1>4

LEMMA ClockBreakEnd ==
    ASSUME NEW k \in LoopRecord, NEW e, NEW b, e.type = "break_end", k.break = {b}
    PROVE  Clock(k, e) = [total |-> k.total, in |-> k.in,
                          break |-> {}, breaks |-> k.breaks + (e.time - b)]
<1>1. Clock(k, e) = [k EXCEPT !.breaks = @ + Since(k.break, e), !.break = {}]
  BY DEF Clock
<1>2. Since(k.break, e) = e.time - b
  BY DEF Since
<1>3. PICK u, x, y, z : k = [total |-> u, in |-> x, break |-> y, breaks |-> z]
  BY DEF LoopRecord
<1>4. Clock(k, e) = [total |-> u, in |-> x, break |-> {}, breaks |-> z + Since(k.break, e)]
  BY <1>1, <1>3
<1> QED BY <1>2, <1>3, <1>4

LEMMA ClockType ==
    ASSUME NEW k \in LoopRecord, NEW e \in Events
    PROVE  Clock(k, e) \in LoopRecord
<1>1. e.time \in Int /\ e.type \in Types /\ {e.time} \in Times /\ {} \in Times
  BY EventsAssumption DEF Times
<1>2. k.in # {} => \E t \in Int : k.in = {t}
  BY DEF Times, LoopRecord
<1>3. k.break # {} => \E b \in Int : k.break = {b}
  BY DEF Times, LoopRecord
<1>4. k.total \in Int /\ k.breaks \in Int /\ k.in \in Times /\ k.break \in Times
  BY DEF LoopRecord
<1>5. CASE e.type = "clock_in"
  <2>1. Clock(k, e) = [k EXCEPT !.in = {e.time}]
    BY <1>5, ClockTurns
  <2> QED BY <1>1, <2>1 DEF LoopRecord
<1>6. CASE e.type = "clock_out"
  <2>1. ASSUME NEW t \in Int, k.in = {t} PROVE Clock(k, e) \in LoopRecord
    <3>1. k.total + (e.time - t) - k.breaks \in Int
      BY <1>1, <1>4
    <3>2. Clock(k, e) = [total |-> k.total + (e.time - t) - k.breaks, in |-> {},
                         break |-> k.break, breaks |-> 0]
      BY <1>6, <2>1, ClockOut
    <3> QED BY <1>1, <1>4, <3>1, <3>2 DEF LoopRecord
  <2> QED BY <1>2, <1>6, <2>1, ClockTurns
<1>7. CASE e.type = "break_start"
  <2>1. Clock(k, e) = k \/ Clock(k, e) = [k EXCEPT !.break = {e.time}]
    BY <1>7, ClockTurns
  <2> QED BY <1>1, <2>1 DEF LoopRecord
<1>8. CASE e.type = "break_end"
  <2>1. ASSUME NEW b \in Int, k.break = {b} PROVE Clock(k, e) \in LoopRecord
    <3>1. k.breaks + (e.time - b) \in Int
      BY <1>1, <1>4
    <3>2. Clock(k, e) = [total |-> k.total, in |-> k.in,
                         break |-> {}, breaks |-> k.breaks + (e.time - b)]
      BY <1>8, <2>1, ClockBreakEnd
    <3> QED BY <1>1, <1>4, <3>1, <3>2 DEF LoopRecord
  <2> QED BY <1>3, <1>8, <2>1, ClockTurns
<1> QED BY <1>1, <1>5, <1>6, <1>7, <1>8 DEF Types

LEMMA LoopType ==
    ASSUME NEW n \in Nat, NEW s \in Seq(Events), Len(s) = n, NEW k, LoopStates(k, s, n)
    PROVE  \A i \in 0..n : k[i] \in LoopRecord
<1> DEFINE T == {i \in Nat : i \in 0..n => k[i] \in LoopRecord}
<1>1. 0 \in T
  BY DEF LoopStates, Nothing, LoopRecord, Times
<1>2. ASSUME NEW i \in Nat, i \in T PROVE i + 1 \in T
  <2> SUFFICES ASSUME i + 1 \in 0..n PROVE k[i+1] \in LoopRecord
    OBVIOUS
  <2>1. i \in 0..n-1 /\ s[i+1] \in Events /\ k[i] \in LoopRecord
    BY <1>2
  <2> QED BY <2>1, ClockType DEF LoopStates
<1>3. Nat \subseteq T
  <2> HIDE DEF T
  <2> QED BY <1>1, <1>2, NatSetInduction
<1> QED BY <1>3

\* The duration is what the loop over the sorted log ends with.
LEMMA DurationOfLoop ==
    ASSUME NEW es \in Seq(Events), Len(es) >= 2
    PROVE  \E k : LoopStates(k, Sorted(es), Len(es)) /\ Duration(es) = k[Len(es)].total
<1>1. DOMAIN Sorted(es) = 1..Len(es) /\ Len(es) \in Nat
  BY SortedEvents
<1>2. PICK k : /\ LoopStates(k, Sorted(es), Len(es))
               /\ FoldLeft(Clock, Nothing, Sorted(es)) = k[Len(es)]
  BY <1>1, LoopOfFold
<1> QED BY <1>2 DEF Duration

LEMMA DurationType == ASSUME NEW es \in Seq(Events) PROVE Duration(es) \in Int
<1>1. CASE Len(es) < 2
  BY <1>1 DEF Duration
<1>2. CASE Len(es) >= 2
  <2>1. PICK k : LoopStates(k, Sorted(es), Len(es)) /\ Duration(es) = k[Len(es)].total
    BY <1>2, DurationOfLoop
  <2>2. k[Len(es)] \in LoopRecord
    BY <2>1, SortedEvents, LoopType
  <2> QED BY <2>1, <2>2 DEF LoopRecord
<1> QED BY <1>1, <1>2

-----------------------------------------------------------------------------
(***************************************************************************)
(* Negative durations.  If nobody clocks in or out during a break, and     *)
(* nobody clocks in again after one, every break lies in the session it is *)
(* taken off.                                                              *)
(***************************************************************************)
InOrder(s) == \A i, j \in 1..Len(s) : i < j => s[i].time <= s[j].time

\* The break that started at place a, at time b, is not over at place i.
OpenSince(s, a, i, b) ==
    /\ a \in 1..i /\ s[a].type = "break_start" /\ s[a].time = b
    /\ \A m \in a+1..i : s[m].type # "break_end"

Clocked(s, a, i) == \E j \in a+1..i : s[j].type \in {"clock_in", "clock_out"}

\* What the loop knows after i turns: the breaks to be taken off fit in the
\* session; a break that runs began in the session, or is one that clocking
\* broke; and breaks are taken off only if one ended since the last clock-out.
Sound(s, i, c) ==
    /\ c \in LoopRecord /\ c.total >= 0 /\ c.breaks >= 0
    /\ c.in = {} => c.breaks = 0
    /\ \A t \in Int : c.in = {t} => i >= 1 /\ c.breaks <= s[i].time - t
    /\ \A b \in Int : c.break = {b} =>
          \E a \in 1..i : /\ OpenSince(s, a, i, b)
                          /\ Clocked(s, a, i) \/ \E t \in Int : c.in = {t} /\ c.breaks <= b - t
    /\ c.breaks > 0 => \E a \in 1..i : /\ s[a].type = "break_end"
                                       /\ \A m \in a+1..i : s[m].type # "clock_out"

LEMMA SoundTurn ==
    ASSUME NEW s \in Seq(Events), NEW i \in Nat, i + 1 <= Len(s), InOrder(s),
           ~ BrokenBreak(s), ~ ClockedInAgain(s), NEW c, Sound(s, i, c),
           NEW e, e = s[i+1], NEW d, d = Clock(c, e)
    PROVE  Sound(s, i + 1, d)
<1>1. /\ e \in Events /\ e.time \in Int /\ e.type \in Types
      /\ i >= 1 => s[i].time \in Int /\ s[i].time <= e.time
      /\ \A a \in 1..i : s[a].time \in Int /\ s[a].time <= e.time
      /\ 1..i+1 = DOMAIN s \cap 1..i+1 /\ i + 1 \in DOMAIN s
  BY EventsAssumption DEF InOrder
<1>2. /\ d \in LoopRecord /\ c \in LoopRecord
      /\ c.total \in Int /\ c.breaks \in Int /\ c.total >= 0 /\ c.breaks >= 0
  BY <1>1, ClockType DEF Sound, LoopRecord
<1>3. (c.in = {} \/ \E t \in Int : c.in = {t}) /\ (c.break = {} \/ \E b \in Int : c.break = {b})
  BY <1>2 DEF LoopRecord, Times
<1>15. ASSUME NEW t \in Int, c.in = {t} PROVE c.breaks <= e.time - t
  <2>1. i >= 1 /\ c.breaks <= s[i].time - t
    BY <1>15 DEF Sound
  <2>2. s[i].time \in Int /\ s[i].time <= e.time /\ e.time \in Int /\ c.breaks \in Int
    BY <1>1, <1>2, <2>1
  <2> QED BY <2>1, <2>2
<1>16. \A t, u : {t} = {u} => t = u
  OBVIOUS
\* What becomes of a break that runs, and of one that has ended.
<1>4. ASSUME NEW b \in Int, c.break = {b}, e.type # "break_end"
      PROVE  \E a \in 1..i+1 :
                /\ OpenSince(s, a, i + 1, b)
                /\ \/ Clocked(s, a, i + 1)
                   \/ /\ e.type \notin {"clock_in", "clock_out"}
                      /\ \E t \in Int : c.in = {t} /\ c.breaks <= b - t
  <2>1. PICK a \in 1..i :
            /\ OpenSince(s, a, i, b)
            /\ Clocked(s, a, i) \/ \E t \in Int : c.in = {t} /\ c.breaks <= b - t
    BY <1>4 DEF Sound
  <2>2. /\ a \in 1..i+1 /\ a+1..i+1 = (a+1..i) \cup {i+1}
    OBVIOUS
  <2>3. OpenSince(s, a, i + 1, b)
    BY <1>4, <2>1, <2>2 DEF OpenSince
  <2>4. /\ Clocked(s, a, i) => Clocked(s, a, i + 1)
        /\ e.type \in {"clock_in", "clock_out"} => Clocked(s, a, i + 1)
    BY <2>2 DEF Clocked
  <2> QED BY <2>1, <2>2, <2>3, <2>4
<1>5. ASSUME c.breaks > 0, e.type # "clock_out"
      PROVE  \E a \in 1..i+1 : /\ s[a].type = "break_end"
                               /\ \A m \in a+1..i+1 : s[m].type # "clock_out"
  <2>1. PICK a \in 1..i : /\ s[a].type = "break_end"
                          /\ \A m \in a+1..i : s[m].type # "clock_out"
    BY <1>5 DEF Sound
  <2>2. a \in 1..i+1 /\ a+1..i+1 = (a+1..i) \cup {i+1}
    OBVIOUS
  <2> QED BY <1>5, <2>1, <2>2
\* A turn that leaves the state as it is.
<1>6. ASSUME d = c, c.in = {} \/ e.type \notin {"clock_in", "clock_out"},
             c.break = {} \/ e.type # "break_end"
      PROVE  Sound(s, i + 1, d)
  <2>1. \A t \in Int : c.in = {t} => i + 1 >= 1 /\ c.breaks <= e.time - t
    BY <1>15
  <2>2. \A b \in Int : c.break = {b} =>
          \E a \in 1..i+1 : /\ OpenSince(s, a, i + 1, b)
                            /\ \/ Clocked(s, a, i + 1)
                              \/ \E t \in Int : c.in = {t} /\ c.breaks <= b - t
    BY <1>4, <1>6
  <2>3. c.breaks > 0 => e.type # "clock_out"
    BY <1>6 DEF Sound
  <2> QED BY <1>2, <1>5, <1>6, <2>1, <2>2, <2>3 DEF Sound
<1>7. CASE e.type = "clock_in"
  <2>1. d = [c EXCEPT !.in = {e.time}]
    BY <1>2, <1>7, ClockTurns
  <2>2. d.in = {e.time} /\ d.total = c.total /\ d.break = c.break /\ d.breaks = c.breaks
    BY <1>2, <2>1 DEF LoopRecord
  <2>3. c.breaks = 0
    <3> SUFFICES ASSUME c.breaks > 0 PROVE FALSE
      BY <1>2
    <3>1. PICK a \in 1..i : /\ s[a].type = "break_end"
                            /\ \A m \in a+1..i : s[m].type # "clock_out"
      BY DEF Sound
    <3>2. a \in DOMAIN s /\ a < i + 1 /\ a+1..i = a+1..(i+1)-1
      BY <1>1
    <3> QED BY <1>1, <1>7, <3>1, <3>2 DEF ClockedInAgain
  <2>4. \A t \in Int : d.in = {t} => i + 1 >= 1 /\ d.breaks <= e.time - t
    <3> SUFFICES ASSUME NEW t \in Int, d.in = {t} PROVE d.breaks <= e.time - t
      OBVIOUS
    <3>1. t = e.time
      BY <1>16, <2>2
    <3> QED BY <1>1, <2>2, <2>3, <3>1
  <2>5. \A b \in Int : d.break = {b} =>
          \E a \in 1..i+1 : OpenSince(s, a, i + 1, b) /\ Clocked(s, a, i + 1)
    BY <1>4, <1>7, <2>2
  <2> QED BY <1>2, <2>2, <2>3, <2>4, <2>5 DEF Sound
<1>8. ASSUME e.type = "clock_out", NEW t \in Int, c.in = {t} PROVE Sound(s, i + 1, d)
  <2>1. d = [total |-> c.total + (e.time - t) - c.breaks, in |-> {},
             break |-> c.break, breaks |-> 0]
    BY <1>2, <1>8, ClockOut
  <2>2. d.in = {} /\ d.total = c.total + (e.time - t) - c.breaks
        /\ d.break = c.break /\ d.breaks = 0
    BY <2>1
  <2>3. c.breaks <= e.time - t
    BY <1>8, <1>15
  <2>4. d.total >= 0
    BY <1>1, <1>2, <2>2, <2>3
  <2>5. \A b \in Int : d.break = {b} =>
          \E a \in 1..i+1 : OpenSince(s, a, i + 1, b) /\ Clocked(s, a, i + 1)
    BY <1>4, <1>8, <2>2
  <2> QED BY <1>2, <2>2, <2>4, <2>5 DEF Sound
<1>9. ASSUME e.type = "break_start", NEW t \in Int, c.in = {t} PROVE Sound(s, i + 1, d)
  <2>1. d = [c EXCEPT !.break = {e.time}]
    BY <1>2, <1>9, ClockTurns
  <2>2. d.in = {t} /\ d.total = c.total /\ d.break = {e.time} /\ d.breaks = c.breaks
    BY <1>2, <1>9, <2>1 DEF LoopRecord
  <2>3. c.breaks <= e.time - t
    BY <1>9, <1>15
  <2>4. OpenSince(s, i + 1, i + 1, e.time) /\ i + 1 \in 1..i+1
    BY <1>9 DEF OpenSince
  <2>5. \A b \in Int : d.break = {b} =>
          \E a \in 1..i+1 : /\ OpenSince(s, a, i + 1, b)
                            /\ \E u \in Int : d.in = {u} /\ d.breaks <= b - u
    BY <1>16, <2>2, <2>3, <2>4
  <2>6. \A u \in Int : d.in = {u} => i + 1 >= 1 /\ d.breaks <= e.time - u
    <3> SUFFICES ASSUME NEW u \in Int, d.in = {u} PROVE d.breaks <= e.time - u
      OBVIOUS
    <3>1. u = t
      BY <1>16, <2>2
    <3> QED BY <2>2, <2>3, <3>1
  <2> QED BY <1>2, <1>5, <1>9, <2>2, <2>5, <2>6 DEF Sound
<1>10. ASSUME e.type = "break_end", NEW b \in Int, c.break = {b} PROVE Sound(s, i + 1, d)
  <2>1. d = [total |-> c.total, in |-> c.in, break |-> {}, breaks |-> c.breaks + (e.time - b)]
    BY <1>2, <1>10, ClockBreakEnd
  <2>2. d.in = c.in /\ d.total = c.total /\ d.break = {} /\ d.breaks = c.breaks + (e.time - b)
    BY <2>1
  <2>3. PICK a \in 1..i :
            /\ OpenSince(s, a, i, b)
            /\ Clocked(s, a, i) \/ \E t \in Int : c.in = {t} /\ c.breaks <= b - t
    BY <1>10 DEF Sound
  <2>4. ~ Clocked(s, a, i)
    <3> SUFFICES ASSUME NEW j \in a+1..i, s[j].type \in {"clock_in", "clock_out"} PROVE FALSE
      BY DEF Clocked
    <3>1. a \in DOMAIN s /\ j \in DOMAIN s /\ a < j /\ j < i + 1 /\ a+1..(i+1)-1 = a+1..i
      BY <1>1
    <3> QED BY <1>1, <1>10, <2>3, <3>1 DEF BrokenBreak, OpenSince
  <2>5. PICK t \in Int : c.in = {t} /\ c.breaks <= b - t
    BY <2>3, <2>4
  <2>6. b <= e.time
    BY <1>1, <2>3 DEF OpenSince
  <2>7. d.breaks >= 0 /\ d.breaks <= e.time - t
    BY <1>1, <1>2, <2>2, <2>5, <2>6
  <2>8. \A u \in Int : d.in = {u} => i + 1 >= 1 /\ d.breaks <= e.time - u
    <3> SUFFICES ASSUME NEW u \in Int, d.in = {u} PROVE d.breaks <= e.time - u
      OBVIOUS
    <3>1. u = t
      BY <1>16, <2>2, <2>5
    <3> QED BY <2>7, <3>1
  <2>9. i + 1 \in 1..i+1 /\ \A m \in (i+1)+1..i+1 : s[m].type # "clock_out"
    OBVIOUS
  <2> QED BY <1>2, <1>10, <2>2, <2>5, <2>7, <2>8, <2>9 DEF Sound
<1>11. CASE e.type = "clock_out" /\ c.in = {}
  BY <1>2, <1>6, <1>11, ClockTurns
<1>12. CASE e.type = "break_start" /\ c.in = {}
  BY <1>2, <1>6, <1>12, ClockTurns
<1>13. CASE e.type = "break_end" /\ c.break = {}
  BY <1>2, <1>6, <1>13, ClockTurns
<1> QED
  BY <1>1, <1>3, <1>7, <1>8, <1>9, <1>10, <1>11, <1>12, <1>13 DEF Types

LEMMA SoundLoop ==
    ASSUME NEW s \in Seq(Events), InOrder(s), ~ BrokenBreak(s), ~ ClockedInAgain(s),
           NEW k, LoopStates(k, s, Len(s))
    PROVE  k[Len(s)].total >= 0
<1> DEFINE T == {i \in Nat : i <= Len(s) => Sound(s, i, k[i])}
<1>1. 0 \in T
  <2>1. Nothing \in LoopRecord /\ Nothing.total = 0 /\ Nothing.breaks = 0
        /\ Nothing.in = {} /\ Nothing.break = {}
    BY DEF Nothing, LoopRecord, Times
  <2>2. k[0] = Nothing
    BY DEF LoopStates
  <2>3. \A t \in Int : Nothing.in # {t} /\ Nothing.break # {t}
    BY <2>1
  <2>4. Sound(s, 0, Nothing)
    BY <2>1, <2>3 DEF Sound
  <2> QED BY <2>2, <2>4
<1>2. ASSUME NEW i \in Nat, i \in T PROVE i + 1 \in T
  <2> SUFFICES ASSUME i + 1 <= Len(s) PROVE Sound(s, i + 1, k[i+1])
    OBVIOUS
  <2>1. Sound(s, i, k[i]) /\ k[i+1] = Clock(k[i], s[i+1])
    BY <1>2 DEF LoopStates
  <2> QED BY <2>1, SoundTurn
<1>3. Nat \subseteq T
  <2> HIDE DEF T
  <2> QED BY <1>1, <1>2, NatSetInduction
<1>4. Sound(s, Len(s), k[Len(s)])
  BY <1>3
<1> QED BY <1>4 DEF Sound

\* What calculateDurationFromClockEvents returns is negative only for such logs.
LEMMA NegativeByMistake ==
    ASSUME NEW es \in Seq(Events), Duration(es) < 0
    PROVE  BrokenBreak(Sorted(es)) \/ ClockedInAgain(Sorted(es))
<1>1. Len(es) >= 2
  BY DEF Duration
<1>2. PICK k : LoopStates(k, Sorted(es), Len(es)) /\ Duration(es) = k[Len(es)].total
  BY <1>1, DurationOfLoop
<1>3. Sorted(es) \in Seq(Events) /\ Len(Sorted(es)) = Len(es) /\ InOrder(Sorted(es))
  BY SortedEvents DEF InOrder
<1>4. k[Len(es)].total \in Int
  BY <1>2, DurationType
<1> QED BY <1>2, <1>3, <1>4, SoundLoop

-----------------------------------------------------------------------------
(***************************************************************************)
(* Logs that make sense.  Each event but the last begins a stretch of time *)
(* that the next one ends; the worker works in those that a clock-in or    *)
(* the end of a break begins.                                              *)
(***************************************************************************)
Regular(s) == /\ \A i, j \in 1..Len(s) : i < j => s[i].time < s[j].time
              /\ s # <<>> => s[1].type = "clock_in"
              /\ \A i \in 1..Len(s)-1 : Follows(s[i].type, s[i+1].type)

Works(e) == e.type \in {"clock_in", "break_end"}

Within(s, j, m) == s[j].time <= m /\ m < s[j+1].time

ClockedOut(s, j, i) == \E l \in j+1..i : s[l].type = "clock_out"

\* Of the first i events, the minutes of work in sessions that are over, in the
\* one that is not, and those the last stretch adds.
Closed(s, i) ==
    {m \in Int : \E j \in 1..i-1 : Works(s[j]) /\ Within(s, j, m) /\ ClockedOut(s, j, i)}

Current(s, i) ==
    {m \in Int : \E j \in 1..i-1 : Works(s[j]) /\ Within(s, j, m) /\ ~ ClockedOut(s, j, i)}

Stretch(s, i) == IF Works(s[i]) THEN s[i].time..s[i+1].time-1 ELSE {}

LEMMA MinutesAdded ==
    ASSUME NEW s \in Seq(Events), Regular(s), NEW i \in Nat \ {0}, i + 1 <= Len(s)
    PROVE  /\ Closed(s, i) \cap Current(s, i) = {}
           /\ Closed(s, i) \cap Stretch(s, i) = {} /\ Current(s, i) \cap Stretch(s, i) = {}
           /\ s[i+1].type # "clock_out" =>
                 /\ Closed(s, i + 1) = Closed(s, i)
                 /\ Current(s, i + 1) = Current(s, i) \cup Stretch(s, i)
           /\ s[i+1].type = "clock_out" =>
                 /\ Closed(s, i + 1) = (Closed(s, i) \cup Current(s, i)) \cup Stretch(s, i)
                 /\ Current(s, i + 1) = {}
<1>1. \A j \in 1..Len(s) : s[j].time \in Int
  BY EventsAssumption
<1>2. \A j, l \in 1..Len(s) : j < l => s[j].time < s[l].time
  BY DEF Regular
<1>3. i \in 1..Len(s) /\ i + 1 \in 1..Len(s) /\ 1..(i+1)-1 = (1..i-1) \cup {i}
  OBVIOUS
<1>4. ASSUME NEW j \in 1..i-1, NEW m \in Int, Within(s, j, m) PROVE m < s[i].time
  <2>1. j + 1 \in 1..Len(s) /\ (j + 1 = i \/ j + 1 < i) /\ j \in 1..Len(s)
    BY <1>3
  <2> QED BY <1>1, <1>2, <1>3, <1>4, <2>1 DEF Within
<1>5. ASSUME NEW j \in 1..i-1, NEW l \in 1..i-1, NEW m \in Int,
             Within(s, j, m), Within(s, l, m), j < l
      PROVE  FALSE
  <2>1. j + 1 \in 1..Len(s) /\ l \in 1..Len(s) /\ (j + 1 = l \/ j + 1 < l)
    BY <1>3, <1>5
  <2> QED BY <1>1, <1>2, <1>5, <2>1 DEF Within
<1>6. Closed(s, i) \cap Current(s, i) = {}
  <2> SUFFICES ASSUME NEW m \in Closed(s, i), m \in Current(s, i) PROVE FALSE
    OBVIOUS
  <2>1. PICK j \in 1..i-1 : Within(s, j, m) /\ ClockedOut(s, j, i)
    BY DEF Closed
  <2>2. PICK l \in 1..i-1 : Within(s, l, m) /\ ~ ClockedOut(s, l, i)
    BY DEF Current
  <2>3. m \in Int /\ (j < l \/ l < j)
    BY <2>1, <2>2 DEF Closed
  <2> QED BY <1>5, <2>1, <2>2, <2>3
<1>7. ASSUME NEW m \in Int PROVE m \in Stretch(s, i) <=> Works(s[i]) /\ Within(s, i, m)
  <2>1. s[i].time \in Int /\ s[i+1].time \in Int
    BY <1>1, <1>3
  <2> QED BY <2>1 DEF Stretch, Within
<1>8. Closed(s, i) \cap Stretch(s, i) = {} /\ Current(s, i) \cap Stretch(s, i) = {}
  <2> SUFFICES ASSUME NEW m \in Closed(s, i) \cup Current(s, i), m \in Stretch(s, i) PROVE FALSE
    OBVIOUS
  <2>1. m \in Int /\ \E j \in 1..i-1 : Within(s, j, m)
    BY DEF Closed, Current
  <2>2. m < s[i].time /\ s[i].time \in Int /\ s[i].time <= m
    BY <1>1, <1>3, <1>4, <1>7, <2>1 DEF Within
  <2> QED BY <2>1, <2>2
<1>9. \A j \in 1..i : j+1..i+1 = (j+1..i) \cup {i+1}
  OBVIOUS
<1>10. \A j \in 1..i : ClockedOut(s, j, i + 1) <=> ClockedOut(s, j, i) \/ s[i+1].type = "clock_out"
  BY <1>9 DEF ClockedOut
<1>11. ~ ClockedOut(s, i, i)
  BY DEF ClockedOut
<1>12. ASSUME NEW m \in Int
       PROVE  /\ m \in Closed(s, i + 1) <=>
                    \/ \E j \in 1..i-1 : Works(s[j]) /\ Within(s, j, m) /\ ClockedOut(s, j, i + 1)
                    \/ m \in Stretch(s, i) /\ ClockedOut(s, i, i + 1)
              /\ m \in Current(s, i + 1) <=>
                    \/ \E j \in 1..i-1 : Works(s[j]) /\ Within(s, j, m) /\ ~ ClockedOut(s, j, i + 1)
                    \/ m \in Stretch(s, i) /\ ~ ClockedOut(s, i, i + 1)
  BY <1>3, <1>7 DEF Closed, Current
<1>13. Closed(s, i + 1) \subseteq Int /\ Current(s, i + 1) \subseteq Int
       /\ Closed(s, i) \subseteq Int /\ Current(s, i) \subseteq Int /\ Stretch(s, i) \subseteq Int
  BY <1>1, <1>3 DEF Closed, Current, Stretch
<1>14. CASE s[i+1].type # "clock_out"
  <2>1. \A m \in Int : m \in Closed(s, i + 1) <=> m \in Closed(s, i)
    BY <1>10, <1>11, <1>12, <1>14 DEF Closed
  <2>2. \A m \in Int : m \in Current(s, i + 1) <=> m \in Current(s, i) \cup Stretch(s, i)
    BY <1>10, <1>11, <1>12, <1>14 DEF Current
  <2> QED BY <1>6, <1>8, <1>13, <1>14, <2>1, <2>2
<1>15. CASE s[i+1].type = "clock_out"
  <2>1. \A m \in Int : m \in Closed(s, i + 1) <=>
                            m \in (Closed(s, i) \cup Current(s, i)) \cup Stretch(s, i)
    BY <1>10, <1>12, <1>15 DEF Closed, Current
  <2>2. \A m \in Int : m \notin Current(s, i + 1)
    BY <1>10, <1>12, <1>15
  <2> QED BY <1>6, <1>8, <1>13, <1>15, <2>1, <2>2
<1> QED BY <1>14, <1>15

\* What the loop knows after i turns, over a log that makes sense.
Counted(s, i, c) ==
    /\ c \in LoopRecord
    /\ IsFiniteSet(Closed(s, i)) /\ IsFiniteSet(Current(s, i))
    /\ c.total = Cardinality(Closed(s, i))
    /\ c.break = IF s[i].type = "break_start" THEN {s[i].time} ELSE {}
    /\ s[i].type = "clock_out" => c.in = {} /\ c.breaks = 0 /\ Current(s, i) = {}
    /\ s[i].type # "clock_out" =>
          \E t \in Int : c.in = {t} /\ (s[i].time - t) - c.breaks = Cardinality(Current(s, i))

\* The sets that a turn puts together, and their sizes.
LEMMA SizesAdded ==
    ASSUME NEW s \in Seq(Events), Regular(s), NEW i \in Nat \ {0}, i + 1 <= Len(s),
           IsFiniteSet(Closed(s, i)), IsFiniteSet(Current(s, i))
    PROVE  /\ IsFiniteSet(Closed(s, i + 1)) /\ IsFiniteSet(Current(s, i + 1))
           /\ Cardinality(Closed(s, i)) \in Nat /\ Cardinality(Current(s, i)) \in Nat
           /\ s[i].time \in Int /\ s[i+1].time \in Int
           /\ \E z \in Nat :
                /\ z = IF Works(s[i]) THEN s[i+1].time - s[i].time ELSE 0
                /\ s[i+1].type # "clock_out" =>
                      /\ Cardinality(Closed(s, i + 1)) = Cardinality(Closed(s, i))
                      /\ Cardinality(Current(s, i + 1)) = Cardinality(Current(s, i)) + z
                /\ s[i+1].type = "clock_out" =>
                      /\ Cardinality(Closed(s, i + 1))
                            = Cardinality(Closed(s, i)) + Cardinality(Current(s, i)) + z
                      /\ Current(s, i + 1) = {}
<1>1. s[i].time \in Int /\ s[i+1].time \in Int /\ s[i].time < s[i+1].time
  <2>1. i \in 1..Len(s) /\ i + 1 \in 1..Len(s) /\ i < i + 1
    OBVIOUS
  <2>2. s[i] \in Events /\ s[i+1] \in Events
    BY <2>1
  <2> QED BY <2>1, <2>2, EventsAssumption DEF Regular
<1>2. /\ IsFiniteSet(Stretch(s, i)) /\ Cardinality(Stretch(s, i)) \in Nat
      /\ Cardinality(Stretch(s, i)) = IF Works(s[i]) THEN s[i+1].time - s[i].time ELSE 0
  <2>1. CASE Works(s[i])
    <3> DEFINE a == s[i].time
               b == s[i+1].time - 1
    <3>1. a \in Int /\ b \in Int /\ a <= b /\ Stretch(s, i) = a..b
      BY <1>1, <2>1 DEF Stretch
    <3>2. b - a + 1 = s[i+1].time - s[i].time /\ b - a + 1 \in Nat
      BY <1>1
    <3> HIDE DEF a, b
    <3>3. IsFiniteSet(a..b) /\ Cardinality(a..b) = b - a + 1
      BY <3>1, FS_Interval
    <3> QED BY <2>1, <3>1, <3>2, <3>3
  <2>2. CASE ~ Works(s[i])
    BY <2>2, FS_EmptySet DEF Stretch
  <2> QED BY <2>1, <2>2
<1>3. Cardinality(Closed(s, i)) \in Nat /\ Cardinality(Current(s, i)) \in Nat
  BY FS_CardinalityType
<1>4. \A A, B : IsFiniteSet(A) /\ IsFiniteSet(B) /\ A \cap B = {} =>
          /\ IsFiniteSet(A \cup B)
          /\ Cardinality(A \cup B) = Cardinality(A) + Cardinality(B)
  <2> SUFFICES ASSUME NEW A, NEW B, IsFiniteSet(A), IsFiniteSet(B), A \cap B = {}
               PROVE  /\ IsFiniteSet(A \cup B)
                      /\ Cardinality(A \cup B) = Cardinality(A) + Cardinality(B)
    OBVIOUS
  <2>1. Cardinality(A \cap B) = 0 /\ Cardinality(A) \in Nat /\ Cardinality(B) \in Nat
    BY FS_EmptySet, FS_CardinalityType
  <2>2. /\ IsFiniteSet(A \cup B)
        /\ Cardinality(A \cup B) = Cardinality(A) + Cardinality(B) - Cardinality(A \cap B)
    BY FS_Union
  <2> QED BY <2>1, <2>2
<1>5. /\ Closed(s, i) \cap Current(s, i) = {}
      /\ Closed(s, i) \cap Stretch(s, i) = {} /\ Current(s, i) \cap Stretch(s, i) = {}
      /\ s[i+1].type # "clock_out" =>
            /\ Closed(s, i + 1) = Closed(s, i)
            /\ Current(s, i + 1) = Current(s, i) \cup Stretch(s, i)
      /\ s[i+1].type = "clock_out" =>
            /\ Closed(s, i + 1) = (Closed(s, i) \cup Current(s, i)) \cup Stretch(s, i)
            /\ Current(s, i + 1) = {}
  BY MinutesAdded
<1> DEFINE z == Cardinality(Stretch(s, i))
<1>6. CASE s[i+1].type # "clock_out"
  BY <1>1, <1>2, <1>3, <1>4, <1>5, <1>6
<1>7. CASE s[i+1].type = "clock_out"
  <2>1. (Closed(s, i) \cup Current(s, i)) \cap Stretch(s, i) = {}
    BY <1>5
  <2>2. /\ IsFiniteSet(Closed(s, i) \cup Current(s, i))
        /\ Cardinality(Closed(s, i) \cup Current(s, i))
              = Cardinality(Closed(s, i)) + Cardinality(Current(s, i))
    BY <1>4, <1>5
  <2>3. /\ IsFiniteSet(Closed(s, i + 1))
        /\ Cardinality(Closed(s, i + 1)) = Cardinality(Closed(s, i) \cup Current(s, i)) + z
    <3>1. PICK A : A = Closed(s, i) \cup Current(s, i)
      OBVIOUS
    <3>2. Closed(s, i + 1) = A \cup Stretch(s, i)
      BY <1>5, <1>7, <3>1
    <3>3. IsFiniteSet(A) /\ A \cap Stretch(s, i) = {}
      BY <2>1, <2>2, <3>1
    <3> QED BY <1>2, <1>4, <3>1, <3>2, <3>3
  <2> QED BY <1>1, <1>2, <1>3, <1>5, <1>7, <2>2, <2>3, FS_EmptySet
<1> QED BY <1>6, <1>7

LEMMA CountedTurn ==
    ASSUME NEW s \in Seq(Events), Regular(s), NEW i \in Nat \ {0}, i + 1 <= Len(s),
           NEW c, Counted(s, i, c), NEW e, e = s[i+1], NEW d, d = Clock(c, e)
    PROVE  Counted(s, i + 1, d)
<1>1. /\ e \in Events /\ e.time \in Int /\ e.type \in Types /\ s[i].time \in Int
      /\ s[i].type \in Types
      /\ Follows(s[i].type, e.type)
  BY EventsAssumption DEF Regular
<1>2. /\ d \in LoopRecord /\ c \in LoopRecord /\ c.total \in Int /\ c.breaks \in Int
  BY <1>1, ClockType DEF Counted, LoopRecord
<1>3. PICK z \in Nat, l \in Nat, u \in Nat :
          /\ l = Cardinality(Closed(s, i)) /\ u = Cardinality(Current(s, i))
          /\ z = IF Works(s[i]) THEN e.time - s[i].time ELSE 0
          /\ e.type # "clock_out" => /\ Cardinality(Closed(s, i + 1)) = l
                                     /\ Cardinality(Current(s, i + 1)) = u + z
          /\ e.type = "clock_out" => /\ Cardinality(Closed(s, i + 1)) = l + u + z
                                     /\ Current(s, i + 1) = {}
  BY SizesAdded DEF Counted
<1>4. IsFiniteSet(Closed(s, i + 1)) /\ IsFiniteSet(Current(s, i + 1))
  BY SizesAdded DEF Counted
<1>5. c.total = l
  BY <1>3 DEF Counted
<1>6. s[i].type # "clock_out" =>
          \E t \in Int : c.in = {t} /\ (s[i].time - t) - c.breaks = u
  BY <1>3 DEF Counted
<1>7. CASE e.type = "clock_in"
  <2>1. s[i].type = "clock_out"
    BY <1>1, <1>7 DEF Follows
  <2>2. c.in = {} /\ c.breaks = 0 /\ u = 0 /\ z = 0 /\ c.break = {}
    BY <1>3, <2>1, FS_EmptySet DEF Counted, Works
  <2>3. d = [c EXCEPT !.in = {e.time}]
    BY <1>2, <1>7, ClockTurns
  <2>4. d.in = {e.time} /\ d.total = l /\ d.break = {} /\ d.breaks = 0
    BY <1>2, <1>5, <2>2, <2>3 DEF LoopRecord
  <2>5. Cardinality(Closed(s, i + 1)) = l /\ Cardinality(Current(s, i + 1)) = 0
    BY <1>3, <1>7, <2>2
  <2>6. (e.time - e.time) - d.breaks = 0
    BY <1>1, <2>4
  <2> QED BY <1>1, <1>2, <1>4, <1>7, <2>4, <2>5, <2>6 DEF Counted
<1>8. CASE e.type = "clock_out"
  <2>1. s[i].type \in {"clock_in", "break_end"}
    BY <1>1, <1>8 DEF Follows
  <2>2. z = e.time - s[i].time /\ c.break = {}
    BY <1>3, <2>1 DEF Counted, Works
  <2>3. PICK t \in Int : c.in = {t} /\ (s[i].time - t) - c.breaks = u
    BY <1>6, <2>1
  <2>4. d = [total |-> c.total + (e.time - t) - c.breaks, in |-> {},
             break |-> c.break, breaks |-> 0]
    BY <1>2, <1>8, <2>3, ClockOut
  <2>5. d.total = l + (e.time - t) - c.breaks /\ d.in = {} /\ d.break = {} /\ d.breaks = 0
    BY <1>5, <2>2, <2>4
  <2>6. d.total = l + u + z
    <3>1. PICK a \in Int, b \in Int, x \in Int : a = e.time /\ b = s[i].time /\ x = c.breaks
      BY <1>1, <1>2
    <3>2. d.total = l + (a - t) - x /\ z = a - b /\ (b - t) - x = u
      BY <2>2, <2>3, <2>5, <3>1
    <3>3. l + (a - t) - x = l + u + z
      BY <3>2
    <3> QED BY <3>2, <3>3
  <2> QED BY <1>2, <1>3, <1>4, <1>8, <2>5, <2>6 DEF Counted
<1>9. CASE e.type = "break_start"
  <2>1. s[i].type \in {"clock_in", "break_end"}
    BY <1>1, <1>9 DEF Follows
  <2>2. z = e.time - s[i].time
    BY <1>3, <2>1 DEF Works
  <2>3. PICK t \in Int : c.in = {t} /\ (s[i].time - t) - c.breaks = u
    BY <1>6, <2>1
  <2>4. d = [c EXCEPT !.break = {e.time}]
    BY <1>2, <1>9, <2>3, ClockTurns
  <2>5. d.in = {t} /\ d.total = l /\ d.break = {e.time} /\ d.breaks = c.breaks
    BY <1>2, <1>5, <2>3, <2>4 DEF LoopRecord
  <2>6. (e.time - t) - d.breaks = u + z
    <3>1. PICK a \in Int, b \in Int, x \in Int : a = e.time /\ b = s[i].time /\ x = c.breaks
      BY <1>1, <1>2
    <3>2. z = a - b /\ (b - t) - x = u /\ d.breaks = x
      BY <2>2, <2>3, <2>5, <3>1
    <3>3. (a - t) - x = u + z
      BY <3>2
    <3> QED BY <3>1, <3>2, <3>3
  <2>7. Cardinality(Closed(s, i + 1)) = l /\ Cardinality(Current(s, i + 1)) = u + z
    BY <1>3, <1>9
  <2> QED BY <1>2, <1>4, <1>9, <2>5, <2>6, <2>7 DEF Counted
<1>10. CASE e.type = "break_end"
  <2>1. s[i].type = "break_start"
    BY <1>1, <1>10 DEF Follows
  <2>2. z = 0 /\ c.break = {s[i].time}
    BY <1>3, <2>1 DEF Works, Counted
  <2>3. PICK t \in Int : c.in = {t} /\ (s[i].time - t) - c.breaks = u
    BY <1>6, <2>1
  <2>4. d = [total |-> c.total, in |-> c.in, break |-> {},
             breaks |-> c.breaks + (e.time - s[i].time)]
    BY <1>2, <1>10, <2>2, ClockBreakEnd
  <2>5. d.in = {t} /\ d.total = l /\ d.break = {} /\ d.breaks = c.breaks + (e.time - s[i].time)
    BY <1>5, <2>3, <2>4
  <2>6. (e.time - t) - d.breaks = u
    <3>1. PICK a \in Int, b \in Int, x \in Int : a = e.time /\ b = s[i].time /\ x = c.breaks
      BY <1>1, <1>2
    <3>2. (b - t) - x = u /\ d.breaks = x + (a - b)
      BY <2>3, <2>5, <3>1
    <3>3. (a - t) - (x + (a - b)) = u
      BY <3>2
    <3> QED BY <3>1, <3>2, <3>3
  <2>7. Cardinality(Closed(s, i + 1)) = l /\ Cardinality(Current(s, i + 1)) = u
    BY <1>3, <1>10, <2>2
  <2> QED BY <1>2, <1>4, <1>10, <2>5, <2>6, <2>7 DEF Counted
<1> QED BY <1>1, <1>7, <1>8, <1>9, <1>10 DEF Types

\* Over a log that makes sense, the sum ends as the number of closed minutes.
LEMMA CountedLoop ==
    ASSUME NEW s \in Seq(Events), Regular(s), Len(s) >= 1,
           NEW k, LoopStates(k, s, Len(s))
    PROVE  k[Len(s)].total = Cardinality(Closed(s, Len(s)))
<1> DEFINE T == {i \in Nat : i + 1 <= Len(s) => Counted(s, i + 1, k[i+1])}
<1>1. 0 \in T
  <2>1. s[1] \in Events /\ s[1].time \in Int /\ s[1].type = "clock_in"
    BY EventsAssumption DEF Regular
  <2>2. Nothing \in LoopRecord /\ Nothing.in = {} /\ Nothing.total = 0
        /\ Nothing.break = {} /\ Nothing.breaks = 0
    BY DEF Nothing, LoopRecord, Times
  <2>3. k[1] = Clock(Nothing, s[1])
    BY DEF LoopStates
  <2>4. k[1] = [Nothing EXCEPT !.in = {s[1].time}] /\ k[1] \in LoopRecord
    BY <2>1, <2>2, <2>3, ClockTurns, ClockType
  <2>5. /\ k[1].in = {s[1].time} /\ k[1].total = 0 /\ k[1].break = {} /\ k[1].breaks = 0
    BY <2>2, <2>4 DEF LoopRecord
  <2>6. Closed(s, 1) = {} /\ Current(s, 1) = {}
    BY DEF Closed, Current
  <2>7. (s[1].time - s[1].time) - k[1].breaks = 0
    BY <2>1, <2>5
  <2>8. IsFiniteSet({}) /\ Cardinality({}) = 0
    BY FS_EmptySet
  <2>9. \E t \in Int : k[1].in = {t} /\ (s[1].time - t) - k[1].breaks = Cardinality(Current(s, 1))
    BY <2>1, <2>5, <2>6, <2>7, <2>8
  <2>10. Counted(s, 1, k[1])
    BY <2>1, <2>4, <2>5, <2>6, <2>8, <2>9 DEF Counted
  <2>11. 0 + 1 = 1
    OBVIOUS
  <2> QED BY <2>10, <2>11
<1>2. ASSUME NEW i \in Nat, i \in T PROVE i + 1 \in T
  <2> SUFFICES ASSUME (i + 1) + 1 <= Len(s) PROVE Counted(s, (i + 1) + 1, k[(i+1)+1])
    OBVIOUS
  <2>1. Counted(s, i + 1, k[i+1]) /\ k[(i+1)+1] = Clock(k[i+1], s[(i+1)+1])
    BY <1>2 DEF LoopStates
  <2>2. i + 1 \in Nat \ {0}
    OBVIOUS
  <2> QED BY <2>1, <2>2, CountedTurn
<1>3. Nat \subseteq T
  <2> HIDE DEF T
  <2> QED BY <1>1, <1>2, NatSetInduction
<1>4. Len(s) - 1 \in Nat /\ (Len(s) - 1) + 1 = Len(s)
  OBVIOUS
<1>5. Counted(s, Len(s), k[Len(s)])
  BY <1>3, <1>4
<1> QED BY <1>5 DEF Counted

-----------------------------------------------------------------------------
(***************************************************************************)
(* The minutes worked, of the log as it was recorded, are the closed       *)
(* minutes of the sorted one.                                              *)
(***************************************************************************)
\* The time between two places of a sorted log lies between two neighbours.
LEMMA Crossing ==
    ASSUME NEW s \in Seq(Events), NEW m \in Int, NEW a \in 1..Len(s), NEW b \in 1..Len(s),
           InOrder(s), s[a].time <= m, m < s[b].time
    PROVE  \E p \in 1..Len(s)-1 : Within(s, p, m)
<1>1. \A i \in 1..Len(s) : s[i].time \in Int
  BY EventsAssumption
<1>2. a < b
  <2>1. a # b /\ ~ b < a
    BY <1>1 DEF InOrder
  <2> QED BY <2>1
<1> SUFFICES ASSUME \A p \in 1..Len(s)-1 : ~ Within(s, p, m) PROVE FALSE
  OBVIOUS
<1> DEFINE T == {x \in Nat : a + x <= b => s[a+x].time <= m}
<1>3. 0 \in T
  <2>1. a + 0 = a
    OBVIOUS
  <2> QED BY <2>1
<1>4. ASSUME NEW x \in Nat, x \in T PROVE x + 1 \in T
  <2> SUFFICES ASSUME a + (x + 1) <= b PROVE s[a+(x+1)].time <= m
    OBVIOUS
  <2>1. a + (x + 1) = (a + x) + 1 /\ a + x \in 1..Len(s)-1 /\ (a + x) + 1 \in 1..Len(s)
    OBVIOUS
  <2>2. s[a+x].time <= m /\ ~ Within(s, a + x, m)
    BY <1>4, <2>1
  <2>3. s[(a+x)+1].time \in Int /\ ~ m < s[(a+x)+1].time
    BY <1>1, <2>1, <2>2 DEF Within
  <2> QED BY <2>1, <2>3
<1>5. Nat \subseteq T
  <2> HIDE DEF T
  <2> QED BY <1>3, <1>4, NatSetInduction
<1>6. b - a \in Nat /\ a + (b - a) = b
  BY <1>2
<1>7. b - a \in T
  BY <1>5, <1>6
<1>8. s[b].time <= m
  BY <1>6, <1>7
<1> QED BY <1>1, <1>8

LatestBefore(es, m) ==
    CHOOSE i \in {i \in DOMAIN es : es[i].time <= m} :
       \A j \in {j \in DOMAIN es : es[j].time <= m} : es[j].time <= es[i].time

\* A sorted copy s of a log es: place[i] is where event i went, source[k] where
\* the event at place k came from.
IsSortedCopy(s, es, n, place, source) ==
    /\ DOMAIN es = 1..n /\ n \in Nat
    /\ \A i \in 1..n : place[i] \in 1..n /\ s[place[i]] = es[i]
    /\ \A k \in 1..n : source[k] \in 1..n /\ place[source[k]] = k /\ s[k] = es[source[k]]
    /\ \A i \in 1..n : s[i].time \in Int /\ es[i].time \in Int
    /\ \A i, j \in 1..n : i < j => s[i].time < s[j].time

LEMMA SortedCopy ==
    ASSUME NEW es \in Seq(Events), Regular(Sorted(es))
    PROVE  \E place, source : IsSortedCopy(Sorted(es), es, Len(es), place, source)
<1> DEFINE place == [i \in 1..Len(es) |-> Place(es, i)]
           source == [k \in 1..Len(es) |-> Source(es, k)]
<1>1. /\ Sorted(es) \in Seq(Events) /\ Len(Sorted(es)) = Len(es)
      /\ DOMAIN es = 1..Len(es) /\ Len(es) \in Nat
  BY SortedEvents
<1>2. \A i \in 1..Len(es) : Sorted(es)[i] \in Events /\ es[i] \in Events
  BY <1>1
<1>3. \A i \in 1..Len(es) : Sorted(es)[i].time \in Int /\ es[i].time \in Int
  BY <1>2, EventsAssumption
<1>4. \A i, j \in 1..Len(es) : i < j => Sorted(es)[i].time < Sorted(es)[j].time
  BY <1>1 DEF Regular
<1>5. \A i \in 1..Len(es) : place[i] \in 1..Len(es) /\ Sorted(es)[place[i]] = es[i]
  BY SortedEvents
<1>6. \A k \in 1..Len(es) : /\ source[k] \in 1..Len(es) /\ place[source[k]] = k
                            /\ Sorted(es)[k] = es[source[k]]
  BY SortedEvents
<1> HIDE DEF place, source
<1>7. IsSortedCopy(Sorted(es), es, Len(es), place, source)
  BY <1>1, <1>3, <1>4, <1>5, <1>6 DEF IsSortedCopy
<1> QED BY <1>7

LEMMA LatestIsNeighbour ==
    ASSUME NEW s, NEW es, NEW n, NEW place, NEW source, IsSortedCopy(s, es, n, place, source),
           NEW m \in Int, NEW p \in 1..n-1, Within(s, p, m)
    PROVE  es[LatestBefore(es, m)] = s[p]
<1> USE DEF IsSortedCopy
<1>1. /\ n \in Nat /\ p \in 1..n /\ p + 1 \in 1..n
      /\ source[p] \in 1..n /\ place[source[p]] = p /\ s[p] = es[source[p]]
  OBVIOUS
<1>2. s[p].time \in Int /\ s[p+1].time \in Int /\ s[p].time <= m /\ m < s[p+1].time
  BY <1>1 DEF Within
<1>3. ASSUME NEW j \in 1..n, es[j].time <= m PROVE place[j] <= p
  <2>1. place[j] \in 1..n /\ s[place[j]].time \in Int /\ s[place[j]].time <= m
    BY <1>3
  <2>2. ~ p + 1 < place[j] /\ place[j] # p + 1
    BY <1>1, <1>2, <2>1
  <2> QED BY <1>1, <2>1, <2>2
<1>4. ASSUME NEW j \in 1..n, es[j].time <= m PROVE es[j].time <= s[p].time
  <2>1. place[j] \in 1..n /\ place[j] <= p /\ s[place[j]] = es[j]
    BY <1>3, <1>4
  <2>2. place[j] = p \/ place[j] < p
    BY <1>1, <2>1
  <2> QED BY <1>1, <1>2, <2>1, <2>2
<1>5. PICK y : y = LatestBefore(es, m)
  OBVIOUS
<1>6. /\ y \in {i \in DOMAIN es : es[i].time <= m}
      /\ \A j \in {j \in DOMAIN es : es[j].time <= m} : es[j].time <= es[y].time
  <2>1. \E i \in {i \in DOMAIN es : es[i].time <= m} :
           \A j \in {j \in DOMAIN es : es[j].time <= m} : es[j].time <= es[i].time
    BY <1>1, <1>2, <1>4
  <2> QED BY <1>5, <2>1 DEF LatestBefore
<1>7. y \in 1..n /\ es[y].time <= s[p].time /\ s[p].time <= es[y].time
  BY <1>1, <1>2, <1>4, <1>6
<1>8. place[y] \in 1..n /\ s[place[y]].time = s[p].time
  BY <1>1, <1>2, <1>7
<1>9. place[y] = p
  <2>1. ~ place[y] < p /\ ~ p < place[y]
    BY <1>1, <1>2, <1>8
  <2> QED BY <1>1, <1>8, <2>1
<1> QED BY <1>1, <1>5, <1>7, <1>9

\* Whether the worker has clocked out since: in the log as it was recorded, and
\* in the order of time.
LEMMA OutSince ==
    ASSUME NEW s, NEW es, NEW n, NEW place, NEW source, IsSortedCopy(s, es, n, place, source),
           NEW m \in Int, NEW p \in 1..n-1, Within(s, p, m)
    PROVE  (\E j \in DOMAIN es : es[j].type = "clock_out" /\ es[j].time > m)
              <=> ClockedOut(s, p, n)
<1> USE DEF IsSortedCopy
<1>1. /\ n \in Nat /\ p \in 1..n /\ p + 1 \in 1..n
      /\ s[p].time \in Int /\ s[p+1].time \in Int /\ s[p].time <= m /\ m < s[p+1].time
  BY DEF Within
<1>2. ASSUME NEW j \in 1..n, es[j].type = "clock_out", es[j].time > m
      PROVE  ClockedOut(s, p, n)
  <2>1. place[j] \in 1..n /\ s[place[j]] = es[j] /\ es[j].time \in Int
    OBVIOUS
  <2>2. ~ place[j] < p /\ place[j] # p
    BY <1>1, <1>2, <2>1
  <2>3. place[j] \in p+1..n
    BY <1>1, <2>1, <2>2
  <2> QED BY <1>2, <2>1, <2>3 DEF ClockedOut
<1>3. ASSUME NEW l \in p+1..n, s[l].type = "clock_out"
      PROVE  \E j \in 1..n : es[j].type = "clock_out" /\ es[j].time > m
  <2>1. l \in 1..n /\ (l = p + 1 \/ p + 1 < l) /\ s[l].time \in Int
    BY <1>1
  <2>2. m < s[l].time
    BY <1>1, <2>1
  <2>3. source[l] \in 1..n /\ s[l] = es[source[l]]
    BY <2>1
  <2>4. es[source[l]].type = "clock_out" /\ es[source[l]].time > m
    BY <1>3, <2>1, <2>2, <2>3
  <2> QED BY <2>3, <2>4
<1> QED BY <1>2, <1>3 DEF ClockedOut

\* The minutes worked are the closed minutes of the sorted log.
LEMMA WorkedIsClosed ==
    ASSUME NEW s, NEW es, NEW n, NEW place, NEW source, IsSortedCopy(s, es, n, place, source),
           s \in Seq(Events), Len(s) = n
    PROVE  MinutesWorked(es) = Closed(s, n)
<1>1. /\ DOMAIN es = 1..n /\ n \in Nat
      /\ \A i \in 1..n : place[i] \in 1..n /\ s[place[i]] = es[i]
      /\ \A k \in 1..n : source[k] \in 1..n /\ s[k] = es[source[k]]
      /\ \A i \in 1..n : s[i].time \in Int /\ es[i].time \in Int
  BY DEF IsSortedCopy
<1>2. InOrder(s)
  BY DEF IsSortedCopy, InOrder
<1>3. PICK Span : Span = UNION {UNION {es[i].time..es[j].time - 1 : j \in DOMAIN es} : i \in DOMAIN es}
  OBVIOUS
<1>4. MinutesWorked(es) =
         {m \in Span : /\ Works(es[LatestBefore(es, m)])
                       /\ \E j \in DOMAIN es : es[j].type = "clock_out" /\ es[j].time > m}
  BY <1>3 DEF MinutesWorked, LatestBefore, Works
<1>5. Span \subseteq Int
  BY <1>3
<1>6. ASSUME NEW m \in Int, NEW i \in 1..n, NEW j \in 1..n, m \in es[i].time..es[j].time-1
      PROVE  \E p \in 1..n-1 : Within(s, p, m)
  <2>1. /\ place[i] \in 1..n /\ s[place[i]] = es[i] /\ place[j] \in 1..n /\ s[place[j]] = es[j]
        /\ es[i].time \in Int /\ es[j].time \in Int
    BY <1>1
  <2>2. es[i].time <= m /\ m < es[j].time
    BY <1>6, <2>1
  <2>3. s[place[i]].time <= m /\ m < s[place[j]].time
    BY <2>1, <2>2
  <2> QED BY <1>2, <2>1, <2>3, Crossing
<1>7. ASSUME NEW m \in Int, NEW p \in 1..n-1, Within(s, p, m)
      PROVE  \E i, j \in 1..n : m \in es[i].time..es[j].time-1
  <2>1. p \in 1..n /\ p + 1 \in 1..n
    BY <1>1
  <2>2. /\ source[p] \in 1..n /\ s[p] = es[source[p]] /\ es[source[p]].time \in Int
        /\ source[p+1] \in 1..n /\ s[p+1] = es[source[p+1]] /\ es[source[p+1]].time \in Int
    BY <1>1, <2>1
  <2>3. es[source[p]].time <= m /\ m < es[source[p+1]].time
    BY <1>7, <2>2 DEF Within
  <2>4. m \in es[source[p]].time..es[source[p+1]].time-1
    BY <2>2, <2>3
  <2> QED BY <2>2, <2>4
<1>8. ASSUME NEW m \in Int PROVE m \in Span <=> \E p \in 1..n-1 : Within(s, p, m)
  <2>1. m \in Span <=> \E i, j \in 1..n : m \in es[i].time..es[j].time-1
    BY <1>1, <1>3
  <2> QED BY <1>6, <1>7, <2>1
<1>9. ASSUME NEW m \in Int PROVE m \in MinutesWorked(es) <=> m \in Closed(s, n)
  <2>1. m \in MinutesWorked(es) <=>
            /\ m \in Span /\ Works(es[LatestBefore(es, m)])
            /\ \E j \in DOMAIN es : es[j].type = "clock_out" /\ es[j].time > m
    BY <1>4
  <2>2. m \in Closed(s, n) <=>
            \E p \in 1..n-1 : Works(s[p]) /\ Within(s, p, m) /\ ClockedOut(s, p, n)
    BY DEF Closed
  <2>3. ASSUME NEW p \in 1..n-1, Within(s, p, m)
        PROVE  /\ es[LatestBefore(es, m)] = s[p]
               /\ (\E j \in DOMAIN es : es[j].type = "clock_out" /\ es[j].time > m)
                     <=> ClockedOut(s, p, n)
    BY <2>3, LatestIsNeighbour, OutSince
  <2> QED BY <1>8, <2>1, <2>2, <2>3
<1>10. Closed(s, n) \subseteq Int /\ MinutesWorked(es) \subseteq Int
  BY <1>4, <1>5 DEF Closed
<1> QED BY <1>9, <1>10

\* What calculateDurationFromClockEvents returns for a log that makes sense.
LEMMA DurationCounts ==
    ASSUME NEW es \in Seq(Events), WellFormed(es)
    PROVE  Duration(es) = Cardinality(MinutesWorked(es))
<1> DEFINE s == Sorted(es)
           n == Len(es)
<1>1. s \in Seq(Events) /\ Len(s) = n /\ n \in Nat /\ DOMAIN s = 1..n
      /\ \A i, j \in 1..n : i < j => s[i].time <= s[j].time
  <2>1. /\ s \in Seq(Events) /\ Len(s) = n
        /\ \A i, j \in 1..n : i < j => s[i].time <= s[j].time
    BY SortedEvents
  <2> HIDE DEF s
  <2> QED BY <2>1
<1>2. \A i \in 1..n : s[i].time \in Int
  BY <1>1, EventsAssumption
<1>3. Regular(s)
  <2>1. /\ \A i, j \in 1..n : i # j => s[i].time # s[j].time
        /\ es # <<>> => s[1].type = "clock_in"
        /\ \A i \in 1..Len(s)-1 : Follows(s[i].type, s[i+1].type)
    BY <1>1 DEF WellFormed
  <2>2. s # <<>> => es # <<>>
    BY <1>1
  <2>3. \A i, j \in 1..n : i < j => s[i].time < s[j].time
    BY <1>1, <1>2, <2>1
  <2> HIDE DEF s, n
  <2> QED BY <1>1, <2>1, <2>2, <2>3 DEF Regular
<1>4. MinutesWorked(es) = Closed(s, n)
  BY <1>1, <1>3, SortedCopy, WorkedIsClosed
<1>5. CASE n < 2
  <2>1. 1..n-1 = {}
    BY <1>1, <1>5
  <2>2. Closed(s, n) = {}
    BY <2>1 DEF Closed
  <2> QED BY <1>4, <1>5, <2>2, FS_EmptySet DEF Duration
<1>6. CASE n >= 2
  <2>1. PICK k : LoopStates(k, s, n) /\ Duration(es) = k[n].total
    BY <1>6, DurationOfLoop
  <2>2. k[n].total = Cardinality(Closed(s, n))
    <3> HIDE DEF s, n
    <3> QED BY <1>1, <1>3, <1>6, <2>1, CountedLoop
  <2> QED BY <1>4, <2>1, <2>2
<1> QED BY <1>1, <1>5, <1>6

-----------------------------------------------------------------------------
\* The shape of the state. duration is left out: it is an integer because
\* DurationOfEvents says which one it is.
Shape ==
    /\ draft \in BOOLEAN
    /\ events \in Seq(Events)
    /\ version \in Nat
    /\ req \in [Requests ->
                       [phase : {"idle"}]
                  \cup [phase : {"recording"}, event : Events, version : Nat,
                        duration : {Duration(es) : es \in Seq(Events)}]
                  \cup [phase : {"verifying"}, place : Nat, ok : BOOLEAN, event : Events]]

\* Copies are not newer than the document, and a copy of the same version has
\* the same events.
CopiesAgree ==
    \A r \in Requests : req[r].phase = "recording" =>
        /\ req[r].version <= version
        /\ req[r].version = version =>
               req[r].duration = Duration(Append(events, req[r].event))

\* What is verified is an event of the log.
VerifiedPlaces == verified \subseteq DOMAIN events

IInv == Shape /\ DurationOfEvents /\ CopiesAgree /\ VerifiesWhatWasSeen /\ VerifiedPlaces

\* The invariant holds at the start.
LEMMA InitIInv == Init => IInv
<1> SUFFICES ASSUME Init PROVE IInv
  OBVIOUS
<1>1. Shape
  BY DEF Init, Shape, Idle
<1>2. DurationOfEvents
  BY DEF Init, DurationOfEvents, Duration
<1>3. CopiesAgree /\ VerifiesWhatWasSeen /\ VerifiedPlaces
  BY DEF Init, CopiesAgree, VerifiesWhatWasSeen, VerifiedPlaces, Idle
<1> QED
  BY <1>1, <1>2, <1>3 DEF IInv

\* A request that reads has a copy of what is stored.
LEMMA ReadKeepsIInv ==
    ASSUME IInv, NEW r \in Requests,
           \/ \E e \in Events : ReadRecordClockEvent(r, e)
           \/ \E i \in DOMAIN events, ok \in BOOLEAN : ReadVerifyClockEvent(r, i, ok)
    PROVE  IInv'
<1> USE DEF IInv, Shape
<1>1. CASE \E e \in Events : ReadRecordClockEvent(r, e)
  <2> PICK e \in Events : ReadRecordClockEvent(r, e)
    BY <1>1
  <2>1. Append(events, e) \in Seq(Events)
    OBVIOUS
  <2>2. Shape'
    BY <2>1 DEF ReadRecordClockEvent
  <2>3. CopiesAgree'
    BY DEF ReadRecordClockEvent, CopiesAgree
  <2>4. DurationOfEvents' /\ VerifiesWhatWasSeen' /\ VerifiedPlaces'
    BY DEF ReadRecordClockEvent, DurationOfEvents, VerifiesWhatWasSeen, VerifiedPlaces
  <2> QED
    BY <2>2, <2>3, <2>4
<1>2. CASE \E i \in DOMAIN events, ok \in BOOLEAN : ReadVerifyClockEvent(r, i, ok)
  <2> PICK i \in DOMAIN events, ok \in BOOLEAN : ReadVerifyClockEvent(r, i, ok)
    BY <1>2
  <2>1. i \in Nat /\ events[i] \in Events
    OBVIOUS
  <2>2. Shape'
    BY <2>1 DEF ReadVerifyClockEvent
  <2>3. CopiesAgree'
    BY DEF ReadVerifyClockEvent, CopiesAgree
  <2>4. DurationOfEvents' /\ VerifiesWhatWasSeen' /\ VerifiedPlaces'
    BY DEF ReadVerifyClockEvent, DurationOfEvents, VerifiesWhatWasSeen, VerifiedPlaces
  <2> QED
    BY <2>2, <2>3, <2>4
<1> QED
  BY <1>1, <1>2

\* A save of recordClockEvent goes through only if its copy is up to date.
LEMMA SaveKeepsIInv ==
    ASSUME IInv, NEW r \in Requests, SaveClockEvent(r)
    PROVE  IInv'
<1> USE DEF IInv, Shape, SaveClockEvent, NextVersion, Idle
<1>1. /\ req[r] \in [phase : {"recording"}, event : Events, version : Nat,
                     duration : {Duration(es) : es \in Seq(Events)}]
      /\ version' = version + 1
      /\ events' = Append(events, req[r].event)
  OBVIOUS
<1>2. Shape'
  BY <1>1
<1>3. DurationOfEvents'
  BY <1>1 DEF CopiesAgree, DurationOfEvents
<1>4. CopiesAgree'
  BY <1>1 DEF CopiesAgree
<1>5. VerifiesWhatWasSeen'
  <2> SUFFICES ASSUME NEW q \in Requests, (req[q].phase = "verifying")'
               PROVE  (req[q].place \in DOMAIN events /\ events[req[q].place] = req[q].event)'
    BY DEF VerifiesWhatWasSeen
  <2>1. q # r /\ req'[q] = req[q]
    OBVIOUS
  <2>2. req[q].place \in DOMAIN events /\ events[req[q].place] = req[q].event
    BY <2>1 DEF VerifiesWhatWasSeen
  <2> QED
    BY <1>1, <2>1, <2>2
<1>6. VerifiedPlaces'
  BY <1>1 DEF VerifiedPlaces
<1> QED
  BY <1>2, <1>3, <1>4, <1>5, <1>6

\* Every other save leaves the events and makes the copies older.
LEMMA OtherSavesKeepIInv ==
    ASSUME IInv, OtherSave \/ \E r \in Requests : SaveVerifyClockEvent(r)
    PROVE  IInv'
<1> USE DEF IInv, Shape, NextVersion, Idle
<1>1. CASE OtherSave
  BY <1>1 DEF OtherSave, CopiesAgree, DurationOfEvents, VerifiesWhatWasSeen, VerifiedPlaces
<1>2. CASE \E r \in Requests : SaveVerifyClockEvent(r)
  BY <1>2 DEF SaveVerifyClockEvent, CopiesAgree, DurationOfEvents, VerifiesWhatWasSeen,
              VerifiedPlaces
<1> QED
  BY <1>1, <1>2

LEMMA NextKeepsIInv == IInv /\ [Next]_vars => IInv'
<1> SUFFICES ASSUME IInv, [Next]_vars PROVE IInv'
  OBVIOUS
<1>1. CASE UNCHANGED vars
  BY <1>1 DEF vars, IInv, Shape, DurationOfEvents, CopiesAgree, VerifiesWhatWasSeen, VerifiedPlaces
<1>2. ASSUME NEW r \in Requests, Abort(r) PROVE IInv'
  BY <1>2 DEF Abort, Idle, IInv, Shape, DurationOfEvents, CopiesAgree, VerifiesWhatWasSeen,
              VerifiedPlaces
<1>3. ASSUME NEW r \in Requests, RefuseClockEvent(r) PROVE UNCHANGED vars
  BY <1>3 DEF RefuseClockEvent
<1> QED
  BY <1>1, <1>2, <1>3, ReadKeepsIInv, SaveKeepsIInv, OtherSavesKeepIInv DEF Next

\* The invariant holds always.
THEOREM Invariance == Spec => []IInv
<1> QED
  BY InitIInv, NextKeepsIInv, PTL DEF Spec

\* recordClockEvent: the stored duration is the one of the stored events.
THEOREM DurationSafe == Spec => []DurationOfEvents
<1>1. IInv => DurationOfEvents
  BY DEF IInv
<1> QED
  BY Invariance, <1>1, PTL

\* verifyClockEvent: the event that is marked is the one that was seen.
THEOREM VerificationSafe == Spec => []VerifiesWhatWasSeen
<1>1. IInv => VerifiesWhatWasSeen
  BY DEF IInv
<1> QED
  BY Invariance, <1>1, PTL

\* Every variable has its type: what calculateDurationFromClockEvents returns
\* is an integer.
THEOREM TypeCorrect == Spec => []TypeOK
<1>1. IInv => TypeOK
  <2> SUFFICES ASSUME IInv PROVE TypeOK
    OBVIOUS
  <2>1. Shape /\ DurationOfEvents /\ VerifiedPlaces
    BY DEF IInv
  <2>2. duration \in Int
    BY <2>1, DurationType DEF Shape, DurationOfEvents
  <2>3. {Duration(es) : es \in Seq(Events)} \subseteq Int
    BY DurationType
  <2> QED
    BY <2>1, <2>2, <2>3 DEF TypeOK, Shape, VerifiedPlaces
<1> QED
  BY Invariance, <1>1, PTL

\* The stored duration of a log that makes sense is the number of minutes
\* worked, in whatever order its events were recorded.
THEOREM MinutesSafe == Spec => []DurationCountsMinutes
<1>1. IInv => DurationCountsMinutes
  BY DurationCounts DEF IInv, Shape, DurationOfEvents, DurationCountsMinutes
<1> QED
  BY Invariance, <1>1, PTL

\* The stored duration is negative only for a log in which somebody clocked in
\* or out during a break, or clocked in twice around one.
THEOREM NegativeSafe == Spec => []NegativeOnlyByMistake
<1>1. IInv => NegativeOnlyByMistake
  BY NegativeByMistake DEF IInv, Shape, DurationOfEvents, NegativeOnlyByMistake
<1> QED
  BY Invariance, <1>1, PTL
=============================================================================
