--------------------------- MODULE TimesheetProofs ---------------------------
(***************************************************************************)
(* Proofs about Timesheet and PayrollSystem for any number of timesheets,  *)
(* requests, payrolls and kinds of entries, and without the bounds of the  *)
(* TLC runs mattering: types, the status, the history behind a status or a *)
(* payment, the lifecycle, and what payrolls are made from.                *)
(***************************************************************************)
EXTENDS PayrollSystem, SequenceTheorems, FiniteSetTheorems, TLAPS

-----------------------------------------------------------------------------
(***************************************************************************)
(* Sums. The facts about them need induction over the naturals, stated for *)
(* a set instead of a predicate: the property to be proved is put as the   *)
(* set of the numbers that have it.                                        *)
(***************************************************************************)

\* A nonempty set of naturals has a least element.
LEMMA LeastOfNaturals ==
    ASSUME NEW X \in SUBSET Nat, X # {}
    PROVE  \E x \in X : \A y \in X : x <= y
<1>1. PICK x \in X : \A y \in X : <<y, x>> \notin OpToRel(<, Nat)
  BY NatLessThanWellFounded, WFMin
<1>2. ASSUME NEW y \in X PROVE x <= y
  <2>1. <<y, x>> \in OpToRel(<, Nat) <=> y < x
    BY Zenon DEF OpToRel
  <2>2. ~(y < x)
    BY <1>1, <2>1, Zenon
  <2> QED BY <2>2
<1> QED BY <1>2

\* A set of naturals that contains 0 and, with every member, its successor is all of Nat.
LEMMA NatSetInduction ==
    ASSUME NEW W, 0 \in W, \A n \in Nat : n \in W => n + 1 \in W
    PROVE  Nat \subseteq W
<1>1. SUFFICES ASSUME Nat \ W # {} PROVE FALSE
  OBVIOUS
<1>2. PICK x \in Nat \ W : \A y \in Nat \ W : x <= y
  BY <1>1, LeastOfNaturals
<1>3. x # 0 /\ x - 1 \in Nat
  BY <1>2
<1>4. x - 1 \notin Nat \ W /\ (x - 1) + 1 = x
  BY <1>2, <1>3
<1> QED BY <1>2, <1>3, <1>4

\* The recursion equation of the partial sums of h up to n.
IsSums(g, h, n) == g = [i \in 0..n |-> IF i = 0 THEN 0 ELSE g[i-1] + h[i]]

\* There are partial sums up to every number.
LEMMA SumsExist == \A h : \A n \in Nat : \E g : IsSums(g, h, n)
<1> TAKE h
<1> DEFINE W == {n \in Nat : \E g : IsSums(g, h, n)}
<1>1. 0 \in W
  <2>1. IsSums([i \in 0..0 |-> 0], h, 0)
    BY DEF IsSums
  <2> QED BY <2>1
<1>2. ASSUME NEW n \in Nat, n \in W PROVE n + 1 \in W
  <2>1. PICK g : IsSums(g, h, n)
    BY <1>2
  <2> DEFINE f == [i \in 0..n+1 |-> IF i = n + 1 THEN g[n] + h[n+1] ELSE g[i]]
  <2>2. ASSUME NEW i \in 0..n+1 PROVE f[i] = IF i = 0 THEN 0 ELSE f[i-1] + h[i]
    <3>1. CASE i = 0
      BY <2>1, <3>1 DEF IsSums
    <3>2. CASE i = n + 1
      BY <3>2
    <3>3. CASE i \in 1..n
      <4>1. f[i] = g[i] /\ f[i-1] = g[i-1]
        BY <3>3
      <4>2. g[i] = g[i-1] + h[i]
        BY <2>1, <3>3 DEF IsSums
      <4> QED BY <3>3, <4>1, <4>2
    <3> QED BY <3>1, <3>2, <3>3
  <2>3. IsSums(f, h, n + 1)
    BY <2>2 DEF IsSums
  <2> HIDE DEF f
  <2> QED BY <2>3
<1> HIDE DEF W
<1>3. Nat \subseteq W
  BY <1>1, <1>2, NatSetInduction
<1> QED BY <1>3 DEF W

\* Partial sums of integers are integers, and those up to n and up to n + 1
\* agree up to n.
LEMMA SumsValues ==
    ASSUME NEW n \in Nat, NEW h, \A i \in 1..n : h[i] \in Int,
           NEW g, IsSums(g, h, n)
    PROVE  /\ \A i \in 0..n : g[i] \in Int
           /\ \A m \in n..n+1 : \A f : IsSums(f, h, m) => \A i \in 0..n : f[i] = g[i]
<1> DEFINE W == {i \in Nat : i \in 0..n => g[i] \in Int}
<1>1. 0 \in W
  BY DEF IsSums
<1>2. ASSUME NEW i \in Nat, i \in W PROVE i + 1 \in W
  <2>1. SUFFICES ASSUME i + 1 \in 0..n PROVE g[i+1] \in Int
    BY <1>2
  <2>2. g[i+1] = g[i] + h[i+1]
    BY <2>1 DEF IsSums
  <2> QED BY <1>2, <2>1, <2>2
<1>3. Nat \subseteq W
  <2> HIDE DEF W
  <2> QED BY <1>1, <1>2, NatSetInduction
<1>4. ASSUME NEW m \in n..n+1, NEW f, IsSums(f, h, m)
      PROVE  \A i \in 0..n : f[i] = g[i]
  <2> DEFINE V == {i \in Nat : i \in 0..n => f[i] = g[i]}
  <2>1. 0 \in V
    BY <1>4 DEF IsSums
  <2>2. ASSUME NEW i \in Nat, i \in V PROVE i + 1 \in V
    <3>1. SUFFICES ASSUME i + 1 \in 0..n PROVE f[i+1] = g[i+1]
      BY <2>2
    <3>2. g[i+1] = g[i] + h[i+1] /\ f[i+1] = f[i] + h[i+1]
      BY <1>4, <3>1 DEF IsSums
    <3> QED BY <2>2, <3>1, <3>2
  <2>3. Nat \subseteq V
    <3> HIDE DEF V
    <3> QED BY <2>1, <2>2, NatSetInduction
  <2> QED BY <2>3
<1> QED BY <1>3, <1>4

LEMMA SumToDef == ASSUME NEW n \in Nat, NEW h
                  PROVE  \E g : IsSums(g, h, n) /\ SumTo(h, n) = g[n]
<1> DEFINE c == CHOOSE g : IsSums(g, h, n)
<1>1. IsSums(c, h, n)
  BY SumsExist
<1>2. SumTo(h, n) = c[n]
  BY DEF SumTo, IsSums
<1> HIDE DEF c
<1> QED BY <1>1, <1>2

\* A sum of integers is an integer.
LEMMA SumToType == ASSUME NEW n \in Nat, NEW h, \A i \in 1..n : h[i] \in Int
                     PROVE  SumTo(h, n) \in Int
BY SumToDef, SumsValues

\* The sum of nothing, and the sum with one more term.
LEMMA SumToStep ==
    /\ \A h : SumTo(h, 0) = 0
    /\ \A n \in Nat : \A h : (\A i \in 1..n : h[i] \in Int)
          => SumTo(h, n + 1) = SumTo(h, n) + h[n+1]
<1>1. ASSUME NEW h PROVE SumTo(h, 0) = 0
  BY SumToDef DEF IsSums
<1>2. ASSUME NEW n \in Nat, NEW h, \A i \in 1..n : h[i] \in Int
      PROVE  SumTo(h, n + 1) = SumTo(h, n) + h[n+1]
  <2>1. PICK g : IsSums(g, h, n) /\ SumTo(h, n) = g[n]
    BY SumToDef
  <2>2. PICK f : IsSums(f, h, n + 1) /\ SumTo(h, n + 1) = f[n+1]
    BY SumToDef
  <2>3. f[n] = g[n]
    BY <1>2, <2>1, <2>2, SumsValues
  <2>4. f[n+1] = f[n] + h[n+1]
    BY <2>2 DEF IsSums
  <2> QED BY <2>1, <2>2, <2>3, <2>4
<1> QED BY <1>1, <1>2

\* A sum depends on its terms only.
LEMMA SumToAgrees ==
    ASSUME NEW n \in Nat, NEW h, NEW f, \A i \in 1..n : h[i] \in Int /\ f[i] = h[i]
    PROVE  SumTo(f, n) = SumTo(h, n)
<1>1. PICK g : IsSums(g, h, n) /\ SumTo(h, n) = g[n]
  BY SumToDef
<1>2. PICK k : IsSums(k, f, n) /\ SumTo(f, n) = k[n]
  BY SumToDef
<1>3. IsSums(k, h, n)
  <2>1. \A i \in 0..n : k[i] = IF i = 0 THEN 0 ELSE k[i-1] + h[i]
    BY <1>2 DEF IsSums
  <2>2. k = [i \in 0..n |-> k[i]]
    BY <1>2 DEF IsSums
  <2> QED BY <2>1, <2>2 DEF IsSums
<1>4. k[n] = g[n]
  BY <1>1, <1>3, SumsValues
<1> QED BY <1>1, <1>2, <1>4

-----------------------------------------------------------------------------
(* Types. *)

LEMMA HoursType == ASSUME NEW e \in EntryKinds PROVE Hours(e) \in Int
BY EntryAssumption DEF Hours

LEMMA TotalType == ASSUME NEW es \in Seq(EntryKinds) PROVE Total(es) \in Int
<1> DEFINE h == [i \in DOMAIN es |-> Hours(es[i])]
<1>1. Len(es) \in Nat /\ DOMAIN es = 1..Len(es)
  OBVIOUS
<1>2. \A i \in 1..Len(es) : h[i] \in Int
  BY <1>1, HoursType
<1> HIDE DEF h
<1>3. SumTo(h, Len(es)) \in Int
  BY <1>1, <1>2, SumToType
<1> QED BY <1>3 DEF Total, h

LEMMA PreSaveType ==
    ASSUME NEW d \in Doc, NEW es \in Seq(EntryKinds)
    PROVE  /\ PreSave(d, es) \in Doc
           /\ PreSave(d, es).status = d.status
           /\ PreSave(d, es).isDeleted = d.isDeleted
           /\ PreSave(d, es).payrollId = d.payrollId
<1>1. Total(es) \in Int
  BY TotalType
<1> QED BY <1>1 DEF PreSave, Doc

LEMMA MergeType ==
    ASSUME NEW stored \in Doc, NEW old \in Doc, NEW new \in Doc
    PROVE  Merge(stored, old, new) \in Doc
BY DEF Merge, Set, Doc

SavingRecord == [phase : {"saving"}, sheet : Sheets, action : Actions \ {"CREATE"},
                 old : Doc, new : Doc, pushed : Seq(EntryKinds), version : Nat]

\* What a read leaves in its request slot is well typed, and apart from the
\* recomputed total it is what the operation computed.
LEMMA SavingType ==
    ASSUME TypeOK, NEW s \in Sheets, NEW action \in Actions \ {"CREATE"},
           NEW new \in Doc, NEW pushed \in Seq(EntryKinds)
    PROVE  Saving(s, action, new, pushed) \in SavingRecord
<1>1. entries[s] \o pushed \in Seq(EntryKinds)
  BY DEF TypeOK
<1>2. PreSave(new, entries[s] \o pushed) \in Doc
  BY <1>1, PreSaveType
<1>3. doc[s] \in Doc /\ Len(audit[s]) \in Nat
  BY DEF TypeOK
<1> HIDE DEF TypeOK, Doc, PreSave, Actions
<1> QED BY <1>2, <1>3 DEF Saving, SavingRecord

-----------------------------------------------------------------------------
LEMMA TypeInit == Init => TypeOK
<1> SUFFICES ASSUME Init PROVE TypeOK
  OBVIOUS
<1>1. NoDoc \in Doc
  BY DEF NoDoc, Doc
<1>2. Idle \in RequestRecord
  BY DEF Idle, RequestRecord
<1> QED BY <1>1, <1>2 DEF Init, TypeOK

\* The operations as they are read: what each one's copy becomes.
LEMMA ReadType ==
    ASSUME TypeOK, NEW r \in Requests, NEW s \in Sheets, ReadStep(r, s)
    PROVE  TypeOK'
<1> USE DEF Actions
<1>1. doc[s] \in Doc /\ entries[s] \in Seq(EntryKinds)
  BY DEF TypeOK
<1>2. ASSUME NEW action \in Actions \ {"CREATE"}, NEW new \in Doc,
             NEW pushed \in Seq(EntryKinds), Read(r, s, action, new, pushed)
      PROVE  TypeOK'
  <2>1. Saving(s, action, new, pushed) \in RequestRecord
    BY <1>2, SavingType DEF SavingRecord, RequestRecord
  <2> QED BY <1>2, <2>1 DEF Read, Start, TypeOK
<1>3. <<>> \in Seq(EntryKinds)
  OBVIOUS
<1>4. ASSUME NEW e \in EntryKinds, ReadAddTimeEntry(r, s, e) PROVE TypeOK'
  <2>1. Append(entries[s], e) \in Seq(EntryKinds) /\ <<e>> \in Seq(EntryKinds)
    BY <1>1
  <2>2. Total(Append(entries[s], e)) \in Int
    BY <2>1, TotalType
  <2>3. [doc[s] EXCEPT !.total = Total(Append(entries[s], e))] \in Doc
    BY <1>1, <2>2 DEF Doc
  <2> QED BY <1>2, <1>4, <2>1, <2>3 DEF ReadAddTimeEntry
<1>5. CASE ReadRecordClockEvent(r, s)
  BY <1>1, <1>2, <1>3, <1>5 DEF ReadRecordClockEvent
<1>6. CASE ReadVerifyClockEvent(r, s)
  BY <1>1, <1>2, <1>3, <1>6 DEF ReadVerifyClockEvent
<1>7. ASSUME NEW st \in Statuses, NEW p \in Payrolls
      PROVE  [doc[s] EXCEPT !.status = st, !.payrollId = p] \in Doc
  BY <1>1 DEF Doc
<1>8. ASSUME NEW st \in Statuses, NEW del \in BOOLEAN
      PROVE  /\ [doc[s] EXCEPT !.status = st] \in Doc
             /\ [doc[s] EXCEPT !.status = st, !.isDeleted = del] \in Doc
  BY <1>1 DEF Doc
<1>9. CASE ReadSubmitTimesheet(r, s)
  BY <1>2, <1>3, <1>8, <1>9 DEF ReadSubmitTimesheet, Statuses
<1>10. CASE ReadApproveTimesheet(r, s)
  BY <1>2, <1>3, <1>8, <1>10 DEF ReadApproveTimesheet, Statuses
<1>11. CASE ReadRejectTimesheet(r, s)
  BY <1>2, <1>3, <1>8, <1>11 DEF ReadRejectTimesheet, Statuses
<1>12. CASE ReadSoftDeleteTimesheet(r, s)
  BY <1>2, <1>3, <1>8, <1>12 DEF ReadSoftDeleteTimesheet, Statuses
<1>13. CASE ReadRestoreTimesheet(r, s)
  BY <1>2, <1>3, <1>8, <1>13 DEF ReadRestoreTimesheet, Statuses
<1>14. ASSUME NEW p \in Payrolls, ReadMarkPayrollProcessed(r, s, p) PROVE TypeOK'
  BY <1>2, <1>3, <1>7, <1>14 DEF ReadMarkPayrollProcessed, Statuses
<1> QED BY <1>4, <1>5, <1>6, <1>9, <1>10, <1>11, <1>12, <1>13, <1>14 DEF ReadStep

LEMMA SaveType == ASSUME TypeOK, NEW r \in Requests, Save(r) PROVE TypeOK'
<1> DEFINE q == req[r]
           s == q.sheet
<1>1. q \in SavingRecord
  BY DEF TypeOK, RequestRecord, SavingRecord, Save
<1>2. s \in Sheets /\ q.action \in Actions /\ q.pushed \in Seq(EntryKinds)
      /\ q.old \in Doc /\ q.new \in Doc
  BY <1>1 DEF SavingRecord
<1>3. doc' \in [Sheets -> Doc]
  <2>1. Merge(doc[s], q.old, q.new) \in Doc
    BY <1>2, MergeType DEF TypeOK
  <2> QED BY <1>2, <2>1 DEF Save, TypeOK
<1>4. entries' \in [Sheets -> Seq(EntryKinds)]
  BY <1>2 DEF Save, TypeOK
<1>5. audit' \in [Sheets -> Seq(Actions)]
  BY <1>2 DEF Save, TypeOK
<1>6. req' \in [Requests -> RequestRecord]
  BY <1>2 DEF Save, TypeOK, RequestRecord
<1> QED BY <1>3, <1>4, <1>5, <1>6 DEF Save, TypeOK

LEMMA TypeStep == TypeOK /\ [Next]_vars => TypeOK'
<1> SUFFICES ASSUME TypeOK, [Next]_vars PROVE TypeOK'
  OBVIOUS
<1>1. Idle \in RequestRecord
  BY DEF Idle, RequestRecord
<1>2. ASSUME NEW r \in Requests, NEW k \in Keys, FindForCreate(r, k) PROVE TypeOK'
  <2>1. Inserting(k) \in RequestRecord
    BY DEF Inserting, RequestRecord
  <2> QED BY <1>2, <2>1 DEF FindForCreate, Start, TypeOK
<1>3. ASSUME NEW r \in Requests, NEW s \in Sheets, InsertCreated(r, s) PROVE TypeOK'
  <2>1. req[r].key \in Keys
    BY <1>3 DEF InsertCreated, TypeOK, RequestRecord
  <2>2. NewDoc \in Doc
    <3>1. NoDoc \in Doc
      BY DEF NoDoc, Doc
    <3> QED BY <3>1 DEF NewDoc, Doc, Statuses
  <2>3. <<"CREATE">> \in Seq(Actions)
    BY DEF Actions
  <2>4. /\ key' \in [Sheets -> Keys \cup {NoKey}]
        /\ doc' \in [Sheets -> Doc]
        /\ audit' \in [Sheets -> Seq(Actions)]
        /\ req' \in [Requests -> RequestRecord]
    BY <1>1, <1>3, <2>1, <2>2, <2>3 DEF InsertCreated, TypeOK
  <2> QED BY <1>3, <2>4 DEF InsertCreated, TypeOK
<1>4. ASSUME NEW r \in Requests, NEW s \in Sheets, ReadStep(r, s) PROVE TypeOK'
  BY <1>4, ReadType
<1>5. ASSUME NEW r \in Requests, Save(r) PROVE TypeOK'
  BY <1>5, SaveType
<1>6. ASSUME NEW r \in Requests, Enqueue(r) PROVE TypeOK'
  <2>1. req[r] \in [phase : {"enqueuing", "replying"}, sheet : Sheets]
    BY <1>6 DEF Enqueue, TypeOK, RequestRecord
  <2>2. [req[r] EXCEPT !.phase = "replying"] \in RequestRecord
    BY <2>1 DEF RequestRecord
  <2> QED BY <1>6, <2>1, <2>2 DEF Enqueue, TypeOK
<1>7. ASSUME NEW r \in Requests, Reply(r) \/ Abort(r) PROVE TypeOK'
  BY <1>1, <1>7 DEF Reply, Abort, TypeOK
<1>8. CASE UNCHANGED vars
  BY <1>8 DEF vars, TypeOK
<1> QED BY <1>2, <1>3, <1>4, <1>5, <1>6, <1>7, <1>8 DEF Next

\* Every variable keeps its type.
THEOREM TypeCorrect == Spec => []TypeOK
BY TypeInit, TypeStep, PTL DEF Spec

-----------------------------------------------------------------------------
(***************************************************************************)
(* The status of a timesheet.  DeletedFlag and StatusIsAudited are not     *)
(* inductive: a save writes what its request computed at the read, so what *)
(* the pending saves will write has to be said too.                        *)
(***************************************************************************)

\* What a pending save does to status and isDeleted: it changes the status of
\* its copy to the one its log entry stands for, and only deletion and
\* restoration change the flag.
PendingSave(q) ==
    /\ Exists(q.sheet)
    /\ q.action \in StatusActions => /\ q.new.status = StatusOf[q.action]
                                     /\ q.new.status # q.old.status
    /\ q.action \notin StatusActions => q.new.status = q.old.status
    /\ q.action = "DELETE" => ~ q.old.isDeleted /\ q.new.isDeleted
    /\ q.action = "RESTORE" => q.old.isDeleted /\ ~ q.new.isDeleted
    /\ q.action \notin {"DELETE", "RESTORE"} => q.new.isDeleted = q.old.isDeleted

PendingSaves == \A r \in Requests : req[r].phase = "saving" => PendingSave(req[r])

StatusInv == TypeOK /\ DeletedFlag /\ StatusIsAudited /\ PendingSaves

LEMMA StatusInit == Init => StatusInv
<1> SUFFICES ASSUME Init PROVE StatusInv
  OBVIOUS
<1>1. TypeOK
  BY TypeInit
<1>2. DeletedFlag /\ StatusIsAudited
  BY DEF Init, NoDoc, DeletedFlag, StatusIsAudited, Exists
<1>3. PendingSaves
  BY DEF Init, Idle, PendingSaves
<1> QED BY <1>1, <1>2, <1>3 DEF StatusInv

\* A step that changes no document, no log, and leaves in each slot a save
\* that was there or one that satisfies PendingSave, keeps the invariant.
LEMMA StoredUnchanged ==
    ASSUME StatusInv, TypeOK', UNCHANGED <<doc, audit>>,
           \A r \in Requests : req'[r].phase = "saving" =>
               req'[r] = req[r] \/ PendingSave(req'[r])
    PROVE  StatusInv'
<1>1. DeletedFlag' /\ StatusIsAudited'
  BY DEF StatusInv, DeletedFlag, StatusIsAudited, Exists
<1>2. \A q : PendingSave(q) => PendingSave(q)'
  BY DEF PendingSave, Exists
<1>3. PendingSaves'
  <2>1. SUFFICES ASSUME NEW r \in Requests, req'[r].phase = "saving"
                 PROVE  PendingSave(req'[r])
    BY DEF PendingSaves, PendingSave, Exists
  <2>2. CASE req'[r] = req[r]
    BY <2>1, <2>2 DEF StatusInv, PendingSaves
  <2> QED BY <2>1, <2>2
<1> QED BY <1>1, <1>3 DEF StatusInv

\* What a read leaves in its slot: the copy as read, and the scalar paths as
\* the operation changed them.
LEMMA ReadLeaves ==
    ASSUME TypeOK, NEW r \in Requests, NEW s \in Sheets,
           NEW action \in Actions \ {"CREATE"}, NEW new \in Doc,
           NEW pushed \in Seq(EntryKinds), Read(r, s, action, new, pushed)
    PROVE  /\ \A r2 \in Requests \ {r} : req'[r2] = req[r2]
           /\ req'[r].sheet = s /\ req'[r].action = action /\ req'[r].old = doc[s]
           /\ req'[r].new.status = new.status
           /\ req'[r].new.isDeleted = new.isDeleted
           /\ req'[r].new.payrollId = new.payrollId
           /\ Exists(s)
<1>1. req'[r] = Saving(s, action, new, pushed)
      /\ \A r2 \in Requests \ {r} : req'[r2] = req[r2]
  BY DEF Read, Start, TypeOK
<1>2. entries[s] \o pushed \in Seq(EntryKinds)
  BY DEF TypeOK
<1>3. /\ PreSave(new, entries[s] \o pushed).status = new.status
      /\ PreSave(new, entries[s] \o pushed).isDeleted = new.isDeleted
      /\ PreSave(new, entries[s] \o pushed).payrollId = new.payrollId
  BY <1>2, PreSaveType
<1> QED BY <1>1, <1>3 DEF Saving, Read

\* Every operation leaves a PendingSave in its slot.
LEMMA ReadPending ==
    ASSUME StatusInv, NEW r \in Requests, NEW s \in Sheets, ReadStep(r, s)
    PROVE  PendingSave(req'[r]) /\ \A r2 \in Requests \ {r} : req'[r2] = req[r2]
<1>1. doc[s] \in Doc /\ entries[s] \in Seq(EntryKinds) /\ TypeOK
  BY DEF StatusInv, TypeOK
<1>2. ASSUME NEW action \in Actions \ {"CREATE"}, NEW new \in Doc,
             NEW pushed \in Seq(EntryKinds), Read(r, s, action, new, pushed)
      PROVE  /\ \A r2 \in Requests \ {r} : req'[r2] = req[r2]
             /\ req'[r].sheet = s /\ req'[r].action = action /\ req'[r].old = doc[s]
             /\ req'[r].new.status = new.status
             /\ req'[r].new.isDeleted = new.isDeleted
             /\ Exists(s)
  BY <1>1, <1>2, ReadLeaves
<1>3. <<>> \in Seq(EntryKinds)
  OBVIOUS
<1>4. ASSUME NEW e \in EntryKinds, ReadAddTimeEntry(r, s, e)
      PROVE  PendingSave(req'[r]) /\ \A r2 \in Requests \ {r} : req'[r2] = req[r2]
  <2> DEFINE new == [doc[s] EXCEPT !.total = Total(Append(entries[s], e))]
  <2>1. Append(entries[s], e) \in Seq(EntryKinds) /\ <<e>> \in Seq(EntryKinds)
    BY <1>1
  <2>2. Total(Append(entries[s], e)) \in Int
    BY <2>1, TotalType
  <2>3. new \in Doc /\ new.status = doc[s].status /\ new.isDeleted = doc[s].isDeleted
    BY <1>1, <2>2 DEF Doc
  <2>4. "ADD_ENTRY" \in Actions \ {"CREATE"} /\ "ADD_ENTRY" \notin StatusActions
    BY DEF Actions, StatusActions
  <2>5. Read(r, s, "ADD_ENTRY", new, <<e>>)
    BY <1>4 DEF ReadAddTimeEntry
  <2> HIDE DEF new
  <2> QED BY <1>2, <2>1, <2>3, <2>4, <2>5 DEF PendingSave
<1>5. ASSUME NEW action \in {"CLOCK_EVENT", "VERIFY_CLOCK_EVENT"},
             Read(r, s, action, doc[s], <<>>)
      PROVE  PendingSave(req'[r]) /\ \A r2 \in Requests \ {r} : req'[r2] = req[r2]
  <2>1. action \in Actions \ {"CREATE"} /\ action \notin StatusActions
    BY DEF Actions, StatusActions
  <2> QED BY <1>1, <1>2, <1>3, <1>5, <2>1 DEF PendingSave
<1>6. CASE ReadRecordClockEvent(r, s)
  BY <1>5, <1>6 DEF ReadRecordClockEvent
<1>7. CASE ReadVerifyClockEvent(r, s)
  BY <1>5, <1>7 DEF ReadVerifyClockEvent
<1>8. ASSUME NEW action \in StatusActions \ {"CREATE"}, NEW new \in Doc,
             new.status = StatusOf[action], doc[s].status # StatusOf[action],
             action = "DELETE" => ~ doc[s].isDeleted /\ new.isDeleted,
             action = "RESTORE" => doc[s].isDeleted /\ ~ new.isDeleted,
             action \notin {"DELETE", "RESTORE"} => new.isDeleted = doc[s].isDeleted,
             Read(r, s, action, new, <<>>)
      PROVE  PendingSave(req'[r]) /\ \A r2 \in Requests \ {r} : req'[r2] = req[r2]
  <2>1. action \in Actions \ {"CREATE"}
    BY DEF Actions, StatusActions
  <2> QED BY <1>2, <1>3, <1>8, <2>1 DEF PendingSave
<1>9. /\ StatusActions = {"CREATE", "SUBMIT", "APPROVE", "REJECT", "DELETE", "RESTORE",
                         "PAYROLL_PROCESSED"}
      /\ StatusOf["SUBMIT"] = "submitted"
      /\ StatusOf["APPROVE"] = "approved"
      /\ StatusOf["REJECT"] = "rejected"
      /\ StatusOf["DELETE"] = "deleted"
      /\ StatusOf["RESTORE"] = "draft"
      /\ StatusOf["PAYROLL_PROCESSED"] = "paid"
  BY DEF StatusActions, StatusOf, Actions
<1>10. CASE ReadSubmitTimesheet(r, s)
  <2> DEFINE new == [doc[s] EXCEPT !.status = "submitted"]
  <2>1. new \in Doc /\ new.status = "submitted" /\ new.isDeleted = doc[s].isDeleted
    BY <1>1 DEF Doc, Statuses
  <2> HIDE DEF new
  <2> QED BY <1>8, <1>9, <1>10, <2>1 DEF ReadSubmitTimesheet, new
<1>11. CASE ReadApproveTimesheet(r, s)
  <2> DEFINE new == [doc[s] EXCEPT !.status = "approved"]
  <2>1. new \in Doc /\ new.status = "approved" /\ new.isDeleted = doc[s].isDeleted
    BY <1>1 DEF Doc, Statuses
  <2> HIDE DEF new
  <2> QED BY <1>8, <1>9, <1>11, <2>1 DEF ReadApproveTimesheet, new
<1>12. CASE ReadRejectTimesheet(r, s)
  <2> DEFINE new == [doc[s] EXCEPT !.status = "rejected"]
  <2>1. new \in Doc /\ new.status = "rejected" /\ new.isDeleted = doc[s].isDeleted
    BY <1>1 DEF Doc, Statuses
  <2> HIDE DEF new
  <2> QED BY <1>8, <1>9, <1>12, <2>1 DEF ReadRejectTimesheet, new
<1>13. CASE ReadSoftDeleteTimesheet(r, s)
  <2> DEFINE new == [doc[s] EXCEPT !.status = "deleted", !.isDeleted = TRUE]
  <2>1. new \in Doc /\ new.status = "deleted" /\ new.isDeleted
    BY <1>1 DEF Doc, Statuses
  <2>2. ~ doc[s].isDeleted /\ doc[s].status # "deleted"
    BY <1>13 DEF ReadSoftDeleteTimesheet, StatusInv, DeletedFlag
  <2>3. Read(r, s, "DELETE", new, <<>>)
    BY <1>13 DEF ReadSoftDeleteTimesheet
  <2> HIDE DEF new
  <2> QED BY <1>8, <1>9, <2>1, <2>2, <2>3
<1>14. CASE ReadRestoreTimesheet(r, s)
  <2> DEFINE new == [doc[s] EXCEPT !.status = "draft", !.isDeleted = FALSE]
  <2>1. new \in Doc /\ new.status = "draft" /\ ~ new.isDeleted
    BY <1>1 DEF Doc, Statuses
  <2>2. doc[s].isDeleted /\ doc[s].status # "draft"
    BY <1>14 DEF ReadRestoreTimesheet, StatusInv, DeletedFlag
  <2>3. Read(r, s, "RESTORE", new, <<>>)
    BY <1>14 DEF ReadRestoreTimesheet
  <2> HIDE DEF new
  <2> QED BY <1>8, <1>9, <2>1, <2>2, <2>3
<1>15. ASSUME NEW p \in Payrolls, ReadMarkPayrollProcessed(r, s, p)
       PROVE  PendingSave(req'[r]) /\ \A r2 \in Requests \ {r} : req'[r2] = req[r2]
  <2> DEFINE new == [doc[s] EXCEPT !.status = "paid", !.payrollId = p]
  <2>1. new \in Doc /\ new.status = "paid" /\ new.isDeleted = doc[s].isDeleted
    BY <1>1 DEF Doc, Statuses
  <2>2. doc[s].status = "approved" /\ Read(r, s, "PAYROLL_PROCESSED", new, <<>>)
    BY <1>15 DEF ReadMarkPayrollProcessed
  <2> HIDE DEF new
  <2> QED BY <1>8, <1>9, <2>1, <2>2
<1> QED
  BY <1>4, <1>6, <1>7, <1>10, <1>11, <1>12, <1>13, <1>14, <1>15 DEF ReadStep

\* What a save does to the stored document, to its log and to the slots.
LEMMA SaveEffect ==
    ASSUME StatusInv, NEW r \in Requests, Save(r)
    PROVE  LET q == req[r]
               s == q.sheet
           IN  /\ q \in SavingRecord /\ PendingSave(q)
               /\ doc'[s].status = IF q.action \in StatusActions THEN StatusOf[q.action]
                                   ELSE doc[s].status
               /\ doc'[s].isDeleted = IF q.action \in {"DELETE", "RESTORE"}
                                      THEN q.new.isDeleted ELSE doc[s].isDeleted
               /\ doc'[s].payrollId = Set(doc[s].payrollId, q.old.payrollId, q.new.payrollId)
               /\ \A t \in Sheets \ {s} : doc'[t] = doc[t] /\ audit'[t] = audit[t]
               /\ audit'[s] = Append(audit[s], q.action)
               /\ req'[r].phase # "saving"
               /\ \A r2 \in Requests \ {r} : req'[r2] = req[r2]
<1> DEFINE q == req[r]
           s == q.sheet
<1>1. TypeOK
  BY DEF StatusInv
<1>2. /\ q \in SavingRecord /\ PendingSave(q)
      /\ s \in Sheets /\ q.action \in Actions /\ q.old \in Doc /\ q.new \in Doc
  <2>1. q \in SavingRecord
    BY <1>1 DEF TypeOK, RequestRecord, SavingRecord, Save
  <2> QED BY <2>1 DEF SavingRecord, StatusInv, PendingSaves, Save
<1>3. /\ doc' = [doc EXCEPT ![s] = Merge(@, q.old, q.new)]
      /\ audit' = [audit EXCEPT ![s] = Append(@, q.action)]
      /\ req'[r].phase # "saving"
      /\ \A r2 \in Requests \ {r} : req'[r2] = req[r2]
  BY <1>1 DEF Save, TypeOK
<1> HIDE DEF q, s
<1>4. doc'[s] = Merge(doc[s], q.old, q.new)
  BY <1>1, <1>2, <1>3 DEF TypeOK
<1>5. /\ \A t \in Sheets \ {s} : doc'[t] = doc[t] /\ audit'[t] = audit[t]
      /\ audit'[s] = Append(audit[s], q.action)
  BY <1>1, <1>2, <1>3 DEF TypeOK
<1>6. /\ doc'[s].status = IF q.action \in StatusActions THEN StatusOf[q.action]
                          ELSE doc[s].status
      /\ doc'[s].isDeleted = IF q.action \in {"DELETE", "RESTORE"} THEN q.new.isDeleted
                             ELSE doc[s].isDeleted
      /\ doc'[s].payrollId = Set(doc[s].payrollId, q.old.payrollId, q.new.payrollId)
  BY <1>2, <1>4 DEF Merge, Set, PendingSave
<1> QED BY <1>2, <1>3, <1>5, <1>6 DEF q, s

\* The save itself.
LEMMA SaveStatus == ASSUME StatusInv, NEW r \in Requests, Save(r) PROVE StatusInv'
<1> DEFINE q == req[r]
           s == q.sheet
<1>1. TypeOK /\ TypeOK'
  BY SaveType DEF StatusInv
<1>2. q \in SavingRecord /\ PendingSave(q) /\ s \in Sheets /\ q.action \in Actions
  BY SaveEffect DEF SavingRecord
<1>3. req'[r].phase # "saving" /\ \A r2 \in Requests \ {r} : req'[r2] = req[r2]
  BY SaveEffect
<1>4. /\ doc'[s].status = IF q.action \in StatusActions THEN StatusOf[q.action]
                          ELSE doc[s].status
      /\ doc'[s].isDeleted = IF q.action \in {"DELETE", "RESTORE"} THEN q.new.isDeleted
                             ELSE doc[s].isDeleted
      /\ \A t \in Sheets \ {s} : doc'[t] = doc[t] /\ audit'[t] = audit[t]
      /\ audit'[s] = Append(audit[s], q.action)
  BY SaveEffect
<1> HIDE DEF q, s
<1>5. /\ doc[s].status # "none"
      /\ q.action \in StatusActions => StatusOf[q.action] \in Statuses
  BY <1>2 DEF PendingSave, Exists, StatusActions, StatusOf, Statuses, Actions, s
<1>6. DeletedFlag'
  <2>1. DeletedFlag
    BY DEF StatusInv
  <2>2. /\ q.action = "DELETE" => doc'[s].isDeleted /\ doc'[s].status = "deleted"
        /\ q.action = "RESTORE" => ~ doc'[s].isDeleted /\ doc'[s].status = "draft"
        /\ q.action \in StatusActions \ {"DELETE", "RESTORE", "CREATE"}
              => doc'[s].status \notin {"draft", "deleted"}
    <3>1. "DELETE" \in StatusActions /\ "RESTORE" \in StatusActions
          /\ StatusOf["DELETE"] = "deleted" /\ StatusOf["RESTORE"] = "draft"
          /\ \A a \in StatusActions \ {"DELETE", "RESTORE", "CREATE"} :
                StatusOf[a] \notin {"draft", "deleted"}
      BY DEF StatusActions, StatusOf, Actions
    <3> QED BY <1>2, <1>4, <1>5, <3>1 DEF PendingSave
  <2>3. q.action # "CREATE"
    BY <1>2 DEF SavingRecord
  <2> QED BY <1>2, <1>4, <2>1, <2>2, <2>3 DEF DeletedFlag, StatusActions
<1>7. StatusIsAudited'
  <2>1. SUFFICES ASSUME NEW t \in Sheets, doc'[t].status # "none"
        PROVE  \E i \in DOMAIN audit'[t] :
                  /\ audit'[t][i] \in StatusActions
                  /\ doc'[t].status = StatusOf[audit'[t][i]]
                  /\ \A j \in DOMAIN audit'[t] : j > i => audit'[t][j] \notin StatusActions
    BY DEF StatusIsAudited, Exists
  <2>2. CASE t # s
    BY <1>4, <2>1, <2>2 DEF StatusInv, StatusIsAudited, Exists
  <2>3. CASE t = s
    <3>1. audit[s] \in Seq(Actions)
      BY <1>1, <1>2 DEF TypeOK
    <3>2. /\ DOMAIN audit'[s] = 1..Len(audit[s]) + 1
          /\ DOMAIN audit[s] = 1..Len(audit[s])
          /\ Len(audit[s]) \in Nat
          /\ audit'[s][Len(audit[s]) + 1] = q.action
          /\ \A i \in 1..Len(audit[s]) : audit'[s][i] = audit[s][i]
      BY <1>2, <1>4, <3>1
    <3>3. CASE q.action \in StatusActions
      <4>1. doc'[s].status = StatusOf[q.action]
        BY <1>4, <1>5, <3>3
      <4>2. /\ Len(audit[s]) + 1 \in DOMAIN audit'[s]
            /\ \A j \in DOMAIN audit'[s] : ~ j > Len(audit[s]) + 1
        BY <3>2
      <4> QED BY <2>3, <3>2, <3>3, <4>1, <4>2
    <3>4. CASE q.action \notin StatusActions
      <4>1. PICK i \in DOMAIN audit[s] :
                /\ audit[s][i] \in StatusActions
                /\ doc[s].status = StatusOf[audit[s][i]]
                /\ \A j \in DOMAIN audit[s] : j > i => audit[s][j] \notin StatusActions
        BY <1>2, <1>5 DEF StatusInv, StatusIsAudited, Exists
      <4>2. doc'[s].status = doc[s].status
        BY <1>4, <3>4
      <4> QED BY <2>3, <3>2, <3>4, <4>1, <4>2
    <3> QED BY <3>3, <3>4
  <2> QED BY <2>2, <2>3
<1>8. PendingSaves'
  <2>1. SUFFICES ASSUME NEW r2 \in Requests, req'[r2].phase = "saving"
                 PROVE  PendingSave(req[r2])'
    BY DEF PendingSaves
  <2>2. req'[r2] = req[r2] /\ PendingSave(req[r2])
    BY <1>3, <2>1 DEF StatusInv, PendingSaves
  <2>3. req[r2].sheet \in Sheets
    BY <1>1, <2>1, <2>2 DEF TypeOK, RequestRecord
  <2>4. doc'[req[r2].sheet].status # "none"
    <3>1. doc[req[r2].sheet].status # "none"
      BY <2>2 DEF PendingSave, Exists
    <3> QED BY <1>4, <1>5, <2>3, <3>1 DEF Statuses
  <2> QED BY <2>2, <2>4 DEF PendingSave, Exists
<1> QED BY <1>1, <1>6, <1>7, <1>8 DEF StatusInv

\* A read stores nothing.
LEMMA ReadStoresNothing ==
    ASSUME NEW r \in Requests, NEW s \in Sheets, ReadStep(r, s)
    PROVE  UNCHANGED <<doc, audit>>
BY DEF ReadStep, ReadAddTimeEntry, ReadRecordClockEvent, ReadVerifyClockEvent,
       ReadSubmitTimesheet, ReadApproveTimesheet, ReadRejectTimesheet,
       ReadSoftDeleteTimesheet, ReadRestoreTimesheet, ReadMarkPayrollProcessed, Read, Start

\* Nor does what follows a save, or the end of a request.
LEMMA NothingStored ==
    ASSUME TypeOK, NEW r \in Requests, Enqueue(r) \/ Reply(r) \/ Abort(r)
    PROVE  /\ UNCHANGED <<doc, audit>> /\ req'[r].phase # "saving"
           /\ \A r2 \in Requests \ {r} : req'[r2] = req[r2]
<1>1. CASE Enqueue(r)
  <2>1. req[r] \in [phase : {"enqueuing", "replying"}, sheet : Sheets]
    BY <1>1 DEF Enqueue, TypeOK, RequestRecord
  <2> QED BY <1>1, <2>1 DEF Enqueue, TypeOK
<1>2. CASE Reply(r) \/ Abort(r)
  BY <1>2 DEF Reply, Abort, TypeOK, Idle
<1> QED BY <1>1, <1>2

LEMMA StatusStep == StatusInv /\ [Next]_vars => StatusInv'
<1> SUFFICES ASSUME StatusInv, [Next]_vars PROVE StatusInv'
  OBVIOUS
<1>1. TypeOK /\ TypeOK'
  BY TypeStep DEF StatusInv
<1>2. ASSUME NEW r \in Requests, NEW k \in Keys, FindForCreate(r, k) PROVE StatusInv'
  <2>1. UNCHANGED <<doc, audit>> /\ req' = [req EXCEPT ![r] = Inserting(k)]
    BY <1>2 DEF FindForCreate, Start
  <2>2. Inserting(k).phase # "saving"
    BY DEF Inserting
  <2> QED BY <1>1, <2>1, <2>2, StoredUnchanged DEF TypeOK
<1>3. ASSUME NEW r \in Requests, NEW s \in Sheets, InsertCreated(r, s) PROVE StatusInv'
  <2>1. /\ doc' = [doc EXCEPT ![s] = NewDoc]
        /\ audit' = [audit EXCEPT ![s] = <<"CREATE">>]
        /\ req' = [req EXCEPT ![r] = Idle]
    BY <1>3 DEF InsertCreated
  <2>2. NewDoc.status = "draft" /\ ~ NewDoc.isDeleted
    BY DEF NewDoc, NoDoc
  <2>3. DeletedFlag'
    BY <1>1, <2>1, <2>2 DEF StatusInv, DeletedFlag, TypeOK
  <2>4. StatusIsAudited'
    <3>1. "CREATE" \in StatusActions /\ StatusOf["CREATE"] = "draft"
      BY DEF StatusActions, StatusOf, Actions
    <3>2. audit'[s] = <<"CREATE">> /\ doc'[s] = NewDoc
          /\ \A t \in Sheets \ {s} : doc'[t] = doc[t] /\ audit'[t] = audit[t]
      BY <1>1, <2>1 DEF TypeOK
    <3>3. DOMAIN audit'[s] = {1} /\ audit'[s][1] = "CREATE"
      BY <3>2
    <3> QED BY <2>2, <3>1, <3>2, <3>3 DEF StatusInv, StatusIsAudited, Exists
  <2>5. PendingSaves'
    <3>1. SUFFICES ASSUME NEW r2 \in Requests, req'[r2].phase = "saving"
                   PROVE  PendingSave(req[r2])'
      BY DEF PendingSaves
    <3>2. req'[r2] = req[r2] /\ PendingSave(req[r2])
      BY <1>1, <2>1, <3>1 DEF StatusInv, PendingSaves, TypeOK, Idle
    <3>3. req[r2].sheet \in Sheets
      BY <1>1, <3>1, <3>2 DEF TypeOK, RequestRecord
    <3>4. doc'[req[r2].sheet].status # "none"
      BY <1>1, <2>1, <2>2, <3>2, <3>3 DEF PendingSave, Exists, TypeOK
    <3> QED BY <3>2, <3>4 DEF PendingSave, Exists
  <2> QED BY <1>1, <2>3, <2>4, <2>5 DEF StatusInv
<1>4. ASSUME NEW r \in Requests, NEW s \in Sheets, ReadStep(r, s) PROVE StatusInv'
  <2>1. UNCHANGED <<doc, audit>>
    BY <1>4, ReadStoresNothing
  <2>2. PendingSave(req'[r]) /\ \A r2 \in Requests \ {r} : req'[r2] = req[r2]
    BY <1>4, ReadPending
  <2> QED BY <1>1, <2>1, <2>2, StoredUnchanged
<1>5. ASSUME NEW r \in Requests, Save(r) PROVE StatusInv'
  BY <1>5, SaveStatus
<1>6. ASSUME NEW r \in Requests, Enqueue(r) \/ Reply(r) \/ Abort(r) PROVE StatusInv'
  <2>1. UNCHANGED <<doc, audit>> /\ req'[r].phase # "saving"
        /\ \A r2 \in Requests \ {r} : req'[r2] = req[r2]
    BY <1>1, <1>6, NothingStored
  <2> QED BY <1>1, <2>1, StoredUnchanged
<1>7. CASE UNCHANGED vars
  BY <1>1, <1>7, StoredUnchanged DEF vars
<1> QED BY <1>2, <1>3, <1>4, <1>5, <1>6, <1>7 DEF Next

LEMMA StatusInvariant == Spec => []StatusInv
BY StatusInit, StatusStep, PTL DEF Spec

\* However many requests overlap, a draft is never flagged as deleted and a
\* timesheet whose status is deleted always is.
THEOREM DeletedFlagSafe == Spec => []DeletedFlag
<1>1. StatusInv => DeletedFlag
  BY DEF StatusInv
<1> QED BY <1>1, StatusInvariant, PTL

\* However many requests overlap, the audit log explains the status.
THEOREM StatusAudited == Spec => []StatusIsAudited
<1>1. StatusInv => StatusIsAudited
  BY DEF StatusInv
<1> QED BY <1>1, StatusInvariant, PTL

-----------------------------------------------------------------------------
(***************************************************************************)
(* The history of a timesheet.  What an operation asked of its copy was    *)
(* true of the document once, and histories only grow: it remains true of  *)
(* the history until the save.                                             *)
(***************************************************************************)

\* The status a pending save writes is the target of a move whose source the
\* timesheet has had.
Earned(q) ==
    q.action \in StatusActions =>
        \E m \in Moves : m.from \in StatusesSeen(q.sheet) /\ m.to = StatusOf[q.action]

\* Only the payroll mark writes payrollId, and a copy that has one was read
\* after a save of such a mark.
Marked(q) ==
    /\ q.old.payrollId # NoPayroll => At(q.sheet, "PAYROLL_PROCESSED") # {}
    /\ IF q.action = "PAYROLL_PROCESSED" THEN q.new.payrollId # NoPayroll
       ELSE q.new.payrollId = q.old.payrollId

PendingHistory == \A r \in Requests : req[r].phase = "saving" => Earned(req[r]) /\ Marked(req[r])

\* A timesheet without a document has no history, and a flagged one has had
\* the status deleted.
HistoryFits ==
    \A s \in Sheets : /\ ~ Exists(s) => audit[s] = <<>>
                      /\ doc[s].isDeleted => "deleted" \in StatusesSeen(s)

ApprovedAfterSubmission ==
    \A s \in Sheets : \A j \in At(s, "APPROVE") : \E i \in At(s, "SUBMIT") : i < j

HistoryInv == /\ StatusInv
              /\ HistoryFits
              /\ ApprovedAfterSubmission
              /\ PaidAfterApproval
              /\ PayrollMarkKept
              /\ PendingHistory

LEMMA StatusNames ==
    /\ StatusActions = {"CREATE", "SUBMIT", "APPROVE", "REJECT", "DELETE", "RESTORE",
                        "PAYROLL_PROCESSED"}
    /\ StatusOf["CREATE"] = "draft"
    /\ StatusOf["SUBMIT"] = "submitted"
    /\ StatusOf["APPROVE"] = "approved"
    /\ StatusOf["REJECT"] = "rejected"
    /\ StatusOf["DELETE"] = "deleted"
    /\ StatusOf["RESTORE"] = "draft"
    /\ StatusOf["PAYROLL_PROCESSED"] = "paid"
BY DEF StatusActions, StatusOf, Actions

\* One more action in the log adds its place and its status.
LEMMA AtAppend ==
    ASSUME NEW s \in Sheets, NEW a \in Actions,
           audit[s] \in Seq(Actions), audit'[s] = Append(audit[s], a)
    PROVE  /\ Len(audit[s]) \in Nat
           /\ \A b : At(s, b)' = At(s, b) \cup (IF b = a THEN {Len(audit[s]) + 1} ELSE {})
           /\ \A b : At(s, b) \subseteq 1..Len(audit[s])
           /\ StatusesSeen(s)' = StatusesSeen(s)
                                 \cup (IF a \in StatusActions THEN {StatusOf[a]} ELSE {})
<1>1. /\ DOMAIN audit[s] = 1..Len(audit[s]) /\ Len(audit[s]) \in Nat
      /\ DOMAIN audit'[s] = 1..Len(audit[s]) + 1
      /\ audit'[s][Len(audit[s]) + 1] = a
      /\ \A i \in 1..Len(audit[s]) : audit'[s][i] = audit[s][i]
  OBVIOUS
<1>2. \A b : At(s, b)' = At(s, b) \cup (IF b = a THEN {Len(audit[s]) + 1} ELSE {})
  BY <1>1 DEF At
<1>3. StatusesSeen(s)' = StatusesSeen(s)
                         \cup (IF a \in StatusActions THEN {StatusOf[a]} ELSE {})
  <2> DEFINE places == {j \in DOMAIN audit[s] : audit[s][j] \in StatusActions}
             later == {j \in DOMAIN audit'[s] : audit'[s][j] \in StatusActions}
  <2>1. later = places \cup (IF a \in StatusActions THEN {Len(audit[s]) + 1} ELSE {})
    BY <1>1
  <2>2. \A i \in places : audit'[s][i] = audit[s][i]
    BY <1>1
  <2> HIDE DEF places, later
  <2>3. {StatusOf[audit'[s][i]] : i \in later}
          = {StatusOf[audit[s][i]] : i \in places}
            \cup (IF a \in StatusActions THEN {StatusOf[a]} ELSE {})
    BY <1>1, <2>1, <2>2
  <2> QED BY <2>3 DEF StatusesSeen, places, later
<1> QED BY <1>1, <1>2, <1>3 DEF At

\* A status that has been had was written by an entry of the log.
LEMMA SeenAt ==
    ASSUME NEW s \in Sheets
    PROVE  /\ "submitted" \in StatusesSeen(s) => At(s, "SUBMIT") # {}
           /\ "approved" \in StatusesSeen(s) => At(s, "APPROVE") # {}
BY StatusNames DEF StatusesSeen, At

\* The status a timesheet has is one it has had.
LEMMA StatusSeen ==
    ASSUME StatusIsAudited, NEW s \in Sheets, Exists(s)
    PROVE  doc[s].status \in StatusesSeen(s)
BY DEF StatusIsAudited, StatusesSeen

LEMMA HistoryInit == Init => HistoryInv
<1> SUFFICES ASSUME Init PROVE HistoryInv
  OBVIOUS
<1>1. StatusInv
  BY StatusInit
<1>2. \A s \in Sheets : /\ audit[s] = <<>> /\ ~ doc[s].isDeleted
                        /\ doc[s].payrollId = NoPayroll
                        /\ \A a : At(s, a) = {}
  BY DEF Init, NoDoc, At
<1>3. PendingHistory
  BY DEF Init, Idle, PendingHistory
<1> QED BY <1>1, <1>2, <1>3
        DEF HistoryInv, HistoryFits, ApprovedAfterSubmission, PaidAfterApproval, PayrollMarkKept

\* A step that changes no document and no log, and leaves in each slot a save
\* that was there or one that the history allows, keeps the invariant.
LEMMA HistoryUnchanged ==
    ASSUME HistoryInv, StatusInv', UNCHANGED <<doc, audit>>,
           \A r \in Requests : req'[r].phase = "saving" =>
               req'[r] = req[r] \/ (Earned(req'[r]) /\ Marked(req'[r]))
    PROVE  HistoryInv'
<1>1. \A s, a : At(s, a)' = At(s, a) /\ StatusesSeen(s)' = StatusesSeen(s)
  BY DEF At, StatusesSeen
<1>2. /\ HistoryFits' /\ ApprovedAfterSubmission'
      /\ PaidAfterApproval' /\ PayrollMarkKept'
  BY <1>1 DEF HistoryInv, HistoryFits, ApprovedAfterSubmission, PaidAfterApproval,
              PayrollMarkKept, Exists
<1>3. PendingHistory'
  BY <1>1 DEF HistoryInv, PendingHistory, Earned, Marked
<1> QED BY <1>2, <1>3 DEF HistoryInv

\* Every operation leaves a save that the history allows.
LEMMA ReadHistory ==
    ASSUME HistoryInv, NEW r \in Requests, NEW s \in Sheets, ReadStep(r, s)
    PROVE  Earned(req'[r]) /\ Marked(req'[r])
<1>1. doc[s] \in Doc /\ entries[s] \in Seq(EntryKinds) /\ TypeOK
  BY DEF HistoryInv, StatusInv, TypeOK
<1>2. doc[s].payrollId # NoPayroll => At(s, "PAYROLL_PROCESSED") # {}
  BY DEF HistoryInv, PayrollMarkKept
<1>3. Exists(s) => doc[s].status \in StatusesSeen(s)
  BY StatusSeen DEF HistoryInv, StatusInv
<1>4. ASSUME NEW action \in Actions \ {"CREATE"}, NEW new \in Doc,
             NEW pushed \in Seq(EntryKinds), Read(r, s, action, new, pushed),
             IF action = "PAYROLL_PROCESSED" THEN new.payrollId # NoPayroll
             ELSE new.payrollId = doc[s].payrollId,
             action \in StatusActions =>
                \E m \in Moves : m.from \in StatusesSeen(s) /\ m.to = StatusOf[action]
      PROVE  Earned(req'[r]) /\ Marked(req'[r])
  BY <1>1, <1>2, <1>4, ReadLeaves DEF Earned, Marked
<1>5. <<>> \in Seq(EntryKinds)
  OBVIOUS
<1>6. ASSUME NEW e \in EntryKinds, ReadAddTimeEntry(r, s, e)
      PROVE  Earned(req'[r]) /\ Marked(req'[r])
  <2> DEFINE new == [doc[s] EXCEPT !.total = Total(Append(entries[s], e))]
  <2>1. Append(entries[s], e) \in Seq(EntryKinds) /\ <<e>> \in Seq(EntryKinds)
    BY <1>1
  <2>2. new \in Doc /\ new.payrollId = doc[s].payrollId
    BY <1>1, <2>1, TotalType DEF Doc
  <2>3. "ADD_ENTRY" \in Actions \ {"CREATE"} /\ "ADD_ENTRY" \notin StatusActions
    BY StatusNames DEF Actions
  <2>4. Read(r, s, "ADD_ENTRY", new, <<e>>)
    BY <1>6 DEF ReadAddTimeEntry
  <2> HIDE DEF new
  <2> QED BY <1>4, <2>1, <2>2, <2>3, <2>4
<1>7. ASSUME NEW action \in {"CLOCK_EVENT", "VERIFY_CLOCK_EVENT"},
             Read(r, s, action, doc[s], <<>>)
      PROVE  Earned(req'[r]) /\ Marked(req'[r])
  <2>1. action \in Actions \ {"CREATE"} /\ action \notin StatusActions
    BY StatusNames DEF Actions
  <2> QED BY <1>1, <1>4, <1>5, <1>7, <2>1
\* The operations that write the status: the source is the copy's status, or
\* deleted for a restoration.
<1>8. ASSUME NEW action \in StatusActions \ {"CREATE", "PAYROLL_PROCESSED"},
             NEW from, from \in StatusesSeen(s),
             [from |-> from, to |-> StatusOf[action]] \in Moves,
             NEW new \in Doc, new.payrollId = doc[s].payrollId,
             Read(r, s, action, new, <<>>)
      PROVE  Earned(req'[r]) /\ Marked(req'[r])
  <2>1. action \in Actions \ {"CREATE"}
    BY DEF StatusActions
  <2>2. \E m \in Moves : m.from \in StatusesSeen(s) /\ m.to = StatusOf[action]
    BY <1>8
  <2> QED BY <1>4, <1>5, <1>8, <2>1, <2>2
<1>9. CASE ReadRecordClockEvent(r, s)
  BY <1>7, <1>9 DEF ReadRecordClockEvent
<1>10. CASE ReadVerifyClockEvent(r, s)
  BY <1>7, <1>10 DEF ReadVerifyClockEvent
<1>11. CASE ReadSubmitTimesheet(r, s)
  <2> DEFINE new == [doc[s] EXCEPT !.status = "submitted"]
  <2>1. new \in Doc /\ new.payrollId = doc[s].payrollId
    BY <1>1 DEF Doc, Statuses
  <2>2. Read(r, s, "SUBMIT", new, <<>>) /\ "draft" \in StatusesSeen(s)
    BY <1>3, <1>11 DEF ReadSubmitTimesheet, Read
  <2>3. [from |-> "draft", to |-> "submitted"] \in Moves
    BY DEF Moves
  <2> HIDE DEF new
  <2> QED BY <1>8, <2>1, <2>2, <2>3, StatusNames
<1>12. CASE ReadApproveTimesheet(r, s)
  <2> DEFINE new == [doc[s] EXCEPT !.status = "approved"]
  <2>1. new \in Doc /\ new.payrollId = doc[s].payrollId
    BY <1>1 DEF Doc, Statuses
  <2>2. Read(r, s, "APPROVE", new, <<>>) /\ "submitted" \in StatusesSeen(s)
    BY <1>3, <1>12 DEF ReadApproveTimesheet, Read
  <2>3. [from |-> "submitted", to |-> "approved"] \in Moves
    BY DEF Moves
  <2> HIDE DEF new
  <2> QED BY <1>8, <2>1, <2>2, <2>3, StatusNames
<1>13. CASE ReadRejectTimesheet(r, s)
  <2> DEFINE new == [doc[s] EXCEPT !.status = "rejected"]
  <2>1. new \in Doc /\ new.payrollId = doc[s].payrollId
    BY <1>1 DEF Doc, Statuses
  <2>2. Read(r, s, "REJECT", new, <<>>) /\ "submitted" \in StatusesSeen(s)
    BY <1>3, <1>13 DEF ReadRejectTimesheet, Read
  <2>3. [from |-> "submitted", to |-> "rejected"] \in Moves
    BY DEF Moves
  <2> HIDE DEF new
  <2> QED BY <1>8, <2>1, <2>2, <2>3, StatusNames
<1>14. CASE ReadSoftDeleteTimesheet(r, s)
  <2> DEFINE new == [doc[s] EXCEPT !.status = "deleted", !.isDeleted = TRUE]
  <2>1. new \in Doc /\ new.payrollId = doc[s].payrollId
    BY <1>1 DEF Doc, Statuses
  <2>2. Read(r, s, "DELETE", new, <<>>) /\ doc[s].status \in StatusesSeen(s)
    BY <1>3, <1>14 DEF ReadSoftDeleteTimesheet, Read
  <2>3. doc[s].status \in Statuses \ {"deleted"}
    BY <1>1, <1>14 DEF ReadSoftDeleteTimesheet, Read, Exists, Doc,
                       HistoryInv, StatusInv, DeletedFlag
  <2>4. [from |-> doc[s].status, to |-> "deleted"] \in Moves
    BY <2>3 DEF Moves
  <2> HIDE DEF new
  <2> QED BY <1>8, <2>1, <2>2, <2>4, StatusNames
<1>15. CASE ReadRestoreTimesheet(r, s)
  <2> DEFINE new == [doc[s] EXCEPT !.status = "draft", !.isDeleted = FALSE]
  <2>1. new \in Doc /\ new.payrollId = doc[s].payrollId
    BY <1>1 DEF Doc, Statuses
  <2>2. Read(r, s, "RESTORE", new, <<>>) /\ "deleted" \in StatusesSeen(s)
    BY <1>15 DEF ReadRestoreTimesheet, HistoryInv, HistoryFits
  <2>3. [from |-> "deleted", to |-> "draft"] \in Moves
    BY DEF Moves
  <2> HIDE DEF new
  <2> QED BY <1>8, <2>1, <2>2, <2>3, StatusNames
<1>16. ASSUME NEW p \in Payrolls, ReadMarkPayrollProcessed(r, s, p)
       PROVE  Earned(req'[r]) /\ Marked(req'[r])
  <2> DEFINE new == [doc[s] EXCEPT !.status = "paid", !.payrollId = p]
  <2>1. new \in Doc /\ new.payrollId # NoPayroll
    BY <1>1, NamesAssumption DEF Doc, Statuses
  <2>2. Read(r, s, "PAYROLL_PROCESSED", new, <<>>) /\ "approved" \in StatusesSeen(s)
    BY <1>3, <1>16 DEF ReadMarkPayrollProcessed, Read
  <2>3. [from |-> "approved", to |-> "paid"] \in Moves
    BY DEF Moves
  <2>4. "PAYROLL_PROCESSED" \in Actions \ {"CREATE"}
    BY DEF Actions
  <2> HIDE DEF new
  <2>5. \E m \in Moves : m.from \in StatusesSeen(s) /\ m.to = StatusOf["PAYROLL_PROCESSED"]
    BY <2>2, <2>3, StatusNames
  <2> QED BY <1>4, <1>5, <2>1, <2>2, <2>4, <2>5
<1> QED
  BY <1>6, <1>9, <1>10, <1>11, <1>12, <1>13, <1>14, <1>15, <1>16 DEF ReadStep

\* A save that waits is allowed by every longer history.
LEMMA HistoryGrows ==
    ASSUME TypeOK, PendingHistory,
           \A t \in Sheets : /\ StatusesSeen(t) \subseteq StatusesSeen(t)'
                             /\ \A a : At(t, a) \subseteq At(t, a)',
           \A r \in Requests : req'[r].phase = "saving" => req'[r] = req[r]
    PROVE  PendingHistory'
<1> SUFFICES ASSUME NEW r \in Requests, req'[r].phase = "saving"
             PROVE  (Earned(req[r]) /\ Marked(req[r]))'
  BY DEF PendingHistory
<1>1. PICK q : q = req[r] /\ q = req'[r]
  OBVIOUS
<1>2. Earned(q) /\ Marked(q)
  BY <1>1 DEF PendingHistory
<1>3. PICK t \in Sheets : t = q.sheet
  BY <1>1 DEF TypeOK, RequestRecord
<1>4. Earned(q)' /\ Marked(q)'
  BY <1>2, <1>3 DEF Earned, Marked
<1> QED BY <1>1, <1>4 DEF Earned, Marked

\* The insertion starts the history of a timesheet.
LEMMA HistoryInsert ==
    ASSUME HistoryInv, StatusInv', NEW r \in Requests, NEW s \in Sheets, InsertCreated(r, s)
    PROVE  HistoryInv'
<1>1. TypeOK
  BY DEF HistoryInv, StatusInv
<1>2. /\ audit[s] = <<>> /\ audit'[s] = <<"CREATE">>
      /\ doc'[s] = NewDoc
      /\ \A t \in Sheets \ {s} : doc'[t] = doc[t] /\ audit'[t] = audit[t]
      /\ \A r2 \in Requests : req'[r2].phase = "saving" => req'[r2] = req[r2]
  BY <1>1 DEF InsertCreated, TypeOK, HistoryInv, HistoryFits, Idle
<1>3. \A t \in Sheets \ {s} : /\ \A a : At(t, a)' = At(t, a)
                              /\ StatusesSeen(t)' = StatusesSeen(t)
  BY <1>2 DEF At, StatusesSeen
<1>4. /\ \A a : At(s, a) = {}
      /\ StatusesSeen(s) = {}
      /\ \A a : a # "CREATE" => At(s, a)' = {}
  BY <1>2 DEF At, StatusesSeen
<1>5. doc'[s].status = "draft" /\ ~ doc'[s].isDeleted /\ doc'[s].payrollId = NoPayroll
  BY <1>2 DEF NewDoc, NoDoc
<1>6. HistoryFits'
  BY <1>2, <1>3, <1>5 DEF HistoryInv, HistoryFits, Exists
<1>7. ApprovedAfterSubmission'
  BY <1>3, <1>4 DEF HistoryInv, ApprovedAfterSubmission
<1>8. PaidAfterApproval'
  BY <1>3, <1>4 DEF HistoryInv, PaidAfterApproval
<1>9. PayrollMarkKept'
  BY <1>2, <1>3, <1>4, <1>5 DEF HistoryInv, PayrollMarkKept
<1>10. \A t \in Sheets : /\ StatusesSeen(t) \subseteq StatusesSeen(t)'
                         /\ \A a : At(t, a) \subseteq At(t, a)'
  BY <1>3, <1>4
<1>11. PendingHistory'
  BY <1>1, <1>2, <1>10, HistoryGrows DEF HistoryInv
<1> QED BY <1>6, <1>7, <1>8, <1>9, <1>11 DEF HistoryInv

\* A save adds its action to a history that allows it.
LEMMA HistorySave ==
    ASSUME HistoryInv, StatusInv', NEW r \in Requests, Save(r)
    PROVE  HistoryInv'
<1>1. StatusInv /\ TypeOK
  BY DEF HistoryInv, StatusInv
<1>2. PICK q, s : /\ q = req[r] /\ s = q.sheet
                  /\ q \in SavingRecord /\ s \in Sheets /\ q.action \in Actions
                  /\ PendingSave(q) /\ Earned(q) /\ Marked(q)
  BY <1>1, SaveEffect DEF SavingRecord, HistoryInv, PendingHistory, Save
<1>3. /\ doc'[s].status = IF q.action \in StatusActions THEN StatusOf[q.action]
                          ELSE doc[s].status
      /\ doc'[s].isDeleted = IF q.action \in {"DELETE", "RESTORE"} THEN q.new.isDeleted
                             ELSE doc[s].isDeleted
      /\ doc'[s].payrollId = Set(doc[s].payrollId, q.old.payrollId, q.new.payrollId)
      /\ \A t \in Sheets \ {s} : doc'[t] = doc[t] /\ audit'[t] = audit[t]
      /\ audit'[s] = Append(audit[s], q.action)
      /\ \A r2 \in Requests : req'[r2].phase = "saving" => req'[r2] = req[r2]
  BY <1>1, <1>2, SaveEffect
<1>n. PICK n : n = Len(audit[s]) + 1
  OBVIOUS
<1>4. /\ Len(audit[s]) \in Nat
      /\ \A a : At(s, a)' = At(s, a) \cup (IF a = q.action THEN {n} ELSE {})
      /\ \A a : At(s, a) \subseteq 1..Len(audit[s])
      /\ StatusesSeen(s)' = StatusesSeen(s)
                   \cup (IF q.action \in StatusActions THEN {StatusOf[q.action]} ELSE {})
  <2>1. /\ audit[s] \in Seq(Actions) /\ q.action \in Actions
        /\ audit'[s] = Append(audit[s], q.action)
    BY <1>1, <1>2, <1>3 DEF TypeOK
  <2> QED BY <1>2, <1>n, <2>1, AtAppend
<1>5. \A t \in Sheets \ {s} : /\ \A a : At(t, a)' = At(t, a)
                              /\ StatusesSeen(t)' = StatusesSeen(t)
  BY <1>3 DEF At, StatusesSeen
<1>6. Exists(s)
  BY <1>2 DEF PendingSave
<1>7. /\ q.action = "APPROVE" => At(s, "SUBMIT") # {}
      /\ q.action = "PAYROLL_PROCESSED" => At(s, "APPROVE") # {}
  <2>1. \A m \in Moves : /\ m.to = "approved" => m.from = "submitted"
                         /\ m.to = "paid" => m.from = "approved"
    BY DEF Moves
  <2>2. CASE q.action = "APPROVE"
    <3>1. PICK m \in Moves : m.from \in StatusesSeen(s) /\ m.to = "approved"
      <4>1. "APPROVE" \in StatusActions /\ StatusOf["APPROVE"] = "approved"
        BY StatusNames
      <4> QED BY <1>2, <2>2, <4>1 DEF Earned
    <3>2. "submitted" \in StatusesSeen(s)
      BY <2>1, <3>1
    <3> QED BY <1>2, <2>2, <3>2, SeenAt
  <2>3. CASE q.action = "PAYROLL_PROCESSED"
    <3>1. PICK m \in Moves : m.from \in StatusesSeen(s) /\ m.to = "paid"
      <4>1. "PAYROLL_PROCESSED" \in StatusActions /\ StatusOf["PAYROLL_PROCESSED"] = "paid"
        BY StatusNames
      <4> QED BY <1>2, <2>3, <4>1 DEF Earned
    <3>2. "approved" \in StatusesSeen(s)
      BY <2>1, <3>1
    <3> QED BY <1>2, <2>3, <3>2, SeenAt
  <2> QED BY <2>2, <2>3
<1>8. HistoryFits'
  <2>1. doc'[s].isDeleted => "deleted" \in StatusesSeen(s)'
    <3>1. CASE q.action = "DELETE"
      BY <1>4, <3>1, StatusNames
    <3>2. CASE q.action = "RESTORE"
      BY <1>2, <1>3, <3>2 DEF PendingSave
    <3>3. CASE q.action \notin {"DELETE", "RESTORE"}
      BY <1>2, <1>3, <1>4, <3>3 DEF HistoryInv, HistoryFits
    <3> QED BY <3>1, <3>2, <3>3
  <2>2. Exists(s)'
    BY <1>3, <1>6, StatusNames DEF Exists
  <2> QED BY <1>3, <1>5, <2>1, <2>2 DEF HistoryInv, HistoryFits, Exists
<1>9. n \in Nat /\ \A a : \A i \in At(s, a) : i \in Nat /\ i < n
  BY <1>4, <1>n
<1>10. ApprovedAfterSubmission'
  <2> SUFFICES ASSUME NEW t \in Sheets, NEW j \in At(t, "APPROVE")'
               PROVE  \E i \in At(t, "SUBMIT")' : i < j
    BY DEF ApprovedAfterSubmission
  <2>1. CASE j \in At(t, "APPROVE")
    BY <1>4, <1>5, <2>1 DEF HistoryInv, ApprovedAfterSubmission
  <2>2. CASE j \notin At(t, "APPROVE")
    <3>1. t = s /\ q.action = "APPROVE" /\ j = n
      BY <1>4, <1>5, <2>2
    <3> QED BY <1>4, <1>7, <1>9, <3>1
  <2> QED BY <2>1, <2>2
<1>11. PaidAfterApproval'
  <2> SUFFICES ASSUME NEW t \in Sheets, NEW k \in At(t, "PAYROLL_PROCESSED")'
               PROVE  \E i \in At(t, "SUBMIT")', j \in At(t, "APPROVE")' : i < j /\ j < k
    BY DEF PaidAfterApproval
  <2>1. CASE k \in At(t, "PAYROLL_PROCESSED")
    BY <1>4, <1>5, <2>1 DEF HistoryInv, PaidAfterApproval
  <2>2. CASE k \notin At(t, "PAYROLL_PROCESSED")
    <3>1. t = s /\ q.action = "PAYROLL_PROCESSED" /\ k = n
      BY <1>4, <1>5, <2>2
    <3>2. PICK j \in At(s, "APPROVE") : TRUE
      BY <1>7, <3>1
    <3>3. PICK i \in At(s, "SUBMIT") : i < j
      BY <1>2 DEF HistoryInv, ApprovedAfterSubmission
    <3> QED BY <1>4, <1>9, <3>1, <3>3
  <2> QED BY <2>1, <2>2
<1>12. PayrollMarkKept'
  <2>1. doc'[s].payrollId # NoPayroll <=> At(s, "PAYROLL_PROCESSED")' # {}
    <3>1. doc[s].payrollId # NoPayroll <=> At(s, "PAYROLL_PROCESSED") # {}
      BY <1>2 DEF HistoryInv, PayrollMarkKept
    <3>2. q.old.payrollId # NoPayroll => At(s, "PAYROLL_PROCESSED") # {}
      BY <1>2 DEF Marked
    <3>3. CASE q.action = "PAYROLL_PROCESSED"
      <4>1. doc'[s].payrollId # NoPayroll
        BY <1>2, <1>3, <3>1, <3>2, <3>3 DEF Marked, Set
      <4> QED BY <1>4, <3>3, <4>1
    <3>4. CASE q.action # "PAYROLL_PROCESSED"
      <4>1. doc'[s].payrollId = doc[s].payrollId
        BY <1>2, <1>3, <3>4 DEF Marked, Set
      <4> QED BY <1>4, <3>1, <3>4, <4>1
    <3> QED BY <3>3, <3>4
  <2> QED BY <1>3, <1>5, <2>1 DEF HistoryInv, PayrollMarkKept
<1>13. \A t \in Sheets : /\ StatusesSeen(t) \subseteq StatusesSeen(t)'
                         /\ \A a : At(t, a) \subseteq At(t, a)'
  BY <1>4, <1>5
<1>14. PendingHistory'
  BY <1>1, <1>3, <1>13, HistoryGrows DEF HistoryInv
<1> QED BY <1>8, <1>10, <1>11, <1>12, <1>14 DEF HistoryInv

LEMMA HistoryStep == HistoryInv /\ [Next]_vars => HistoryInv'
<1> SUFFICES ASSUME HistoryInv, [Next]_vars PROVE HistoryInv'
  OBVIOUS
<1>1. StatusInv' /\ TypeOK
  BY StatusStep DEF HistoryInv, StatusInv
<1>2. ASSUME NEW r \in Requests, NEW k \in Keys, FindForCreate(r, k) PROVE HistoryInv'
  <2>1. UNCHANGED <<doc, audit>> /\ req' = [req EXCEPT ![r] = Inserting(k)]
    BY <1>2 DEF FindForCreate, Start
  <2>2. Inserting(k).phase # "saving"
    BY DEF Inserting
  <2> QED BY <1>1, <2>1, <2>2, HistoryUnchanged DEF TypeOK
<1>3. ASSUME NEW r \in Requests, NEW s \in Sheets, InsertCreated(r, s) PROVE HistoryInv'
  BY <1>1, <1>3, HistoryInsert
<1>4. ASSUME NEW r \in Requests, NEW s \in Sheets, ReadStep(r, s) PROVE HistoryInv'
  <2>1. UNCHANGED <<doc, audit>>
    BY <1>4, ReadStoresNothing
  <2>2. Earned(req'[r]) /\ Marked(req'[r]) /\ \A r2 \in Requests \ {r} : req'[r2] = req[r2]
    BY <1>4, ReadPending, ReadHistory DEF HistoryInv
  <2> QED BY <1>1, <2>1, <2>2, HistoryUnchanged
<1>5. ASSUME NEW r \in Requests, Save(r) PROVE HistoryInv'
  BY <1>1, <1>5, HistorySave
<1>6. ASSUME NEW r \in Requests, Enqueue(r) \/ Reply(r) \/ Abort(r) PROVE HistoryInv'
  <2>1. UNCHANGED <<doc, audit>> /\ req'[r].phase # "saving"
        /\ \A r2 \in Requests \ {r} : req'[r2] = req[r2]
    BY <1>1, <1>6, NothingStored
  <2> QED BY <1>1, <2>1, HistoryUnchanged
<1>7. CASE UNCHANGED vars
  BY <1>1, <1>7, HistoryUnchanged DEF vars
<1> QED BY <1>2, <1>3, <1>4, <1>5, <1>6, <1>7 DEF Next

LEMMA HistoryInvariant == Spec => []HistoryInv
BY HistoryInit, HistoryStep, PTL DEF Spec

\* However many requests overlap, a timesheet goes through payroll only after
\* an approval that came after a submission.
THEOREM PaymentsFollowApproval == Spec => []PaidAfterApproval
<1>1. HistoryInv => PaidAfterApproval
  BY DEF HistoryInv
<1> QED BY <1>1, HistoryInvariant, PTL

\* However many requests overlap, payrollId tells whether a timesheet ever went
\* through payroll.
THEOREM MarkIsKept == Spec => []PayrollMarkKept
<1>1. HistoryInv => PayrollMarkKept
  BY DEF HistoryInv
<1> QED BY <1>1, HistoryInvariant, PTL

-----------------------------------------------------------------------------
\* A step that changes the status or the statuses seen creates a timesheet, or
\* saves the status that the waiting operation stands for.
LEMMA StatusChange ==
    ASSUME HistoryInv, [Next]_vars,
           ~ UNCHANGED <<[s \in Sheets |-> doc[s].status],
                         [s \in Sheets |-> StatusesSeen(s)]>>
    PROVE  \E s \in Sheets :
              \/ Lifecycle!Create(s)
              \/ \E r \in Requests : /\ req[r].phase = "saving" /\ req[r].sheet = s
                                     /\ req[r].action \in StatusActions
                                     /\ Lifecycle!SetStatus(s, StatusOf[req[r].action])
<1> DEFINE Change ==
             \E s \in Sheets :
                \/ Lifecycle!Create(s)
                \/ \E r \in Requests : /\ req[r].phase = "saving" /\ req[r].sheet = s
                                       /\ req[r].action \in StatusActions
                                       /\ Lifecycle!SetStatus(s, StatusOf[req[r].action])
<1>1. StatusInv /\ TypeOK
  BY DEF HistoryInv, StatusInv
<1>2. CASE UNCHANGED <<doc, audit>>
  BY <1>2 DEF StatusesSeen
<1>3. ASSUME NEW s \in Sheets, NEW to,
             doc'[s].status = to, StatusesSeen(s)' = StatusesSeen(s) \cup {to},
             \A t \in Sheets \ {s} : doc'[t] = doc[t] /\ audit'[t] = audit[t]
      PROVE  Lifecycle!SetStatus(s, to)
  <2>1. \A t \in Sheets \ {s} : StatusesSeen(t)' = StatusesSeen(t)
    BY <1>3 DEF StatusesSeen
  <2> QED BY <1>3, <2>1 DEF Lifecycle!SetStatus
<1>4. ASSUME NEW r \in Requests, NEW s \in Sheets, InsertCreated(r, s) PROVE Change
  <2>1. /\ doc[s].status = "none" /\ audit[s] = <<>>
        /\ doc'[s] = NewDoc /\ audit'[s] = <<"CREATE">>
        /\ \A t \in Sheets \ {s} : doc'[t] = doc[t] /\ audit'[t] = audit[t]
    BY <1>1, <1>4 DEF InsertCreated, Exists, TypeOK, HistoryInv, HistoryFits
  <2>2. StatusesSeen(s) = {} /\ StatusesSeen(s)' = {"draft"}
    <3>1. DOMAIN audit[s] = {}
      BY <2>1
    <3>2. DOMAIN audit'[s] = {1} /\ audit'[s][1] = "CREATE"
      BY <2>1
    <3> QED BY <3>1, <3>2, StatusNames DEF StatusesSeen
  <2>3. Lifecycle!SetStatus(s, "draft")
    BY <1>3, <2>1, <2>2 DEF NewDoc, NoDoc
  <2>4. Lifecycle!Create(s)
    BY <2>1, <2>3 DEF Lifecycle!Create
  <2> QED BY <2>4
<1>5. ASSUME NEW r \in Requests, Save(r) PROVE Change
  <2>1. PICK q, s :
           /\ q = req[r] /\ s = q.sheet
           /\ s \in Sheets /\ q.action \in Actions
           /\ doc'[s].status = IF q.action \in StatusActions THEN StatusOf[q.action]
                               ELSE doc[s].status
           /\ \A t \in Sheets \ {s} : doc'[t] = doc[t] /\ audit'[t] = audit[t]
           /\ audit'[s] = Append(audit[s], q.action)
    BY <1>1, <1>5, SaveEffect DEF SavingRecord, HistoryInv, PendingHistory, Save
  <2>2. StatusesSeen(s)' = StatusesSeen(s)
                   \cup (IF q.action \in StatusActions THEN {StatusOf[q.action]} ELSE {})
    BY <1>1, <2>1, AtAppend DEF TypeOK
  <2>3. q.action \in StatusActions
    <3>1. SUFFICES ASSUME q.action \notin StatusActions PROVE FALSE
      OBVIOUS
    <3>2. \A t \in Sheets : doc'[t].status = doc[t].status
      BY <2>1, <3>1
    <3>3. \A t \in Sheets : StatusesSeen(t)' = StatusesSeen(t)
      <4>1. \A t \in Sheets \ {s} : StatusesSeen(t)' = StatusesSeen(t)
        BY <2>1 DEF StatusesSeen
      <4> QED BY <2>2, <3>1, <4>1
    <3> QED BY <3>2, <3>3
  <2>4. Lifecycle!SetStatus(s, StatusOf[q.action])
    BY <1>3, <2>1, <2>2, <2>3
  <2>5. /\ req[r].phase = "saving" /\ req[r].sheet = s /\ req[r].action \in StatusActions
        /\ Lifecycle!SetStatus(s, StatusOf[req[r].action])
    BY <1>5, <2>1, <2>3, <2>4 DEF Save, Lifecycle!SetStatus
  <2> QED BY <2>1, <2>5
<1>6. ASSUME NEW r \in Requests, NEW s \in Sheets, ReadStep(r, s) PROVE UNCHANGED <<doc, audit>>
  BY <1>6, ReadStoresNothing
<1>7. ASSUME NEW r \in Requests, NEW k \in Keys, FindForCreate(r, k)
      PROVE  UNCHANGED <<doc, audit>>
  BY <1>7 DEF FindForCreate, Start
<1> QED BY <1>2, <1>4, <1>5, <1>6, <1>7 DEF Next, Enqueue, Reply, Abort, vars

\* A step of the service is a step of the lifecycle, or none.
LEMMA StepRefines ==
    HistoryInv /\ [Next]_vars => [Lifecycle!Next]_Lifecycle!vars
<1> SUFFICES ASSUME HistoryInv, [Next]_vars,
                    ~ UNCHANGED <<[s \in Sheets |-> doc[s].status],
                                  [s \in Sheets |-> StatusesSeen(s)]>>
             PROVE  Lifecycle!Next
  BY DEF Lifecycle!vars
<1>1. ASSUME NEW s \in Sheets, NEW r \in Requests, req[r].phase = "saving",
             req[r].sheet = s, req[r].action \in StatusActions,
             Lifecycle!SetStatus(s, StatusOf[req[r].action])
      PROVE  \E m \in Moves : Lifecycle!Move(s, m)
  <2>1. PICK m \in Moves : m.from \in StatusesSeen(s) /\ m.to = StatusOf[req[r].action]
    BY <1>1 DEF HistoryInv, PendingHistory, Earned
  <2> QED BY <1>1, <2>1 DEF Lifecycle!Move, Lifecycle!SetStatus
<1> QED BY <1>1, StatusChange DEF Lifecycle!Next

\* The service implements the lifecycle of statuses: however many requests
\* overlap, an operation writes a status only after the one it asks for.
THEOREM TimesheetRefinesLifecycle == Spec => ImplementsLifecycle
<1>1. Init => Lifecycle!Init
  <2> SUFFICES ASSUME Init PROVE Lifecycle!Init
    OBVIOUS
  <2>1. \A s \in Sheets : doc[s].status = "none" /\ StatusesSeen(s) = {}
    BY DEF Init, NoDoc, StatusesSeen
  <2> QED BY <2>1 DEF Lifecycle!Init
<1> QED BY <1>1, HistoryInvariant, StepRefines, PTL DEF Spec, ImplementsLifecycle, Lifecycle!Spec

-----------------------------------------------------------------------------
(***************************************************************************)
(* The total hours.  A request computes the total from the entries of its  *)
(* copy, and entries are only ever added at the end: what it computed      *)
(* stays a total of the first entries and of the one it adds.              *)
(***************************************************************************)

\* t is the total of the first entries, and at most one later one.
KnownTotal(es, t) ==
    \E k \in 0..Len(es) :
        \/ t = Total(SubSeq(es, 1, k))
        \/ \E j \in k+1..Len(es) : t = Total(SubSeq(es, 1, k)) + Hours(es[j])

LEMMA PrefixOfLonger ==
    ASSUME NEW S, NEW es \in Seq(S), NEW p \in Seq(S), NEW k \in 0..Len(es)
    PROVE  SubSeq(es \o p, 1, k) = SubSeq(es, 1, k)
<1>1. CASE k = 0
  BY <1>1, SubSeqEmpty
<1>2. CASE k # 0
  <2>1. 1 \in 1..Len(es) /\ k \in 1..Len(es)
    BY <1>2
  <2> QED BY <2>1, SubSeqOfConcat1
<1> QED BY <1>1, <1>2

LEMMA TotalOfNothing == Total(<<>>) = 0
BY SumToStep DEF Total

LEMMA TotalOfOneMore ==
    ASSUME NEW es \in Seq(EntryKinds), NEW e \in EntryKinds
    PROVE  Total(Append(es, e)) = Total(es) + Hours(e)
<1> DEFINE h == [i \in DOMAIN es |-> Hours(es[i])]
           f == [i \in DOMAIN Append(es, e) |-> Hours(Append(es, e)[i])]
           n == Len(es)
<1>1. n \in Nat /\ DOMAIN es = 1..n /\ Len(Append(es, e)) = n + 1
      /\ DOMAIN Append(es, e) = 1..n+1
  OBVIOUS
<1>2. \A i \in 1..n : h[i] \in Int /\ f[i] = h[i]
  BY <1>1, HoursType
<1>3. f[n+1] = Hours(e)
  BY <1>1
<1> HIDE DEF h, f, n
<1>4. SumTo(f, n + 1) = SumTo(f, n) + f[n+1]
  BY <1>1, <1>2, SumToStep
<1>5. SumTo(f, n) = SumTo(h, n)
  BY <1>1, <1>2, SumToAgrees
<1> QED BY <1>1, <1>3, <1>4, <1>5 DEF Total, h, f, n

\* More entries do not make a known total unknown.
LEMMA KnownGrows ==
    ASSUME NEW es \in Seq(EntryKinds), NEW p \in Seq(EntryKinds), NEW t, KnownTotal(es, t)
    PROVE  KnownTotal(es \o p, t)
<1>1. PICK k \in 0..Len(es) :
          \/ t = Total(SubSeq(es, 1, k))
          \/ \E j \in k+1..Len(es) : t = Total(SubSeq(es, 1, k)) + Hours(es[j])
  BY DEF KnownTotal
<1>2. SubSeq(es \o p, 1, k) = SubSeq(es, 1, k)
  BY PrefixOfLonger
<1>3. /\ Len(es \o p) = Len(es) + Len(p) /\ Len(es) \in Nat /\ Len(p) \in Nat
      /\ \A j \in 1..Len(es) : (es \o p)[j] = es[j]
  OBVIOUS
<1>4. k \in 0..Len(es \o p) /\ k+1..Len(es) \subseteq 1..Len(es)
      /\ k+1..Len(es) \subseteq k+1..Len(es \o p)
  BY <1>3
<1> QED BY <1>1, <1>2, <1>3, <1>4 DEF KnownTotal

\* The total of the first entries and what a request adds to them.
FromCopy(es, pushed, t) == \E k \in 0..Len(es) : t = Total(SubSeq(es, 1, k) \o pushed)

\* A request pushes at most one entry.
Pushes(pushed) == pushed = <<>> \/ \E e \in EntryKinds : pushed = <<e>>

\* Once it is pushed, the total is a known one.
LEMMA PushedIsKnown ==
    ASSUME NEW es \in Seq(EntryKinds), NEW p \in Seq(EntryKinds), Pushes(p),
           NEW t, FromCopy(es, p, t)
    PROVE  KnownTotal(es \o p, t)
<1>1. PICK k \in 0..Len(es) : t = Total(SubSeq(es, 1, k) \o p)
  BY DEF FromCopy
<1>2. SubSeq(es \o p, 1, k) = SubSeq(es, 1, k) /\ SubSeq(es, 1, k) \in Seq(EntryKinds)
  <2>1. \A i \in 1..k : es[i] \in EntryKinds
    OBVIOUS
  <2> QED BY <2>1, PrefixOfLonger, SubSeqProperties
<1>3. CASE p = <<>>
  <2>1. SubSeq(es, 1, k) \o p = SubSeq(es, 1, k) /\ k \in 0..Len(es \o p)
    BY <1>2, <1>3, ConcatEmptySeq
  <2> QED BY <1>1, <1>2, <2>1 DEF KnownTotal
<1>4. ASSUME NEW e \in EntryKinds, p = <<e>> PROVE KnownTotal(es \o p, t)
  <2>1. t = Total(SubSeq(es, 1, k)) + Hours(e)
    <3>1. PICK first \in Seq(EntryKinds) : first = SubSeq(es, 1, k)
      BY <1>2
    <3>2. t = Total(first \o <<e>>)
      BY <1>1, <1>4, <3>1
    <3>3. first \o <<e>> = Append(first, e)
      BY AppendIsConcat
    <3> QED BY <3>1, <3>2, <3>3, TotalOfOneMore
  <2>2. /\ Len(es \o p) = Len(es) + 1 /\ Len(es) \in Nat
        /\ (es \o p)[Len(es) + 1] = e
    BY <1>4
  <2>3. k \in 0..Len(es \o p) /\ Len(es) + 1 \in k+1..Len(es \o p)
    BY <2>2
  <2> QED BY <1>2, <2>1, <2>2, <2>3 DEF KnownTotal
<1> QED BY <1>3, <1>4 DEF Pushes

\* A total computed from a copy is one that a later copy may have computed too.
LEMMA FromCopyGrows ==
    ASSUME NEW es \in Seq(EntryKinds), NEW p \in Seq(EntryKinds),
           NEW pushed, NEW t, FromCopy(es, pushed, t)
    PROVE  FromCopy(es \o p, pushed, t)
<1>1. PICK k \in 0..Len(es) : t = Total(SubSeq(es, 1, k) \o pushed)
  BY DEF FromCopy
<1>2. SubSeq(es \o p, 1, k) = SubSeq(es, 1, k) /\ k \in 0..Len(es \o p)
  BY PrefixOfLonger
<1> QED BY <1>1, <1>2 DEF FromCopy

\* What an operation asks of the copy it has read.
Asked(action, d) ==
    /\ action \in {"ADD_ENTRY", "CLOCK_EVENT", "SUBMIT"} => d.status = "draft"
    /\ action \in {"APPROVE", "REJECT"} => d.status = "submitted"
    /\ action = "PAYROLL_PROCESSED" => d.status = "approved"
    /\ action = "DELETE" => ~ d.isDeleted
    /\ action = "RESTORE" => d.isDeleted

\* Every operation is a read that asks this of the copy; the one that adds an
\* entry computes the total, the others leave it.
LEMMA ReadCases ==
    ASSUME TypeOK, NEW r \in Requests, NEW s \in Sheets, ReadStep(r, s)
    PROVE  \E action \in Actions \ {"CREATE"}, new \in Doc, pushed \in Seq(EntryKinds) :
              /\ Read(r, s, action, new, pushed)
              /\ Asked(action, doc[s])
              /\ Pushes(pushed)
              /\ pushed # <<>> => action = "ADD_ENTRY"
              /\ pushed = <<>> => new.total = doc[s].total
<1> USE DEF Actions
<1>1. doc[s] \in Doc /\ entries[s] \in Seq(EntryKinds)
  BY DEF TypeOK
<1>2. <<>> \in Seq(EntryKinds) /\ Pushes(<<>>)
  BY DEF Pushes
<1>3. ASSUME NEW e \in EntryKinds, ReadAddTimeEntry(r, s, e)
      PROVE  \E new \in Doc : /\ Read(r, s, "ADD_ENTRY", new, <<e>>)
                              /\ doc[s].status = "draft"
  <2> DEFINE new == [doc[s] EXCEPT !.total = Total(Append(entries[s], e))]
  <2>1. new \in Doc
    <3>1. Append(entries[s], e) \in Seq(EntryKinds)
      BY <1>1
    <3> QED BY <1>1, <3>1, TotalType DEF Doc
  <2>2. Read(r, s, "ADD_ENTRY", new, <<e>>) /\ doc[s].status = "draft"
    BY <1>3 DEF ReadAddTimeEntry
  <2> HIDE DEF new
  <2> QED BY <2>1, <2>2
<1>4. ASSUME NEW e \in EntryKinds
      PROVE  <<e>> \in Seq(EntryKinds) /\ Pushes(<<e>>) /\ <<e>> # <<>>
  BY DEF Pushes
<1>5. ASSUME NEW st \in Statuses, NEW p \in Payrolls
      PROVE  /\ [doc[s] EXCEPT !.status = st, !.payrollId = p] \in Doc
             /\ [doc[s] EXCEPT !.status = st, !.payrollId = p].total = doc[s].total
  BY <1>1 DEF Doc
<1>6. ASSUME NEW st \in Statuses, NEW del \in BOOLEAN
      PROVE  /\ [doc[s] EXCEPT !.status = st] \in Doc
             /\ [doc[s] EXCEPT !.status = st].total = doc[s].total
             /\ [doc[s] EXCEPT !.status = st, !.isDeleted = del] \in Doc
             /\ [doc[s] EXCEPT !.status = st, !.isDeleted = del].total = doc[s].total
  BY <1>1 DEF Doc
<1>7. CASE \E e \in EntryKinds : ReadAddTimeEntry(r, s, e)
  <2>1. PICK e \in EntryKinds, new \in Doc :
            Read(r, s, "ADD_ENTRY", new, <<e>>) /\ doc[s].status = "draft"
    BY <1>3, <1>7
  <2>2. Asked("ADD_ENTRY", doc[s])
    BY <2>1 DEF Asked
  <2> QED BY <1>4, <2>1, <2>2
<1>8. ASSUME NEW action \in Actions \ {"CREATE"}, NEW new \in Doc,
             Read(r, s, action, new, <<>>), Asked(action, doc[s]), new.total = doc[s].total
      PROVE  \E a \in Actions \ {"CREATE"}, n \in Doc, pushed \in Seq(EntryKinds) :
                /\ Read(r, s, a, n, pushed)
                /\ Asked(a, doc[s])
                /\ Pushes(pushed)
                /\ pushed # <<>> => a = "ADD_ENTRY"
                /\ pushed = <<>> => n.total = doc[s].total
  BY <1>2, <1>8
<1>9. CASE ReadRecordClockEvent(r, s)
  <2>1. Asked("CLOCK_EVENT", doc[s]) /\ Read(r, s, "CLOCK_EVENT", doc[s], <<>>)
    BY <1>9 DEF ReadRecordClockEvent, Asked
  <2> QED BY <1>1, <1>8, <2>1
<1>10. CASE ReadVerifyClockEvent(r, s)
  <2>1. Asked("VERIFY_CLOCK_EVENT", doc[s]) /\ Read(r, s, "VERIFY_CLOCK_EVENT", doc[s], <<>>)
    BY <1>10 DEF ReadVerifyClockEvent, Asked
  <2> QED BY <1>1, <1>8, <2>1
<1>11. CASE ReadSubmitTimesheet(r, s)
  <2>1. /\ Asked("SUBMIT", doc[s])
        /\ Read(r, s, "SUBMIT", [doc[s] EXCEPT !.status = "submitted"], <<>>)
    BY <1>11 DEF ReadSubmitTimesheet, Asked
  <2> QED BY <1>6, <1>8, <2>1 DEF Statuses
<1>12. CASE ReadApproveTimesheet(r, s)
  <2>1. /\ Asked("APPROVE", doc[s])
        /\ Read(r, s, "APPROVE", [doc[s] EXCEPT !.status = "approved"], <<>>)
    BY <1>12 DEF ReadApproveTimesheet, Asked
  <2> QED BY <1>6, <1>8, <2>1 DEF Statuses
<1>13. CASE ReadRejectTimesheet(r, s)
  <2>1. /\ Asked("REJECT", doc[s])
        /\ Read(r, s, "REJECT", [doc[s] EXCEPT !.status = "rejected"], <<>>)
    BY <1>13 DEF ReadRejectTimesheet, Asked
  <2> QED BY <1>6, <1>8, <2>1 DEF Statuses
<1>14. CASE ReadSoftDeleteTimesheet(r, s)
  <2>1. /\ Asked("DELETE", doc[s])
        /\ Read(r, s, "DELETE",
                [doc[s] EXCEPT !.status = "deleted", !.isDeleted = TRUE], <<>>)
    BY <1>14 DEF ReadSoftDeleteTimesheet, Asked
  <2> QED BY <1>6, <1>8, <2>1 DEF Statuses
<1>15. CASE ReadRestoreTimesheet(r, s)
  <2>1. /\ Asked("RESTORE", doc[s])
        /\ Read(r, s, "RESTORE",
                [doc[s] EXCEPT !.status = "draft", !.isDeleted = FALSE], <<>>)
    BY <1>15 DEF ReadRestoreTimesheet, Asked
  <2> QED BY <1>6, <1>8, <2>1 DEF Statuses
<1>16. ASSUME NEW p \in Payrolls, ReadMarkPayrollProcessed(r, s, p)
       PROVE  /\ Asked("PAYROLL_PROCESSED", doc[s])
              /\ Read(r, s, "PAYROLL_PROCESSED",
                      [doc[s] EXCEPT !.status = "paid", !.payrollId = p], <<>>)
  BY <1>16 DEF ReadMarkPayrollProcessed, Asked
<1>17. CASE \E p \in Payrolls : ReadMarkPayrollProcessed(r, s, p)
  BY <1>5, <1>8, <1>16, <1>17 DEF Statuses
<1> QED
  BY <1>7, <1>9, <1>10, <1>11, <1>12, <1>13, <1>14, <1>15, <1>17 DEF ReadStep

\* What a waiting save does to the total, if anything.
PendingTotal(q) ==
    /\ Pushes(q.pushed)
    /\ q.new.total = q.old.total \/ FromCopy(entries[q.sheet], q.pushed, q.new.total)

TotalInv == /\ TypeOK
            /\ \A s \in Sheets : KnownTotal(entries[s], doc[s].total)
            /\ \A r \in Requests : req[r].phase = "saving" => PendingTotal(req[r])

LEMMA TotalInit == Init => TotalInv
<1> SUFFICES ASSUME Init PROVE TotalInv
  OBVIOUS
<1>1. KnownTotal(<<>>, 0)
  <2>1. PICK es : es = <<>>
    OBVIOUS
  <2>2. SubSeq(es, 1, 0) = es /\ Total(es) = 0 /\ 0 \in 0..Len(es)
    BY <2>1, SubSeqEmpty, TotalOfNothing
  <2>3. KnownTotal(es, 0)
    BY <2>2 DEF KnownTotal
  <2> QED BY <2>1, <2>3
<1>2. \A s \in Sheets : entries[s] = <<>> /\ doc[s].total = 0
  BY DEF Init, NoDoc
<1>3. \A r \in Requests : req[r].phase # "saving"
  BY DEF Init, Idle
<1> QED BY <1>1, <1>2, <1>3, TypeInit DEF TotalInv

\* A read leaves a save that writes the total of what it saw and adds.
LEMMA ReadTotal ==
    ASSUME TypeOK, NEW r \in Requests, NEW s \in Sheets, ReadStep(r, s)
    PROVE  /\ PendingTotal(req'[r])
           /\ Asked(req'[r].action, req'[r].old)
           /\ req'[r].pushed # <<>> => req'[r].action = "ADD_ENTRY"
           /\ req'[r].old = doc[s] /\ req'[r].sheet = s
           /\ req'[r].new.total = Total(entries[s] \o req'[r].pushed)
              \/ (/\ req'[r].new.total = doc[s].total
                  /\ entries[s] = <<>> /\ req'[r].pushed = <<>>)
           /\ \A r2 \in Requests \ {r} : req'[r2] = req[r2]
           /\ UNCHANGED <<key, doc, entries, audit, approvals>>
<1>1. PICK action \in Actions \ {"CREATE"}, new \in Doc, pushed \in Seq(EntryKinds) :
          /\ Read(r, s, action, new, pushed)
          /\ Asked(action, doc[s])
          /\ Pushes(pushed)
          /\ pushed # <<>> => action = "ADD_ENTRY"
          /\ pushed = <<>> => new.total = doc[s].total
  BY ReadCases
<1>2. /\ req'[r] = Saving(s, action, new, pushed)
      /\ \A r2 \in Requests \ {r} : req'[r2] = req[r2]
      /\ UNCHANGED <<key, doc, entries, audit, approvals>>
  BY <1>1 DEF Read, Start, TypeOK
<1>3. PICK es \in Seq(EntryKinds) : es = entries[s]
  BY DEF TypeOK
<1>4. /\ req'[r].sheet = s /\ req'[r].action = action /\ req'[r].old = doc[s]
      /\ req'[r].pushed = pushed
      /\ req'[r].new = PreSave(new, es \o pushed)
  BY <1>2, <1>3 DEF Saving
<1>5. CASE es \o pushed = <<>>
  <2>1. pushed = <<>> /\ es = <<>>
    BY <1>5, ConcatEqualIffEmpty
  <2>2. req'[r].new.total = doc[s].total
    BY <1>1, <1>4, <1>5, <2>1 DEF PreSave
  <2> QED BY <1>1, <1>2, <1>3, <1>4, <2>1, <2>2 DEF PendingTotal
<1>6. CASE es \o pushed # <<>>
  <2>1. req'[r].new.total = Total(es \o pushed)
    BY <1>4, <1>6 DEF PreSave, Doc
  <2>2. FromCopy(es, pushed, Total(es \o pushed))
    <3>1. SubSeq(es, 1, Len(es)) = es /\ Len(es) \in 0..Len(es)
      BY SubSeqFull
    <3> QED BY <3>1 DEF FromCopy
  <2> QED BY <1>1, <1>2, <1>3, <1>4, <2>1, <2>2 DEF PendingTotal
<1> QED BY <1>5, <1>6

\* What a save does to the entries and the total.
LEMMA SaveTotal ==
    ASSUME TypeOK, NEW r \in Requests, Save(r)
    PROVE  LET q == req[r]
               s == q.sheet
           IN  /\ q \in SavingRecord
               /\ entries'[s] = entries[s] \o q.pushed
               /\ doc'[s].total = Set(doc[s].total, q.old.total, q.new.total)
               /\ \A t \in Sheets \ {s} : doc'[t] = doc[t] /\ entries'[t] = entries[t]
               /\ req'[r].phase # "saving"
               /\ \A r2 \in Requests \ {r} : req'[r2] = req[r2]
<1>1. req[r] \in SavingRecord
  BY DEF TypeOK, RequestRecord, SavingRecord, Save
<1>2. PICK q, s : q = req[r] /\ s = q.sheet /\ s \in Sheets
  BY <1>1 DEF SavingRecord
<1>3. /\ doc' = [doc EXCEPT ![s] = Merge(@, q.old, q.new)]
      /\ entries' = [entries EXCEPT ![s] = @ \o q.pushed]
      /\ req'[r].phase # "saving"
      /\ \A r2 \in Requests \ {r} : req'[r2] = req[r2]
  BY <1>2 DEF Save, TypeOK
<1>4. doc'[s] = Merge(doc[s], q.old, q.new) /\ entries'[s] = entries[s] \o q.pushed
      /\ \A t \in Sheets \ {s} : doc'[t] = doc[t] /\ entries'[t] = entries[t]
  BY <1>2, <1>3 DEF TypeOK
<1>5. doc'[s].total = Set(doc[s].total, q.old.total, q.new.total)
  BY <1>4 DEF Merge
<1> QED BY <1>1, <1>2, <1>3, <1>4, <1>5

\* Only a save touches the entries of a timesheet, and it adds some at the end.
LEMMA EntriesOnlyGrow ==
    ASSUME TypeOK, [Next]_vars, NEW s \in Sheets
    PROVE  \E p \in Seq(EntryKinds) : entries'[s] = entries[s] \o p
<1>1. CASE UNCHANGED entries
  <2>1. <<>> \in Seq(EntryKinds) /\ entries[s] \in Seq(EntryKinds)
    BY DEF TypeOK
  <2>2. entries'[s] = entries[s] \o <<>>
    BY <1>1, <2>1, ConcatEmptySeq
  <2> QED BY <2>1, <2>2
<1>2. ASSUME NEW r \in Requests, Save(r)
      PROVE  UNCHANGED entries[s] \/ \E p \in Seq(EntryKinds) : entries'[s] = entries[s] \o p
  BY <1>2, SaveTotal DEF SavingRecord
<1>3. ASSUME NEW r \in Requests, NEW t \in Sheets, ReadStep(r, t) PROVE UNCHANGED entries
  BY <1>3, ReadTotal
<1>4. ASSUME UNCHANGED entries[s] PROVE \E p \in Seq(EntryKinds) : entries'[s] = entries[s] \o p
  <2>1. <<>> \in Seq(EntryKinds) /\ entries[s] \in Seq(EntryKinds)
    BY DEF TypeOK
  <2> QED BY <1>4, <2>1, ConcatEmptySeq
<1> QED BY <1>1, <1>2, <1>3, <1>4
        DEF Next, FindForCreate, Start, InsertCreated, Enqueue, Reply, Abort, vars

\* A step that adds entries at the end, leaves in each slot a save that was
\* there or one that satisfies PendingTotal, and writes known totals, keeps the
\* invariant.
LEMMA TotalsKept ==
    ASSUME TotalInv, TypeOK',
           \A s \in Sheets : \E p \in Seq(EntryKinds) : entries'[s] = entries[s] \o p,
           \A s \in Sheets : doc'[s].total = doc[s].total \/ KnownTotal(entries'[s], doc'[s].total),
           \A r \in Requests : req'[r].phase = "saving" =>
               req'[r] = req[r] \/ PendingTotal(req[r])'
    PROVE  TotalInv'
<1>1. ASSUME NEW s \in Sheets PROVE KnownTotal(entries'[s], doc'[s].total)
  <2>1. PICK p \in Seq(EntryKinds) : entries'[s] = entries[s] \o p
    OBVIOUS
  <2>2. entries[s] \in Seq(EntryKinds) /\ KnownTotal(entries[s], doc[s].total)
    BY DEF TotalInv, TypeOK
  <2>3. KnownTotal(entries[s] \o p, doc[s].total)
    BY <2>2, KnownGrows
  <2> QED BY <2>1, <2>3
<1>2. ASSUME NEW r \in Requests, req'[r].phase = "saving" PROVE PendingTotal(req[r])'
  <2>1. CASE req'[r] = req[r]
    <3>1. PICK q \in SavingRecord : q = req[r] /\ q = req'[r] /\ PendingTotal(q)
      BY <1>2, <2>1 DEF TotalInv, TypeOK, RequestRecord, SavingRecord
    <3>2. q.sheet \in Sheets
      BY DEF SavingRecord
    <3>3. PICK p \in Seq(EntryKinds) : entries'[q.sheet] = entries[q.sheet] \o p
      BY <3>2
    <3>4. entries[q.sheet] \in Seq(EntryKinds)
      BY <3>2 DEF TotalInv, TypeOK
    <3>5. FromCopy(entries[q.sheet], q.pushed, q.new.total)
              => FromCopy(entries'[q.sheet], q.pushed, q.new.total)
      BY <3>3, <3>4, FromCopyGrows
    <3> QED BY <3>1, <3>5 DEF PendingTotal
  <2> QED BY <1>2, <2>1
<1> QED BY <1>1, <1>2 DEF TotalInv

LEMMA TotalStep == TotalInv /\ [Next]_vars => TotalInv'
<1> SUFFICES ASSUME TotalInv, [Next]_vars PROVE TotalInv'
  OBVIOUS
<1>1. TypeOK /\ TypeOK'
  BY TypeStep DEF TotalInv
<1>2. \A s \in Sheets : \E p \in Seq(EntryKinds) : entries'[s] = entries[s] \o p
  BY <1>1, EntriesOnlyGrow
<1>3. ASSUME UNCHANGED doc,
             \A r \in Requests : req'[r].phase = "saving" => req'[r] = req[r]
      PROVE  TotalInv'
  BY <1>1, <1>2, <1>3, TotalsKept
<1>4. ASSUME NEW r \in Requests, NEW k \in Keys, FindForCreate(r, k) PROVE TotalInv'
  <2>1. UNCHANGED doc /\ req' = [req EXCEPT ![r] = Inserting(k)]
    BY <1>4 DEF FindForCreate, Start
  <2>2. Inserting(k).phase # "saving"
    BY DEF Inserting
  <2> QED BY <1>1, <1>3, <2>1, <2>2 DEF TypeOK
<1>5. ASSUME NEW r \in Requests, NEW s \in Sheets, InsertCreated(r, s) PROVE TotalInv'
  <2>1. /\ doc'[s].total = 0 /\ UNCHANGED entries
        /\ \A t \in Sheets \ {s} : doc'[t] = doc[t]
        /\ \A r2 \in Requests : req'[r2].phase = "saving" => req'[r2] = req[r2]
    BY <1>1, <1>5 DEF InsertCreated, NewDoc, NoDoc, TypeOK, Idle
  <2>2. PICK es \in Seq(EntryKinds) : es = entries'[s]
    BY <1>1 DEF TypeOK
  <2>3. SubSeq(es, 1, 0) = <<>> /\ 0 \in 0..Len(es)
    BY SubSeqEmpty
  <2>4. KnownTotal(es, 0)
    BY <2>3, TotalOfNothing DEF KnownTotal
  <2> QED BY <1>1, <1>2, <2>1, <2>2, <2>4, TotalsKept
<1>6. ASSUME NEW r \in Requests, NEW s \in Sheets, ReadStep(r, s) PROVE TotalInv'
  <2>1. /\ PendingTotal(req'[r])
        /\ \A r2 \in Requests \ {r} : req'[r2] = req[r2]
        /\ UNCHANGED <<doc, entries>>
    BY <1>1, <1>6, ReadTotal
  <2>2. PendingTotal(req[r])'
    BY <2>1 DEF PendingTotal
  <2> QED BY <1>1, <1>2, <2>1, <2>2, TotalsKept
<1>7. ASSUME NEW r \in Requests, Save(r) PROVE TotalInv'
  <2>1. PICK q \in SavingRecord :
            /\ q = req[r]
            /\ entries'[q.sheet] = entries[q.sheet] \o q.pushed
            /\ doc'[q.sheet].total = Set(doc[q.sheet].total, q.old.total, q.new.total)
            /\ \A t \in Sheets \ {q.sheet} : doc'[t] = doc[t] /\ entries'[t] = entries[t]
            /\ req'[r].phase # "saving"
            /\ \A r2 \in Requests \ {r} : req'[r2] = req[r2]
    BY <1>1, <1>7, SaveTotal
  <2>2. PendingTotal(q) /\ q.sheet \in Sheets /\ q.pushed \in Seq(EntryKinds)
    BY <1>7, <2>1 DEF TotalInv, Save, SavingRecord
  <2>3. CASE q.new.total = q.old.total
    <3>1. doc'[q.sheet].total = doc[q.sheet].total
      BY <2>1, <2>3 DEF Set
    <3> QED BY <1>1, <1>2, <2>1, <3>1, TotalsKept
  <2>4. CASE q.new.total # q.old.total
    <3>1. doc'[q.sheet].total = q.new.total
      BY <2>1, <2>4 DEF Set
    <3>2. entries[q.sheet] \in Seq(EntryKinds)
      BY <1>1, <2>2 DEF TypeOK
    <3>3. KnownTotal(entries'[q.sheet], q.new.total)
      BY <2>1, <2>2, <2>4, <3>2, PushedIsKnown DEF PendingTotal
    <3> QED BY <1>1, <1>2, <2>1, <3>1, <3>3, TotalsKept
  <2> QED BY <2>3, <2>4
<1>8. ASSUME NEW r \in Requests, Enqueue(r) \/ Reply(r) \/ Abort(r) PROVE TotalInv'
  <2>1. UNCHANGED <<doc, audit>> /\ req'[r].phase # "saving"
        /\ \A r2 \in Requests \ {r} : req'[r2] = req[r2]
    BY <1>1, <1>8, NothingStored
  <2> QED BY <1>3, <2>1
<1>9. CASE UNCHANGED vars
  BY <1>3, <1>9 DEF vars
<1> QED BY <1>4, <1>5, <1>6, <1>7, <1>8, <1>9 DEF Next

LEMMA TotalInvariant == Spec => []TotalInv
BY TotalInit, TotalStep, PTL DEF Spec

\* However many requests overlap, the stored total is the sum of entries that
\* some request knew of: the first ones, and at most one that it added itself.
THEOREM TotalsAreKnown == Spec => []TotalOfKnownEntries
<1>1. TotalInv => TotalOfKnownEntries
  BY DEF TotalInv, TotalOfKnownEntries, KnownTotal
<1> QED BY <1>1, TotalInvariant, PTL

-----------------------------------------------------------------------------
(***************************************************************************)
(* What comes after the draft.  While the last saved status is not draft   *)
(* no request reads a draft, so the entries that can still come are those  *)
(* of requests that had read one before: what has come late and what is on *)
(* its way are together fewer than the requests, one of which saved the    *)
(* end of the draft.                                                       *)
(***************************************************************************)
Adding(s) == {r \in Requests : /\ req[r].phase = "saving" /\ req[r].sheet = s
                               /\ req[r].action = "ADD_ENTRY"}

Late(s, i, k) == At(s, "ADD_ENTRY") \cap (i..k)

FewCome(s, i) == Cardinality(Late(s, i, Len(audit[s]))) + Cardinality(Adding(s))
                     < Cardinality(Requests)

Ended(s, i) == i \in DOMAIN audit[s] /\ AfterDraft(s, i, Len(audit[s]))

\* A clock event that the version check will let through was read in a draft.
PendingClock(q) ==
    q.action = "CLOCK_EVENT" =>
        /\ q.version <= Len(audit[q.sheet])
        /\ q.version = Len(audit[q.sheet]) => doc[q.sheet].status = "draft"

PendingClocks == \A r \in Requests : req[r].phase = "saving" => PendingClock(req[r])

DraftInv == /\ StatusInv
            /\ DraftWorkEnds
            /\ \A s \in Sheets : \A i \in DOMAIN audit[s] : Ended(s, i) => FewCome(s, i)
            /\ PendingClocks

\* Sets of requests and of places in a log are finite.
LEMMA FewAreFinite ==
    ASSUME TypeOK, NEW s \in Sheets, NEW i \in Nat, NEW k \in Nat
    PROVE  /\ IsFiniteSet(Late(s, i, k)) /\ Cardinality(Late(s, i, k)) \in Nat
           /\ IsFiniteSet(Adding(s)) /\ Cardinality(Adding(s)) \in Nat
           /\ Cardinality(Requests) \in Nat
<1>1. IsFiniteSet(i..k)
  BY FS_Interval
<1>2. IsFiniteSet(Late(s, i, k))
  BY <1>1, FS_Intersection DEF Late
<1>3. IsFiniteSet(Adding(s))
  BY RequestsAssumption, FS_Subset DEF Adding
<1> QED BY <1>2, <1>3, RequestsAssumption, FS_CardinalityType

\* After a draft has ended, and until one begins, the status is not draft.
LEMMA EndedIsNoDraft ==
    ASSUME StatusInv, NEW s \in Sheets, Exists(s), NEW i, Ended(s, i)
    PROVE  doc[s].status # "draft"
<1>1. PICK m \in DOMAIN audit[s] :
          /\ audit[s][m] \in StatusActions
          /\ doc[s].status = StatusOf[audit[s][m]]
          /\ \A j \in DOMAIN audit[s] : j > m => audit[s][j] \notin StatusActions
  BY DEF StatusInv, StatusIsAudited
<1>2. DOMAIN audit[s] = 1..Len(audit[s]) /\ Len(audit[s]) \in Nat
  BY DEF StatusInv, TypeOK
<1>3. m \in i..Len(audit[s])
  BY <1>1, <1>2 DEF Ended, AfterDraft
<1>4. audit[s][m] \notin {"CREATE", "RESTORE"}
  BY <1>3 DEF Ended, AfterDraft
<1> QED BY <1>1, <1>4, StatusNames

\* A step that leaves the logs, and adds to the requests that are on their way
\* with an entry only where the status is draft, keeps DraftInv.
LEMMA DraftUnchanged ==
    ASSUME DraftInv, StatusInv', UNCHANGED audit,
           \A s \in Sheets : /\ doc'[s].status = doc[s].status
                             /\ Adding(s)' \subseteq Adding(s) \/ (/\ Exists(s)
                                                                   /\ doc[s].status = "draft"),
           \A r \in Requests : req'[r].phase = "saving" =>
               req'[r] = req[r] \/ PendingClock(req'[r])
    PROVE  DraftInv'
<1>1. TypeOK /\ TypeOK' /\ StatusInv
  BY DEF DraftInv, StatusInv
<1>2. DraftWorkEnds'
  BY DEF DraftInv, DraftWorkEnds, AfterDraft, At
<1>3. ASSUME NEW s \in Sheets, NEW i \in DOMAIN audit[s], Ended(s, i)
      PROVE  FewCome(s, i)'
  <2>1. FewCome(s, i)
    BY <1>3 DEF DraftInv
  <2>2. i \in Nat /\ Len(audit[s]) \in Nat
    BY <1>1 DEF TypeOK
  <2>3. Adding(s)' \subseteq Adding(s)
    BY <1>1, <1>3, EndedIsNoDraft
  <2>4. /\ IsFiniteSet(Adding(s)) /\ Cardinality(Adding(s)) \in Nat
        /\ Cardinality(Late(s, i, Len(audit[s]))) \in Nat /\ Cardinality(Requests) \in Nat
    BY <1>1, <2>2, FewAreFinite
  <2>5. Cardinality(Adding(s)') <= Cardinality(Adding(s)) /\ IsFiniteSet(Adding(s)')
    BY <2>3, <2>4, FS_Subset
  <2>6. Cardinality(Adding(s)') \in Nat
    BY <2>5, FS_CardinalityType
  <2>7. Late(s, i, Len(audit[s]))' = Late(s, i, Len(audit[s]))
    BY DEF Late, At
  <2> QED BY <2>1, <2>4, <2>5, <2>6, <2>7 DEF FewCome
<1>4. \A s \in Sheets : \A i \in DOMAIN audit[s] : Ended(s, i)' => Ended(s, i)
  BY DEF Ended, AfterDraft
<1>5. PendingClocks'
  <2>1. SUFFICES ASSUME NEW r \in Requests, req'[r].phase = "saving"
                 PROVE  PendingClock(req[r])'
    BY DEF PendingClocks
  <2>2. req'[r].sheet \in Sheets
    BY <1>1, <2>1 DEF TypeOK, RequestRecord
  <2>3. PendingClock(req'[r])
    BY <2>1 DEF DraftInv, PendingClocks
  <2> QED BY <2>2, <2>3 DEF PendingClock
<1> QED BY <1>2, <1>3, <1>4, <1>5 DEF DraftInv

\* What one more action does to a log of n actions and to the windows in it.
Grown(s, a, n) ==
    /\ n \in Nat /\ DOMAIN audit[s] = 1..n
    /\ Len(audit'[s]) = n + 1 /\ DOMAIN audit'[s] = 1..n + 1 /\ audit'[s][n + 1] = a
    /\ \A i, k \in 1..n : /\ AfterDraft(s, i, k)' <=> AfterDraft(s, i, k)
                          /\ Late(s, i, k)' = Late(s, i, k)
                          /\ audit'[s][k] = audit[s][k]
    /\ \A i \in 1..n : /\ Ended(s, i)' => Ended(s, i) /\ a # "RESTORE"
                       /\ Late(s, i, n + 1)' = IF a = "ADD_ENTRY"
                                               THEN Late(s, i, n) \cup {n + 1}
                                               ELSE Late(s, i, n)

LEMMA OneMoreAfter ==
    ASSUME NEW s \in Sheets, NEW a \in Actions \ {"CREATE"}, NEW n, n = Len(audit[s]),
           audit[s] \in Seq(Actions), audit'[s] = Append(audit[s], a)
    PROVE  Grown(s, a, n)
<1>1. /\ n \in Nat /\ DOMAIN audit[s] = 1..n
      /\ Len(audit'[s]) = n + 1
      /\ DOMAIN audit'[s] = 1..n + 1
      /\ audit'[s][n + 1] = a
      /\ \A i \in 1..n : audit'[s][i] = audit[s][i]
  OBVIOUS
<1>2. \A b : /\ At(s, b)' = At(s, b) \cup (IF b = a THEN {n + 1} ELSE {})
             /\ At(s, b) \subseteq 1..n
  BY AtAppend
<1>3. ASSUME NEW i \in 1..n, NEW k \in 1..n
      PROVE  /\ AfterDraft(s, i, k)' <=> AfterDraft(s, i, k)
             /\ Late(s, i, k)' = Late(s, i, k)
  <2>1. \A j \in i..k : j \in 1..n
    BY <1>1
  <2>2. AfterDraft(s, i, k)' <=> AfterDraft(s, i, k)
    BY <1>1, <2>1 DEF AfterDraft
  <2>3. Late(s, i, k)' = Late(s, i, k)
    BY <1>1, <1>2 DEF Late
  <2> QED BY <2>2, <2>3
<1>4. ASSUME NEW i \in 1..n
      PROVE  /\ Ended(s, i)' => Ended(s, i) /\ a # "RESTORE"
             /\ Late(s, i, n + 1)'
                    = IF a = "ADD_ENTRY"
                      THEN Late(s, i, n) \cup {n + 1}
                      ELSE Late(s, i, n)
  <2>1. \A j \in i..n : j \in i..n + 1 /\ audit'[s][j] = audit[s][j]
    BY <1>1
  <2>2. n + 1 \in i..n + 1 /\ audit'[s][i] = audit[s][i]
        /\ i <= n
    BY <1>1
  <2>3. ASSUME Ended(s, i)' PROVE Ended(s, i) /\ a # "RESTORE"
    <3>1. /\ audit'[s][i] \in StatusActions
          /\ \A j \in i..n + 1 : audit'[s][j] \notin {"CREATE", "RESTORE"}
      BY <1>1, <2>3 DEF Ended, AfterDraft
    <3>2. a # "RESTORE"
      BY <1>1, <2>2, <3>1
    <3>3. /\ audit[s][i] \in StatusActions
          /\ \A j \in i..n : audit[s][j] \notin {"CREATE", "RESTORE"}
      BY <2>1, <2>2, <3>1
    <3> QED BY <1>1, <2>2, <3>2, <3>3 DEF Ended, AfterDraft
  <2>4. Late(s, i, n + 1)'
            = IF a = "ADD_ENTRY"
              THEN Late(s, i, n) \cup {n + 1}
              ELSE Late(s, i, n)
    BY <1>1, <1>2 DEF Late
  <2> QED BY <2>3, <2>4
<1> HIDE DEF AfterDraft, Late, Ended
<1> QED BY <1>1, <1>3, <1>4 DEF Grown

LEMMA DraftSave == ASSUME DraftInv, StatusInv', NEW r \in Requests, Save(r) PROVE DraftInv'
<1>1. StatusInv /\ TypeOK /\ TypeOK'
  BY DEF DraftInv, StatusInv
<1>2. PICK q, s, n :
          /\ q = req[r] /\ s = q.sheet /\ n = Len(audit[s])
          /\ q \in SavingRecord /\ PendingSave(q) /\ VersionMatches(q)
          /\ \A t \in Sheets \ {s} : doc'[t] = doc[t] /\ audit'[t] = audit[t]
          /\ audit'[s] = Append(audit[s], q.action)
          /\ doc'[s].status = IF q.action \in StatusActions THEN StatusOf[q.action]
                              ELSE doc[s].status
          /\ req'[r].phase # "saving"
          /\ \A r2 \in Requests \ {r} : req'[r2] = req[r2]
  <2>1. VersionMatches(req[r])
    BY DEF Save
  <2> QED BY <1>1, <2>1, SaveEffect
<1>3. s \in Sheets /\ q.action \in Actions \ {"CREATE"} /\ q.phase = "saving" /\ Exists(s)
  BY <1>2 DEF SavingRecord, PendingSave
<1>4. /\ n \in Nat /\ DOMAIN audit[s] = 1..n /\ Len(audit'[s]) = n + 1
      /\ DOMAIN audit'[s] = 1..n + 1 /\ audit'[s][n + 1] = q.action
      /\ \A i, k \in 1..n : /\ AfterDraft(s, i, k)' <=> AfterDraft(s, i, k)
                            /\ Late(s, i, k)' = Late(s, i, k)
                            /\ audit'[s][k] = audit[s][k]
      /\ \A i \in 1..n :
            /\ Ended(s, i)' => Ended(s, i) /\ q.action # "RESTORE"
            /\ Late(s, i, n + 1)' = IF q.action = "ADD_ENTRY" THEN Late(s, i, n) \cup {n + 1}
                                    ELSE Late(s, i, n)
  <2>1. audit[s] \in Seq(Actions)
    BY <1>1, <1>3 DEF TypeOK
  <2>2. Grown(s, q.action, n)
    BY <1>2, <1>3, <2>1, OneMoreAfter
  <2> QED BY <2>2 DEF Grown
<1>5. /\ Adding(s)' = IF q.action = "ADD_ENTRY" THEN Adding(s) \ {r} ELSE Adding(s)
      /\ r \notin Adding(s)'
      /\ q.action = "ADD_ENTRY" => r \in Adding(s)
      /\ \A t \in Sheets \ {s} : Adding(t)' = Adding(t)
  BY <1>2, <1>3 DEF Adding
<1>6. Cardinality(Adding(s)') \in Nat /\ Cardinality(Adding(s)') < Cardinality(Requests)
  <2>1. Adding(s)' \subseteq Requests \ {r}
    BY <1>5 DEF Adding
  <2>2. IsFiniteSet(Requests \ {r}) /\ Cardinality(Requests \ {r}) = Cardinality(Requests) - 1
        /\ Cardinality(Requests) \in Nat
    BY RequestsAssumption, FS_RemoveElement, FS_CardinalityType
  <2>3. IsFiniteSet(Adding(s)') /\ Cardinality(Adding(s)') <= Cardinality(Requests \ {r})
    BY <2>1, <2>2, FS_Subset
  <2>4. Cardinality(Adding(s)') \in Nat
    BY <2>3, FS_CardinalityType
  <2> QED BY <2>2, <2>3, <2>4
<1>7. ASSUME NEW i \in 1..n + 1, Ended(s, i)'
      PROVE  FewCome(s, i)' /\ (i < n + 1 => q.action # "CLOCK_EVENT")
  <2>1. CASE i = n + 1
    <3>1. q.action \in StatusActions
      BY <1>4, <1>7, <2>1 DEF Ended, AfterDraft
    <3>2. Late(s, n + 1, n + 1)' = {}
      <4>1. q.action # "ADD_ENTRY"
        BY <3>1, StatusNames
      <4>2. ASSUME NEW j \in Late(s, n + 1, n + 1)' PROVE FALSE
        <5>1. j = n + 1 /\ audit'[s][j] = "ADD_ENTRY"
          BY <1>4, <4>2 DEF Late, At
        <5> QED BY <1>4, <4>1, <5>1
      <4> QED BY <4>2
    <3>3. Cardinality(Late(s, n + 1, n + 1)') = 0
      BY <3>2, FS_EmptySet
    <3>4. FewCome(s, i)'
      BY <1>4, <1>6, <2>1, <3>3 DEF FewCome
    <3> QED BY <2>1, <3>4
  <2>2. CASE i \in 1..n
    <3>1. Ended(s, i)
      BY <1>4, <1>7, <2>2
    <3>2. FewCome(s, i)
      BY <1>3, <1>4, <2>2, <3>1 DEF DraftInv
    <3>3. doc[s].status # "draft"
      BY <1>1, <1>3, <3>1, EndedIsNoDraft
    <3>4. q.action # "CLOCK_EVENT"
      <4>1. q.action = "CLOCK_EVENT" => q.version = n
        BY <1>2 DEF VersionMatches
      <4>2. PendingClock(q)
        BY <1>2, <1>3 DEF DraftInv, PendingClocks
      <4> QED BY <1>2, <3>3, <4>1, <4>2 DEF PendingClock
    <3>5. /\ IsFiniteSet(Late(s, i, n)) /\ Cardinality(Late(s, i, n)) \in Nat
          /\ IsFiniteSet(Adding(s)) /\ Cardinality(Adding(s)) \in Nat
          /\ Cardinality(Requests) \in Nat
      <4>1. i \in Nat
        BY <1>4, <2>2
      <4> QED BY <1>1, <1>3, <1>4, <4>1, FewAreFinite
    <3>6. Cardinality(Late(s, i, n)) + Cardinality(Adding(s)) < Cardinality(Requests)
      BY <1>2, <3>2 DEF FewCome
    <3>7. Cardinality(Late(s, i, n + 1)') + Cardinality(Adding(s)') < Cardinality(Requests)
      <4>1. CASE q.action = "ADD_ENTRY"
        <5>1. n + 1 \notin Late(s, i, n)
          BY <1>4 DEF Late
        <5>2. Cardinality(Late(s, i, n) \cup {n + 1}) = Cardinality(Late(s, i, n)) + 1
          BY <3>5, <5>1, FS_AddElement
        <5>3. Cardinality(Adding(s) \ {r}) = Cardinality(Adding(s)) - 1
          BY <1>5, <3>5, <4>1, FS_RemoveElement
        <5>4. Late(s, i, n + 1)' = Late(s, i, n) \cup {n + 1} /\ Adding(s)' = Adding(s) \ {r}
          BY <1>4, <1>5, <2>2, <4>1
        <5>5. /\ Cardinality(Late(s, i, n + 1)') = Cardinality(Late(s, i, n)) + 1
              /\ Cardinality(Adding(s)') = Cardinality(Adding(s)) - 1
          BY <5>2, <5>3, <5>4
        <5> QED BY <3>5, <3>6, <5>5
      <4>2. CASE q.action # "ADD_ENTRY"
        <5>1. Late(s, i, n + 1)' = Late(s, i, n) /\ Adding(s)' = Adding(s)
          BY <1>4, <1>5, <2>2, <4>2
        <5> QED BY <3>6, <5>1
      <4> QED BY <4>1, <4>2
    <3> QED BY <1>4, <3>4, <3>7 DEF FewCome
  <2> QED BY <1>4, <1>7, <2>1, <2>2
<1>8. DraftWorkEnds'
  <2>1. SUFFICES ASSUME NEW t \in Sheets, NEW i \in DOMAIN audit'[t], NEW k \in DOMAIN audit'[t],
                        AfterDraft(t, i, k)'
                 PROVE  /\ i < k => audit'[t][k] # "CLOCK_EVENT"
                        /\ Cardinality(Late(t, i, k)') < Cardinality(Requests)
    BY DEF DraftWorkEnds, Late
  <2>2. CASE t # s
    <3>1. audit'[t] = audit[t]
      BY <1>2, <2>2
    <3>2. AfterDraft(t, i, k) /\ Late(t, i, k)' = Late(t, i, k)
      BY <2>1, <3>1 DEF AfterDraft, Late, At
    <3> QED BY <2>1, <3>1, <3>2 DEF DraftInv, DraftWorkEnds, Late
  <2>3. CASE t = s /\ k = n + 1
    <3>1. Ended(s, i)' /\ i \in 1..n + 1
      BY <1>4, <2>1, <2>3 DEF Ended
    <3>2. Cardinality(Late(s, i, n + 1)') + Cardinality(Adding(s)') < Cardinality(Requests)
          /\ (i < n + 1 => q.action # "CLOCK_EVENT")
      BY <1>4, <1>7, <3>1 DEF FewCome
    <3>3. Cardinality(Late(s, i, n + 1)') \in Nat /\ Cardinality(Requests) \in Nat
      <4>1. n + 1 \in Nat /\ i \in Nat
        BY <1>4, <3>1
      <4>2. IsFiniteSet(i..n + 1)
        BY <4>1, FS_Interval
      <4>3. IsFiniteSet(Late(s, i, n + 1)')
        BY <4>2, FS_Intersection DEF Late
      <4> QED BY <4>3, RequestsAssumption, FS_CardinalityType
    <3> QED BY <1>4, <1>6, <2>3, <3>2, <3>3
  <2>4. CASE t = s /\ k \in 1..n /\ i \in 1..n
    <3>1. AfterDraft(s, i, k) /\ Late(s, i, k)' = Late(s, i, k) /\ audit'[s][k] = audit[s][k]
      BY <1>4, <2>1, <2>4
    <3> QED BY <1>3, <1>4, <2>4, <3>1 DEF DraftInv, DraftWorkEnds, Late
  <2>5. CASE t = s /\ k \in 1..n /\ i = n + 1
    BY <1>4, <2>1, <2>5 DEF AfterDraft
  <2> QED BY <1>4, <2>1, <2>2, <2>3, <2>4, <2>5
<1>9. ASSUME NEW t \in Sheets, NEW i \in DOMAIN audit'[t], Ended(t, i)' PROVE FewCome(t, i)'
  <2>1. CASE t = s
    BY <1>4, <1>7, <1>9, <2>1
  <2>2. CASE t # s
    <3>1. audit'[t] = audit[t] /\ Adding(t)' = Adding(t)
      BY <1>2, <1>5, <2>2
    <3>2. Ended(t, i) /\ (FewCome(t, i) => FewCome(t, i)')
      BY <1>9, <3>1 DEF Ended, AfterDraft, FewCome, Late, At
    <3> QED BY <1>9, <3>1, <3>2 DEF DraftInv, Ended
  <2> QED BY <2>1, <2>2
<1>10. PendingClocks'
  <2>1. SUFFICES ASSUME NEW r2 \in Requests, req'[r2].phase = "saving"
                 PROVE  PendingClock(req[r2])'
    BY DEF PendingClocks
  <2>2. req'[r2] = req[r2] /\ PendingClock(req[r2])
    BY <1>2, <2>1 DEF DraftInv, PendingClocks
  <2>3. req[r2] \in SavingRecord
    BY <1>1, <2>1, <2>2 DEF TypeOK, RequestRecord, SavingRecord
  <2>4. req[r2].sheet \in Sheets /\ req[r2].version \in Nat
    BY <2>3 DEF SavingRecord
  <2>5. CASE req[r2].sheet = s
    BY <1>2, <1>4, <2>2, <2>4, <2>5 DEF PendingClock
  <2>6. CASE req[r2].sheet # s
    BY <1>2, <2>2, <2>4, <2>6 DEF PendingClock
  <2> QED BY <2>5, <2>6
<1> QED BY <1>8, <1>9, <1>10 DEF DraftInv

LEMMA DraftInit == Init => DraftInv
<1> SUFFICES ASSUME Init PROVE DraftInv
  OBVIOUS
<1>1. StatusInv
  BY StatusInit
<1>2. \A s \in Sheets : audit[s] = <<>>
  BY DEF Init
<1>3. \A s \in Sheets : DOMAIN audit[s] = {}
  BY <1>2
<1>4. PendingClocks
  BY DEF Init, Idle, PendingClocks
<1> QED BY <1>1, <1>3, <1>4 DEF DraftInv, DraftWorkEnds

LEMMA DraftStep == DraftInv /\ [Next]_vars => DraftInv'
<1> SUFFICES ASSUME DraftInv, [Next]_vars PROVE DraftInv'
  OBVIOUS
<1>1. StatusInv /\ StatusInv' /\ TypeOK /\ TypeOK'
  BY StatusStep DEF DraftInv, StatusInv
<1>2. ASSUME UNCHANGED <<doc, audit>>,
             \A r \in Requests : req'[r].phase = "saving" => req'[r] = req[r]
      PROVE  DraftInv'
  <2>1. \A s \in Sheets : doc'[s].status = doc[s].status /\ Adding(s)' \subseteq Adding(s)
    BY <1>2 DEF Adding
  <2> QED BY <1>1, <1>2, <2>1, DraftUnchanged
<1>3. ASSUME NEW r \in Requests, NEW k \in Keys, FindForCreate(r, k) PROVE DraftInv'
  <2>1. UNCHANGED <<doc, audit>> /\ req' = [req EXCEPT ![r] = Inserting(k)]
    BY <1>3 DEF FindForCreate, Start
  <2>2. Inserting(k).phase # "saving"
    BY DEF Inserting
  <2> QED BY <1>1, <1>2, <2>1, <2>2 DEF TypeOK
<1>4. ASSUME NEW r \in Requests, NEW s \in Sheets, InsertCreated(r, s) PROVE DraftInv'
  <2>1. /\ audit'[s] = <<"CREATE">> /\ doc'[s].status = "draft" /\ ~ Exists(s)
        /\ \A t \in Sheets \ {s} : doc'[t] = doc[t] /\ audit'[t] = audit[t]
        /\ \A r2 \in Requests : req'[r2].phase = "saving" => req'[r2] = req[r2]
        /\ req[r].phase # "saving"
        /\ \A r2 \in Requests \ {r} : req'[r2] = req[r2]
        /\ req'[r].phase # "saving"
    BY <1>1, <1>4 DEF InsertCreated, NewDoc, NoDoc, TypeOK, Idle
  <2>2. \A t \in Sheets : Adding(t)' = Adding(t)
    BY <2>1 DEF Adding
  <2>3. DOMAIN audit'[s] = {1} /\ audit'[s][1] = "CREATE"
    BY <2>1
  <2>4. ~ \E i, k \in DOMAIN audit'[s] : AfterDraft(s, i, k)'
    BY <2>3 DEF AfterDraft
  <2>5. \A i \in DOMAIN audit'[s] : ~ Ended(s, i)'
    BY <2>1, <2>3, <2>4 DEF Ended
  <2>6. \A t \in Sheets \ {s} : \A i, k \in DOMAIN audit[t] :
            /\ AfterDraft(t, i, k)' <=> AfterDraft(t, i, k)
            /\ At(t, "ADD_ENTRY")' = At(t, "ADD_ENTRY")
            /\ Ended(t, i)' <=> Ended(t, i)
            /\ FewCome(t, i)' <=> FewCome(t, i)
    BY <2>1, <2>2 DEF AfterDraft, At, Ended, FewCome, Late
  <2>7. DraftWorkEnds'
    BY <2>1, <2>4, <2>6 DEF DraftInv, DraftWorkEnds
  <2>8. \A t \in Sheets : \A i \in DOMAIN audit'[t] : Ended(t, i)' => FewCome(t, i)'
    BY <2>1, <2>5, <2>6 DEF DraftInv
  <2>9. PendingClocks'
    <3>1. SUFFICES ASSUME NEW r2 \in Requests, req'[r2].phase = "saving"
                   PROVE  PendingClock(req[r2])'
      BY DEF PendingClocks
    <3>2. req'[r2] = req[r2] /\ PendingClock(req[r2]) /\ PendingSave(req[r2])
      BY <1>1, <2>1, <3>1 DEF DraftInv, PendingClocks, StatusInv, PendingSaves
    <3>3. req[r2].sheet \in Sheets /\ req[r2].sheet # s
      BY <1>1, <2>1, <3>1, <3>2 DEF TypeOK, RequestRecord, PendingSave
    <3> QED BY <2>1, <3>2, <3>3 DEF PendingClock
  <2> QED BY <1>1, <2>7, <2>8, <2>9 DEF DraftInv
<1>5. ASSUME NEW r \in Requests, NEW s \in Sheets, ReadStep(r, s) PROVE DraftInv'
  <2>1. PICK action \in Actions \ {"CREATE"}, new \in Doc, pushed \in Seq(EntryKinds) :
            Read(r, s, action, new, pushed) /\ Asked(action, doc[s])
    BY <1>1, <1>5, ReadCases
  <2>2. /\ UNCHANGED <<doc, audit>> /\ Exists(s)
        /\ req'[r] = Saving(s, action, new, pushed)
        /\ \A r2 \in Requests \ {r} : req'[r2] = req[r2]
    BY <1>1, <2>1 DEF Read, Start, TypeOK
  <2>3. /\ req'[r].sheet = s /\ req'[r].action = action /\ req'[r].version = Len(audit[s])
    BY <2>2 DEF Saving
  <2>4. Len(audit[s]) \in Nat
    BY <1>1 DEF TypeOK
  <2>5. PendingClock(req'[r])
    BY <2>1, <2>3, <2>4 DEF PendingClock, Asked
  <2>6. ASSUME NEW t \in Sheets
        PROVE  Adding(t)' \subseteq Adding(t) \/ (Exists(t) /\ doc[t].status = "draft")
    <3>1. CASE action = "ADD_ENTRY" /\ t = s
      BY <2>1, <2>2, <3>1 DEF Asked
    <3>2. CASE ~ (action = "ADD_ENTRY" /\ t = s)
      BY <2>2, <2>3, <3>2 DEF Adding
    <3> QED BY <3>1, <3>2
  <2> QED BY <1>1, <2>2, <2>5, <2>6, DraftUnchanged
<1>6. ASSUME NEW r \in Requests, Save(r) PROVE DraftInv'
  BY <1>1, <1>6, DraftSave
<1>7. ASSUME NEW r \in Requests, Enqueue(r) \/ Reply(r) \/ Abort(r) PROVE DraftInv'
  <2>1. UNCHANGED <<doc, audit>> /\ req'[r].phase # "saving"
        /\ \A r2 \in Requests \ {r} : req'[r2] = req[r2]
    BY <1>1, <1>7, NothingStored
  <2> QED BY <1>2, <2>1
<1>8. CASE UNCHANGED vars
  BY <1>2, <1>8 DEF vars
<1> QED BY <1>3, <1>4, <1>5, <1>6, <1>7, <1>8 DEF Next

LEMMA DraftInvariant == Spec => []DraftInv
BY DraftInit, DraftStep, PTL DEF Spec

\* However many requests overlap, between the end of a draft and a restoration no
\* clock event is recorded, and fewer entries are added than there are requests.
THEOREM FewEntriesAfterDraft == Spec => []DraftWorkEnds
<1>1. DraftInv => DraftWorkEnds
  BY DEF DraftInv
<1> QED BY <1>1, DraftInvariant, PTL

-----------------------------------------------------------------------------
(***************************************************************************)
(* What is true while no two requests hold unsaved copies of one           *)
(* timesheet.  Requests on different timesheets may overlap as they will,  *)
(* so may several requests on one that are before their read or after      *)
(* their save: the condition is about the copies only.  Under it a waiting *)
(* save has the document as it is stored, and its effect is that of an     *)
(* operation without a gap.                                                *)
(***************************************************************************)
OneCopyEach ==
    \A q, r \in Requests :
        (req[q].phase = "saving" /\ req[r].phase = "saving" /\ req[q].sheet = req[r].sheet)
            => q = r

\* A waiting save whose copy is the stored document.
Fresh(q) ==
    /\ q.old = doc[q.sheet]
    /\ Asked(q.action, q.old)
    /\ q.pushed # <<>> => q.action = "ADD_ENTRY"
    /\ q.new.total = Total(entries[q.sheet] \o q.pushed)

FreshCopies == \A r \in Requests : req[r].phase = "saving" => Fresh(req[r])

\* Status and flag say the same, and a timesheet without a document is empty.
FlagIsStatus ==
    \A s \in Sheets : /\ doc[s].isDeleted <=> doc[s].status = "deleted"
                      /\ ~ Exists(s) => entries[s] = <<>>

\* On the way to another payment: a draft or submitted timesheet was restored
\* after every earlier one, and an approved one was then approved again.
OnTheWayAgain ==
    \A s \in Sheets : \A k \in At(s, "PAYROLL_PROCESSED") :
        /\ doc[s].status \in {"draft", "submitted"} => \E j \in At(s, "RESTORE") : k < j
        /\ doc[s].status = "approved" =>
              \E j \in At(s, "RESTORE"), m \in At(s, "APPROVE") : k < j /\ j < m

SerialInv == /\ HistoryInv
             /\ FreshCopies
             /\ FlagIsStatus
             /\ TotalIsSum
             /\ OnTheWayAgain
             /\ RepaidOnlyAfterRestore

LEMMA SerialInit == Init => SerialInv
<1> SUFFICES ASSUME Init PROVE SerialInv
  OBVIOUS
<1>1. \A s \in Sheets : /\ audit[s] = <<>> /\ entries[s] = <<>> /\ doc[s].total = 0
                        /\ ~ doc[s].isDeleted /\ doc[s].status = "none"
  BY DEF Init, NoDoc
<1>2. \A s \in Sheets : \A a : At(s, a) = {}
  BY <1>1 DEF At
<1>3. FreshCopies
  BY DEF Init, Idle, FreshCopies
<1>4. TotalIsSum
  BY <1>1, TotalOfNothing DEF TotalIsSum
<1> QED BY <1>1, <1>2, <1>3, <1>4, HistoryInit
        DEF SerialInv, FlagIsStatus, OnTheWayAgain, RepaidOnlyAfterRestore

\* A step that stores nothing and leaves in each slot a save that was there or
\* one with a fresh copy.
LEMMA SerialUnchanged ==
    ASSUME SerialInv, HistoryInv', UNCHANGED <<doc, entries, audit>>,
           \A r \in Requests : req'[r].phase = "saving" => req'[r] = req[r] \/ Fresh(req'[r])
    PROVE  SerialInv'
<1>1. \A s, a : At(s, a)' = At(s, a)
  BY DEF At
<1>2. /\ FlagIsStatus' /\ TotalIsSum' /\ OnTheWayAgain' /\ RepaidOnlyAfterRestore'
  BY <1>1 DEF SerialInv, FlagIsStatus, TotalIsSum, OnTheWayAgain, RepaidOnlyAfterRestore, Exists
<1>3. FreshCopies'
  BY DEF SerialInv, FreshCopies, Fresh
<1> QED BY <1>2, <1>3 DEF SerialInv

\* The insertion of a timesheet: nobody holds a copy of it.
LEMMA SerialInsert ==
    ASSUME SerialInv, HistoryInv', NEW r \in Requests, NEW s \in Sheets, InsertCreated(r, s)
    PROVE  SerialInv'
<1>1. TypeOK /\ PendingSaves
  BY DEF SerialInv, HistoryInv, StatusInv
<1>2. /\ doc[s].status = "none" /\ doc'[s] = NewDoc /\ audit'[s] = <<"CREATE">>
      /\ UNCHANGED entries /\ entries[s] = <<>>
      /\ \A t \in Sheets \ {s} : doc'[t] = doc[t] /\ audit'[t] = audit[t]
      /\ \A r2 \in Requests : req'[r2].phase = "saving" => req'[r2] = req[r2]
  BY <1>1 DEF InsertCreated, TypeOK, SerialInv, FlagIsStatus, Exists, Idle
<1>3. doc'[s].status = "draft" /\ ~ doc'[s].isDeleted /\ doc'[s].total = 0
  BY <1>2 DEF NewDoc, NoDoc
<1>4. /\ \A a : a # "CREATE" => At(s, a)' = {}
      /\ \A t \in Sheets \ {s} : \A a : At(t, a)' = At(t, a)
  BY <1>2 DEF At
<1>5. FlagIsStatus' /\ TotalIsSum'
  BY <1>2, <1>3, TotalOfNothing DEF SerialInv, FlagIsStatus, TotalIsSum, Exists
<1>6. OnTheWayAgain' /\ RepaidOnlyAfterRestore'
  <2>1. At(s, "PAYROLL_PROCESSED")' = {}
    BY <1>4
  <2> QED BY <1>2, <1>4, <2>1 DEF SerialInv, OnTheWayAgain, RepaidOnlyAfterRestore
<1>7. FreshCopies'
  <2>1. SUFFICES ASSUME NEW r2 \in Requests, req'[r2].phase = "saving" PROVE Fresh(req[r2])'
    BY DEF FreshCopies
  <2>2. PICK q \in SavingRecord : q = req[r2] /\ q = req'[r2]
    BY <1>1, <1>2, <2>1 DEF TypeOK, RequestRecord, SavingRecord
  <2>3. Fresh(q) /\ q.sheet \in Sheets /\ q.sheet # s
    BY <1>1, <1>2, <2>1, <2>2 DEF SerialInv, FreshCopies, PendingSaves, PendingSave, Exists,
                                  SavingRecord
  <2> QED BY <1>2, <2>2, <2>3 DEF Fresh
<1> QED BY <1>5, <1>6, <1>7 DEF SerialInv

\* A save whose copy is the stored document.
LEMMA SerialSave ==
    ASSUME SerialInv, OneCopyEach, HistoryInv', NEW r \in Requests, Save(r)
    PROVE  SerialInv'
<1>1. StatusInv /\ TypeOK
  BY DEF SerialInv, HistoryInv, StatusInv
<1>2. PICK q, s : /\ q = req[r] /\ s = q.sheet
                  /\ q \in SavingRecord /\ s \in Sheets /\ q.action \in Actions \ {"CREATE"}
                  /\ PendingSave(q) /\ Fresh(q)
  BY <1>1, SaveEffect DEF SavingRecord, SerialInv, FreshCopies, Save
<1>3. /\ doc'[s].status = IF q.action \in StatusActions THEN StatusOf[q.action]
                          ELSE doc[s].status
      /\ doc'[s].isDeleted = IF q.action \in {"DELETE", "RESTORE"} THEN q.new.isDeleted
                             ELSE doc[s].isDeleted
      /\ \A t \in Sheets \ {s} : doc'[t] = doc[t] /\ audit'[t] = audit[t]
      /\ audit'[s] = Append(audit[s], q.action)
      /\ \A r2 \in Requests : req'[r2].phase = "saving" => req'[r2] = req[r2] /\ r2 # r
  BY <1>1, <1>2, SaveEffect
<1>4. /\ entries'[s] = entries[s] \o q.pushed
      /\ doc'[s].total = Set(doc[s].total, q.old.total, q.new.total)
      /\ \A t \in Sheets \ {s} : entries'[t] = entries[t]
  BY <1>1, <1>2, SaveTotal
<1>5. PICK n : n = Len(audit[s]) + 1
  OBVIOUS
<1>6. /\ n \in Nat
      /\ \A a : At(s, a)' = At(s, a) \cup (IF a = q.action THEN {n} ELSE {})
      /\ \A a : \A i \in At(s, a) : i \in Nat /\ i < n
      /\ \A t \in Sheets \ {s} : \A a : At(t, a)' = At(t, a)
  <2>1. audit[s] \in Seq(Actions) /\ q.action \in Actions
        /\ audit'[s] = Append(audit[s], q.action)
    BY <1>1, <1>2, <1>3 DEF TypeOK
  <2>2. \A t \in Sheets \ {s} : \A a : At(t, a)' = At(t, a)
    BY <1>3 DEF At
  <2>3. /\ Len(audit[s]) \in Nat
        /\ \A a : At(s, a)' = At(s, a) \cup (IF a = q.action THEN {Len(audit[s]) + 1} ELSE {})
        /\ \A a : At(s, a) \subseteq 1..Len(audit[s])
    BY <1>2, <2>1, AtAppend
  <2> QED BY <1>5, <2>2, <2>3
<1>7. /\ Asked(q.action, doc[s])
      /\ doc[s].isDeleted <=> doc[s].status = "deleted"
      /\ Exists(s)
  BY <1>2 DEF Fresh, SerialInv, FlagIsStatus, PendingSave
<1>8. FlagIsStatus'
  <2>1. doc'[s].isDeleted <=> doc'[s].status = "deleted"
    <3>1. CASE q.action \notin StatusActions
      BY <1>3, <1>7, <3>1, StatusNames
    <3>2. CASE q.action \in {"DELETE", "RESTORE"}
      BY <1>2, <1>3, <3>2, StatusNames DEF PendingSave
    <3>3. CASE q.action \in {"SUBMIT", "APPROVE", "REJECT", "PAYROLL_PROCESSED"}
      BY <1>3, <1>7, <3>3, StatusNames DEF Asked
    <3> QED BY <1>2, <3>1, <3>2, <3>3, StatusNames
  <2>2. Exists(s)'
    BY <1>3, <1>7, StatusNames DEF Exists
  <2> QED BY <1>3, <1>4, <2>1, <2>2 DEF SerialInv, FlagIsStatus, Exists
<1>9. TotalIsSum'
  <2>1. doc'[s].total = q.new.total
    BY <1>2, <1>4 DEF Fresh, Set
  <2>2. doc'[s].total = Total(entries'[s])
    BY <1>2, <1>4, <2>1 DEF Fresh
  <2> QED BY <1>3, <1>4, <2>2 DEF SerialInv, TotalIsSum
<1>10. ASSUME NEW k \in At(s, "PAYROLL_PROCESSED")'
       PROVE  /\ doc'[s].status \in {"draft", "submitted"} => \E j \in At(s, "RESTORE")' : k < j
              /\ doc'[s].status = "approved" =>
                    \E j \in At(s, "RESTORE")', m \in At(s, "APPROVE")' : k < j /\ j < m
  <2>1. CASE q.action = "PAYROLL_PROCESSED"
    BY <1>3, <2>1, StatusNames
  <2>2. CASE q.action # "PAYROLL_PROCESSED"
    <3>1. /\ k \in At(s, "PAYROLL_PROCESSED") /\ k < n
          /\ doc[s].status \in {"draft", "submitted"} => \E j \in At(s, "RESTORE") : k < j
          /\ doc[s].status = "approved" =>
                \E j \in At(s, "RESTORE"), m \in At(s, "APPROVE") : k < j /\ j < m
      BY <1>2, <1>6, <2>2 DEF SerialInv, OnTheWayAgain
    <3>2. CASE q.action \notin StatusActions
      BY <1>3, <1>6, <3>1, <3>2
    <3>3. CASE q.action = "RESTORE"
      BY <1>3, <1>6, <3>1, <3>3, StatusNames
    <3>4. CASE q.action = "SUBMIT"
      BY <1>3, <1>6, <1>7, <3>1, <3>4, StatusNames DEF Asked
    <3>5. CASE q.action = "APPROVE"
      <4>1. PICK j \in At(s, "RESTORE") : k < j
        BY <1>7, <3>1, <3>5 DEF Asked
      <4>2. j \in At(s, "RESTORE")' /\ n \in At(s, "APPROVE")' /\ j < n
        BY <1>6, <3>5, <4>1
      <4> QED BY <1>3, <3>5, <4>1, <4>2, StatusNames
    <3>6. CASE q.action \in {"REJECT", "DELETE"}
      BY <1>3, <3>6, StatusNames
    <3> QED BY <1>2, <2>2, <3>2, <3>3, <3>4, <3>5, <3>6, StatusNames
  <2> QED BY <2>1, <2>2
<1>11. OnTheWayAgain'
  BY <1>3, <1>6, <1>10 DEF SerialInv, OnTheWayAgain
<1>12. RepaidOnlyAfterRestore'
  <2> SUFFICES ASSUME NEW t \in Sheets, NEW i \in At(t, "PAYROLL_PROCESSED")',
                      NEW k \in At(t, "PAYROLL_PROCESSED")', i < k
               PROVE  \E j \in At(t, "RESTORE")', m \in At(t, "APPROVE")' :
                          i < j /\ j < m /\ m < k
    BY DEF RepaidOnlyAfterRestore
  <2>1. CASE k \in At(t, "PAYROLL_PROCESSED") /\ i \in At(t, "PAYROLL_PROCESSED")
    BY <1>6, <2>1 DEF SerialInv, RepaidOnlyAfterRestore
  <2>2. CASE k \notin At(t, "PAYROLL_PROCESSED")
    <3>1. t = s /\ q.action = "PAYROLL_PROCESSED" /\ k = n
      BY <1>6, <2>2
    <3>2. i \in At(s, "PAYROLL_PROCESSED")
      BY <1>6, <3>1
    <3>3. doc[s].status = "approved"
      BY <1>7, <3>1 DEF Asked
    <3>4. PICK j \in At(s, "RESTORE"), m \in At(s, "APPROVE") : i < j /\ j < m
      BY <1>2, <3>2, <3>3 DEF SerialInv, OnTheWayAgain
    <3> QED BY <1>6, <3>1, <3>4
  <2>3. CASE i \notin At(t, "PAYROLL_PROCESSED") /\ k \in At(t, "PAYROLL_PROCESSED")
    <3>1. t = s /\ i = n
      BY <1>6, <2>3
    <3> QED BY <1>6, <2>3, <3>1
  <2> QED BY <2>1, <2>2, <2>3
<1>13. FreshCopies'
  <2>1. SUFFICES ASSUME NEW r2 \in Requests, req'[r2].phase = "saving" PROVE Fresh(req[r2])'
    BY DEF FreshCopies
  <2>2. PICK u \in SavingRecord : u = req[r2] /\ u = req'[r2] /\ r2 # r
    BY <1>1, <1>3, <2>1 DEF TypeOK, RequestRecord, SavingRecord
  <2>3. Fresh(u) /\ u.sheet \in Sheets /\ u.sheet # s
    BY <1>2, <2>1, <2>2 DEF SerialInv, FreshCopies, OneCopyEach, SavingRecord
  <2> QED BY <1>3, <1>4, <2>2, <2>3 DEF Fresh
<1> QED BY <1>8, <1>9, <1>11, <1>12, <1>13 DEF SerialInv

LEMMA SerialStep == SerialInv /\ OneCopyEach /\ [Next]_vars => SerialInv'
<1> SUFFICES ASSUME SerialInv, OneCopyEach, [Next]_vars PROVE SerialInv'
  OBVIOUS
<1>1. TypeOK /\ HistoryInv'
  BY HistoryStep DEF SerialInv, HistoryInv, StatusInv
<1>2. ASSUME NEW r \in Requests, NEW k \in Keys, FindForCreate(r, k) PROVE SerialInv'
  <2>1. UNCHANGED <<doc, entries, audit>> /\ req' = [req EXCEPT ![r] = Inserting(k)]
    BY <1>2 DEF FindForCreate, Start
  <2>2. Inserting(k).phase # "saving"
    BY DEF Inserting
  <2> QED BY <1>1, <2>1, <2>2, SerialUnchanged DEF TypeOK
<1>3. ASSUME NEW r \in Requests, NEW s \in Sheets, InsertCreated(r, s) PROVE SerialInv'
  BY <1>1, <1>3, SerialInsert
<1>4. ASSUME NEW r \in Requests, NEW s \in Sheets, ReadStep(r, s) PROVE SerialInv'
  <2>1. /\ Asked(req'[r].action, req'[r].old)
        /\ req'[r].pushed # <<>> => req'[r].action = "ADD_ENTRY"
        /\ req'[r].old = doc[s] /\ req'[r].sheet = s
        /\ req'[r].new.total = Total(entries[s] \o req'[r].pushed)
           \/ (/\ req'[r].new.total = doc[s].total
               /\ entries[s] = <<>> /\ req'[r].pushed = <<>>)
        /\ \A r2 \in Requests \ {r} : req'[r2] = req[r2]
        /\ UNCHANGED <<doc, entries, audit>>
    BY <1>1, <1>4, ReadTotal
  <2>2. req'[r].new.total = Total(entries[s] \o req'[r].pushed)
    <3>1. PICK es, p : es = entries[s] /\ p = req'[r].pushed
      OBVIOUS
    <3>2. CASE es = <<>> /\ p = <<>>
      <4>1. doc[s].total = Total(es)
        BY <3>1 DEF SerialInv, TotalIsSum
      <4>2. es \o p = es
        BY <3>2, ConcatEmptySeq
      <4> QED BY <2>1, <3>1, <4>1, <4>2
    <3>3. CASE ~ (es = <<>> /\ p = <<>>)
      BY <2>1, <3>1, <3>3
    <3> QED BY <3>2, <3>3
  <2>3. Fresh(req'[r])
    BY <2>1, <2>2 DEF Fresh
  <2> QED BY <1>1, <2>1, <2>3, SerialUnchanged
<1>5. ASSUME NEW r \in Requests, Save(r) PROVE SerialInv'
  BY <1>1, <1>5, SerialSave
<1>6. ASSUME NEW r \in Requests, Enqueue(r) \/ Reply(r) \/ Abort(r) PROVE SerialInv'
  <2>1. UNCHANGED <<doc, audit>> /\ req'[r].phase # "saving"
        /\ \A r2 \in Requests \ {r} : req'[r2] = req[r2]
    BY <1>1, <1>6, NothingStored
  <2>2. UNCHANGED entries
    BY <1>6 DEF Enqueue, Reply, Abort
  <2> QED BY <1>1, <2>1, <2>2, SerialUnchanged
<1>7. CASE UNCHANGED vars
  BY <1>1, <1>7, SerialUnchanged DEF vars
<1> QED BY <1>2, <1>3, <1>4, <1>5, <1>6, <1>7 DEF Next

LEMMA SerialInvariant == Spec /\ []OneCopyEach => []SerialInv
BY SerialInit, SerialStep, PTL DEF Spec

\* While no two requests hold unsaved copies of one timesheet, the stored total
\* of a timesheet is the sum of its entries.
THEOREM TotalsAreSums == Spec /\ []OneCopyEach => []TotalIsSum
<1>1. SerialInv => TotalIsSum
  BY DEF SerialInv
<1> QED BY <1>1, SerialInvariant, PTL

\* Under the same condition a timesheet goes through payroll again only after
\* it was restored and approved again.
THEOREM PaidAgainOnlyAfterRestore == Spec /\ []OneCopyEach => []RepaidOnlyAfterRestore
<1>1. SerialInv => RepaidOnlyAfterRestore
  BY DEF SerialInv
<1> QED BY <1>1, SerialInvariant, PTL

\* Under the same condition every operation finds the timesheet in the status
\* it asks for.
THEOREM TimesheetRefinesStrictLifecycle == Spec /\ []OneCopyEach => ImplementsStrictLifecycle
<1>1. Init => Lifecycle!Init
  <2> SUFFICES ASSUME Init PROVE Lifecycle!Init
    OBVIOUS
  <2>1. \A s \in Sheets : doc[s].status = "none" /\ StatusesSeen(s) = {}
    BY DEF Init, NoDoc, StatusesSeen
  <2> QED BY <2>1 DEF Lifecycle!Init
<1>2. SerialInv /\ [Next]_vars => [Lifecycle!StrictNext]_Lifecycle!vars
  <2> SUFFICES ASSUME SerialInv, [Next]_vars,
                      ~ UNCHANGED <<[s \in Sheets |-> doc[s].status],
                                    [s \in Sheets |-> StatusesSeen(s)]>>
               PROVE  Lifecycle!StrictNext
    BY DEF Lifecycle!vars
  <2>1. HistoryInv /\ StatusIsAudited
    BY DEF SerialInv, HistoryInv, StatusInv
  <2>2. ASSUME NEW s \in Sheets, NEW r \in Requests, req[r].phase = "saving",
               req[r].sheet = s, req[r].action \in StatusActions,
               Lifecycle!SetStatus(s, StatusOf[req[r].action])
        PROVE  \E m \in Moves : Lifecycle!StrictMove(s, m)
    <3>1. PICK action : action = req[r].action
      OBVIOUS
    <3>2. /\ Asked(action, doc[s]) /\ Exists(s) /\ action # "CREATE"
          /\ doc[s].isDeleted <=> doc[s].status = "deleted"
          /\ doc[s] \in Doc
      BY <2>2, <3>1 DEF SerialInv, FreshCopies, Fresh, FlagIsStatus, HistoryInv, StatusInv,
                        PendingSaves, PendingSave, TypeOK, RequestRecord
    <3>3. doc[s].status \in Statuses /\ doc[s].status \in StatusesSeen(s)
      BY <2>1, <3>2, StatusSeen DEF Exists, Doc
    <3>4. [from |-> doc[s].status, to |-> StatusOf[action]] \in Moves
      <4>1. CASE action = "DELETE"
        BY <3>2, <3>3, <4>1, StatusNames DEF Asked, Moves
      <4>2. CASE action \in {"SUBMIT", "APPROVE", "REJECT", "RESTORE", "PAYROLL_PROCESSED"}
        BY <3>2, <4>2, StatusNames DEF Asked, Moves
      <4> QED BY <2>2, <3>1, <3>2, <4>1, <4>2, StatusNames
    <3> QED BY <2>2, <3>1, <3>3, <3>4 DEF Lifecycle!StrictMove, Lifecycle!Move, Lifecycle!SetStatus
  <2> QED BY <2>1, <2>2, StatusChange DEF Lifecycle!StrictNext
<1> QED BY <1>1, <1>2, SerialInvariant, PTL DEF Spec, ImplementsStrictLifecycle, Lifecycle!StrictSpec

-----------------------------------------------------------------------------
(***************************************************************************)
(* Creation.  createTimesheet looks for a live timesheet and inserts one   *)
(* later.  The lookup is enough while no two creations for one key         *)
(* overlap, whatever else overlaps with them: only a restoration brings    *)
(* another live timesheet.                                                 *)
(***************************************************************************)
OneCreationEach ==
    \A q, r \in Requests :
        (req[q].phase = "inserting" /\ req[r].phase = "inserting" /\ req[q].key = req[r].key)
            => q = r

Restored(s) == At(s, "RESTORE") # {}

\* While a creation is under way, a live timesheet for its key was restored.
CreationsClear ==
    \A r \in Requests : req[r].phase = "inserting" =>
        \A s \in Sheets : key[s] = req[r].key /\ ~ doc[s].isDeleted => Restored(s)

CreationInv == HistoryInv /\ CreationsClear /\ OneLiveUnlessRestored

\* No step takes an entry out of the log of a timesheet.
LEMMA LogsOnlyGrow ==
    ASSUME HistoryInv, [Next]_vars, NEW s \in Sheets, NEW a
    PROVE  At(s, a) \subseteq At(s, a)'
<1>1. TypeOK /\ StatusInv
  BY DEF HistoryInv, StatusInv
<1>2. CASE UNCHANGED audit
  BY <1>2 DEF At
<1>3. ASSUME NEW r \in Requests, NEW t \in Sheets, InsertCreated(r, t)
      PROVE  At(s, a) \subseteq At(s, a)'
  <2>1. audit[t] = <<>> /\ \A u \in Sheets \ {t} : audit'[u] = audit[u]
    BY <1>1, <1>3 DEF InsertCreated, TypeOK, HistoryInv, HistoryFits
  <2> QED BY <2>1 DEF At
<1>4. ASSUME NEW r \in Requests, Save(r) PROVE At(s, a) \subseteq At(s, a)'
  <2>1. /\ req[r] \in SavingRecord
        /\ audit'[req[r].sheet] = Append(audit[req[r].sheet], req[r].action)
        /\ \A u \in Sheets \ {req[r].sheet} : audit'[u] = audit[u]
    BY <1>1, <1>4, SaveEffect
  <2>2. PICK t \in Sheets, b \in Actions : t = req[r].sheet /\ b = req[r].action
    BY <2>1 DEF SavingRecord
  <2>3. CASE s = t
    <3>1. audit[s] \in Seq(Actions) /\ audit'[s] = Append(audit[s], b)
      BY <1>1, <2>1, <2>2, <2>3 DEF TypeOK
    <3>2. At(s, a)' = At(s, a) \cup (IF a = b THEN {Len(audit[s]) + 1} ELSE {})
      BY <3>1, AtAppend
    <3> QED BY <3>2
  <2>4. CASE s # t
    BY <2>1, <2>2, <2>4 DEF At
  <2> QED BY <2>3, <2>4
<1>5. ASSUME NEW r \in Requests, NEW t \in Sheets, ReadStep(r, t) PROVE UNCHANGED audit
  BY <1>5, ReadStoresNothing
<1>6. ASSUME NEW r \in Requests, NEW k \in Keys, FindForCreate(r, k) PROVE UNCHANGED audit
  BY <1>6 DEF FindForCreate, Start
<1> QED BY <1>2, <1>3, <1>4, <1>5, <1>6 DEF Next, Enqueue, Reply, Abort, vars

\* A step that gives no timesheet a key, brings none back but by a restoration
\* and begins no creation, keeps the invariant.
LEMMA CreationsKept ==
    ASSUME CreationInv, HistoryInv', [Next]_vars, UNCHANGED key,
           \A s \in Sheets : doc[s].isDeleted /\ ~ doc'[s].isDeleted => Restored(s)',
           \A r \in Requests : req'[r].phase = "inserting" => req'[r] = req[r]
    PROVE  CreationInv'
<1>1. \A s \in Sheets : Restored(s) => Restored(s)'
  BY LogsOnlyGrow DEF CreationInv, Restored
<1>2. CreationsClear'
  BY <1>1 DEF CreationInv, CreationsClear
<1>3. OneLiveUnlessRestored'
  <2> SUFFICES ASSUME NEW s \in Sheets, NEW t \in Sheets, s # t, key'[s] = key'[t],
                      key'[s] # NoKey, ~ doc'[s].isDeleted, ~ doc'[t].isDeleted
               PROVE  Restored(s)' \/ Restored(t)'
    BY DEF OneLiveUnlessRestored, Restored
  <2>1. CASE doc[s].isDeleted \/ doc[t].isDeleted
    BY <2>1
  <2>2. CASE ~ doc[s].isDeleted /\ ~ doc[t].isDeleted
    <3>1. Restored(s) \/ Restored(t)
      BY <2>2 DEF CreationInv, OneLiveUnlessRestored, Restored
    <3> QED BY <1>1, <3>1
  <2> QED BY <2>1, <2>2
<1> QED BY <1>2, <1>3 DEF CreationInv

LEMMA CreationStep == CreationInv /\ OneCreationEach /\ [Next]_vars => CreationInv'
<1> SUFFICES ASSUME CreationInv, OneCreationEach, [Next]_vars PROVE CreationInv'
  OBVIOUS
<1>1. HistoryInv' /\ StatusInv /\ TypeOK
  BY HistoryStep DEF CreationInv, HistoryInv, StatusInv
<1>2. ASSUME UNCHANGED <<key, doc>>,
             \A r \in Requests : req'[r].phase = "inserting" => req'[r] = req[r]
      PROVE  CreationInv'
  BY <1>1, <1>2, CreationsKept
<1>3. ASSUME NEW r \in Requests, NEW k \in Keys, FindForCreate(r, k) PROVE CreationInv'
  <2>1. /\ UNCHANGED <<key, doc, audit>>
        /\ \A r2 \in Requests \ {r} : req'[r2] = req[r2]
        /\ req'[r].key = k
        /\ ~ \E s \in Sheets : key[s] = k /\ ~ doc[s].isDeleted
    BY <1>1, <1>3 DEF FindForCreate, Start, Inserting, TypeOK
  <2>2. \A s : Restored(s)' = Restored(s)
    BY <2>1 DEF Restored, At
  <2>3. CreationsClear'
    BY <2>1, <2>2 DEF CreationInv, CreationsClear
  <2>4. OneLiveUnlessRestored'
    BY <2>1 DEF CreationInv, OneLiveUnlessRestored, At
  <2> QED BY <1>1, <2>3, <2>4 DEF CreationInv
<1>4. ASSUME NEW r \in Requests, NEW s \in Sheets, InsertCreated(r, s) PROVE CreationInv'
  <2>1. PICK k \in Keys : k = req[r].key
    BY <1>1, <1>4 DEF InsertCreated, TypeOK, RequestRecord
  <2>2. /\ req[r].phase = "inserting"
        /\ key'[s] = k
        /\ \A t \in Sheets \ {s} : key'[t] = key[t] /\ doc'[t] = doc[t]
        /\ \A r2 \in Requests : req'[r2].phase = "inserting" => req'[r2] = req[r2] /\ r2 # r
    BY <1>1, <1>4, <2>1 DEF InsertCreated, TypeOK, Idle
  <2>3. \A t \in Sheets : Restored(t) => Restored(t)'
    BY LogsOnlyGrow DEF CreationInv, Restored
  <2>4. \A t \in Sheets \ {s} : key[t] = k /\ ~ doc[t].isDeleted => Restored(t)
    BY <2>1, <2>2 DEF CreationInv, CreationsClear
  <2>5. CreationsClear'
    <3> SUFFICES ASSUME NEW r2 \in Requests, req'[r2].phase = "inserting",
                        NEW t \in Sheets, key'[t] = req'[r2].key, ~ doc'[t].isDeleted
                 PROVE  Restored(t)'
      BY DEF CreationsClear
    <3>1. req'[r2] = req[r2] /\ req[r2].key # k
      BY <2>1, <2>2 DEF OneCreationEach
    <3>2. t # s
      BY <2>2, <3>1
    <3> QED BY <2>2, <2>3, <3>1, <3>2 DEF CreationInv, CreationsClear
  <2>6. OneLiveUnlessRestored'
    <3> SUFFICES ASSUME NEW t \in Sheets, NEW u \in Sheets, t # u, key'[t] = key'[u],
                        key'[t] # NoKey, ~ doc'[t].isDeleted, ~ doc'[u].isDeleted
                 PROVE  Restored(t)' \/ Restored(u)'
      BY DEF OneLiveUnlessRestored, Restored
    <3>1. CASE t # s /\ u # s
      BY <2>2, <2>3, <3>1 DEF CreationInv, OneLiveUnlessRestored, Restored
    <3>2. CASE t = s \/ u = s
      BY <2>2, <2>3, <2>4, <3>2
    <3> QED BY <3>1, <3>2
  <2> QED BY <1>1, <2>5, <2>6 DEF CreationInv
<1>5. ASSUME NEW r \in Requests, NEW s \in Sheets, ReadStep(r, s) PROVE CreationInv'
  <2>1. /\ \A r2 \in Requests \ {r} : req'[r2] = req[r2]
        /\ UNCHANGED <<key, doc>>
    BY <1>1, <1>5, ReadTotal
  <2>2. req'[r].phase # "inserting"
    <3>1. \E action \in Actions \ {"CREATE"}, new \in Doc, pushed \in Seq(EntryKinds) :
              Read(r, s, action, new, pushed)
      BY <1>1, <1>5, ReadCases
    <3> QED BY <1>1, <3>1 DEF Read, Start, Saving, TypeOK
  <2> QED BY <1>2, <2>1, <2>2
<1>6. ASSUME NEW r \in Requests, Save(r) PROVE CreationInv'
  <2>1. PICK q, s : /\ q = req[r] /\ s = q.sheet /\ s \in Sheets /\ q.action \in Actions
                    /\ PendingSave(q)
                    /\ doc'[s].isDeleted = IF q.action \in {"DELETE", "RESTORE"}
                                           THEN q.new.isDeleted ELSE doc[s].isDeleted
                    /\ \A t \in Sheets \ {s} : doc'[t] = doc[t]
                    /\ audit'[s] = Append(audit[s], q.action)
                    /\ \A r2 \in Requests \ {r} : req'[r2] = req[r2]
    BY <1>1, <1>6, SaveEffect DEF SavingRecord
  <2>2. UNCHANGED key /\ req'[r].phase # "inserting"
    BY <1>1, <1>6 DEF Save, TypeOK
  <2>3. ASSUME doc[s].isDeleted, ~ doc'[s].isDeleted PROVE Restored(s)'
    <3>1. q.action = "RESTORE"
      BY <2>1, <2>3 DEF PendingSave
    <3>2. audit[s] \in Seq(Actions)
      BY <1>1, <2>1 DEF TypeOK
    <3>3. Len(audit[s]) + 1 \in DOMAIN audit'[s] /\ audit'[s][Len(audit[s]) + 1] = "RESTORE"
      BY <2>1, <3>1, <3>2
    <3> QED BY <3>3 DEF Restored, At
  <2> QED BY <1>1, <2>1, <2>2, <2>3, CreationsKept
<1>7. ASSUME NEW r \in Requests, Enqueue(r) \/ Reply(r) \/ Abort(r) PROVE CreationInv'
  <2>1. UNCHANGED <<key, doc>> /\ \A r2 \in Requests \ {r} : req'[r2] = req[r2]
    BY <1>1, <1>7, NothingStored DEF Enqueue, Reply, Abort
  <2>2. req'[r].phase # "inserting"
    <3>1. CASE Enqueue(r)
      <4>1. req[r] \in [phase : {"enqueuing", "replying"}, sheet : Sheets]
        BY <1>1, <3>1 DEF Enqueue, TypeOK, RequestRecord
      <4> QED BY <1>1, <3>1, <4>1 DEF Enqueue, TypeOK
    <3>2. CASE Reply(r) \/ Abort(r)
      BY <1>1, <3>2 DEF Reply, Abort, TypeOK, Idle
    <3> QED BY <1>7, <3>1, <3>2
  <2> QED BY <1>2, <2>1, <2>2
<1>8. CASE UNCHANGED vars
  BY <1>2, <1>8 DEF vars
<1> QED BY <1>3, <1>4, <1>5, <1>6, <1>7, <1>8 DEF Next

\* While no two creations for one worker, job and week overlap, of two live
\* timesheets for them one was restored.
THEOREM OneLiveSheet == Spec /\ []OneCreationEach => []OneLiveUnlessRestored
<1>1. Init => CreationInv
  <2> SUFFICES ASSUME Init PROVE CreationInv
    OBVIOUS
  <2>1. \A s \in Sheets : key[s] = NoKey
    BY DEF Init
  <2>2. \A r \in Requests : req[r].phase = "idle"
    BY DEF Init, Idle
  <2> QED BY <2>1, <2>2, HistoryInit DEF CreationInv, CreationsClear, OneLiveUnlessRestored
<1>2. CreationInv => OneLiveUnlessRestored
  BY DEF CreationInv
<1> QED BY <1>1, <1>2, CreationStep, PTL DEF Spec

-----------------------------------------------------------------------------
(***************************************************************************)
(* Timesheets and payrolls over one database.  createPayroll asks for the  *)
(* stored status only; the audit log tells what the status stands for, and *)
(* goes on telling it whatever becomes of the timesheet.                   *)
(***************************************************************************)

SubmittedAndApproved(s) ==
    s \in Sheets /\ \E i \in At(s, "SUBMIT"), j \in At(s, "APPROVE") : i < j

\* An item of a payroll: the timesheet was approved, and the hours are a total
\* it has had.
Explained(s, hours) == SubmittedAndApproved(s) /\ KnownTotal(entries[s], hours)

\* What requests to create a payroll have collected, and what payrolls were
\* made from.
SystemInv ==
    /\ HistoryInv
    /\ TotalInv
    /\ DOMAIN items = Payrolls /\ DOMAIN call = PayrollRequests
    /\ \A r \in PayrollRequests : call[r].phase = "inserting" =>
          \A s \in DOMAIN call[r].items : Explained(s, call[r].items[s])
    /\ \A p \in Payrolls : \A s \in DOMAIN items[p] : Explained(s, items[p][s])

\* An approved timesheet was approved after its submission, and after every
\* time it went through payroll.
LEMMA ApprovedSheet ==
    ASSUME HistoryInv, NEW s \in Sheets, doc[s].status = "approved"
    PROVE  /\ SubmittedAndApproved(s)
           /\ \A k \in At(s, "PAYROLL_PROCESSED") : \E j \in At(s, "APPROVE") : k < j
<1>1. PICK i \in DOMAIN audit[s] :
          /\ audit[s][i] \in StatusActions
          /\ StatusOf[audit[s][i]] = "approved"
          /\ \A j \in DOMAIN audit[s] : j > i => audit[s][j] \notin StatusActions
  BY DEF HistoryInv, StatusInv, StatusIsAudited, Exists
<1>2. audit[s][i] = "APPROVE" /\ i \in At(s, "APPROVE")
  BY <1>1, StatusNames DEF At
<1>3. SubmittedAndApproved(s)
  BY <1>2 DEF HistoryInv, ApprovedAfterSubmission, SubmittedAndApproved
<1>4. ASSUME NEW k \in At(s, "PAYROLL_PROCESSED") PROVE k < i
  <2>1. k \in DOMAIN audit[s] /\ audit[s][k] = "PAYROLL_PROCESSED"
    BY DEF At
  <2>2. k # i /\ ~ k > i
    BY <1>1, <1>2, <2>1, StatusNames
  <2>3. DOMAIN audit[s] = 1..Len(audit[s])
    BY DEF HistoryInv, StatusInv, TypeOK
  <2> QED BY <2>1, <2>2, <2>3
<1> QED BY <1>2, <1>3, <1>4

\* The part of a step of payroll.service that the invariant is about: a request
\* collects approved timesheets, or inserts what it collected, or neither.
LEMMA PayrollStep ==
    ASSUME DOMAIN items = Payrolls, DOMAIN call = PayrollRequests, P!PayrollNext
    PROVE  /\ DOMAIN items' = Payrolls /\ DOMAIN call' = PayrollRequests
           /\ \A r \in PayrollRequests :
                  (call'[r] # call[r] /\ call'[r].phase = "inserting") =>
                      \A s \in DOMAIN call'[r].items :
                          /\ s \in Sheets /\ doc[s].status = "approved"
                          /\ call'[r].items[s] = doc[s].total
           /\ \A p \in Payrolls :
                  \/ items'[p] = items[p]
                  \/ \E r \in PayrollRequests : /\ call[r].phase = "inserting"
                                               /\ items'[p] = call[r].items
<1>1. ASSUME NEW r1 \in PayrollRequests, NEW t \in Periods, P!CollectForCreate(r1, t)
      PROVE  /\ items' = items /\ DOMAIN call' = PayrollRequests
             /\ \A r \in PayrollRequests \ {r1} : call'[r] = call[r]
             /\ \A s \in DOMAIN call'[r1].items :
                    /\ s \in Sheets /\ doc[s].status = "approved"
                    /\ call'[r1].items[s] = doc[s].total
  <2>1. /\ items' = items
        /\ call' = [call EXCEPT ![r1] = [phase |-> "inserting",
                        items |-> [s \in P!Collected(t) |-> SheetSeen[s].hours]]]
    BY <1>1 DEF P!CollectForCreate, P!Start
  <2>2. \A s \in P!Collected(t) : /\ s \in Sheets /\ doc[s].status = "approved"
                                 /\ SheetSeen[s].hours = doc[s].total
    BY DEF P!Collected, SheetSeen
  <2> QED BY <2>1, <2>2
<1>2. ASSUME NEW r1 \in PayrollRequests, NEW p \in Payrolls, P!InsertCreated(r1, p)
      PROVE  /\ DOMAIN items' = Payrolls /\ DOMAIN call' = PayrollRequests
             /\ \A r \in PayrollRequests \ {r1} : call'[r] = call[r]
             /\ call'[r1].phase # "inserting" /\ call[r1].phase = "inserting"
             /\ \A q \in Payrolls : items'[q] = items[q] \/ items'[q] = call[r1].items
  BY <1>2 DEF P!InsertCreated, P!Idle
<1>3. ASSUME NEW r1 \in PayrollRequests, NEW p \in Payrolls, P!ReadStep(r1, p)
      PROVE  /\ items' = items /\ DOMAIN call' = PayrollRequests
             /\ \A r \in PayrollRequests \ {r1} : call'[r] = call[r]
             /\ call'[r1].phase # "inserting"
  <2>1. ASSUME NEW op, NEW update, P!Read(r1, p, op, update)
        PROVE  /\ items' = items /\ DOMAIN call' = PayrollRequests
               /\ \A r \in PayrollRequests \ {r1} : call'[r] = call[r]
               /\ call'[r1].phase # "inserting"
    BY <2>1 DEF P!Read, P!Start
  <2>2. \E op, update : P!Read(r1, p, op, update)
    BY <1>3 DEF P!ReadStep, P!ReadApprovePayroll, P!ReadProcessPayment,
                P!ReadRecordPaymentFailure, P!ReadUpdateTaxCode
  <2> QED BY <2>1, <2>2
<1>4. ASSUME NEW r1 \in PayrollRequests, P!Save(r1) \/ P!Abort(r1)
      PROVE  /\ items' = items /\ DOMAIN call' = PayrollRequests
             /\ \A r \in PayrollRequests \ {r1} : call'[r] = call[r]
             /\ call'[r1].phase # "inserting"
  BY <1>4 DEF P!Save, P!Abort, P!Idle
<1> QED BY <1>1, <1>2, <1>3, <1>4 DEF P!PayrollNext

LEMMA SystemStep == SystemInv /\ [SystemNext]_SystemVars => SystemInv'
<1> SUFFICES ASSUME SystemInv, [SystemNext]_SystemVars PROVE SystemInv'
  OBVIOUS
<1>1. [Next]_vars
  BY DEF SystemNext, SystemVars
<1>2. HistoryInv /\ HistoryInv' /\ TotalInv /\ TotalInv'
  BY <1>1, HistoryStep, TotalStep DEF SystemInv
<1>3. ASSUME NEW s, NEW hours, Explained(s, hours) PROVE Explained(s, hours)'
  <2>1. SubmittedAndApproved(s)' /\ s \in Sheets
    BY <1>1, <1>2, <1>3, LogsOnlyGrow DEF Explained, SubmittedAndApproved
  <2>2. entries[s] \in Seq(EntryKinds)
    BY <1>2, <2>1 DEF TotalInv, TypeOK
  <2>3. PICK p \in Seq(EntryKinds) : entries'[s] = entries[s] \o p
    BY <1>1, <1>2, <2>1, EntriesOnlyGrow DEF TotalInv
  <2>4. KnownTotal(entries[s] \o p, hours)
    BY <1>3, <2>2, KnownGrows DEF Explained
  <2>5. KnownTotal(entries[s], hours)'
    BY <2>3, <2>4
  <2> QED BY <2>1, <2>5 DEF Explained
<1>4. CASE UNCHANGED payrollVars
  BY <1>2, <1>3, <1>4 DEF SystemInv, payrollVars
<1>5. CASE P!PayrollNext
  <2>1. DOMAIN items = Payrolls /\ DOMAIN call = PayrollRequests
    BY DEF SystemInv
  <2>2. /\ DOMAIN items' = Payrolls /\ DOMAIN call' = PayrollRequests
        /\ \A r \in PayrollRequests :
               (call'[r] # call[r] /\ call'[r].phase = "inserting") =>
                   \A s \in DOMAIN call'[r].items :
                       /\ s \in Sheets /\ doc[s].status = "approved"
                       /\ call'[r].items[s] = doc[s].total
        /\ \A p \in Payrolls :
               \/ items'[p] = items[p]
               \/ \E r \in PayrollRequests : /\ call[r].phase = "inserting"
                                            /\ items'[p] = call[r].items
    BY <1>5, <2>1, PayrollStep
  <2>3. \A s \in Sheets : doc[s].status = "approved" => Explained(s, doc[s].total)
    BY <1>2, ApprovedSheet DEF TotalInv, Explained
  <2>4. \A r \in PayrollRequests : call'[r].phase = "inserting" =>
            \A s \in DOMAIN call'[r].items : Explained(s, call'[r].items[s])
    BY <2>2, <2>3 DEF SystemInv
  <2>5. \A p \in Payrolls : \A s \in DOMAIN items'[p] : Explained(s, items'[p][s])
    BY <2>2 DEF SystemInv
  <2> QED BY <1>2, <1>3, <2>2, <2>4, <2>5 DEF SystemInv
<1> QED BY <1>4, <1>5 DEF SystemNext, SystemVars

LEMMA SystemInvariant == SystemSpec => []SystemInv
<1>1. SystemInit => SystemInv
  <2> SUFFICES ASSUME SystemInit PROVE SystemInv
    OBVIOUS
  <2>1. HistoryInv /\ TotalInv
    BY HistoryInit, TotalInit DEF SystemInit
  <2>2. /\ DOMAIN items = Payrolls /\ DOMAIN call = PayrollRequests
        /\ \A r \in PayrollRequests : call[r].phase = "idle"
        /\ \A p \in Payrolls : DOMAIN items[p] = {}
    BY DEF SystemInit, P!PayrollInit, P!Idle
  <2> QED BY <2>1, <2>2 DEF SystemInv
<1> QED BY <1>1, SystemStep, PTL DEF SystemSpec

\* Every timesheet a payroll was calculated from had been submitted and then
\* approved, and its hours are those of entries that were on it, however many
\* requests overlap in either service.
THEOREM PayrollsAreExplained == SystemSpec => []ItemsExplained
<1>1. SystemInv => ItemsExplained
  <2> SUFFICES ASSUME SystemInv PROVE ItemsExplained
    OBVIOUS
  <2>1. ItemsWereApproved
    BY DEF SystemInv, ItemsWereApproved, Explained, SubmittedAndApproved
  <2>2. ItemHoursAreEntries
    BY DEF SystemInv, ItemHoursAreEntries, Explained, KnownTotal
  <2> QED BY <2>1, <2>2 DEF ItemsExplained
<1> QED BY <1>1, SystemInvariant, PTL

\* A timesheet that was marked as processed is collected again only if an
\* approval was saved after the mark, however many requests overlap.
THEOREM MarkedCollectedOnlyAfterApproval == SystemSpec => ProcessedNotCollected
<1> DEFINE NotCollected ==
             \A r \in PayrollRequests :
                (call'[r] # call[r] /\ call'[r].phase = "inserting") =>
                    \A s \in DOMAIN call'[r].items : \A k \in At(s, "PAYROLL_PROCESSED") :
                        \E j \in At(s, "APPROVE") : k < j
<1>1. ASSUME SystemInv, [SystemNext]_SystemVars PROVE [NotCollected]_SystemVars
  <2>1. CASE UNCHANGED payrollVars
    BY <2>1 DEF payrollVars
  <2>2. CASE P!PayrollNext
    <3>1. DOMAIN items = Payrolls /\ DOMAIN call = PayrollRequests /\ HistoryInv
      BY <1>1 DEF SystemInv
    <3>2. \A r \in PayrollRequests :
             (call'[r] # call[r] /\ call'[r].phase = "inserting") =>
                 \A s \in DOMAIN call'[r].items :
                     /\ s \in Sheets /\ doc[s].status = "approved"
                     /\ call'[r].items[s] = doc[s].total
      BY <2>2, <3>1, PayrollStep
    <3> QED BY <3>1, <3>2, ApprovedSheet
  <2> QED BY <1>1, <2>1, <2>2 DEF SystemNext, SystemVars
<1> QED BY <1>1, SystemInvariant, PTL DEF SystemSpec, ProcessedNotCollected

-----------------------------------------------------------------------------
(***************************************************************************)
(* Each service in the system does what it does alone.  A step of the      *)
(* other one changes nothing of the timesheet service, and at most one     *)
(* timesheet for the payroll service, which expects that at any time.      *)
(***************************************************************************)

\* Alone, the timesheet service does the steps it does in the system.
THEOREM TimesheetsInSystem == SystemSpec => Spec
<1>1. SystemInit => Init
  BY DEF SystemInit
<1>2. [SystemNext]_SystemVars => [Next]_vars
  BY DEF SystemNext, SystemVars
<1> QED BY <1>1, <1>2, PTL DEF SystemSpec, Spec

\* Of two live timesheets for one worker, job and week, one was restored.
THEOREM OneLiveSheetInSystem == SystemSpec /\ []OneCreationEach => []OneLiveUnlessRestored
BY TimesheetsInSystem, OneLiveSheet, PTL

\* The weeks payroll.service may read, identities not in use included.
WeeksSeen == {Week[k] : k \in Keys \cup {NoKey}} \cup {CHOOSE w \in WeekStarts : TRUE}

\* payroll.service, over timesheets of any hours.
PP == INSTANCE PayrollProofs
      WITH TaxCodes <- {}, NoTaxCode <- "none", Requests <- PayrollRequests,
           sheet <- SheetSeen, HourTotals <- Int, WeekStarts <- WeeksSeen

LEMMA SeenType == TypeOK => SheetSeen \in [Sheets -> PP!SheetRecord]
<1> SUFFICES ASSUME TypeOK, NEW s \in Sheets
             PROVE  [approved |-> doc[s].status = "approved",
                     week     |-> IF Exists(s) THEN Week[key[s]]
                                  ELSE CHOOSE w \in WeekStarts : TRUE,
                     hours    |-> doc[s].total] \in PP!SheetRecord
  BY DEF SheetSeen
<1>1. doc[s].total \in Int
  BY DEF TypeOK, Doc
<1>2. Week[key[s]] \in WeeksSeen /\ (CHOOSE w \in WeekStarts : TRUE) \in WeeksSeen
  BY DEF TypeOK, WeeksSeen
<1> QED BY <1>1, <1>2 DEF PP!SheetRecord

\* A step of timesheet.service changes at most one timesheet.
LEMMA OneSheetChanges ==
    ASSUME TypeOK, Next
    PROVE  \/ UNCHANGED <<key, doc>>
           \/ \E s \in Sheets : \A t \in Sheets \ {s} : doc'[t] = doc[t] /\ key'[t] = key[t]
<1>1. ASSUME NEW r \in Requests, NEW s \in Sheets, InsertCreated(r, s)
      PROVE  \A t \in Sheets \ {s} : doc'[t] = doc[t] /\ key'[t] = key[t]
  BY <1>1 DEF InsertCreated, TypeOK
<1>2. ASSUME NEW r \in Requests, NEW s \in Sheets, ReadStep(r, s) PROVE UNCHANGED <<key, doc>>
  BY <1>2, ReadTotal
<1>3. ASSUME NEW r \in Requests, Save(r)
      PROVE  \E s \in Sheets : \A t \in Sheets \ {s} : doc'[t] = doc[t] /\ key'[t] = key[t]
  BY <1>3, SaveTotal DEF Save, SavingRecord
<1> QED BY <1>1, <1>2, <1>3 DEF Next, FindForCreate, Start, Enqueue, Reply, Abort

\* The timesheets are changed one at a time, as payroll.service expects.
LEMMA SheetStep ==
    ASSUME TypeOK, TypeOK', [Next]_vars, UNCHANGED payrollVars
    PROVE  [PP!Next]_PP!vars
<1> SUFFICES ASSUME SheetSeen' # SheetSeen PROVE \E s \in Sheets : PP!SheetChanges(s)
  BY DEF PP!Next, PP!vars, payrollVars
<1>1. PICK s \in Sheets : \A t \in Sheets \ {s} : doc'[t] = doc[t] /\ key'[t] = key[t]
  <2>1. ~ UNCHANGED <<key, doc>>
    BY DEF SheetSeen, Exists
  <2> QED BY <2>1, OneSheetChanges DEF vars
<1>2. SheetSeen' = [SheetSeen EXCEPT ![s] = SheetSeen'[s]]
  BY <1>1 DEF SheetSeen, Exists
<1>3. SheetSeen'[s] \in PP!SheetRecord
  <2>1. (TypeOK => SheetSeen \in [Sheets -> PP!SheetRecord])'
    BY SeenType, PTL
  <2>2. SheetSeen' \in [Sheets -> PP!SheetRecord]
    BY <2>1 DEF PP!SheetRecord, WeeksSeen
  <2> QED BY <2>2
<1>4. UNCHANGED <<payroll, items, log, call>>
  BY DEF payrollVars
<1> QED BY <1>2, <1>3, <1>4 DEF PP!SheetChanges

\* A step of payroll.service in the system is one it does alone.
LEMMA SamePayrollStep == P!PayrollNext => PP!PayrollNext
<1>1. ASSUME NEW r \in PayrollRequests, NEW t \in Periods, P!CollectForCreate(r, t)
      PROVE  PP!CollectForCreate(r, t)
  BY <1>1 DEF P!CollectForCreate, PP!CollectForCreate, P!ValidPeriod, PP!ValidPeriod,
              P!Collected, PP!Collected, P!Start, PP!Start, P!Idle, PP!Idle
<1>2. ASSUME NEW r \in PayrollRequests, NEW p \in Payrolls, P!InsertCreated(r, p)
      PROVE  PP!InsertCreated(r, p)
  BY <1>2 DEF P!InsertCreated, PP!InsertCreated, P!Exists, PP!Exists, P!NewDoc, PP!NewDoc,
              P!NoDoc, PP!NoDoc, P!Idle, PP!Idle
<1>3. ASSUME NEW r \in PayrollRequests, NEW p \in Payrolls, P!ReadStep(r, p)
      PROVE  PP!ReadStep(r, p)
  BY <1>3 DEF P!ReadStep, PP!ReadStep, P!ReadApprovePayroll, PP!ReadApprovePayroll,
              P!ReadProcessPayment, PP!ReadProcessPayment,
              P!ReadRecordPaymentFailure, PP!ReadRecordPaymentFailure,
              P!Read, PP!Read, P!Exists, PP!Exists, P!Start, PP!Start, P!Idle, PP!Idle,
              P!KeepAll, PP!KeepAll
<1>4. ASSUME NEW r \in PayrollRequests, P!Save(r) PROVE PP!Save(r)
  BY <1>4 DEF P!Save, PP!Save, P!Apply, PP!Apply, P!Put, PP!Put, P!Idle, PP!Idle
<1>5. ASSUME NEW r \in PayrollRequests, P!Abort(r) PROVE PP!Abort(r)
  BY <1>5 DEF P!Abort, PP!Abort, P!Idle, PP!Idle
<1> QED BY <1>1, <1>2, <1>3, <1>4, <1>5 DEF P!PayrollNext, PP!PayrollNext

\* In the system the payroll service does the steps it does alone, over the
\* timesheets as it sees them.
THEOREM PayrollsInSystem == SystemSpec => PP!Spec
<1>1. SystemInit => PP!Init
  <2> SUFFICES ASSUME SystemInit PROVE PP!Init
    OBVIOUS
  <2>1. SheetSeen \in [Sheets -> PP!SheetRecord]
    BY TypeInit, SeenType DEF SystemInit
  <2>2. PP!PayrollInit
    BY DEF SystemInit, P!PayrollInit, PP!PayrollInit, P!NoDoc, PP!NoDoc, P!Idle, PP!Idle
  <2> QED BY <2>1, <2>2 DEF PP!Init
<1>2. TypeOK /\ TypeOK' /\ [SystemNext]_SystemVars => [PP!Next]_PP!vars
  <2> SUFFICES ASSUME TypeOK, TypeOK', [SystemNext]_SystemVars PROVE [PP!Next]_PP!vars
    OBVIOUS
  <2>1. CASE [Next]_vars /\ UNCHANGED payrollVars
    BY <2>1, SheetStep
  <2>2. CASE P!PayrollNext
    BY <2>2, SamePayrollStep DEF PP!Next
  <2> QED BY <2>1, <2>2 DEF SystemNext, SystemVars
<1> QED BY <1>1, <1>2, TimesheetsInSystem, TypeCorrect, PTL DEF SystemSpec, PP!Spec

\* No two requests hold unsaved copies of one payroll.
OneCopyOfPayroll == PP!OneCopyEach

\* While timesheets change under it, and no two requests hold unsaved copies of
\* one payroll, every operation of payroll.service finds the payroll in the
\* status it asks for.
THEOREM PayrollsRefineStrictLifecycle ==
    SystemSpec /\ []OneCopyOfPayroll => PayrollImplementsStrictLifecycle
<1>1. PP!Spec /\ []OneCopyOfPayroll => PP!ImplementsStrictLifecycle
  BY PP!PayrollRefinesStrictLifecycle DEF OneCopyOfPayroll
<1> USE DEF PP!StatusesSeen, P!StatusesSeen, PP!At, P!At
<1>2. PP!Lifecycle!Init => P!Lifecycle!Init
  BY DEF PP!Lifecycle!Init, P!Lifecycle!Init
<1>3. [PP!Lifecycle!StrictNext]_PP!Lifecycle!vars => [P!Lifecycle!StrictNext]_P!Lifecycle!vars
  BY DEF PP!Lifecycle!StrictNext, P!Lifecycle!StrictNext,
         PP!Lifecycle!vars, P!Lifecycle!vars,
         PP!Lifecycle!Create, P!Lifecycle!Create,
         PP!Lifecycle!StrictMove, P!Lifecycle!StrictMove, PP!Lifecycle!Move, P!Lifecycle!Move,
         PP!Lifecycle!SetStatus, P!Lifecycle!SetStatus, PP!Moves, P!Moves
<1> QED BY <1>1, <1>2, <1>3, PayrollsInSystem, PTL
        DEF PayrollImplementsStrictLifecycle, P!ImplementsStrictLifecycle,
            PP!ImplementsStrictLifecycle, P!Lifecycle!StrictSpec, PP!Lifecycle!StrictSpec
=============================================================================
