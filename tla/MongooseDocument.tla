--------------------------- MODULE MongooseDocument ---------------------------
(***************************************************************************)
(* One document of a Mongoose model, and requests that work on copies of   *)
(* it:                                                                     *)
(*                                                                         *)
(*     findById  ->  a method of the model on the copy  ->  save           *)
(*                                                                         *)
(* Other requests run between the two awaits. The modules of the models    *)
(* extend this one: each method of a model is one action there, made of    *)
(* Change, and its save is SaveCopy.                                       *)
(*                                                                         *)
(* A save sends the paths that differ from the copy as it was read:        *)
(*   - a scalar path, or an array that was assigned as a whole, as it is;  *)
(*   - elements that were pushed, to be appended;                          *)
(*   - changed paths of array elements, by the places of the elements.     *)
(* The version of the document is compared with the copy's if an array is  *)
(* assigned or an element changed, and counted up if an array is assigned  *)
(* or pushed to.                                                           *)
(***************************************************************************)
EXTENDS Integers, Sequences, FiniteSets

CONSTANTS
    Requests,   \* request slots
    Nothing,    \* no copy in a slot, no document in the database
    MaxSaves    \* bound: changes of the stored document

VARIABLES
    stored,     \* the document in the database; its paths are the fields
    copy,       \* copy[r]: the copy request slot r works on
    world,      \* what a model keeps beside the document: clock and history
    saves       \* how often the stored document was changed

document == <<stored, copy, world, saves>>

-----------------------------------------------------------------------------
\* op: the method; old and new: the paths as read and as they are when save is
\* called; whole: the arrays the method assigned.
Copy(op, new, whole) == [op |-> op, old |-> stored, new |-> new, whole |-> whole]

NoCopies == [r \in Requests |-> Nothing]

\* findById, the guards and assignments of a method, and the hooks of the save.
\* A guard that fails is a request that changes nothing.
Change(r, op, new, whole) ==
    /\ copy[r] = Nothing
    /\ stored # Nothing
    /\ copy' = [copy EXCEPT ![r] = Copy(op, new, whole)]
    /\ UNCHANGED <<stored, world, saves>>

\* The places of a that are in the copy as it was read.
Places(q, a) == 1..Len(q.old[a])

Pushed(q, a) == SubSeq(q.new[a], Len(q.old[a]) + 1, Len(q.new[a]))

ElementsChanged(q, a) ==
    a \notin q.whole /\ \E i \in Places(q, a) : q.new[a][i] # q.old[a][i]

ComparesVersion(q, arrays) == q.whole # {} \/ \E a \in arrays : ElementsChanged(q, a)

CountsVersion(q, arrays) == q.whole # {} \/ \E a \in arrays : Pushed(q, a) # <<>>

\* Faulty variant of Accepted: versions are not compared.
AcceptedAny(q, arrays) == stored # Nothing

Accepted(q, arrays) == ComparesVersion(q, arrays) => q.old.version = stored.version

\* The paths of one array element.
MergedElement(old, new, element) ==
    [f \in DOMAIN element |-> IF old[f] = new[f] THEN element[f] ELSE new[f]]

MergedArray(q, a) ==
    [i \in DOMAIN stored[a] |->
        IF i \in Places(q, a) /\ q.old[a][i] # q.new[a][i]
        THEN MergedElement(q.old[a][i], q.new[a][i], stored[a][i])
        ELSE stored[a][i]] \o Pushed(q, a)

Merged(q, arrays) ==
    [f \in DOMAIN stored |->
        CASE f = "version" -> stored.version + (IF CountsVersion(q, arrays) THEN 1 ELSE 0)
          [] f \in q.whole -> q.new[f]
          [] f \in arrays \ q.whole -> MergedArray(q, f)
          [] f \notin arrays \cup {"version"} ->
                 IF q.old[f] = q.new[f] THEN stored[f] ELSE q.new[f]]

\* save: what was changed is merged into the stored document; w is the world then.
SaveCopy(r, arrays, w) ==
    /\ copy[r] # Nothing
    /\ stored # Nothing
    /\ saves < MaxSaves
    /\ Accepted(copy[r], arrays)
    /\ stored' = Merged(copy[r], arrays)
    /\ copy' = [copy EXCEPT ![r] = Nothing]
    /\ world' = w
    /\ saves' = saves + 1

\* updateOne, updateMany, findByIdAndUpdate: one atomic change by the database.
UpdateStored(new, w) ==
    /\ stored # Nothing
    /\ saves < MaxSaves
    /\ stored' = new
    /\ world' = w
    /\ saves' = saves + 1
    /\ UNCHANGED copy

\* The request ends before its save: a crash, a refused save, a lost connection.
AbortCopy(r) ==
    /\ copy[r] # Nothing
    /\ copy' = [copy EXCEPT ![r] = Nothing]
    /\ UNCHANGED <<stored, world, saves>>

\* Something else than the document changes: time passes.
WorldChanges(w) ==
    /\ world # w
    /\ world' = w
    /\ UNCHANGED <<stored, copy, saves>>

\* The copies are of documents of the type D.
CopiesTyped(D) ==
    \A r \in Requests : copy[r] # Nothing =>
        /\ copy[r].old \in D
        /\ copy[r].new \in D
=============================================================================
