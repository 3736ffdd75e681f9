------------------------------ MODULE Lifecycle ------------------------------
(***************************************************************************)
(* What a service promises about the status of its documents, without      *)
(* requests, copies or saves.                                              *)
(*                                                                         *)
(* Every operation that writes a status asks for a status first.  Two      *)
(* promises are stated:                                                    *)
(*                                                                         *)
(*   StrictSpec  an operation finds the document in the status it asks     *)
(*               for;                                                      *)
(*   Spec        the status it asks for is one that the document has had,  *)
(*               now or earlier.                                           *)
(*                                                                         *)
(* Services whose guards look at a copy of the document, and whose save    *)
(* does not compare the copy with the document, keep StrictSpec when their *)
(* requests are served one at a time and Spec when they overlap.           *)
(***************************************************************************)
CONSTANTS
    Docs,    \* the identities of documents
    First,   \* the statuses a document may be created in
    Moves    \* the operations: records of the status asked for, and written

VARIABLES
    status,  \* status[d]: the stored status, "none" before creation
    seen     \* seen[d]: every status d has had

vars == <<status, seen>>

Init == /\ status = [d \in Docs |-> "none"]
        /\ seen = [d \in Docs |-> {}]

SetStatus(d, to) == /\ status' = [status EXCEPT ![d] = to]
                    /\ seen' = [seen EXCEPT ![d] = @ \cup {to}]

Create(d) == /\ status[d] = "none"
             /\ \E to \in First : SetStatus(d, to)

Move(d, m) == /\ m.from \in seen[d]
              /\ SetStatus(d, m.to)

StrictMove(d, m) == /\ status[d] = m.from
                    /\ Move(d, m)

Next == \E d \in Docs : Create(d) \/ \E m \in Moves : Move(d, m)

Spec == Init /\ [][Next]_vars

StrictNext == \E d \in Docs : Create(d) \/ \E m \in Moves : StrictMove(d, m)

StrictSpec == Init /\ [][StrictNext]_vars
=============================================================================
