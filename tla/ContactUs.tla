------------------------------- MODULE ContactUs -------------------------------
(***************************************************************************)
(* models/ContactUs.ts: status, assignment and notes of one submission of  *)
(* the contact form. Nothing in the models gives a submission the statuses *)
(* REPLIED and ARCHIVED; replies are documents of their own.               *)
(*                                                                         *)
(* world.noted: how many notes were saved.                                 *)
(***************************************************************************)
EXTENDS MongooseDocument

Statuses == {"NEW", "VIEWED", "IN_PROGRESS", "RESOLVED", "CLOSED", "SPAM"}

Over == {"RESOLVED", "CLOSED", "SPAM"}

Arrays == {"internalNotes"}

\* The date a method writes; 0 is no date. No two saves have one date.
Now == saves + 1

ContactUs == [status : Statuses, assigned : BOOLEAN, internalNotes : Seq(Nat),
              viewedAt : Nat, resolvedAt : Nat, closedAt : Nat, version : Nat]

-----------------------------------------------------------------------------
(* A faulty variant; it takes no part in Spec. *)

\* Whoever views a submission makes it VIEWED.
ViewAgain(r) ==
    Change(r, "markAsViewed", [stored EXCEPT !.status = "VIEWED", !.viewedAt = Now], {})

-----------------------------------------------------------------------------
MarkAsViewed(r) ==
    Change(r, "markAsViewed",
           [stored EXCEPT !.status = IF @ = "NEW" THEN "VIEWED" ELSE @, !.viewedAt = Now], {})

AssignTo(r) ==
    Change(r, "assignTo",
           [stored EXCEPT !.assigned = TRUE,
                          !.status = IF @ \in {"NEW", "VIEWED"} THEN "IN_PROGRESS" ELSE @], {})

AddInternalNote(r) ==
    Change(r, "addInternalNote", [stored EXCEPT !.internalNotes = Append(@, Now)], {})

MarkAsResolved(r) ==
    Change(r, "markAsResolved", [stored EXCEPT !.status = "RESOLVED", !.resolvedAt = Now], {})

\* markAsClosed, markAsSpam
Close(r, status) ==
    Change(r, "close", [stored EXCEPT !.status = status, !.closedAt = Now], {})

Save(r) ==
    /\ copy[r] # Nothing
    /\ SaveCopy(r, Arrays, [noted |-> world.noted
                                      + (IF copy[r].op = "addInternalNote" THEN 1 ELSE 0)])

-----------------------------------------------------------------------------
Init == /\ stored = [status |-> "NEW", assigned |-> FALSE, internalNotes |-> <<>>,
                     viewedAt |-> 0, resolvedAt |-> 0, closedAt |-> 0, version |-> 0]
        /\ copy = NoCopies
        /\ world = [noted |-> 0]
        /\ saves = 0

Next == \E r \in Requests :
            \/ MarkAsViewed(r)
            \/ AssignTo(r)
            \/ AddInternalNote(r)
            \/ MarkAsResolved(r)
            \/ \E status \in {"CLOSED", "SPAM"} : Close(r, status)
            \/ Save(r)
            \/ AbortCopy(r)

Spec == Init /\ [][Next]_document

-----------------------------------------------------------------------------
\* Every variable has its type.
TypeOK == /\ stored \in ContactUs
          /\ CopiesTyped(ContactUs)
          /\ world \in [noted : Nat]
          /\ saves \in 0..MaxSaves

\* No note is lost, however many are added at once.
NotesKept == Len(stored.internalNotes) = world.noted

\* A submission that is over has the date of it, and one in progress was assigned,
\* however the methods overlap.
StatusDated ==
    /\ stored.status = "RESOLVED" => stored.resolvedAt # 0
    /\ stored.status \in {"CLOSED", "SPAM"} => stored.closedAt # 0
    /\ stored.status = "IN_PROGRESS" => stored.assigned

\* A submission that is over is open again only by a view or an assignment that
\* read it before.
ReopenedByOlderCopy ==
    (stored.status \in Over /\ stored'.status \notin Over)
      => \E r \in Requests : /\ copy[r] # Nothing
                             /\ copy'[r] = Nothing
                             /\ copy[r].old.status \notin Over
=============================================================================
