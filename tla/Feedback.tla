------------------------------- MODULE Feedback -------------------------------
(***************************************************************************)
(* models/Feedback.ts: status, resolution, responses and follow-up of one  *)
(* feedback. Its rating is calculated when it is created and never again;  *)
(* it is left out.                                                         *)
(*                                                                         *)
(* world.responded: how many responses were saved.                         *)
(***************************************************************************)
EXTENDS MongooseDocument

Statuses == {"pending", "reviewed", "responded", "resolved", "archived", "flagged"}

Arrays == {"responses"}

\* The date a method writes; 0 is no date. No two saves have one date.
Now == saves + 1

Feedback == [status : Statuses, isResolved : BOOLEAN, resolvedAt : Nat,
             responses : Seq(Nat), requiresFollowUp : BOOLEAN, followUpDate : Nat,
             followUpCompleted : BOOLEAN, version : Nat]

\* The hook of the save that updates the status of what is resolved.
Resolved(d) == IF d.isResolved THEN [d EXCEPT !.status = "resolved"] ELSE d

Do(r, op, d) == Change(r, op, Resolved(d), {})

-----------------------------------------------------------------------------
(* Faulty variants; none of them takes part in Spec. *)

\* updateStatus takes the date away from whatever is not resolved.
UpdateStatusDateless(r, status) ==
    Do(r, "updateStatus",
       IF status = "resolved"
       THEN [stored EXCEPT !.status = status, !.isResolved = TRUE]
       ELSE [stored EXCEPT !.status = status, !.isResolved = FALSE, !.resolvedAt = 0])

\* addResponse sets the status of what is resolved, and there is no hook for it.
RespondToResolved(r) ==
    Change(r, "addResponse",
           [stored EXCEPT !.responses = Append(@, Now), !.status = "responded"], {})

-----------------------------------------------------------------------------
AddResponse(r) ==
    Do(r, "addResponse",
       [stored EXCEPT !.responses = Append(@, Now),
                      !.status = IF @ = "resolved" THEN @ ELSE "responded"])

\* The hook gives a resolved feedback its status back.
MarkAsReviewed(r) == Do(r, "markAsReviewed", [stored EXCEPT !.status = "reviewed"])

MarkAsResolved(r) ==
    Do(r, "markAsResolved",
       [stored EXCEPT !.status = "resolved", !.isResolved = TRUE, !.resolvedAt = Now])

\* Another status than resolved takes the resolution back.
UpdateStatus(r, status) ==
    Do(r, "updateStatus",
       IF status = "resolved"
       THEN [stored EXCEPT !.status = status, !.isResolved = TRUE, !.resolvedAt = Now]
       ELSE [stored EXCEPT !.status = status, !.isResolved = FALSE,
                           !.resolvedAt = IF stored.isResolved THEN 0 ELSE @])

\* The priority itself is left out; the hook runs.
SetPriority(r) == Do(r, "setPriority", stored)

ScheduleFollowUp(r) ==
    Do(r, "scheduleFollowUp",
       [stored EXCEPT !.requiresFollowUp = TRUE, !.followUpDate = Now,
                      !.followUpCompleted = FALSE])

CompleteFollowUp(r) ==
    /\ stored.requiresFollowUp
    /\ Do(r, "completeFollowUp", [stored EXCEPT !.followUpCompleted = TRUE])

Save(r) ==
    /\ copy[r] # Nothing
    /\ SaveCopy(r, Arrays, [responded |-> world.responded
                                          + (IF copy[r].op = "addResponse" THEN 1 ELSE 0)])

-----------------------------------------------------------------------------
Init == /\ stored = [status |-> "pending", isResolved |-> FALSE, resolvedAt |-> 0,
                     responses |-> <<>>, requiresFollowUp |-> FALSE, followUpDate |-> 0,
                     followUpCompleted |-> FALSE, version |-> 0]
        /\ copy = NoCopies
        /\ world = [responded |-> 0]
        /\ saves = 0

Next == \E r \in Requests :
            \/ AddResponse(r)
            \/ MarkAsReviewed(r)
            \/ MarkAsResolved(r)
            \/ \E status \in Statuses : UpdateStatus(r, status)
            \/ SetPriority(r)
            \/ ScheduleFollowUp(r)
            \/ CompleteFollowUp(r)
            \/ Save(r)
            \/ AbortCopy(r)

Spec == Init /\ [][Next]_document

-----------------------------------------------------------------------------
\* Every variable has its type.
TypeOK == /\ stored \in Feedback
          /\ CopiesTyped(Feedback)
          /\ world \in [responded : Nat]
          /\ saves \in 0..MaxSaves

\* No response is lost, however many are added at once.
ResponsesKept == Len(stored.responses) = world.responded

\* What is resolved has the date of its resolution: of two requests one of which
\* takes the resolution back, none leaves the mark without the date. And what was
\* completed was scheduled.
ResolutionDated ==
    /\ stored.isResolved => stored.resolvedAt # 0
    /\ stored.followUpCompleted => stored.requiresFollowUp

\* A feedback that is resolved gets another status and stays marked as resolved
\* only by a save whose copy is older than the resolution.
ResolvedOverwrittenByOlderCopy ==
    (stored.isResolved /\ stored.status = "resolved"
       /\ stored'.isResolved /\ stored'.status # "resolved")
      => \E r \in Requests : /\ copy[r] # Nothing
                             /\ copy'[r] = Nothing
                             /\ ~ copy[r].old.isResolved
=============================================================================
