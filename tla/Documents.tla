------------------------------- MODULE Documents -------------------------------
(***************************************************************************)
(* services/document.service.ts over models/Document.ts: verification and  *)
(* compliance, expiry and shares of one document, and the sweep over       *)
(* expiry dates. The counters of views and downloads are left out.         *)
(*                                                                         *)
(* world.today: the day; sweep: what checkDocumentExpiry has still to do   *)
(* with the document it collected; shared, revoked: how many shares were   *)
(* saved and taken away.                                                   *)
(***************************************************************************)
EXTENDS MongooseDocument

CONSTANTS
    Users,      \* users a document is shared with
    LastDay,    \* bound: the last day
    Reminder    \* how many days before its expiry date a reminder is sent

Statuses == {"pending", "verified", "rejected", "expired"}

ComplianceOf == [status \in Statuses |->
                    CASE status = "pending"  -> "pending_review"
                      [] status = "verified" -> "compliant"
                      [] status = "rejected" -> "non_compliant"
                      [] status = "expired"  -> "expired"]

\* The day behind the last one stands for no expiry date.
Dates == 0..LastDay + 1

Document == [status : Statuses, compliance : {ComplianceOf[s] : s \in Statuses},
             expiry : Dates, reminded : BOOLEAN,
             sharedWith : Seq(Users), shareCount : Nat, version : Nat]

Arrays == {"sharedWith"}

IsOver(d) == d.expiry < world.today

\* Faulty variant of Expired: the hook does not look at the date but at the reminder.
ExpiredAtReminder(d) ==
    IF d.expiry <= world.today + Reminder
    THEN [d EXCEPT !.status = "expired", !.compliance = "expired"] ELSE d

\* The second hook of the save.
Expired(d) ==
    IF IsOver(d) THEN [d EXCEPT !.status = "expired", !.compliance = "expired"] ELSE d

Edit(r, op, d, whole) == Change(r, op, Expired(d), whole)

SweepIdle == [remind |-> FALSE, expire |-> FALSE]

-----------------------------------------------------------------------------
(* Faulty variants; none of them takes part in Spec. *)

\* reject leaves the compliance status.
RejectStatusOnly(r) == Edit(r, "reject", [stored EXCEPT !.status = "rejected"], {})

-----------------------------------------------------------------------------
\* getDocument calls trackView; trackDownload: the save runs the hook
Use(r) == Edit(r, "use", stored, {})

\* updateDocument with an expiry date, or with tags, which are assigned as a
\* whole. (A file or a type, refused for verified documents, is never assigned.)
UpdateExpiry(r, expiry) == Edit(r, "update", [stored EXCEPT !.expiry = expiry], {})

UpdateTags(r) == Edit(r, "update", stored, {"tags"})

\* deleteDocument: a verified document is kept (something requires it here); the
\* deletion itself does not ask again.
ReadForDeletion(r) ==
    /\ stored.status # "verified"
    /\ Change(r, "delete", stored, {})

\* shareDocument, shareWith
ShareWith(r, u) ==
    Edit(r, "shareWith", [stored EXCEPT !.sharedWith = Append(@, u), !.shareCount = @ + 1], {})

\* revokeAccess: splice assigns the list anew.
RevokeAccess(r, i) ==
    /\ \A j \in 1..i-1 : stored.sharedWith[j] # stored.sharedWith[i]
    /\ Edit(r, "revokeAccess",
            [stored EXCEPT !.sharedWith = SubSeq(@, 1, i - 1) \o SubSeq(@, i + 1, Len(@))],
            Arrays)

\* verifyDocument, verify
Verify(r) ==
    Edit(r, "verify", [stored EXCEPT !.status = "verified", !.compliance = "compliant"], {})

\* rejectDocument, reject
Reject(r) ==
    Edit(r, "reject", [stored EXCEPT !.status = "rejected", !.compliance = "non_compliant"], {})

Save(r) ==
    /\ copy[r] # Nothing
    /\ copy[r].op # "delete"
    /\ SaveCopy(r, Arrays,
                [world EXCEPT !.shared = @ + (IF copy[r].op = "shareWith" THEN 1 ELSE 0),
                              !.revoked = @ + (IF copy[r].op = "revokeAccess" THEN 1 ELSE 0)])

DeleteOne(r) ==
    /\ copy[r] # Nothing
    /\ copy[r].op = "delete"
    /\ stored # Nothing
    /\ stored' = Nothing
    /\ copy' = [copy EXCEPT ![r] = Nothing]
    /\ UNCHANGED <<world, saves>>

-----------------------------------------------------------------------------
\* checkDocumentExpiry: both lists are collected before anything is written.
CollectForSweep ==
    /\ world.sweep = SweepIdle
    /\ stored # Nothing
    /\ stored.status # "expired"
    /\ WorldChanges([world EXCEPT
           !.sweep = [remind |-> stored.expiry \in world.today..world.today + Reminder
                                    /\ ~ stored.reminded,
                      expire |-> IsOver(stored)]])

\* The mark that the reminder was sent comes before the reminder, whose failure
\* ends the sweep (StopSweep).
SweepReminds ==
    /\ world.sweep.remind
    /\ stored # Nothing
    /\ UpdateStored([stored EXCEPT !.reminded = TRUE], [world EXCEPT !.sweep.remind = FALSE])

SweepExpires ==
    /\ world.sweep.expire
    /\ ~ world.sweep.remind
    /\ stored # Nothing
    /\ UpdateStored([stored EXCEPT !.status = "expired", !.compliance = "expired"],
                    [world EXCEPT !.sweep.expire = FALSE])

StopSweep == WorldChanges([world EXCEPT !.sweep = SweepIdle])

Tomorrow == /\ world.today < LastDay
            /\ WorldChanges([world EXCEPT !.today = @ + 1])

-----------------------------------------------------------------------------
\* What uploadDocument stores.
Uploaded(expiry) ==
    [status |-> "pending", compliance |-> "pending_review", expiry |-> expiry,
     reminded |-> FALSE, sharedWith |-> <<>>, shareCount |-> 0,
     version |-> 0]

FirstWorld == [today |-> 0, sweep |-> SweepIdle, shared |-> 0, revoked |-> 0]

Init == /\ \E expiry \in Dates : stored = Uploaded(expiry)
        /\ copy = NoCopies
        /\ world = FirstWorld
        /\ saves = 0

\* The document is gone: the module goes on with another one.
NextDocument ==
    /\ stored = Nothing
    /\ copy = NoCopies
    /\ world.sweep = SweepIdle
    /\ \E expiry \in Dates : stored' = Uploaded(expiry)
    /\ world' = FirstWorld
    /\ saves' = 0
    /\ UNCHANGED copy

Read(r) == /\ stored # Nothing
           /\ \/ Use(r)
              \/ \E expiry \in Dates : UpdateExpiry(r, expiry)
              \/ UpdateTags(r)
              \/ ReadForDeletion(r)
              \/ \E u \in Users : ShareWith(r, u)
              \/ \E i \in DOMAIN stored.sharedWith : RevokeAccess(r, i)
              \/ Verify(r)
              \/ Reject(r)

Next == \/ \E r \in Requests :
               \/ Read(r)
               \/ Save(r)
               \/ DeleteOne(r)
               \/ AbortCopy(r)
        \/ CollectForSweep
        \/ SweepReminds
        \/ SweepExpires
        \/ StopSweep
        \/ Tomorrow
        \/ NextDocument

Spec == Init /\ [][Next]_document

-----------------------------------------------------------------------------
\* Every variable has its type.
TypeOK == /\ stored # Nothing => stored \in Document
          /\ CopiesTyped(Document)
          /\ world \in [today : 0..LastDay, sweep : [remind : BOOLEAN, expire : BOOLEAN],
                        shared : Nat, revoked : Nat]
          /\ saves \in 0..MaxSaves

\* Who has access is what was shared less what was revoked, however requests
\* overlap: shares are pushed, and a revocation, which writes the list anew, is
\* refused when a share or a revocation came after its read. The count of shares,
\* which is only kept on copies, is at most the number of shares.
SharesKept ==
    stored # Nothing => /\ Len(stored.sharedWith) = world.shared - world.revoked
                        /\ stored.shareCount <= world.shared

\* The two statuses of a document, of which one is shown and the other decides
\* whether a worker is compliant, are of one decision, although a save sends each
\* of them only if it differs from the copy's.
ComplianceFollowsStatus ==
    stored # Nothing => stored.compliance = ComplianceOf[stored.status]

\* A document that is not past its expiry date becomes expired only by something
\* that saw it past its date: a sweep that collected it, or a copy that was saved
\* late, before a renewal.
ExpiredBySomeoneWhoSawIt ==
    (stored # Nothing /\ stored' # Nothing)
      => ((stored'.status = "expired" /\ stored.status # "expired" /\ ~ IsOver(stored'))
            => \/ world.sweep.expire
               \/ \E r \in Requests : /\ copy[r] # Nothing
                                      /\ IsOver(copy[r].new))
=============================================================================
