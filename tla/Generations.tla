------------------------------ MODULE Generations ------------------------------
(***************************************************************************)
(* What is generated, in two parts. models/ReportGeneration.ts: status,    *)
(* progress, outputs and deliveries of one report; dates other than that   *)
(* of the last change, views and downloads are left out. world.old: the    *)
(* last change is older than the cutoff of the cleanup; failed[u]: how     *)
(* often a failed delivery to u was saved; produced: how many outputs were.*)
(*                                                                         *)
(* models/DocumentGeneration.ts: status, retries and access of one         *)
(* document; views, downloads and dates are left out. updateAccessLevel    *)
(* may save twice; the second save has nothing to send. world.late: the    *)
(* document's date is over; failures: how many failures were saved;        *)
(* access: the users whose addition was saved last.                        *)
(*                                                                         *)
(* No method asks for the status; only the sweeps do.                      *)
(***************************************************************************)
EXTENDS MongooseDocument

CONSTANT Users

-----------------------------------------------------------------------------
(* Reports. *)

ReportStatuses == {"PENDING", "PROCESSING", "COMPLETED", "FAILED", "EXPIRED", "CANCELED"}

DeliveryStatuses == {"PENDING", "SENT", "FAILED"}

ReportArrays == {"outputs", "deliveries"}

None == -1

Delivery == [recipient : Users, status : DeliveryStatuses, retryCount : Nat]

GeneratedReport == [status : ReportStatuses, progress : {None, 0, 100}, outputs : Seq(Nat),
                    deliveries : Seq(Delivery), version : Nat]

\* The places of a recipient; findIndex returns the first of them.
PlacesOf(d, u) == {i \in DOMAIN d.deliveries : d.deliveries[i].recipient = u}

FirstPlace(d, u) == CHOOSE i \in PlacesOf(d, u) : \A j \in PlacesOf(d, u) : i <= j

-----------------------------------------------------------------------------
(* A faulty variant; it takes no part in ReportSpec. *)

\* The progress is set before the report is completed, by whoever processes it.
CompleteStatusOnly(r) ==
    Change(r, "markAsCompleted", [stored EXCEPT !.status = "COMPLETED"], {})

-----------------------------------------------------------------------------
MarkAsProcessing(r) ==
    Change(r, "markAsProcessing", [stored EXCEPT !.status = "PROCESSING", !.progress = 0], {})

MarkAsCompleted(r) ==
    Change(r, "markAsCompleted", [stored EXCEPT !.status = "COMPLETED", !.progress = 100], {})

MarkReportFailed(r) == Change(r, "markAsFailed", [stored EXCEPT !.status = "FAILED"], {})

MarkAsCanceled(r) == Change(r, "markAsCanceled", [stored EXCEPT !.status = "CANCELED"], {})

AddOutput(r) == Change(r, "addOutput", [stored EXCEPT !.outputs = Append(@, saves)], {})

AddDelivery(r, u) ==
    Change(r, "addDelivery",
           [stored EXCEPT !.deliveries =
               Append(@, [recipient |-> u, status |-> "PENDING", retryCount |-> 0])], {})

UpdateDeliveryStatus(r, u, status) ==
    /\ PlacesOf(stored, u) # {}
    /\ Change(r, "updateDeliveryStatus",
              [stored EXCEPT !.deliveries[FirstPlace(stored, u)].status = status,
                             !.deliveries[FirstPlace(stored, u)].retryCount =
                                 IF status = "FAILED" THEN @ + 1 ELSE @], {})

\* Recipients whose delivery the copy failed once more.
FailedBy(q) ==
    {u \in Users : /\ PlacesOf(q.old, u) # {}
                   /\ LET i == FirstPlace(q.old, u)
                      IN  q.new.deliveries[i].retryCount > q.old.deliveries[i].retryCount}

SaveReport(r) ==
    /\ copy[r] # Nothing
    /\ SaveCopy(r, ReportArrays,
                [old      |-> FALSE,
                 failed   |-> [u \in Users |-> world.failed[u]
                                  + (IF u \in FailedBy(copy[r]) THEN 1 ELSE 0)],
                 produced |-> world.produced + (IF copy[r].op = "addOutput" THEN 1 ELSE 0)])

\* cleanupExpiredReports: updateMany
CleanupExpired ==
    /\ world.old
    /\ stored.status \in {"COMPLETED", "FAILED", "CANCELED"}
    /\ UpdateStored([stored EXCEPT !.status = "EXPIRED"], [world EXCEPT !.old = FALSE])

TimePasses == WorldChanges([world EXCEPT !.old = TRUE])

-----------------------------------------------------------------------------
ReportInit ==
    /\ stored = [status |-> "PENDING", progress |-> None, outputs |-> <<>>,
                 deliveries |-> <<>>, version |-> 0]
    /\ copy = NoCopies
    /\ world = [old |-> FALSE, failed |-> [u \in Users |-> 0], produced |-> 0]
    /\ saves = 0

ReportNext ==
    \/ \E r \in Requests :
           \/ MarkAsProcessing(r)
           \/ MarkAsCompleted(r)
           \/ MarkReportFailed(r)
           \/ MarkAsCanceled(r)
           \/ AddOutput(r)
           \/ \E u \in Users :
                  \/ AddDelivery(r, u)
                  \/ \E status \in DeliveryStatuses : UpdateDeliveryStatus(r, u, status)
           \/ SaveReport(r)
           \/ AbortCopy(r)
    \/ CleanupExpired
    \/ TimePasses

ReportSpec == ReportInit /\ [][ReportNext]_document

-----------------------------------------------------------------------------
\* Every variable has its type.
ReportTypeOK ==
    /\ stored \in GeneratedReport
    /\ CopiesTyped(GeneratedReport)
    /\ world \in [old : BOOLEAN, failed : [Users -> Nat], produced : Nat]
    /\ saves \in 0..MaxSaves

\* No output is lost; and a delivery has failed at most as often as failures were
\* saved, and at least once if any was: of failures at once some are not counted.
OutputsAndFailuresKept ==
    /\ Len(stored.outputs) = world.produced
    /\ \A u \in Users :
          /\ world.failed[u] > 0 => PlacesOf(stored, u) # {}
          /\ PlacesOf(stored, u) # {} =>
                LET count == stored.deliveries[FirstPlace(stored, u)].retryCount
                IN  count <= world.failed[u] /\ (world.failed[u] > 0 => count > 0)

\* A completed report has another progress than 100 only if a request that started
\* to process it again overlapped with the one that completed it.
CompletedOtherwiseOnlyByOverlap ==
    (/\ ~ (stored.status = "COMPLETED" /\ stored.progress # 100)
     /\ stored'.status = "COMPLETED" /\ stored'.progress # 100)
      => \E r \in Requests : /\ copy[r] # Nothing
                             /\ copy'[r] = Nothing
                             /\ copy[r].op \in {"markAsProcessing", "markAsCompleted"}
                             /\ copy[r].old # stored

-----------------------------------------------------------------------------
(* Documents. *)

DocumentStatuses == {"PENDING", "PROCESSING", "COMPLETED", "FAILED", "EXPIRED", "DELETED"}

Levels == {"PRIVATE", "RESTRICTED", "PUBLIC"}

DocumentArrays == {"accessUsers"}

\* hasCode: there is an access code.
GeneratedDocument == [status : DocumentStatuses, retryCount : Nat, accessLevel : Levels,
                      hasCode : BOOLEAN, accessUsers : Seq(Users), version : Nat]

UsersOf(d) == {d.accessUsers[i] : i \in DOMAIN d.accessUsers}

\* The list without a user, element by element.
Without(users, u) ==
    LET kept[n \in 0..Len(users)] == IF n = 0 THEN <<>>
                                     ELSE IF users[n] = u THEN kept[n - 1]
                                     ELSE Append(kept[n - 1], users[n])
    IN  kept[Len(users)]

-----------------------------------------------------------------------------
(* Faulty variants; none of them takes part in DocumentSpec. *)

\* Failures are counted when the document is processed again.
FailUncounted(r) == Change(r, "markAsFailed", [stored EXCEPT !.status = "FAILED"], {})

\* The sweep asks for the date only.
SweepAny == world.late /\ UpdateStored([stored EXCEPT !.status = "EXPIRED"], world)

-----------------------------------------------------------------------------
\* markAsProcessing, markAsCompleted, softDelete
Mark(r, status) == Change(r, "mark", [stored EXCEPT !.status = status], {})

MarkDocumentFailed(r) ==
    Change(r, "markAsFailed", [stored EXCEPT !.status = "FAILED", !.retryCount = @ + 1], {})

\* With generateAccessCode, whose save sends both paths.
UpdateAccessLevel(r, level) ==
    Change(r, "updateAccessLevel",
           [stored EXCEPT !.accessLevel = level,
                          !.hasCode = @ \/ level = "PUBLIC"], {})

AddAccessUser(r, u) ==
    Change(r, "addAccessUser",
           [stored EXCEPT !.accessUsers = IF u \in UsersOf(stored) THEN @ ELSE Append(@, u)], {})

\* filter: an assignment of the list, if it is another one
RemoveAccessUser(r, u) ==
    Change(r, "removeAccessUser",
           [stored EXCEPT !.accessUsers = Without(@, u)],
           IF u \in UsersOf(stored) THEN {"accessUsers"} ELSE {})

SaveDocument(r) ==
    /\ copy[r] # Nothing
    /\ LET added   == UsersOf(copy[r].new) \ UsersOf(copy[r].old)
           removed == UsersOf(copy[r].old) \ UsersOf(copy[r].new)
       IN  SaveCopy(r, DocumentArrays,
                    [world EXCEPT !.failures = @ + (IF copy[r].op = "markAsFailed" THEN 1 ELSE 0),
                                  !.access = (@ \cup added) \ removed])

\* markExpired: updateMany
MarkExpired ==
    /\ world.late
    /\ stored.status \notin {"EXPIRED", "DELETED"}
    /\ UpdateStored([stored EXCEPT !.status = "EXPIRED"], world)

DateIsOver == WorldChanges([world EXCEPT !.late = TRUE])

-----------------------------------------------------------------------------
DocumentInit ==
    /\ stored = [status |-> "PENDING", retryCount |-> 0, accessLevel |-> "PRIVATE",
                 hasCode |-> FALSE, accessUsers |-> <<>>, version |-> 0]
    /\ copy = NoCopies
    /\ world = [late |-> FALSE, failures |-> 0, access |-> {}]
    /\ saves = 0

DocumentNext ==
    \/ \E r \in Requests :
           \/ \E status \in {"PROCESSING", "COMPLETED", "DELETED"} : Mark(r, status)
           \/ MarkDocumentFailed(r)
           \/ \E level \in Levels : UpdateAccessLevel(r, level)
           \/ \E u \in Users : AddAccessUser(r, u) \/ RemoveAccessUser(r, u)
           \/ SaveDocument(r)
           \/ AbortCopy(r)
    \/ MarkExpired
    \/ DateIsOver

DocumentSpec == DocumentInit /\ [][DocumentNext]_document

-----------------------------------------------------------------------------
\* Every variable has its type.
DocumentTypeOK ==
    /\ stored \in GeneratedDocument
    /\ CopiesTyped(GeneratedDocument)
    /\ world \in [late : BOOLEAN, failures : Nat, access : SUBSET Users]
    /\ saves \in 0..MaxSaves

\* The users with access are those who were added and not removed since, although a
\* removal writes the whole list of a copy; one who was added twice at once loses
\* both entries.
AccessUsersKept == UsersOf(stored) = world.access

\* A failed document has a retry to its name, and no more than failures: of
\* failures at once some are not counted. What is public has a code, whatever
\* becomes of the level meanwhile.
FailuresAndCodesKept ==
    /\ stored.status = "FAILED" => stored.retryCount > 0
    /\ stored.retryCount <= world.failures
    /\ stored.accessLevel = "PUBLIC" => stored.hasCode

\* The sweep takes no document out of the deleted ones: one leaves them by a request
\* that marks it.
UndeletedByRequest ==
    (stored.status = "DELETED" /\ stored'.status # "DELETED")
      => \E r \in Requests : /\ copy[r] # Nothing
                             /\ copy'[r] = Nothing
                             /\ copy[r].op \in {"mark", "markAsFailed"}
=============================================================================
