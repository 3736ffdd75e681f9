------------------------------ MODULE KeptProofs ------------------------------
(***************************************************************************)
(* What is proved about the lists of the models: however requests overlap, *)
(* what they add stays until it is taken out, and what they take out does  *)
(* not come back. The invariants of ModelProofs and ServicesProofs say how *)
(* copies differ from what is stored; those here relate the lists to the   *)
(* history of what was saved.                                              *)
(*                                                                         *)
(*   - Lists to which one method pushes count the requests that it saved.  *)
(*   - A list of users has one place for each request that added the user  *)
(*     without seeing the others.                                          *)
(*                                                                         *)
(* The lists whose elements have ids, in tax settings and preferences, are *)
(* those of ModelProofs. The last theorem is about all of them.            *)
(***************************************************************************)
EXTENDS ServicesProofs

-----------------------------------------------------------------------------
(***************************************************************************)
(* Lists to which the requests of one method push, and that nothing else   *)
(* changes: their lengths count the requests that were saved.              *)
(***************************************************************************)
\* What a request does to the list a: it pushes one element, or leaves it alone.
OneMore(old, new, a, op, name, El) ==
    /\ old[a] \in Seq(El)
    /\ IF op = name THEN \E x \in El : new[a] = Append(old[a], x) ELSE new[a] = old[a]

Counted(s, c, n, a, name, El) ==
    /\ a \in DOMAIN s /\ s[a] \in Seq(El) /\ Len(s[a]) = n
    /\ DOMAIN c = Requests
    /\ \A r \in Requests : c[r] # Nothing =>
          c[r].whole = {} /\ OneMore(c[r].old, c[r].new, a, c[r].op, name, El)

\* A copy that was read.
LEMMA CountedRead ==
    ASSUME NEW n, NEW a, NEW name, NEW El, Counted(stored, copy, n, a, name, El),
           NEW r \in Requests, NEW op, NEW new, OneMore(stored, new, a, op, name, El),
           stored' = stored,
           copy' = [copy EXCEPT ![r] = [op |-> op, old |-> stored, new |-> new, whole |-> {}]]
    PROVE  Counted(stored', copy', n, a, name, El)
<1>1. PICK q : q = [op |-> op, old |-> stored, new |-> new, whole |-> {}]
  OBVIOUS
<1>2. q.whole = {} /\ OneMore(q.old, q.new, a, q.op, name, El)
  BY <1>1
<1>3. copy' = [copy EXCEPT ![r] = q]
  BY <1>1
<1> QED BY <1>2, <1>3 DEF Counted

\* Steps after which the list is what it was, and copies are what they were or gone.
LEMMA CountedLeft ==
    ASSUME NEW n, NEW a, NEW name, NEW El, Counted(stored, copy, n, a, name, El),
           a \in DOMAIN stored', stored'[a] = stored[a],
           DOMAIN copy' = DOMAIN copy,
           \A r \in Requests : copy'[r] = Nothing \/ copy'[r] = copy[r]
    PROVE  Counted(stored', copy', n, a, name, El)
BY DEF Counted

LEMMA CountedSave ==
    ASSUME NEW n, NEW a, NEW name, NEW El, Counted(stored, copy, n, a, name, El),
           NEW A, "version" \notin A, a \in A,
           NEW r \in Requests, NEW w, Saved(r, A, w)
    PROVE  Counted(stored', copy', n + (IF copy[r].op = name THEN 1 ELSE 0), a, name, El)
<1>1. PICK q : q = copy[r] /\ q # Nothing
  BY DEF Saved
<1>2. q.whole = {} /\ OneMore(q.old, q.new, a, q.op, name, El) /\ stored[a] \in Seq(El)
  BY <1>1 DEF Counted
<1>3. /\ stored' = MD!Merged(q, A) /\ copy' = [copy EXCEPT ![r] = Nothing]
      /\ DOMAIN copy = Requests /\ a \in DOMAIN stored /\ Len(stored[a]) = n
  BY <1>1 DEF Saved, Counted
<1>4. "version" \notin A \cup q.whole
  BY <1>2
<1>5. DOMAIN stored' = DOMAIN stored /\ stored'[a] = MD!MergedArray(q, a)
  <2>1. a \in A \ q.whole
    BY <1>2
  <2> QED BY <1>3, <1>4, <2>1, MergedFields
<1>6. stored'[a] \in Seq(El) /\ Len(stored'[a]) = n + (IF q.op = name THEN 1 ELSE 0)
  <2>1. CASE q.op = name
    <3>1. PICK x \in El : q.new[a] = Append(q.old[a], x)
      BY <1>2, <2>1 DEF OneMore
    <3>2. PICK ext \in Seq(El) : ext = <<x>> /\ Len(ext) = 1
      <4>1. <<x>> \in Seq(El) /\ Len(<<x>>) = 1
        OBVIOUS
      <4> QED BY <4>1
    <3>3. q.old[a] \in Seq(El) /\ q.new[a] = q.old[a] \o ext
      <4>1. \A y \in Seq(El) : Append(y, x) = y \o ext
        BY <3>2, AppendIsConcat
      <4> QED BY <1>2, <3>1, <4>1 DEF OneMore
    <3>4. MD!MergedArray(q, a) = stored[a] \o ext
      BY <1>2, <3>3, MergedPushes
    <3>5. stored[a] \o ext \in Seq(El) /\ Len(stored[a] \o ext) = Len(stored[a]) + Len(ext)
      BY <1>2, ConcatParts
    <3> QED BY <1>3, <1>5, <2>1, <3>2, <3>4, <3>5
  <2>2. CASE q.op # name
    <3>1. q.old[a] \in Seq(El) /\ q.new[a] = q.old[a]
      BY <1>2, <2>2 DEF OneMore
    <3>2. MD!MergedArray(q, a) = stored[a]
      BY <1>2, <3>1, MergedUntouched
    <3>3. Len(stored[a]) \in Nat
      BY <1>2
    <3> QED BY <1>2, <1>3, <1>5, <2>2, <3>2, <3>3
  <2> QED BY <2>1, <2>2
<1>7. \A s \in Requests : copy'[s] # Nothing => copy'[s] = copy[s]
  BY <1>3
<1> QED BY <1>1, <1>3, <1>5, <1>6, <1>7 DEF Counted

-----------------------------------------------------------------------------
(* Responses to a feedback. *)

ResponsesInv ==
    /\ world = [responded |-> world.responded]
    /\ Counted(stored, copy, world.responded, "responses", "addResponse", Nat)

LEMMA ResponsesFirst == F!Init => ResponsesInv
BY DEF F!Init, F!NoCopies, ResponsesInv, Counted

LEMMA ResponsesMethods ==
    ASSUME FeedbackInv, ResponsesInv, NEW r \in Requests,
           \/ F!AddResponse(r)
           \/ F!MarkAsReviewed(r)
           \/ F!MarkAsResolved(r)
           \/ \E status \in F!Statuses : F!UpdateStatus(r, status)
           \/ F!SetPriority(r)
           \/ F!ScheduleFollowUp(r)
           \/ F!CompleteFollowUp(r)
    PROVE  ResponsesInv'
<1>1. /\ DOMAIN stored = FeedbackFields /\ saves + 1 \in Nat /\ stored.responses \in Seq(Nat)
      /\ Counted(stored, copy, world.responded, "responses", "addResponse", Nat)
  BY DEF FeedbackInv, Resolution, ResponsesInv, Counted
<1>2. ASSUME NEW op, NEW new, F!Change(r, op, new, {}),
             OneMore(stored, new, "responses", op, "addResponse", Nat)
      PROVE  ResponsesInv'
  <2>1. /\ stored' = stored /\ world' = world
        /\ copy' = [copy EXCEPT ![r] = [op |-> op, old |-> stored, new |-> new, whole |-> {}]]
    BY <1>2 DEF F!Change, F!Copy
  <2>2. Counted(stored', copy', world.responded, "responses", "addResponse", Nat)
    BY <1>1, <1>2, <2>1, CountedRead
  <2> QED BY <2>1, <2>2 DEF ResponsesInv
<1>3. ASSUME NEW op, NEW d, F!Do(r, op, d),
             OneMore(stored, d, "responses", op, "addResponse", Nat),
             DOMAIN d = FeedbackFields
      PROVE  ResponsesInv'
  <2>1. PICK new : new = F!Resolved(d) /\ F!Change(r, op, new, {})
    BY <1>3 DEF F!Do
  <2>2. new.responses = d.responses
    BY <1>3, <2>1 DEF F!Resolved, FeedbackFields
  <2>3. OneMore(stored, new, "responses", op, "addResponse", Nat)
    BY <1>3, <2>2 DEF OneMore
  <2> QED BY <1>2, <2>1, <2>3
<1>4. CASE F!AddResponse(r)
  <2>1. PICK d : /\ d = [stored EXCEPT !.responses = Append(@, F!Now),
                             !.status = IF @ = "resolved" THEN @ ELSE "responded"]
                 /\ F!Do(r, "addResponse", d)
    BY <1>4 DEF F!AddResponse
  <2>2. DOMAIN d = FeedbackFields /\ d.responses = Append(stored.responses, saves + 1)
    BY <1>1, <2>1 DEF FeedbackFields, F!Now
  <2>3. OneMore(stored, d, "responses", "addResponse", "addResponse", Nat)
    BY <1>1, <2>2 DEF OneMore
  <2> QED BY <1>3, <2>1, <2>2, <2>3
<1>5. ASSUME NEW op, NEW d, F!Do(r, op, d), op # "addResponse",
             DOMAIN d = FeedbackFields, d.responses = stored.responses
      PROVE  ResponsesInv'
  <2>1. OneMore(stored, d, "responses", op, "addResponse", Nat)
    BY <1>1, <1>5 DEF OneMore
  <2> QED BY <1>3, <1>5, <2>1
<1>6. CASE F!MarkAsReviewed(r)
  BY <1>1, <1>5, <1>6 DEF F!MarkAsReviewed, FeedbackFields
<1>7. CASE F!MarkAsResolved(r)
  BY <1>1, <1>5, <1>7 DEF F!MarkAsResolved, FeedbackFields
<1>8. ASSUME NEW status, F!UpdateStatus(r, status) PROVE ResponsesInv'
  BY <1>1, <1>5, <1>8 DEF F!UpdateStatus, FeedbackFields
<1>9. CASE F!SetPriority(r)
  BY <1>1, <1>5, <1>9 DEF F!SetPriority
<1>10. CASE F!ScheduleFollowUp(r)
  BY <1>1, <1>5, <1>10 DEF F!ScheduleFollowUp, FeedbackFields
<1>11. CASE F!CompleteFollowUp(r)
  BY <1>1, <1>5, <1>11 DEF F!CompleteFollowUp, FeedbackFields
<1> QED BY <1>4, <1>6, <1>7, <1>8, <1>9, <1>10, <1>11

LEMMA ResponsesSteps ==
    FeedbackInv /\ ResponsesInv /\ [F!Next]_(F!document) => ResponsesInv'
<1> SUFFICES ASSUME FeedbackInv, ResponsesInv, [F!Next]_(F!document) PROVE ResponsesInv'
  OBVIOUS
<1>0. /\ Counted(stored, copy, world.responded, "responses", "addResponse", Nat)
      /\ DOMAIN copy = Requests /\ "responses" \in DOMAIN stored
  BY DEF ResponsesInv, Counted
<1>1. ASSUME NEW r \in Requests, F!Save(r) PROVE ResponsesInv'
  <2>1. PICK w : /\ w = [responded |-> world.responded
                                       + (IF copy[r].op = "addResponse" THEN 1 ELSE 0)]
                 /\ Saved(r, {"responses"}, w)
    BY <1>1, FeedbackSaves DEF F!Save, F!Arrays
  <2>2. Counted(stored', copy', w.responded, "responses", "addResponse", Nat)
    BY <1>0, <2>1, CountedSave
  <2>3. world' = w
    BY <2>1 DEF Saved
  <2> QED BY <2>1, <2>2, <2>3 DEF ResponsesInv
<1>2. ASSUME NEW r \in Requests, F!AbortCopy(r) PROVE ResponsesInv'
  <2>1. stored' = stored /\ world' = world /\ copy' = [copy EXCEPT ![r] = Nothing]
    BY <1>2 DEF F!AbortCopy
  <2>2. Counted(stored', copy', world.responded, "responses", "addResponse", Nat)
    BY <1>0, <2>1, CountedLeft
  <2> QED BY <2>1, <2>2 DEF ResponsesInv
<1>3. ASSUME UNCHANGED F!document PROVE ResponsesInv'
  BY <1>3 DEF F!document, ResponsesInv
<1> QED BY <1>1, <1>2, <1>3, ResponsesMethods DEF F!Next

-----------------------------------------------------------------------------
(* Notes on a submission. *)

NotesInv ==
    /\ world = [noted |-> world.noted]
    /\ Counted(stored, copy, world.noted, "internalNotes", "addInternalNote", Nat)

LEMMA NotesFirst == US!Init => NotesInv
BY DEF US!Init, US!NoCopies, NotesInv, Counted

LEMMA NotesMethods ==
    ASSUME SubmissionInv, NotesInv, NEW r \in Requests,
           \/ US!MarkAsViewed(r) \/ US!AssignTo(r) \/ US!AddInternalNote(r)
           \/ US!MarkAsResolved(r) \/ \E status \in {"CLOSED", "SPAM"} : US!Close(r, status)
    PROVE  NotesInv'
<1>1. /\ DOMAIN stored = SubmissionFields /\ saves + 1 \in Nat
      /\ stored.internalNotes \in Seq(Nat)
      /\ Counted(stored, copy, world.noted, "internalNotes", "addInternalNote", Nat)
  BY DEF SubmissionInv, Submission, NotesInv, Counted
<1>2. ASSUME NEW op, NEW new, US!Change(r, op, new, {}),
             OneMore(stored, new, "internalNotes", op, "addInternalNote", Nat)
      PROVE  NotesInv'
  <2>1. /\ stored' = stored /\ world' = world
        /\ copy' = [copy EXCEPT ![r] = [op |-> op, old |-> stored, new |-> new, whole |-> {}]]
    BY <1>2 DEF US!Change, US!Copy
  <2>2. Counted(stored', copy', world.noted, "internalNotes", "addInternalNote", Nat)
    BY <1>1, <1>2, <2>1, CountedRead
  <2> QED BY <2>1, <2>2 DEF NotesInv
<1>3. ASSUME NEW op, NEW new, US!Change(r, op, new, {}), op # "addInternalNote",
             new.internalNotes = stored.internalNotes
      PROVE  NotesInv'
  <2>1. OneMore(stored, new, "internalNotes", op, "addInternalNote", Nat)
    BY <1>1, <1>3 DEF OneMore
  <2> QED BY <1>2, <1>3, <2>1
<1>4. CASE US!AddInternalNote(r)
  <2>1. PICK new : /\ new = [stored EXCEPT !.internalNotes = Append(@, US!Now)]
                   /\ US!Change(r, "addInternalNote", new, {})
    BY <1>4 DEF US!AddInternalNote
  <2>2. new.internalNotes = Append(stored.internalNotes, saves + 1)
    BY <1>1, <2>1 DEF SubmissionFields, US!Now
  <2>3. OneMore(stored, new, "internalNotes", "addInternalNote", "addInternalNote", Nat)
    BY <1>1, <2>2 DEF OneMore
  <2> QED BY <1>2, <2>1, <2>3
<1>5. CASE US!MarkAsViewed(r)
  BY <1>1, <1>3, <1>5 DEF US!MarkAsViewed, SubmissionFields
<1>6. CASE US!AssignTo(r)
  BY <1>1, <1>3, <1>6 DEF US!AssignTo, SubmissionFields
<1>7. CASE US!MarkAsResolved(r)
  BY <1>1, <1>3, <1>7 DEF US!MarkAsResolved, SubmissionFields
<1>8. ASSUME NEW status, US!Close(r, status) PROVE NotesInv'
  BY <1>1, <1>3, <1>8 DEF US!Close, SubmissionFields
<1> QED BY <1>4, <1>5, <1>6, <1>7, <1>8

LEMMA NotesSteps == SubmissionInv /\ NotesInv /\ [US!Next]_(US!document) => NotesInv'
<1> SUFFICES ASSUME SubmissionInv, NotesInv, [US!Next]_(US!document) PROVE NotesInv'
  OBVIOUS
<1>0. /\ Counted(stored, copy, world.noted, "internalNotes", "addInternalNote", Nat)
      /\ DOMAIN copy = Requests /\ "internalNotes" \in DOMAIN stored
  BY DEF NotesInv, Counted
<1>1. ASSUME NEW r \in Requests, US!Save(r) PROVE NotesInv'
  <2>1. PICK w : /\ w = [noted |-> world.noted
                                   + (IF copy[r].op = "addInternalNote" THEN 1 ELSE 0)]
                 /\ Saved(r, {"internalNotes"}, w)
    BY <1>1, ContactSaves DEF US!Save, US!Arrays
  <2>2. Counted(stored', copy', w.noted, "internalNotes", "addInternalNote", Nat)
    BY <1>0, <2>1, CountedSave
  <2>3. world' = w
    BY <2>1 DEF Saved
  <2> QED BY <2>1, <2>2, <2>3 DEF NotesInv
<1>2. ASSUME NEW r \in Requests, US!AbortCopy(r) PROVE NotesInv'
  <2>1. stored' = stored /\ world' = world /\ copy' = [copy EXCEPT ![r] = Nothing]
    BY <1>2 DEF US!AbortCopy
  <2>2. Counted(stored', copy', world.noted, "internalNotes", "addInternalNote", Nat)
    BY <1>0, <2>1, CountedLeft
  <2> QED BY <2>1, <2>2 DEF NotesInv
<1>3. ASSUME UNCHANGED US!document PROVE NotesInv'
  BY <1>3 DEF US!document, NotesInv
<1> QED BY <1>1, <1>2, <1>3, NotesMethods DEF US!Next

-----------------------------------------------------------------------------
(* Outputs of a generated report. *)

OutputsInv ==
    /\ DOMAIN world = {"old", "failed", "produced"}
    /\ saves \in Nat
    /\ Counted(stored, copy, world.produced, "outputs", "addOutput", Nat)

LEMMA OutputsFirst == G!ReportInit => OutputsInv
BY DEF G!ReportInit, G!NoCopies, OutputsInv, Counted

LEMMA OutputsMethods ==
    ASSUME ReportInv, OutputsInv, NEW r \in Requests,
           \/ G!MarkAsProcessing(r) \/ G!MarkAsCompleted(r) \/ G!MarkReportFailed(r)
           \/ G!MarkAsCanceled(r) \/ G!AddOutput(r)
           \/ \E u \in Users : G!AddDelivery(r, u)
           \/ \E u \in Users, status \in G!DeliveryStatuses : G!UpdateDeliveryStatus(r, u, status)
    PROVE  OutputsInv'
<1>1. /\ DOMAIN stored = ReportFields /\ saves \in Nat /\ stored.outputs \in Seq(Nat)
      /\ Counted(stored, copy, world.produced, "outputs", "addOutput", Nat)
  BY DEF ReportInv, OutputsInv, Counted
<1>2. ASSUME NEW op, NEW new, G!Change(r, op, new, {}),
             OneMore(stored, new, "outputs", op, "addOutput", Nat)
      PROVE  OutputsInv'
  <2>1. /\ stored' = stored /\ world' = world /\ saves' = saves
        /\ copy' = [copy EXCEPT ![r] = [op |-> op, old |-> stored, new |-> new, whole |-> {}]]
    BY <1>2 DEF G!Change, G!Copy
  <2>2. Counted(stored', copy', world.produced, "outputs", "addOutput", Nat)
    BY <1>1, <1>2, <2>1, CountedRead
  <2> QED BY <2>1, <2>2 DEF OutputsInv
<1>3. ASSUME NEW op, NEW new, G!Change(r, op, new, {}), op # "addOutput",
             new.outputs = stored.outputs
      PROVE  OutputsInv'
  <2>1. OneMore(stored, new, "outputs", op, "addOutput", Nat)
    BY <1>1, <1>3 DEF OneMore
  <2> QED BY <1>2, <1>3, <2>1
<1>4. CASE G!AddOutput(r)
  <2>1. PICK new : /\ new = [stored EXCEPT !.outputs = Append(@, saves)]
                   /\ G!Change(r, "addOutput", new, {})
    BY <1>4 DEF G!AddOutput
  <2>2. new.outputs = Append(stored.outputs, saves)
    BY <1>1, <2>1 DEF ReportFields
  <2>3. OneMore(stored, new, "outputs", "addOutput", "addOutput", Nat)
    BY <1>1, <2>2 DEF OneMore
  <2> QED BY <1>2, <2>1, <2>3
<1>5. CASE G!MarkAsProcessing(r)
  BY <1>1, <1>3, <1>5 DEF G!MarkAsProcessing, ReportFields
<1>6. CASE G!MarkAsCompleted(r)
  BY <1>1, <1>3, <1>6 DEF G!MarkAsCompleted, ReportFields
<1>7. CASE G!MarkReportFailed(r)
  BY <1>1, <1>3, <1>7 DEF G!MarkReportFailed, ReportFields
<1>8. CASE G!MarkAsCanceled(r)
  BY <1>1, <1>3, <1>8 DEF G!MarkAsCanceled, ReportFields
<1>9. ASSUME NEW u \in Users, G!AddDelivery(r, u) PROVE OutputsInv'
  <2>1. PICK list, new : /\ new = [stored EXCEPT !.deliveries = list]
                         /\ G!Change(r, "addDelivery", new, {})
    BY <1>9 DEF G!AddDelivery
  <2>2. new.outputs = stored.outputs
    BY <1>1, <2>1 DEF ReportFields
  <2> QED BY <1>3, <2>1, <2>2
<1>10. ASSUME NEW u \in Users, NEW status, G!UpdateDeliveryStatus(r, u, status)
       PROVE  OutputsInv'
  <2>1. PICK i : i = G!FirstPlace(stored, u)
    OBVIOUS
  <2>2. PICK new : /\ new = [stored EXCEPT !.deliveries[i].status = status,
                                           !.deliveries[i].retryCount =
                                               IF status = "FAILED" THEN @ + 1 ELSE @]
                   /\ G!Change(r, "updateDeliveryStatus", new, {})
    BY <1>10, <2>1 DEF G!UpdateDeliveryStatus
  <2>3. new.outputs = stored.outputs
    BY <1>1, <2>2 DEF ReportFields
  <2> QED BY <1>3, <2>2, <2>3
<1> QED BY <1>4, <1>5, <1>6, <1>7, <1>8, <1>9, <1>10

LEMMA OutputsSteps ==
    ReportInv /\ OutputsInv /\ [G!ReportNext]_(G!document) => OutputsInv'
<1> SUFFICES ASSUME ReportInv, OutputsInv, [G!ReportNext]_(G!document) PROVE OutputsInv'
  OBVIOUS
<1>0. /\ Counted(stored, copy, world.produced, "outputs", "addOutput", Nat)
      /\ DOMAIN copy = Requests /\ DOMAIN stored = ReportFields /\ saves \in Nat
      /\ DOMAIN world = {"old", "failed", "produced"}
  BY DEF OutputsInv, Counted, ReportInv
<1>1. ASSUME NEW r \in Requests, G!SaveReport(r) PROVE OutputsInv'
  <2>1. PICK w : /\ DOMAIN w = {"old", "failed", "produced"}
                 /\ w.produced = world.produced + (IF copy[r].op = "addOutput" THEN 1 ELSE 0)
                 /\ Saved(r, {"outputs", "deliveries"}, w)
    BY <1>1, GenerationSaves DEF G!SaveReport, G!ReportArrays
  <2>2. Counted(stored', copy', w.produced, "outputs", "addOutput", Nat)
    BY <1>0, <2>1, CountedSave
  <2>3. world' = w /\ saves' = saves + 1
    BY <2>1 DEF Saved
  <2> QED BY <1>0, <2>1, <2>2, <2>3 DEF OutputsInv
<1>2. ASSUME stored' = stored \/ stored' = [stored EXCEPT !.status = "EXPIRED"],
             copy' = copy \/ \E r \in Requests : copy' = [copy EXCEPT ![r] = Nothing],
             DOMAIN world' = DOMAIN world, world'.produced = world.produced, saves' \in Nat
      PROVE  OutputsInv'
  <2>1. /\ "outputs" \in DOMAIN stored' /\ stored'.outputs = stored.outputs
        /\ DOMAIN copy' = DOMAIN copy
        /\ \A r \in Requests : copy'[r] = Nothing \/ copy'[r] = copy[r]
    BY <1>0, <1>2 DEF ReportFields
  <2>2. Counted(stored', copy', world.produced, "outputs", "addOutput", Nat)
    BY <1>0, <2>1, CountedLeft
  <2> QED BY <1>0, <1>2, <2>2 DEF OutputsInv
<1>3. ASSUME NEW r \in Requests, G!AbortCopy(r) PROVE OutputsInv'
  BY <1>0, <1>2, <1>3 DEF G!AbortCopy
<1>4. CASE G!CleanupExpired
  BY <1>0, <1>2, <1>4 DEF G!CleanupExpired, G!UpdateStored
<1>5. CASE G!TimePasses
  BY <1>0, <1>2, <1>5 DEF G!TimePasses, G!WorldChanges
<1>6. ASSUME UNCHANGED G!document PROVE OutputsInv'
  BY <1>6 DEF G!document, OutputsInv
<1> QED BY <1>1, <1>3, <1>4, <1>5, <1>6, OutputsMethods DEF G!ReportNext

-----------------------------------------------------------------------------
(***************************************************************************)
(* Lists of users, to which a request pushes a user who was not there when *)
(* it read them. C are the slots that have a copy, O and L their lists as  *)
(* read and as they are now: for the places of a user, and the requests    *)
(* that are about to add one, there are as many slots.                     *)
(***************************************************************************)
Elements(s) == {s[i] : i \in 1..Len(s)}

PlacesIn(s, u) == {i \in 1..Len(s) : s[i] = u}

Adding(C, O, L, u) == {r \in C : L[r] = Append(O[r], u)}

Room(Q, W) == /\ IsFiniteSet(Q) /\ IsFiniteSet(W)
              /\ Cardinality(Q) + Cardinality(W) <= Cardinality(Requests)

UserList(s, J, C, O, L) ==
    /\ s \in Seq(Users) /\ Elements(s) = J
    /\ C \subseteq Requests
    /\ \A r \in C : /\ Receipts(O[r], L[r])
                    /\ Elements(O[r]) \subseteq J
    /\ \A u \in Users : Room(PlacesIn(s, u), Adding(C, O, L, u))

\* The copies of the slots in C are what they were.
SameCopies(C, O, L, OO, LL) == \A r \in C : OO[r] = O[r] /\ LL[r] = L[r]

\* A request pushes a user who is not there, or none.
MayAdd(s, t, J) == t = s \/ \E u \in Users : t = Append(s, u) /\ u \notin J

\* A save pushes to s whom the request pushed to its copy.
AddedAlike(old, new, s, t) ==
    /\ new = old => t = s
    /\ \A u \in Users : new = Append(old, u) => t = Append(s, u)

\* Pushing to a list of users.
LEMMA UserPushed ==
    ASSUME NEW U, NEW s \in Seq(U), NEW u \in U
    PROVE  /\ Append(s, u) \in Seq(U) /\ Append(s, u) # s
           /\ Len(Append(s, u)) = Len(s) + 1
           /\ Elements(Append(s, u)) = Elements(s) \cup {u}
           /\ \A v \in U : PlacesIn(Append(s, u), v) =
                 IF v = u THEN PlacesIn(s, v) \cup {Len(s) + 1} ELSE PlacesIn(s, v)
           /\ Len(s) + 1 \notin PlacesIn(s, u)
           /\ \A v : Append(s, u) = Append(s, v) => v = u
<1>0. PICK n \in Nat : n = Len(s)
  OBVIOUS
<1>1. PICK t : t = Append(s, u) /\ n = Len(s)
  BY <1>0
<1>2. /\ t \in Seq(U) /\ Len(t) = n + 1 /\ t[n + 1] = u
      /\ \A i \in 1..n : t[i] = s[i]
  BY <1>1
<1>3. \A i \in 1..n + 1 : i \in 1..n \/ i = n + 1
  OBVIOUS
<1>4. n + 1 \in 1..n + 1 /\ n + 1 \notin 1..n /\ (1..n) \subseteq 1..n + 1
  OBVIOUS
<1>5. Elements(t) = Elements(s) \cup {u}
  BY <1>1, <1>2, <1>3, <1>4 DEF Elements
<1>6. ASSUME NEW v \in U
      PROVE  PlacesIn(t, v) = IF v = u THEN PlacesIn(s, v) \cup {n + 1} ELSE PlacesIn(s, v)
  BY <1>1, <1>2, <1>3, <1>4 DEF PlacesIn
<1>7. n + 1 \notin PlacesIn(s, u)
  BY <1>1, <1>4 DEF PlacesIn
<1>8. n + 1 # n
  OBVIOUS
<1>9. ASSUME NEW v, t = Append(s, v) PROVE v = u
  <2>1. t[n + 1] = v
    BY <1>1, <1>9
  <2> QED BY <1>2, <2>1
<1> QED BY <1>1, <1>2, <1>5, <1>6, <1>7, <1>8, <1>9

\* Room that is left.
LEMMA RoomLess ==
    ASSUME NEW Q, NEW W, Room(Q, W), NEW V, V \subseteq W
    PROVE  Room(Q, V)
<1>1. IsFiniteSet(V) /\ Cardinality(V) <= Cardinality(W)
  BY FS_Subset DEF Room
<1>2. /\ Cardinality(V) \in Nat /\ Cardinality(W) \in Nat /\ Cardinality(Q) \in Nat
      /\ Cardinality(Requests) \in Nat
  BY <1>1, FS_CardinalityType, RequestsAssumption DEF Room
<1> QED BY <1>1, <1>2 DEF Room

\* Who has no place has room for all requests.
LEMMA RoomFor ==
    ASSUME NEW W, W \subseteq Requests
    PROVE  Room({}, W)
<1>1. IsFiniteSet(W) /\ Cardinality(W) <= Cardinality(Requests)
  BY FS_Subset, RequestsAssumption
<1>2. Cardinality(W) \in Nat /\ Cardinality(Requests) \in Nat
  BY <1>1, FS_CardinalityType, RequestsAssumption
<1> QED BY <1>1, <1>2, FS_EmptySet DEF Room

\* A request that adds a place takes the room it had.
LEMMA RoomTaken ==
    ASSUME NEW Q, NEW W, Room(Q, W), NEW x, x \notin Q, NEW r \in W
    PROVE  Room(Q \cup {x}, W \ {r})
<1>1. IsFiniteSet(Q \cup {x}) /\ Cardinality(Q \cup {x}) = Cardinality(Q) + 1
  BY FS_AddElement DEF Room
<1>2. IsFiniteSet(W \ {r}) /\ Cardinality(W \ {r}) = Cardinality(W) - 1
  BY FS_RemoveElement DEF Room
<1>3. /\ Cardinality(W) \in Nat /\ Cardinality(Q) \in Nat
      /\ Cardinality(Requests) \in Nat
  BY FS_CardinalityType, RequestsAssumption DEF Room
<1> QED BY <1>1, <1>2, <1>3 DEF Room

\* There is room for no more places than requests.
LEMMA RoomBounds ==
    ASSUME NEW Q, NEW W, Room(Q, W)
    PROVE  IsFiniteSet(Q) /\ Cardinality(Q) <= Cardinality(Requests)
<1>1. /\ Cardinality(W) \in Nat /\ Cardinality(Q) \in Nat
      /\ Cardinality(Requests) \in Nat
  BY FS_CardinalityType, RequestsAssumption DEF Room
<1> QED BY <1>1 DEF Room

\* Slots that are free again.
LEMMA UsersLeft ==
    ASSUME NEW s, NEW J, NEW C, NEW O, NEW L, UserList(s, J, C, O, L),
           NEW B, B \subseteq C, NEW OO, NEW LL, SameCopies(B, O, L, OO, LL)
    PROVE  UserList(s, J, B, OO, LL)
<1>1. ASSUME NEW u \in Users PROVE Room(PlacesIn(s, u), Adding(B, OO, LL, u))
  <2>1. Room(PlacesIn(s, u), Adding(C, O, L, u))
    BY DEF UserList
  <2>2. Adding(B, OO, LL, u) \subseteq Adding(C, O, L, u)
    BY DEF Adding, SameCopies
  <2> QED BY <2>1, <2>2, RoomLess
<1> QED BY <1>1 DEF UserList, SameCopies

\* A copy that was read, in a slot that was free.
LEMMA UsersRead ==
    ASSUME NEW s, NEW J, NEW C, NEW O, NEW L, UserList(s, J, C, O, L),
           NEW r \in Requests, r \notin C, NEW OO, NEW LL, OO[r] = s, MayAdd(s, LL[r], J),
           SameCopies(C, O, L, OO, LL)
    PROVE  UserList(s, J, C \cup {r}, OO, LL)
<1>0. PICK t : t = LL[r]
  OBVIOUS
<1>1. s \in Seq(Users) /\ Elements(s) = J /\ C \subseteq Requests
  BY DEF UserList
<1>2. Receipts(OO[r], LL[r]) /\ Elements(OO[r]) \subseteq J
  BY <1>0, <1>1 DEF Receipts, MayAdd
<1>3. ASSUME NEW u \in Users
      PROVE  Room(PlacesIn(s, u), Adding(C \cup {r}, OO, LL, u))
  <2>1. Room(PlacesIn(s, u), Adding(C, O, L, u))
    BY DEF UserList
  <2>2. CASE t = Append(s, u)
    <3>1. t # s
      BY <1>1, <2>2, UserPushed
    <3>2. PICK v \in Users : t = Append(s, v) /\ v \notin J
      BY <1>0, <3>1 DEF MayAdd
    <3>3. u = v
      BY <1>1, <2>2, <3>2, UserPushed
    <3>4. PlacesIn(s, u) = {}
      BY <1>1, <3>2, <3>3 DEF PlacesIn, Elements
    <3>5. Adding(C \cup {r}, OO, LL, u) \subseteq Requests
      BY <1>1 DEF Adding
    <3> QED BY <3>4, <3>5, RoomFor
  <2>3. CASE t # Append(s, u)
    <3>1. Adding(C \cup {r}, OO, LL, u) \subseteq Adding(C, O, L, u)
      BY <1>0, <2>3 DEF Adding, SameCopies
    <3> QED BY <2>1, <3>1, RoomLess
  <2> QED BY <2>2, <2>3
<1>4. \A p \in C \cup {r} : Receipts(OO[p], LL[p]) /\ Elements(OO[p]) \subseteq J
  BY <1>2 DEF UserList, SameCopies
<1> QED BY <1>1, <1>3, <1>4 DEF UserList

\* A save: the user who was pushed to the copy is pushed to what is stored.
LEMMA UsersSave ==
    ASSUME NEW s, NEW J, NEW C, NEW O, NEW L, UserList(s, J, C, O, L), NEW r \in C, NEW t,
           AddedAlike(O[r], L[r], s, t),
           NEW OO, NEW LL, SameCopies(C \ {r}, O, L, OO, LL)
    PROVE  UserList(t, J \cup Elements(L[r]), C \ {r}, OO, LL)
<1>1. /\ s \in Seq(Users) /\ Elements(s) = J /\ C \subseteq Requests
      /\ Receipts(O[r], L[r]) /\ Elements(O[r]) \subseteq J /\ O[r] \in Seq(Users)
  BY DEF UserList, Receipts
<1>2. CASE L[r] = O[r]
  <2>1. t = s /\ J \cup Elements(L[r]) = J
    BY <1>1, <1>2 DEF AddedAlike
  <2>2. UserList(s, J, C \ {r}, OO, LL)
    BY UsersLeft
  <2> QED BY <2>1, <2>2
<1>3. ASSUME NEW u \in Users, L[r] = Append(O[r], u)
      PROVE  UserList(t, J \cup Elements(L[r]), C \ {r}, OO, LL)
  <2>1. t = Append(s, u)
    BY <1>3 DEF AddedAlike
  <2>2. t \in Seq(Users) /\ Elements(t) = J \cup {u}
    BY <1>1, <2>1, UserPushed
  <2>3. J \cup Elements(L[r]) = J \cup {u}
    BY <1>1, <1>3, UserPushed
  <2>4. ASSUME NEW p \in C \ {r}
        PROVE  Receipts(OO[p], LL[p]) /\ Elements(OO[p]) \subseteq J \cup {u}
    BY <2>4 DEF UserList, SameCopies
  <2>5. ASSUME NEW v \in Users
        PROVE  Room(PlacesIn(t, v), Adding(C \ {r}, OO, LL, v))
    <3>1. Room(PlacesIn(s, v), Adding(C, O, L, v))
      BY DEF UserList
    <3>2. CASE v = u
      <4>1. PlacesIn(t, v) = PlacesIn(s, v) \cup {Len(s) + 1}
            /\ Len(s) + 1 \notin PlacesIn(s, v)
        BY <1>1, <2>1, <3>2, UserPushed
      <4>2. r \in Adding(C, O, L, v)
        BY <1>3, <3>2 DEF Adding
      <4>3. Room(PlacesIn(t, v), Adding(C, O, L, v) \ {r})
        BY <3>1, <4>1, <4>2, RoomTaken
      <4>4. Adding(C \ {r}, OO, LL, v) \subseteq Adding(C, O, L, v) \ {r}
        BY DEF Adding, SameCopies
      <4> QED BY <4>3, <4>4, RoomLess
    <3>3. CASE v # u
      <4>1. PlacesIn(t, v) = PlacesIn(s, v)
        BY <1>1, <2>1, <3>3, UserPushed
      <4>2. Adding(C \ {r}, OO, LL, v) \subseteq Adding(C, O, L, v)
        BY DEF Adding, SameCopies
      <4> QED BY <3>1, <4>1, <4>2, RoomLess
    <3> QED BY <3>2, <3>3
  <2>6. C \ {r} \subseteq Requests
    BY <1>1
  <2> QED BY <2>2, <2>3, <2>4, <2>5, <2>6 DEF UserList
<1> QED BY <1>1, <1>2, <1>3 DEF Receipts

\* A list with one user, or none, and no copies.
LEMMA UsersFirst ==
    ASSUME NEW s \in Seq(Users), Len(s) \in 0..1, NEW O, NEW L
    PROVE  UserList(s, Elements(s), {}, O, L)
<1>1. ASSUME NEW u \in Users PROVE Room(PlacesIn(s, u), Adding({}, O, L, u))
  <2>1. Adding({}, O, L, u) = {}
    BY DEF Adding
  <2>2. CASE PlacesIn(s, u) = {}
    BY <2>1, <2>2, RoomFor
  <2>3. CASE PlacesIn(s, u) # {}
    <3>1. PlacesIn(s, u) = {} \cup {1}
      BY <2>3 DEF PlacesIn
    <3>2. PICK r \in Requests : TRUE
      BY RequestsAssumption
    <3>3. Room({}, {r})
      BY RoomFor
    <3>4. Room({} \cup {1}, {r} \ {r})
      BY <3>3, RoomTaken
    <3>5. {r} \ {r} = {}
      OBVIOUS
    <3> QED BY <2>1, <3>1, <3>4, <3>5
  <2> QED BY <2>2, <2>3
<1> QED BY <1>1 DEF UserList

-----------------------------------------------------------------------------
(* Receipts of messages: the lists are of users. *)

Slots == {r \in Requests : copy[r] # Nothing}

OldLists(a) == [r \in Requests |-> copy[r].old[a]]

NewLists(a) == [r \in Requests |-> copy[r].new[a]]

ReceiptsOf(a, J) == UserList(stored[a], J, Slots, OldLists(a), NewLists(a))

\* What a save stores in such a list, and who was pushed.
LEMMA UserMerged ==
    ASSUME NEW q, NEW a, stored[a] \in Seq(Users), Receipts(q.old[a], q.new[a])
    PROVE  /\ AddedAlike(q.old[a], q.new[a], stored[a], MD!MergedArray(q, a))
           /\ Elements(q.new[a]) = Elements(q.old[a]) \cup M!NewIn(q, a)
<1>1. q.old[a] \in Seq(Users) /\ Len(q.old[a]) \in Nat
  BY DEF Receipts
<1>0. M!NewIn(q, a) = {MD!Pushed(q, a)[i] : i \in DOMAIN MD!Pushed(q, a)}
  BY DEF M!NewIn, M!Range, M!Pushed, MD!Pushed
<1>2. ASSUME q.new[a] = q.old[a]
      PROVE  MD!MergedArray(q, a) = stored[a] /\ M!NewIn(q, a) = {}
  <2>1. MD!MergedArray(q, a) = stored[a] /\ MD!Pushed(q, a) = << >>
    BY <1>1, <1>2, MergedUntouched
  <2>2. DOMAIN << >> = {}
    OBVIOUS
  <2> QED BY <1>0, <2>1, <2>2
<1>3. ASSUME NEW u \in Users, q.new[a] = Append(q.old[a], u)
      PROVE  MD!MergedArray(q, a) = Append(stored[a], u) /\ M!NewIn(q, a) = {u}
  <2>1. PICK e \in Seq(Users) : e = <<u>> /\ DOMAIN e = {1} /\ e[1] = u
    <3>1. <<u>> \in Seq(Users) /\ DOMAIN <<u>> = {1} /\ <<u>>[1] = u
      BY <1>3
    <3> QED BY <3>1
  <2>2. Append(q.old[a], u) = q.old[a] \o e /\ Append(stored[a], u) = stored[a] \o e
    BY <1>1, <2>1, AppendIsConcat
  <2>3. MD!MergedArray(q, a) = stored[a] \o e /\ MD!Pushed(q, a) = e
    BY <1>1, <1>3, <2>2, MergedPushes
  <2>4. M!NewIn(q, a) = {e[i] : i \in {1}}
    BY <1>0, <2>1, <2>3
  <2> QED BY <2>1, <2>2, <2>3, <2>4
<1>4. ASSUME NEW u \in Users, q.new[a] = Append(q.old[a], u)
      PROVE  Elements(q.new[a]) = Elements(q.old[a]) \cup M!NewIn(q, a)
  BY <1>1, <1>3, <1>4, UserPushed
<1> QED BY <1>2, <1>3, <1>4 DEF Receipts, AddedAlike

LEMMA ReceiptsOfRead ==
    ASSUME NEW a, NEW J, ReceiptsOf(a, J), DOMAIN copy = Requests,
           NEW r \in Requests, copy[r] = Nothing, NEW op, NEW new,
           MayAdd(stored[a], new[a], J),
           stored' = stored,
           copy' = [copy EXCEPT ![r] = [op |-> op, old |-> stored, new |-> new, whole |-> {}]]
    PROVE  ReceiptsOf(a, J)'
<1>1. PICK q : q = [op |-> op, old |-> stored, new |-> new, whole |-> {}]
  OBVIOUS
<1>2. \A s \in Requests : copy'[s] = IF s = r THEN q ELSE copy[s]
  BY <1>1
<1>3. PICK OO : OO = OldLists(a)'
  OBVIOUS
<1>4. PICK NN : NN = NewLists(a)'
  OBVIOUS
<1>5. /\ OO[r] = stored[a] /\ NN[r] = new[a]
      /\ SameCopies(Slots, OldLists(a), NewLists(a), OO, NN)
  <2>1. \A s \in Requests : OO[s] = copy'[s].old[a] /\ NN[s] = copy'[s].new[a]
    BY <1>3, <1>4 DEF OldLists, NewLists
  <2>2. \A s \in Slots : s # r /\ s \in Requests
    BY DEF Slots
  <2>3. \A s \in Requests : s # r => OO[s] = copy[s].old[a] /\ NN[s] = copy[s].new[a]
    BY <1>2, <2>1
  <2> QED BY <1>1, <1>2, <2>1, <2>2, <2>3 DEF OldLists, NewLists, SameCopies
<1>6. r \notin Slots /\ UserList(stored[a], J, Slots, OldLists(a), NewLists(a))
  BY DEF Slots, ReceiptsOf
<1>7. UserList(stored[a], J, Slots \cup {r}, OO, NN)
  BY <1>5, <1>6, UsersRead
<1>8. Slots' \subseteq Slots \cup {r} /\ SameCopies(Slots', OO, NN, OO, NN)
  BY <1>2 DEF Slots, SameCopies
<1>9. UserList(stored[a], J, Slots', OO, NN)
  BY <1>7, <1>8, UsersLeft
<1> QED BY <1>3, <1>4, <1>9 DEF ReceiptsOf

LEMMA ReceiptsOfLeft ==
    ASSUME NEW a, NEW J, ReceiptsOf(a, J), stored' = stored,
           \A r \in Requests : copy'[r] = Nothing \/ copy'[r] = copy[r]
    PROVE  ReceiptsOf(a, J)'
<1>1. UserList(stored[a], J, Slots, OldLists(a), NewLists(a))
  BY DEF ReceiptsOf
<1>2. PICK OO : OO = OldLists(a)'
  OBVIOUS
<1>3. PICK NN : NN = NewLists(a)'
  OBVIOUS
<1>4. Slots' \subseteq Slots
  BY DEF Slots
<1>5. SameCopies(Slots', OldLists(a), NewLists(a), OO, NN)
  BY <1>2, <1>3 DEF OldLists, NewLists, Slots, SameCopies
<1>6. UserList(stored[a], J, Slots', OO, NN)
  BY <1>1, <1>4, <1>5, UsersLeft
<1> QED BY <1>2, <1>3, <1>6 DEF ReceiptsOf

LEMMA ReceiptsOfSave ==
    ASSUME NEW a, NEW J, ReceiptsOf(a, J), DOMAIN copy = Requests,
           NEW r \in Requests, copy[r] # Nothing, copy' = [copy EXCEPT ![r] = Nothing],
           stored'[a] = MD!MergedArray(copy[r], a),
           NEW K, K = J \cup M!NewIn(copy[r], a)
    PROVE  ReceiptsOf(a, K)'
<1>1. UserList(stored[a], J, Slots, OldLists(a), NewLists(a)) /\ r \in Slots
  BY DEF ReceiptsOf, Slots
<1>2. PICK OO : OO = OldLists(a)'
  OBVIOUS
<1>3. PICK NN : NN = NewLists(a)'
  OBVIOUS
<1>4. /\ Slots' = Slots \ {r}
      /\ SameCopies(Slots \ {r}, OldLists(a), NewLists(a), OO, NN)
  BY <1>2, <1>3 DEF OldLists, NewLists, Slots, SameCopies
<1>5. PICK q : q = copy[r] /\ OldLists(a)[r] = q.old[a] /\ NewLists(a)[r] = q.new[a]
  BY DEF OldLists, NewLists
<1>6. /\ Receipts(q.old[a], q.new[a]) /\ stored[a] \in Seq(Users)
      /\ Elements(q.old[a]) \subseteq J
  BY <1>1, <1>5 DEF UserList
<1>7. PICK t : t = stored'[a] /\ t = MD!MergedArray(q, a)
  BY <1>5
<1>8. /\ AddedAlike(q.old[a], q.new[a], stored[a], t)
      /\ J \cup Elements(q.new[a]) = J \cup M!NewIn(q, a)
  BY <1>6, <1>7, UserMerged
<1>9. UserList(t, J \cup Elements(NewLists(a)[r]), Slots \ {r}, OO, NN)
  BY <1>1, <1>4, <1>5, <1>8, UsersSave
<1>10. UserList(stored'[a], K, Slots', OldLists(a)', NewLists(a)')
  <2>1. K = J \cup Elements(NewLists(a)[r])
    BY <1>5, <1>8
  <2>2. UserList(t, K, Slots \ {r}, OO, NN)
    BY <1>9, <2>1
  <2> QED BY <1>2, <1>3, <1>4, <1>7, <2>2
<1> QED BY <1>10 DEF ReceiptsOf

ReceiptsInv ==
    /\ DOMAIN world = {"delivered", "read", "deleted"}
    /\ ReceiptsOf("deliveredTo", world.delivered)
    /\ ReceiptsOf("readBy", world.read)

LEMMA ReceiptsFirst == M!MessageInit => ReceiptsInv
<1> SUFFICES ASSUME M!MessageInit PROVE ReceiptsInv
  OBVIOUS
<1>1. PICK none \in Seq(Users) : none = << >> /\ Len(none) = 0 /\ Elements(none) = {}
  <2>1. << >> \in Seq(Users) /\ Len(<< >>) = 0 /\ Elements(<< >>) = {}
    BY DEF Elements
  <2> QED BY <2>1
<1>2. \A O, L : UserList(none, {}, {}, O, L)
  <2>1. Len(none) \in 0..1
    BY <1>1
  <2>2. \A O, L : UserList(none, Elements(none), {}, O, L)
    BY <2>1, UsersFirst
  <2> QED BY <1>1, <2>2
<1>3. /\ stored.readBy = none /\ stored.deliveredTo = none
      /\ world = [delivered |-> {}, read |-> {}, deleted |-> FALSE]
      /\ Slots = {}
  BY <1>1 DEF M!MessageInit, M!NoCopies, Slots
<1> QED BY <1>2, <1>3 DEF ReceiptsInv, ReceiptsOf

\* Copies are only left, or gone.
LEMMA ReceiptsLeft ==
    ASSUME ReceiptsInv, stored' = stored, world' = world,
           \A r \in Requests : copy'[r] = Nothing \/ copy'[r] = copy[r]
    PROVE  ReceiptsInv'
<1>1. PICK V : V = world.delivered
  OBVIOUS
<1>2. PICK J : J = world.read
  OBVIOUS
<1>3. ReceiptsOf("deliveredTo", V)' /\ ReceiptsOf("readBy", J)'
  BY <1>1, <1>2, ReceiptsOfLeft DEF ReceiptsInv
<1> QED BY <1>1, <1>2, <1>3 DEF ReceiptsInv

LEMMA ReceiptsRead ==
    ASSUME MessageInv, ReceiptsInv, NEW r \in Requests, NEW op, NEW new,
           M!Change(r, op, new, {}),
           MayAdd(stored.deliveredTo, new.deliveredTo, world.delivered),
           MayAdd(stored.readBy, new.readBy, world.read)
    PROVE  ReceiptsInv'
<1>1. PICK V : V = world.delivered
  OBVIOUS
<1>2. PICK J : J = world.read
  OBVIOUS
<1>3. /\ copy[r] = Nothing /\ stored' = stored /\ world' = world /\ DOMAIN copy = Requests
      /\ copy' = [copy EXCEPT ![r] = [op |-> op, old |-> stored, new |-> new, whole |-> {}]]
  BY DEF M!Change, M!Copy, MessageInv
<1>4. /\ ReceiptsOf("deliveredTo", V) /\ ReceiptsOf("readBy", J)
      /\ MayAdd(stored["deliveredTo"], new["deliveredTo"], V)
      /\ MayAdd(stored["readBy"], new["readBy"], J)
  BY <1>1, <1>2 DEF ReceiptsInv
<1>5. ReceiptsOf("deliveredTo", V)' /\ ReceiptsOf("readBy", J)'
  BY <1>3, <1>4, ReceiptsOfRead
<1> QED BY <1>1, <1>2, <1>3, <1>5 DEF ReceiptsInv

LEMMA ReceiptsMethods ==
    ASSUME MessageInv, ReceiptsInv, NEW r \in Requests,
           \/ M!SoftDelete(r)
           \/ \E u \in Users : M!MarkAsDelivered(r, u) \/ M!MarkAsRead(r, u)
    PROVE  ReceiptsInv'
<1>1. DOMAIN stored = MessageFields
  BY DEF MessageInv, ReasonedMessage
<1>2. /\ \A s, J : MayAdd(s, s, J)
      /\ world.delivered = M!Range(stored.deliveredTo) /\ world.read = M!Range(stored.readBy)
  BY DEF ReceiptsInv, ReceiptsOf, UserList, Elements, M!Range, MayAdd
<1>3. CASE M!SoftDelete(r)
  <2>1. PICK new : /\ new = [stored EXCEPT !.status = "DELETED", !.deletedAt = TRUE]
                   /\ M!Change(r, "softDelete", new, {})
    BY <1>3 DEF M!SoftDelete
  <2>2. new.deliveredTo = stored.deliveredTo /\ new.readBy = stored.readBy
    BY <1>1, <2>1 DEF MessageFields
  <2> QED BY <1>2, <2>1, <2>2, ReceiptsRead
<1>4. ASSUME NEW op, M!Change(r, op, stored, {}) PROVE ReceiptsInv'
  BY <1>2, <1>4, ReceiptsRead
<1>5. ASSUME NEW u \in Users, M!MarkAsDelivered(r, u) PROVE ReceiptsInv'
  <2>1. CASE u \in M!Range(stored.deliveredTo)
    <3>1. M!Change(r, "markAsDelivered", stored, {})
      BY <1>5, <2>1 DEF M!MarkAsDelivered
    <3> QED BY <1>4, <3>1
  <2>2. CASE u \notin M!Range(stored.deliveredTo)
    <3>1. PICK new : /\ new = [stored EXCEPT !.deliveredTo = Append(@, u),
                                             !.status = "DELIVERED"]
                     /\ M!Change(r, "markAsDelivered", new, {})
      BY <1>5, <2>2 DEF M!MarkAsDelivered
    <3>2. new.deliveredTo = Append(stored.deliveredTo, u) /\ new.readBy = stored.readBy
      BY <1>1, <3>1 DEF MessageFields
    <3>3. MayAdd(stored.deliveredTo, new.deliveredTo, world.delivered)
      BY <1>2, <2>2, <3>2 DEF MayAdd
    <3> QED BY <1>2, <3>1, <3>2, <3>3, ReceiptsRead
  <2> QED BY <2>1, <2>2
<1>6. ASSUME NEW u \in Users, M!MarkAsRead(r, u) PROVE ReceiptsInv'
  <2>1. CASE u \in M!Range(stored.readBy)
    <3>1. M!Change(r, "markAsRead", stored, {})
      BY <1>6, <2>1 DEF M!MarkAsRead
    <3> QED BY <1>4, <3>1
  <2>2. CASE u \notin M!Range(stored.readBy)
    <3>1. PICK new : /\ new = [stored EXCEPT !.readBy = Append(@, u), !.status = "READ"]
                     /\ M!Change(r, "markAsRead", new, {})
      BY <1>6, <2>2 DEF M!MarkAsRead
    <3>2. new.readBy = Append(stored.readBy, u) /\ new.deliveredTo = stored.deliveredTo
      BY <1>1, <3>1 DEF MessageFields
    <3>3. MayAdd(stored.readBy, new.readBy, world.read)
      BY <1>2, <2>2, <3>2 DEF MayAdd
    <3> QED BY <1>2, <3>1, <3>2, <3>3, ReceiptsRead
  <2> QED BY <2>1, <2>2
<1> QED BY <1>3, <1>5, <1>6

LEMMA ReceiptsSave ==
    ASSUME MessageInv, ReceiptsInv, NEW r \in Requests, M!SaveMessage(r)
    PROVE  ReceiptsInv'
<1>1. PICK q : q = copy[r]
  OBVIOUS
<1>2. PICK V, E : V = world.delivered /\ E = V \cup M!NewIn(q, "deliveredTo")
  OBVIOUS
<1>3. PICK J, K : J = world.read /\ K = J \cup M!NewIn(q, "readBy")
  OBVIOUS
<1>4. PICK w : /\ DOMAIN w = {"delivered", "read", "deleted"}
               /\ w.delivered = E /\ w.read = K
               /\ Saved(r, {"deliveredTo", "readBy"}, w)
  <2>1. PICK w : w = [delivered |-> E, read |-> K,
                      deleted |-> world.deleted \/ copy[r].op = "softDelete"]
    OBVIOUS
  <2>2. M!SaveCopy(r, {"deliveredTo", "readBy"}, w)
    BY <1>1, <1>2, <1>3, <2>1 DEF M!SaveMessage, M!MessageArrays
  <2> QED BY <2>1, <2>2, MessagingSaves
<1>5. /\ q # Nothing /\ q.whole = {} /\ DOMAIN stored = MessageFields
      /\ DOMAIN copy = Requests /\ copy' = [copy EXCEPT ![r] = Nothing] /\ world' = w
      /\ stored' = MD!Merged(q, {"deliveredTo", "readBy"})
  BY <1>1, <1>4 DEF Saved, MessageInv, MessageCopy, ReasonedMessage
<1>6. /\ stored'["deliveredTo"] = MD!MergedArray(q, "deliveredTo")
      /\ stored'["readBy"] = MD!MergedArray(q, "readBy")
  <2>1. /\ "version" \notin {"deliveredTo", "readBy"} \cup q.whole
        /\ "deliveredTo" \in DOMAIN stored /\ "readBy" \in DOMAIN stored
        /\ "deliveredTo" \in {"deliveredTo", "readBy"} \ q.whole
        /\ "readBy" \in {"deliveredTo", "readBy"} \ q.whole
    BY <1>5 DEF MessageFields
  <2> QED BY <1>5, <2>1, MergedFields
<1>7. ReceiptsOf("deliveredTo", V) /\ ReceiptsOf("readBy", J)
  BY <1>2, <1>3 DEF ReceiptsInv
<1>8. ReceiptsOf("deliveredTo", E)'
  BY <1>1, <1>2, <1>5, <1>6, <1>7, ReceiptsOfSave
<1>9. ReceiptsOf("readBy", K)'
  BY <1>1, <1>3, <1>5, <1>6, <1>7, ReceiptsOfSave
<1> QED BY <1>4, <1>5, <1>8, <1>9 DEF ReceiptsInv

LEMMA ReceiptsSteps ==
    MessageInv /\ ReceiptsInv /\ [M!MessageNext]_(M!document) => ReceiptsInv'
<1> SUFFICES ASSUME MessageInv, ReceiptsInv, [M!MessageNext]_(M!document) PROVE ReceiptsInv'
  OBVIOUS
<1>1. DOMAIN copy = Requests
  BY DEF MessageInv
<1>2. ASSUME NEW r \in Requests, M!AbortCopy(r) PROVE ReceiptsInv'
  BY <1>1, <1>2, ReceiptsLeft DEF M!AbortCopy
<1>3. ASSUME UNCHANGED M!document PROVE ReceiptsInv'
  BY <1>3, ReceiptsLeft DEF M!document
<1> QED BY <1>2, <1>3, ReceiptsMethods, ReceiptsSave DEF M!MessageNext

LEMMA ReceiptsImply == ReceiptsInv => M!ReceiptsKept
<1> SUFFICES ASSUME ReceiptsInv PROVE M!ReceiptsKept
  OBVIOUS
<1>1. /\ stored.readBy \in Seq(Users) /\ Elements(stored.readBy) = world.read
      /\ stored.deliveredTo \in Seq(Users) /\ Elements(stored.deliveredTo) = world.delivered
      /\ \A u \in Users : \E W : Room(PlacesIn(stored.readBy, u), W)
  BY DEF ReceiptsInv, ReceiptsOf, UserList
<1>2. /\ M!Range(stored.readBy) = world.read
      /\ M!Range(stored.deliveredTo) = world.delivered
  BY <1>1 DEF M!Range, Elements
<1>3. ASSUME NEW u \in Users
      PROVE  M!Cardinality({i \in DOMAIN stored.readBy : stored.readBy[i] = u})
                <= M!Cardinality(Requests)
  <2>1. Cardinality(PlacesIn(stored.readBy, u)) <= Cardinality(Requests)
    BY <1>1, RoomBounds
  <2>2. PlacesIn(stored.readBy, u) = {i \in DOMAIN stored.readBy : stored.readBy[i] = u}
    BY <1>1 DEF PlacesIn
  <2>3. \A set : M!Cardinality(set) = Cardinality(set)
    BY DEF Cardinality, M!Cardinality, IsFiniteSet, M!IsFiniteSet
  <2> QED BY <2>1, <2>2, <2>3
<1> QED BY <1>2, <1>3 DEF M!ReceiptsKept

-----------------------------------------------------------------------------
(* Participants and reactions: the users of the elements of a list. *)

UsersIn(s) == [i \in 1..Len(s) |-> s[i].user]

OldUsers(a) == [r \in Requests |-> UsersIn(copy[r].old[a])]

NewUsers(a) == [r \in Requests |-> UsersIn(copy[r].new[a])]

UsersOf(a, J) == UserList(UsersIn(stored[a]), J, Slots, OldUsers(a), NewUsers(a))

\* The elements are of users.
OfUsers(El) == \A e \in El : "user" \in DOMAIN e /\ e.user \in Users

LEMMA UsersInList ==
    ASSUME NEW El, OfUsers(El), NEW s \in Seq(El)
    PROVE  /\ UsersIn(s) \in Seq(Users)
           /\ Len(UsersIn(s)) = Len(s)
           /\ \A i \in 1..Len(s) : UsersIn(s)[i] = s[i].user
           /\ Elements(UsersIn(s)) = {s[i].user : i \in DOMAIN s}
           /\ \A u : PlacesIn(UsersIn(s), u) = {i \in DOMAIN s : s[i].user = u}
<1>1. PICK k \in Nat : k = Len(s) /\ s \in [1..k -> El] /\ DOMAIN s = 1..k
  OBVIOUS
<1>2. PICK t : t = UsersIn(s)
  OBVIOUS
<1>3. t \in [1..k -> Users] /\ \A i \in 1..k : t[i] = s[i].user
  BY <1>1, <1>2 DEF UsersIn, OfUsers
<1>4. t \in Seq(Users) /\ Len(t) = k
  BY <1>3, SeqDef
<1>5. Elements(t) = {s[i].user : i \in 1..k}
  BY <1>3, <1>4 DEF Elements
<1>6. \A u : PlacesIn(t, u) = {i \in 1..k : s[i].user = u}
  BY <1>3, <1>4 DEF PlacesIn
<1> QED BY <1>1, <1>2, <1>3, <1>4, <1>5, <1>6

\* An element that is pushed, and one that is changed.
LEMMA UsersInMore ==
    ASSUME NEW El, OfUsers(El), NEW s \in Seq(El), NEW e \in El
    PROVE  UsersIn(Append(s, e)) = Append(UsersIn(s), e.user)
<1>1. PICK k \in Nat : k = Len(s)
  OBVIOUS
<1>2. PICK t : t = Append(s, e)
  OBVIOUS
<1>3. t \in Seq(El) /\ Len(t) = k + 1 /\ t[k + 1] = e /\ \A i \in 1..k : t[i] = s[i]
  BY <1>1, <1>2
<1>4. PICK x, y : x = UsersIn(s) /\ y = UsersIn(t)
  OBVIOUS
<1>5. /\ x \in Seq(Users) /\ Len(x) = k /\ \A i \in 1..k : x[i] = s[i].user
      /\ y \in Seq(Users) /\ Len(y) = k + 1 /\ \A i \in 1..k + 1 : y[i] = t[i].user
  BY <1>1, <1>3, <1>4, UsersInList
<1>6. e.user \in Users
  BY DEF OfUsers
<1>7. PICK z : z = Append(x, e.user)
  OBVIOUS
<1>8. z \in Seq(Users) /\ Len(z) = k + 1 /\ z[k + 1] = e.user /\ \A i \in 1..k : z[i] = x[i]
  BY <1>5, <1>6, <1>7
<1>9. \A i \in 1..k + 1 : y[i] = z[i]
  <2>1. \A i \in 1..k + 1 : i \in 1..k \/ i = k + 1
    OBVIOUS
  <2>2. \A i \in 1..k : y[i] = z[i]
    <3>1. \A i \in 1..k : i \in 1..k + 1
      OBVIOUS
    <3> QED BY <1>3, <1>5, <1>8, <3>1
  <2>3. k + 1 \in 1..k + 1
    OBVIOUS
  <2> QED BY <1>3, <1>5, <1>8, <2>1, <2>2, <2>3
<1>10. y = z
  BY <1>5, <1>8, <1>9, SeqEqual
<1> QED BY <1>2, <1>4, <1>7, <1>10

LEMMA UsersInChanged ==
    ASSUME NEW s, NEW p, NEW e, e.user = s[p].user, Len([s EXCEPT ![p] = e]) = Len(s),
           DOMAIN s = 1..Len(s)
    PROVE  UsersIn([s EXCEPT ![p] = e]) = UsersIn(s)
<1>1. PICK t : t = [s EXCEPT ![p] = e]
  OBVIOUS
<1>2. \A i \in 1..Len(s) : t[i].user = s[i].user
  BY <1>1
<1> QED BY <1>1, <1>2 DEF UsersIn

\* What a save stores.
LEMMA UsersMerged ==
    ASSUME NEW El, OfUsers(El), NEW q, NEW a, stored[a] \in Seq(El), CopiedArray(q, a, El),
           Receipts(UsersIn(q.old[a]), UsersIn(q.new[a])),
           MD!MergedArray(q, a) \in Seq(El)
    PROVE  AddedAlike(UsersIn(q.old[a]), UsersIn(q.new[a]),
                      UsersIn(stored[a]), UsersIn(MD!MergedArray(q, a)))
<1>1. PICK s \in Seq(El), old \in Seq(El), new \in Seq(El), m \in Seq(El) :
          /\ s = stored[a] /\ old = q.old[a] /\ new = q.new[a]
          /\ m = MD!MergedArray(q, a) /\ Len(old) <= Len(new)
  BY DEF CopiedArray
<1>2. MergedByPlace(old, new, s, m)
  BY <1>1, MergedPlaces
<1>3. PICK k \in Nat, l \in Nat, p \in Nat : k = Len(s) /\ l = Len(old) /\ p = Len(new) /\ l <= p
  BY <1>1
<1>4. PICK x, y, z, n : /\ x = UsersIn(s) /\ y = UsersIn(old) /\ z = UsersIn(new)
                        /\ n = UsersIn(m)
  OBVIOUS
<1>5. /\ x \in Seq(Users) /\ Len(x) = k /\ \A i \in 1..k : x[i] = s[i].user
      /\ y \in Seq(Users) /\ Len(y) = l /\ \A i \in 1..l : y[i] = old[i].user
      /\ z \in Seq(Users) /\ Len(z) = p /\ \A i \in 1..p : z[i] = new[i].user
      /\ n \in Seq(Users) /\ Len(n) = Len(m) /\ \A i \in 1..Len(m) : n[i] = m[i].user
  BY <1>3, <1>4, UsersInList
<1>6. /\ Len(m) = k + (p - l)
      /\ \A i \in 1..k : m[i] = IF i \in 1..l /\ old[i] # new[i]
                                THEN MD!MergedElement(old[i], new[i], s[i]) ELSE s[i]
      /\ \A i \in 1..p - l : m[k + i] = new[l + i]
  BY <1>2, <1>3 DEF MergedByPlace
<1>7. ASSUME \A i \in 1..l : z[i] = y[i], NEW i \in 1..k PROVE m[i].user = x[i]
  <2>1. s[i] \in El /\ "user" \in DOMAIN s[i]
    BY <1>3 DEF OfUsers
  <2>2. CASE i \in 1..l /\ old[i] # new[i]
    <3>1. old[i].user = new[i].user
      <4>1. i \in 1..p
        BY <1>3, <2>2
      <4> QED BY <1>5, <1>7, <2>2, <4>1
    <3>2. m[i] = MD!MergedElement(old[i], new[i], s[i])
      BY <1>6, <2>2
    <3>3. m[i].user = s[i].user
      BY <2>1, <3>1, <3>2 DEF MD!MergedElement
    <3> QED BY <1>5, <3>3
  <2>3. CASE ~ (i \in 1..l /\ old[i] # new[i])
    BY <1>5, <1>6, <2>3
  <2> QED BY <2>2, <2>3
<1>8. ASSUME z = y PROVE n = x
  <2>1. p = l /\ k + (p - l) = k
    BY <1>5, <1>8
  <2>2. \A i \in 1..k : n[i] = x[i]
    BY <1>5, <1>6, <1>7, <1>8, <2>1
  <2> QED BY <1>5, <1>6, <2>1, <2>2, SeqEqual
<1>9. ASSUME NEW u \in Users, z = Append(y, u) PROVE n = Append(x, u)
  <2>1. /\ Len(z) = l + 1 /\ z[l + 1] = u /\ \A i \in 1..l : z[i] = y[i]
    <3>1. PICK w : w = Append(y, u)
      OBVIOUS
    <3>2. y \in Seq(Users) /\ Len(y) = l
      BY <1>5
    <3>3. Len(w) = l + 1 /\ w[l + 1] = u /\ \A i \in 1..l : w[i] = y[i]
      BY <3>1, <3>2
    <3>4. w = z
      BY <1>9, <3>1
    <3> QED BY <3>3, <3>4
  <2>2. p = l + 1 /\ k + (p - l) = k + 1 /\ 1 \in 1..p - l /\ l + 1 \in 1..p
    BY <1>5, <2>1
  <2>3. m[k + 1].user = u
    BY <1>5, <1>6, <2>1, <2>2
  <2>4. PICK t : t = Append(x, u)
    OBVIOUS
  <2>5. t \in Seq(Users) /\ Len(t) = k + 1 /\ t[k + 1] = u /\ \A i \in 1..k : t[i] = x[i]
    BY <1>5, <2>4
  <2>6. \A i \in 1..k + 1 : n[i] = t[i]
    <3>1. \A i \in 1..k + 1 : i \in 1..k \/ i = k + 1
      OBVIOUS
    <3>2. \A i \in 1..k : m[i].user = t[i]
      BY <1>7, <2>1, <2>5
    <3>3. \A i \in 1..k + 1 : n[i] = m[i].user
      BY <1>5, <1>6, <2>2
    <3> QED BY <2>3, <2>5, <3>1, <3>2, <3>3
  <2>7. Len(n) = k + 1
    BY <1>5, <1>6, <2>2
  <2> QED BY <1>5, <2>4, <2>5, <2>6, <2>7, SeqEqual
<1> QED BY <1>1, <1>4, <1>8, <1>9 DEF AddedAlike

LEMMA UsersOfRead ==
    ASSUME NEW a, NEW J, UsersOf(a, J), DOMAIN copy = Requests,
           NEW r \in Requests, copy[r] = Nothing, NEW op, NEW new,
           MayAdd(UsersIn(stored[a]), UsersIn(new[a]), J),
           stored' = stored,
           copy' = [copy EXCEPT ![r] = [op |-> op, old |-> stored, new |-> new, whole |-> {}]]
    PROVE  UsersOf(a, J)'
<1>1. PICK q : q = [op |-> op, old |-> stored, new |-> new, whole |-> {}]
  OBVIOUS
<1>2. \A s \in Requests : copy'[s] = IF s = r THEN q ELSE copy[s]
  BY <1>1
<1>3. PICK OO : OO = OldUsers(a)'
  OBVIOUS
<1>4. PICK NN : NN = NewUsers(a)'
  OBVIOUS
<1>5. /\ OO[r] = UsersIn(stored[a]) /\ NN[r] = UsersIn(new[a])
      /\ SameCopies(Slots, OldUsers(a), NewUsers(a), OO, NN)
  <2>1. \A s \in Requests : OO[s] = UsersIn(copy'[s].old[a]) /\ NN[s] = UsersIn(copy'[s].new[a])
    BY <1>3, <1>4 DEF OldUsers, NewUsers
  <2>2. \A s \in Slots : s # r /\ s \in Requests
    BY DEF Slots
  <2>3. \A s \in Requests : s # r =>
            OO[s] = UsersIn(copy[s].old[a]) /\ NN[s] = UsersIn(copy[s].new[a])
    BY <1>2, <2>1
  <2>4. SameCopies(Slots, OldUsers(a), NewUsers(a), OO, NN)
    BY <2>2, <2>3 DEF OldUsers, NewUsers, SameCopies
  <2>5. copy'[r].old[a] = stored[a] /\ copy'[r].new[a] = new[a]
    BY <1>1, <1>2
  <2> QED BY <2>1, <2>4, <2>5
<1>6. r \notin Slots /\ UserList(UsersIn(stored[a]), J, Slots, OldUsers(a), NewUsers(a))
  BY DEF Slots, UsersOf
<1>7. UserList(UsersIn(stored[a]), J, Slots \cup {r}, OO, NN)
  BY <1>5, <1>6, UsersRead
<1>8. Slots' \subseteq Slots \cup {r} /\ SameCopies(Slots', OO, NN, OO, NN)
  BY <1>2 DEF Slots, SameCopies
<1>9. UserList(UsersIn(stored[a]), J, Slots', OO, NN)
  BY <1>7, <1>8, UsersLeft
<1> QED BY <1>3, <1>4, <1>9 DEF UsersOf

LEMMA UsersOfLeft ==
    ASSUME NEW a, NEW J, UsersOf(a, J), stored' = stored,
           \A r \in Requests : copy'[r] = Nothing \/ copy'[r] = copy[r]
    PROVE  UsersOf(a, J)'
<1>1. UserList(UsersIn(stored[a]), J, Slots, OldUsers(a), NewUsers(a))
  BY DEF UsersOf
<1>2. PICK OO : OO = OldUsers(a)'
  OBVIOUS
<1>3. PICK NN : NN = NewUsers(a)'
  OBVIOUS
<1>4. Slots' \subseteq Slots
  BY DEF Slots
<1>5. SameCopies(Slots', OldUsers(a), NewUsers(a), OO, NN)
  BY <1>2, <1>3 DEF OldUsers, NewUsers, Slots, SameCopies
<1>6. UserList(UsersIn(stored[a]), J, Slots', OO, NN)
  BY <1>1, <1>4, <1>5, UsersLeft
<1> QED BY <1>2, <1>3, <1>6 DEF UsersOf

LEMMA UsersOfSave ==
    ASSUME NEW a, NEW J, UsersOf(a, J), DOMAIN copy = Requests,
           NEW r \in Requests, copy[r] # Nothing, copy' = [copy EXCEPT ![r] = Nothing],
           AddedAlike(UsersIn(copy[r].old[a]), UsersIn(copy[r].new[a]),
                      UsersIn(stored[a]), UsersIn(stored'[a])),
           NEW K, K = J \cup Elements(UsersIn(copy[r].new[a]))
    PROVE  UsersOf(a, K)'
<1>1. UserList(UsersIn(stored[a]), J, Slots, OldUsers(a), NewUsers(a)) /\ r \in Slots
  BY DEF UsersOf, Slots
<1>2. PICK OO : OO = OldUsers(a)'
  OBVIOUS
<1>3. PICK NN : NN = NewUsers(a)'
  OBVIOUS
<1>4. /\ Slots' = Slots \ {r}
      /\ SameCopies(Slots \ {r}, OldUsers(a), NewUsers(a), OO, NN)
  BY <1>2, <1>3 DEF OldUsers, NewUsers, Slots, SameCopies
<1>5. /\ OldUsers(a)[r] = UsersIn(copy[r].old[a])
      /\ NewUsers(a)[r] = UsersIn(copy[r].new[a])
  BY DEF OldUsers, NewUsers
<1>6. PICK t : t = UsersIn(stored'[a])
  OBVIOUS
<1>7. AddedAlike(OldUsers(a)[r], NewUsers(a)[r], UsersIn(stored[a]), t)
  BY <1>5, <1>6
<1>8. UserList(t, J \cup Elements(NewUsers(a)[r]), Slots \ {r}, OO, NN)
  BY <1>1, <1>4, <1>7, UsersSave
<1>9. UserList(UsersIn(stored'[a]), K, Slots', OldUsers(a)', NewUsers(a)')
  <2>1. K = J \cup Elements(NewUsers(a)[r])
    BY <1>5
  <2>2. UserList(t, K, Slots \ {r}, OO, NN)
    BY <1>8, <2>1
  <2> QED BY <1>2, <1>3, <1>4, <1>6, <2>2
<1> QED BY <1>9 DEF UsersOf

-----------------------------------------------------------------------------
(* Participants. *)

ParticipantsInv ==
    /\ DOMAIN world = {"joined"}
    /\ UsersOf("participants", world.joined)

LEMMA ParticipantsAreUsers == OfUsers(M!Participant)
BY DEF OfUsers, M!Participant

LEMMA ParticipantsCopied ==
    ASSUME ConversationInv, ParticipantsInv, NEW r \in Requests, NEW op, NEW new,
           M!Change(r, op, new, {}),
           MayAdd(UsersIn(stored.participants), UsersIn(new.participants), world.joined)
    PROVE  ParticipantsInv'
<1>1. PICK J : J = world.joined
  OBVIOUS
<1>2. /\ copy[r] = Nothing /\ stored' = stored /\ world' = world /\ DOMAIN copy = Requests
      /\ copy' = [copy EXCEPT ![r] = [op |-> op, old |-> stored, new |-> new, whole |-> {}]]
  BY DEF M!Change, M!Copy, ConversationInv
<1>3. /\ UsersOf("participants", J)
      /\ MayAdd(UsersIn(stored["participants"]), UsersIn(new["participants"]), J)
  BY <1>1 DEF ParticipantsInv
<1>4. UsersOf("participants", J)'
  BY <1>2, <1>3, UsersOfRead
<1> QED BY <1>1, <1>2, <1>4 DEF ParticipantsInv

LEMMA ParticipantsMethods ==
    ASSUME ConversationInv, ParticipantsInv, NEW r \in Requests,
           \/ \E u \in Users : M!AddParticipant(r, u) \/ M!RemoveParticipant(r, u)
           \/ M!Archive(r) \/ M!Unarchive(r) \/ M!UpdateLastMessage(r)
    PROVE  ParticipantsInv'
<1>1. DOMAIN stored = ConversationFields
  BY DEF ConversationInv, DatedConversation
<1>2. PICK s \in Seq(M!Participant) : s = stored.participants
  BY DEF ConversationInv, DatedConversation
<1>3. /\ Elements(UsersIn(s)) = world.joined
      /\ \A x, J : MayAdd(x, x, J)
  BY <1>2 DEF ParticipantsInv, UsersOf, UserList, MayAdd
<1>4. ASSUME NEW op, NEW new, M!Change(r, op, new, {}), new.participants = s
      PROVE  ParticipantsInv'
  BY <1>2, <1>3, <1>4, ParticipantsCopied
<1>5. ASSUME NEW op, NEW p \in DOMAIN s, NEW e, e.user = s[p].user,
             M!Change(r, op, [stored EXCEPT !.participants = [s EXCEPT ![p] = e]], {})
      PROVE  ParticipantsInv'
  <2>1. PICK t : t = [s EXCEPT ![p] = e]
    OBVIOUS
  <2>2. UsersIn(t) = UsersIn(s)
    <3>1. DOMAIN s = 1..Len(s) /\ Len([s EXCEPT ![p] = e]) = Len(s)
      <4>1. DOMAIN [s EXCEPT ![p] = e] = DOMAIN s /\ DOMAIN s = 1..Len(s) /\ Len(s) \in Nat
        OBVIOUS
      <4> QED BY <4>1
    <3> QED BY <1>5, <2>1, <3>1, UsersInChanged
  <2>3. PICK new : new = [stored EXCEPT !.participants = t]
    OBVIOUS
  <2>4. new.participants = t
    BY <1>1, <2>3 DEF ConversationFields
  <2>5. MayAdd(UsersIn(stored.participants), UsersIn(new.participants), world.joined)
    BY <1>2, <1>3, <2>2, <2>4
  <2> QED BY <1>5, <2>1, <2>3, <2>5, ParticipantsCopied
<1>6. ASSUME NEW u, M!PlacesOf(stored, u) # {}
      PROVE  M!FirstPlace(stored, u) \in DOMAIN s /\ s[M!FirstPlace(stored, u)].user = u
  <2>1. M!PlacesOf(stored, u) = {i \in DOMAIN s : s[i].user = u}
    BY <1>2 DEF M!PlacesOf
  <2>2. M!PlacesOf(stored, u) \subseteq Nat
    BY <2>1
  <2>3. \E i \in M!PlacesOf(stored, u) : \A j \in M!PlacesOf(stored, u) : i <= j
    BY <1>6, <2>2, LeastOfNaturals
  <2>4. M!FirstPlace(stored, u) \in M!PlacesOf(stored, u)
    BY <2>3 DEF M!FirstPlace
  <2> QED BY <2>1, <2>4
<1>7. ASSUME NEW u \in Users, M!AddParticipant(r, u) PROVE ParticipantsInv'
  <2>1. PICK e \in M!Participant : e = M!Joined(u) /\ e.user = u
    <3>1. M!Joined(u) \in M!Participant /\ M!Joined(u).user = u
      BY DEF M!Joined, M!Participant
    <3> QED BY <3>1
  <2>2. CASE M!PlacesOf(stored, u) = {}
    <3>1. PICK new : /\ new = [stored EXCEPT !.participants = Append(s, e)]
                     /\ M!Change(r, "addParticipant", new, {})
      BY <1>2, <1>7, <2>1, <2>2 DEF M!AddParticipant
    <3>2. new.participants = Append(s, e)
      BY <1>1, <3>1 DEF ConversationFields
    <3>3. UsersIn(new.participants) = Append(UsersIn(s), u)
      BY <2>1, <3>2, UsersInMore, ParticipantsAreUsers
    <3>4. u \notin world.joined
      <4>1. Elements(UsersIn(s)) = {s[i].user : i \in DOMAIN s}
        BY UsersInList, ParticipantsAreUsers
      <4>2. {i \in DOMAIN s : s[i].user = u} = {}
        BY <1>2, <2>2 DEF M!PlacesOf
      <4> QED BY <1>3, <4>1, <4>2
    <3>5. MayAdd(UsersIn(stored.participants), UsersIn(new.participants), world.joined)
      BY <1>2, <3>3, <3>4 DEF MayAdd
    <3> QED BY <3>1, <3>5, ParticipantsCopied
  <2>3. CASE M!PlacesOf(stored, u) # {}
    <3>1. PICK p : p = M!FirstPlace(stored, u) /\ p \in DOMAIN s /\ s[p].user = u
      BY <1>6, <2>3
    <3>2. PICK x : x = (IF s[p].isActive THEN s[p] ELSE e) /\ x.user = s[p].user
      BY <2>1, <3>1
    <3>3. M!Change(r, "addParticipant", [stored EXCEPT !.participants = [s EXCEPT ![p] = x]], {})
      <4>1. PICK d : d = [stored EXCEPT !.participants[p] = IF @.isActive THEN @ ELSE e]
        OBVIOUS
      <4>2. d = [stored EXCEPT !.participants = [s EXCEPT ![p] = x]]
        BY <1>2, <3>2, <4>1
      <4> QED BY <1>7, <2>1, <2>3, <3>1, <4>1, <4>2 DEF M!AddParticipant
    <3> QED BY <1>5, <3>1, <3>2, <3>3
  <2> QED BY <2>2, <2>3
<1>8. ASSUME NEW u \in Users, M!RemoveParticipant(r, u) PROVE ParticipantsInv'
  <2>1. CASE M!PlacesOf(stored, u) = {}
    <3>1. M!Change(r, "removeParticipant", stored, {})
      BY <1>8, <2>1 DEF M!RemoveParticipant
    <3> QED BY <1>2, <1>4, <3>1
  <2>2. CASE M!PlacesOf(stored, u) # {}
    <3>1. PICK p : p = M!FirstPlace(stored, u) /\ p \in DOMAIN s /\ s[p].user = u
      BY <1>6, <2>2
    <3>2. PICK x : x = [s[p] EXCEPT !.isActive = FALSE, !.leftAt = M!Now]
      OBVIOUS
    <3>3. x.user = s[p].user
      <4>1. PICK y \in M!Participant : y = s[p]
        BY <3>1
      <4>2. DOMAIN y = {"user", "isActive", "leftAt"}
        BY DEF M!Participant
      <4> QED BY <3>2, <4>1, <4>2
    <3>4. M!Change(r, "removeParticipant",
                   [stored EXCEPT !.participants = [s EXCEPT ![p] = x]], {})
      <4>1. PICK d : d = [stored EXCEPT !.participants[p].isActive = FALSE,
                                        !.participants[p].leftAt = M!Now]
        OBVIOUS
      <4>2. d = [stored EXCEPT !.participants = [s EXCEPT ![p] = x]]
        BY <1>1, <1>2, <3>2, <4>1 DEF ConversationFields
      <4> QED BY <1>8, <2>2, <3>1, <4>1, <4>2 DEF M!RemoveParticipant
    <3> QED BY <1>5, <3>1, <3>3, <3>4
  <2> QED BY <2>1, <2>2
<1>9. CASE M!Archive(r)
  <2>1. PICK new : /\ new = [stored EXCEPT !.isArchived = TRUE, !.archivedAt = M!Now]
                   /\ M!Change(r, "archive", new, {})
    BY <1>9 DEF M!Archive
  <2>2. new.participants = s
    BY <1>1, <1>2, <2>1 DEF ConversationFields
  <2> QED BY <1>4, <2>1, <2>2
<1>10. CASE M!Unarchive(r)
  <2>1. PICK new : /\ new = [stored EXCEPT !.isArchived = FALSE, !.archivedAt = 0]
                   /\ M!Change(r, "unarchive", new, {})
    BY <1>10 DEF M!Unarchive
  <2>2. new.participants = s
    BY <1>1, <1>2, <2>1 DEF ConversationFields
  <2> QED BY <1>4, <2>1, <2>2
<1>11. CASE M!UpdateLastMessage(r)
  <2>1. PICK new : /\ new = [stored EXCEPT !.lastMessage = M!Now, !.lastMessageAt = M!Now]
                   /\ M!Change(r, "updateLastMessage", new, {})
    BY <1>11 DEF M!UpdateLastMessage
  <2>2. new.participants = s
    BY <1>1, <1>2, <2>1 DEF ConversationFields
  <2> QED BY <1>4, <2>1, <2>2
<1> QED BY <1>7, <1>8, <1>9, <1>10, <1>11

LEMMA ParticipantsSave ==
    ASSUME ConversationInv, ParticipantsInv, NEW r \in Requests, M!SaveConversation(r)
    PROVE  ParticipantsInv'
<1>1. PICK q : q = copy[r]
  OBVIOUS
<1>2. PICK J, K : J = world.joined /\ K = J \cup Elements(UsersIn(q.new["participants"]))
  OBVIOUS
<1>3. /\ q # Nothing /\ ConversationCopy(q, saves) /\ q.whole = {}
      /\ DOMAIN stored = ConversationFields /\ DOMAIN copy = Requests
      /\ stored["participants"] \in Seq(M!Participant)
  BY <1>1 DEF M!SaveConversation, ConversationInv, ConversationCopy, DatedConversation
<1>4. PICK new \in Seq(M!Participant) : new = q.new.participants
  BY <1>3 DEF ConversationCopy, Rejoins
<1>5. PICK w : DOMAIN w = {"joined"} /\ w.joined = K /\ Saved(r, {"participants"}, w)
  <2>1. PICK w : w = [world EXCEPT !.joined = @ \cup {new[i].user : i \in DOMAIN new}]
    OBVIOUS
  <2>2. M!SaveCopy(r, {"participants"}, w)
    BY <1>1, <1>4, <2>1 DEF M!SaveConversation, M!ConversationArrays
  <2>3. Elements(UsersIn(new)) = {new[i].user : i \in DOMAIN new}
    BY UsersInList, ParticipantsAreUsers
  <2>4. DOMAIN w = {"joined"} /\ w.joined = K
    BY <1>2, <1>4, <2>1, <2>3 DEF ParticipantsInv
  <2> QED BY <2>2, <2>4, MessagingSaves
<1>6. /\ copy' = [copy EXCEPT ![r] = Nothing] /\ world' = w
      /\ stored' = MD!Merged(q, {"participants"})
  BY <1>1, <1>5 DEF Saved
<1>7. stored'["participants"] = MD!MergedArray(q, "participants")
  <2>1. /\ "version" \notin {"participants"} \cup q.whole
        /\ "participants" \in DOMAIN stored
        /\ "participants" \in {"participants"} \ q.whole
    BY <1>3 DEF ConversationFields
  <2> QED BY <1>6, <2>1, MergedFields
<1>8. /\ CopiedArray(q, "participants", M!Participant)
      /\ Rejoins(q.old.participants, q.new.participants, q.op)
  BY <1>3 DEF ConversationCopy, Rejoins, CopiedArray
<1>9. MD!MergedArray(q, "participants") \in Seq(M!Participant)
  <2>1. MergedByPlace(q.old["participants"], q.new["participants"], stored["participants"],
                      MD!MergedArray(q, "participants"))
    BY <1>3, <1>8, MergedPlaces
  <2>2. Rejoins(stored["participants"], MD!MergedArray(q, "participants"), q.op)
    BY <1>3, <1>8, <2>1, RejoinsMerged
  <2> QED BY <2>2 DEF Rejoins
<1>10. UsersOf("participants", J)
  BY <1>2 DEF ParticipantsInv
<1>11. Receipts(UsersIn(q.old["participants"]), UsersIn(q.new["participants"]))
  <2>1. r \in Slots
    BY <1>1, <1>3 DEF Slots
  <2>2. Receipts(OldUsers("participants")[r], NewUsers("participants")[r])
    BY <1>10, <2>1 DEF UsersOf, UserList
  <2> QED BY <1>1, <2>2 DEF OldUsers, NewUsers
<1>12. AddedAlike(UsersIn(q.old["participants"]), UsersIn(q.new["participants"]),
                  UsersIn(stored["participants"]), UsersIn(MD!MergedArray(q, "participants")))
  BY <1>3, <1>8, <1>9, <1>11, UsersMerged, ParticipantsAreUsers
<1>13. AddedAlike(UsersIn(q.old["participants"]), UsersIn(q.new["participants"]),
                  UsersIn(stored["participants"]), UsersIn(stored'["participants"]))
  BY <1>7, <1>12
<1>14. UsersOf("participants", K)'
  BY <1>1, <1>2, <1>3, <1>6, <1>10, <1>13, UsersOfSave
<1> QED BY <1>5, <1>6, <1>14 DEF ParticipantsInv

LEMMA ParticipantsFirst == M!ConversationInit => ParticipantsInv
<1> SUFFICES ASSUME M!ConversationInit PROVE ParticipantsInv
  OBVIOUS
<1>1. PICK list \in M!FirstLists :
          /\ stored.participants = list
          /\ world = [joined |-> {list[i].user : i \in DOMAIN list}]
  <2>1. PICK list \in M!FirstLists :
            /\ stored = [participants |-> list, isArchived |-> FALSE, archivedAt |-> 0,
                         lastMessage |-> 0, lastMessageAt |-> 0, version |-> 0]
            /\ world = [joined |-> {list[i].user : i \in DOMAIN list}]
    BY DEF M!ConversationInit
  <2>2. stored.participants = list
    BY <2>1
  <2> QED BY <2>1, <2>2
<1>2. PICK s \in Seq(M!Participant) : s = list /\ Len(s) \in 0..1
  <2>1. ASSUME NEW u \in Users
        PROVE  <<M!Joined(u)>> \in Seq(M!Participant) /\ Len(<<M!Joined(u)>>) \in 0..1
    <3>1. PICK e \in M!Participant : e = M!Joined(u)
      BY DEF M!Joined, M!Participant
    <3>2. <<e>> \in Seq(M!Participant) /\ Len(<<e>>) \in 0..1
      OBVIOUS
    <3> QED BY <3>1, <3>2
  <2>2. << >> \in Seq(M!Participant) /\ Len(<< >>) \in 0..1
    OBVIOUS
  <2>3. list \in Seq(M!Participant) /\ Len(list) \in 0..1
    BY <1>1, <2>1, <2>2 DEF M!FirstLists
  <2> QED BY <2>3
<1>3. PICK x \in Seq(Users) :
          /\ x = UsersIn(s) /\ Len(x) \in 0..1
          /\ Elements(x) = {s[i].user : i \in DOMAIN s}
  <2>1. /\ UsersIn(s) \in Seq(Users) /\ Len(UsersIn(s)) = Len(s)
        /\ Elements(UsersIn(s)) = {s[i].user : i \in DOMAIN s}
    BY <1>2, UsersInList, ParticipantsAreUsers
  <2> QED BY <1>2, <2>1
<1>4. \A O, L : UserList(x, Elements(x), {}, O, L)
  BY <1>3, UsersFirst
<1>5. /\ DOMAIN world = {"joined"} /\ world.joined = Elements(x)
      /\ UsersIn(stored["participants"]) = x
  BY <1>1, <1>2, <1>3
<1>6. Slots = {}
  BY DEF M!ConversationInit, M!NoCopies, Slots
<1> QED BY <1>4, <1>5, <1>6 DEF ParticipantsInv, UsersOf

LEMMA ParticipantsSteps ==
    ConversationInv /\ ParticipantsInv /\ [M!ConversationNext]_(M!document) => ParticipantsInv'
<1> SUFFICES ASSUME ConversationInv, ParticipantsInv, [M!ConversationNext]_(M!document)
             PROVE  ParticipantsInv'
  OBVIOUS
<1>1. ASSUME stored' = stored, world' = world,
             \A r \in Requests : copy'[r] = Nothing \/ copy'[r] = copy[r]
      PROVE  ParticipantsInv'
  <2>1. PICK J : J = world.joined
    OBVIOUS
  <2>2. UsersOf("participants", J)'
    BY <1>1, <2>1, UsersOfLeft DEF ParticipantsInv
  <2> QED BY <1>1, <2>1, <2>2 DEF ParticipantsInv
<1>2. ASSUME NEW r \in Requests, M!AbortCopy(r) PROVE ParticipantsInv'
  BY <1>1, <1>2 DEF M!AbortCopy, ConversationInv
<1>3. ASSUME UNCHANGED M!document PROVE ParticipantsInv'
  BY <1>1, <1>3 DEF M!document
<1> QED BY <1>2, <1>3, ParticipantsMethods, ParticipantsSave DEF M!ConversationNext

LEMMA ParticipantsImply == ConversationInv /\ ParticipantsInv => M!ParticipantsKept
<1> SUFFICES ASSUME ConversationInv, ParticipantsInv PROVE M!ParticipantsKept
  OBVIOUS
<1>1. PICK s \in Seq(M!Participant) : s = stored.participants
  BY DEF ConversationInv, DatedConversation
<1>2. /\ Elements(UsersIn(s)) = world.joined
      /\ \A u \in Users : \E W : Room(PlacesIn(UsersIn(s), u), W)
  BY <1>1 DEF ParticipantsInv, UsersOf, UserList
<1>3. ASSUME NEW u \in Users
      PROVE  /\ u \in world.joined <=> M!PlacesOf(stored, u) # {}
             /\ M!Cardinality(M!PlacesOf(stored, u)) <= M!Cardinality(Requests)
  <2>1. M!PlacesOf(stored, u) = {i \in DOMAIN s : s[i].user = u}
    BY <1>1 DEF M!PlacesOf
  <2>2. /\ PlacesIn(UsersIn(s), u) = {i \in DOMAIN s : s[i].user = u}
        /\ Elements(UsersIn(s)) = {s[i].user : i \in DOMAIN s}
    BY UsersInList, ParticipantsAreUsers
  <2>3. Cardinality(M!PlacesOf(stored, u)) <= Cardinality(Requests)
    BY <1>2, <2>1, <2>2, RoomBounds
  <2>4. \A set : M!Cardinality(set) = Cardinality(set)
    BY DEF Cardinality, M!Cardinality, IsFiniteSet, M!IsFiniteSet
  <2>5. u \in world.joined <=> M!PlacesOf(stored, u) # {}
    BY <1>2, <2>1, <2>2
  <2> QED BY <2>3, <2>4, <2>5
<1> QED BY <1>3 DEF M!ParticipantsKept

-----------------------------------------------------------------------------
(* Reactions to a direct message. *)

DirectFields == {"delivered", "read", "readAt", "reactions", "deletedAt", "version"}

DirectCopy(q) == q.whole = {} /\ CopiedArray(q, "reactions", M!Reaction)

ReactionsInv ==
    /\ DOMAIN stored = DirectFields
    /\ stored.reactions \in Seq(M!Reaction)
    /\ DOMAIN copy = Requests
    /\ \A r \in Requests : copy[r] # Nothing => DirectCopy(copy[r])
    /\ DOMAIN world = {"reacted"}
    /\ UsersOf("reactions", world.reacted)

LEMMA ReactionsAreUsers == OfUsers(M!Reaction)
BY DEF OfUsers, M!Reaction

\* An element of which fields were changed is a reaction.
LEMMA ReactionMerged ==
    ASSUME NEW x \in M!Reaction, NEW y \in M!Reaction, NEW z \in M!Reaction
    PROVE  MD!MergedElement(x, y, z) \in M!Reaction
<1>1. DOMAIN z = {"user", "type"}
  BY DEF M!Reaction
<1>2. PICK e : e = MD!MergedElement(x, y, z)
  OBVIOUS
<1>3. e = [f \in {"user", "type"} |-> IF x[f] = y[f] THEN z[f] ELSE y[f]]
  BY <1>1, <1>2 DEF MD!MergedElement
<1>4. /\ e = [user |-> e.user, type |-> e.type]
      /\ e.user = Sent(x.user, y.user, z.user)
      /\ e.type = Sent(x.type, y.type, z.type)
  BY <1>3 DEF Sent
<1>5. e.user \in Users /\ e.type \in Reactions
  BY <1>4 DEF Sent, M!Reaction
<1> QED BY <1>2, <1>4, <1>5 DEF M!Reaction

LEMMA ReactionsMerged ==
    ASSUME NEW q, DirectCopy(q), stored["reactions"] \in Seq(M!Reaction)
    PROVE  MD!MergedArray(q, "reactions") \in Seq(M!Reaction)
<1>1. PICK s \in Seq(M!Reaction), old \in Seq(M!Reaction), new \in Seq(M!Reaction) :
          s = stored["reactions"] /\ old = q.old["reactions"] /\ new = q.new["reactions"]
  BY DEF DirectCopy, CopiedArray
<1>2. PICK m : m = MD!MergedArray(q, "reactions")
  OBVIOUS
<1>3. MergedByPlace(old, new, s, m)
  <2>1. MergedByPlace(q.old["reactions"], q.new["reactions"], stored["reactions"],
                      MD!MergedArray(q, "reactions"))
    BY MergedPlaces DEF DirectCopy
  <2> QED BY <1>1, <1>2, <2>1
<1>4. PICK k \in Nat, l \in Nat, p \in Nat : k = Len(s) /\ l = Len(old) /\ p = Len(new)
  OBVIOUS
<1>5. l <= p /\ k + (p - l) \in Nat
  <2>1. Len(q.old["reactions"]) <= Len(q.new["reactions"])
    BY DEF DirectCopy, CopiedArray
  <2>2. l <= p
    BY <1>1, <1>4, <2>1
  <2> QED BY <2>2
<1>6. /\ m = [i \in 1..k + (p - l) |-> m[i]]
      /\ \A i \in 1..k : m[i] = IF i \in 1..l /\ old[i] # new[i]
                                THEN MD!MergedElement(old[i], new[i], s[i]) ELSE s[i]
      /\ \A i \in 1..p - l : m[k + i] = new[l + i]
  BY <1>3, <1>4 DEF MergedByPlace
<1>7. ASSUME NEW i \in 1..k PROVE m[i] \in M!Reaction
  <2>1. s[i] \in M!Reaction
    BY <1>4
  <2>2. CASE i \in 1..l /\ old[i] # new[i]
    <3>1. old[i] \in M!Reaction /\ new[i] \in M!Reaction
      BY <1>4, <1>5, <2>2
    <3> QED BY <1>6, <2>1, <2>2, <3>1, ReactionMerged
  <2>3. CASE ~ (i \in 1..l /\ old[i] # new[i])
    BY <1>6, <2>1, <2>3
  <2> QED BY <2>2, <2>3
<1>8. ASSUME NEW i \in 1..k + (p - l), i \notin 1..k PROVE m[i] \in M!Reaction
  <2>1. i - k \in 1..p - l /\ k + (i - k) = i /\ l + (i - k) \in 1..p
    BY <1>5, <1>8
  <2>2. new[l + (i - k)] \in M!Reaction
    BY <1>4, <2>1
  <2> QED BY <1>6, <2>1, <2>2
<1>9. m \in [1..k + (p - l) -> M!Reaction]
  BY <1>6, <1>7, <1>8
<1> QED BY <1>2, <1>5, <1>9, SeqDef

LEMMA ReactionsRead ==
    ASSUME ReactionsInv, NEW r \in Requests, NEW op, NEW new, M!Find(r, op, new),
           MayAdd(UsersIn(stored.reactions), UsersIn(new.reactions), world.reacted),
           new.reactions \in Seq(M!Reaction), Len(stored.reactions) <= Len(new.reactions)
    PROVE  ReactionsInv'
<1>1. PICK J : J = world.reacted
  OBVIOUS
<1>2. /\ copy[r] = Nothing /\ stored' = stored /\ world' = world /\ DOMAIN copy = Requests
      /\ copy' = [copy EXCEPT ![r] = [op |-> op, old |-> stored, new |-> new, whole |-> {}]]
  BY DEF M!Find, M!Change, M!Copy, ReactionsInv
<1>3. /\ UsersOf("reactions", J)
      /\ MayAdd(UsersIn(stored["reactions"]), UsersIn(new["reactions"]), J)
  BY <1>1 DEF ReactionsInv
<1>4. UsersOf("reactions", J)'
  BY <1>2, <1>3, UsersOfRead
<1>5. PICK q : q = [op |-> op, old |-> stored, new |-> new, whole |-> {}]
  OBVIOUS
<1>6. DirectCopy(q)
  BY <1>5 DEF DirectCopy, CopiedArray, ReactionsInv
<1>7. ASSUME NEW s \in Requests, copy'[s] # Nothing PROVE DirectCopy(copy'[s])
  <2>1. copy'[s] = IF s = r THEN q ELSE copy[s]
    BY <1>2, <1>5
  <2> QED BY <1>6, <1>7, <2>1 DEF ReactionsInv
<1>8. DOMAIN copy' = Requests
  BY <1>2
<1> QED BY <1>1, <1>2, <1>4, <1>7, <1>8 DEF ReactionsInv

LEMMA ReactionsMethods ==
    ASSUME ReactionsInv, NEW r \in Requests,
           \/ M!MarkDirectAsDelivered(r) \/ M!MarkDirectAsRead(r) \/ M!SoftDeleteDirect(r)
           \/ \E u \in Users, type \in Reactions : M!AddReaction(r, u, type)
    PROVE  ReactionsInv'
<1>1. DOMAIN stored = DirectFields
  BY DEF ReactionsInv
<1>2. PICK s \in Seq(M!Reaction) : s = stored.reactions
  BY DEF ReactionsInv
<1>3. /\ Elements(UsersIn(s)) = world.reacted
      /\ \A x, J : MayAdd(x, x, J)
      /\ Len(s) \in Nat
  BY <1>2 DEF ReactionsInv, UsersOf, UserList, MayAdd
<1>4. ASSUME NEW op, NEW new, M!Find(r, op, new), new.reactions = s PROVE ReactionsInv'
  <2>1. Len(stored.reactions) <= Len(new.reactions)
    BY <1>2, <1>3, <1>4
  <2> QED BY <1>2, <1>3, <1>4, <2>1, ReactionsRead
<1>5. CASE M!MarkDirectAsDelivered(r)
  <2>1. PICK new : /\ new = [stored EXCEPT !.delivered = TRUE]
                   /\ M!Find(r, "markAsDelivered", new)
    BY <1>5 DEF M!MarkDirectAsDelivered
  <2>2. new.reactions = s
    BY <1>1, <1>2, <2>1 DEF DirectFields
  <2> QED BY <1>4, <2>1, <2>2
<1>6. CASE M!MarkDirectAsRead(r)
  <2>1. PICK new : /\ new = [stored EXCEPT !.read = TRUE, !.readAt = TRUE]
                   /\ M!Find(r, "markAsRead", new)
    BY <1>6 DEF M!MarkDirectAsRead
  <2>2. new.reactions = s
    BY <1>1, <1>2, <2>1 DEF DirectFields
  <2> QED BY <1>4, <2>1, <2>2
<1>7. CASE M!SoftDeleteDirect(r)
  <2>1. PICK new : /\ new = [stored EXCEPT !.deletedAt = TRUE]
                   /\ M!Find(r, "softDelete", new)
    BY <1>7 DEF M!SoftDeleteDirect
  <2>2. new.reactions = s
    BY <1>1, <1>2, <2>1 DEF DirectFields
  <2> QED BY <1>4, <2>1, <2>2
<1>8. ASSUME NEW u \in Users, NEW type \in Reactions, M!AddReaction(r, u, type)
      PROVE  ReactionsInv'
  <2>0. M!ReactionsOf(stored, u) = {i \in DOMAIN s : s[i].user = u}
    BY <1>2 DEF M!ReactionsOf
  <2>1. PICK e \in M!Reaction : e = [user |-> u, type |-> type] /\ e.user = u
    <3>1. [user |-> u, type |-> type] \in M!Reaction /\ [user |-> u, type |-> type].user = u
      BY DEF M!Reaction
    <3> QED BY <3>1
  <2>2. CASE M!ReactionsOf(stored, u) = {}
    <3>1. PICK new : /\ new = [stored EXCEPT !.reactions = Append(s, e)]
                     /\ M!Find(r, "addReaction", new)
      BY <1>2, <1>8, <2>1, <2>2 DEF M!AddReaction
    <3>2. new.reactions = Append(s, e)
      BY <1>1, <3>1 DEF DirectFields
    <3>3. UsersIn(new.reactions) = Append(UsersIn(s), u)
      BY <2>1, <3>2, UsersInMore, ReactionsAreUsers
    <3>4. u \notin world.reacted
      <4>1. Elements(UsersIn(s)) = {s[i].user : i \in DOMAIN s}
        BY UsersInList, ReactionsAreUsers
      <4>2. {i \in DOMAIN s : s[i].user = u} = {}
        BY <2>0, <2>2
      <4> QED BY <1>3, <4>1, <4>2
    <3>5. MayAdd(UsersIn(stored.reactions), UsersIn(new.reactions), world.reacted)
      BY <1>2, <3>3, <3>4 DEF MayAdd
    <3>6. new.reactions \in Seq(M!Reaction) /\ Len(stored.reactions) <= Len(new.reactions)
      <4>1. Append(s, e) \in Seq(M!Reaction) /\ Len(Append(s, e)) = Len(s) + 1
        OBVIOUS
      <4> QED BY <1>2, <1>3, <3>2, <4>1
    <3> QED BY <3>1, <3>5, <3>6, ReactionsRead
  <2>3. CASE M!ReactionsOf(stored, u) # {}
    <3>1. PICK p \in DOMAIN s : p = M!FirstReaction(stored, u)
      <4>1. M!ReactionsOf(stored, u) \subseteq Nat
        BY <2>0
      <4>2. \E i \in M!ReactionsOf(stored, u) : \A j \in M!ReactionsOf(stored, u) : i <= j
        BY <2>3, <4>1, LeastOfNaturals
      <4>3. M!FirstReaction(stored, u) \in M!ReactionsOf(stored, u)
        BY <4>2 DEF M!FirstReaction
      <4> QED BY <2>0, <4>3
    <3>2. PICK y \in M!Reaction : y = s[p]
      OBVIOUS
    <3>3. PICK x : x = [y EXCEPT !.type = type]
      OBVIOUS
    <3>4. x \in M!Reaction /\ x.user = y.user
      BY <3>2, <3>3 DEF M!Reaction
    <3>5. PICK t : t = [s EXCEPT ![p] = x]
      OBVIOUS
    <3>6. t \in Seq(M!Reaction) /\ Len(t) = Len(s) /\ DOMAIN s = 1..Len(s)
      BY <3>4, <3>5
    <3>7. UsersIn(t) = UsersIn(s)
      BY <3>2, <3>4, <3>5, <3>6, UsersInChanged
    <3>8. PICK new : /\ new = [stored EXCEPT !.reactions[p].type = type]
                     /\ M!Find(r, "addReaction", new)
      BY <1>8, <2>3, <3>1 DEF M!AddReaction
    <3>9. new.reactions = t
      BY <1>1, <1>2, <3>2, <3>3, <3>5, <3>8 DEF DirectFields
    <3>10. MayAdd(UsersIn(stored.reactions), UsersIn(new.reactions), world.reacted)
      BY <1>2, <1>3, <3>7, <3>9
    <3>11. Len(stored.reactions) <= Len(new.reactions)
      BY <1>2, <1>3, <3>6, <3>9
    <3> QED BY <3>6, <3>8, <3>9, <3>10, <3>11, ReactionsRead
  <2> QED BY <2>2, <2>3
<1> QED BY <1>5, <1>6, <1>7, <1>8

LEMMA ReactionsSave ==
    ASSUME ReactionsInv, NEW r \in Requests, M!SaveDirect(r)
    PROVE  ReactionsInv'
<1>1. PICK q : q = copy[r]
  OBVIOUS
<1>2. PICK J, K : J = world.reacted /\ K = J \cup Elements(UsersIn(q.new["reactions"]))
  OBVIOUS
<1>3. /\ q # Nothing /\ DirectCopy(q) /\ q.whole = {}
      /\ DOMAIN stored = DirectFields /\ DOMAIN copy = Requests
      /\ stored["reactions"] \in Seq(M!Reaction)
  BY <1>1 DEF M!SaveDirect, ReactionsInv, DirectCopy
<1>4. PICK new \in Seq(M!Reaction) : new = q.new.reactions
  BY <1>3 DEF DirectCopy, CopiedArray
<1>5. PICK w : DOMAIN w = {"reacted"} /\ w.reacted = K /\ Saved(r, {"reactions"}, w)
  <2>1. PICK w : w = [reacted |-> J \cup {new[i].user : i \in DOMAIN new}]
    OBVIOUS
  <2>2. M!SaveCopy(r, {"reactions"}, w)
    BY <1>1, <1>2, <1>4, <2>1 DEF M!SaveDirect, M!DirectArrays
  <2>3. Elements(UsersIn(new)) = {new[i].user : i \in DOMAIN new}
    BY UsersInList, ReactionsAreUsers
  <2>4. DOMAIN w = {"reacted"} /\ w.reacted = K
    BY <1>2, <1>4, <2>1, <2>3
  <2> QED BY <2>2, <2>4, MessagingSaves
<1>6. /\ copy' = [copy EXCEPT ![r] = Nothing] /\ world' = w
      /\ stored' = MD!Merged(q, {"reactions"})
  BY <1>1, <1>5 DEF Saved
<1>7. stored'["reactions"] = MD!MergedArray(q, "reactions") /\ DOMAIN stored' = DirectFields
  <2>1. /\ "version" \notin {"reactions"} \cup q.whole
        /\ "reactions" \in DOMAIN stored
        /\ "reactions" \in {"reactions"} \ q.whole
    BY <1>3 DEF DirectFields
  <2> QED BY <1>3, <1>6, <2>1, MergedFields
<1>8. CopiedArray(q, "reactions", M!Reaction)
  BY <1>3 DEF DirectCopy
<1>9. MD!MergedArray(q, "reactions") \in Seq(M!Reaction)
  BY <1>3, ReactionsMerged
<1>10. UsersOf("reactions", J)
  BY <1>2 DEF ReactionsInv
<1>11. Receipts(UsersIn(q.old["reactions"]), UsersIn(q.new["reactions"]))
  <2>1. r \in Slots
    BY <1>1, <1>3 DEF Slots
  <2>2. Receipts(OldUsers("reactions")[r], NewUsers("reactions")[r])
    BY <1>10, <2>1 DEF UsersOf, UserList
  <2> QED BY <1>1, <2>2 DEF OldUsers, NewUsers
<1>12. AddedAlike(UsersIn(q.old["reactions"]), UsersIn(q.new["reactions"]),
                  UsersIn(stored["reactions"]), UsersIn(MD!MergedArray(q, "reactions")))
  BY <1>3, <1>8, <1>9, <1>11, UsersMerged, ReactionsAreUsers
<1>13. AddedAlike(UsersIn(q.old["reactions"]), UsersIn(q.new["reactions"]),
                  UsersIn(stored["reactions"]), UsersIn(stored'["reactions"]))
  BY <1>7, <1>12
<1>14. UsersOf("reactions", K)'
  BY <1>1, <1>2, <1>3, <1>6, <1>10, <1>13, UsersOfSave
<1>15. \A s \in Requests : copy'[s] # Nothing => DirectCopy(copy'[s])
  BY <1>3, <1>6 DEF ReactionsInv
<1> QED BY <1>3, <1>5, <1>6, <1>7, <1>9, <1>14, <1>15 DEF ReactionsInv

\* A message without reactions, and without copies.
LEMMA NoReactions ==
    ASSUME NEW d, d = [delivered |-> FALSE, read |-> FALSE, readAt |-> FALSE,
                       reactions |-> << >>, deletedAt |-> FALSE, version |-> 0]
    PROVE  /\ DOMAIN d = DirectFields /\ d.reactions \in Seq(M!Reaction)
           /\ \A O, L : UserList(UsersIn(d.reactions), {}, {}, O, L)
<1>1. PICK s \in Seq(M!Reaction) : s = << >> /\ Len(s) = 0
  <2>1. << >> \in Seq(M!Reaction) /\ Len(<< >>) = 0
    OBVIOUS
  <2> QED BY <2>1
<1>2. PICK x \in Seq(Users) : x = UsersIn(s) /\ Len(x) = 0
  BY <1>1, UsersInList, ReactionsAreUsers
<1>3. Elements(x) = {} /\ Len(x) \in 0..1
  BY <1>2 DEF Elements
<1>4. \A O, L : UserList(x, {}, {}, O, L)
  <2>1. \A O, L : UserList(x, Elements(x), {}, O, L)
    BY <1>3, UsersFirst
  <2> QED BY <1>3, <2>1
<1>5. d.reactions = s /\ DOMAIN d = DirectFields
  BY <1>1 DEF DirectFields
<1> QED BY <1>2, <1>4, <1>5

LEMMA ReactionsFirst == M!DirectInit => ReactionsInv
<1> SUFFICES ASSUME M!DirectInit PROVE ReactionsInv
  OBVIOUS
<1>1. /\ stored = [delivered |-> FALSE, read |-> FALSE, readAt |-> FALSE,
                   reactions |-> << >>, deletedAt |-> FALSE, version |-> 0]
      /\ copy = M!NoCopies /\ world = [reacted |-> {}]
  BY DEF M!DirectInit
<1>2. /\ DOMAIN stored = DirectFields /\ stored.reactions \in Seq(M!Reaction)
      /\ \A O, L : UserList(UsersIn(stored.reactions), {}, {}, O, L)
  BY <1>1, NoReactions
<1>3. Slots = {} /\ DOMAIN copy = Requests /\ \A r \in Requests : copy[r] = Nothing
  BY <1>1 DEF M!NoCopies, Slots
<1> QED BY <1>1, <1>2, <1>3 DEF ReactionsInv, UsersOf

LEMMA ReactionsSteps == ReactionsInv /\ [M!DirectNext]_(M!document) => ReactionsInv'
<1> SUFFICES ASSUME ReactionsInv, [M!DirectNext]_(M!document) PROVE ReactionsInv'
  OBVIOUS
<1>1. ASSUME stored' = stored, world' = world, DOMAIN copy' = Requests,
             \A r \in Requests : copy'[r] = Nothing \/ copy'[r] = copy[r]
      PROVE  ReactionsInv'
  <2>1. PICK J : J = world.reacted
    OBVIOUS
  <2>2. UsersOf("reactions", J)'
    BY <1>1, <2>1, UsersOfLeft DEF ReactionsInv
  <2> QED BY <1>1, <2>1, <2>2 DEF ReactionsInv
<1>2. ASSUME NEW r \in Requests, M!AbortCopy(r) PROVE ReactionsInv'
  BY <1>1, <1>2 DEF M!AbortCopy, ReactionsInv
<1>3. ASSUME UNCHANGED M!document PROVE ReactionsInv'
  BY <1>1, <1>3 DEF M!document, ReactionsInv
<1>4. ASSUME M!NextMessage PROVE ReactionsInv'
  <2>1. /\ stored' = [delivered |-> FALSE, read |-> FALSE, readAt |-> FALSE,
                      reactions |-> << >>, deletedAt |-> FALSE, version |-> 0]
        /\ copy = M!NoCopies /\ copy' = copy /\ world' = [reacted |-> {}]
    BY <1>4 DEF M!NextMessage
  <2>2. /\ DOMAIN stored' = DirectFields /\ stored'.reactions \in Seq(M!Reaction)
        /\ \A O, L : UserList(UsersIn(stored'.reactions), {}, {}, O, L)
    BY <2>1, NoReactions
  <2>3. Slots' = {} /\ DOMAIN copy' = Requests /\ \A r \in Requests : copy'[r] = Nothing
    BY <2>1 DEF M!NoCopies, Slots
  <2> QED BY <2>1, <2>2, <2>3 DEF ReactionsInv, UsersOf
<1> QED BY <1>2, <1>3, <1>4, ReactionsMethods, ReactionsSave DEF M!DirectNext

LEMMA ReactionsImply == ReactionsInv => M!ReactionsKept
<1> SUFFICES ASSUME ReactionsInv PROVE M!ReactionsKept
  OBVIOUS
<1>1. PICK s \in Seq(M!Reaction) : s = stored.reactions
  BY DEF ReactionsInv
<1>2. /\ Elements(UsersIn(s)) = world.reacted
      /\ \A u \in Users : \E W : Room(PlacesIn(UsersIn(s), u), W)
  BY <1>1 DEF ReactionsInv, UsersOf, UserList
<1>3. ASSUME NEW u \in Users
      PROVE  /\ u \in world.reacted <=> M!ReactionsOf(stored, u) # {}
             /\ M!Cardinality(M!ReactionsOf(stored, u)) <= M!Cardinality(Requests)
  <2>1. M!ReactionsOf(stored, u) = {i \in DOMAIN s : s[i].user = u}
    BY <1>1 DEF M!ReactionsOf
  <2>2. /\ PlacesIn(UsersIn(s), u) = {i \in DOMAIN s : s[i].user = u}
        /\ Elements(UsersIn(s)) = {s[i].user : i \in DOMAIN s}
    BY UsersInList, ReactionsAreUsers
  <2>3. Cardinality(M!ReactionsOf(stored, u)) <= Cardinality(Requests)
    BY <1>2, <2>1, <2>2, RoomBounds
  <2>4. \A set : M!Cardinality(set) = Cardinality(set)
    BY DEF Cardinality, M!Cardinality, IsFiniteSet, M!IsFiniteSet
  <2>5. u \in world.reacted <=> M!ReactionsOf(stored, u) # {}
    BY <1>2, <2>1, <2>2
  <2> QED BY <2>3, <2>4, <2>5
<1> QED BY <1>3 DEF M!ReactionsKept

-----------------------------------------------------------------------------
(* Payments of a subscription. *)

\* A payment without a date was given without one, and as paid if it is paid.
Undated(x, g) == ~ x.dated => /\ ~ g.dated
                              /\ x.status = "PAID" => g.status = "PAID"

\* The first n payments of s are those of g.
FirstGiven(s, g, n) ==
    /\ s \in Seq(S!Payment)
    /\ \A i \in 1..n : Undated(s[i], g[i])

\* t has the payments of s at their places, and those with a date still have one.
Later(s, t) == /\ Len(s) <= Len(t)
               /\ \A i \in 1..Len(s) : s[i].dated => t[i].dated

\* old and new are of a copy, and s is what is stored now.
GivenCopy(old, new, s, g) ==
    /\ FirstGiven(old, g, Len(old)) /\ FirstGiven(new, g, Len(old))
    /\ Later(old, new) /\ Later(old, s)

PaymentsCopy(q, s, g) == q.whole = {} /\ GivenCopy(q.old.payments, q.new.payments, s, g)

\* The payments that are stored are those that were given.
AsGiven(s, g) == g \in Seq(S!Payment) /\ Len(s) = Len(g) /\ FirstGiven(s, g, Len(s))

PaymentsInv ==
    /\ AsGiven(stored.payments, world.given)
    /\ \A r \in Requests : copy[r] # Nothing =>
          PaymentsCopy(copy[r], stored.payments, world.given)

LEMMA LaterReflexive == \A s \in Seq(S!Payment) : Later(s, s)
<1> SUFFICES ASSUME NEW s \in Seq(S!Payment) PROVE Later(s, s)
  OBVIOUS
<1>1. Len(s) \in Nat
  OBVIOUS
<1> QED BY <1>1 DEF Later

LEMMA LaterTransitive ==
    ASSUME NEW s \in Seq(S!Payment), NEW t \in Seq(S!Payment), NEW u \in Seq(S!Payment),
           Later(s, t), Later(t, u)
    PROVE  Later(s, u)
<1>1. PICK k \in Nat, l \in Nat, n \in Nat :
          k = Len(s) /\ l = Len(t) /\ n = Len(u) /\ k <= l /\ l <= n
  BY DEF Later
<1>2. k <= n /\ \A i \in 1..k : i \in 1..l
  BY <1>1
<1> QED BY <1>1, <1>2 DEF Later

\* A payment of which fields were changed.
LEMMA PaymentMerged ==
    ASSUME NEW x \in S!Payment, NEW y \in S!Payment, NEW z \in S!Payment, NEW g,
           Undated(y, g), Undated(z, g), x.dated => y.dated /\ z.dated,
           NEW e, e = MD!MergedElement(x, y, z)
    PROVE  e \in S!Payment /\ Undated(e, g) /\ (z.dated => e.dated)
<1>1. DOMAIN z = {"status", "dated"}
  BY DEF S!Payment
<1>2. e = [f \in {"status", "dated"} |-> IF x[f] = y[f] THEN z[f] ELSE y[f]]
  BY <1>1 DEF MD!MergedElement
<1>3. /\ e = [status |-> e.status, dated |-> e.dated]
      /\ e.status = Sent(x.status, y.status, z.status)
      /\ e.dated = Sent(x.dated, y.dated, z.dated)
  BY <1>2 DEF Sent
<1>4. /\ x.dated \in BOOLEAN /\ y.dated \in BOOLEAN /\ z.dated \in BOOLEAN
      /\ y.status \in S!PaymentStatuses /\ z.status \in S!PaymentStatuses
  BY DEF S!Payment
<1>5. e.status \in S!PaymentStatuses /\ e.dated \in BOOLEAN
      /\ e.status \in {y.status, z.status}
  BY <1>3, <1>4 DEF Sent
<1>6. e \in S!Payment
  BY <1>3, <1>5 DEF S!Payment
<1>7. (z.dated => e.dated) /\ (~ e.dated => ~ y.dated /\ ~ z.dated)
  BY <1>3, <1>4 DEF Sent
<1> QED BY <1>5, <1>6, <1>7 DEF Undated

\* What a copy pushes, and that it comes after what was given before.
Ext(old, new) == SubSeq(new, Len(old) + 1, Len(new))

SameFirst(s, g, h) == \A i \in 1..Len(s) : h[i] = g[i]

LEMMA PaymentsMerged ==
    ASSUME NEW s \in Seq(S!Payment), NEW g, AsGiven(s, g),
           NEW old \in Seq(S!Payment), NEW new \in Seq(S!Payment), GivenCopy(old, new, s, g),
           NEW m, MergedByPlace(old, new, s, m)
    PROVE  LET h == g \o Ext(old, new) IN AsGiven(m, h) /\ Later(s, m) /\ SameFirst(s, g, h)
<1>0. PICK ext : ext = Ext(old, new)
  OBVIOUS
<1>1. PICK k \in Nat, l \in Nat, p \in Nat :
          /\ k = Len(s) /\ l = Len(old) /\ p = Len(new) /\ l <= p /\ l <= k /\ k = Len(g)
          /\ g \in Seq(S!Payment)
  BY DEF AsGiven, GivenCopy, Later
<1>2. k + (p - l) \in Nat /\ k <= k + (p - l) /\ p - l \in Nat
  BY <1>1
<1>3. /\ m = [i \in 1..k + (p - l) |-> m[i]] /\ Len(m) = k + (p - l)
      /\ \A i \in 1..k : m[i] = IF i \in 1..l /\ old[i] # new[i]
                                THEN MD!MergedElement(old[i], new[i], s[i]) ELSE s[i]
      /\ \A i \in 1..p - l : m[k + i] = new[l + i]
  BY <1>1 DEF MergedByPlace
<1>4. /\ \A i \in 1..k : s[i] \in S!Payment /\ Undated(s[i], g[i])
      /\ \A i \in 1..p : new[i] \in S!Payment
      /\ \A i \in 1..l : old[i] \in S!Payment /\ Undated(new[i], g[i])
      /\ \A i \in 1..l : old[i].dated => new[i].dated /\ s[i].dated
  BY <1>1 DEF AsGiven, GivenCopy, FirstGiven, Later
<1>5. ASSUME NEW i \in 1..k
      PROVE  m[i] \in S!Payment /\ Undated(m[i], g[i]) /\ (s[i].dated => m[i].dated)
  <2>1. CASE i \in 1..l /\ old[i] # new[i]
    <3>1. i \in 1..p
      BY <1>1, <2>1
    <3>2. PICK x \in S!Payment, y \in S!Payment, z \in S!Payment,
                   e \in S!Payment :
              x = old[i] /\ y = new[i] /\ z = s[i] /\ e = g[i]
      BY <1>1, <1>4, <2>1, <3>1
    <3>3. Undated(y, e) /\ Undated(z, e) /\ (x.dated => y.dated /\ z.dated)
      BY <1>4, <2>1, <3>1, <3>2
    <3>4. m[i] = MD!MergedElement(x, y, z)
      BY <1>3, <2>1, <3>2
    <3> QED BY <3>2, <3>3, <3>4, PaymentMerged
  <2>2. CASE ~ (i \in 1..l /\ old[i] # new[i])
    <3>1. m[i] = s[i]
      BY <1>3, <2>2
    <3> QED BY <1>4, <3>1
  <2> QED BY <2>1, <2>2
<1>6. /\ ext \in Seq(S!Payment) /\ Len(ext) = p - l
      /\ \A i \in 1..p - l : ext[i] = new[l + i]
  BY <1>0, <1>1, SuffixProperties DEF Ext
<1>7. PICK h : h = g \o ext
  OBVIOUS
<1>8. /\ h \in Seq(S!Payment) /\ Len(h) = k + (p - l)
      /\ \A i \in 1..k : h[i] = g[i]
      /\ \A i \in 1..p - l : h[k + i] = ext[i]
  <2>1. PICK n \in Nat : n = p - l /\ Len(ext) = n
    BY <1>2, <1>6
  <2>2. /\ h \in Seq(S!Payment) /\ Len(h) = Len(g) + Len(ext)
        /\ \A i \in 1..Len(g) : h[i] = g[i]
        /\ \A i \in 1..Len(ext) : h[Len(g) + i] = ext[i]
    <3>1. PICK a \in Seq(S!Payment), b \in Seq(S!Payment) : a = g /\ b = ext
      BY <1>1, <1>6
    <3>2. /\ a \o b \in Seq(S!Payment) /\ Len(a \o b) = Len(a) + Len(b)
          /\ \A i \in 1..Len(a) : (a \o b)[i] = a[i]
          /\ \A i \in 1..Len(b) : (a \o b)[Len(a) + i] = b[i]
      BY ConcatParts
    <3> QED BY <1>7, <3>1, <3>2
  <2> QED BY <1>1, <2>1, <2>2
<1>9. ASSUME NEW i \in 1..k + (p - l), i \notin 1..k
      PROVE  m[i] \in S!Payment /\ Undated(m[i], h[i])
  <2>1. i - k \in 1..p - l /\ k + (i - k) = i /\ l + (i - k) \in 1..p
    BY <1>1, <1>9
  <2>2. m[i] = new[l + (i - k)] /\ h[i] = new[l + (i - k)]
    BY <1>3, <1>6, <1>8, <2>1
  <2> QED BY <1>4, <2>1, <2>2 DEF Undated
<1>10. ASSUME NEW i \in 1..k + (p - l) PROVE m[i] \in S!Payment /\ Undated(m[i], h[i])
  <2>1. CASE i \in 1..k
    BY <1>5, <1>8, <2>1
  <2> QED BY <1>9, <1>10, <2>1
<1>11. m \in [1..k + (p - l) -> S!Payment]
  BY <1>3, <1>10
<1>12. m \in Seq(S!Payment)
  BY <1>2, <1>11, SeqDef
<1>13. AsGiven(m, h)
  BY <1>3, <1>8, <1>10, <1>12 DEF AsGiven, FirstGiven
<1>14. Later(s, m)
  BY <1>1, <1>2, <1>3, <1>5 DEF Later
<1> QED BY <1>0, <1>1, <1>7, <1>8, <1>13, <1>14 DEF SameFirst

LEMMA PaymentsRead ==
    ASSUME SubscriptionInv, PaymentsInv, NEW r \in Requests, NEW op, NEW new, S!Do(r, op, new),
           DOMAIN new = SubscriptionFields, Dated(new),
           FirstGiven(new.payments, world.given, Len(stored.payments)),
           Later(stored.payments, new.payments)
    PROVE  PaymentsInv'
<1>1. PICK d : d = S!Billed(new)
  OBVIOUS
<1>2. PICK q : q = [op |-> op, old |-> stored, new |-> d, whole |-> {}]
  OBVIOUS
<1>3. UNCHANGED <<stored, world>> /\ copy' = [copy EXCEPT ![r] = q]
  BY <1>1, <1>2 DEF S!Do, S!Change, S!Copy
<1>4. d.payments = new.payments
  BY <1>1, HookBills DEF SubscriptionFields
<1>5. /\ Later(stored.payments, stored.payments)
      /\ FirstGiven(stored.payments, world.given, Len(stored.payments))
  BY LaterReflexive DEF PaymentsInv, AsGiven, FirstGiven
<1>6. PaymentsCopy(q, stored.payments, world.given)
  BY <1>2, <1>4, <1>5 DEF PaymentsCopy, GivenCopy
<1>7. ASSUME NEW s \in Requests, copy'[s] # Nothing
      PROVE  PaymentsCopy(copy'[s], stored.payments, world.given)
  <2>1. copy'[s] = IF s = r THEN q ELSE copy[s]
    BY <1>3 DEF SubscriptionInv
  <2> QED BY <1>6, <1>7, <2>1 DEF PaymentsInv
<1> QED BY <1>3, <1>7 DEF PaymentsInv

\* A method that leaves the payments alone.
LEMMA PaymentsAlone ==
    ASSUME SubscriptionInv, PaymentsInv, NEW r \in Requests, NEW op, NEW new,
           S!Do(r, op, new), DOMAIN new = SubscriptionFields, Dated(new),
           new.payments = stored.payments
    PROVE  PaymentsInv'
<1>1. /\ FirstGiven(stored.payments, world.given, Len(stored.payments))
      /\ Later(stored.payments, stored.payments)
  BY LaterReflexive DEF PaymentsInv, AsGiven, FirstGiven
<1> QED BY <1>1, PaymentsRead

LEMMA PaymentsMethods ==
    ASSUME SubscriptionInv, PaymentsInv, NEW r \in Requests,
           \/ \E status \in {"ACTIVE", "INACTIVE"} : S!SetStatus(r, status)
           \/ \E immediate \in BOOLEAN : S!Cancel(r, immediate)
           \/ S!Renew(r) \/ \E p \in Plans : S!ChangePlan(r, p)
           \/ \E payment \in Given : S!AddPayment(r, payment)
           \/ \E i \in DOMAIN stored.payments, status \in {"PAID", "REFUNDED"} :
                  S!UpdatePaymentStatus(r, i, status)
    PROVE  PaymentsInv'
<1>1. DOMAIN stored = SubscriptionFields /\ Dated(stored) /\ world.today \in Nat
  BY DEF SubscriptionInv
<1>2. ASSUME NEW status \in {"ACTIVE", "INACTIVE"}, S!SetStatus(r, status)
      PROVE  PaymentsInv'
  <2>1. PICK new : new = [stored EXCEPT !.status = status] /\ S!Do(r, "setStatus", new)
    BY <1>2 DEF S!SetStatus
  <2>2. DOMAIN new = SubscriptionFields /\ Dated(new) /\ new.payments = stored.payments
    BY <1>1, <2>1 DEF Dated, SubscriptionFields
  <2> QED BY <2>1, <2>2, PaymentsAlone
<1>3. ASSUME NEW immediate \in BOOLEAN, S!Cancel(r, immediate)
      PROVE  PaymentsInv'
  <2>1. CASE immediate
    <3>1. PICK new : /\ new = [stored EXCEPT !.status = "CANCELLED", !.endDate = world.today]
                     /\ S!Do(r, "cancel", new)
      BY <1>3, <2>1 DEF S!Cancel
    <3>2. DOMAIN new = SubscriptionFields /\ Dated(new) /\ new.payments = stored.payments
      BY <1>1, <3>1 DEF Dated, SubscriptionFields
    <3> QED BY <3>1, <3>2, PaymentsAlone
  <2>2. CASE ~ immediate
    <3>1. PICK new : /\ new = [stored EXCEPT !.autoRenew = FALSE, !.endDate = stored.nextBillingDate]
                     /\ S!Do(r, "cancel", new)
      BY <1>3, <2>2 DEF S!Cancel
    <3>2. DOMAIN new = SubscriptionFields /\ Dated(new) /\ new.payments = stored.payments
      BY <1>1, <3>1 DEF Dated, SubscriptionFields
    <3> QED BY <3>1, <3>2, PaymentsAlone
  <2> QED BY <2>1, <2>2
<1>4. CASE S!Renew(r)
  <2>1. PICK next : next = S!NextDate(stored.nextBillingDate, stored.billingCycle,
                                    stored.nextBillingDate)
    OBVIOUS
  <2>2. PICK new : /\ new = [stored EXCEPT !.startDate = stored.nextBillingDate,
                                           !.nextBillingDate = next,
                                           !.endDate = 0, !.status = "ACTIVE"]
                   /\ S!Do(r, "renew", new)
    <3>1. [stored EXCEPT !.startDate = stored.nextBillingDate,
                         !.nextBillingDate = S!NextDate(@, stored.billingCycle, @),
                         !.endDate = 0, !.status = "ACTIVE"]
          = [stored EXCEPT !.startDate = stored.nextBillingDate,
                           !.nextBillingDate = next,
                           !.endDate = 0, !.status = "ACTIVE"]
      BY <1>1, <2>1 DEF SubscriptionFields
    <3> QED BY <1>4, <3>1 DEF S!Renew, S!NoDate
  <2>3. next \in Nat /\ stored.nextBillingDate \in Nat /\ stored.billingCycle \in Nat
    BY <1>1, <2>1, NextIsDate DEF Dated
  <2>4. /\ DOMAIN new = SubscriptionFields /\ new.payments = stored.payments
        /\ new.startDate = stored.nextBillingDate /\ new.nextBillingDate = next
        /\ new.billingCycle = stored.billingCycle
    BY <1>1, <2>2 DEF SubscriptionFields
  <2>5. Dated(new)
    BY <2>3, <2>4 DEF Dated
  <2> QED BY <2>2, <2>4, <2>5, PaymentsAlone
<1>5. ASSUME NEW p \in Plans, S!ChangePlan(r, p)
      PROVE  PaymentsInv'
  <2>1. PICK next : next = S!NextDate(world.today, p.billingCycle, stored.nextBillingDate)
    OBVIOUS
  <2>2. PICK new : /\ new = [stored EXCEPT !.plan = p, !.billingCycle = p.billingCycle,
                                           !.billingAmount = p.price, !.nextBillingDate = next]
                   /\ S!Do(r, "changePlan", new)
    <3>1. [stored EXCEPT !.plan = p, !.billingCycle = p.billingCycle, !.billingAmount = p.price,
                         !.nextBillingDate = S!NextDate(world.today, p.billingCycle, @)]
          = [stored EXCEPT !.plan = p, !.billingCycle = p.billingCycle,
                           !.billingAmount = p.price, !.nextBillingDate = next]
      BY <1>1, <2>1 DEF SubscriptionFields
    <3> QED BY <1>5, <3>1 DEF S!ChangePlan
  <2>3. next \in Nat /\ p.billingCycle \in Nat
    <3>1. p.billingCycle \in Nat
      BY PlansAssumption
    <3> QED BY <1>1, <2>1, <3>1, NextIsDate DEF Dated
  <2>4. /\ DOMAIN new = SubscriptionFields /\ new.payments = stored.payments
        /\ new.startDate = stored.startDate /\ new.nextBillingDate = next
        /\ new.billingCycle = p.billingCycle
    BY <1>1, <2>2 DEF SubscriptionFields
  <2>5. Dated(new)
    BY <1>1, <2>3, <2>4 DEF Dated
  <2> QED BY <2>2, <2>4, <2>5, PaymentsAlone
<1>6. ASSUME NEW e \in Given, S!AddPayment(r, e) PROVE PaymentsInv'
  <2>1. e \in S!Payment
    BY PlansAssumption
  <2>2. PICK s \in Seq(S!Payment), g \in Seq(S!Payment) :
            s = stored.payments /\ g = world.given /\ AsGiven(s, g)
    BY DEF PaymentsInv, AsGiven, FirstGiven
  <2>3. PICK new : /\ new = [stored EXCEPT !.payments = Append(s, e)]
                   /\ S!Do(r, "addPayment", new)
    <3>1. [stored EXCEPT !.payments = Append(@, e)] = [stored EXCEPT !.payments = Append(s, e)]
      BY <2>2
    <3> QED BY <1>6, <3>1 DEF S!AddPayment
  <2>4. DOMAIN new = SubscriptionFields /\ Dated(new) /\ new.payments = Append(s, e)
    BY <1>1, <2>3 DEF Dated, SubscriptionFields
  <2>5. PICK k \in Nat : k = Len(s)
    OBVIOUS
  <2>6. PICK t : t = Append(s, e)
    OBVIOUS
  <2>7. t \in Seq(S!Payment) /\ Len(t) = k + 1 /\ \A i \in 1..k : t[i] = s[i]
    BY <2>1, <2>5, <2>6
  <2>8. FirstGiven(t, g, k) /\ Later(s, t)
    <3>1. k <= k + 1
      OBVIOUS
    <3> QED BY <2>2, <2>5, <2>7, <3>1 DEF AsGiven, FirstGiven, Later
  <2> QED BY <2>2, <2>3, <2>4, <2>5, <2>6, <2>8, PaymentsRead
<1>7. ASSUME NEW i \in DOMAIN stored.payments, NEW status \in {"PAID", "REFUNDED"},
             S!UpdatePaymentStatus(r, i, status)
      PROVE  PaymentsInv'
  <2>1. PICK s \in Seq(S!Payment), g \in Seq(S!Payment) :
            s = stored.payments /\ g = world.given /\ AsGiven(s, g)
    BY DEF PaymentsInv, AsGiven, FirstGiven
  <2>2. PICK x \in S!Payment : x = s[i] /\ i \in DOMAIN s
    BY <2>1
  <2>3. PICK date : date = (x.dated \/ status = "PAID")
    OBVIOUS
  <2>4. PICK y : y = [status |-> status, dated |-> date]
    OBVIOUS
  <2>5. PICK t : t = [s EXCEPT ![i] = y]
    OBVIOUS
  <2>6. PICK new : /\ new = [stored EXCEPT !.payments[i].status = status,
                                           !.payments[i].dated = @ \/ status = "PAID"]
                   /\ S!Do(r, "updatePaymentStatus", new)
    BY <1>7 DEF S!UpdatePaymentStatus
  <2>7. /\ DOMAIN new = SubscriptionFields
        /\ \A f \in SubscriptionFields \ {"payments"} : new[f] = stored[f]
    BY <1>1, <2>6
  <2>8. Dated(new)
    BY <1>1, <2>7 DEF Dated, SubscriptionFields
  <2>9. new.payments = t
    <3>1. x = [status |-> x.status, dated |-> x.dated]
      BY DEF S!Payment
    <3>2. new.payments = [s EXCEPT ![i].status = status, ![i].dated = @ \/ status = "PAID"]
      BY <1>1, <2>1, <2>6 DEF SubscriptionFields
    <3>3. [s EXCEPT ![i].status = status, ![i].dated = @ \/ status = "PAID"] = t
      <4>1. PICK v : v = [s EXCEPT ![i].status = status]
        OBVIOUS
      <4>2. PICK z : z = [x EXCEPT !.status = status]
        OBVIOUS
      <4>3. z = [status |-> status, dated |-> x.dated]
        BY <3>1, <4>2
      <4>4. v = [s EXCEPT ![i] = z] /\ v[i] = z
        BY <2>2, <4>1, <4>2
      <4>5. [z EXCEPT !.dated = @ \/ status = "PAID"] = y
        <5>1. z.dated = x.dated
          BY <4>3
        <5>2. [z EXCEPT !.dated = @ \/ status = "PAID"] = [z EXCEPT !.dated = date]
          BY <2>3, <5>1
        <5> QED BY <2>4, <4>3, <5>2
      <4>6. [v EXCEPT ![i].dated = @ \/ status = "PAID"] = [v EXCEPT ![i] = y]
        BY <4>4, <4>5
      <4>7. [v EXCEPT ![i] = y] = t
        BY <2>5, <4>4
      <4> QED BY <4>1, <4>6, <4>7
    <3> QED BY <3>2, <3>3
  <2>10. DOMAIN s = 1..Len(s) /\ Len(s) \in Nat /\ i \in 1..Len(s)
    BY <2>2
  <2>11. Undated(x, g[i]) /\ x.dated \in BOOLEAN
    BY <2>1, <2>2, <2>10 DEF AsGiven, FirstGiven, S!Payment
  <2>12. y \in S!Payment
    <3>1. date \in BOOLEAN
      BY <2>3, <2>11
    <3> QED BY <2>4, <3>1 DEF S!Payment, S!PaymentStatuses
  <2>13. Undated(y, g[i]) /\ (x.dated => y.dated)
    <3>1. y.dated = date /\ y.status = status
      BY <2>4
    <3> QED BY <2>3, <2>11, <3>1 DEF Undated
  <2>14. t \in Seq(S!Payment) /\ Len(t) = Len(s)
         /\ \A j \in 1..Len(s) : t[j] = IF j = i THEN y ELSE s[j]
    <3>1. PICK k \in Nat : k = Len(s) /\ s \in [1..k -> S!Payment] /\ DOMAIN s = 1..k
      OBVIOUS
    <3>2. /\ t \in [1..k -> S!Payment]
          /\ \A j \in 1..k : t[j] = IF j = i THEN y ELSE s[j]
      BY <2>5, <2>12, <3>1
    <3>3. t \in Seq(S!Payment) /\ Len(t) = k
      BY <3>2, SeqDef
    <3> QED BY <3>1, <3>2, <3>3
  <2>15. FirstGiven(t, g, Len(s)) /\ Later(s, t)
    <3>1. Len(s) <= Len(s)
      BY <2>10
    <3> QED BY <2>1, <2>2, <2>13, <2>14, <3>1 DEF AsGiven, FirstGiven, Later
  <2> QED BY <2>1, <2>6, <2>7, <2>8, <2>9, <2>15, PaymentsRead
<1> QED BY <1>2, <1>3, <1>4, <1>5, <1>6, <1>7

LEMMA PaymentsSave ==
    ASSUME SubscriptionInv, PaymentsInv, NEW r \in Requests, S!Save(r)
    PROVE  PaymentsInv'
<1>1. PICK q, ext, w :
          /\ q = copy[r] /\ q # Nothing /\ ext = MD!Pushed(q, "payments")
          /\ w = [world EXCEPT !.given = @ \o ext] /\ Saved(r, {"payments"}, w)
  <2>1. PICK q, ext, w : /\ q = copy[r] /\ ext = MD!Pushed(q, "payments")
                         /\ w = [world EXCEPT !.given = @ \o ext]
    OBVIOUS
  <2>2. copy[r] # Nothing /\ S!SaveCopy(r, {"payments"}, w)
    BY <2>1 DEF S!Save, S!Arrays, S!Pushed, MD!Pushed
  <2> QED BY <2>1, <2>2, SubscriptionSaves
<1>2. PICK s \in Seq(S!Payment), old \in Seq(S!Payment), new \in Seq(S!Payment),
           g \in Seq(S!Payment) :
          /\ s = stored.payments /\ old = q.old.payments /\ new = q.new.payments
          /\ g = world.given /\ AsGiven(s, g) /\ GivenCopy(old, new, s, g) /\ q.whole = {}
  BY <1>1 DEF PaymentsInv, PaymentsCopy, GivenCopy, AsGiven, FirstGiven
<1>3. /\ stored' = MD!Merged(q, {"payments"}) /\ copy' = [copy EXCEPT ![r] = Nothing]
      /\ world' = w
  BY <1>1 DEF Saved
<1>4. PICK m : m = stored'.payments
  OBVIOUS
<1>5. MergedByPlace(old, new, s, m)
  <2>1. /\ "version" \notin {"payments"} \cup q.whole /\ "payments" \in DOMAIN stored
        /\ "payments" \in {"payments"} \ q.whole
    BY <1>2 DEF SubscriptionInv, SubscriptionFields
  <2>2. m = MD!MergedArray(q, "payments")
    BY <1>3, <1>4, <2>1, MergedFields
  <2>3. CopiedArray(q, "payments", S!Payment) /\ stored["payments"] \in Seq(S!Payment)
    BY <1>2 DEF CopiedArray, GivenCopy, Later
  <2>4. MergedByPlace(q.old["payments"], q.new["payments"], stored["payments"],
                      MD!MergedArray(q, "payments"))
    BY <2>3, MergedPlaces
  <2> QED BY <1>2, <2>2, <2>4
<1>6. ext = Ext(old, new)
  BY <1>1, <1>2 DEF MD!Pushed, Ext
<1>7. PICK h : h = g \o ext
  OBVIOUS
<1>8. AsGiven(m, h) /\ Later(s, m) /\ SameFirst(s, g, h)
  BY <1>2, <1>5, <1>6, <1>7, PaymentsMerged
<1>9. world'.given = h
  BY <1>1, <1>2, <1>3, <1>7 DEF SubscriptionInv
<1>10. ASSUME NEW p \in Requests, copy'[p] # Nothing PROVE PaymentsCopy(copy'[p], m, h)
  <2>1. PICK c : c = copy'[p] /\ PaymentsCopy(c, s, g)
    BY <1>2, <1>3, <1>10 DEF SubscriptionInv, PaymentsInv
  <2>2. PICK o \in Seq(S!Payment), n \in Seq(S!Payment) :
            o = c.old.payments /\ n = c.new.payments /\ GivenCopy(o, n, s, g)
    BY <2>1 DEF PaymentsCopy, GivenCopy, FirstGiven
  <2>3. m \in Seq(S!Payment)
    BY <1>8 DEF AsGiven, FirstGiven
  <2>4. Later(o, m)
    BY <1>2, <1>8, <2>2, <2>3, LaterTransitive DEF GivenCopy
  <2>5. \A i \in 1..Len(o) : i \in 1..Len(s)
    BY <1>2, <2>2 DEF GivenCopy, Later
  <2>6. GivenCopy(o, n, m, h)
    BY <1>8, <2>2, <2>4, <2>5 DEF GivenCopy, FirstGiven, SameFirst
  <2> QED BY <2>1, <2>2, <2>6 DEF PaymentsCopy
<1> QED BY <1>4, <1>8, <1>9, <1>10 DEF PaymentsInv

LEMMA PaymentsFirst == S!Init => PaymentsInv
<1> SUFFICES ASSUME S!Init PROVE PaymentsInv
  OBVIOUS
<1>1. PICK list \in S!FirstPayments : stored.payments = list /\ world = [today |-> 1, given |-> list]
  BY DEF S!Init
<1>2. list \in Seq(S!Payment)
  <2>1. ASSUME NEW e \in Given PROVE <<e>> \in Seq(S!Payment)
    <3>1. e \in S!Payment
      BY PlansAssumption
    <3> QED BY <3>1
  <2>2. << >> \in Seq(S!Payment)
    OBVIOUS
  <2> QED BY <1>1, <2>1, <2>2 DEF S!FirstPayments
<1>3. AsGiven(list, list)
  BY <1>2 DEF AsGiven, FirstGiven, Undated
<1>4. copy = [r \in Requests |-> Nothing]
  BY DEF S!Init, S!NoCopies
<1> QED BY <1>1, <1>3, <1>4 DEF PaymentsInv

LEMMA PaymentsSteps ==
    SubscriptionInv /\ PaymentsInv /\ [S!Next]_(S!document) => PaymentsInv'
<1> SUFFICES ASSUME SubscriptionInv, PaymentsInv, [S!Next]_(S!document) PROVE PaymentsInv'
  OBVIOUS
<1>1. ASSUME NEW r \in Requests, S!AbortCopy(r) PROVE PaymentsInv'
  BY <1>1 DEF S!AbortCopy, SubscriptionInv, PaymentsInv
<1>2. ASSUME S!MonthPasses PROVE PaymentsInv'
  <2>1. UNCHANGED <<stored, copy>> /\ world' = [world EXCEPT !.today = @ + 1]
    BY <1>2 DEF S!MonthPasses, S!WorldChanges
  <2>2. world'.given = world.given
    BY <2>1 DEF SubscriptionInv
  <2> QED BY <2>1, <2>2 DEF PaymentsInv
<1>3. ASSUME UNCHANGED S!document PROVE PaymentsInv'
  BY <1>3 DEF S!document, PaymentsInv
<1> QED BY <1>1, <1>2, <1>3, PaymentsMethods, PaymentsSave DEF S!Next

LEMMA PaymentsImply == PaymentsInv => S!PaymentsKept
<1> SUFFICES ASSUME PaymentsInv PROVE S!PaymentsKept
  OBVIOUS
<1>1. DOMAIN stored.payments = 1..Len(stored.payments)
  BY DEF PaymentsInv, AsGiven, FirstGiven
<1> QED BY <1>1 DEF S!PaymentsKept, PaymentsInv, AsGiven, FirstGiven, Undated

-----------------------------------------------------------------------------
(* The users with access to a generated document. *)

\* The recursion equation of Without.
IsKept(f, s, u, n) ==
    f = [i \in 0..n |-> IF i = 0 THEN << >>
                        ELSE IF s[i] = u THEN f[i - 1] ELSE Append(f[i - 1], s[i])]

LEMMA KeptExist == \A s, u : \A n \in Nat : \E f : IsKept(f, s, u, n)
<1> TAKE s, u
<1> DEFINE Turns == {n \in Nat : \E f : IsKept(f, s, u, n)}
<1>1. 0 \in Turns
  <2>1. IsKept([i \in 0..0 |-> << >>], s, u, 0)
    BY DEF IsKept
  <2> QED BY <2>1
<1>2. ASSUME NEW n \in Nat, n \in Turns PROVE n + 1 \in Turns
  <2>1. PICK g : IsKept(g, s, u, n)
    BY <1>2
  <2> DEFINE f == [i \in 0..n+1 |-> IF i = n + 1
                                    THEN IF s[n + 1] = u THEN g[n] ELSE Append(g[n], s[n + 1])
                                    ELSE g[i]]
  <2>2. ASSUME NEW i \in 0..n+1
        PROVE  f[i] = IF i = 0 THEN << >> ELSE IF s[i] = u THEN f[i - 1] ELSE Append(f[i - 1], s[i])
    <3>1. CASE i = 0
      BY <2>1, <3>1 DEF IsKept
    <3>2. CASE i = n + 1
      BY <3>2
    <3>3. CASE i \in 1..n
      <4>1. f[i] = g[i] /\ f[i - 1] = g[i - 1]
        BY <3>3
      <4>2. g[i] = IF s[i] = u THEN g[i - 1] ELSE Append(g[i - 1], s[i])
        <5>1. g = [j \in 0..n |-> IF j = 0 THEN << >>
                                  ELSE IF s[j] = u THEN g[j - 1] ELSE Append(g[j - 1], s[j])]
          BY <2>1 DEF IsKept
        <5>2. i \in 0..n /\ i # 0
          BY <3>3
        <5> QED BY <5>1, <5>2
      <4> QED BY <3>3, <4>1, <4>2
    <3> QED BY <3>1, <3>2, <3>3
  <2>3. f = [i \in 0..n+1 |-> IF i = 0 THEN << >>
                             ELSE IF s[i] = u THEN f[i - 1] ELSE Append(f[i - 1], s[i])]
    <3>1. f = [i \in 0..n+1 |-> f[i]]
      OBVIOUS
    <3> HIDE DEF f
    <3> QED BY <2>2, <3>1
  <2>4. IsKept(f, s, u, n + 1)
    BY <2>3 DEF IsKept
  <2> HIDE DEF f
  <2> QED BY <2>4
<1> HIDE DEF Turns
<1>3. Nat \subseteq Turns
  BY <1>1, <1>2, NatSetInduction
<1> QED BY <1>3 DEF Turns

LEMMA WithoutDef ==
    ASSUME NEW s, NEW u, Len(s) \in Nat
    PROVE  \E f : IsKept(f, s, u, Len(s)) /\ GD!Without(s, u) = f[Len(s)]
<1> DEFINE c == CHOOSE f : IsKept(f, s, u, Len(s))
<1>1. IsKept(c, s, u, Len(s))
  BY KeptExist
<1>2. GD!Without(s, u) = c[Len(s)]
  BY DEF GD!Without, IsKept
<1> HIDE DEF c
<1> QED BY <1>1, <1>2

\* It is a list of the users without the one.
LEMMA WithoutUser ==
    ASSUME NEW s \in Seq(OtherUsers), NEW u
    PROVE  /\ GD!Without(s, u) \in Seq(OtherUsers)
           /\ Elements(GD!Without(s, u)) \subseteq Elements(s)
           /\ u \notin Elements(s) => GD!Without(s, u) = s
<1>1. PICK k \in Nat : k = Len(s)
  OBVIOUS
<1>2. PICK f : IsKept(f, s, u, k) /\ GD!Without(s, u) = f[k]
  BY <1>1, WithoutDef
<1>3. /\ f[0] = << >>
      /\ \A i \in 1..k : f[i] = IF s[i] = u THEN f[i - 1] ELSE Append(f[i - 1], s[i])
  <2>1. f = [i \in 0..k |-> IF i = 0 THEN << >>
                           ELSE IF s[i] = u THEN f[i - 1] ELSE Append(f[i - 1], s[i])]
    BY <1>2 DEF IsKept
  <2>2. 0 \in 0..k /\ \A i \in 1..k : i \in 0..k /\ i # 0
    OBVIOUS
  <2> QED BY <2>1, <2>2
<1> DEFINE Kept(t, i) == /\ t \in Seq(OtherUsers)
                         /\ \A j \in 1..Len(t) : t[j] \in Elements(s)
                         /\ u \notin Elements(s) => Len(t) = i /\ \A j \in 1..i : t[j] = s[j]
           Turns == {i \in Nat : i \in 0..k => Kept(f[i], i)}
<1>4. 0 \in Turns
  <2>1. PICK t : t = f[0] /\ t \in Seq(OtherUsers) /\ Len(t) = 0
    <3>1. << >> \in Seq(OtherUsers) /\ Len(<< >>) = 0
      OBVIOUS
    <3> QED BY <1>3, <3>1
  <2>2. \A j : j \notin 1..0
    OBVIOUS
  <2>3. Kept(t, 0)
    BY <2>1, <2>2
  <2> QED BY <2>1, <2>3
<1>5. ASSUME NEW i \in Nat, i \in Turns PROVE i + 1 \in Turns
  <2>1. SUFFICES ASSUME i + 1 \in 0..k PROVE Kept(f[i + 1], i + 1)
    BY <1>5
  <2>2. PICK t : t = f[i] /\ Kept(t, i)
    BY <1>5, <2>1
  <2>3. i + 1 \in 1..k /\ s[i + 1] \in OtherUsers /\ s[i + 1] \in Elements(s)
    BY <1>1, <2>1 DEF Elements
  <2>4. f[i + 1] = IF s[i + 1] = u THEN t ELSE Append(t, s[i + 1])
    <3>1. (i + 1) - 1 = i
      OBVIOUS
    <3> QED BY <1>3, <2>2, <2>3, <3>1
  <2>5. CASE s[i + 1] = u
    BY <2>2, <2>3, <2>4, <2>5
  <2>6. CASE s[i + 1] # u
    <3>1. PICK l \in Nat, e \in OtherUsers : l = Len(t) /\ e = s[i + 1]
      BY <2>2, <2>3
    <3>2. PICK z : z = Append(t, e)
      OBVIOUS
    <3>3. t \in Seq(OtherUsers)
      BY <2>2
    <3>4. z \in Seq(OtherUsers) /\ Len(z) = l + 1 /\ z[l + 1] = e /\ \A j \in 1..l : z[j] = t[j]
      BY <3>1, <3>2, <3>3
    <3>5. \A j \in 1..l + 1 : j \in 1..l \/ j = l + 1
      OBVIOUS
    <3>6. \A j \in 1..Len(z) : z[j] \in Elements(s)
      BY <2>2, <2>3, <3>1, <3>4, <3>5
    <3>7. ASSUME u \notin Elements(s) PROVE Len(z) = i + 1 /\ \A j \in 1..i + 1 : z[j] = s[j]
      <4>1. l = i
        BY <2>2, <3>1, <3>7
      <4> QED BY <2>2, <3>1, <3>4, <3>5, <3>7, <4>1
    <3> QED BY <2>4, <2>6, <3>1, <3>2, <3>4, <3>6, <3>7
  <2> QED BY <2>5, <2>6
<1>6. Nat \subseteq Turns
  <2> HIDE DEF Turns
  <2> QED BY <1>4, <1>5, NatSetInduction
<1>7. PICK t : t = f[k] /\ Kept(t, k)
  <2>1. k \in 0..k
    OBVIOUS
  <2> QED BY <1>6, <2>1
<1>8. t \in Seq(OtherUsers) /\ Elements(t) \subseteq Elements(s)
  BY <1>7 DEF Elements
<1>9. u \notin Elements(s) => t = s
  BY <1>1, <1>7, SeqEqual
<1> QED BY <1>2, <1>7, <1>8, <1>9

\* A request pushes a user who is not there, or none.
AddsUser(s, t, J) == t = s \/ \E u \in OtherUsers : t = Append(s, u) /\ u \notin J

\* A copy of the stored version has the stored users; one that assigns the list takes
\* users out of it, another one may push a user who was not there.
AccessCopy(q, d) ==
    /\ q.old.accessUsers \in Seq(OtherUsers)
    /\ q.old.version \in Nat /\ q.old.version <= d.version
    /\ q.old.version = d.version => q.old.accessUsers = d.accessUsers
    /\ IF q.whole = {} THEN AddsUser(q.old.accessUsers, q.new.accessUsers, Elements(q.old.accessUsers))
       ELSE /\ q.new.accessUsers \in Seq(OtherUsers)
            /\ Elements(q.new.accessUsers) \subseteq Elements(q.old.accessUsers)

AccessInv ==
    /\ stored.version \in Nat
    /\ stored.accessUsers \in Seq(OtherUsers) /\ Elements(stored.accessUsers) = world.access
    /\ \A r \in Requests : copy[r] # Nothing => AccessCopy(copy[r], stored)

LEMMA AccessElements == \A d : d.accessUsers \in Seq(OtherUsers) => GD!UsersOf(d) = Elements(d.accessUsers)
<1> SUFFICES ASSUME NEW d, d.accessUsers \in Seq(OtherUsers) PROVE GD!UsersOf(d) = Elements(d.accessUsers)
  OBVIOUS
<1>1. PICK s \in Seq(OtherUsers) : s = d.accessUsers
  OBVIOUS
<1>2. DOMAIN s = 1..Len(s)
  OBVIOUS
<1> QED BY <1>1, <1>2 DEF GD!UsersOf, Elements

LEMMA AccessRead ==
    ASSUME GeneratedInv, AccessInv, NEW r \in Requests, NEW op, NEW new, NEW whole,
           GD!Change(r, op, new, whole),
           IF whole = {} THEN AddsUser(stored.accessUsers, new.accessUsers, Elements(stored.accessUsers))
           ELSE /\ new.accessUsers \in Seq(OtherUsers)
                /\ Elements(new.accessUsers) \subseteq Elements(stored.accessUsers)
    PROVE  AccessInv'
<1>1. PICK q : q = [op |-> op, old |-> stored, new |-> new, whole |-> whole]
  OBVIOUS
<1>2. UNCHANGED <<stored, world>> /\ copy' = [copy EXCEPT ![r] = q]
  BY <1>1 DEF GD!Change, GD!Copy
<1>3. stored.version <= stored.version
  BY DEF AccessInv
<1>4. AccessCopy(q, stored)
  BY <1>1, <1>3 DEF AccessCopy, AccessInv
<1>5. ASSUME NEW s \in Requests, copy'[s] # Nothing PROVE AccessCopy(copy'[s], stored)
  <2>1. copy'[s] = IF s = r THEN q ELSE copy[s]
    BY <1>2 DEF GeneratedInv
  <2> QED BY <1>4, <1>5, <2>1 DEF AccessInv
<1> QED BY <1>2, <1>5 DEF AccessInv

LEMMA AccessMethods ==
    ASSUME GeneratedInv, AccessInv, NEW r \in Requests,
           \/ \E status \in {"PROCESSING", "COMPLETED", "DELETED"} : GD!Mark(r, status)
           \/ GD!MarkDocumentFailed(r)
           \/ \E level \in GD!Levels : GD!UpdateAccessLevel(r, level)
           \/ \E u \in OtherUsers : GD!AddAccessUser(r, u)
           \/ \E u \in OtherUsers : GD!RemoveAccessUser(r, u)
    PROVE  AccessInv'
<1>1. DOMAIN stored = GeneratedFields
  BY DEF GeneratedInv, Generated
<1>2. PICK s \in Seq(OtherUsers) : /\ s = stored.accessUsers /\ Elements(s) = GD!UsersOf(stored)
  BY AccessElements DEF AccessInv
<1>3. ASSUME NEW op, NEW new, GD!Change(r, op, new, {}), new.accessUsers = s PROVE AccessInv'
  BY <1>2, <1>3, AccessRead DEF AddsUser
<1>4. ASSUME NEW status \in {"PROCESSING", "COMPLETED", "DELETED"}, GD!Mark(r, status)
      PROVE  AccessInv'
  <2>1. PICK new : /\ new = [stored EXCEPT !.status = status]
                   /\ GD!Change(r, "mark", new, {})
    BY <1>4 DEF GD!Mark
  <2>2. new.accessUsers = s
    BY <1>1, <1>2, <2>1 DEF GeneratedFields
  <2> QED BY <1>3, <2>1, <2>2
<1>5. CASE GD!MarkDocumentFailed(r)
  <2>1. PICK new : /\ new = [stored EXCEPT !.status = "FAILED", !.retryCount = @ + 1]
                   /\ GD!Change(r, "markAsFailed", new, {})
    BY <1>5 DEF GD!MarkDocumentFailed
  <2>2. new.accessUsers = s
    BY <1>1, <1>2, <2>1 DEF GeneratedFields
  <2> QED BY <1>3, <2>1, <2>2
<1>6. ASSUME NEW level \in GD!Levels, GD!UpdateAccessLevel(r, level)
      PROVE  AccessInv'
  <2>1. PICK new : /\ new = [stored EXCEPT !.accessLevel = level,
                                           !.hasCode = @ \/ level = "PUBLIC"]
                   /\ GD!Change(r, "updateAccessLevel", new, {})
    BY <1>6 DEF GD!UpdateAccessLevel
  <2>2. new.accessUsers = s
    BY <1>1, <1>2, <2>1 DEF GeneratedFields
  <2> QED BY <1>3, <2>1, <2>2
<1>7. ASSUME NEW u \in OtherUsers, GD!AddAccessUser(r, u)
      PROVE  AccessInv'
  <2>1. PICK new : /\ new = [stored EXCEPT !.accessUsers = IF u \in GD!UsersOf(stored) THEN @
                                                           ELSE Append(@, u)]
                   /\ GD!Change(r, "addAccessUser", new, {})
    BY <1>7 DEF GD!AddAccessUser
  <2>2. new.accessUsers = IF u \in Elements(s) THEN s ELSE Append(s, u)
    BY <1>1, <1>2, <2>1 DEF GeneratedFields
  <2>3. AddsUser(s, new.accessUsers, Elements(s))
    BY <2>2 DEF AddsUser
  <2> QED BY <1>2, <2>1, <2>3, AccessRead
<1>8. ASSUME NEW u \in OtherUsers, GD!RemoveAccessUser(r, u)
      PROVE  AccessInv'
  <2>1. PICK whole, t : /\ whole = IF u \in GD!UsersOf(stored) THEN {"accessUsers"} ELSE {}
                        /\ t = GD!Without(stored.accessUsers, u)
    OBVIOUS
  <2>2. PICK new : /\ new = [stored EXCEPT !.accessUsers = t]
                   /\ GD!Change(r, "removeAccessUser", new, whole)
    BY <1>1, <1>8, <2>1 DEF GD!RemoveAccessUser, GeneratedFields
  <2>3. new.accessUsers = t
    BY <1>1, <2>2 DEF GeneratedFields
  <2>4. /\ t \in Seq(OtherUsers) /\ Elements(t) \subseteq Elements(s)
        /\ u \notin Elements(s) => t = s
    <3>1. t = GD!Without(s, u)
      BY <1>2, <2>1
    <3> QED BY <3>1, WithoutUser
  <2>5. IF whole = {} THEN AddsUser(s, t, Elements(s)) ELSE TRUE
    BY <1>2, <2>1, <2>4 DEF AddsUser
  <2> QED BY <1>2, <2>2, <2>3, <2>4, <2>5, AccessRead
<1> QED BY <1>4, <1>5, <1>6, <1>7, <1>8

\* What a save, or the sweep, leaves.
LEMMA AccessStays ==
    ASSUME GeneratedInv, AccessInv, stored'.accessUsers = stored.accessUsers,
           stored'.version = stored.version, world'.access = world.access,
           \A r \in Requests : copy'[r] \in {copy[r], Nothing}
    PROVE  AccessInv'
<1>1. ASSUME NEW r \in Requests, copy'[r] # Nothing PROVE AccessCopy(copy'[r], stored')
  <2>1. PICK q : q = copy'[r] /\ AccessCopy(q, stored)
    BY <1>1 DEF AccessInv
  <2>2. AccessCopy(q, stored')
    BY <2>1 DEF AccessCopy
  <2> QED BY <2>1, <2>2
<1> QED BY <1>1 DEF AccessInv

LEMMA AccessSave ==
    ASSUME GeneratedInv, AccessInv, NEW r \in Requests, GD!SaveDocument(r)
    PROVE  AccessInv'
<1> DEFINE added   == GD!UsersOf(copy[r].new) \ GD!UsersOf(copy[r].old)
           removed == GD!UsersOf(copy[r].old) \ GD!UsersOf(copy[r].new)
<1>1. PICK q, w, access, failures :
          /\ q = copy[r] /\ q # Nothing /\ Saved(r, {"accessUsers"}, w)
          /\ access = (world.access \cup (GD!UsersOf(q.new) \ GD!UsersOf(q.old)))
                         \ (GD!UsersOf(q.old) \ GD!UsersOf(q.new))
          /\ w = [world EXCEPT !.failures = failures, !.access = access]
  <2>1. PICK q, access, failures :
            /\ q = copy[r] /\ access = (world.access \cup added) \ removed
            /\ failures = world.failures + (IF q.op = "markAsFailed" THEN 1 ELSE 0)
    OBVIOUS
  <2>2. /\ q # Nothing
        /\ GD!SaveCopy(r, {"accessUsers"}, [world EXCEPT !.failures = failures, !.access = access])
    <3>1. copy[r] # Nothing
          /\ GD!SaveCopy(r, GD!DocumentArrays,
                 [world EXCEPT !.failures = @ + (IF copy[r].op = "markAsFailed" THEN 1 ELSE 0),
                               !.access = (@ \cup added) \ removed])
      BY DEF GD!SaveDocument
    <3>2. [world EXCEPT !.failures = @ + (IF copy[r].op = "markAsFailed" THEN 1 ELSE 0),
                        !.access = (@ \cup added) \ removed]
             = [world EXCEPT !.failures = failures, !.access = access]
      <4> HIDE DEF added, removed
      <4> QED BY <2>1 DEF GeneratedInv
    <3> QED BY <2>1, <3>1, <3>2 DEF GD!DocumentArrays
  <2>3. Saved(r, {"accessUsers"}, [world EXCEPT !.failures = failures, !.access = access])
    BY <2>2, GeneratedSaves
  <2>4. access = (world.access \cup (GD!UsersOf(q.new) \ GD!UsersOf(q.old)))
                    \ (GD!UsersOf(q.old) \ GD!UsersOf(q.new))
    BY <2>1 DEF GD!UsersOf
  <2>5. PICK w : w = [world EXCEPT !.failures = failures, !.access = access]
    OBVIOUS
  <2>6. q = copy[r] /\ q # Nothing /\ Saved(r, {"accessUsers"}, w)
    BY <2>1, <2>2, <2>3, <2>5
  <2> QED BY <2>4, <2>5, <2>6
<1>2. PICK new, d : new = q.new.accessUsers /\ d = stored'
  OBVIOUS
<1>3. PICK s \in Seq(OtherUsers), old \in Seq(OtherUsers) :
          /\ s = stored.accessUsers /\ old = q.old.accessUsers /\ new = q.new.accessUsers
          /\ d = stored' /\ AccessCopy(q, stored) /\ Elements(s) = world.access
          /\ q.whole = {} \/ q.whole = {"accessUsers"}
  <2>1. AccessCopy(q, stored) /\ stored.accessUsers \in Seq(OtherUsers)
        /\ Elements(stored.accessUsers) = world.access
    BY <1>1 DEF AccessInv
  <2>2. q.old.accessUsers \in Seq(OtherUsers)
    BY <2>1 DEF AccessCopy
  <2>3. q.whole \subseteq {"accessUsers"}
    BY <1>1 DEF GeneratedInv, GeneratedCopy
  <2> QED BY <1>2, <2>1, <2>2, <2>3
<1>4. /\ d = MD!Merged(q, {"accessUsers"}) /\ MD!Accepted(q, {"accessUsers"})
      /\ copy' = [copy EXCEPT ![r] = Nothing] /\ world' = w
  BY <1>1, <1>3 DEF Saved
<1>5. world'.access = access
  BY <1>1, <1>4 DEF GeneratedInv
<1>6. /\ d.version = stored.version + (IF MD!CountsVersion(q, {"accessUsers"}) THEN 1 ELSE 0)
      /\ q.whole = {} => d.accessUsers = MD!MergedArray(q, "accessUsers")
      /\ q.whole = {"accessUsers"} => d.accessUsers = new
  <2>1. /\ "version" \notin {"accessUsers"} \cup q.whole
        /\ "version" \in DOMAIN stored /\ "accessUsers" \in DOMAIN stored
    BY <1>3 DEF GeneratedInv, Generated, GeneratedFields
  <2> QED BY <1>3, <1>4, <2>1, MergedFields
<1>7. PICK v \in Nat : v = stored.version
  BY DEF AccessInv
<1>8. /\ d.accessUsers \in Seq(OtherUsers) /\ Elements(d.accessUsers) = access
      /\ ~ MD!CountsVersion(q, {"accessUsers"}) => d.accessUsers = s
  <2>1. CASE q.whole = {"accessUsers"}
    <3>1. MD!ComparesVersion(q, {"accessUsers"}) /\ MD!CountsVersion(q, {"accessUsers"})
      BY <2>1 DEF MD!ComparesVersion, MD!CountsVersion
    <3>2. old = s
      BY <1>3, <1>4, <3>1 DEF MD!Accepted, AccessCopy
    <3>3. new \in Seq(OtherUsers) /\ Elements(new) \subseteq Elements(old)
      BY <1>3, <2>1 DEF AccessCopy
    <3>4. GD!UsersOf(q.old) = Elements(old) /\ GD!UsersOf(q.new) = Elements(new)
      BY <1>3, <3>3, AccessElements
    <3>5. access = Elements(new)
      BY <1>1, <1>3, <3>2, <3>3, <3>4
    <3> QED BY <1>6, <2>1, <3>1, <3>3, <3>5
  <2>2. CASE q.whole = {} /\ new = old
    <3>1. MD!MergedArray(q, "accessUsers") = s /\ MD!Pushed(q, "accessUsers") = << >>
      <4>1. /\ q.new["accessUsers"] = q.old["accessUsers"] /\ q.old["accessUsers"] \in Seq(OtherUsers)
            /\ stored["accessUsers"] \in Seq(OtherUsers)
        BY <1>3, <2>2
      <4> QED BY <1>3, <4>1, MergedUntouched
    <3>2. GD!UsersOf(q.old) = GD!UsersOf(q.new)
      BY <1>3, <2>2, AccessElements
    <3>3. access = Elements(s)
      BY <1>1, <1>3, <3>2
    <3> QED BY <1>6, <2>2, <3>1, <3>3
  <2>3. ASSUME q.whole = {}, NEW u \in OtherUsers, new = Append(old, u), u \notin Elements(old)
        PROVE  /\ d.accessUsers \in Seq(OtherUsers) /\ Elements(d.accessUsers) = access
               /\ MD!CountsVersion(q, {"accessUsers"})
    <3>1. PICK one \in Seq(OtherUsers) : one = <<u>> /\ Len(one) = 1
      <4>1. <<u>> \in Seq(OtherUsers) /\ Len(<<u>>) = 1
        OBVIOUS
      <4> QED BY <4>1
    <3>2. Append(old, u) = old \o <<u>> /\ Append(s, u) = s \o <<u>>
      BY AppendIsConcat
    <3>3. MD!MergedArray(q, "accessUsers") = s \o one /\ MD!Pushed(q, "accessUsers") = one
      <4>1. /\ q.new["accessUsers"] = q.old["accessUsers"] \o one
            /\ q.old["accessUsers"] \in Seq(OtherUsers) /\ stored["accessUsers"] \in Seq(OtherUsers)
        BY <1>3, <2>3, <3>1, <3>2
      <4>2. /\ MD!MergedArray(q, "accessUsers") = stored["accessUsers"] \o one
            /\ MD!Pushed(q, "accessUsers") = one
        BY <4>1, MergedPushes
      <4> QED BY <1>3, <4>2
    <3>4. one # << >>
      BY <3>1
    <3>5. MD!CountsVersion(q, {"accessUsers"})
      BY <3>3, <3>4 DEF MD!CountsVersion
    <3>6. d.accessUsers = Append(s, u)
      BY <1>6, <2>3, <3>1, <3>2, <3>3
    <3>7. /\ Append(s, u) \in Seq(OtherUsers) /\ Elements(Append(s, u)) = Elements(s) \cup {u}
          /\ Append(old, u) \in Seq(OtherUsers) /\ Elements(Append(old, u)) = Elements(old) \cup {u}
      BY UserPushed
    <3>8. GD!UsersOf(q.old) = Elements(old) /\ GD!UsersOf(q.new) = Elements(old) \cup {u}
      BY <1>3, <2>3, <3>7, AccessElements
    <3>9. access = Elements(s) \cup {u}
      BY <1>1, <1>3, <2>3, <3>8
    <3> QED BY <3>5, <3>6, <3>7, <3>9
  <2>4. q.whole = {} => new = old \/ \E u \in OtherUsers : new = Append(old, u) /\ u \notin Elements(old)
    BY <1>3 DEF AccessCopy, AddsUser
  <2> QED BY <1>3, <2>1, <2>2, <2>3, <2>4
<1>9. ASSUME NEW p \in Requests, copy'[p] # Nothing PROVE AccessCopy(copy'[p], d)
  <2>1. PICK c : c = copy'[p] /\ AccessCopy(c, stored)
    BY <1>4, <1>9 DEF GeneratedInv, AccessInv
  <2>2. PICK x \in Nat : x = c.old.version /\ x <= v
    BY <1>7, <2>1 DEF AccessCopy
  <2>3. x <= d.version /\ (x = d.version => x = v /\ ~ MD!CountsVersion(q, {"accessUsers"}))
    BY <1>6, <1>7, <2>2
  <2> QED BY <1>3, <1>7, <1>8, <2>1, <2>2, <2>3 DEF AccessCopy
<1>10. d.version \in Nat
  BY <1>6, <1>7
<1> QED BY <1>3, <1>5, <1>8, <1>9, <1>10 DEF AccessInv

LEMMA AccessFirst == GD!DocumentInit => AccessInv
<1> SUFFICES ASSUME GD!DocumentInit PROVE AccessInv
  OBVIOUS
<1>1. stored.accessUsers = << >> /\ stored.version = 0 /\ world.access = {}
  BY DEF GD!DocumentInit
<1>2. << >> \in Seq(OtherUsers) /\ Elements(<< >>) = {}
  <2>1. Len(<< >>) = 0
    OBVIOUS
  <2> QED BY <2>1 DEF Elements
<1>3. \A r \in Requests : copy[r] = Nothing
  BY DEF GD!DocumentInit, GD!NoCopies
<1> QED BY <1>1, <1>2, <1>3 DEF AccessInv

LEMMA AccessSteps ==
    GeneratedInv /\ AccessInv /\ [GD!DocumentNext]_(GD!document) => AccessInv'
<1> SUFFICES ASSUME GeneratedInv, AccessInv, [GD!DocumentNext]_(GD!document) PROVE AccessInv'
  OBVIOUS
<1>1. ASSUME NEW r \in Requests, GD!AbortCopy(r) PROVE AccessInv'
  <2>1. UNCHANGED <<stored, world>> /\ copy' = [copy EXCEPT ![r] = Nothing]
    BY <1>1 DEF GD!AbortCopy
  <2>2. \A p \in Requests : copy'[p] \in {copy[p], Nothing}
    BY <2>1 DEF GeneratedInv
  <2> QED BY <2>1, <2>2, AccessStays
<1>2. ASSUME UNCHANGED GD!document PROVE AccessInv'
  BY <1>2, AccessStays DEF GD!document
<1>3. ASSUME GD!MarkExpired PROVE AccessInv'
  <2>1. /\ stored' = [stored EXCEPT !.status = "EXPIRED"] /\ world' = world /\ copy' = copy
    BY <1>3 DEF GD!MarkExpired, GD!UpdateStored
  <2>2. stored'.accessUsers = stored.accessUsers /\ stored'.version = stored.version
    BY <2>1 DEF GeneratedInv, Generated, GeneratedFields
  <2> QED BY <2>1, <2>2, AccessStays
<1>4. ASSUME GD!DateIsOver PROVE AccessInv'
  <2>1. stored' = stored /\ copy' = copy /\ world' = [world EXCEPT !.late = TRUE]
    BY <1>4 DEF GD!DateIsOver, GD!WorldChanges
  <2>2. world'.access = world.access
    BY <2>1 DEF GeneratedInv
  <2> QED BY <2>1, <2>2, AccessStays
<1> QED BY <1>1, <1>2, <1>3, <1>4, AccessMethods, AccessSave DEF GD!DocumentNext

LEMMA AccessImply == AccessInv => GD!AccessUsersKept
BY AccessElements DEF AccessInv, GD!AccessUsersKept

-----------------------------------------------------------------------------
(* Failed deliveries of a generated report. *)

\* i is the first place of u.
First(s, i, u) == /\ i \in 1..Len(s) /\ s[i].recipient = u
                  /\ \A j \in 1..Len(s) : s[j].recipient = u => i <= j

\* t has the recipients of s at their places.
Ahead(s, t) == Len(s) <= Len(t) /\ \A i \in 1..Len(s) : t[i].recipient = s[i].recipient

\* The deliveries after the failures in X.
Failures(s, X) ==
    /\ s \in Seq(G!Delivery)
    /\ \A u \in Users :
          /\ X[u] > 0 => \E i : First(s, i, u)
          /\ \A i : First(s, i, u) =>
                s[i].retryCount <= X[u] /\ (X[u] > 0 => s[i].retryCount > 0)

\* A copy counts one more failure of a first place, or pushes a delivery without any.
FailuresCopy(q, s, X) ==
    /\ CopiedArray(q, "deliveries", G!Delivery)
    /\ Ahead(q.old.deliveries, q.new.deliveries) /\ Ahead(q.old.deliveries, s)
    /\ \A u \in Users : \A i : First(q.old.deliveries, i, u) => q.old.deliveries[i].retryCount <= X[u]
    /\ \A i \in 1..Len(q.old.deliveries) :
          q.new.deliveries[i].retryCount # q.old.deliveries[i].retryCount =>
             /\ First(q.old.deliveries, i, q.old.deliveries[i].recipient)
             /\ q.new.deliveries[i].retryCount = q.old.deliveries[i].retryCount + 1
    /\ \A i \in 1..Len(q.new.deliveries) :
          i > Len(q.old.deliveries) => q.new.deliveries[i].retryCount = 0

FailuresInv ==
    /\ world.failed \in [Users -> Nat]
    /\ Failures(stored.deliveries, world.failed)
    /\ \A r \in Requests : copy[r] # Nothing =>
          FailuresCopy(copy[r], stored.deliveries, world.failed)

LEMMA FirstPlaces ==
    ASSUME NEW d, NEW s \in Seq(G!Delivery), s = d.deliveries, NEW u
    PROVE  /\ G!PlacesOf(d, u) # {} => First(s, G!FirstPlace(d, u), u)
           /\ \A i : First(s, i, u) => G!PlacesOf(d, u) # {} /\ G!FirstPlace(d, u) = i
<1>1. PICK places : places = G!PlacesOf(d, u)
  OBVIOUS
<1>2. places = {i \in 1..Len(s) : s[i].recipient = u}
  <2>1. DOMAIN s = 1..Len(s)
    OBVIOUS
  <2> QED BY <1>1, <2>1 DEF G!PlacesOf
<1>3. places \subseteq Nat
  BY <1>2
<1>4. G!FirstPlace(d, u) = CHOOSE i \in places : \A j \in places : i <= j
  BY <1>1 DEF G!FirstPlace
<1>5. ASSUME places # {} PROVE First(s, G!FirstPlace(d, u), u)
  <2>1. \E i \in places : \A j \in places : i <= j
    BY <1>3, <1>5, LeastOfNaturals
  <2>2. PICK i : i = G!FirstPlace(d, u) /\ i \in places /\ \A j \in places : i <= j
    BY <1>4, <2>1
  <2>3. First(s, i, u)
    BY <1>2, <2>2 DEF First
  <2> QED BY <2>2, <2>3
<1>6. ASSUME NEW i, NEW k, First(s, i, u), First(s, k, u) PROVE i = k
  <2>1. i \in Nat /\ k \in Nat /\ i <= k /\ k <= i
    BY <1>6 DEF First
  <2> QED BY <2>1
<1>7. \A i : First(s, i, u) => places # {}
  BY <1>2 DEF First
<1> QED BY <1>1, <1>5, <1>6, <1>7

LEMMA RetryCounts ==
    ASSUME NEW s \in Seq(G!Delivery), NEW i \in 1..Len(s)
    PROVE  s[i].retryCount \in Nat
<1>1. s[i] \in G!Delivery
  OBVIOUS
<1> QED BY <1>1 DEF G!Delivery

\* A first place stays the first.
LEMMA FirstStays ==
    ASSUME NEW s \in Seq(G!Delivery), NEW t \in Seq(G!Delivery), Ahead(s, t), NEW i, NEW u
    PROVE  /\ First(s, i, u) => First(t, i, u)
           /\ First(t, i, u) /\ i \in 1..Len(s) => First(s, i, u)
           /\ First(t, i, u) /\ i \notin 1..Len(s) => \A k : ~ First(s, k, u)
<1>1. PICK k \in Nat, l \in Nat : k = Len(s) /\ l = Len(t) /\ k <= l
  BY DEF Ahead
<1>2. \A j \in 1..k : j \in 1..l /\ t[j].recipient = s[j].recipient
  BY <1>1 DEF Ahead
<1>3. ASSUME First(s, i, u) PROVE First(t, i, u)
  <2>1. i \in 1..l /\ t[i].recipient = u
    BY <1>1, <1>2, <1>3 DEF First
  <2>2. ASSUME NEW j \in 1..l, t[j].recipient = u PROVE i <= j
    <3>1. CASE j \in 1..k
      BY <1>1, <1>2, <1>3, <2>2, <3>1 DEF First
    <3>2. CASE j \notin 1..k
      <4>1. i \in 1..k
        BY <1>1, <1>3 DEF First
      <4> QED BY <2>2, <3>2, <4>1
    <3> QED BY <3>1, <3>2
  <2> QED BY <1>1, <2>1, <2>2 DEF First
<1>4. ASSUME First(t, i, u), i \in 1..Len(s) PROVE First(s, i, u)
  BY <1>1, <1>2, <1>4 DEF First
<1>5. ASSUME First(t, i, u), i \notin 1..Len(s), NEW j, First(s, j, u) PROVE FALSE
  <2>1. j \in 1..k /\ t[j].recipient = u /\ j \in 1..l
    BY <1>1, <1>2, <1>5 DEF First
  <2>2. i <= j /\ i \in 1..l
    BY <1>1, <1>5, <2>1 DEF First
  <2> QED BY <1>1, <1>5, <2>1, <2>2
<1> QED BY <1>3, <1>4, <1>5

LEMMA AheadReflexive == \A s \in Seq(G!Delivery) : Ahead(s, s)
<1> SUFFICES ASSUME NEW s \in Seq(G!Delivery) PROVE Ahead(s, s)
  OBVIOUS
<1>1. Len(s) \in Nat
  OBVIOUS
<1> QED BY <1>1 DEF Ahead

LEMMA AheadTransitive ==
    ASSUME NEW s \in Seq(G!Delivery), NEW t \in Seq(G!Delivery), NEW u \in Seq(G!Delivery),
           Ahead(s, t), Ahead(t, u)
    PROVE  Ahead(s, u)
<1>1. PICK k \in Nat, l \in Nat, n \in Nat :
          k = Len(s) /\ l = Len(t) /\ n = Len(u) /\ k <= l /\ l <= n
  BY DEF Ahead
<1>2. k <= n /\ \A i \in 1..k : i \in 1..l
  BY <1>1
<1> QED BY <1>1, <1>2 DEF Ahead

\* A delivery of which fields were changed.
LEMMA ReportDeliveryMerged ==
    ASSUME NEW x \in G!Delivery, NEW y \in G!Delivery, NEW z \in G!Delivery,
           x.recipient = y.recipient, NEW e, e = MD!MergedElement(x, y, z)
    PROVE  /\ e \in G!Delivery /\ e.recipient = z.recipient
           /\ e.retryCount = Sent(x.retryCount, y.retryCount, z.retryCount)
<1>1. DOMAIN z = {"recipient", "status", "retryCount"}
  BY DEF G!Delivery
<1>2. e = [f \in {"recipient", "status", "retryCount"} |-> IF x[f] = y[f] THEN z[f] ELSE y[f]]
  BY <1>1 DEF MD!MergedElement
<1>3. /\ e = [recipient |-> e.recipient, status |-> e.status, retryCount |-> e.retryCount]
      /\ e.recipient = z.recipient
      /\ e.status = Sent(x.status, y.status, z.status)
      /\ e.retryCount = Sent(x.retryCount, y.retryCount, z.retryCount)
  BY <1>2 DEF Sent
<1>4. e.recipient \in Users /\ e.status \in G!DeliveryStatuses /\ e.retryCount \in Nat
  BY <1>3 DEF Sent, G!Delivery
<1>5. e \in G!Delivery
  BY <1>3, <1>4 DEF G!Delivery
<1> QED BY <1>3, <1>5 DEF Sent

\* m has the counts of s, those that the copy changed, and none that it pushed.
Recounted(old, new, s, m) ==
    /\ m \in Seq(G!Delivery) /\ Ahead(s, m)
    /\ \A i \in 1..Len(s) : m[i].retryCount =
          IF i \in 1..Len(old) /\ new[i].retryCount # old[i].retryCount
          THEN new[i].retryCount ELSE s[i].retryCount
    /\ \A i \in 1..Len(m) : i \notin 1..Len(s) => m[i].retryCount = 0

\* What a save stores: s with the changes of the copy, and the failures it counts.
LEMMA ReportDeliveriesMerged ==
    ASSUME NEW q, NEW s \in Seq(G!Delivery), NEW X \in [Users -> Nat],
           FailuresCopy(q, s, X), NEW m,
           MergedByPlace(q.old.deliveries, q.new.deliveries, s, m)
    PROVE  Recounted(q.old.deliveries, q.new.deliveries, s, m)
<1>1. PICK old \in Seq(G!Delivery), new \in Seq(G!Delivery) :
          /\ old = q.old.deliveries /\ new = q.new.deliveries
          /\ Ahead(old, new) /\ Ahead(old, s)
  BY DEF FailuresCopy, CopiedArray
<1>2. PICK k \in Nat, l \in Nat, p \in Nat :
          k = Len(s) /\ l = Len(old) /\ p = Len(new) /\ l <= p /\ l <= k
  BY <1>1 DEF Ahead
<1>3. k + (p - l) \in Nat /\ k <= k + (p - l)
  BY <1>2
<1>4. /\ m = [i \in 1..k + (p - l) |-> m[i]] /\ Len(m) = k + (p - l)
      /\ \A i \in 1..k : m[i] = IF i \in 1..l /\ old[i] # new[i]
                                THEN MD!MergedElement(old[i], new[i], s[i]) ELSE s[i]
      /\ \A i \in 1..p - l : m[k + i] = new[l + i]
  BY <1>1, <1>2 DEF MergedByPlace
<1>5. /\ \A i \in 1..k : s[i] \in G!Delivery
      /\ \A i \in 1..p : new[i] \in G!Delivery /\ (i > l => new[i].retryCount = 0)
      /\ \A i \in 1..l : old[i] \in G!Delivery /\ new[i].recipient = old[i].recipient /\ i \in 1..p
  BY <1>1, <1>2 DEF FailuresCopy, Ahead
<1>6. ASSUME NEW i \in 1..k
      PROVE  /\ m[i] \in G!Delivery /\ m[i].recipient = s[i].recipient
             /\ m[i].retryCount = IF i \in 1..l /\ new[i].retryCount # old[i].retryCount
                                  THEN new[i].retryCount ELSE s[i].retryCount
  <2>1. CASE i \in 1..l /\ old[i] # new[i]
    <3>1. PICK x \in G!Delivery, y \in G!Delivery, z \in G!Delivery :
              x = old[i] /\ y = new[i] /\ z = s[i]
      BY <1>5, <2>1
    <3>2. x.recipient = y.recipient
      BY <1>5, <2>1, <3>1
    <3>3. m[i] = MD!MergedElement(x, y, z)
      BY <1>4, <2>1, <3>1
    <3>4. m[i] \in G!Delivery /\ m[i].recipient = z.recipient
          /\ m[i].retryCount = Sent(x.retryCount, y.retryCount, z.retryCount)
      BY <3>2, <3>3, ReportDeliveryMerged
    <3>5. m[i].retryCount = IF new[i].retryCount # old[i].retryCount
                            THEN new[i].retryCount ELSE s[i].retryCount
      BY <3>1, <3>4 DEF Sent
    <3> QED BY <2>1, <3>1, <3>4, <3>5
  <2>2. CASE ~ (i \in 1..l /\ old[i] # new[i])
    <3>1. m[i] = s[i]
      BY <1>4, <2>2
    <3> QED BY <1>5, <2>2, <3>1
  <2> QED BY <2>1, <2>2
<1>7. ASSUME NEW i \in 1..k + (p - l), i \notin 1..k
      PROVE  m[i] \in G!Delivery /\ m[i].retryCount = 0
  <2>1. i - k \in 1..p - l /\ k + (i - k) = i /\ l + (i - k) \in 1..p /\ l + (i - k) > l
    BY <1>2, <1>7
  <2>2. m[i] = new[l + (i - k)]
    BY <1>4, <2>1
  <2> QED BY <1>5, <2>1, <2>2
<1>8. m \in [1..k + (p - l) -> G!Delivery]
  BY <1>4, <1>6, <1>7
<1>9. m \in Seq(G!Delivery)
  BY <1>3, <1>8, SeqDef
<1>10. Ahead(s, m)
  BY <1>2, <1>3, <1>4, <1>6 DEF Ahead
<1>11. Recounted(old, new, s, m)
  BY <1>2, <1>4, <1>6, <1>7, <1>9, <1>10 DEF Recounted
<1> QED BY <1>1, <1>11

\* u is a recipient whose delivery the copy failed once more.
FailsOnce(q, u) == \E i : /\ First(q.old.deliveries, i, u)
                          /\ q.new.deliveries[i].retryCount # q.old.deliveries[i].retryCount

LEMMA FailedByCopy ==
    ASSUME NEW q, NEW s, NEW X, FailuresCopy(q, s, X), NEW u \in Users
    PROVE  u \in G!FailedBy(q) <=> FailsOnce(q, u)
<1>1. PICK old \in Seq(G!Delivery), new \in Seq(G!Delivery) :
          old = q.old.deliveries /\ new = q.new.deliveries /\ Len(old) <= Len(new)
  BY DEF FailuresCopy, CopiedArray
<1>2. PICK places, p : places = G!PlacesOf(q.old, u) /\ p = G!FirstPlace(q.old, u)
  OBVIOUS
<1>3. u \in G!FailedBy(q) <=> places # {} /\ new[p].retryCount > old[p].retryCount
  BY <1>1, <1>2 DEF G!FailedBy, G!PlacesOf, G!FirstPlace
<1>4. /\ places # {} => First(old, p, u)
      /\ \A i : First(old, i, u) => places # {} /\ p = i
  BY <1>1, <1>2, FirstPlaces
<1>5. ASSUME First(old, p, u)
      PROVE  new[p].retryCount > old[p].retryCount <=> new[p].retryCount # old[p].retryCount
  <2>1. p \in 1..Len(old) /\ p \in 1..Len(new)
    BY <1>1, <1>5 DEF First
  <2>2. old[p].retryCount \in Nat /\ new[p].retryCount \in Nat
    BY <2>1, RetryCounts
  <2>3. new[p].retryCount # old[p].retryCount => new[p].retryCount = old[p].retryCount + 1
    BY <1>1, <2>1 DEF FailuresCopy
  <2> QED BY <2>2, <2>3
<1> QED BY <1>1, <1>3, <1>4, <1>5 DEF FailsOnce

LEMMA FailuresMerged ==
    ASSUME NEW q, NEW s, NEW X \in [Users -> Nat], NEW Y \in [Users -> Nat],
           Failures(s, X), FailuresCopy(q, s, X), NEW m,
           MergedByPlace(q.old.deliveries, q.new.deliveries, s, m),
           \A u \in Users : Y[u] = X[u] + (IF FailsOnce(q, u) THEN 1 ELSE 0)
    PROVE  Failures(m, Y) /\ Ahead(s, m)
<1>1. s \in Seq(G!Delivery)
  BY DEF Failures
<1>2. PICK old \in Seq(G!Delivery), new \in Seq(G!Delivery) :
          /\ old = q.old.deliveries /\ new = q.new.deliveries /\ Ahead(old, s)
  BY DEF FailuresCopy, CopiedArray
<1>3. /\ m \in Seq(G!Delivery) /\ Ahead(s, m)
      /\ \A i \in 1..Len(s) : m[i].retryCount =
            IF i \in 1..Len(old) /\ new[i].retryCount # old[i].retryCount
            THEN new[i].retryCount ELSE s[i].retryCount
      /\ \A i \in 1..Len(m) : i \notin 1..Len(s) => m[i].retryCount = 0
  <2>1. MergedByPlace(q.old.deliveries, q.new.deliveries, s, m)
    OBVIOUS
  <2>2. s \in Seq(G!Delivery) /\ FailuresCopy(q, s, X)
    BY <1>1
  <2>3. Recounted(q.old.deliveries, q.new.deliveries, s, m)
    BY <2>1, <2>2, ReportDeliveriesMerged
  <2>4. Recounted(old, new, s, m)
    BY <1>2, <2>3
  <2> QED BY <2>4 DEF Recounted
<1>4. ASSUME NEW u \in Users, NEW i, First(m, i, u)
      PROVE  m[i].retryCount <= Y[u] /\ (Y[u] > 0 => m[i].retryCount > 0)
  <2>1. X[u] \in Nat /\ Y[u] = X[u] + (IF FailsOnce(q, u) THEN 1 ELSE 0)
    OBVIOUS
  <2>2. FailsOnce(q, u) => \E k : First(old, k, u) /\ First(s, k, u) /\ First(m, k, u)
                                  /\ new[k].retryCount # old[k].retryCount
    <3>1. ASSUME NEW k, First(old, k, u) PROVE First(s, k, u) /\ First(m, k, u)
      BY <1>1, <1>2, <1>3, <3>1, FirstStays
    <3> QED BY <1>2, <3>1 DEF FailsOnce
  <2>3. \A k : First(m, k, u) => k = i
    <3>1. SUFFICES ASSUME NEW k, First(m, k, u) PROVE k = i
      OBVIOUS
    <3>2. k \in Nat /\ i \in Nat /\ k <= i /\ i <= k
      BY <1>4, <3>1 DEF First
    <3> QED BY <3>2
  <2>4. CASE i \in 1..Len(s)
    <3>1. First(s, i, u)
      BY <1>1, <1>3, <1>4, <2>4, FirstStays
    <3>2. s[i].retryCount \in Nat /\ s[i].retryCount <= X[u] /\ (X[u] > 0 => s[i].retryCount > 0)
      BY <1>1, <2>4, <3>1, RetryCounts DEF Failures
    <3>3. CASE FailsOnce(q, u)
      <4>1. First(old, i, u) /\ new[i].retryCount # old[i].retryCount
        BY <2>2, <2>3, <3>3
      <4>2. i \in 1..Len(old) /\ old[i].retryCount \in Nat /\ old[i].retryCount <= X[u]
            /\ new[i].retryCount = old[i].retryCount + 1
        <5>1. i \in 1..Len(old)
          BY <4>1 DEF First
        <5>2. old[i].retryCount \in Nat
          BY <5>1, RetryCounts
        <5> QED BY <1>2, <4>1, <5>1, <5>2 DEF FailuresCopy
      <4>3. m[i].retryCount = old[i].retryCount + 1
        BY <1>3, <2>4, <4>1, <4>2
      <4> QED BY <2>1, <3>3, <4>2, <4>3
    <3>4. CASE ~ FailsOnce(q, u)
      <4>1. ~ (i \in 1..Len(old) /\ new[i].retryCount # old[i].retryCount)
        <5>1. SUFFICES ASSUME i \in 1..Len(old), new[i].retryCount # old[i].retryCount
                       PROVE  FALSE
          OBVIOUS
        <5>2. First(old, i, u)
          BY <1>1, <1>2, <3>1, <5>1, FirstStays
        <5> QED BY <1>2, <3>4, <5>1, <5>2 DEF FailsOnce
      <4>2. m[i].retryCount = s[i].retryCount
        BY <1>3, <2>4, <4>1
      <4> QED BY <2>1, <3>2, <3>4, <4>2
    <3> QED BY <3>3, <3>4
  <2>5. CASE i \notin 1..Len(s)
    <3>1. \A k : ~ First(s, k, u)
      BY <1>1, <1>3, <1>4, <2>5, FirstStays
    <3>2. X[u] = 0 /\ ~ FailsOnce(q, u)
      BY <2>1, <2>2, <3>1 DEF Failures
    <3>3. m[i].retryCount = 0
      BY <1>3, <1>4, <2>5 DEF First
    <3> QED BY <2>1, <3>2, <3>3
  <2> QED BY <2>4, <2>5
<1>5. ASSUME NEW u \in Users, Y[u] > 0 PROVE \E i : First(m, i, u)
  <2>1. X[u] \in Nat /\ Y[u] = X[u] + (IF FailsOnce(q, u) THEN 1 ELSE 0)
    OBVIOUS
  <2>2. PICK i : First(s, i, u)
    <3>1. CASE FailsOnce(q, u)
      BY <1>1, <1>2, <3>1, FirstStays DEF FailsOnce
    <3>2. CASE ~ FailsOnce(q, u)
      BY <1>5, <2>1, <3>2 DEF Failures
    <3> QED BY <3>1, <3>2
  <2> QED BY <1>1, <1>3, <2>2, FirstStays
<1> QED BY <1>3, <1>4, <1>5 DEF Failures

\* The copies of other requests.
LEMMA FailuresLater ==
    ASSUME NEW q, NEW s \in Seq(G!Delivery), NEW X \in [Users -> Nat], NEW Y \in [Users -> Nat],
           FailuresCopy(q, s, X), NEW m \in Seq(G!Delivery), Ahead(s, m),
           \A u \in Users : X[u] <= Y[u]
    PROVE  FailuresCopy(q, m, Y)
<1>1. PICK old \in Seq(G!Delivery) : old = q.old.deliveries /\ Ahead(old, s)
  BY DEF FailuresCopy, CopiedArray
<1>2. Ahead(old, m)
  BY <1>1, AheadTransitive
<1>3. ASSUME NEW u \in Users, NEW i, First(old, i, u) PROVE old[i].retryCount <= Y[u]
  <2>1. old[i].retryCount \in Nat
    BY <1>3, RetryCounts DEF First
  <2>2. old[i].retryCount <= X[u]
    BY <1>1, <1>3 DEF FailuresCopy
  <2>3. X[u] \in Nat /\ Y[u] \in Nat /\ X[u] <= Y[u]
    OBVIOUS
  <2> QED BY <2>1, <2>2, <2>3
<1> QED BY <1>1, <1>2, <1>3 DEF FailuresCopy

\* The copy as it is made: its first places have failed no more often than failures.
LEMMA FailuresRead ==
    ASSUME ReportInv, FailuresInv, NEW r \in Requests, NEW op, NEW new, G!Change(r, op, new, {}),
           CopiedArray([op |-> op, old |-> stored, new |-> new, whole |-> {}], "deliveries", G!Delivery),
           Ahead(stored.deliveries, new.deliveries),
           \A i \in 1..Len(stored.deliveries) :
              new.deliveries[i].retryCount # stored.deliveries[i].retryCount =>
                 /\ First(stored.deliveries, i, stored.deliveries[i].recipient)
                 /\ new.deliveries[i].retryCount = stored.deliveries[i].retryCount + 1,
           \A i \in 1..Len(new.deliveries) :
              i > Len(stored.deliveries) => new.deliveries[i].retryCount = 0
    PROVE  FailuresInv'
<1>1. PICK q : q = [op |-> op, old |-> stored, new |-> new, whole |-> {}]
  OBVIOUS
<1>2. UNCHANGED <<stored, world>> /\ copy' = [copy EXCEPT ![r] = q]
  BY <1>1 DEF G!Change, G!Copy
<1>3. Ahead(stored.deliveries, stored.deliveries)
  BY AheadReflexive DEF FailuresInv, Failures
<1>4. FailuresCopy(q, stored.deliveries, world.failed)
  <2>1. /\ q.old = stored /\ q.new = new
        /\ CopiedArray(q, "deliveries", G!Delivery)
    BY <1>1
  <2>2. \A u \in Users : \A i : First(stored.deliveries, i, u) =>
           stored.deliveries[i].retryCount <= world.failed[u]
    BY DEF FailuresInv, Failures
  <2> QED BY <1>3, <2>1, <2>2 DEF FailuresCopy
<1>5. ASSUME NEW s \in Requests, copy'[s] # Nothing
      PROVE  FailuresCopy(copy'[s], stored.deliveries, world.failed)
  <2>1. copy'[s] = IF s = r THEN q ELSE copy[s]
    BY <1>2 DEF ReportInv
  <2> QED BY <1>4, <1>5, <2>1 DEF FailuresInv
<1> QED BY <1>2, <1>5 DEF FailuresInv

\* A method that leaves the deliveries alone.
LEMMA FailuresAlone ==
    ASSUME ReportInv, FailuresInv, NEW r \in Requests, NEW op, NEW new, G!Change(r, op, new, {}),
           new.deliveries = stored.deliveries
    PROVE  FailuresInv'
<1>1. PICK s \in Seq(G!Delivery) : s = stored.deliveries /\ Len(s) \in Nat /\ Ahead(s, s)
  BY AheadReflexive DEF FailuresInv, Failures
<1>2. CopiedArray([op |-> op, old |-> stored, new |-> new, whole |-> {}], "deliveries", G!Delivery)
  BY <1>1 DEF CopiedArray
<1>3. \A i \in 1..Len(s) : ~ (i > Len(s))
  BY <1>1
<1>4. /\ Ahead(stored.deliveries, new.deliveries)
      /\ \A i \in 1..Len(stored.deliveries) :
              new.deliveries[i].retryCount # stored.deliveries[i].retryCount =>
                 /\ First(stored.deliveries, i, stored.deliveries[i].recipient)
                 /\ new.deliveries[i].retryCount = stored.deliveries[i].retryCount + 1
      /\ \A i \in 1..Len(new.deliveries) :
              i > Len(stored.deliveries) => new.deliveries[i].retryCount = 0
  BY <1>1, <1>3
<1> QED BY <1>2, <1>4, FailuresRead

LEMMA FailuresMethods ==
    ASSUME ReportInv, FailuresInv, NEW r \in Requests,
           \/ G!MarkAsProcessing(r) \/ G!MarkAsCompleted(r) \/ G!MarkReportFailed(r)
           \/ G!MarkAsCanceled(r) \/ G!AddOutput(r)
           \/ \E u \in Users : G!AddDelivery(r, u)
           \/ \E u \in Users, status \in G!DeliveryStatuses : G!UpdateDeliveryStatus(r, u, status)
    PROVE  FailuresInv'
<1>1. DOMAIN stored = ReportFields
  BY DEF ReportInv
<1>2. PICK s \in Seq(G!Delivery), k \in Nat :
          s = stored.deliveries /\ k = Len(s) /\ DOMAIN s = 1..k /\ Ahead(s, s)
  <2>1. stored.deliveries \in Seq(G!Delivery)
    BY DEF FailuresInv, Failures
  <2> QED BY <2>1, AheadReflexive
<1>3. CASE G!AddOutput(r)
  <2>1. PICK new : /\ new = [stored EXCEPT !.outputs = Append(@, saves)]
                   /\ G!Change(r, "addOutput", new, {})
    BY <1>3 DEF G!AddOutput
  <2>2. new.deliveries = stored.deliveries
    BY <1>1, <2>1 DEF ReportFields
  <2> QED BY <2>1, <2>2, FailuresAlone
<1>4. CASE G!MarkAsProcessing(r)
  BY <1>1, <1>4, FailuresAlone DEF G!MarkAsProcessing, ReportFields
<1>5. CASE G!MarkAsCompleted(r)
  BY <1>1, <1>5, FailuresAlone DEF G!MarkAsCompleted, ReportFields
<1>6. CASE G!MarkReportFailed(r)
  BY <1>1, <1>6, FailuresAlone DEF G!MarkReportFailed, ReportFields
<1>7. CASE G!MarkAsCanceled(r)
  BY <1>1, <1>7, FailuresAlone DEF G!MarkAsCanceled, ReportFields
<1>8. ASSUME NEW u \in Users, G!AddDelivery(r, u) PROVE FailuresInv'
  <2>1. PICK e \in G!Delivery : e = [recipient |-> u, status |-> "PENDING", retryCount |-> 0]
    BY DEF G!Delivery, G!DeliveryStatuses
  <2>2. PICK t : t = Append(s, e)
    OBVIOUS
  <2>3. PICK new : /\ new = [stored EXCEPT !.deliveries = t]
                   /\ G!Change(r, "addDelivery", new, {})
    <3>1. [stored EXCEPT !.deliveries =
              Append(@, [recipient |-> u, status |-> "PENDING", retryCount |-> 0])]
            = [stored EXCEPT !.deliveries = t]
      BY <1>1, <1>2, <2>1, <2>2 DEF ReportFields
    <3> QED BY <1>8, <3>1 DEF G!AddDelivery
  <2>4. new.deliveries = t
    BY <1>1, <2>3 DEF ReportFields
  <2>5. t \in Seq(G!Delivery) /\ Len(t) = k + 1 /\ t[k + 1] = e /\ \A i \in 1..k : t[i] = s[i]
    BY <1>2, <2>2
  <2>6. k <= k + 1 /\ \A i \in 1..k + 1 : i > k => i = k + 1
    OBVIOUS
  <2>7. CopiedArray([op |-> "addDelivery", old |-> stored, new |-> new, whole |-> {}],
                    "deliveries", G!Delivery)
    BY <1>2, <2>4, <2>5, <2>6 DEF CopiedArray
  <2>8. Ahead(s, t)
    BY <1>2, <2>5, <2>6 DEF Ahead
  <2>9. e.retryCount = 0
    BY <2>1
  <2>10. /\ \A i \in 1..Len(s) : t[i].retryCount # s[i].retryCount =>
                First(s, i, s[i].recipient) /\ t[i].retryCount = s[i].retryCount + 1
         /\ \A i \in 1..Len(t) : i > Len(s) => t[i].retryCount = 0
    BY <1>2, <2>5, <2>6, <2>9
  <2> QED BY <1>2, <2>3, <2>4, <2>7, <2>8, <2>10, FailuresRead
<1>9. ASSUME NEW u \in Users, NEW status \in G!DeliveryStatuses,
             G!UpdateDeliveryStatus(r, u, status)
      PROVE  FailuresInv'
  <2>1. PICK p : p = G!FirstPlace(stored, u)
    OBVIOUS
  <2>2. First(s, p, u)
    <3>1. G!PlacesOf(stored, u) # {}
      BY <1>9 DEF G!UpdateDeliveryStatus
    <3> QED BY <1>2, <2>1, <3>1, FirstPlaces
  <2>3. p \in 1..k /\ s[p] \in G!Delivery
    BY <1>2, <2>2 DEF First
  <2>4. PICK x \in G!Delivery : x = s[p] /\ x.recipient = u
    BY <2>2, <2>3 DEF First
  <2>5. PICK n \in Nat : n = IF status = "FAILED" THEN x.retryCount + 1 ELSE x.retryCount
    BY DEF G!Delivery
  <2>6. PICK e \in G!Delivery : e = [recipient |-> u, status |-> status, retryCount |-> n]
    BY DEF G!Delivery
  <2>7. PICK t : t = [s EXCEPT ![p] = e]
    OBVIOUS
  <2>8. PICK new : /\ new = [stored EXCEPT !.deliveries[p].status = status,
                                           !.deliveries[p].retryCount =
                                               IF status = "FAILED" THEN @ + 1 ELSE @]
                   /\ G!Change(r, "updateDeliveryStatus", new, {})
    BY <1>9, <2>1 DEF G!UpdateDeliveryStatus
  <2>9. new.deliveries = t
    <3>1. new.deliveries = [s EXCEPT ![p].status = status,
                                     ![p].retryCount = IF status = "FAILED" THEN @ + 1 ELSE @]
      BY <1>1, <1>2, <2>8 DEF ReportFields
    <3>2. x = [recipient |-> u, status |-> x.status, retryCount |-> x.retryCount]
      BY <2>4 DEF G!Delivery
    <3>3. PICK y : y = [x EXCEPT !.status = status]
      OBVIOUS
    <3>4. y = [recipient |-> u, status |-> status, retryCount |-> x.retryCount]
      BY <3>2, <3>3
    <3>5. [y EXCEPT !.retryCount = IF status = "FAILED" THEN @ + 1 ELSE @] = e
      BY <2>5, <2>6, <3>4
    <3>6. PICK v : v = [s EXCEPT ![p].status = status]
      OBVIOUS
    <3>7. v = [s EXCEPT ![p] = y] /\ v[p] = y
      BY <1>2, <2>3, <2>4, <3>3, <3>6
    <3>8. [v EXCEPT ![p].retryCount = IF status = "FAILED" THEN @ + 1 ELSE @]
             = [v EXCEPT ![p] = e]
      BY <3>5, <3>7
    <3>9. [v EXCEPT ![p] = e] = t
      BY <2>7, <3>7
    <3> QED BY <3>1, <3>6, <3>8, <3>9
  <2>10. /\ t \in Seq(G!Delivery) /\ Len(t) = k
         /\ \A i \in 1..k : t[i] = IF i = p THEN e ELSE s[i]
    <3>1. s \in [1..k -> G!Delivery]
      BY <1>2
    <3>2. t \in [1..k -> G!Delivery] /\ \A i \in 1..k : t[i] = IF i = p THEN e ELSE s[i]
      BY <2>7, <3>1
    <3> QED BY <3>2, SeqDef
  <2>11. CopiedArray([op |-> "updateDeliveryStatus", old |-> stored, new |-> new, whole |-> {}],
                     "deliveries", G!Delivery)
    <3>1. k <= k
      OBVIOUS
    <3> QED BY <1>2, <2>9, <2>10, <3>1 DEF CopiedArray
  <2>12. e.recipient = u /\ e.retryCount = n
    BY <2>6
  <2>13. Ahead(s, t)
    <3>1. k <= k
      OBVIOUS
    <3> QED BY <1>2, <2>4, <2>10, <2>12, <3>1 DEF Ahead
  <2>14. \A i \in 1..k : t[i].retryCount # s[i].retryCount =>
                First(s, i, s[i].recipient) /\ t[i].retryCount = s[i].retryCount + 1
    BY <2>2, <2>4, <2>5, <2>10, <2>12
  <2>15. \A i \in 1..k : ~ (i > k)
    OBVIOUS
  <2>16. /\ \A i \in 1..Len(s) : t[i].retryCount # s[i].retryCount =>
                First(s, i, s[i].recipient) /\ t[i].retryCount = s[i].retryCount + 1
         /\ \A i \in 1..Len(t) : i > Len(s) => t[i].retryCount = 0
    BY <1>2, <2>10, <2>14, <2>15
  <2> QED BY <1>2, <2>8, <2>9, <2>11, <2>13, <2>16, FailuresRead
<1> QED BY <1>3, <1>4, <1>5, <1>6, <1>7, <1>8, <1>9

LEMMA FailuresSave ==
    ASSUME ReportInv, FailuresInv, NEW r \in Requests, G!SaveReport(r)
    PROVE  FailuresInv'
<1>1. PICK q, X, Y :
          /\ q = copy[r] /\ q # Nothing /\ X = world.failed
          /\ Y = [u \in Users |-> X[u] + (IF u \in G!FailedBy(q) THEN 1 ELSE 0)]
  BY DEF G!SaveReport
<1>2. PICK s \in Seq(G!Delivery) :
          /\ s = stored.deliveries /\ Failures(s, X) /\ FailuresCopy(q, s, X)
          /\ X \in [Users -> Nat]
  BY <1>1 DEF FailuresInv, Failures
<1>3. q.whole = {} /\ "deliveries" \in DOMAIN stored
  BY <1>1 DEF ReportInv, ReportCopy, ReportFields
<1>4. PICK w : w.failed = Y /\ Saved(r, {"outputs", "deliveries"}, w)
  <2>1. PICK w : w = [old      |-> FALSE,
                      failed   |-> [u \in Users |-> world.failed[u]
                                      + (IF u \in G!FailedBy(copy[r]) THEN 1 ELSE 0)],
                      produced |-> world.produced + (IF copy[r].op = "addOutput" THEN 1 ELSE 0)]
    OBVIOUS
  <2>2. G!SaveCopy(r, {"outputs", "deliveries"}, w)
    BY <2>1 DEF G!SaveReport, G!ReportArrays
  <2>3. w.failed = [u \in Users |-> world.failed[u]
                                      + (IF u \in G!FailedBy(copy[r]) THEN 1 ELSE 0)]
    BY <2>1
  <2>4. \A u : u \in G!FailedBy(copy[r]) <=> u \in G!FailedBy(q)
    BY <1>1 DEF G!FailedBy
  <2>5. w.failed = Y
    BY <1>1, <2>3, <2>4
  <2> QED BY <2>2, <2>5, GenerationSaves
<1>5. PICK m : m = stored'.deliveries
  OBVIOUS
<1>6. /\ stored' = MD!Merged(q, {"outputs", "deliveries"}) /\ copy' = [copy EXCEPT ![r] = Nothing]
      /\ world' = w
  BY <1>1, <1>4 DEF Saved
<1>7. MergedByPlace(q.old.deliveries, q.new.deliveries, s, m)
  <2>1. /\ "version" \notin {"outputs", "deliveries"} \cup q.whole
        /\ "deliveries" \in {"outputs", "deliveries"} \ q.whole
    BY <1>3
  <2>2. m = MD!MergedArray(q, "deliveries")
    BY <1>3, <1>5, <1>6, <2>1, MergedFields
  <2>3. CopiedArray(q, "deliveries", G!Delivery) /\ stored["deliveries"] \in Seq(G!Delivery)
    BY <1>2 DEF FailuresCopy
  <2>4. MergedByPlace(q.old["deliveries"], q.new["deliveries"], stored["deliveries"],
                      MD!MergedArray(q, "deliveries"))
    BY <2>3, MergedPlaces
  <2> QED BY <1>2, <2>2, <2>4
<1>8. /\ Y \in [Users -> Nat] /\ \A u \in Users : X[u] <= Y[u]
      /\ \A u \in Users : Y[u] = X[u] + (IF FailsOnce(q, u) THEN 1 ELSE 0)
  <2>1. ASSUME NEW u \in Users
        PROVE  Y[u] = X[u] + (IF FailsOnce(q, u) THEN 1 ELSE 0) /\ Y[u] \in Nat /\ X[u] <= Y[u]
    <3>1. u \in G!FailedBy(q) <=> FailsOnce(q, u)
      BY <1>2, FailedByCopy
    <3>2. Y[u] = X[u] + (IF u \in G!FailedBy(q) THEN 1 ELSE 0)
      BY <1>1
    <3>3. Y[u] = X[u] + (IF FailsOnce(q, u) THEN 1 ELSE 0)
      BY <3>1, <3>2
    <3>4. PICK n \in 0..1 : n = IF FailsOnce(q, u) THEN 1 ELSE 0
      OBVIOUS
    <3>5. X[u] \in Nat /\ Y[u] = X[u] + n
      BY <1>2, <3>3, <3>4
    <3> QED BY <3>3, <3>5
  <2>2. Y = [u \in Users |-> Y[u]]
    BY <1>1
  <2> QED BY <2>1, <2>2
<1>9. Failures(m, Y) /\ Ahead(s, m)
  BY <1>2, <1>7, <1>8, FailuresMerged
<1>10. m \in Seq(G!Delivery) /\ world'.failed = Y
  BY <1>4, <1>6, <1>9 DEF Failures
<1>11. ASSUME NEW p \in Requests, copy'[p] # Nothing PROVE FailuresCopy(copy'[p], m, Y)
  <2>1. PICK c : c = copy'[p] /\ FailuresCopy(c, s, X)
    BY <1>1, <1>2, <1>6, <1>11 DEF ReportInv, FailuresInv
  <2>2. FailuresCopy(c, m, Y)
    BY <1>2, <1>8, <1>9, <1>10, <2>1, FailuresLater
  <2> QED BY <2>1, <2>2
<1> QED BY <1>5, <1>8, <1>9, <1>10, <1>11 DEF FailuresInv

LEMMA FailuresFirst == G!ReportInit => FailuresInv
<1> SUFFICES ASSUME G!ReportInit PROVE FailuresInv
  OBVIOUS
<1>1. stored.deliveries = << >> /\ world.failed = [u \in Users |-> 0]
  BY DEF G!ReportInit
<1>2. << >> \in Seq(G!Delivery) /\ Len(<< >>) = 0
  OBVIOUS
<1>3. \A i, u : ~ First(<< >>, i, u)
  BY <1>2 DEF First
<1>4. Failures(<< >>, [u \in Users |-> 0])
  BY <1>2, <1>3 DEF Failures
<1>5. \A r \in Requests : copy[r] = Nothing
  BY DEF G!ReportInit, G!NoCopies
<1>6. [u \in Users |-> 0] \in [Users -> Nat]
  OBVIOUS
<1> QED BY <1>1, <1>4, <1>5, <1>6 DEF FailuresInv

LEMMA FailuresSteps ==
    ReportInv /\ FailuresInv /\ [G!ReportNext]_(G!document) => FailuresInv'
<1> SUFFICES ASSUME ReportInv, FailuresInv, [G!ReportNext]_(G!document) PROVE FailuresInv'
  OBVIOUS
<1>1. ASSUME stored'.deliveries = stored.deliveries, world'.failed = world.failed,
             \A r \in Requests : copy'[r] \in {copy[r], Nothing}
      PROVE  FailuresInv'
  BY <1>1 DEF FailuresInv
<1>2. ASSUME NEW r \in Requests, G!AbortCopy(r) PROVE FailuresInv'
  <2>1. UNCHANGED <<stored, world>> /\ copy' = [copy EXCEPT ![r] = Nothing]
    BY <1>2 DEF G!AbortCopy
  <2>2. \A p \in Requests : copy'[p] \in {copy[p], Nothing}
    BY <2>1 DEF ReportInv
  <2> QED BY <1>1, <2>1, <2>2
<1>3. ASSUME G!CleanupExpired PROVE FailuresInv'
  <2>1. /\ stored' = [stored EXCEPT !.status = "EXPIRED"] /\ copy' = copy
        /\ world' = [world EXCEPT !.old = FALSE]
    BY <1>3 DEF G!CleanupExpired, G!UpdateStored
  <2>2. stored'.deliveries = stored.deliveries /\ world'.failed = world.failed
    BY <2>1
  <2> QED BY <1>1, <2>1, <2>2
<1>4. ASSUME G!TimePasses PROVE FailuresInv'
  <2>1. stored' = stored /\ copy' = copy /\ world' = [world EXCEPT !.old = TRUE]
    BY <1>4 DEF G!TimePasses, G!WorldChanges
  <2>2. world'.failed = world.failed
    BY <2>1
  <2> QED BY <1>1, <2>1, <2>2
<1>5. ASSUME UNCHANGED G!document PROVE FailuresInv'
  BY <1>1, <1>5 DEF G!document
<1> QED BY <1>2, <1>3, <1>4, <1>5, FailuresMethods, FailuresSave DEF G!ReportNext

LEMMA FailuresImply == OutputsInv /\ FailuresInv => G!OutputsAndFailuresKept
<1> SUFFICES ASSUME OutputsInv, FailuresInv PROVE G!OutputsAndFailuresKept
  OBVIOUS
<1>1. PICK s, X : s = stored.deliveries /\ X = world.failed /\ s \in Seq(G!Delivery) /\ Failures(s, X)
  BY DEF FailuresInv, Failures
<1>2. ASSUME NEW u \in Users
      PROVE  /\ X[u] > 0 => G!PlacesOf(stored, u) # {}
             /\ G!PlacesOf(stored, u) # {} =>
                   LET count == stored.deliveries[G!FirstPlace(stored, u)].retryCount
                   IN  count <= X[u] /\ (X[u] > 0 => count > 0)
  <2>1. PICK places, p : places = G!PlacesOf(stored, u) /\ p = G!FirstPlace(stored, u)
    OBVIOUS
  <2>2. /\ places # {} => First(s, p, u)
        /\ \A i : First(s, i, u) => places # {}
    BY <1>1, <2>1, FirstPlaces
  <2>3. /\ X[u] > 0 => places # {}
        /\ places # {} => s[p].retryCount <= X[u] /\ (X[u] > 0 => s[p].retryCount > 0)
    BY <1>1, <2>2 DEF Failures
  <2> QED BY <1>1, <2>1, <2>3
<1>3. Len(stored.outputs) = world.produced
  BY DEF OutputsInv, Counted
<1> QED BY <1>1, <1>2, <1>3 DEF G!OutputsAndFailuresKept

-----------------------------------------------------------------------------
(* All of them: the component that was chosen keeps the invariant of its lists. *)

KeptInv ==
    /\ component = "Feedback" => ResponsesInv
    /\ component = "Message" => ReceiptsInv
    /\ component = "Conversation" => ParticipantsInv
    /\ component = "DirectMessage" => ReactionsInv
    /\ component = "TaxSettings" => ElementsOfTax
    /\ component = "Subscription" => PaymentsInv
    /\ component = "ContactUs" => NotesInv
    /\ component = "GeneratedReport" => OutputsInv /\ FailuresInv
    /\ component = "GeneratedDocument" => AccessInv
    /\ component = "UserPreferences" => ElementsOfPreferences

LEMMA KeptFirst == ServiceInit => KeptInv
<1> SUFFICES ASSUME ServiceInit PROVE KeptInv
  OBVIOUS
<1>1. component = "Feedback" => F!Init
  BY DEF ServiceInit, ModelInit, DocumentInit
<1>2. component = "Message" => M!MessageInit
  BY DEF ServiceInit, ModelInit, DocumentInit
<1>3. component = "Conversation" => M!ConversationInit
  BY DEF ServiceInit, ModelInit, DocumentInit
<1>4. component = "DirectMessage" => M!DirectInit
  BY DEF ServiceInit, ModelInit, DocumentInit
<1>5. component = "TaxSettings" => T!Init
  BY DEF ServiceInit, ModelInit, DocumentInit
<1>6. component = "Subscription" => S!Init
  BY DEF ServiceInit, ModelInit, DocumentInit
<1>7. component = "ContactUs" => US!Init
  BY DEF ServiceInit, ModelInit, DocumentInit
<1>8. component = "GeneratedReport" => G!ReportInit
  BY DEF ServiceInit, ModelInit, DocumentInit
<1>9. component = "GeneratedDocument" => GD!DocumentInit
  BY DEF ServiceInit, ModelInit, DocumentInit
<1>10. component = "UserPreferences" => UP!Init
  BY DEF ServiceInit, ModelInit, DocumentInit
<1> QED BY <1>1, <1>2, <1>3, <1>4, <1>5, <1>6, <1>7, <1>8, <1>9, <1>10,
           ResponsesFirst, ReceiptsFirst, ParticipantsFirst, ReactionsFirst,
           ElementsOfTaxFirst, PaymentsFirst, NotesFirst, OutputsFirst, FailuresFirst,
           AccessFirst, ElementsOfPreferencesFirst
           DEF KeptInv

LEMMA KeptSteps == ServicesInv /\ KeptInv /\ [ServiceNext]_serviceVars => KeptInv'
BY ComponentSteps, ResponsesSteps, ReceiptsSteps, ParticipantsSteps, ReactionsSteps,
   ElementsOfTaxSteps, PaymentsSteps, NotesSteps, OutputsSteps, FailuresSteps, AccessSteps,
   ElementsOfPreferencesSteps
   DEF ServicesInv, KeptInv

LEMMA KeptInvariance == ServiceSpec => []KeptInv
<1> QED BY KeptFirst, KeptSteps, ServicesInvariance, PTL DEF ServiceSpec

\* However requests overlap, what they add to the list of a document stays until it is
\* taken out, and what is taken out does not come back: shares of documents, payments of
\* invoices and subscriptions, responses to feedback, receipts and participants,
\* reactions, tax rates and exemptions, notes, outputs and failures of reports, users with
\* access to documents, and preferences.
THEOREM ListsStayKept == ServiceSpec => []ListsKept
<1>1. DocumentInv => D!SharesKept
  BY DEF DocumentInv, StoredDocument, D!SharesKept
<1>2. InvoiceInv => I!PaymentsKept
  BY DEF InvoiceInv
<1>3. ResponsesInv => F!ResponsesKept
  BY DEF ResponsesInv, Counted, F!ResponsesKept
<1>4. NotesInv => US!NotesKept
  BY DEF NotesInv, Counted, US!NotesKept
<1>5. ServicesInv /\ KeptInv => ListsKept
  BY <1>1, <1>2, <1>3, <1>4, ReceiptsImply, ParticipantsImply, ReactionsImply,
     ElementsOfTaxImply, PaymentsImply, FailuresImply, AccessImply, ElementsOfPreferencesImply
     DEF ServicesInv, KeptInv, ListsKept
<1> QED BY <1>5, ServicesInvariance, KeptInvariance, PTL

=============================================================================
