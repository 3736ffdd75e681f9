------------------------------ MODULE Timesheet ------------------------------
(***************************************************************************)
(* services/timesheet.service.ts over models/Timesheet.ts.                 *)
(*                                                                         *)
(* Every operation of the service is                                       *)
(*                                                                         *)
(*     findById  ->  guards and assignments on the copy  ->  save          *)
(*                                                                         *)
(* with an await on each side of the middle part.  The process serves      *)
(* other requests while it awaits, and pm2 runs one process per core, so   *)
(* any number of requests may lie between their read and their save.  A    *)
(* request is a slot: its Read action takes the copy, evaluates the guards *)
(* and computes the update; Save sends the update; Enqueue and Reply are   *)
(* what follows the save.                                                  *)
(*                                                                         *)
(* Mongoose sends a save as $set of the paths that were modified on the    *)
(* copy and $push of the elements that were pushed: a path that the        *)
(* operation left alone, or assigned the value it already had in the copy, *)
(* keeps what the database has.  The version key is compared only for a    *)
(* push inside an array element (recordClockEvent).                        *)
(***************************************************************************)
EXTENDS Integers, Sequences, FiniteSets, Sums

CONSTANTS
    Sheets,        \* identities that new timesheets are given
    Keys,          \* <<worker, job, week>> triples timesheets are created for
    Requests,      \* request slots: how many requests may be in flight
    Payrolls,      \* identities of payrolls
    NoPayroll,     \* payrollId of a timesheet that was never processed
    NoKey,         \* key of an identity that is not in use
    EntryKinds,    \* the time entries workers add
    MaxEntries,    \* bound: entries of a timesheet
    MaxWrites      \* bound: MaxWrites[s] saves of s

ASSUME BoundsAssumption == MaxEntries \in Nat /\ MaxWrites \in [Sheets -> Nat]

ASSUME RequestsAssumption == IsFiniteSet(Requests)

ASSUME NamesAssumption == NoPayroll \notin Payrolls /\ NoKey \notin Keys

ASSUME EntryAssumption ==
    EntryKinds \subseteq [start : Int, end : Int, unpaid : Nat]

VARIABLES
    key,       \* key[s]: what s was created for, NoKey if s does not exist
    doc,       \* doc[s]: the scalar paths of the stored document
    entries,   \* entries[s]: timeEntries
    audit,     \* audit[s]: the actions in auditLogs
    approvals, \* approvals[s]: jobs for s in the timesheet-approvals queue
    req        \* req[r]: what request slot r is doing

vars == <<key, doc, entries, audit, approvals, req>>

-----------------------------------------------------------------------------
\* TimesheetStatus without QUERIED, which no operation writes.
Statuses == {"draft", "submitted", "approved", "rejected", "paid", "deleted"}

Actions == {"CREATE", "ADD_ENTRY", "CLOCK_EVENT", "VERIFY_CLOCK_EVENT", "SUBMIT",
            "APPROVE", "REJECT", "DELETE", "RESTORE", "PAYROLL_PROCESSED"}

\* The actions that write the status, and the status each of them writes.
StatusActions == Actions \ {"ADD_ENTRY", "CLOCK_EVENT", "VERIFY_CLOCK_EVENT"}

StatusOf == [a \in StatusActions |->
                CASE a \in {"CREATE", "RESTORE"} -> "draft"
                  [] a = "SUBMIT"  -> "submitted"
                  [] a = "APPROVE" -> "approved"
                  [] a = "REJECT"  -> "rejected"
                  [] a = "DELETE"  -> "deleted"
                  [] a = "PAYROLL_PROCESSED" -> "paid"]

\* payrollProcessed is set with payrollId and never cleared: it is
\* payrollId # NoPayroll. Regular, overtime and holiday hours are kept as
\* their sum, totalHours.total.
Doc == [status : Statuses \cup {"none"}, isDeleted : BOOLEAN, total : Int,
        payrollId : Payrolls \cup {NoPayroll}]

NoDoc == [status |-> "none", isDeleted |-> FALSE, total |-> 0, payrollId |-> NoPayroll]

NewDoc == [NoDoc EXCEPT !.status = "draft"]

\* The hours of an entry: its length less its unpaid breaks. They are split
\* into at most eight regular hours and the overtime; the sum is the same.
Hours(e) == e.end - e.start - e.unpaid

\* calculateTotalHours, and the pre-save hook's sum.
Total(es) == SumTo([i \in DOMAIN es |-> Hours(es[i])], Len(es))

Exists(s) == doc[s].status # "none"

ValidEntry(e) == e.start < e.end

-----------------------------------------------------------------------------
(***************************************************************************)
(* Requests.  "idle", "inserting" (createTimesheet found no timesheet),    *)
(* "saving" (a save is on its way), "enqueuing" (submitTimesheet saved),   *)
(* "replying" (only the notification and the answer are left).             *)
(***************************************************************************)
Phases == {"idle", "inserting", "saving", "enqueuing", "replying"}

\* action: the audit entry that is pushed; old and new: the scalar paths of
\* the copy as read and as they are when save is called; copy: timeEntries
\* as read; pushed: the entries that are pushed; version: __v as read.
Idle == [phase |-> "idle"]

Inserting(k) == [phase |-> "inserting", key |-> k]

\* Faulty variant of PreSave: the hook adds to the total without resetting it.
PreSaveAccumulates(d, es) ==
    IF es = <<>> THEN d ELSE [d EXCEPT !.total = @ + Total(es)]

\* The pre-save hook recomputes the total from the copy's entries.
PreSave(d, es) == IF es = <<>> THEN d ELSE [d EXCEPT !.total = Total(es)]

Saving(s, action, new, pushed) ==
    [phase |-> "saving", sheet |-> s, action |-> action,
     old |-> doc[s], new |-> PreSave(new, entries[s] \o pushed),
     pushed |-> pushed, version |-> Len(audit[s])]

\* A request takes a free slot; the request itself changes nothing stored.
Start(r, work) == /\ req[r] = Idle
                  /\ req' = [req EXCEPT ![r] = work]
                  /\ UNCHANGED <<key, doc, entries, audit, approvals>>

Read(r, s, action, new, pushed) == /\ Exists(s)
                                   /\ Start(r, Saving(s, action, new, pushed))

-----------------------------------------------------------------------------
(***************************************************************************)
(* Faulty variants of definitions of this module.  None of them takes part *)
(* in Spec: each stands for a mistake that the properties at the end must  *)
(* notice when it is put in the place of the definition it is named after. *)
(***************************************************************************)

\* addTimeEntry does not look at the status.
AddToAnyStatus(r, s, e) == Read(r, s, "ADD_ENTRY", doc[s], <<e>>)

\* approveTimesheet logs the approval and leaves the status.
ApproveLogsOnly(r, s) ==
    /\ doc[s].status = "submitted"
    /\ Read(r, s, "APPROVE", doc[s], <<>>)

\* approveTimesheet lets a rejected timesheet be approved.
ApproveRejected(r, s) ==
    /\ doc[s].status \in {"submitted", "rejected"}
    /\ Read(r, s, "APPROVE", [doc[s] EXCEPT !.status = "approved"], <<>>)

\* rejectTimesheet lets a draft be rejected.
RejectDraft(r, s) ==
    /\ doc[s].status \in {"draft", "submitted"}
    /\ Read(r, s, "REJECT", [doc[s] EXCEPT !.status = "rejected"], <<>>)

\* restoreTimesheet forgets the flag.
RestoreStatusOnly(r, s) ==
    /\ doc[s].isDeleted
    /\ Read(r, s, "RESTORE", [doc[s] EXCEPT !.status = "draft"], <<>>)

\* restoreTimesheet takes the payroll mark away.
RestoreUnpaid(r, s) ==
    /\ doc[s].isDeleted
    /\ Read(r, s, "RESTORE", [doc[s] EXCEPT !.status = "draft", !.isDeleted = FALSE,
                                           !.payrollId = NoPayroll], <<>>)

\* markPayrollProcessed takes a timesheet that was only submitted.
PaySubmitted(r, s, p) ==
    /\ doc[s].status \in {"submitted", "approved"}
    /\ Read(r, s, "PAYROLL_PROCESSED",
            [doc[s] EXCEPT !.status = "paid", !.payrollId = p], <<>>)

\* markPayrollProcessed takes a timesheet that is paid already.
PayPaid(r, s, p) ==
    /\ doc[s].status \in {"approved", "paid"}
    /\ Read(r, s, "PAYROLL_PROCESSED",
            [doc[s] EXCEPT !.status = "paid", !.payrollId = p], <<>>)

\* markPayrollProcessed leaves the status.
MarkOnly(r, s, p) ==
    /\ doc[s].status = "approved"
    /\ Read(r, s, "PAYROLL_PROCESSED", [doc[s] EXCEPT !.payrollId = p], <<>>)

\* createTimesheet looks at the timesheets that were submitted only.
FindSubmitted(r, k) ==
    /\ ~ \E s \in Sheets : key[s] = k /\ ~ doc[s].isDeleted /\ doc[s].status # "draft"
    /\ Start(r, Inserting(k))

-----------------------------------------------------------------------------
\* createTimesheet: the lookup and the insertion are two steps, and no unique
\* index stands behind them.
FindForCreate(r, k) ==
    /\ ~ \E s \in Sheets : key[s] = k /\ ~ doc[s].isDeleted
    /\ Start(r, Inserting(k))

InsertCreated(r, s) ==
    /\ req[r].phase = "inserting"
    /\ ~ Exists(s)
    /\ key' = [key EXCEPT ![s] = req[r].key]
    /\ doc' = [doc EXCEPT ![s] = NewDoc]
    /\ audit' = [audit EXCEPT ![s] = <<"CREATE">>]
    /\ req' = [req EXCEPT ![r] = Idle]
    /\ UNCHANGED <<entries, approvals>>

\* addTimeEntry
ReadAddTimeEntry(r, s, e) ==
    /\ doc[s].status = "draft"
    /\ Read(r, s, "ADD_ENTRY",
            [doc[s] EXCEPT !.total = Total(Append(entries[s], e))], <<e>>)

\* recordClockEvent; the events inside the entry are the subject of ClockEvents.
ReadRecordClockEvent(r, s) ==
    /\ doc[s].status = "draft"
    /\ entries[s] # <<>>
    /\ Read(r, s, "CLOCK_EVENT", doc[s], <<>>)

\* verifyClockEvent asks nothing of the status. Any entry may hold clock
\* events, for addTimeEntry takes some too.
ReadVerifyClockEvent(r, s) ==
    /\ entries[s] # <<>>
    /\ Read(r, s, "VERIFY_CLOCK_EVENT", doc[s], <<>>)

\* submitTimesheet
ReadSubmitTimesheet(r, s) ==
    /\ doc[s].status = "draft"
    /\ entries[s] # <<>>
    /\ \A i \in DOMAIN entries[s] : ValidEntry(entries[s][i])
    /\ Read(r, s, "SUBMIT", [doc[s] EXCEPT !.status = "submitted"], <<>>)

\* approveTimesheet
ReadApproveTimesheet(r, s) ==
    /\ doc[s].status = "submitted"
    /\ Read(r, s, "APPROVE", [doc[s] EXCEPT !.status = "approved"], <<>>)

\* rejectTimesheet
ReadRejectTimesheet(r, s) ==
    /\ doc[s].status = "submitted"
    /\ Read(r, s, "REJECT", [doc[s] EXCEPT !.status = "rejected"], <<>>)

\* softDeleteTimesheet: from any status, a paid one included
ReadSoftDeleteTimesheet(r, s) ==
    /\ ~ doc[s].isDeleted
    /\ Read(r, s, "DELETE",
            [doc[s] EXCEPT !.status = "deleted", !.isDeleted = TRUE], <<>>)

\* restoreTimesheet: back to draft, whatever the status was before deletion;
\* payrollProcessed and payrollId are kept
ReadRestoreTimesheet(r, s) ==
    /\ doc[s].isDeleted
    /\ Read(r, s, "RESTORE",
            [doc[s] EXCEPT !.status = "draft", !.isDeleted = FALSE], <<>>)

\* markPayrollProcessed: asks for the status, not for payrollProcessed
ReadMarkPayrollProcessed(r, s, p) ==
    /\ doc[s].status = "approved"
    /\ Read(r, s, "PAYROLL_PROCESSED",
            [doc[s] EXCEPT !.status = "paid", !.payrollId = p], <<>>)

-----------------------------------------------------------------------------
\* $set of one path: sent only if the copy's value was changed.
Set(stored, old, new) == IF new # old THEN new ELSE stored

\* The scalar paths after $set of the modified ones.
Merge(stored, old, new) ==
    [status    |-> Set(stored.status, old.status, new.status),
     isDeleted |-> Set(stored.isDeleted, old.isDeleted, new.isDeleted),
     total     |-> Set(stored.total, old.total, new.total),
     payrollId |-> Set(stored.payrollId, old.payrollId, new.payrollId)]

\* Only a push inside timeEntries makes Mongoose compare the version.
VersionMatches(q) == \/ q.action # "CLOCK_EVENT"
                     \/ q.version = Len(audit[q.sheet])

Save(r) ==
    /\ req[r].phase = "saving"
    /\ LET q == req[r]
           s == q.sheet
       IN  /\ VersionMatches(q)
           /\ Len(audit[s]) < MaxWrites[s]
           /\ Len(entries[s] \o q.pushed) <= MaxEntries
           /\ doc' = [doc EXCEPT ![s] = Merge(@, q.old, q.new)]
           /\ entries' = [entries EXCEPT ![s] = @ \o q.pushed]
           /\ audit' = [audit EXCEPT ![s] = Append(@, q.action)]
           /\ req' = [req EXCEPT ![r] =
                        [phase |-> IF q.action = "SUBMIT" THEN "enqueuing" ELSE "replying",
                         sheet |-> s]]
    /\ UNCHANGED <<key, approvals>>

\* queueForApproval: a failure to reach the queue is logged and swallowed.
Enqueue(r) ==
    /\ req[r].phase = "enqueuing"
    /\ \E added \in {0, 1} :
          approvals' = [approvals EXCEPT ![req[r].sheet] = @ + added]
    /\ req' = [req EXCEPT ![r] = [@ EXCEPT !.phase = "replying"]]
    /\ UNCHANGED <<key, doc, entries, audit>>

\* The notification, sent or not, changes no timesheet; then the answer.
Reply(r) ==
    /\ req[r].phase = "replying"
    /\ req' = [req EXCEPT ![r] = Idle]
    /\ UNCHANGED <<key, doc, entries, audit, approvals>>

\* The request ends where it is: the process crashed or was restarted, the job
\* that addTimeEntry looks up is gone, the database refused the write
\* (VersionError included). Whatever it has saved stays.
Abort(r) ==
    /\ req[r] # Idle
    /\ req' = [req EXCEPT ![r] = Idle]
    /\ UNCHANGED <<key, doc, entries, audit, approvals>>

-----------------------------------------------------------------------------
Init == /\ key = [s \in Sheets |-> NoKey]
        /\ doc = [s \in Sheets |-> NoDoc]
        /\ entries = [s \in Sheets |-> <<>>]
        /\ audit = [s \in Sheets |-> <<>>]
        /\ approvals = [s \in Sheets |-> 0]
        /\ req = [r \in Requests |-> Idle]

ReadStep(r, s) == \/ \E e \in EntryKinds : ReadAddTimeEntry(r, s, e)
                  \/ ReadRecordClockEvent(r, s)
                  \/ ReadVerifyClockEvent(r, s)
                  \/ ReadSubmitTimesheet(r, s)
                  \/ ReadApproveTimesheet(r, s)
                  \/ ReadRejectTimesheet(r, s)
                  \/ ReadSoftDeleteTimesheet(r, s)
                  \/ ReadRestoreTimesheet(r, s)
                  \/ \E p \in Payrolls : ReadMarkPayrollProcessed(r, s, p)

Next == \E r \in Requests :
            \/ \E k \in Keys : FindForCreate(r, k)
            \/ \E s \in Sheets : InsertCreated(r, s) \/ ReadStep(r, s)
            \/ Save(r)
            \/ Enqueue(r)
            \/ Reply(r)
            \/ Abort(r)

Spec == Init /\ [][Next]_vars

-----------------------------------------------------------------------------
\* What a request holds between its actions.
RequestRecord ==
         [phase : {"idle"}]
    \cup [phase : {"inserting"}, key : Keys]
    \cup [phase : {"saving"}, sheet : Sheets, action : Actions \ {"CREATE"},
          old : Doc, new : Doc, pushed : Seq(EntryKinds), version : Nat]
    \cup [phase : {"enqueuing", "replying"}, sheet : Sheets]

\* Every variable has its type.
TypeOK == /\ key \in [Sheets -> Keys \cup {NoKey}]
          /\ doc \in [Sheets -> Doc]
          /\ entries \in [Sheets -> Seq(EntryKinds)]
          /\ audit \in [Sheets -> Seq(Actions)]
          /\ approvals \in [Sheets -> Nat]
          /\ req \in [Requests -> RequestRecord]

-----------------------------------------------------------------------------
(* Properties that hold however requests overlap. *)

\* The places of an action in the audit log of a timesheet.
At(s, a) == {i \in DOMAIN audit[s] : audit[s][i] = a}

\* A draft is never flagged as deleted and a timesheet with status deleted
\* always is, although status and isDeleted are written from stale copies.
\* (Another status under the flag is possible: approval over a deletion.)
DeletedFlag ==
    \A s \in Sheets : /\ doc[s].status = "draft" => ~ doc[s].isDeleted
                      /\ doc[s].status = "deleted" => doc[s].isDeleted

\* The audit log explains the status: it is the one that the last
\* status-writing entry of the log stands for. A save that pushed its log
\* entry and left the status unwritten would break it.
StatusIsAudited ==
    \A s \in Sheets : Exists(s) =>
        \E i \in DOMAIN audit[s] :
            /\ audit[s][i] \in StatusActions
            /\ doc[s].status = StatusOf[audit[s][i]]
            /\ \A j \in DOMAIN audit[s] : j > i => audit[s][j] \notin StatusActions

\* A timesheet goes through payroll only after an approval that came after a
\* submission, in that order of saves.
PaidAfterApproval ==
    \A s \in Sheets : \A k \in At(s, "PAYROLL_PROCESSED") :
        \E i \in At(s, "SUBMIT"), j \in At(s, "APPROVE") : i < j /\ j < k

\* payrollId tells whether the timesheet ever went through payroll, even after
\* it was deleted and restored: no stale save takes the mark away.
PayrollMarkKept ==
    \A s \in Sheets : doc[s].payrollId # NoPayroll <=> At(s, "PAYROLL_PROCESSED") # {}

\* The stored total is always the sum of the entries some request knew of:
\* the first k entries, and at most one later entry that it added itself.
TotalOfKnownEntries ==
    \A s \in Sheets : \E k \in 0..Len(entries[s]) :
        LET known == Total(SubSeq(entries[s], 1, k))
        IN  \/ doc[s].total = known
            \/ \E j \in k+1..Len(entries[s]) : doc[s].total = known + Hours(entries[s][j])

\* The saves i to k of s: the first ends the draft, and none begins one again.
AfterDraft(s, i, k) == /\ i <= k
                       /\ audit[s][i] \in StatusActions
                       /\ \A j \in i..k : audit[s][j] \notin {"CREATE", "RESTORE"}

\* "Cannot add entries to a timesheet that is not in draft status": once a saved
\* status ends the draft, and until a restoration, an entry is added only by
\* requests that had read the draft before, one each, which the request that
\* ended it is not. A clock event never comes late: the version check refuses it.
DraftWorkEnds ==
    \A s \in Sheets : \A i, k \in DOMAIN audit[s] :
        AfterDraft(s, i, k) =>
            /\ i < k => audit[s][k] # "CLOCK_EVENT"
            /\ Cardinality(At(s, "ADD_ENTRY") \cap (i..k)) < Cardinality(Requests)

\* The service implements the lifecycle in which an operation's source status
\* is one the timesheet has had.
StatusesSeen(s) == {StatusOf[audit[s][i]] : i \in {j \in DOMAIN audit[s] :
                                                    audit[s][j] \in StatusActions}}

\* The operations that write the status, with the status each one asks for.
Moves == {[from |-> "draft", to |-> "submitted"],
          [from |-> "submitted", to |-> "approved"],
          [from |-> "submitted", to |-> "rejected"],
          [from |-> "approved", to |-> "paid"],
          [from |-> "deleted", to |-> "draft"]}
    \cup {[from |-> st, to |-> "deleted"] : st \in Statuses \ {"deleted"}}

Lifecycle == INSTANCE Lifecycle
             WITH Docs <- Sheets, First <- {"draft"},
                  status <- [s \in Sheets |-> doc[s].status],
                  seen <- [s \in Sheets |-> StatusesSeen(s)]

ImplementsLifecycle == Lifecycle!Spec

-----------------------------------------------------------------------------
(* Properties that hold only while requests do not overlap. *)

\* The service implements the lifecycle in which every operation finds the
\* timesheet in its source status.
ImplementsStrictLifecycle == Lifecycle!StrictSpec

\* "Recalculate total hours": the stored total is the sum of the entries.
TotalIsSum == \A s \in Sheets : doc[s].total = Total(entries[s])

\* A timesheet goes through payroll again only after it was restored and
\* approved again: deletion and restoration are the one way to a second payment.
RepaidOnlyAfterRestore ==
    \A s \in Sheets : \A i, k \in At(s, "PAYROLL_PROCESSED") : i < k =>
        \E j \in At(s, "RESTORE"), m \in At(s, "APPROVE") : i < j /\ j < m /\ m < k

\* "Check for existing timesheet": of two timesheets for one worker, job and
\* week that are not deleted, one has been deleted and restored: creation looks
\* for the other one, restoration does not.
OneLiveUnlessRestored ==
    \A s, t \in Sheets :
        (s # t /\ key[s] = key[t] /\ key[s] # NoKey /\ ~ doc[s].isDeleted /\ ~ doc[t].isDeleted)
            => At(s, "RESTORE") \cup At(t, "RESTORE") # {}
=============================================================================
