---------------------------- MODULE PayrollSystem ----------------------------
(***************************************************************************)
(* timesheet.service.ts and payroll.service.ts over one database.          *)
(*                                                                         *)
(* The two services meet in the timesheets: createPayroll queries what     *)
(* timesheet operations have saved, and keeps the hours it saw. The        *)
(* timesheets that Payroll takes as input are here the ones of Timesheet.  *)
(***************************************************************************)
EXTENDS Timesheet

CONSTANTS
    Periods, HourTotals, WeekStarts, Reasons,  \* as in Payroll
    Week,             \* Week[k]: the day the week of key k starts
    PayrollRequests,  \* request slots of payroll.service
    MaxSaves          \* bound: saves of one payroll

VARIABLES payroll, items, log, call

payrollVars == <<payroll, items, log, call>>

\* What the query of createPayroll sees of a timesheet. It does not ask for
\* isDeleted, and an identity that is not in use is never approved.
SheetSeen == [s \in Sheets |->
    [approved |-> doc[s].status = "approved",
     week     |-> IF Exists(s) THEN Week[key[s]] ELSE CHOOSE w \in WeekStarts : TRUE,
     hours    |-> doc[s].total]]

\* Tax codes play no part here.
P == INSTANCE Payroll WITH TaxCodes <- {}, NoTaxCode <- "none",
                           Requests <- PayrollRequests, sheet <- SheetSeen

SystemInit == Init /\ P!PayrollInit

SystemNext == \/ Next /\ UNCHANGED payrollVars
              \/ UNCHANGED vars /\ P!PayrollNext

SystemVars == <<vars, payrollVars>>

SystemSpec == SystemInit /\ [][SystemNext]_SystemVars

-----------------------------------------------------------------------------
\* Payroll's picture of the timesheets is right: whatever timesheet.service
\* does, payroll.service sees timesheets of the type it assumes.
PayrollTypeOK == P!TypeOK

\* payroll.service alone, one request at a time, over timesheets that change.
PayrollImplementsStrictLifecycle == P!ImplementsStrictLifecycle

\* Every timesheet a payroll was calculated from had been submitted and
\* approved, in this order, whatever happened to it since.
ItemsWereApproved ==
    \A p \in Payrolls : \A s \in DOMAIN items[p] :
        \E i \in At(s, "SUBMIT"), j \in At(s, "APPROVE") : i < j

\* The hours of an item are those of entries that were on the timesheet:
\* an initial part of the entries, and at most one later entry that was added
\* from a copy that did not have all of them.
ItemHoursAreEntries ==
    \A p \in Payrolls : \A s \in DOMAIN items[p] : \E k \in 0..Len(entries[s]) :
        LET known == Total(SubSeq(entries[s], 1, k))
        IN  \/ items[p][s] = known
            \/ \E j \in k+1..Len(entries[s]) : items[p][s] = known + Hours(entries[s][j])

\* What a payroll was calculated from were approved timesheets and their entries.
ItemsExplained == ItemsWereApproved /\ ItemHoursAreEntries

\* A timesheet that was marked as processed is collected for another payroll
\* only if an approval was saved after the mark: one that came after a
\* restoration, or one whose copy was older than the mark.
\* (This says nothing of payrolls collected before the mark: creating a payroll
\* does not mark its timesheets.)
ProcessedNotCollected ==
    [][\A r \in PayrollRequests :
          (call'[r] # call[r] /\ call'[r].phase = "inserting") =>
              \A s \in DOMAIN call'[r].items : \A k \in At(s, "PAYROLL_PROCESSED") :
                  \E j \in At(s, "APPROVE") : k < j]_SystemVars
=============================================================================
