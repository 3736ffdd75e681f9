------------------------------- MODULE Payroll -------------------------------
(***************************************************************************)
(* services/payroll.service.ts over models/Payroll.ts.                     *)
(*                                                                         *)
(* createPayroll collects the approved timesheets of a period and inserts  *)
(* a draft; the other operations read a payroll, test its status and save  *)
(* the paths they assigned. Nothing marks the timesheets: to this service  *)
(* they are input, which timesheet.service.ts changes at any time          *)
(* (sheet, below; PayrollSystem puts the two services together).           *)
(*                                                                         *)
(* The amounts are left out: earnings, deductions and netAmount are a      *)
(* function of the hours of the collected timesheets and of the rate, set  *)
(* at creation and recomputed by the pre-save hook to what they were.      *)
(***************************************************************************)
EXTENDS Integers, Sequences, FiniteSets

CONSTANTS
    Payrolls,    \* identities that new payrolls are given
    Sheets,      \* timesheets of the worker and client payrolls are made for
    Periods,     \* records [start, end] of days: the periods asked for
    HourTotals,  \* the hours timesheets may have
    WeekStarts,  \* the days weeks of timesheets start on
    TaxCodes,    \* tax codes clerks enter
    NoTaxCode,   \* taxCode of a payroll that has none
    Reasons,     \* reasons of failed payments; "keep" is neither a reason nor a tax code
    Requests,    \* request slots
    MaxSaves     \* bound: saves of one payroll

VARIABLES
    sheet,  \* sheet[s]: what createPayroll reads of timesheet s
    payroll, \* payroll[p]: status, paymentDetails and taxCode of the stored payroll
    items,  \* items[p]: the timesheets p was calculated from, with their hours
    log,    \* log[p]: history of the saves that took effect on p
    call     \* call[r]: what request slot r is doing

vars == <<sheet, payroll, items, log, call>>

-----------------------------------------------------------------------------
\* PayrollStatus: no operation writes processing or cancelled.
Statuses == {"draft", "approved", "paid"}

Operations == {"CREATE", "APPROVE", "PAY", "FAIL", "TAX"}

\* paymentDetails: a failed payment is represented by its reason.
Payments == {"pending", "processed"} \cup Reasons

Doc == [status : Statuses \cup {"none"}, payment : Payments,
        taxCode : TaxCodes \cup {NoTaxCode}]

NoDoc == [status |-> "none", payment |-> "pending", taxCode |-> NoTaxCode]

\* createPayroll replaces the deductions it was given, a tax code included.
NewDoc == [NoDoc EXCEPT !.status = "draft"]

\* The paths a save sends; "keep" for those it does not.
Update == [status : Statuses \cup {"keep"}, payment : Payments \cup {"keep"},
           taxCode : TaxCodes \cup {"keep"}]

KeepAll == [status |-> "keep", payment |-> "keep", taxCode |-> "keep"]

Items == UNION {[S -> HourTotals] : S \in SUBSET Sheets}

SheetRecord == [approved : BOOLEAN, week : WeekStarts, hours : HourTotals]

\* validatePayrollPeriod: MIN_PERIOD_DAYS and MAX_PERIOD_DAYS.
ValidPeriod(t) == t.end - t.start \in 7..31

\* Faulty variant of Collected: the query takes the drafts of the period as well.
CollectedAny(t) == {s \in Sheets : t.start <= sheet[s].week /\ sheet[s].week <= t.end}

\* The query of createPayroll: both ends of the period are included.
Collected(t) == {s \in Sheets : /\ sheet[s].approved
                                /\ t.start <= sheet[s].week
                                /\ sheet[s].week <= t.end}

Exists(p) == payroll[p].status # "none"

Idle == [phase |-> "idle"]

Start(r, work) == /\ call[r] = Idle
                  /\ call' = [call EXCEPT ![r] = work]
                  /\ UNCHANGED <<sheet, payroll, items, log>>

Read(r, p, op, update) ==
    /\ Exists(p)
    /\ Start(r, [phase |-> "saving", id |-> p, op |-> op, update |-> update])

-----------------------------------------------------------------------------
(* Faulty variants; none of them takes part in Spec. *)

\* approvePayroll tests nothing.
ApproveAny(r, p) == Read(r, p, "APPROVE", [KeepAll EXCEPT !.status = "approved"])

\* processPayment takes drafts.
PayDraft(r, p) ==
    /\ payroll[p].status \in {"draft", "approved"}
    /\ Read(r, p, "PAY", [KeepAll EXCEPT !.status = "paid", !.payment = "processed"])

\* recordPaymentFailure takes drafts and paid payrolls.
FailAny(r, p, reason) == Read(r, p, "FAIL", [KeepAll EXCEPT !.payment = reason])

-----------------------------------------------------------------------------
\* createPayroll: the timesheets are read first, the payroll is inserted later.
CollectForCreate(r, t) ==
    /\ ValidPeriod(t)
    /\ Collected(t) # {}
    /\ Start(r, [phase |-> "inserting",
                 items |-> [s \in Collected(t) |-> sheet[s].hours]])

InsertCreated(r, p) ==
    /\ call[r].phase = "inserting"
    /\ ~ Exists(p)
    /\ payroll' = [payroll EXCEPT ![p] = NewDoc]
    /\ items' = [items EXCEPT ![p] = call[r].items]
    /\ log' = [log EXCEPT ![p] = <<"CREATE">>]
    /\ call' = [call EXCEPT ![r] = Idle]
    /\ UNCHANGED sheet

\* approvePayroll
ReadApprovePayroll(r, p) ==
    /\ payroll[p].status = "draft"
    /\ Read(r, p, "APPROVE", [KeepAll EXCEPT !.status = "approved"])

\* processPayment: processedAt makes every save of it write paymentDetails
ReadProcessPayment(r, p) ==
    /\ payroll[p].status = "approved"
    /\ Read(r, p, "PAY", [KeepAll EXCEPT !.status = "paid", !.payment = "processed"])

\* recordPaymentFailure: the status stays; paymentDetails is sent unless it is
\* what the copy had
ReadRecordPaymentFailure(r, p, reason) ==
    /\ payroll[p].status = "approved"
    /\ Read(r, p, "FAIL", IF payroll[p].payment = reason THEN KeepAll
                          ELSE [KeepAll EXCEPT !.payment = reason])

\* updateTaxCode: a code is written only where there was none; the breakdown
\* that it recomputes does not depend on the code
ReadUpdateTaxCode(r, p, code) ==
    /\ payroll[p].status = "draft"
    /\ Read(r, p, "TAX", IF payroll[p].taxCode = NoTaxCode
                          THEN [KeepAll EXCEPT !.taxCode = code] ELSE KeepAll)

Put(stored, sent) == IF sent = "keep" THEN stored ELSE sent

Apply(d, u) == [status  |-> Put(d.status, u.status),
                payment |-> Put(d.payment, u.payment),
                taxCode |-> Put(d.taxCode, u.taxCode)]

\* payroll.save(): no condition on what is stored by now. The notification that
\* follows is a log line.
Save(r) ==
    /\ call[r].phase = "saving"
    /\ Len(log[call[r].id]) < MaxSaves
    /\ payroll' = [payroll EXCEPT ![call[r].id] = Apply(@, call[r].update)]
    /\ log' = [log EXCEPT ![call[r].id] = Append(@, call[r].op)]
    /\ call' = [call EXCEPT ![r] = Idle]
    /\ UNCHANGED <<sheet, items>>

\* The process crashed or the database refused the write.
Abort(r) ==
    /\ call[r] # Idle
    /\ call' = [call EXCEPT ![r] = Idle]
    /\ UNCHANGED <<sheet, payroll, items, log>>

\* Some request to timesheet.service.ts changed a timesheet.
SheetChanges(s) ==
    /\ \E x \in SheetRecord : sheet' = [sheet EXCEPT ![s] = x]
    /\ UNCHANGED <<payroll, items, log, call>>

-----------------------------------------------------------------------------
PayrollInit ==
    /\ payroll = [p \in Payrolls |-> NoDoc]
    /\ items = [p \in Payrolls |-> [s \in {} |-> 0]]
    /\ log = [p \in Payrolls |-> <<>>]
    /\ call = [r \in Requests |-> Idle]

Init == /\ sheet \in [Sheets -> SheetRecord]
        /\ PayrollInit

ReadStep(r, p) == \/ ReadApprovePayroll(r, p)
                  \/ ReadProcessPayment(r, p)
                  \/ \E reason \in Reasons : ReadRecordPaymentFailure(r, p, reason)
                  \/ \E code \in TaxCodes : ReadUpdateTaxCode(r, p, code)

PayrollNext == \E r \in Requests : \/ \E t \in Periods : CollectForCreate(r, t)
                                   \/ \E p \in Payrolls : InsertCreated(r, p) \/ ReadStep(r, p)
                                   \/ Save(r)
                                   \/ Abort(r)

Next == PayrollNext \/ \E s \in Sheets : SheetChanges(s)

Spec == Init /\ [][Next]_vars

-----------------------------------------------------------------------------
RequestRecord ==
         [phase : {"idle"}]
    \cup [phase : {"inserting"}, items : Items]
    \cup [phase : {"saving"}, id : Payrolls, op : Operations,
          update : Update]

\* Every variable has its type.
TypeOK == /\ sheet \in [Sheets -> SheetRecord]
          /\ payroll \in [Payrolls -> Doc]
          /\ items \in [Payrolls -> Items]
          /\ log \in [Payrolls -> Seq(Operations)]
          /\ call \in [Requests -> RequestRecord]

\* The places of an operation in the history of a payroll.
At(p, op) == {i \in DOMAIN log[p] : log[p][i] = op}

(* Properties that hold however requests overlap. *)

\* The service implements the lifecycle in which an operation's source status
\* is one the payroll has had.
StatusesSeen(p) ==      {"draft" : i \in At(p, "CREATE")}
                   \cup {"approved" : i \in At(p, "APPROVE")}
                   \cup {"paid" : i \in At(p, "PAY")}

Moves == {[from |-> "draft", to |-> "approved"], [from |-> "approved", to |-> "paid"]}

Lifecycle == INSTANCE Lifecycle
             WITH Docs <- Payrolls, First <- {"draft"},
                  status <- [p \in Payrolls |-> payroll[p].status],
                  seen <- [p \in Payrolls |-> StatusesSeen(p)]

ImplementsLifecycle == Lifecycle!Spec

\* No payment is made or fails before an approval of the payroll, by order of
\* saves, and as long as no save touched it the payment is pending.
PaymentAfterApproval ==
    \A p \in Payrolls :
        /\ \A k \in At(p, "PAY") \cup At(p, "FAIL") : \E j \in At(p, "APPROVE") : j < k
        /\ At(p, "PAY") \cup At(p, "FAIL") = {} => payroll[p].payment = "pending"

(* Properties that hold only while requests do not overlap. *)

\* The service implements the lifecycle in which every operation finds the
\* payroll in its source status.
ImplementsStrictLifecycle == Lifecycle!StrictSpec

\* "Only approved payrolls can be processed for payment": once paid, a payroll
\* is not paid again.
PaidOnce == \A p \in Payrolls : Cardinality(At(p, "PAY")) <= 1
=============================================================================
