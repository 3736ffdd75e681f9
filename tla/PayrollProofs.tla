---------------------------- MODULE PayrollProofs ----------------------------
(***************************************************************************)
(* What overlapping requests to payroll.service cannot break, for any      *)
(* number of payrolls, timesheets and requests: no payment comes before an *)
(* approval, and the statuses follow the lifecycle in which an operation's *)
(* source status is one that the payroll has had.                          *)
(*                                                                         *)
(* Both rest on what a waiting save may count on: the guard it passed was  *)
(* true of a stored payroll, and the history of a payroll only grows.      *)
(***************************************************************************)
EXTENDS Payroll, SequenceTheorems, FiniteSetTheorems, TLAPS

\* The status that each operation writes.
Writes(op) == IF op = "APPROVE" THEN "approved" ELSE IF op = "PAY" THEN "paid" ELSE "keep"

\* What the stored status says of the history of a payroll.
StatusHasReason(p) ==
    /\ payroll[p].status = "none" => log[p] = <<>>
    /\ payroll[p].status # "none" => At(p, "CREATE") # {}
    /\ payroll[p].status \in {"approved", "paid"} => At(p, "APPROVE") # {}

\* What a save that waits may count on.
SaveHasReason(c) ==
    c.phase = "saving" =>
        /\ payroll[c.id].status # "none"
        /\ c.op \in {"APPROVE", "PAY", "FAIL", "TAX"}
        /\ c.update.status = Writes(c.op)
        /\ c.op \in {"PAY", "FAIL"} => At(c.id, "APPROVE") # {}
        /\ c.op \notin {"PAY", "FAIL"} => c.update.payment = "keep"

PayrollInv == /\ TypeOK
              /\ \A p \in Payrolls : StatusHasReason(p)
              /\ \A r \in Requests : SaveHasReason(call[r])
              /\ PaymentAfterApproval

-----------------------------------------------------------------------------
\* A save adds its operation to the history and leaves the rest of it.
LEMMA AtAppend ==
    ASSUME TypeOK, NEW p \in Payrolls, NEW o \in Operations, log'[p] = Append(log[p], o),
           NEW op
    PROVE  At(p, op)' = At(p, op) \cup (IF op = o THEN {Len(log[p]) + 1} ELSE {})
<1>1. log[p] \in Seq(Operations)
  BY DEF TypeOK
<1>2. /\ DOMAIN log[p] = 1 .. Len(log[p]) /\ Len(log[p]) \in Nat
      /\ DOMAIN log'[p] = 1 .. Len(log[p]) + 1
      /\ \A i \in 1 .. Len(log[p]) : log'[p][i] = log[p][i]
      /\ log'[p][Len(log[p]) + 1] = o
  BY <1>1
<1>3. 1 .. Len(log[p]) + 1 = (1 .. Len(log[p])) \cup {Len(log[p]) + 1}
  BY <1>2
<1> QED BY <1>2, <1>3 DEF At

\* Places are numbers not beyond the length.
LEMMA AtRange ==
    ASSUME TypeOK, NEW p \in Payrolls, NEW op
    PROVE  At(p, op) \subseteq 1 .. Len(log[p]) /\ Len(log[p]) \in Nat
<1>1. log[p] \in Seq(Operations)
  BY DEF TypeOK
<1> QED BY <1>1 DEF At

\* The sorts of request records are told apart by their phase.
LEMMA CallSorts ==
    ASSUME TypeOK, NEW r \in Requests
    PROVE  /\ call[r].phase = "idle" => call[r] = Idle
           /\ call[r].phase = "inserting" => call[r].items \in Items
           /\ call[r].phase = "saving" => /\ call[r].id \in Payrolls
                                          /\ call[r].op \in Operations
                                          /\ call[r].update \in Update
<1>1. call[r] \in RequestRecord
  BY DEF TypeOK
<1> QED BY <1>1 DEF RequestRecord, Idle

-----------------------------------------------------------------------------
\* Nothing is stored and nothing is called.
LEMMA InitInv == Init => PayrollInv
<1> SUFFICES ASSUME Init PROVE PayrollInv
  OBVIOUS
<1> USE DEF Init, PayrollInit
<1>1. TypeOK
  <2>1. payroll \in [Payrolls -> Doc]
    BY DEF NoDoc, Doc, Payments
  <2>2. items \in [Payrolls -> Items]
    <3>1. [s \in {} |-> 0] \in [{} -> HourTotals]
      OBVIOUS
    <3>2. [s \in {} |-> 0] \in Items
      BY <3>1 DEF Items
    <3> QED BY <3>2
  <2>3. log \in [Payrolls -> Seq(Operations)]
    OBVIOUS
  <2>4. call \in [Requests -> RequestRecord]
    BY DEF Idle, RequestRecord
  <2> QED BY <2>1, <2>2, <2>3, <2>4 DEF TypeOK
<1>2. \A p \in Payrolls : \A op : At(p, op) = {}
  BY DEF At
<1>3. \A p \in Payrolls : StatusHasReason(p)
  BY DEF StatusHasReason, NoDoc
<1>4. \A r \in Requests : SaveHasReason(call[r])
  BY DEF SaveHasReason, Idle
<1>5. PaymentAfterApproval
  BY <1>2 DEF PaymentAfterApproval, NoDoc
<1> QED BY <1>1, <1>3, <1>4, <1>5 DEF PayrollInv

\* A step that leaves the stored payrolls and their histories, and gives a
\* request a record that has its reasons, preserves the invariant.
LEMMA CallStep ==
    ASSUME PayrollInv, NEW r \in Requests, NEW c \in RequestRecord, SaveHasReason(c),
           call' = [call EXCEPT ![r] = c], UNCHANGED <<sheet, payroll, items, log>>
    PROVE  PayrollInv'
<1>1. TypeOK'
  BY DEF PayrollInv, TypeOK
<1>2. (\A p \in Payrolls : StatusHasReason(p))'
  BY DEF PayrollInv, StatusHasReason, At
<1>3. (\A q \in Requests : SaveHasReason(call[q]))'
  <2> SUFFICES ASSUME NEW q \in Requests PROVE SaveHasReason(call[q])'
    OBVIOUS
  <2>1. call'[q] = IF q = r THEN c ELSE call[q]
    BY DEF PayrollInv, TypeOK
  <2>2. SaveHasReason(call[q])
    BY DEF PayrollInv
  <2> QED BY <2>1, <2>2 DEF SaveHasReason, At
<1>4. PaymentAfterApproval'
  BY DEF PayrollInv, PaymentAfterApproval, At
<1> QED BY <1>1, <1>2, <1>3, <1>4 DEF PayrollInv

-----------------------------------------------------------------------------
\* The reads pass a guard on the stored payroll and hand a save its update.
LEMMA ReadInv ==
    ASSUME PayrollInv, NEW r \in Requests, NEW p \in Payrolls, NEW op, NEW update \in Update,
           Read(r, p, op, update),
           op \in {"APPROVE", "PAY", "FAIL", "TAX"},
           update.status = Writes(op),
           op \in {"PAY", "FAIL"} => payroll[p].status = "approved",
           op \notin {"PAY", "FAIL"} => update.payment = "keep"
    PROVE  PayrollInv'
<1> DEFINE c == [phase |-> "saving", id |-> p, op |-> op, update |-> update]
<1>1. c \in RequestRecord
  BY DEF RequestRecord, Operations
<1>2. SaveHasReason(c)
  BY DEF SaveHasReason, Read, Exists, PayrollInv, StatusHasReason
<1>3. call' = [call EXCEPT ![r] = c] /\ UNCHANGED <<sheet, payroll, items, log>>
  BY DEF Read, Start
<1> HIDE DEF c
<1> QED BY <1>1, <1>2, <1>3, CallStep

LEMMA ReadStepInv ==
    ASSUME PayrollInv, NEW r \in Requests, NEW p \in Payrolls, ReadStep(r, p)
    PROVE  PayrollInv'
<1>0. /\ KeepAll \in Update
      /\ \A st \in Statuses : [KeepAll EXCEPT !.status = st] \in Update
      /\ [KeepAll EXCEPT !.status = "paid", !.payment = "processed"] \in Update
      /\ \A reason \in Reasons : [KeepAll EXCEPT !.payment = reason] \in Update
      /\ \A code \in TaxCodes : [KeepAll EXCEPT !.taxCode = code] \in Update
  BY DEF KeepAll, Update, Statuses, Payments
<1>1. CASE ReadApprovePayroll(r, p)
  <2> DEFINE u == [KeepAll EXCEPT !.status = "approved"]
  <2>1. u \in Update
    BY <1>0 DEF Statuses
  <2>2. u.status = Writes("APPROVE") /\ u.payment = "keep"
    BY DEF KeepAll, Writes
  <2>3. Read(r, p, "APPROVE", u)
    BY <1>1 DEF ReadApprovePayroll
  <2> HIDE DEF u
  <2> QED BY <2>1, <2>2, <2>3, ReadInv
<1>2. CASE ReadProcessPayment(r, p)
  <2> DEFINE u == [KeepAll EXCEPT !.status = "paid", !.payment = "processed"]
  <2>1. u \in Update
    BY <1>0
  <2>2. u.status = Writes("PAY")
    BY DEF KeepAll, Writes
  <2>3. Read(r, p, "PAY", u) /\ payroll[p].status = "approved"
    BY <1>2 DEF ReadProcessPayment
  <2> HIDE DEF u
  <2> QED BY <2>1, <2>2, <2>3, ReadInv
<1>3. ASSUME NEW reason \in Reasons, ReadRecordPaymentFailure(r, p, reason) PROVE PayrollInv'
  <2> DEFINE u == IF payroll[p].payment = reason THEN KeepAll
                  ELSE [KeepAll EXCEPT !.payment = reason]
  <2>1. u \in Update
    BY <1>0
  <2>2. u.status = Writes("FAIL")
    BY DEF KeepAll, Writes
  <2>3. Read(r, p, "FAIL", u) /\ payroll[p].status = "approved"
    BY <1>3 DEF ReadRecordPaymentFailure
  <2> HIDE DEF u
  <2> QED BY <2>1, <2>2, <2>3, ReadInv
<1>4. ASSUME NEW code \in TaxCodes, ReadUpdateTaxCode(r, p, code) PROVE PayrollInv'
  <2> DEFINE u == IF payroll[p].taxCode = NoTaxCode
                  THEN [KeepAll EXCEPT !.taxCode = code] ELSE KeepAll
  <2>1. u \in Update
    BY <1>0
  <2>2. u.status = Writes("TAX") /\ u.payment = "keep"
    BY DEF KeepAll, Writes
  <2>3. Read(r, p, "TAX", u)
    BY <1>4 DEF ReadUpdateTaxCode
  <2> HIDE DEF u
  <2> QED BY <2>1, <2>2, <2>3, ReadInv
<1> QED BY <1>1, <1>2, <1>3, <1>4 DEF ReadStep

\* The timesheets that were collected are kept with the hours they had.
LEMMA CollectInv ==
    ASSUME PayrollInv, NEW r \in Requests, NEW t \in Periods, CollectForCreate(r, t)
    PROVE  PayrollInv'
<1> DEFINE hours == [s \in Collected(t) |-> sheet[s].hours]
           c == [phase |-> "inserting", items |-> hours]
<1>1. hours \in Items
  <2>1. \A s \in Sheets : sheet[s].hours \in HourTotals
    BY DEF PayrollInv, TypeOK, SheetRecord
  <2>2. Collected(t) \in SUBSET Sheets
    BY DEF Collected
  <2>3. hours \in [Collected(t) -> HourTotals]
    BY <2>1, <2>2
  <2> HIDE DEF hours
  <2> QED BY <2>2, <2>3 DEF Items
<1>2. call' = [call EXCEPT ![r] = c] /\ UNCHANGED <<sheet, payroll, items, log>>
  BY DEF CollectForCreate, Start
<1> HIDE DEF hours
<1>3. c \in RequestRecord /\ SaveHasReason(c)
  BY <1>1 DEF RequestRecord, SaveHasReason
<1> HIDE DEF c
<1> QED BY <1>2, <1>3, CallStep

\* A request that ends without a write leaves everything as it is.
LEMMA AbortInv == ASSUME PayrollInv, NEW r \in Requests, Abort(r) PROVE PayrollInv'
<1>1. Idle \in RequestRecord /\ SaveHasReason(Idle)
  BY DEF Idle, RequestRecord, SaveHasReason
<1> QED BY <1>1, CallStep DEF Abort

\* A new payroll is a draft with a history of its own; no save waits for it.
LEMMA InsertInv ==
    ASSUME PayrollInv, NEW r \in Requests, NEW p \in Payrolls, InsertCreated(r, p)
    PROVE  PayrollInv'
<1> USE DEF InsertCreated, Exists
<1>0. /\ TypeOK /\ call[r].items \in Items
      /\ payroll' = [payroll EXCEPT ![p] = NewDoc]
      /\ log' = [log EXCEPT ![p] = <<"CREATE">>]
  BY CallSorts DEF PayrollInv
<1>1. /\ payroll'[p] = NewDoc /\ log'[p] = <<"CREATE">>
      /\ \A q \in Payrolls \ {p} : payroll'[q] = payroll[q] /\ log'[q] = log[q]
  BY <1>0 DEF TypeOK
<1>2. TypeOK'
  <2>1. NewDoc \in Doc
    BY DEF NewDoc, NoDoc, Doc, Statuses, Payments
  <2>2. <<"CREATE">> \in Seq(Operations)
    BY DEF Operations
  <2>3. Idle \in RequestRecord
    BY DEF Idle, RequestRecord
  <2> QED BY <1>0, <2>1, <2>2, <2>3 DEF TypeOK
<1>3. At(p, "CREATE")' # {} /\ \A op \in {"APPROVE", "PAY", "FAIL"} : At(p, op)' = {}
  BY <1>1 DEF At
<1>4. \A q \in Payrolls \ {p} : \A op : At(q, op)' = At(q, op)
  BY <1>1 DEF At
<1>5. (\A q \in Payrolls : StatusHasReason(q))'
  <2> SUFFICES ASSUME NEW q \in Payrolls PROVE StatusHasReason(q)'
    OBVIOUS
  <2>1. CASE q = p
    BY <1>1, <1>3, <2>1 DEF StatusHasReason, NewDoc, NoDoc
  <2>2. CASE q # p
    BY <1>1, <1>4, <2>2 DEF PayrollInv, StatusHasReason
  <2> QED BY <2>1, <2>2
<1>6. (\A q \in Requests : SaveHasReason(call[q]))'
  <2> SUFFICES ASSUME NEW q \in Requests, call'[q].phase = "saving"
               PROVE  SaveHasReason(call[q])'
    BY DEF SaveHasReason
  <2>1. call'[q] = call[q]
    BY <1>0 DEF TypeOK, Idle
  <2>2. SaveHasReason(call[q]) /\ call[q].id \in Payrolls
    BY <1>0, <2>1, CallSorts DEF PayrollInv
  <2>3. call[q].id # p
    BY <2>1, <2>2 DEF SaveHasReason
  <2> QED BY <1>1, <1>4, <2>1, <2>2, <2>3 DEF SaveHasReason
<1>7. PaymentAfterApproval'
  <2> SUFFICES ASSUME NEW q \in Payrolls
               PROVE  /\ \A k \in At(q, "PAY")' \cup At(q, "FAIL")' :
                            \E j \in At(q, "APPROVE")' : j < k
                      /\ At(q, "PAY")' \cup At(q, "FAIL")' = {} =>
                            payroll'[q].payment = "pending"
    BY DEF PaymentAfterApproval
  <2>1. CASE q = p
    BY <1>1, <1>3, <2>1 DEF NewDoc, NoDoc
  <2>2. CASE q # p
    BY <1>1, <1>4, <2>2 DEF PayrollInv, PaymentAfterApproval
  <2> QED BY <2>1, <2>2
<1> QED BY <1>2, <1>5, <1>6, <1>7 DEF PayrollInv

\* A save writes what its operation writes, and is entered in the history.
LEMMA SaveEffect ==
    ASSUME PayrollInv, NEW r \in Requests, Save(r)
    PROVE  \E p \in Payrolls, o \in {"APPROVE", "PAY", "FAIL", "TAX"}, u \in Update :
              /\ p = call[r].id /\ o = call[r].op
              /\ payroll[p].status # "none"
              /\ u.status = Writes(o)
              /\ o \in {"PAY", "FAIL"} => At(p, "APPROVE") # {}
              /\ o \notin {"PAY", "FAIL"} => u.payment = "keep"
              /\ payroll' = [payroll EXCEPT ![p] = Apply(@, u)]
              /\ log' = [log EXCEPT ![p] = Append(@, o)]
              /\ call' = [call EXCEPT ![r] = Idle]
              /\ UNCHANGED <<sheet, items>>
<1>1. TypeOK /\ SaveHasReason(call[r]) /\ call[r].phase = "saving"
  BY DEF PayrollInv, Save
<1>2. call[r].id \in Payrolls /\ call[r].update \in Update
  BY <1>1, CallSorts
<1> QED BY <1>1, <1>2 DEF SaveHasReason, Save

LEMMA SaveInv == ASSUME PayrollInv, NEW r \in Requests, Save(r) PROVE PayrollInv'
<1>1. PICK p \in Payrolls, o \in {"APPROVE", "PAY", "FAIL", "TAX"}, u \in Update :
              /\ payroll[p].status # "none"
              /\ u.status = Writes(o)
              /\ o \in {"PAY", "FAIL"} => At(p, "APPROVE") # {}
              /\ o \notin {"PAY", "FAIL"} => u.payment = "keep"
              /\ payroll' = [payroll EXCEPT ![p] = Apply(@, u)]
              /\ log' = [log EXCEPT ![p] = Append(@, o)]
              /\ call' = [call EXCEPT ![r] = Idle]
              /\ UNCHANGED <<sheet, items>>
  BY SaveEffect
<1>2. TypeOK /\ payroll[p] \in Doc /\ log[p] \in Seq(Operations) /\ o \in Operations
  BY DEF PayrollInv, TypeOK, Operations
<1>3. /\ payroll'[p] = Apply(payroll[p], u) /\ log'[p] = Append(log[p], o)
      /\ \A q \in Payrolls \ {p} : payroll'[q] = payroll[q] /\ log'[q] = log[q]
  BY <1>1, <1>2 DEF TypeOK
<1>4. \A op : At(p, op)' = At(p, op) \cup (IF op = o THEN {Len(log[p]) + 1} ELSE {})
  BY <1>2, <1>3, AtAppend
<1>5. \A q \in Payrolls \ {p} : \A op : At(q, op)' = At(q, op)
  BY <1>3 DEF At
<1>6. /\ payroll'[p].status = (IF Writes(o) = "keep" THEN payroll[p].status ELSE Writes(o))
      /\ u.payment = "keep" => payroll'[p].payment = payroll[p].payment
  BY <1>1, <1>3 DEF Apply, Put
<1>7. TypeOK'
  <2>1. Apply(payroll[p], u) \in Doc
    BY <1>2 DEF Apply, Put, Doc, Update
  <2>2. Append(log[p], o) \in Seq(Operations)
    BY <1>2
  <2>3. Idle \in RequestRecord
    BY DEF Idle, RequestRecord
  <2> QED BY <1>1, <1>2, <2>1, <2>2, <2>3 DEF TypeOK
<1>8. (\A q \in Payrolls : StatusHasReason(q))'
  <2> SUFFICES ASSUME NEW q \in Payrolls PROVE StatusHasReason(q)'
    OBVIOUS
  <2>1. StatusHasReason(q)
    BY DEF PayrollInv
  <2>2. CASE q = p
    <3>1. payroll'[p].status # "none"
      BY <1>1, <1>6 DEF Writes
    <3>2. At(p, "CREATE")' # {}
      BY <1>1, <1>4, <2>1, <2>2 DEF StatusHasReason
    <3>3. payroll'[p].status \in {"approved", "paid"} => At(p, "APPROVE")' # {}
      BY <1>1, <1>4, <1>6, <2>1, <2>2 DEF StatusHasReason, Writes
    <3> QED BY <2>2, <3>1, <3>2, <3>3 DEF StatusHasReason
  <2>3. CASE q # p
    BY <1>3, <1>5, <2>1, <2>3 DEF StatusHasReason
  <2> QED BY <2>2, <2>3
<1>9. (\A q \in Requests : SaveHasReason(call[q]))'
  <2> SUFFICES ASSUME NEW q \in Requests, call'[q].phase = "saving"
               PROVE  SaveHasReason(call[q])'
    BY DEF SaveHasReason
  <2>1. call'[q] = call[q]
    BY <1>1, <1>2 DEF TypeOK, Idle
  <2>2. SaveHasReason(call[q]) /\ call[q].id \in Payrolls
    BY <1>2, <2>1, CallSorts DEF PayrollInv
  <2>3. PICK d \in Payrolls : d = call[q].id /\ d = call'[q].id
    BY <2>1, <2>2
  <2>4. /\ payroll[d].status # "none" => payroll'[d].status # "none"
        /\ At(d, "APPROVE") # {} => At(d, "APPROVE")' # {}
    <3>1. CASE d = p
      <4>1. At(d, "APPROVE")' = At(d, "APPROVE")
                                  \cup (IF "APPROVE" = o THEN {Len(log[p]) + 1} ELSE {})
        <5>1. log'[d] = Append(log[d], o)
          BY <1>3, <3>1
        <5> QED BY <1>2, <3>1, <5>1, AtAppend
      <4> QED BY <1>1, <1>6, <3>1, <4>1 DEF Writes
    <3>2. CASE d # p
      BY <1>3, <1>5, <3>2
    <3> QED BY <3>1, <3>2
  <2>5. /\ At(d, "APPROVE") = At(call[q].id, "APPROVE")
        /\ At(d, "APPROVE")' = At(call[q].id, "APPROVE")'
    BY <2>3 DEF At
  <2> QED BY <2>1, <2>2, <2>3, <2>4, <2>5 DEF SaveHasReason
<1>10. PaymentAfterApproval'
  <2> SUFFICES ASSUME NEW q \in Payrolls
               PROVE  /\ \A k \in At(q, "PAY")' \cup At(q, "FAIL")' :
                            \E j \in At(q, "APPROVE")' : j < k
                      /\ At(q, "PAY")' \cup At(q, "FAIL")' = {} =>
                            payroll'[q].payment = "pending"
    BY DEF PaymentAfterApproval
  <2>1. /\ \A k \in At(q, "PAY") \cup At(q, "FAIL") : \E j \in At(q, "APPROVE") : j < k
        /\ At(q, "PAY") \cup At(q, "FAIL") = {} => payroll[q].payment = "pending"
    BY DEF PayrollInv, PaymentAfterApproval
  <2>2. CASE q = p
    <3>1. \A j \in At(p, "APPROVE") : j < Len(log[p]) + 1
      BY <1>2, AtRange
    <3>2. \A k \in At(p, "PAY")' \cup At(p, "FAIL")' : \E j \in At(p, "APPROVE") : j < k
      BY <1>1, <1>4, <2>1, <2>2, <3>1
    <3>3. ASSUME At(p, "PAY")' \cup At(p, "FAIL")' = {}
          PROVE  payroll'[p].payment = "pending"
      <4>1. o \notin {"PAY", "FAIL"} /\ At(p, "PAY") \cup At(p, "FAIL") = {}
        BY <1>4, <3>3
      <4> QED BY <1>1, <1>6, <2>1, <2>2, <4>1
    <3> QED BY <1>4, <2>2, <3>2, <3>3
  <2>3. CASE q # p
    BY <1>3, <1>5, <2>1, <2>3
  <2> QED BY <2>2, <2>3
<1> QED BY <1>7, <1>8, <1>9, <1>10 DEF PayrollInv

\* Changes of timesheets do not reach the payrolls.
LEMMA SheetInv == ASSUME PayrollInv, NEW s \in Sheets, SheetChanges(s) PROVE PayrollInv'
<1> USE DEF SheetChanges
<1>1. TypeOK'
  BY DEF PayrollInv, TypeOK
<1> QED BY <1>1 DEF PayrollInv, StatusHasReason, SaveHasReason, PaymentAfterApproval, At

-----------------------------------------------------------------------------
\* Every step preserves the invariant.
LEMMA NextInv == PayrollInv /\ [Next]_vars => PayrollInv'
<1> SUFFICES ASSUME PayrollInv, [Next]_vars PROVE PayrollInv'
  OBVIOUS
<1>1. ASSUME NEW r \in Requests, NEW t \in Periods, CollectForCreate(r, t) PROVE PayrollInv'
  BY <1>1, CollectInv
<1>2. ASSUME NEW r \in Requests, NEW p \in Payrolls, InsertCreated(r, p) PROVE PayrollInv'
  BY <1>2, InsertInv
<1>3. ASSUME NEW r \in Requests, NEW p \in Payrolls, ReadStep(r, p) PROVE PayrollInv'
  BY <1>3, ReadStepInv
<1>4. ASSUME NEW r \in Requests, Save(r) PROVE PayrollInv'
  BY <1>4, SaveInv
<1>5. ASSUME NEW r \in Requests, Abort(r) PROVE PayrollInv'
  BY <1>5, AbortInv
<1>6. ASSUME NEW s \in Sheets, SheetChanges(s) PROVE PayrollInv'
  BY <1>6, SheetInv
<1>7. CASE UNCHANGED vars
  BY <1>7 DEF vars, PayrollInv, TypeOK, StatusHasReason, SaveHasReason, PaymentAfterApproval, At
<1> QED BY <1>1, <1>2, <1>3, <1>4, <1>5, <1>6, <1>7 DEF Next, PayrollNext

\* Whatever overlaps, the invariant holds.
THEOREM PayrollInvariant == Spec => []PayrollInv
<1> QED BY InitInv, NextInv, PTL DEF Spec

\* Every variable has its type.
THEOREM TypeCorrect == Spec => []TypeOK
<1> QED BY PayrollInvariant, PTL DEF PayrollInv

\* No payment is made, or recorded as failed, before an approval was saved.
THEOREM PaymentsFollowApproval == Spec => []PaymentAfterApproval
<1> QED BY PayrollInvariant, PTL DEF PayrollInv

-----------------------------------------------------------------------------
\* A step that changes the status or the statuses seen creates a payroll, or
\* saves the status that the waiting operation writes.
LEMMA StatusChange ==
    ASSUME PayrollInv, [Next]_vars,
           ~ UNCHANGED <<[p \in Payrolls |-> payroll[p].status],
                         [p \in Payrolls |-> StatusesSeen(p)]>>
    PROVE  \E p \in Payrolls :
              \/ Lifecycle!Create(p)
              \/ \E r \in Requests : /\ call[r].phase = "saving" /\ call[r].id = p
                                     /\ Writes(call[r].op) # "keep"
                                     /\ Lifecycle!SetStatus(p, Writes(call[r].op))
<1> DEFINE Change ==
             \E p \in Payrolls :
                \/ Lifecycle!Create(p)
                \/ \E r \in Requests : /\ call[r].phase = "saving" /\ call[r].id = p
                                       /\ Writes(call[r].op) # "keep"
                                       /\ Lifecycle!SetStatus(p, Writes(call[r].op))
<1>1. CASE UNCHANGED <<payroll, log>>
  BY <1>1 DEF StatusesSeen, At
<1>2. ASSUME NEW r \in Requests, NEW p \in Payrolls, InsertCreated(r, p) PROVE Change
  <2>1. TypeOK
    BY DEF PayrollInv
  <2>2. payroll[p].status = "none" /\ log[p] = <<>>
    BY <1>2 DEF InsertCreated, Exists, PayrollInv, StatusHasReason
  <2>3. \A q \in Payrolls :
            /\ payroll'[q].status = IF q = p THEN "draft" ELSE payroll[q].status
            /\ StatusesSeen(q)' = IF q = p THEN StatusesSeen(q) \cup {"draft"} ELSE StatusesSeen(q)
    <3> SUFFICES ASSUME NEW q \in Payrolls
                 PROVE  /\ payroll'[q].status = IF q = p THEN "draft" ELSE payroll[q].status
                        /\ StatusesSeen(q)' = IF q = p THEN StatusesSeen(q) \cup {"draft"}
                                              ELSE StatusesSeen(q)
      OBVIOUS
    <3>1. /\ payroll'[q] = IF q = p THEN NewDoc ELSE payroll[q]
          /\ log'[q] = IF q = p THEN <<"CREATE">> ELSE log[q]
      BY <1>2, <2>1 DEF InsertCreated, TypeOK
    <3>2. CASE q = p
      <4>1. /\ At(q, "CREATE")' = {1} /\ At(q, "APPROVE")' = {} /\ At(q, "PAY")' = {}
            /\ At(q, "CREATE") = {} /\ At(q, "APPROVE") = {} /\ At(q, "PAY") = {}
        BY <2>2, <3>1, <3>2 DEF At
      <4> QED BY <3>1, <3>2, <4>1 DEF StatusesSeen, NewDoc, NoDoc
    <3>3. CASE q # p
      BY <3>1, <3>3 DEF StatusesSeen, At
    <3> QED BY <3>2, <3>3
  <2>4. Lifecycle!Create(p)
    BY <2>2, <2>3 DEF Lifecycle!Create, Lifecycle!SetStatus
  <2> QED BY <2>4
<1>3. ASSUME NEW r \in Requests, Save(r) PROVE Change
  <2>1. PICK p \in Payrolls, o \in {"APPROVE", "PAY", "FAIL", "TAX"}, u \in Update :
              /\ p = call[r].id /\ o = call[r].op
              /\ u.status = Writes(o)
              /\ payroll' = [payroll EXCEPT ![p] = Apply(@, u)]
              /\ log' = [log EXCEPT ![p] = Append(@, o)]
    BY <1>3, SaveEffect
  <2>2. TypeOK /\ log[p] \in Seq(Operations) /\ o \in Operations
    BY DEF PayrollInv, TypeOK, Operations
  <2>3. /\ \A q \in Payrolls : payroll'[q] = IF q = p THEN Apply(payroll[p], u) ELSE payroll[q]
        /\ \A q \in Payrolls : log'[q] = IF q = p THEN Append(log[p], o) ELSE log[q]
    BY <2>1, <2>2 DEF TypeOK
  <2>4. \A op : At(p, op)' = At(p, op) \cup (IF op = o THEN {Len(log[p]) + 1} ELSE {})
    BY <2>2, <2>3, AtAppend
  <2>5. \A q \in Payrolls \ {p} : StatusesSeen(q)' = StatusesSeen(q)
    BY <2>3 DEF StatusesSeen, At
  <2>6. payroll'[p].status = IF Writes(o) = "keep" THEN payroll[p].status ELSE Writes(o)
    BY <2>1, <2>3 DEF Apply, Put
  <2>7. StatusesSeen(p)' = StatusesSeen(p) \cup (IF Writes(o) = "keep" THEN {} ELSE {Writes(o)})
    BY <2>1, <2>4 DEF StatusesSeen, Writes
  <2>8. Writes(o) # "keep"
    BY <2>3, <2>5, <2>6, <2>7
  <2>9. Lifecycle!SetStatus(p, Writes(o))
    BY <2>3, <2>5, <2>6, <2>7, <2>8 DEF Lifecycle!SetStatus
  <2>10. /\ call[r].phase = "saving" /\ call[r].id = p /\ Writes(call[r].op) # "keep"
         /\ Lifecycle!SetStatus(p, Writes(call[r].op))
    BY <1>3, <2>1, <2>8, <2>9 DEF Save, Lifecycle!SetStatus
  <2> QED BY <2>10
<1>4. ASSUME NEW r \in Requests, NEW p \in Payrolls, ReadStep(r, p) PROVE UNCHANGED <<payroll, log>>
  BY <1>4 DEF ReadStep, ReadApprovePayroll, ReadProcessPayment, ReadRecordPaymentFailure,
              ReadUpdateTaxCode, Read, Start
<1>5. ASSUME NEW r \in Requests, NEW t \in Periods, CollectForCreate(r, t)
      PROVE  UNCHANGED <<payroll, log>>
  BY <1>5 DEF CollectForCreate, Start
<1> QED BY <1>1, <1>2, <1>3, <1>4, <1>5
        DEF Next, PayrollNext, Abort, SheetChanges, vars

\* A step of the service is a step of the lifecycle, or none.
LEMMA StepRefines ==
    PayrollInv /\ [Next]_vars => [Lifecycle!Next]_Lifecycle!vars
<1> SUFFICES ASSUME PayrollInv, [Next]_vars,
                    ~ UNCHANGED <<[p \in Payrolls |-> payroll[p].status],
                                  [p \in Payrolls |-> StatusesSeen(p)]>>
             PROVE  Lifecycle!Next
  BY DEF Lifecycle!vars
<1>1. ASSUME NEW p \in Payrolls, NEW r \in Requests, call[r].phase = "saving", call[r].id = p,
             Writes(call[r].op) # "keep", Lifecycle!SetStatus(p, Writes(call[r].op))
      PROVE  \E m \in Moves : Lifecycle!Move(p, m)
  <2>1. PICK o : o = call[r].op
    OBVIOUS
  <2>2. /\ o \in {"APPROVE", "PAY"} /\ payroll[p].status # "none"
        /\ o = "PAY" => At(p, "APPROVE") # {}
    BY <1>1, <2>1 DEF PayrollInv, SaveHasReason, Writes
  <2>3. "draft" \in StatusesSeen(p)
    BY <2>2 DEF PayrollInv, StatusHasReason, StatusesSeen
  <2>4. PICK m \in Moves : m.from \in StatusesSeen(p) /\ m.to = Writes(o)
    <3>1. CASE o = "APPROVE"
      BY <2>3, <3>1 DEF Moves, Writes
    <3>2. CASE o = "PAY"
      BY <2>2, <3>2 DEF Moves, Writes, StatusesSeen
    <3> QED BY <2>2, <3>1, <3>2
  <2> QED BY <1>1, <2>1, <2>4 DEF Lifecycle!Move, Lifecycle!SetStatus
<1> QED BY <1>1, StatusChange DEF Lifecycle!Next

\* The service implements the lifecycle of statuses: whatever overlaps, an
\* operation writes a status only after the one it asks for.
THEOREM PayrollRefinesLifecycle == Spec => ImplementsLifecycle
<1>1. Init => Lifecycle!Init
  <2> SUFFICES ASSUME Init PROVE Lifecycle!Init
    OBVIOUS
  <2>1. \A p \in Payrolls : payroll[p].status = "none" /\ StatusesSeen(p) = {}
    BY DEF Init, PayrollInit, NoDoc, StatusesSeen, At
  <2> QED BY <2>1 DEF Lifecycle!Init
<1> QED BY <1>1, PayrollInvariant, StepRefines, PTL DEF Spec, ImplementsLifecycle, Lifecycle!Spec

-----------------------------------------------------------------------------
(***************************************************************************)
(* What is true while no two requests hold unsaved copies of one payroll:  *)
(* the guard that a waiting save has passed is still true.                 *)
(***************************************************************************)
OneCopyEach ==
    \A q, r \in Requests :
        (call[q].phase = "saving" /\ call[r].phase = "saving" /\ call[q].id = call[r].id)
            => q = r

\* What an operation asks of the status.
Asked(op, status) == /\ op \in {"APPROVE", "TAX"} => status = "draft"
                     /\ op \in {"PAY", "FAIL"} => status = "approved"

\* A payroll that is not paid was never paid, and one that is was paid once.
PaidAtMostOnce(p) == /\ payroll[p].status # "paid" => At(p, "PAY") = {}
                /\ \A i, k \in At(p, "PAY") : i = k

SerialInv ==
    /\ PayrollInv
    /\ \A r \in Requests : call[r].phase = "saving" =>
           Asked(call[r].op, payroll[call[r].id].status)
    /\ \A p \in Payrolls : PaidAtMostOnce(p)

\* A read leaves a save whose guard is true.
LEMMA ReadAsked ==
    ASSUME PayrollInv, NEW r \in Requests, NEW p \in Payrolls, ReadStep(r, p)
    PROVE  /\ UNCHANGED <<payroll, log>>
           /\ Asked(call'[r].op, payroll[p].status) /\ call'[r].id = p
           /\ \A q \in Requests \ {r} : call'[q] = call[q]
<1>1. ASSUME NEW op, NEW update, Read(r, p, op, update), Asked(op, payroll[p].status)
      PROVE  /\ UNCHANGED <<payroll, log>>
             /\ Asked(call'[r].op, payroll[p].status) /\ call'[r].id = p
             /\ \A q \in Requests \ {r} : call'[q] = call[q]
  BY <1>1 DEF Read, Start, PayrollInv, TypeOK
<1>2. \E op, update : Read(r, p, op, update) /\ Asked(op, payroll[p].status)
  <2>1. /\ payroll[p].status = "draft" => Asked("APPROVE", payroll[p].status)
                                          /\ Asked("TAX", payroll[p].status)
        /\ payroll[p].status = "approved" => Asked("PAY", payroll[p].status)
                                             /\ Asked("FAIL", payroll[p].status)
    BY DEF Asked
  <2>2. CASE ReadApprovePayroll(r, p)
    BY <2>1, <2>2 DEF ReadApprovePayroll
  <2>3. CASE ReadProcessPayment(r, p)
    BY <2>1, <2>3 DEF ReadProcessPayment
  <2>4. ASSUME NEW reason \in Reasons, ReadRecordPaymentFailure(r, p, reason)
        PROVE  \E op, update : Read(r, p, op, update) /\ Asked(op, payroll[p].status)
    BY <2>1, <2>4 DEF ReadRecordPaymentFailure
  <2>5. ASSUME NEW code \in TaxCodes, ReadUpdateTaxCode(r, p, code)
        PROVE  \E op, update : Read(r, p, op, update) /\ Asked(op, payroll[p].status)
    BY <2>1, <2>5 DEF ReadUpdateTaxCode
  <2> QED BY <2>2, <2>3, <2>4, <2>5 DEF ReadStep
<1> QED BY <1>1, <1>2

\* A step that stores nothing and leaves in each slot a save that was there or
\* one whose guard is true.
LEMMA SerialUnchanged ==
    ASSUME SerialInv, PayrollInv', UNCHANGED <<payroll, log>>,
           \A r \in Requests : call'[r].phase = "saving" =>
               call'[r] = call[r] \/ Asked(call'[r].op, payroll[call'[r].id].status)
    PROVE  SerialInv'
<1>1. (\A p \in Payrolls : PaidAtMostOnce(p))'
  BY DEF SerialInv, PaidAtMostOnce, At
<1>2. (\A r \in Requests : call[r].phase = "saving" =>
            Asked(call[r].op, payroll[call[r].id].status))'
  BY DEF SerialInv
<1> QED BY <1>1, <1>2 DEF SerialInv

LEMMA SerialInsert ==
    ASSUME SerialInv, PayrollInv', NEW r \in Requests, NEW p \in Payrolls, InsertCreated(r, p)
    PROVE  SerialInv'
<1>1. PayrollInv /\ TypeOK
  BY DEF SerialInv, PayrollInv
<1>2. /\ payroll'[p] = NewDoc /\ log'[p] = <<"CREATE">> /\ payroll[p].status = "none"
      /\ \A q \in Payrolls \ {p} : payroll'[q] = payroll[q] /\ log'[q] = log[q]
      /\ \A q \in Requests : call'[q].phase = "saving" => call'[q] = call[q]
  BY <1>1 DEF InsertCreated, Exists, TypeOK, Idle
<1>3. At(p, "PAY")' = {} /\ \A q \in Payrolls \ {p} : At(q, "PAY")' = At(q, "PAY")
  BY <1>2 DEF At
<1>4. (\A q \in Payrolls : PaidAtMostOnce(q))'
  BY <1>2, <1>3 DEF SerialInv, PaidAtMostOnce
<1>5. ASSUME NEW q \in Requests, call'[q].phase = "saving"
      PROVE  Asked(call'[q].op, payroll'[call'[q].id].status)
  <2>1. call'[q] = call[q] /\ call[q].id \in Payrolls /\ call[q].id # p
    BY <1>1, <1>2, <1>5, CallSorts DEF PayrollInv, SaveHasReason
  <2> QED BY <1>2, <1>5, <2>1 DEF SerialInv
<1> QED BY <1>4, <1>5 DEF SerialInv

LEMMA SerialSave ==
    ASSUME SerialInv, OneCopyEach, PayrollInv', NEW r \in Requests, Save(r)
    PROVE  SerialInv'
<1>1. PayrollInv /\ TypeOK
  BY DEF SerialInv, PayrollInv
<1>2. PICK p \in Payrolls, o \in {"APPROVE", "PAY", "FAIL", "TAX"}, u \in Update :
              /\ p = call[r].id /\ o = call[r].op
              /\ u.status = Writes(o)
              /\ payroll' = [payroll EXCEPT ![p] = Apply(@, u)]
              /\ log' = [log EXCEPT ![p] = Append(@, o)]
              /\ call' = [call EXCEPT ![r] = Idle]
  BY <1>1, SaveEffect
<1>3. /\ payroll'[p].status = (IF Writes(o) = "keep" THEN payroll[p].status ELSE Writes(o))
      /\ log'[p] = Append(log[p], o) /\ log[p] \in Seq(Operations) /\ o \in Operations
      /\ \A q \in Payrolls \ {p} : payroll'[q] = payroll[q] /\ log'[q] = log[q]
  BY <1>1, <1>2 DEF TypeOK, Apply, Put, Operations
<1>4. /\ At(p, "PAY")' = At(p, "PAY") \cup (IF "PAY" = o THEN {Len(log[p]) + 1} ELSE {})
      /\ \A q \in Payrolls \ {p} : At(q, "PAY")' = At(q, "PAY")
  <2>1. \A q \in Payrolls \ {p} : At(q, "PAY")' = At(q, "PAY")
    BY <1>3 DEF At
  <2> QED BY <1>1, <1>3, <2>1, AtAppend
<1>5. Asked(o, payroll[p].status) /\ PaidAtMostOnce(p)
  BY <1>2 DEF SerialInv, Save
<1>6. PaidAtMostOnce(p)'
  BY <1>3, <1>4, <1>5 DEF PaidAtMostOnce, Asked, Writes
<1>7. ASSUME NEW q \in Requests, call'[q].phase = "saving"
      PROVE  Asked(call'[q].op, payroll'[call'[q].id].status)
  <2>1. call'[q] = call[q] /\ q # r /\ call[q].id \in Payrolls
    BY <1>1, <1>2, <1>7, CallSorts DEF TypeOK, Idle
  <2>2. call[q].id # p
    BY <1>2, <1>7, <2>1 DEF OneCopyEach, Save
  <2> QED BY <1>3, <1>7, <2>1, <2>2 DEF SerialInv
<1> QED BY <1>3, <1>4, <1>6, <1>7 DEF SerialInv, PaidAtMostOnce

LEMMA SerialStep == SerialInv /\ OneCopyEach /\ [Next]_vars => SerialInv'
<1> SUFFICES ASSUME SerialInv, OneCopyEach, [Next]_vars PROVE SerialInv'
  OBVIOUS
<1>1. PayrollInv /\ PayrollInv' /\ TypeOK
  BY NextInv DEF SerialInv, PayrollInv
<1>2. ASSUME NEW r \in Requests, NEW t \in Periods, CollectForCreate(r, t) PROVE SerialInv'
  <2>1. UNCHANGED <<payroll, log>> /\ \A q \in Requests : call'[q].phase = "saving"
                                                            => call'[q] = call[q]
    BY <1>1, <1>2 DEF CollectForCreate, Start, TypeOK
  <2> QED BY <1>1, <2>1, SerialUnchanged
<1>3. ASSUME NEW r \in Requests, NEW p \in Payrolls, InsertCreated(r, p) PROVE SerialInv'
  BY <1>1, <1>3, SerialInsert
<1>4. ASSUME NEW r \in Requests, NEW p \in Payrolls, ReadStep(r, p) PROVE SerialInv'
  <2>1. /\ UNCHANGED <<payroll, log>>
        /\ Asked(call'[r].op, payroll[p].status) /\ call'[r].id = p
        /\ \A q \in Requests \ {r} : call'[q] = call[q]
    BY <1>1, <1>4, ReadAsked
  <2> QED BY <1>1, <2>1, SerialUnchanged
<1>5. ASSUME NEW r \in Requests, Save(r) PROVE SerialInv'
  BY <1>1, <1>5, SerialSave
<1>6. ASSUME NEW r \in Requests, Abort(r) PROVE SerialInv'
  <2>1. UNCHANGED <<payroll, log>> /\ \A q \in Requests : call'[q].phase = "saving"
                                                            => call'[q] = call[q]
    BY <1>1, <1>6 DEF Abort, TypeOK, Idle
  <2> QED BY <1>1, <2>1, SerialUnchanged
<1>7. CASE UNCHANGED <<payroll, log, call>>
  BY <1>1, <1>7, SerialUnchanged
<1> QED BY <1>2, <1>3, <1>4, <1>5, <1>6, <1>7 DEF Next, PayrollNext, SheetChanges, vars

LEMMA SerialInit == Init => SerialInv
<1> SUFFICES ASSUME Init PROVE SerialInv
  OBVIOUS
<1>1. \A r \in Requests : call[r].phase # "saving"
  BY DEF Init, PayrollInit, Idle
<1>2. \A p \in Payrolls : At(p, "PAY") = {}
  BY DEF Init, PayrollInit, At
<1> QED BY <1>1, <1>2, InitInv DEF SerialInv, PaidAtMostOnce

LEMMA SerialInvariant == Spec /\ []OneCopyEach => []SerialInv
BY SerialInit, SerialStep, PTL DEF Spec

\* While no two requests hold unsaved copies of one payroll, none is paid twice.
THEOREM NoneIsPaidTwice == Spec /\ []OneCopyEach => []PaidOnce
<1>1. SerialInv => PaidOnce
  <2> SUFFICES ASSUME SerialInv, NEW p \in Payrolls PROVE Cardinality(At(p, "PAY")) <= 1
    BY DEF PaidOnce
  <2>1. CASE At(p, "PAY") = {}
    BY <2>1, FS_EmptySet
  <2>2. ASSUME NEW k \in At(p, "PAY") PROVE Cardinality(At(p, "PAY")) <= 1
    <3>1. At(p, "PAY") = {k}
      BY <2>2 DEF SerialInv, PaidAtMostOnce
    <3> QED BY <3>1, FS_Singleton
  <2> QED BY <2>1, <2>2
<1> QED BY <1>1, SerialInvariant, PTL

\* A step of the service is a step of the strict lifecycle, or none.
LEMMA StepRefinesStrictly ==
    SerialInv /\ [Next]_vars => [Lifecycle!StrictNext]_Lifecycle!vars
<1> SUFFICES ASSUME SerialInv, [Next]_vars,
                    ~ UNCHANGED <<[p \in Payrolls |-> payroll[p].status],
                                  [p \in Payrolls |-> StatusesSeen(p)]>>
             PROVE  Lifecycle!StrictNext
  BY DEF Lifecycle!vars
<1>1. PayrollInv
  BY DEF SerialInv
<1>2. ASSUME NEW p \in Payrolls, NEW r \in Requests, call[r].phase = "saving", call[r].id = p,
             Writes(call[r].op) # "keep", Lifecycle!SetStatus(p, Writes(call[r].op))
      PROVE  \E m \in Moves : Lifecycle!StrictMove(p, m)
  <2>1. PICK o : o = call[r].op
    OBVIOUS
  <2>2. o \in {"APPROVE", "PAY"} /\ payroll[p].status # "none" /\ Asked(o, payroll[p].status)
    BY <1>2, <2>1 DEF SerialInv, PayrollInv, SaveHasReason, Writes
  <2>3. payroll[p].status \in StatusesSeen(p)
    BY <2>2 DEF Asked, SerialInv, PayrollInv, StatusHasReason, StatusesSeen
  <2>4. PICK m \in Moves : m.from = payroll[p].status /\ m.to = Writes(o)
    BY <2>2 DEF Asked, Moves, Writes
  <2> QED BY <1>2, <2>1, <2>3, <2>4
          DEF Lifecycle!StrictMove, Lifecycle!Move, Lifecycle!SetStatus
<1> QED BY <1>1, <1>2, StatusChange DEF Lifecycle!StrictNext

\* Under the same condition every operation finds the payroll in the status it
\* asks for.
THEOREM PayrollRefinesStrictLifecycle == Spec /\ []OneCopyEach => ImplementsStrictLifecycle
<1>1. Init => Lifecycle!Init
  <2> SUFFICES ASSUME Init PROVE Lifecycle!Init
    OBVIOUS
  <2>1. \A p \in Payrolls : payroll[p].status = "none" /\ StatusesSeen(p) = {}
    BY DEF Init, PayrollInit, NoDoc, StatusesSeen, At
  <2> QED BY <2>1 DEF Lifecycle!Init
<1> QED BY <1>1, SerialInvariant, StepRefinesStrictly, PTL
        DEF Spec, ImplementsStrictLifecycle, Lifecycle!StrictSpec
=============================================================================
