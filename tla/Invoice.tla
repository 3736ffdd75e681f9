-------------------------------- MODULE Invoice --------------------------------
(***************************************************************************)
(* models/Invoice.ts, and processPayment of services/billing.service.ts.   *)
(* The hook of every save calculates amounts and status from the payments  *)
(* of the copy; processPayment charges a provider, records the payment in  *)
(* a collection of its own and writes the status into the invoice, without *)
(* a payment in it.                                                        *)
(*                                                                         *)
(* The items and the discount have no methods: the total is fixed.         *)
(*                                                                         *)
(* world.late: the due date is past; paying: what processPayment has done; *)
(* confirmed: a provider confirmed a charge; added: amounts that were      *)
(* added as payments.                                                      *)
(***************************************************************************)
EXTENDS MongooseDocument, Sums

CONSTANTS Total,      \* the total of the invoice, positive
          Amounts     \* the amounts that are paid, positive

Statuses == {"draft", "pending", "partially_paid", "paid", "overdue"}

Arrays == {"payments"}

Invoice == [status : Statuses, payments : Seq(Amounts), amountPaid : Nat,
            amountDue : Int, version : Nat]

SumOf(amounts) == SumTo(amounts, Len(amounts))

-----------------------------------------------------------------------------
(* Faulty variants; none of them takes part in Spec. *)

\* The hook adds the payments to what was paid before.
CalculatedAgain(d) ==
    LET paid == d.amountPaid + SumOf(d.payments)
    IN  [d EXCEPT !.amountPaid = paid, !.amountDue = Total - paid,
                  !.status = IF paid >= Total THEN "paid" ELSE @]

\* The status is not calculated in the case in which something was paid.
StatusOfWithoutPart(status, paid) ==
    CASE paid > 0 -> "paid"
      [] paid = 0 -> status

-----------------------------------------------------------------------------
\* The end of the hook: the status that goes with what was paid.
StatusOf(status, paid) ==
    CASE paid >= Total -> "paid"
      [] paid \in 1..Total - 1 -> "partially_paid"
      [] paid = 0 /\ status = "draft" -> "draft"
      [] paid = 0 /\ status # "draft" -> IF world.late THEN "overdue" ELSE "pending"

\* The hook of the save.
Calculated(d) ==
    LET paid == SumOf(d.payments)
    IN  [d EXCEPT !.amountPaid = paid, !.amountDue = Total - paid,
                  !.status = StatusOf(@, paid)]

AddPayment(r, a) ==
    Change(r, "addPayment", Calculated([stored EXCEPT !.payments = Append(@, a)]), {})

\* generatePdf and sendEmail set marks in metadata.
GeneratePdf(r) == Change(r, "mark", Calculated(stored), {})

\* The recipients and the reminders are assigned as a whole.
SendEmail(r) == Change(r, "mark", Calculated(stored), {"emailSentTo"})

ScheduleReminders(r) == Change(r, "mark", Calculated(stored), {"reminders"})

Save(r) ==
    /\ copy[r] # Nothing
    /\ SaveCopy(r, Arrays, IF copy[r].op = "addPayment"
                           THEN [world EXCEPT !.added = @ + SumOf(Pushed(copy[r], "payments"))]
                           ELSE world)

-----------------------------------------------------------------------------
\* processPayment: the provider answers; only a card is charged at once ...
Charge == /\ world.paying = "no"
          /\ WorldChanges([world EXCEPT !.paying = "charged", !.confirmed = TRUE])

\* ... the payment is recorded ...
RecordPayment == /\ world.paying = "charged"
                 /\ WorldChanges([world EXCEPT !.paying = "recorded"])

\* ... and the invoice is marked, by updateInvoiceStatus.
MarkPaid == /\ world.paying = "recorded"
            /\ UpdateStored([stored EXCEPT !.status = "paid"], [world EXCEPT !.paying = "no"])

\* A crash between the three.
PaymentBreaks == /\ world.paying # "no"
                 /\ WorldChanges([world EXCEPT !.paying = "no"])

DueDatePasses == WorldChanges([world EXCEPT !.late = TRUE])

-----------------------------------------------------------------------------
Init == /\ \E status \in {"draft", "pending"} :
               stored = [status |-> status, payments |-> <<>>, amountPaid |-> 0,
                         amountDue |-> Total, version |-> 0]
        /\ copy = NoCopies
        /\ world = [late |-> FALSE, paying |-> "no", confirmed |-> FALSE, added |-> 0]
        /\ saves = 0

Next == \/ \E r \in Requests :
               \/ \E a \in Amounts : AddPayment(r, a)
               \/ GeneratePdf(r)
               \/ SendEmail(r)
               \/ ScheduleReminders(r)
               \/ Save(r)
               \/ AbortCopy(r)
        \/ Charge
        \/ RecordPayment
        \/ MarkPaid
        \/ PaymentBreaks
        \/ DueDatePasses

Spec == Init /\ [][Next]_document

-----------------------------------------------------------------------------
\* Every variable has its type.
TypeOK == /\ stored \in Invoice
          /\ CopiesTyped(Invoice)
          /\ world \in [late : BOOLEAN, paying : {"no", "charged", "recorded"},
                        confirmed : BOOLEAN, added : Nat]
          /\ saves \in 0..MaxSaves

\* No payment is lost, however many are added at once.
PaymentsKept == SumOf(stored.payments) = world.added

\* The two amounts of the hook belong to one calculation, although they are sent
\* as two paths; and no more counts as paid than the payments make. (It may be
\* less: a copy does not know the payments that were added after its read.)
AmountsAgree == /\ stored.amountDue = Total - stored.amountPaid
                /\ stored.amountPaid <= SumOf(stored.payments)

\* An invoice counts as paid only if its payments cover it or a provider
\* confirmed a charge. (The status may lag behind the amounts: a save sends it
\* only if it differs from the copy's.)
PaidForAReason ==
    stored.status = "paid" => SumOf(stored.payments) >= Total \/ world.confirmed
=============================================================================
