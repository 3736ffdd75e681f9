----------------------------- MODULE Subscription -----------------------------
(***************************************************************************)
(* models/Subscription.ts: plan, billing, end and payments of one          *)
(* subscription. Dates are months.                                         *)
(*                                                                         *)
(* world.today: the month; world.given: the payments that were saved, as   *)
(* callers gave them.                                                      *)
(***************************************************************************)
EXTENDS MongooseDocument

CONSTANTS
    Plans,      \* plans, records of a billing cycle and a price
    Given,      \* payments as callers give them
    LastMonth   \* bound: the last month

Statuses == {"ACTIVE", "INACTIVE", "PENDING", "CANCELLED", "EXPIRED", "PAST_DUE", "TRIAL",
             "TRIAL_EXPIRED"}

PaymentStatuses == {"PENDING", "PAID", "FAILED", "REFUNDED", "PARTIALLY_REFUNDED", "CANCELLED"}

Arrays == {"payments"}

NoDate == 0

\* A billing cycle is a number of months, or CUSTOM: nothing calculates a date then.
Custom == 0

NextDate(date, cycle, otherwise) == IF cycle = Custom THEN otherwise ELSE date + cycle

\* dated: there is a paymentDate.
Payment == [status : PaymentStatuses, dated : BOOLEAN]

Subscription == [plan : Plans, billingCycle : Nat, billingAmount : Nat,
                 status : Statuses, startDate : Nat, nextBillingDate : Nat, endDate : Nat,
                 autoRenew : BOOLEAN, payments : Seq(Payment), version : Nat]

\* The hook of the save: if the cycle or the start differs from the copy's.
Billed(new) ==
    IF new.billingCycle # stored.billingCycle \/ new.startDate # stored.startDate
    THEN [new EXCEPT !.nextBillingDate = NextDate(new.startDate, new.billingCycle, @)]
    ELSE new

Do(r, op, new) == Change(r, op, Billed(new), {})

-----------------------------------------------------------------------------
(* Faulty variants; none of them takes part in Spec. *)

\* changePlan takes the price only with another cycle.
ChangePlanCycle(r, p) ==
    Do(r, "changePlan",
       [stored EXCEPT !.plan = p, !.billingCycle = p.billingCycle,
                      !.billingAmount = IF p.billingCycle = @ THEN @ ELSE p.price,
                      !.nextBillingDate = NextDate(world.today, p.billingCycle, @)])

\* renew does not clear the end.
RenewToEnd(r) ==
    /\ stored.nextBillingDate # NoDate
    /\ Do(r, "renew",
          [stored EXCEPT !.startDate = stored.nextBillingDate,
                         !.nextBillingDate = NextDate(@, stored.billingCycle, @),
                         !.status = "ACTIVE"])

\* updatePaymentStatus gives no date.
PayUndated(r, i, status) ==
    Do(r, "updatePaymentStatus", [stored EXCEPT !.payments[i].status = status])

-----------------------------------------------------------------------------
\* activate, deactivate
SetStatus(r, status) == Do(r, "setStatus", [stored EXCEPT !.status = status])

Cancel(r, immediate) ==
    Do(r, "cancel",
       IF immediate
       THEN [stored EXCEPT !.status = "CANCELLED", !.endDate = world.today]
       ELSE [stored EXCEPT !.autoRenew = FALSE, !.endDate = stored.nextBillingDate])

\* Whatever the status is. The hook calculates the same date again; a custom cycle
\* leaves the next billing date where the subscription starts now.
Renew(r) ==
    /\ stored.nextBillingDate # NoDate
    /\ Do(r, "renew",
          [stored EXCEPT !.startDate = stored.nextBillingDate,
                         !.nextBillingDate = NextDate(@, stored.billingCycle, @),
                         !.endDate = NoDate, !.status = "ACTIVE"])

\* With another cycle the hook replaces the date by one that counts from the start.
ChangePlan(r, p) ==
    Do(r, "changePlan",
       [stored EXCEPT !.plan = p, !.billingCycle = p.billingCycle, !.billingAmount = p.price,
                      !.nextBillingDate = NextDate(world.today, p.billingCycle, @)])

\* The payment is as the caller gives it; without a status it is PENDING.
AddPayment(r, payment) ==
    Do(r, "addPayment", [stored EXCEPT !.payments = Append(@, payment)])

\* The payment that has the id; ids differ.
UpdatePaymentStatus(r, i, status) ==
    Do(r, "updatePaymentStatus",
       [stored EXCEPT !.payments[i].status = status,
                      !.payments[i].dated = @ \/ status = "PAID"])

Save(r) ==
    /\ copy[r] # Nothing
    /\ SaveCopy(r, Arrays,
                [world EXCEPT !.given = @ \o Pushed(copy[r], "payments")])

MonthPasses == /\ world.today < LastMonth
               /\ WorldChanges([world EXCEPT !.today = @ + 1])

-----------------------------------------------------------------------------
\* The payments a subscription is created with.
FirstPayments == {<<>>} \cup {<<payment>> : payment \in Given}

\* A new subscription, without or with days of trial; the next billing date of a
\* custom cycle is given or not.
\* No method tells PENDING from TRIAL, which a plan with trial days begins with.
Init == /\ \E p \in Plans, date \in {NoDate, 2}, list \in FirstPayments :
               /\ stored = [plan |-> p, billingCycle |-> p.billingCycle,
                            billingAmount |-> p.price, status |-> "PENDING", startDate |-> 1,
                            nextBillingDate |-> NextDate(1, p.billingCycle, date),
                            endDate |-> NoDate, autoRenew |-> TRUE, payments |-> list,
                            version |-> 0]
               /\ world = [today |-> 1, given |-> list]
        /\ copy = NoCopies
        /\ saves = 0

Next == \/ \E r \in Requests :
               \/ \E status \in {"ACTIVE", "INACTIVE"} : SetStatus(r, status)
               \/ \E immediate \in BOOLEAN : Cancel(r, immediate)
               \/ Renew(r)
               \/ \E p \in Plans : ChangePlan(r, p)
               \/ \E payment \in Given : AddPayment(r, payment)
               \/ \E i \in DOMAIN stored.payments, status \in {"PAID", "REFUNDED"} :
                      UpdatePaymentStatus(r, i, status)
               \/ Save(r)
               \/ AbortCopy(r)
        \/ MonthPasses

Spec == Init /\ [][Next]_document

-----------------------------------------------------------------------------
\* Every variable has its type.
TypeOK == /\ stored \in Subscription
          /\ CopiesTyped(Subscription)
          /\ world \in [today : 1..LastMonth, given : Seq(Payment)]
          /\ saves \in 0..MaxSaves

\* No payment is lost or moved, the date of one is never taken away, and a paid one
\* has a date unless it was added as paid without one, whatever overlaps.
PaymentsKept ==
    /\ Len(stored.payments) = Len(world.given)
    /\ \A i \in DOMAIN stored.payments :
           ~ stored.payments[i].dated =>
               /\ ~ world.given[i].dated
               /\ stored.payments[i].status = "PAID" => world.given[i].status = "PAID"

BillsThePlan == /\ stored.billingCycle = stored.plan.billingCycle
                /\ stored.billingAmount = stored.plan.price

Billing(d) == <<d.plan, d.billingCycle, d.billingAmount>>

\* Cycle and amount are those of the plan until two changes of the plan overlap:
\* a save sends of the three only those that differ from its copy, and the copy is
\* older than the change before it.
OtherBillingOnlyByOverlap ==
    BillsThePlan /\ ~ BillsThePlan' =>
       \E r \in Requests : /\ copy[r] # Nothing
                           /\ copy'[r] = Nothing
                           /\ copy[r].op = "changePlan"
                           /\ Billing(copy[r].old) # Billing(stored)

EndsBeforeStart(d) == d.endDate # NoDate /\ d.endDate < d.startDate

\* A subscription whose next billing date is after its start (a change of the plan
\* may break that) ends after it starts, until a cancellation and a renewal overlap
\* and the one ends what the other has just left behind; or it is cancelled at once
\* after it was renewed early.
EndBeforeStartOnlyByOverlap ==
    (/\ EndsBeforeStart(stored')
     /\ ~ EndsBeforeStart(stored)
     /\ stored.nextBillingDate > stored.startDate) =>
       \E r \in Requests : /\ copy[r] # Nothing
                           /\ copy'[r] = Nothing
                           /\ \/ copy[r].old # stored
                              \/ copy[r].new.status = "CANCELLED"
=============================================================================
