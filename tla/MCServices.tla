------------------------------ MODULE MCServices ------------------------------
(* A small instance of Services. *)
EXTENDS Services, TLC

Alike == Permutations(Requests)

PendingOrAccepted == {"pending", "accepted"}

\* One week, from one Monday to the next, and a period that is too short.
WeekAndLess == {[start |-> 0, end |-> 7], [start |-> 0, end |-> 6]}

\* Two lists of scores, one of them without the weight.
TwoScoreLists == {<<[score |-> 5, weight |-> 0]>>,
                  <<[score |-> 4, weight |-> 2], [score |-> 1, weight |-> 1]>>}

\* Plans that differ in price or in cycle, one of them with a custom cycle.
ThreePlans == {[billingCycle |-> 1, price |-> 1], [billingCycle |-> 0, price |-> 1],
               [billingCycle |-> 1, price |-> 2]}

\* A payment that is due, and one that is paid without a date.
DueOrPaid == [status : {"PENDING", "PAID"}, dated : {FALSE}]
=============================================================================
