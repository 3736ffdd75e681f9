---------------------------- MODULE PaymentMethods ----------------------------
(***************************************************************************)
(* models/PaymentMethod.ts: the payment methods of one user, which of them *)
(* is the default, and cards that expire. A save that makes a method the   *)
(* default takes two calls of the database: the other methods lose the     *)
(* mark, then the method is stored; other requests run in between. Both    *)
(* hooks, the counter of uses left out, are part of the save.              *)
(*                                                                         *)
(* copy[r].since: the methods that were stored as defaults after request   *)
(* slot r unset the others.                                                *)
(***************************************************************************)
EXTENDS Naturals, FiniteSets

CONSTANTS
    Requests,   \* request slots
    Nothing,    \* no copy in a slot, no such payment method
    Methods,    \* the payment methods of one user
    OfCompany,  \* those that name a company (all the same one)
    Cards,      \* those that are cards
    MaxSaves    \* bound: methods that are stored

VARIABLES methods, copy, world, saves

paymentMethods == <<methods, copy, world, saves>>

Statuses == {"ACTIVE", "INACTIVE", "EXPIRED", "PENDING_VERIFICATION",
             "VERIFICATION_FAILED", "DECLINED", "DELETED"}

PaymentMethod == [status : Statuses, isDefault : BOOLEAN]

IsDefault(m) == methods[m] # Nothing /\ methods[m].isDefault

\* The query of the hook: the user's other methods; for a method of a company,
\* only those of that company.
Others(m) == (IF m \in OfCompany THEN OfCompany ELSE Methods) \ {m}

\* The hook that looks at cards.
Expired(m, d) == IF m \in Cards /\ world.monthOver THEN [d EXCEPT !.status = "EXPIRED"] ELSE d

\* Faulty variant of BecomesDefault: the hook runs for new methods only.
NewDefault(old, new) == new.isDefault /\ old = Nothing

\* isDefault, and modified or new
BecomesDefault(old, new) == new.isDefault /\ (old = Nothing \/ ~ old.isDefault)

-----------------------------------------------------------------------------
\* A method of the model on a copy, up to the first await of its save; the hooks
\* run in the order of their definition.
Start(r, m, op, new) ==
    /\ copy[r] = Nothing
    /\ copy' = [copy EXCEPT ![r] =
                   [op |-> op, id |-> m, old |-> methods[m], new |-> Expired(m, new),
                    step |-> IF BecomesDefault(methods[m], new) THEN "unset" ELSE "save",
                    since |-> {}]]
    /\ UNCHANGED <<methods, world, saves>>

Create(r, m, default) ==
    /\ methods[m] = Nothing
    /\ \A q \in Requests : copy[q] # Nothing => copy[q].id # m
    /\ Start(r, m, "create", [status |-> "PENDING_VERIFICATION", isDefault |-> default])

Change(r, m, op, new) == methods[m] # Nothing /\ Start(r, m, op, new)

SetAsDefault(r, m) == Change(r, m, "setAsDefault", [methods[m] EXCEPT !.isDefault = TRUE])

Deactivate(r, m) == Change(r, m, "deactivate", [methods[m] EXCEPT !.status = "INACTIVE"])

MarkAsVerified(r, m) == Change(r, m, "markAsVerified", [methods[m] EXCEPT !.status = "ACTIVE"])

UpdateStatus(r, m, status) ==
    Change(r, m, "updateStatus", [methods[m] EXCEPT !.status = status])

\* The soft delete. For a card that is over, the hook replaces DELETED by EXPIRED.
Delete(r, m) ==
    Change(r, m, "delete", [status |-> "DELETED", isDefault |-> FALSE])

\* updateMany of the hook
UnsetOthers(r) ==
    /\ copy[r] # Nothing
    /\ copy[r].step = "unset"
    /\ methods' = [n \in Methods |->
                      IF n \in Others(copy[r].id) /\ IsDefault(n)
                      THEN [methods[n] EXCEPT !.isDefault = FALSE] ELSE methods[n]]
    /\ copy' = [copy EXCEPT ![r].step = "save", ![r].since = {}]
    /\ UNCHANGED <<world, saves>>

\* The paths that differ from the copy as it was read.
Merged(q) ==
    IF q.old = Nothing THEN q.new
    ELSE [f \in DOMAIN q.new |->
             IF q.old[f] = q.new[f] THEN methods[q.id][f] ELSE q.new[f]]

Save(r) ==
    /\ copy[r] # Nothing
    /\ copy[r].step = "save"
    /\ saves < MaxSaves
    /\ methods' = [methods EXCEPT ![copy[r].id] = Merged(copy[r])]
    /\ copy' = [q \in Requests |->
                   IF q = r THEN Nothing
                   ELSE IF copy[q] # Nothing /\ BecomesDefault(copy[r].old, copy[r].new)
                   THEN [copy[q] EXCEPT !.since = @ \cup {copy[r].id}]
                   ELSE copy[q]]
    /\ saves' = saves + 1
    /\ UNCHANGED world

\* A crash, or an error of the database, at either call of it.
Abort(r) ==
    /\ copy[r] # Nothing
    /\ copy' = [copy EXCEPT ![r] = Nothing]
    /\ UNCHANGED <<methods, world, saves>>

MonthEnds ==
    /\ ~ world.monthOver
    /\ world' = [monthOver |-> TRUE]
    /\ UNCHANGED <<methods, copy, saves>>

-----------------------------------------------------------------------------
Init == /\ methods = [m \in Methods |-> Nothing]
        /\ copy = [r \in Requests |-> Nothing]
        /\ world = [monthOver |-> FALSE]
        /\ saves = 0

Next == \/ \E r \in Requests :
               \/ \E m \in Methods :
                      \/ \E default \in BOOLEAN : Create(r, m, default)
                      \/ SetAsDefault(r, m)
                      \/ Deactivate(r, m)
                      \/ MarkAsVerified(r, m)
                      \/ UpdateStatus(r, m, "DECLINED")
                      \/ Delete(r, m)
               \/ UnsetOthers(r)
               \/ Save(r)
               \/ Abort(r)
        \/ MonthEnds

Spec == Init /\ [][Next]_paymentMethods

-----------------------------------------------------------------------------
\* Every variable has its type.
TypeOK == /\ methods \in [Methods -> PaymentMethod \cup {Nothing}]
          /\ \A r \in Requests : copy[r] # Nothing =>
                 copy[r] \in [op : STRING, id : Methods, old : PaymentMethod \cup {Nothing},
                              new : PaymentMethod, step : {"unset", "save"},
                              since : SUBSET Methods]
          /\ world.monthOver \in BOOLEAN
          /\ saves \in 0..MaxSaves

\* PaymentMethod.ts:438, "If setting as default, unset any other default payment
\* methods for this user": a method becomes a default beside another one only if that one is outside of
\* the query, or was stored after the query ran: between the two calls of one
\* save there is room for another save, but only for that.
SecondDefaultOnlyByOverlap ==
    \A m, n \in Methods :
       (m # n /\ IsDefault(n)' /\ IsDefault(m)' /\ ~ IsDefault(m))
         => \/ n \notin Others(m)
            \/ \E r \in Requests : /\ copy[r] # Nothing
                                   /\ copy[r].id = m
                                   /\ n \in copy[r].since
=============================================================================
