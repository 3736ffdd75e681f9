------------------------------ MODULE JobOffer ------------------------------
(***************************************************************************)
(* services/job-offer.service.ts over models/JobOffer.ts.                  *)
(*                                                                         *)
(* A change of status reads the offer twice: the operation reads it and    *)
(* tests the status (respondToOffer, update) or collects the offers that   *)
(* are past their expiry date (checkExpiredOffers); then                   *)
(* updateJobOfferStatus reads it again, tests nothing, and saves. Other    *)
(* requests run between the test, the second read and the save.            *)
(*                                                                         *)
(* A unique index on job and candidate stands behind the insertion.        *)
(***************************************************************************)
EXTENDS Integers, Sequences, FiniteSets

CONSTANTS
    Offers,     \* identities that new offers are given
    Pairs,      \* <<job, candidate>> pairs offers are made for
    NoPair,     \* pair of an identity that is not in use
    FirstStatuses, \* statuses recruiters create offers in
    Responses,  \* statuses candidates respond with: the DTO takes any
    Requests,   \* request slots
    MaxHistory  \* bound: entries of the history of one offer

\* JobOfferStatus
Statuses == {"pending", "accepted", "rejected", "expired", "withdrawn"}

Answers == {"accepted", "rejected"}

ASSUME OfferAssumption == /\ NoPair \notin Pairs
                          /\ FirstStatuses \subseteq Statuses
                          /\ Responses \subseteq Statuses
                          /\ MaxHistory \in Nat

VARIABLES
    offer,    \* offer[o]: the scalar paths of the stored offer
    history,  \* history[o]: the statuses in its history
    late,     \* late[o]: is it past the expiry date of o?
    req       \* req[r]: what request slot r is doing

vars == <<offer, history, late, req>>

-----------------------------------------------------------------------------
Offer == [pair : Pairs \cup {NoPair}, status : Statuses \cup {"none", "deleted"},
          responded : BOOLEAN, reason : BOOLEAN]

NoOffer == [pair |-> NoPair, status |-> "none", responded |-> FALSE, reason |-> FALSE]

\* An offer that was deleted; its identity is not given again.
Deleted == [NoOffer EXCEPT !.status = "deleted"]

Exists(o) == offer[o].status \notin {"none", "deleted"}

(***************************************************************************)
(* Requests.  "inserting": createJobOffer found no active offer;           *)
(* "checked": the test of the status is passed, updateJobOfferStatus is    *)
(* called; "saving": it has read; "giving": respondToOffer saved the       *)
(* rejection and is to save its reason; "editing": update saves other      *)
(* paths. todo: the offers checkExpiredOffers has still to visit.          *)
(***************************************************************************)
Idle == [phase |-> "idle"]

Checked(o, tested, to, reason, todo) ==
    [phase |-> "checked", offer |-> o, tested |-> tested, to |-> to, reason |-> reason,
     todo |-> todo]

Go(r, work) == req' = [req EXCEPT ![r] = work]

Stored == <<offer, history, late>>

\* The sweep takes one of its offers after the other; when none is left, or for
\* another request, the slot is free.
Continue(todo) ==
    IF todo = {} THEN Idle ELSE [phase |-> "sweeping", todo |-> todo]

-----------------------------------------------------------------------------
(* Faulty variants; none of them takes part in Spec. *)

\* No index stands behind the insertion.
InsertUnindexed(r, o) ==
    /\ req[r].phase = "inserting"
    /\ offer[o] = NoOffer
    /\ offer' = [offer EXCEPT ![o] = [NoOffer EXCEPT !.pair = req[r].pair,
                                                     !.status = req[r].status]]
    /\ history' = [history EXCEPT ![o] = <<req[r].status>>]
    /\ Go(r, Idle)
    /\ UNCHANGED late

\* respondToOffer tests nothing.
RespondToAny(r, o, to, reason) ==
    /\ req[r] = Idle
    /\ Exists(o)
    /\ Go(r, Checked(o, offer[o].status, to, reason, {}))
    /\ UNCHANGED Stored

\* update takes a status that the schema's enum does not have.
UpdateToHold(r, o, to) ==
    /\ req[r] = Idle
    /\ Exists(o)
    /\ offer[o].status \notin Answers \cup {to}
    /\ Go(r, Checked(o, offer[o].status, "hold", FALSE, {}))
    /\ UNCHANGED Stored

\* updateJobOfferStatus pushes no history entry.
SaveWithoutHistory(r) ==
    /\ req[r].phase = "saving"
    /\ LET q == req[r]
       IN  /\ Exists(q.offer)
           /\ offer' = [offer EXCEPT ![q.offer].status = IF q.to = q.copy THEN @ ELSE q.to]
           /\ Go(r, Continue(q.todo))
    /\ UNCHANGED <<history, late>>

\* updateJobOfferStatus dates acceptances only.
SaveDatingAcceptance(r) ==
    /\ req[r].phase = "saving"
    /\ LET q == req[r]
           o == q.offer
       IN  /\ Exists(o)
           /\ Len(history[o]) < MaxHistory
           /\ offer' = [offer EXCEPT ![o].status = IF q.to = q.copy THEN @ ELSE q.to,
                                     ![o].responded = @ \/ q.to = "accepted"]
           /\ history' = [history EXCEPT ![o] = Append(@, q.to)]
           /\ Go(r, IF q.reason THEN [phase |-> "giving", offer |-> o] ELSE Continue(q.todo))
    /\ UNCHANGED late

-----------------------------------------------------------------------------
\* createJobOffer: "Check if an offer already exists for this job and candidate"
FindForCreate(r, p, status) ==
    /\ req[r] = Idle
    /\ ~ \E o \in Offers : offer[o].pair = p /\ offer[o].status \in {"pending", "accepted"}
    /\ Go(r, [phase |-> "inserting", pair |-> p, status |-> status])
    /\ UNCHANGED Stored

\* The insertion: the unique index has every offer of the pair, whatever its
\* status.
InsertCreated(r, o) ==
    /\ req[r].phase = "inserting"
    /\ offer[o] = NoOffer
    /\ \A p \in Offers : offer[p].pair # req[r].pair
    /\ offer' = [offer EXCEPT ![o] = [NoOffer EXCEPT !.pair = req[r].pair,
                                                     !.status = req[r].status]]
    /\ history' = [history EXCEPT ![o] = <<req[r].status>>]
    /\ Go(r, Idle)
    /\ UNCHANGED late

\* respondToOffer: the offer is pending and not past its expiry date
ReadRespondToOffer(r, o, to, reason) ==
    /\ req[r] = Idle
    /\ offer[o].status = "pending"
    /\ ~ late[o]
    /\ Go(r, Checked(o, offer[o].status, to, reason /\ to = "rejected", {}))
    /\ UNCHANGED Stored

\* update with another status: not for accepted and rejected offers
ReadUpdateStatus(r, o, to) ==
    /\ req[r] = Idle
    /\ Exists(o)
    /\ offer[o].status \notin Answers \cup {to}
    /\ Go(r, Checked(o, offer[o].status, to, FALSE, {}))
    /\ UNCHANGED Stored

\* update of anything else, whatever the status; the paths sent are those the
\* caller gave, a date and a reason of the response among them
ReadUpdateFields(r, o, responded, reason) ==
    /\ req[r] = Idle
    /\ Exists(o)
    /\ Go(r, [phase |-> "editing", offer |-> o, responded |-> responded, reason |-> reason])
    /\ UNCHANGED Stored

\* checkExpiredOffers collects the pending offers past their date ...
FindExpired(r) ==
    LET due == {o \in Offers : offer[o].status = "pending" /\ late[o]}
    IN  /\ req[r] = Idle
        /\ due # {}
        /\ Go(r, [phase |-> "sweeping", todo |-> due])
        /\ UNCHANGED Stored

\* ... and calls updateJobOfferStatus for each, as it was when collected.
NextExpired(r, o) ==
    /\ req[r].phase = "sweeping"
    /\ o \in req[r].todo
    /\ Go(r, Checked(o, "pending", "expired", FALSE, req[r].todo \ {o}))
    /\ UNCHANGED Stored

\* updateJobOfferStatus reads again. An offer that is gone is no error for the
\* sweep and one for the others; nothing is saved.
ReadAgain(r) ==
    /\ req[r].phase = "checked"
    /\ LET q == req[r]
       IN  IF Exists(q.offer)
           THEN Go(r, [phase |-> "saving", offer |-> q.offer, tested |-> q.tested,
                       copy |-> offer[q.offer].status, to |-> q.to, reason |-> q.reason,
                       todo |-> q.todo])
           ELSE Go(r, Continue(q.todo))
    /\ UNCHANGED Stored

\* The save: the status is sent if it is not the copy's; the history entry is
\* pushed in any case.
SaveStatus(r) ==
    /\ req[r].phase = "saving"
    /\ LET q == req[r]
           o == q.offer
       IN  /\ Exists(o)
           /\ Len(history[o]) < MaxHistory
           /\ offer' = [offer EXCEPT ![o].status = IF q.to = q.copy THEN @ ELSE q.to,
                                     ![o].responded = @ \/ q.to \in Answers]
           /\ history' = [history EXCEPT ![o] = Append(@, q.to)]
           /\ Go(r, IF q.reason THEN [phase |-> "giving", offer |-> o] ELSE Continue(q.todo))
    /\ UNCHANGED late

\* respondToOffer saves the reason of a rejection.
SaveReason(r) ==
    /\ req[r].phase = "giving"
    /\ Exists(req[r].offer)
    /\ offer' = [offer EXCEPT ![req[r].offer].reason = TRUE]
    /\ Go(r, Idle)
    /\ UNCHANGED <<history, late>>

\* update saves what it was given; the expiry date may be another one.
SaveFields(r) ==
    /\ req[r].phase = "editing"
    /\ LET q == req[r]
           o == q.offer
       IN  /\ Exists(o)
           /\ offer' = [offer EXCEPT ![o].responded = @ \/ q.responded,
                                     ![o].reason = @ \/ q.reason]
           /\ late' \in {late, [late EXCEPT ![o] = FALSE]}
    /\ Go(r, Idle)
    /\ UNCHANGED history

\* delete
Delete(r, o) ==
    /\ req[r] = Idle
    /\ Exists(o)
    /\ offer' = [offer EXCEPT ![o] = Deleted]
    /\ history' = [history EXCEPT ![o] = <<>>]
    /\ late' = [late EXCEPT ![o] = FALSE]
    /\ UNCHANGED req

\* The request ends where it is: a crash, an offer deleted under a save, a
\* creation that the index refuses.
Abort(r) ==
    /\ req[r] # Idle
    /\ Go(r, Idle)
    /\ UNCHANGED Stored

\* The expiry date of an offer passes.
Expire(o) ==
    /\ Exists(o)
    /\ ~ late[o]
    /\ late' = [late EXCEPT ![o] = TRUE]
    /\ UNCHANGED <<offer, history, req>>

-----------------------------------------------------------------------------
Init == /\ offer = [o \in Offers |-> NoOffer]
        /\ history = [o \in Offers |-> <<>>]
        /\ late = [o \in Offers |-> FALSE]
        /\ req = [r \in Requests |-> Idle]

ReadStep(r, o) == \/ \E to \in Responses, reason \in BOOLEAN : ReadRespondToOffer(r, o, to, reason)
                  \/ \E to \in Statuses : ReadUpdateStatus(r, o, to)
                  \/ \E responded, reason \in BOOLEAN : ReadUpdateFields(r, o, responded, reason)

Next == \/ \E r \in Requests :
               \/ \E p \in Pairs, status \in FirstStatuses : FindForCreate(r, p, status)
               \/ \E o \in Offers : \/ InsertCreated(r, o)
                                    \/ ReadStep(r, o)
                                    \/ NextExpired(r, o)
                                    \/ Delete(r, o)
               \/ FindExpired(r)
               \/ ReadAgain(r)
               \/ SaveStatus(r)
               \/ SaveReason(r)
               \/ SaveFields(r)
               \/ Abort(r)
        \/ \E o \in Offers : Expire(o)

Spec == Init /\ [][Next]_vars

-----------------------------------------------------------------------------
RequestRecord ==
         [phase : {"idle"}]
    \cup [phase : {"inserting"}, pair : Pairs, status : FirstStatuses]
    \cup [phase : {"sweeping"}, todo : SUBSET Offers]
    \cup [phase : {"checked"}, offer : Offers, tested : Statuses, to : Statuses,
          reason : BOOLEAN, todo : SUBSET Offers]
    \cup [phase : {"saving"}, offer : Offers, tested : Statuses, copy : Statuses,
          to : Statuses, reason : BOOLEAN, todo : SUBSET Offers]
    \cup [phase : {"giving"}, offer : Offers]
    \cup [phase : {"editing"}, offer : Offers, responded : BOOLEAN, reason : BOOLEAN]

\* Every variable has its type.
TypeOK == /\ offer \in [Offers -> Offer]
          /\ history \in [Offers -> Seq(Statuses)]
          /\ late \in [Offers -> BOOLEAN]
          /\ req \in [Requests -> RequestRecord]

\* There is one offer for a job and a candidate, however many creations run at
\* once: the index sees to it, the test alone would not.
OneOfferPerPair ==
    \A o, p \in Offers : (o # p /\ Exists(o)) => offer[o].pair # offer[p].pair

\* The history knows the status. (The last entry need not be the status: a save
\* whose copy had the status already pushes it and leaves what is stored.)
StatusInHistory ==
    \A o \in Offers : Exists(o) => \E i \in DOMAIN history[o] : history[o][i] = offer[o].status

\* An answer that was given, not one the offer was created with, is dated.
AnswersDated ==
    \A o \in Offers : \A i \in DOMAIN history[o] :
        (i > 1 /\ history[o][i] \in Answers) => offer[o].responded

\* The history and the date of the response explain the offer.
HistoryExplains == StatusInHistory /\ AnswersDated

\* An accepted or rejected offer changes its status only by a request that
\* tested the status before the answer was saved.
AnswerOverwrittenByOlderTest ==
    [][\A o \in Offers :
          (offer[o].status \in Answers /\ offer'[o].status # offer[o].status
             /\ offer'[o].status # "deleted")
            => \E r \in Requests : /\ req[r].phase = "saving"
                                   /\ req[r].offer = o
                                   /\ req[r].tested \notin Answers]_vars

\* "Cannot update a ${jobOffer.status} job offer": an accepted offer stays
\* accepted as long as it is there.
AcceptedStays ==
    [][\A o \in Offers : offer[o].status = "accepted"
            => offer'[o].status \in {"accepted", "deleted"}]_vars
=============================================================================
