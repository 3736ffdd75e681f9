------------------------------ MODULE ModelProofs ------------------------------
(***************************************************************************)
(* What is proved about job offers, and about the models that are saved    *)
(* under a version or whose lists have elements with ids: ratings,         *)
(* invoices, documents, devices, report templates, tax settings and        *)
(* preferences. The other components, and the composition, are in          *)
(* ServicesProofs.                                                         *)
(*                                                                         *)
(* For a document of a model the argument starts with what an accepted     *)
(* save stores: path by path what it was or what the copy has, arrays with *)
(* elements pushed, or, of copies of the stored version only, assigned.    *)
(* Each invariant says how copies differ from what is stored, and there is *)
(* a lemma for the copy that is made, for the save, and for steps after    *)
(* which copies are only left or gone.                                     *)
(*                                                                         *)
(* The last part relates the lists of tax settings and preferences to the  *)
(* ids that saves added and took out.                                      *)
(***************************************************************************)
EXTENDS Services, Sums, SequenceTheorems, FiniteSetTheorems, TLAPS

-----------------------------------------------------------------------------
(* Job offers. *)

(***************************************************************************)
(* The invariant.  An offer that exists has a pair, one that does not has  *)
(* none: so a pair that no offer has is a pair no existing offer has. A    *)
(* request that goes on to change a status tested one that was no answer.  *)
(***************************************************************************)
PairsOfExisting == \A o \in Offers : Exists(o) <=> offer[o].pair # NoPair

TestedNoAnswer ==
    \A r \in Requests : req[r].phase \in {"checked", "saving"} => req[r].tested \notin Answers

Inv == /\ TypeOK
       /\ PairsOfExisting
       /\ TestedNoAnswer
       /\ OneOfferPerPair
       /\ StatusInHistory
       /\ AnswersDated

\* A step that leaves what is stored alone, and gives one slot a record.
LEMMA RequestStep ==
    ASSUME Inv, UNCHANGED <<offer, history>>, late' \in [Offers -> BOOLEAN],
           NEW r \in Requests, NEW work \in RequestRecord, req' = [req EXCEPT ![r] = work],
           work.phase \in {"checked", "saving"} => work.tested \notin Answers
    PROVE  Inv'
  <1>1. TypeOK'
    BY DEF Inv, TypeOK
  <1>2. TestedNoAnswer'
    BY DEF Inv, TypeOK, TestedNoAnswer
  <1>3. (PairsOfExisting /\ OneOfferPerPair /\ StatusInHistory /\ AnswersDated)'
    BY DEF Inv, PairsOfExisting, OneOfferPerPair, StatusInHistory, AnswersDated, Exists
  <1>4. QED
    BY <1>1, <1>2, <1>3 DEF Inv

LEMMA IdleIsRecord == Idle \in RequestRecord /\ Idle.phase = "idle"
  BY DEF Idle, RequestRecord

LEMMA ContinueIsRecord ==
    ASSUME NEW todo \in SUBSET Offers
    PROVE  Continue(todo) \in RequestRecord /\ Continue(todo).phase \in {"idle", "sweeping"}
  BY DEF Continue, Idle, RequestRecord

LEMMA CheckedIsRecord ==
    ASSUME NEW o \in Offers, NEW tested \in Statuses, NEW to \in Statuses,
           NEW reason \in BOOLEAN, NEW todo \in SUBSET Offers, tested \notin Answers
    PROVE  /\ Checked(o, tested, to, reason, todo) \in RequestRecord
           /\ Checked(o, tested, to, reason, todo).tested \notin Answers
  BY DEF Checked, RequestRecord

-----------------------------------------------------------------------------
(* The actions that leave the offers alone. *)

LEMMA ReadsKeepInv ==
    ASSUME Inv, NEW r \in Requests,
           \/ \E p \in Pairs, status \in FirstStatuses : FindForCreate(r, p, status)
           \/ \E o \in Offers : ReadStep(r, o) \/ NextExpired(r, o)
           \/ FindExpired(r)
           \/ ReadAgain(r)
           \/ Abort(r)
    PROVE  Inv'
  <1>1. late \in [Offers -> BOOLEAN] /\ req \in [Requests -> RequestRecord]
    BY DEF Inv, TypeOK
  <1>2. CASE \E p \in Pairs, status \in FirstStatuses : FindForCreate(r, p, status)
    <2>1. PICK p \in Pairs, status \in FirstStatuses : FindForCreate(r, p, status)
      BY <1>2
    <2> DEFINE work == [phase |-> "inserting", pair |-> p, status |-> status]
    <2>2. work \in RequestRecord /\ work.phase = "inserting"
      BY DEF RequestRecord
    <2>3. QED
      BY <1>1, <2>1, <2>2, RequestStep DEF FindForCreate, Go, Stored
  <1>3. ASSUME NEW o \in Offers, ReadStep(r, o) PROVE Inv'
    <2>1. CASE \E to \in Responses, reason \in BOOLEAN : ReadRespondToOffer(r, o, to, reason)
      <3>1. PICK to \in Responses, reason \in BOOLEAN : ReadRespondToOffer(r, o, to, reason)
        BY <2>1
      <3> DEFINE work == Checked(o, "pending", to, reason /\ to = "rejected", {})
      <3>2. to \in Statuses /\ (reason /\ to = "rejected") \in BOOLEAN
        BY OfferAssumption DEF OfferAssumption
      <3>3. "pending" \in Statuses /\ "pending" \notin Answers /\ {} \in SUBSET Offers
        BY DEF Statuses, Answers
      <3>4. work \in RequestRecord /\ work.tested \notin Answers
        BY <3>2, <3>3, CheckedIsRecord
      <3>5. req' = [req EXCEPT ![r] = work] /\ UNCHANGED Stored
        BY <3>1 DEF ReadRespondToOffer, Go
      <3>6. QED
        BY <1>1, <3>4, <3>5, RequestStep DEF Stored
    <2>2. CASE \E to \in Statuses : ReadUpdateStatus(r, o, to)
      <3>1. PICK to \in Statuses : ReadUpdateStatus(r, o, to)
        BY <2>2
      <3> DEFINE work == Checked(o, offer[o].status, to, FALSE, {})
      <3>2. offer[o].status \in Statuses /\ offer[o].status \notin Answers /\ {} \in SUBSET Offers
        BY <3>1 DEF Inv, TypeOK, Offer, ReadUpdateStatus, Exists
      <3>3. work \in RequestRecord /\ work.tested \notin Answers
        BY <3>2, CheckedIsRecord
      <3>4. req' = [req EXCEPT ![r] = work] /\ UNCHANGED Stored
        BY <3>1 DEF ReadUpdateStatus, Go
      <3>5. QED
        BY <1>1, <3>3, <3>4, RequestStep DEF Stored
    <2>3. CASE \E responded, reason \in BOOLEAN : ReadUpdateFields(r, o, responded, reason)
      <3>1. PICK responded \in BOOLEAN, reason \in BOOLEAN : ReadUpdateFields(r, o, responded, reason)
        BY <2>3
      <3> DEFINE work == [phase |-> "editing", offer |-> o, responded |-> responded,
                          reason |-> reason]
      <3>2. work \in RequestRecord /\ work.phase = "editing"
        BY DEF RequestRecord
      <3>3. QED
        BY <1>1, <3>1, <3>2, RequestStep DEF ReadUpdateFields, Go, Stored
    <2>4. QED
      BY <1>3, <2>1, <2>2, <2>3 DEF ReadStep
  <1>4. ASSUME NEW o \in Offers, NextExpired(r, o) PROVE Inv'
    <2> DEFINE work == Checked(o, "pending", "expired", FALSE, req[r].todo \ {o})
    <2>1. req[r].todo \ {o} \in SUBSET Offers
      BY <1>1, <1>4 DEF NextExpired, RequestRecord
    <2>2. "pending" \in Statuses /\ "expired" \in Statuses /\ "pending" \notin Answers
      BY DEF Statuses, Answers
    <2>3. work \in RequestRecord /\ work.tested \notin Answers
      BY <2>1, <2>2, CheckedIsRecord
    <2>4. QED
      BY <1>1, <1>4, <2>3, RequestStep DEF NextExpired, Go, Stored
  <1>5. CASE FindExpired(r)
    <2> DEFINE due == {o \in Offers : offer[o].status = "pending" /\ late[o]}
               work == [phase |-> "sweeping", todo |-> due]
    <2>1. work \in RequestRecord /\ work.phase = "sweeping"
      BY DEF RequestRecord
    <2>2. req' = [req EXCEPT ![r] = work] /\ UNCHANGED Stored
      BY <1>5 DEF FindExpired, Go
    <2>3. QED
      BY <1>1, <2>1, <2>2, RequestStep DEF Stored
  <1>6. CASE ReadAgain(r)
    <2>1. /\ req[r].phase = "checked"
          /\ req[r] \in RequestRecord
          /\ req[r].tested \notin Answers
      BY <1>1, <1>6 DEF ReadAgain, Inv, TestedNoAnswer
    <2>2. /\ req[r].offer \in Offers /\ req[r].tested \in Statuses /\ req[r].to \in Statuses
          /\ req[r].reason \in BOOLEAN /\ req[r].todo \in SUBSET Offers
      BY <2>1 DEF RequestRecord
    <2> DEFINE q == req[r]
               work == [phase |-> "saving", offer |-> q.offer, tested |-> q.tested,
                        copy |-> offer[q.offer].status, to |-> q.to, reason |-> q.reason,
                        todo |-> q.todo]
    <2>3. CASE Exists(q.offer)
      <3>1. offer[q.offer].status \in Statuses
        BY <2>2, <2>3 DEF Inv, TypeOK, Offer, Exists
      <3>2. work \in RequestRecord /\ work.tested \notin Answers
        BY <2>1, <2>2, <3>1 DEF RequestRecord
      <3>3. req' = [req EXCEPT ![r] = work] /\ UNCHANGED Stored
        BY <1>6, <2>3 DEF ReadAgain, Go
      <3>4. QED
        BY <1>1, <3>2, <3>3, RequestStep DEF Stored
    <2>4. CASE ~ Exists(q.offer)
      BY <1>1, <1>6, <2>2, <2>4, ContinueIsRecord, RequestStep DEF ReadAgain, Go, Stored
    <2>5. QED
      BY <2>3, <2>4
  <1>7. CASE Abort(r)
    BY <1>1, <1>7, IdleIsRecord, RequestStep DEF Abort, Go, Stored
  <1>8. QED
    BY <1>2, <1>3, <1>4, <1>5, <1>6, <1>7

-----------------------------------------------------------------------------
(* The actions that write. *)

\* A slot that becomes idle, sweeping or giving tests nothing.
LEMMA SlotFreed ==
    ASSUME Inv, NEW r \in Requests, NEW work \in RequestRecord, req' = [req EXCEPT ![r] = work],
           work.phase \notin {"checked", "saving"}
    PROVE  req' \in [Requests -> RequestRecord] /\ TestedNoAnswer'
  BY DEF Inv, TypeOK, TestedNoAnswer

LEMMA InsertKeepsInv ==
    ASSUME Inv, NEW r \in Requests, NEW o \in Offers, InsertCreated(r, o)
    PROVE  Inv'
  <1>1. req[r].pair \in Pairs /\ req[r].status \in Statuses
    BY OfferAssumption DEF InsertCreated, Inv, TypeOK, RequestRecord, OfferAssumption
  <1> DEFINE new == [NoOffer EXCEPT !.pair = req[r].pair, !.status = req[r].status]
  <1>2. /\ new \in Offer
        /\ new.pair = req[r].pair
        /\ new.status = req[r].status
        /\ new.status \notin {"none", "deleted"}
    BY <1>1 DEF NoOffer, Offer, Statuses
  <1>3. /\ offer' = [offer EXCEPT ![o] = new]
        /\ history' = [history EXCEPT ![o] = <<req[r].status>>]
        /\ UNCHANGED late
        /\ \A p \in Offers : offer[p].pair # req[r].pair
    BY DEF InsertCreated
  <1>4. req' \in [Requests -> RequestRecord] /\ TestedNoAnswer'
    BY IdleIsRecord, SlotFreed DEF InsertCreated, Go
  <1>5. TypeOK'
    <2>1. <<req[r].status>> \in Seq(Statuses)
      BY <1>1
    <2>2. QED
      BY <1>2, <1>3, <1>4, <2>1 DEF Inv, TypeOK
  <1>6. PairsOfExisting'
    BY <1>1, <1>2, <1>3, OfferAssumption
       DEF Inv, TypeOK, PairsOfExisting, Exists, OfferAssumption
  <1>7. OneOfferPerPair'
    BY <1>2, <1>3 DEF Inv, TypeOK, OneOfferPerPair, Exists
  <1>8. StatusInHistory' /\ AnswersDated'
    <2>1. ASSUME NEW p \in Offers, p # o
          PROVE  offer'[p] = offer[p] /\ history'[p] = history[p]
      BY <1>3, <2>1 DEF Inv, TypeOK
    <2>2. /\ offer'[o].status = req[r].status
          /\ history'[o] = <<req[r].status>>
      BY <1>2, <1>3 DEF Inv, TypeOK
    <2>3. DOMAIN history'[o] = {1} /\ history'[o][1] = req[r].status
      BY <2>2
    <2>4. StatusInHistory'
      BY <2>1, <2>2, <2>3 DEF Inv, StatusInHistory, Exists
    <2>5. AnswersDated'
      BY <2>1, <2>3 DEF Inv, AnswersDated
    <2>6. QED
      BY <2>4, <2>5
  <1>9. QED
    BY <1>4, <1>5, <1>6, <1>7, <1>8 DEF Inv

LEMMA SaveStatusKeepsInv ==
    ASSUME Inv, NEW r \in Requests, SaveStatus(r)
    PROVE  Inv'
  <1> DEFINE q == req[r]
             o == q.offer
             status == IF q.to = q.copy THEN offer[o].status ELSE q.to
             responded == offer[o].responded \/ q.to \in Answers
  <1>1. /\ o \in Offers /\ q.to \in Statuses /\ q.todo \in SUBSET Offers
        /\ Exists(o)
    BY DEF SaveStatus, Inv, TypeOK, RequestRecord
  <1>2. /\ offer' = [offer EXCEPT ![o].status = status, ![o].responded = responded]
        /\ history' = [history EXCEPT ![o] = Append(@, q.to)]
        /\ UNCHANGED late
    BY DEF SaveStatus
  <1>3. offer[o] \in Offer /\ offer[o].status \in Statuses /\ history[o] \in Seq(Statuses)
    BY <1>1 DEF Inv, TypeOK, Offer, Exists
  <1>4. status \in Statuses /\ responded \in BOOLEAN
    BY <1>1, <1>3 DEF Offer
  <1> HIDE DEF status, responded
  <1>5. /\ offer'[o] = [offer[o] EXCEPT !.status = status, !.responded = responded]
        /\ history'[o] = Append(history[o], q.to)
        /\ \A p \in Offers \ {o} : offer'[p] = offer[p] /\ history'[p] = history[p]
    BY <1>1, <1>2 DEF Inv, TypeOK
  <1>6. /\ offer'[o] \in Offer
        /\ offer'[o].pair = offer[o].pair
        /\ offer'[o].status = status
        /\ offer'[o].responded = responded
        /\ offer'[o].status \notin {"none", "deleted"}
    BY <1>3, <1>4, <1>5 DEF Offer, Statuses
  <1>7. req' \in [Requests -> RequestRecord] /\ TestedNoAnswer'
    <2> DEFINE work == IF q.reason THEN [phase |-> "giving", offer |-> o] ELSE Continue(q.todo)
    <2>1. work \in RequestRecord /\ work.phase \notin {"checked", "saving"}
      BY <1>1, ContinueIsRecord DEF RequestRecord
    <2>2. req' = [req EXCEPT ![r] = work]
      BY DEF SaveStatus, Go
    <2>3. QED
      BY <2>1, <2>2, SlotFreed
  <1>8. TypeOK'
    <2>1. Append(history[o], q.to) \in Seq(Statuses)
      BY <1>1, <1>3
    <2>2. offer' \in [Offers -> Offer]
      BY <1>2, <1>5, <1>6 DEF Inv, TypeOK
    <2>3. history' \in [Offers -> Seq(Statuses)]
      BY <1>2, <2>1 DEF Inv, TypeOK
    <2>4. QED
      BY <1>2, <1>7, <2>2, <2>3 DEF Inv, TypeOK
  <1>9. PairsOfExisting' /\ OneOfferPerPair'
    <2>1. \A p \in Offers : /\ offer'[p].pair = offer[p].pair
                            /\ offer'[p].status \in {"none", "deleted"}
                                 <=> offer[p].status \in {"none", "deleted"}
      BY <1>1, <1>5, <1>6 DEF Exists
    <2>2. PairsOfExisting'
      BY <2>1 DEF Inv, PairsOfExisting, Exists
    <2>3. OneOfferPerPair'
      BY <2>1 DEF Inv, OneOfferPerPair, Exists
    <2>4. QED
      BY <2>2, <2>3
  <1>10. StatusInHistory'
    <2>1. \E i \in DOMAIN history'[o] : history'[o][i] = status
      <3>1. PICK i \in DOMAIN history[o] : history[o][i] = offer[o].status
        BY <1>1 DEF Inv, StatusInHistory
      <3>2. /\ i \in DOMAIN history'[o] /\ history'[o][i] = history[o][i]
            /\ Len(history[o]) + 1 \in DOMAIN history'[o]
            /\ history'[o][Len(history[o]) + 1] = q.to
        BY <1>1, <1>3, <1>5, <3>1
      <3>3. QED
        BY <3>1, <3>2 DEF status
    <2>2. ASSUME NEW p \in Offers, Exists(p)'
          PROVE  \E i \in DOMAIN history'[p] : history'[p][i] = offer'[p].status
      <3>1. CASE p = o
        BY <1>6, <2>1, <3>1
      <3>2. CASE p # o
        BY <1>5, <2>2, <3>2 DEF Inv, StatusInHistory, Exists
      <3>3. QED
        BY <3>1, <3>2
    <2>3. QED
      BY <2>2 DEF StatusInHistory
  <1>11. AnswersDated'
    <2>1. ASSUME NEW i \in DOMAIN history'[o], i > 1, history'[o][i] \in Answers
          PROVE  responded
      <3>1. CASE i \in DOMAIN history[o]
        <4>1. history'[o][i] = history[o][i]
          BY <1>1, <1>3, <1>5, <3>1
        <4>2. QED
          BY <1>1, <2>1, <3>1, <4>1 DEF Inv, AnswersDated, responded
      <3>2. CASE i \notin DOMAIN history[o]
        <4>1. history'[o][i] = q.to
          BY <1>1, <1>3, <1>5, <3>2
        <4>2. QED
          BY <2>1, <4>1 DEF responded
      <3>3. QED
        BY <3>1, <3>2
    <2>2. QED
      BY <1>1, <1>5, <1>6, <2>1 DEF Inv, AnswersDated
  <1>12. QED
    BY <1>7, <1>8, <1>9, <1>10, <1>11 DEF Inv

\* The saves of other paths leave the pair, the status and the history.
LEMMA FieldsKeepInv ==
    ASSUME Inv, NEW r \in Requests, SaveReason(r) \/ SaveFields(r)
    PROVE  Inv'
  <1> DEFINE o == req[r].offer
  <1>1. o \in Offers
    BY DEF SaveReason, SaveFields, Inv, TypeOK, RequestRecord
  <1>2. PICK responded \in BOOLEAN, reason \in BOOLEAN :
            offer' = [offer EXCEPT ![o].responded = @ \/ responded, ![o].reason = @ \/ reason]
    <2>1. CASE SaveReason(r)
      <3>1. offer[o] \in Offer
        BY <1>1 DEF Inv, TypeOK
      <3>2. [offer[o] EXCEPT !.reason = TRUE]
              = [offer[o] EXCEPT !.responded = @ \/ FALSE, !.reason = @ \/ TRUE]
        BY <3>1 DEF Offer
      <3>3. offer' = [offer EXCEPT ![o] = [offer[o] EXCEPT !.reason = TRUE]]
        BY <1>1, <2>1 DEF SaveReason, Inv, TypeOK
      <3>4. offer' = [offer EXCEPT ![o].responded = @ \/ FALSE, ![o].reason = @ \/ TRUE]
        BY <1>1, <3>2, <3>3 DEF Inv, TypeOK
      <3>5. QED
        BY <3>4
    <2>2. CASE SaveFields(r)
      <3>1. req[r].responded \in BOOLEAN /\ req[r].reason \in BOOLEAN
        BY <2>2 DEF SaveFields, Inv, TypeOK, RequestRecord
      <3>2. QED
        BY <2>2, <3>1 DEF SaveFields
    <2>3. QED
      BY <2>1, <2>2
  <1>3. late' \in [Offers -> BOOLEAN] /\ UNCHANGED history
    BY <1>1 DEF SaveReason, SaveFields, Inv, TypeOK
  <1>4. req' \in [Requests -> RequestRecord] /\ TestedNoAnswer'
    BY IdleIsRecord, SlotFreed DEF SaveReason, SaveFields, Go
  <1> DEFINE dated == offer[o].responded \/ responded
             reasoned == offer[o].reason \/ reason
             new == [offer[o] EXCEPT !.responded = dated, !.reason = reasoned]
  <1>a. dated \in BOOLEAN /\ reasoned \in BOOLEAN /\ (offer[o].responded => dated)
    OBVIOUS
  <1>b. offer' = [offer EXCEPT ![o] = new]
    BY <1>1, <1>2 DEF Inv, TypeOK
  <1> HIDE DEF dated, reasoned
  <1>c. offer[o] \in Offer
    BY <1>1 DEF Inv, TypeOK
  <1>d. /\ new \in Offer
        /\ new.pair = offer[o].pair
        /\ new.status = offer[o].status
        /\ new.responded = dated
    BY <1>a, <1>c DEF Offer
  <1> HIDE DEF new
  <1>5. offer' \in [Offers -> Offer]
    BY <1>1, <1>b, <1>d DEF Inv, TypeOK
  <1>6. \A p \in Offers : /\ offer'[p].pair = offer[p].pair
                          /\ offer'[p].status = offer[p].status
                          /\ offer[p].responded => offer'[p].responded
    BY <1>1, <1>a, <1>b, <1>d DEF Inv, TypeOK
  <1>7. TypeOK'
    BY <1>3, <1>4, <1>5 DEF Inv, TypeOK
  <1>8. PairsOfExisting' /\ OneOfferPerPair' /\ StatusInHistory'
    BY <1>3, <1>6 DEF Inv, PairsOfExisting, OneOfferPerPair, StatusInHistory, Exists
  <1>9. AnswersDated'
    BY <1>3, <1>6 DEF Inv, AnswersDated
  <1>10. QED
    BY <1>4, <1>7, <1>8, <1>9 DEF Inv

LEMMA DeleteKeepsInv ==
    ASSUME Inv, NEW r \in Requests, NEW o \in Offers, Delete(r, o)
    PROVE  Inv'
  <1>1. /\ Deleted \in Offer
        /\ Deleted.pair = NoPair
        /\ Deleted.status = "deleted"
    BY DEF Deleted, NoOffer, Offer
  <1>2. /\ offer' = [offer EXCEPT ![o] = Deleted]
        /\ history' = [history EXCEPT ![o] = <<>>]
        /\ late' = [late EXCEPT ![o] = FALSE]
        /\ req' = req
    BY DEF Delete
  <1>3. TypeOK'
    BY <1>1, <1>2 DEF Inv, TypeOK
  <1>4. /\ offer'[o] = Deleted
        /\ history'[o] = <<>>
        /\ \A p \in Offers \ {o} : offer'[p] = offer[p] /\ history'[p] = history[p]
    BY <1>2 DEF Inv, TypeOK
  <1>e. \A p \in Offers : /\ p = o => ~ Exists(p)' /\ offer'[p].pair = NoPair
                          /\ p # o => (Exists(p)' <=> Exists(p)) /\ offer'[p] = offer[p]
    BY <1>1, <1>4 DEF Exists
  <1>p. PairsOfExisting'
    <2>1. \A p \in Offers : Exists(p)' <=> offer'[p].pair # NoPair
      BY <1>e DEF Inv, PairsOfExisting
    <2>2. QED
      BY <2>1 DEF PairsOfExisting
  <1>5. OneOfferPerPair'
    <2>1. SUFFICES ASSUME NEW p \in Offers, NEW q \in Offers, p # q, Exists(p)'
                   PROVE  offer'[p].pair # offer'[q].pair
      BY DEF OneOfferPerPair
    <2>2. p # o /\ Exists(p) /\ offer'[p] = offer[p] /\ offer[p].pair # NoPair
      BY <1>e, <2>1 DEF Inv, PairsOfExisting
    <2>3. CASE q = o
      BY <1>e, <2>2, <2>3
    <2>4. CASE q # o
      BY <1>e, <2>1, <2>2, <2>4 DEF Inv, OneOfferPerPair
    <2>5. QED
      BY <2>3, <2>4
  <1>s. StatusInHistory'
    <2>1. SUFFICES ASSUME NEW p \in Offers, Exists(p)'
                   PROVE  \E i \in DOMAIN history'[p] : history'[p][i] = offer'[p].status
      BY DEF StatusInHistory
    <2>2. p # o
      BY <1>1, <1>4, <2>1 DEF Exists
    <2>3. Exists(p)
      BY <1>4, <2>1, <2>2 DEF Exists
    <2>4. QED
      BY <1>4, <2>2, <2>3 DEF Inv, StatusInHistory
  <1>6. AnswersDated'
    <2>1. SUFFICES ASSUME NEW p \in Offers, NEW i \in DOMAIN history'[p], i > 1,
                          history'[p][i] \in Answers
                   PROVE  offer'[p].responded
      BY DEF AnswersDated
    <2>2. p # o
      BY <1>4, <2>1
    <2>3. QED
      BY <1>4, <2>1, <2>2 DEF Inv, AnswersDated
  <1>7. TestedNoAnswer'
    BY <1>2 DEF Inv, TestedNoAnswer
  <1>8. QED
    BY <1>3, <1>5, <1>p, <1>s, <1>6, <1>7 DEF Inv

LEMMA ExpireKeepsInv ==
    ASSUME Inv, NEW o \in Offers, Expire(o)
    PROVE  Inv'
  BY DEF Inv, TypeOK, PairsOfExisting, TestedNoAnswer, OneOfferPerPair, StatusInHistory,
         AnswersDated, Exists, Expire

-----------------------------------------------------------------------------
THEOREM Invariance == Spec => []Inv
  <1>1. Init => Inv
    <2>1. SUFFICES ASSUME Init PROVE Inv
      OBVIOUS
    <2>2. NoOffer \in Offer /\ NoOffer.pair = NoPair /\ NoOffer.status = "none"
      BY DEF NoOffer, Offer
    <2>3. TypeOK
      BY <2>1, <2>2, IdleIsRecord DEF Init, TypeOK
    <2>4. PairsOfExisting /\ OneOfferPerPair /\ StatusInHistory
      BY <2>1, <2>2 DEF Init, PairsOfExisting, OneOfferPerPair, StatusInHistory, Exists
    <2>5. AnswersDated /\ TestedNoAnswer
      BY <2>1, IdleIsRecord DEF Init, AnswersDated, TestedNoAnswer
    <2>6. QED
      BY <2>3, <2>4, <2>5 DEF Inv
  <1>2. Inv /\ [Next]_vars => Inv'
    <2>0. SUFFICES ASSUME Inv, [Next]_vars PROVE Inv'
      OBVIOUS
    <2>1. CASE UNCHANGED vars
      BY <2>0, <2>1 DEF Inv, TypeOK, PairsOfExisting, TestedNoAnswer, OneOfferPerPair,
                        StatusInHistory, AnswersDated, Exists, vars
    <2>2. ASSUME NEW r \in Requests,
                 \/ \E p \in Pairs, status \in FirstStatuses : FindForCreate(r, p, status)
                 \/ \E o \in Offers : ReadStep(r, o) \/ NextExpired(r, o)
                 \/ FindExpired(r) \/ ReadAgain(r) \/ Abort(r)
          PROVE  Inv'
      BY <2>0, <2>2, ReadsKeepInv
    <2>3. ASSUME NEW r \in Requests, NEW o \in Offers, InsertCreated(r, o) PROVE Inv'
      BY <2>0, <2>3, InsertKeepsInv
    <2>4. ASSUME NEW r \in Requests, SaveStatus(r) PROVE Inv'
      BY <2>0, <2>4, SaveStatusKeepsInv
    <2>5. ASSUME NEW r \in Requests, SaveReason(r) \/ SaveFields(r) PROVE Inv'
      BY <2>0, <2>5, FieldsKeepInv
    <2>6. ASSUME NEW r \in Requests, NEW o \in Offers, Delete(r, o) PROVE Inv'
      BY <2>0, <2>6, DeleteKeepsInv
    <2>7. ASSUME NEW o \in Offers, Expire(o) PROVE Inv'
      BY <2>0, <2>7, ExpireKeepsInv
    <2>8. QED
      BY <2>0, <2>1, <2>2, <2>3, <2>4, <2>5, <2>6, <2>7 DEF Next
  <1>3. QED
    BY <1>1, <1>2, PTL DEF Spec

\* Every variable has its type.
THEOREM TypeCorrect == Spec => []TypeOK
  <1>1. Inv => TypeOK
    BY DEF Inv
  <1>2. QED
    BY <1>1, Invariance, PTL

\* However many creations run at once, the index leaves one offer for a job and a
\* candidate.
THEOREM OneOffer == Spec => []OneOfferPerPair
  <1>1. Inv => OneOfferPerPair
    BY DEF Inv
  <1>2. QED
    BY <1>1, Invariance, PTL

\* The history of an offer has its status, and an answer that was given is dated.
THEOREM HistoryKnows == Spec => []HistoryExplains
  <1>1. Inv => HistoryExplains
    BY DEF Inv, HistoryExplains
  <1>2. QED
    BY <1>1, Invariance, PTL

\* An answer is overwritten by no request but one that tested the status before the
\* answer was saved: whoever tests afterwards is refused.
THEOREM AnswersHold == Spec => AnswerOverwrittenByOlderTest
  <1> DEFINE Older == \A o \in Offers :
          (offer[o].status \in Answers /\ offer'[o].status # offer[o].status
             /\ offer'[o].status # "deleted")
            => \E r \in Requests : /\ req[r].phase = "saving"
                                   /\ req[r].offer = o
                                   /\ req[r].tested \notin Answers
  <1>1. Inv /\ [Next]_vars => [Older]_vars
    <2>1. SUFFICES ASSUME Inv, Next, NEW o \in Offers,
                          offer[o].status \in Answers, offer'[o].status # offer[o].status,
                          offer'[o].status # "deleted"
                   PROVE  \E r \in Requests : /\ req[r].phase = "saving"
                                              /\ req[r].offer = o
                                              /\ req[r].tested \notin Answers
      OBVIOUS
    <2>2. offer' # offer
      BY <2>1
    <2>3. ASSUME NEW r \in Requests, NEW p \in Offers, InsertCreated(r, p) PROVE FALSE
      <3>1. offer[p].status = "none"
        BY <2>3 DEF InsertCreated, NoOffer
      <3>2. p # o
        BY <2>1, <3>1 DEF Answers
      <3>3. PICK new : offer' = [offer EXCEPT ![p] = new]
        BY <2>3 DEF InsertCreated
      <3>4. offer'[o] = offer[o]
        BY <2>1, <3>2, <3>3 DEF Inv, TypeOK
      <3>5. QED
        BY <2>1, <3>4
    <2>4. ASSUME NEW r \in Requests, SaveReason(r) \/ SaveFields(r) PROVE FALSE
      <3>1. CASE SaveReason(r)
        <4>1. offer' = [offer EXCEPT ![req[r].offer].reason = TRUE]
          BY <3>1 DEF SaveReason
        <4>2. offer'[o].status = offer[o].status
          BY <2>1, <4>1 DEF Inv, TypeOK, Offer
        <4>3. QED
          BY <2>1, <4>2
      <3>2. CASE SaveFields(r)
        <4> DEFINE p == req[r].offer
        <4>1. PICK d, e : offer' = [offer EXCEPT ![p].responded = d, ![p].reason = e]
          BY <3>2 DEF SaveFields
        <4> HIDE DEF p
        <4>2. offer'[o].status = offer[o].status
          BY <2>1, <4>1 DEF Inv, TypeOK, Offer
        <4>3. QED
          BY <2>1, <4>2
      <3>3. QED
        BY <2>4, <3>1, <3>2
    <2>5. ASSUME NEW r \in Requests, NEW p \in Offers, Delete(r, p) PROVE FALSE
      BY <2>1, <2>5 DEF Delete, Deleted, NoOffer, Inv, TypeOK
    <2>6. PICK r \in Requests : SaveStatus(r)
      BY <2>1, <2>2, <2>3, <2>4, <2>5
         DEF Next, FindForCreate, ReadStep, ReadRespondToOffer, ReadUpdateStatus, ReadUpdateFields,
             NextExpired, FindExpired, ReadAgain, Abort, Expire, Stored
    <2>7. req[r].phase = "saving" /\ req[r].offer = o
      BY <2>1, <2>6 DEF SaveStatus, Inv, TypeOK, Offer
    <2>8. QED
      BY <2>1, <2>7 DEF Inv, TestedNoAnswer
  <1>2. QED
    BY <1>1, Invariance, PTL DEF Spec, AnswerOverwrittenByOlderTest

-----------------------------------------------------------------------------
MD == INSTANCE MongooseDocument

-----------------------------------------------------------------------------
(* What a save stores, in any of the models. *)

\* The fields of what is merged.
LEMMA MergedFields ==
    ASSUME NEW q, NEW A, "version" \notin A \cup q.whole
    PROVE  LET d == MD!Merged(q, A)
           IN  /\ DOMAIN d = DOMAIN stored
               /\ \A f \in DOMAIN stored :
                     /\ f = "version" =>
                           d[f] = stored.version + (IF MD!CountsVersion(q, A) THEN 1 ELSE 0)
                     /\ f \notin A \cup q.whole \cup {"version"} =>
                           d[f] = IF q.old[f] = q.new[f] THEN stored[f] ELSE q.new[f]
                     /\ f \in A \cap q.whole => d[f] = q.new[f]
                     /\ f \in A \ q.whole => d[f] = MD!MergedArray(q, f)
<1> DEFINE count == IF MD!CountsVersion(q, A) THEN 1 ELSE 0
           Case(f) == CASE f = "version" -> stored.version + count
                        [] f \in q.whole -> q.new[f]
                        [] f \in A \ q.whole -> MD!MergedArray(q, f)
                        [] f \notin A \cup {"version"} ->
                               IF q.old[f] = q.new[f] THEN stored[f] ELSE q.new[f]
<1>1. MD!Merged(q, A) = [f \in DOMAIN stored |-> Case(f)]
  BY DEF MD!Merged
<1>2. ASSUME NEW f \in DOMAIN stored
      PROVE  /\ f = "version" => Case(f) = stored.version + count
             /\ f \notin A \cup q.whole \cup {"version"} =>
                   Case(f) = IF q.old[f] = q.new[f] THEN stored[f] ELSE q.new[f]
             /\ f \in A \cap q.whole => Case(f) = q.new[f]
             /\ f \in A \ q.whole => Case(f) = MD!MergedArray(q, f)
  OBVIOUS
<1> HIDE DEF Case
<1> QED BY <1>1, <1>2

\* What is behind the first places.
LEMMA SuffixProperties ==
    ASSUME NEW El, NEW new \in Seq(El), NEW n \in Nat, n <= Len(new)
    PROVE  LET p == SubSeq(new, n + 1, Len(new))
           IN  /\ p \in Seq(El) /\ Len(p) = Len(new) - n
               /\ \A i \in 1..Len(new) - n : p[i] = new[n + i]
<1>1. PICK k \in Int, l \in Int : k = n + 1 /\ l = Len(new) /\ l \in Nat
  OBVIOUS
<1>2. \A i \in k..l : new[i] \in El
  BY <1>1
<1>3. /\ SubSeq(new, k, l) \in Seq(El)
      /\ Len(SubSeq(new, k, l)) = IF k <= l THEN l - k + 1 ELSE 0
      /\ \A i \in 1..l - k + 1 : SubSeq(new, k, l)[i] = new[k + i - 1]
  BY <1>2, SubSeqProperties
<1>4. \A i \in Int : k + i - 1 = n + i
  BY <1>1
<1>5. \A i \in 1..Len(new) - n : SubSeq(new, k, l)[i] = new[n + i]
  BY <1>1, <1>3, <1>4
<1> QED BY <1>1, <1>3, <1>5

\* The places of two sequences in both of them together.
LEMMA ConcatParts ==
    ASSUME NEW El, NEW s \in Seq(El), NEW t \in Seq(El)
    PROVE  /\ s \o t \in Seq(El)
           /\ Len(s \o t) = Len(s) + Len(t)
           /\ \A i \in 1..Len(s) : (s \o t)[i] = s[i]
           /\ \A i \in 1..Len(t) : (s \o t)[Len(s) + i] = t[i]
<1>1. PICK k \in Nat, l \in Nat : k = Len(s) /\ l = Len(t)
  OBVIOUS
<1>2. PICK m : m = s \o t
  OBVIOUS
<1>3. /\ m \in Seq(El) /\ Len(m) = k + l
      /\ \A i \in 1..k + l : m[i] = IF i <= k THEN s[i] ELSE t[i - k]
  BY <1>1, <1>2, ConcatProperties
<1>4. \A i \in 1..k : m[i] = s[i]
  BY <1>3
<1>5. \A i \in 1..l : m[k + i] = t[i]
  <2> SUFFICES ASSUME NEW i \in 1..l PROVE m[k + i] = t[i]
    OBVIOUS
  <2>1. PICK j \in 1..k + l : j = k + i /\ ~ (j <= k) /\ j - k = i
    OBVIOUS
  <2> QED BY <1>3, <2>1
<1> QED BY <1>1, <1>2, <1>3, <1>4, <1>5

\* m is s with the elements that differ between old and new, and with what is pushed.
MergedByPlace(old, new, s, m) ==
    /\ DOMAIN m = 1..Len(s) + (Len(new) - Len(old))
    /\ Len(m) = Len(s) + (Len(new) - Len(old))
    /\ m = [i \in DOMAIN m |-> m[i]]
    /\ \A i \in 1..Len(s) : m[i] = IF i \in 1..Len(old) /\ old[i] # new[i]
                                   THEN MD!MergedElement(old[i], new[i], s[i]) ELSE s[i]
    /\ \A i \in 1..Len(new) - Len(old) : m[Len(s) + i] = new[Len(old) + i]

CopiedArray(q, a, El) == /\ q.old[a] \in Seq(El) /\ q.new[a] \in Seq(El)
                         /\ Len(q.old[a]) <= Len(q.new[a])

\* The array in which elements were changed by place or pushed.
LEMMA MergedPlaces ==
    ASSUME NEW El, NEW q, NEW a, stored[a] \in Seq(El), CopiedArray(q, a, El)
    PROVE  MergedByPlace(q.old[a], q.new[a], stored[a], MD!MergedArray(q, a))
<1>a. PICK m : m = MD!MergedArray(q, a)
  OBVIOUS
<1>0. PICK s \in Seq(El), old \in Seq(El), new \in Seq(El) :
          s = stored[a] /\ old = q.old[a] /\ new = q.new[a]
  BY DEF CopiedArray
<1> DEFINE kept == [i \in DOMAIN s |->
                      IF i \in 1..Len(old) /\ old[i] # new[i]
                      THEN MD!MergedElement(old[i], new[i], s[i]) ELSE s[i]]
           pushed == SubSeq(new, Len(old) + 1, Len(new))
<1>1. m = kept \o pushed
  BY <1>0, <1>a DEF MD!MergedArray, MD!Places, MD!Pushed
<1>2. /\ Len(s) \in Nat /\ Len(old) \in Nat /\ Len(new) \in Nat
      /\ DOMAIN s = 1..Len(s)
      /\ Len(old) <= Len(new)
  BY <1>0 DEF CopiedArray
<1>3. PICK U : kept \in Seq(U)
  <2> DEFINE U == {kept[i] : i \in DOMAIN s}
  <2>1. kept \in [1..Len(s) -> U]
    BY <1>2
  <2> HIDE DEF kept
  <2> QED BY <1>2, <2>1, SeqDef
<1>4. Len(kept) = Len(s)
  BY <1>2
<1>5. /\ pushed \in Seq(El) /\ Len(pushed) = Len(new) - Len(old)
      /\ \A i \in 1..Len(new) - Len(old) : pushed[i] = new[Len(old) + i]
  BY <1>2, SuffixProperties
<1>6. \A i \in 1..Len(s) : kept[i] = IF i \in 1..Len(old) /\ old[i] # new[i]
                             THEN MD!MergedElement(old[i], new[i], s[i]) ELSE s[i]
  BY <1>2
<1> HIDE DEF kept, pushed
<1>7. kept \in Seq(U \cup El) /\ pushed \in Seq(U \cup El)
  BY <1>3, <1>5
<1>8. /\ m \in Seq(U \cup El)
      /\ Len(m) = Len(kept) + Len(pushed)
      /\ \A i \in 1..Len(kept) : m[i] = kept[i]
      /\ \A i \in 1..Len(pushed) : m[Len(kept) + i] = pushed[i]
  BY <1>1, <1>7, ConcatParts
<1>9. DOMAIN m = 1..Len(m) /\ m = [i \in DOMAIN m |-> m[i]]
  BY <1>8
<1>10. Len(m) = Len(s) + (Len(new) - Len(old))
  BY <1>4, <1>5, <1>8
<1>11. /\ \A i \in 1..Len(s) : m[i] = kept[i]
       /\ \A i \in 1..Len(new) - Len(old) : m[Len(s) + i] = new[Len(old) + i]
  <2>1. \A i \in 1..Len(s) : m[i] = kept[i]
    BY <1>4, <1>8
  <2>2. Len(pushed) = Len(new) - Len(old)
    BY <1>5
  <2>3. \A i \in 1..Len(new) - Len(old) : m[Len(kept) + i] = pushed[i]
    BY <1>8, <2>2
  <2> QED BY <1>4, <1>5, <2>1, <2>3
<1>12. MergedByPlace(old, new, s, m)
  BY <1>6, <1>9, <1>10, <1>11 DEF MergedByPlace
<1> QED BY <1>0, <1>a, <1>12

\* The array to which elements were pushed, or nothing was done.
LEMMA MergedPushes ==
    ASSUME NEW El, NEW q, NEW a, NEW ext \in Seq(El),
           stored[a] \in Seq(El), q.old[a] \in Seq(El), q.new[a] = q.old[a] \o ext
    PROVE  /\ MD!MergedArray(q, a) = stored[a] \o ext
           /\ MD!Pushed(q, a) = ext
           /\ ~ MD!ElementsChanged(q, a)
<1>0. PICK s \in Seq(El), old \in Seq(El) : s = stored[a] /\ old = q.old[a]
  OBVIOUS
<1> DEFINE new == old \o ext
<1>1. /\ new \in Seq(El) /\ Len(new) = Len(old) + Len(ext)
      /\ \A i \in 1..Len(old) : new[i] = old[i]
      /\ \A i \in 1..Len(ext) : new[Len(old) + i] = ext[i]
  BY ConcatParts
<1>2. Len(s) \in Nat /\ Len(old) \in Nat /\ Len(ext) \in Nat
  OBVIOUS
<1>3. q.new[a] = new
  BY <1>0
<1> HIDE DEF new
<1>4. \A i \in 1..Len(old) : new[i] = old[i]
  BY <1>1, <1>2
<1>5. \A i \in 1..Len(ext) : new[Len(old) + i] = ext[i]
  BY <1>1
<1>6. ~ MD!ElementsChanged(q, a)
  BY <1>0, <1>3, <1>4 DEF MD!ElementsChanged, MD!Places
<1>7. MD!Pushed(q, a) = ext
  <2> DEFINE p == SubSeq(new, Len(old) + 1, Len(new))
  <2>1. /\ p \in Seq(El) /\ Len(p) = Len(ext)
        /\ \A i \in 1..Len(ext) : p[i] = new[Len(old) + i]
    BY <1>1, <1>2, SuffixProperties
  <2> HIDE DEF p
  <2>2. p = ext
    BY <1>5, <2>1, SeqEqual
  <2> QED BY <1>0, <1>3, <2>2 DEF p, MD!Pushed
<1>8. MD!MergedArray(q, a) = [i \in DOMAIN s |-> s[i]] \o ext
  <2> DEFINE el(i) == IF i \in MD!Places(q, a) /\ q.old[a][i] # q.new[a][i]
                      THEN MD!MergedElement(q.old[a][i], q.new[a][i], s[i]) ELSE s[i]
  <2>1. MD!MergedArray(q, a) = [i \in DOMAIN s |-> el(i)] \o ext
    BY <1>0, <1>7 DEF MD!MergedArray
  <2>2. \A i \in DOMAIN s : el(i) = s[i]
    BY <1>0, <1>3, <1>4 DEF MD!Places
  <2> HIDE DEF el
  <2>3. [i \in DOMAIN s |-> el(i)] = [i \in DOMAIN s |-> s[i]]
    BY <2>2
  <2> QED BY <2>1, <2>3
<1>9. [i \in DOMAIN s |-> s[i]] = s
  OBVIOUS
<1>10. MD!MergedArray(q, a) = s \o ext
  BY <1>8, <1>9
<1> QED BY <1>0, <1>6, <1>7, <1>10

\* The array that was left alone.
LEMMA MergedUntouched ==
    ASSUME NEW El, NEW q, NEW a, stored[a] \in Seq(El), q.old[a] \in Seq(El),
           q.new[a] = q.old[a]
    PROVE  /\ MD!MergedArray(q, a) = stored[a]
           /\ MD!Pushed(q, a) = << >>
           /\ ~ MD!ElementsChanged(q, a)
<1>1. PICK none \in Seq(El) : none = << >>
  <2>1. << >> \in Seq(El)
    OBVIOUS
  <2> QED BY <2>1
<1>2. q.old[a] \o none = q.old[a] /\ stored[a] \o none = stored[a]
  BY <1>1, ConcatEmptySeq
<1>3. q.new[a] = q.old[a] \o none
  BY <1>2
<1> QED BY <1>1, <1>2, <1>3, MergedPushes

-----------------------------------------------------------------------------
\* What a save does, apart from the bound.
Saved(r, A, w) ==
    /\ copy[r] # Nothing
    /\ stored # Nothing
    /\ MD!Accepted(copy[r], A)
    /\ stored' = MD!Merged(copy[r], A)
    /\ copy' = [copy EXCEPT ![r] = Nothing]
    /\ world' = w
    /\ saves' = saves + 1

\* It is so for the instance of each model.
LEMMA RatingSaves == \A r, A, w : R!SaveCopy(r, A, w) => Saved(r, A, w)
BY DEF Saved, R!SaveCopy, R!Accepted, R!ComparesVersion, R!ElementsChanged, R!Places,
       R!Merged, R!CountsVersion, R!Pushed, R!MergedArray, R!MergedElement,
       MD!Accepted, MD!ComparesVersion, MD!ElementsChanged, MD!Places,
       MD!Merged, MD!CountsVersion, MD!Pushed, MD!MergedArray, MD!MergedElement

LEMMA DocumentSaves == \A r, A, w : D!SaveCopy(r, A, w) => Saved(r, A, w)
BY DEF Saved, D!SaveCopy, D!Accepted, D!ComparesVersion, D!ElementsChanged, D!Places,
       D!Merged, D!CountsVersion, D!Pushed, D!MergedArray, D!MergedElement,
       MD!Accepted, MD!ComparesVersion, MD!ElementsChanged, MD!Places,
       MD!Merged, MD!CountsVersion, MD!Pushed, MD!MergedArray, MD!MergedElement

LEMMA InvoiceSaves == \A r, A, w : I!SaveCopy(r, A, w) => Saved(r, A, w)
BY DEF Saved, I!SaveCopy, I!Accepted, I!ComparesVersion, I!ElementsChanged, I!Places,
       I!Merged, I!CountsVersion, I!Pushed, I!MergedArray, I!MergedElement,
       MD!Accepted, MD!ComparesVersion, MD!ElementsChanged, MD!Places,
       MD!Merged, MD!CountsVersion, MD!Pushed, MD!MergedArray, MD!MergedElement

LEMMA TaxSaves == \A r, A, w : T!SaveCopy(r, A, w) => Saved(r, A, w)
BY DEF Saved, T!SaveCopy, T!Accepted, T!ComparesVersion, T!ElementsChanged, T!Places,
       T!Merged, T!CountsVersion, T!Pushed, T!MergedArray, T!MergedElement,
       MD!Accepted, MD!ComparesVersion, MD!ElementsChanged, MD!Places,
       MD!Merged, MD!CountsVersion, MD!Pushed, MD!MergedArray, MD!MergedElement

LEMMA TemplateSaves == \A r, A, w : RT!SaveCopy(r, A, w) => Saved(r, A, w)
BY DEF Saved, RT!SaveCopy, RT!Accepted, RT!ComparesVersion, RT!ElementsChanged, RT!Places,
       RT!Merged, RT!CountsVersion, RT!Pushed, RT!MergedArray, RT!MergedElement,
       MD!Accepted, MD!ComparesVersion, MD!ElementsChanged, MD!Places,
       MD!Merged, MD!CountsVersion, MD!Pushed, MD!MergedArray, MD!MergedElement

LEMMA PreferenceSaves == \A r, A, w : UP!SaveCopy(r, A, w) => Saved(r, A, w)
BY DEF Saved, UP!SaveCopy, UP!Accepted, UP!ComparesVersion, UP!ElementsChanged, UP!Places,
       UP!Merged, UP!CountsVersion, UP!Pushed, UP!MergedArray, UP!MergedElement,
       MD!Accepted, MD!ComparesVersion, MD!ElementsChanged, MD!Places,
       MD!Merged, MD!CountsVersion, MD!Pushed, MD!MergedArray, MD!MergedElement

LEMMA DeviceSaves == \A r, A, w : DV!SaveCopy(r, A, w) => Saved(r, A, w)
BY DEF Saved, DV!SaveCopy, DV!Accepted, DV!ComparesVersion, DV!ElementsChanged, DV!Places,
       DV!Merged, DV!CountsVersion, DV!Pushed, DV!MergedArray, DV!MergedElement,
       MD!Accepted, MD!ComparesVersion, MD!ElementsChanged, MD!Places,
       MD!Merged, MD!CountsVersion, MD!Pushed, MD!MergedArray, MD!MergedElement

-----------------------------------------------------------------------------
(***************************************************************************)
(* Ratings. Scores are assigned as a whole, which a save may do only at    *)
(* the version its copy was read at, and every such save counts the        *)
(* version up; so a copy of the stored version has the stored scores and   *)
(* the stored average.                                                     *)
(***************************************************************************)
RatingDocs == [status : R!Statuses, scores : ScoreLists,
               average : {R!Average(scores) : scores \in ScoreLists},
               response : BOOLEAN, version : Nat]

AverageAgrees(d) == d.average = R!Average(d.scores)

\* A method leaves scores and average alone or assigns both.
RatingCopy(q, d) ==
    /\ q.old \in RatingDocs /\ q.new \in RatingDocs
    /\ \/ q.whole = {} /\ q.new.scores = q.old.scores /\ q.new.average = q.old.average
       \/ q.whole = {"scores"} /\ AverageAgrees(q.new)
    /\ q.old.version <= d.version
    /\ q.old.version = d.version => q.old.scores = d.scores /\ q.old.average = d.average

RatingInv ==
    /\ stored \in RatingDocs
    /\ AverageAgrees(stored)
    /\ DOMAIN copy = Requests
    /\ \A r \in Requests : copy[r] # Nothing => RatingCopy(copy[r], stored)

\* What an accepted save stores: a rating whose average is that of its scores, and
\* which has another version if they changed.
LEMMA RatingMerged ==
    ASSUME stored \in RatingDocs, AverageAgrees(stored),
           NEW q, RatingCopy(q, stored), MD!Accepted(q, {"scores"})
    PROVE  LET d == MD!Merged(q, {"scores"})
           IN  /\ d \in RatingDocs
               /\ AverageAgrees(d)
               /\ stored.version <= d.version
               /\ d.version = stored.version =>
                      d.scores = stored.scores /\ d.average = stored.average
<1> DEFINE Scores == Seq([score : 1..5, weight : Nat])
<1>1. PICK d : d = MD!Merged(q, {"scores"})
  OBVIOUS
<1>2. PICK count \in {0, 1} : count = IF MD!CountsVersion(q, {"scores"}) THEN 1 ELSE 0
  OBVIOUS
<1>3. /\ "version" \notin {"scores"} \cup q.whole
      /\ q.old \in RatingDocs /\ q.new \in RatingDocs
  BY DEF RatingCopy
<1>4. DOMAIN stored = {"status", "scores", "average", "response", "version"}
  BY DEF RatingDocs
<1>5. /\ DOMAIN d = DOMAIN stored
      /\ d.version = stored.version + count
      /\ d.status = IF q.old.status = q.new.status THEN stored.status ELSE q.new.status
      /\ d.average = IF q.old.average = q.new.average THEN stored.average ELSE q.new.average
      /\ d.response = IF q.old.response = q.new.response THEN stored.response
                      ELSE q.new.response
      /\ q.whole = {"scores"} => d.scores = q.new.scores
      /\ q.whole = {} => d.scores = MD!MergedArray(q, "scores")
  <2>1. \A f \in {"status", "average", "response"} : f \notin {"scores"} \cup q.whole \cup {"version"}
    BY DEF RatingCopy
  <2> QED BY <1>1, <1>2, <1>3, <1>4, <2>1, MergedFields
<1>6. d.version \in Nat /\ stored.version <= d.version
  BY <1>2, <1>5 DEF RatingDocs
<1>7. d.status \in R!Statuses /\ d.response \in BOOLEAN
      /\ d.average \in {R!Average(scores) : scores \in ScoreLists}
  BY <1>3, <1>5 DEF RatingDocs
<1>8. ASSUME d.scores \in ScoreLists
      PROVE  d \in RatingDocs
  <2>1. d = [status |-> d.status, scores |-> d.scores, average |-> d.average,
             response |-> d.response, version |-> d.version]
    BY <1>1, <1>4, <1>5 DEF MD!Merged
  <2> QED BY <1>6, <1>7, <1>8, <2>1 DEF RatingDocs
<1>9. CASE q.whole = {}
  <2>1. q.new.scores = q.old.scores /\ q.new.average = q.old.average
    BY <1>9 DEF RatingCopy
  <2>2. stored.scores \in Scores /\ q.old.scores \in Scores
    BY <1>3, ScoresAssumption DEF RatingDocs
  <2>3. MD!MergedArray(q, "scores") = stored.scores
    <3>1. PICK El : El = [score : 1..5, weight : Nat]
      OBVIOUS
    <3>2. stored["scores"] \in Seq(El) /\ q.old["scores"] \in Seq(El)
          /\ q.new["scores"] = q.old["scores"]
      BY <2>1, <2>2, <3>1
    <3> QED BY <3>2, MergedUntouched
  <2>5. d.scores = stored.scores
    BY <1>5, <1>9, <2>3
  <2>6. d.average = stored.average
    BY <1>5, <2>1
  <2> QED BY <1>1, <1>6, <1>8, <2>5, <2>6 DEF AverageAgrees, RatingDocs
<1>10. CASE q.whole = {"scores"}
  <2>1. q.old.version = stored.version
    BY <1>10 DEF MD!Accepted, MD!ComparesVersion
  <2>2. q.old.average = stored.average /\ AverageAgrees(q.new)
    BY <1>10, <2>1 DEF RatingCopy
  <2>3. d.scores = q.new.scores /\ d.average = q.new.average
    BY <1>5, <1>10, <2>2
  <2>4. d.version = stored.version + 1
    BY <1>2, <1>5, <1>10 DEF MD!CountsVersion
  <2>5. d.version # stored.version
    BY <2>4 DEF RatingDocs
  <2> QED BY <1>1, <1>3, <1>6, <1>8, <2>2, <2>3, <2>5 DEF AverageAgrees, RatingDocs
<1> QED BY <1>9, <1>10 DEF RatingCopy

\* The copy a request starts with is of the stored version.
LEMMA RatingChange ==
    ASSUME RatingInv, NEW r \in Requests, NEW op, NEW new \in RatingDocs, NEW whole,
           R!Change(r, op, new, whole),
           \/ whole = {} /\ new.scores = stored.scores /\ new.average = stored.average
           \/ whole = {"scores"} /\ AverageAgrees(new)
    PROVE  RatingInv'
<1>1. PICK q : q = [op |-> op, old |-> stored, new |-> new, whole |-> whole]
  OBVIOUS
<1>2. stored' = stored /\ copy' = [copy EXCEPT ![r] = q]
  BY <1>1 DEF R!Change, R!Copy
<1>3. RatingCopy(q, stored)
  BY <1>1 DEF RatingInv, RatingCopy, RatingDocs
<1>4. ASSUME NEW s \in Requests, copy'[s] # Nothing
      PROVE  RatingCopy(copy'[s], stored')
  BY <1>2, <1>3, <1>4 DEF RatingInv
<1> QED BY <1>2, <1>4 DEF RatingInv

\* A rating with other scores, and the average of them; with another status.
LEMMA RatingWithScores ==
    ASSUME NEW d \in RatingDocs, NEW scores \in ScoreLists
    PROVE  /\ R!WithScores(d, scores) \in RatingDocs
           /\ AverageAgrees(R!WithScores(d, scores))
BY DEF R!WithScores, RatingDocs, AverageAgrees

LEMMA RatingWithStatus ==
    ASSUME NEW d \in RatingDocs, NEW status \in R!Statuses
    PROVE  LET e == [d EXCEPT !.status = status]
           IN  e \in RatingDocs /\ e.scores = d.scores /\ e.average = d.average
BY DEF RatingDocs

\* A method that assigns the status.
LEMMA RatingStatusStep ==
    ASSUME RatingInv, NEW r \in Requests, NEW op, NEW status \in R!Statuses,
           R!Change(r, op, [stored EXCEPT !.status = status], {})
    PROVE  RatingInv'
<1>1. stored \in RatingDocs
  BY DEF RatingInv
<1> QED BY <1>1, RatingWithStatus, RatingChange

LEMMA RatingSave ==
    ASSUME RatingInv, NEW r \in Requests, R!Save(r)
    PROVE  RatingInv'
<1>1. Saved(r, {"scores"}, world)
  BY RatingSaves DEF R!Save, R!Arrays
<1>2. RatingCopy(copy[r], stored) /\ stored \in RatingDocs /\ AverageAgrees(stored)
  BY <1>1 DEF RatingInv, Saved
<1>3. /\ stored' \in RatingDocs
      /\ AverageAgrees(stored')
      /\ stored.version <= stored'.version
      /\ stored'.version = stored.version =>
             stored'.scores = stored.scores /\ stored'.average = stored.average
  BY <1>1, <1>2, RatingMerged DEF Saved
<1>4. ASSUME NEW s \in Requests, copy'[s] # Nothing
      PROVE  RatingCopy(copy'[s], stored')
  <2>1. copy'[s] = copy[s]
    BY <1>1, <1>4 DEF RatingInv, Saved
  <2>2. PICK q : q = copy[s] /\ RatingCopy(q, stored)
    BY <1>4, <2>1 DEF RatingInv
  <2>3. q.old.version \in Nat /\ stored.version \in Nat /\ stored'.version \in Nat
    BY <1>2, <1>3, <2>2 DEF RatingCopy, RatingDocs
  <2>4. RatingCopy(q, stored')
    BY <1>3, <2>2, <2>3 DEF RatingCopy
  <2> QED BY <2>1, <2>2, <2>4
<1> QED BY <1>1, <1>3, <1>4 DEF RatingInv, Saved

LEMMA RatingStays ==
    ASSUME RatingInv, stored' = stored, DOMAIN copy' = Requests,
           \A r \in Requests : copy'[r] \in {copy[r], Nothing}
    PROVE  RatingInv'
BY DEF RatingInv

LEMMA RatingFirst == R!Init => RatingInv
<1> SUFFICES ASSUME R!Init PROVE RatingInv
  OBVIOUS
<1>1. PICK scores \in ScoreLists :
          stored = R!WithScores([status |-> "pending", scores |-> scores, average |-> 0,
                                 response |-> FALSE, version |-> 0], scores)
  BY DEF R!Init
<1>2. stored = [status |-> "pending", scores |-> scores, average |-> R!Average(scores),
                response |-> FALSE, version |-> 0]
  BY <1>1 DEF R!WithScores
<1>3. stored \in RatingDocs /\ AverageAgrees(stored)
  BY <1>2 DEF RatingDocs, R!Statuses, AverageAgrees
<1>4. copy = [r \in Requests |-> Nothing]
  BY DEF R!Init, R!NoCopies
<1> QED BY <1>3, <1>4 DEF RatingInv

LEMMA RatingNext == RatingInv /\ [R!Next]_(R!document) => RatingInv'
<1> SUFFICES ASSUME RatingInv, [R!Next]_(R!document) PROVE RatingInv'
  OBVIOUS
<1>1. stored \in RatingDocs
  BY DEF RatingInv
<1>2. {"published", "disputed", "deleted"} \subseteq R!Statuses
  BY DEF R!Statuses
<1>3. ASSUME NEW r \in Requests, NEW scores \in ScoreLists, R!UpdateRating(r, scores)
      PROVE  RatingInv'
  BY <1>1, <1>3, RatingWithScores, RatingChange DEF R!UpdateRating, R!Arrays
<1>4. ASSUME NEW r \in Requests, NEW scores \in ScoreLists,
             NEW action \in {"keep", "modify", "delete"}, R!ResolveDispute(r, action, scores)
      PROVE  RatingInv'
  <2>1. CASE action \in {"keep", "delete"}
    BY <1>2, <1>4, <2>1, RatingStatusStep DEF R!ResolveDispute
  <2>2. CASE action = "modify"
    <3>1. PICK d : d = [stored EXCEPT !.status = "published"]
      OBVIOUS
    <3>2. d \in RatingDocs
      BY <1>1, <1>2, <3>1, RatingWithStatus
    <3>3. R!Change(r, "resolveDispute", R!WithScores(d, scores), {"scores"})
      BY <1>4, <2>2, <3>1 DEF R!ResolveDispute, R!Arrays
    <3> QED BY <3>2, <3>3, RatingWithScores, RatingChange
  <2> QED BY <2>1, <2>2
<1>5. ASSUME NEW r \in Requests, R!UpdateTexts(r) PROVE RatingInv'
  BY <1>1, <1>5, RatingChange DEF R!UpdateTexts
<1>6. ASSUME NEW r \in Requests, R!PublishRating(r) \/ R!DisputeRating(r) \/ R!DeleteRating(r)
      PROVE  RatingInv'
  BY <1>2, <1>6, RatingStatusStep DEF R!PublishRating, R!DisputeRating, R!DeleteRating
<1>7. ASSUME NEW r \in Requests, R!AddResponse(r) PROVE RatingInv'
  <2>1. PICK d : d = [stored EXCEPT !.response = TRUE]
    OBVIOUS
  <2>2. d \in RatingDocs /\ d.scores = stored.scores /\ d.average = stored.average
    BY <1>1, <2>1 DEF RatingDocs
  <2>3. R!Change(r, "addResponse", d, {})
    BY <1>7, <2>1 DEF R!AddResponse
  <2> QED BY <2>2, <2>3, RatingChange
<1>8. ASSUME NEW r \in Requests, R!Save(r) PROVE RatingInv'
  BY <1>8, RatingSave
<1>9. ASSUME NEW r \in Requests, R!AbortCopy(r) PROVE RatingInv'
  BY <1>9, RatingStays DEF R!AbortCopy, RatingInv
<1>10. CASE R!FourteenDaysPass \/ UNCHANGED R!document
  BY <1>10, RatingStays DEF R!FourteenDaysPass, R!WorldChanges, R!document, RatingInv
<1> QED BY <1>3, <1>4, <1>5, <1>6, <1>7, <1>8, <1>9, <1>10 DEF R!Next

-----------------------------------------------------------------------------
(***************************************************************************)
(* Sums. The facts about them need induction over the naturals, stated for *)
(* a set instead of a predicate: the property to be proved is put as the   *)
(* set of the numbers that have it.                                        *)
(***************************************************************************)

\* A nonempty set of naturals has a least element.
LEMMA LeastOfNaturals ==
    ASSUME NEW X \in SUBSET Nat, X # {}
    PROVE  \E x \in X : \A y \in X : x <= y
<1>1. PICK x \in X : \A y \in X : <<y, x>> \notin OpToRel(<, Nat)
  BY NatLessThanWellFounded, WFMin
<1>2. ASSUME NEW y \in X PROVE x <= y
  <2>1. <<y, x>> \in OpToRel(<, Nat) <=> y < x
    BY Zenon DEF OpToRel
  <2>2. ~(y < x)
    BY <1>1, <2>1, Zenon
  <2> QED BY <2>2
<1> QED BY <1>2

\* A set of naturals that contains 0 and, with every member, its successor is all of Nat.
LEMMA NatSetInduction ==
    ASSUME NEW W, 0 \in W, \A n \in Nat : n \in W => n + 1 \in W
    PROVE  Nat \subseteq W
<1>1. SUFFICES ASSUME Nat \ W # {} PROVE FALSE
  OBVIOUS
<1>2. PICK x \in Nat \ W : \A y \in Nat \ W : x <= y
  BY <1>1, LeastOfNaturals
<1>3. x # 0 /\ x - 1 \in Nat
  BY <1>2
<1>4. x - 1 \notin Nat \ W /\ (x - 1) + 1 = x
  BY <1>2, <1>3
<1> QED BY <1>2, <1>3, <1>4

\* The recursion equation of the partial sums of h up to n.
IsSums(g, h, n) == g = [i \in 0..n |-> IF i = 0 THEN 0 ELSE g[i-1] + h[i]]

\* There are partial sums up to every number.
LEMMA SumsExist == \A h : \A n \in Nat : \E g : IsSums(g, h, n)
<1> TAKE h
<1> DEFINE W == {n \in Nat : \E g : IsSums(g, h, n)}
<1>1. 0 \in W
  <2>1. IsSums([i \in 0..0 |-> 0], h, 0)
    BY DEF IsSums
  <2> QED BY <2>1
<1>2. ASSUME NEW n \in Nat, n \in W PROVE n + 1 \in W
  <2>1. PICK g : IsSums(g, h, n)
    BY <1>2
  <2> DEFINE f == [i \in 0..n+1 |-> IF i = n + 1 THEN g[n] + h[n+1] ELSE g[i]]
  <2>2. ASSUME NEW i \in 0..n+1 PROVE f[i] = IF i = 0 THEN 0 ELSE f[i-1] + h[i]
    <3>1. CASE i = 0
      BY <2>1, <3>1 DEF IsSums
    <3>2. CASE i = n + 1
      BY <3>2
    <3>3. CASE i \in 1..n
      <4>1. f[i] = g[i] /\ f[i-1] = g[i-1]
        BY <3>3
      <4>2. g[i] = g[i-1] + h[i]
        BY <2>1, <3>3 DEF IsSums
      <4> QED BY <3>3, <4>1, <4>2
    <3> QED BY <3>1, <3>2, <3>3
  <2>3. IsSums(f, h, n + 1)
    BY <2>2 DEF IsSums
  <2> HIDE DEF f
  <2> QED BY <2>3
<1> HIDE DEF W
<1>3. Nat \subseteq W
  BY <1>1, <1>2, NatSetInduction
<1> QED BY <1>3 DEF W

\* Partial sums of integers are integers, and those up to n and up to n + 1
\* agree up to n.
LEMMA SumsValues ==
    ASSUME NEW n \in Nat, NEW h, \A i \in 1..n : h[i] \in Int,
           NEW g, IsSums(g, h, n)
    PROVE  /\ \A i \in 0..n : g[i] \in Int
           /\ \A m \in n..n+1 : \A f : IsSums(f, h, m) => \A i \in 0..n : f[i] = g[i]
<1> DEFINE W == {i \in Nat : i \in 0..n => g[i] \in Int}
<1>1. 0 \in W
  BY DEF IsSums
<1>2. ASSUME NEW i \in Nat, i \in W PROVE i + 1 \in W
  <2>1. SUFFICES ASSUME i + 1 \in 0..n PROVE g[i+1] \in Int
    BY <1>2
  <2>2. g[i+1] = g[i] + h[i+1]
    BY <2>1 DEF IsSums
  <2> QED BY <1>2, <2>1, <2>2
<1>3. Nat \subseteq W
  <2> HIDE DEF W
  <2> QED BY <1>1, <1>2, NatSetInduction
<1>4. ASSUME NEW m \in n..n+1, NEW f, IsSums(f, h, m)
      PROVE  \A i \in 0..n : f[i] = g[i]
  <2> DEFINE V == {i \in Nat : i \in 0..n => f[i] = g[i]}
  <2>1. 0 \in V
    BY <1>4 DEF IsSums
  <2>2. ASSUME NEW i \in Nat, i \in V PROVE i + 1 \in V
    <3>1. SUFFICES ASSUME i + 1 \in 0..n PROVE f[i+1] = g[i+1]
      BY <2>2
    <3>2. g[i+1] = g[i] + h[i+1] /\ f[i+1] = f[i] + h[i+1]
      BY <1>4, <3>1 DEF IsSums
    <3> QED BY <2>2, <3>1, <3>2
  <2>3. Nat \subseteq V
    <3> HIDE DEF V
    <3> QED BY <2>1, <2>2, NatSetInduction
  <2> QED BY <2>3
<1> QED BY <1>3, <1>4

LEMMA SumToDef == ASSUME NEW n \in Nat, NEW h
                  PROVE  \E g : IsSums(g, h, n) /\ SumTo(h, n) = g[n]
<1> DEFINE c == CHOOSE g : IsSums(g, h, n)
<1>1. IsSums(c, h, n)
  BY SumsExist
<1>2. SumTo(h, n) = c[n]
  BY DEF SumTo, IsSums
<1> HIDE DEF c
<1> QED BY <1>1, <1>2

\* A sum of integers is an integer.
LEMMA SumToType == ASSUME NEW n \in Nat, NEW h, \A i \in 1..n : h[i] \in Int
                     PROVE  SumTo(h, n) \in Int
BY SumToDef, SumsValues

\* The sum of nothing, and the sum with one more term.
LEMMA SumToStep ==
    /\ \A h : SumTo(h, 0) = 0
    /\ \A n \in Nat : \A h : (\A i \in 1..n : h[i] \in Int)
          => SumTo(h, n + 1) = SumTo(h, n) + h[n+1]
<1>1. ASSUME NEW h PROVE SumTo(h, 0) = 0
  BY SumToDef DEF IsSums
<1>2. ASSUME NEW n \in Nat, NEW h, \A i \in 1..n : h[i] \in Int
      PROVE  SumTo(h, n + 1) = SumTo(h, n) + h[n+1]
  <2>1. PICK g : IsSums(g, h, n) /\ SumTo(h, n) = g[n]
    BY SumToDef
  <2>2. PICK f : IsSums(f, h, n + 1) /\ SumTo(h, n + 1) = f[n+1]
    BY SumToDef
  <2>3. f[n] = g[n]
    BY <1>2, <2>1, <2>2, SumsValues
  <2>4. f[n+1] = f[n] + h[n+1]
    BY <2>2 DEF IsSums
  <2> QED BY <2>1, <2>2, <2>3, <2>4
<1> QED BY <1>1, <1>2

\* A sum depends on its terms only.
LEMMA SumToAgrees ==
    ASSUME NEW n \in Nat, NEW h, NEW f, \A i \in 1..n : h[i] \in Int /\ f[i] = h[i]
    PROVE  SumTo(f, n) = SumTo(h, n)
<1>1. PICK g : IsSums(g, h, n) /\ SumTo(h, n) = g[n]
  BY SumToDef
<1>2. PICK k : IsSums(k, f, n) /\ SumTo(f, n) = k[n]
  BY SumToDef
<1>3. IsSums(k, h, n)
  <2>1. \A i \in 0..n : k[i] = IF i = 0 THEN 0 ELSE k[i-1] + h[i]
    BY <1>2 DEF IsSums
  <2>2. k = [i \in 0..n |-> k[i]]
    BY <1>2 DEF IsSums
  <2> QED BY <2>1, <2>2 DEF IsSums
<1>4. k[n] = g[n]
  BY <1>1, <1>3, SumsValues
<1> QED BY <1>1, <1>2, <1>4

-----------------------------------------------------------------------------
(* Sums of sequences. *)

\* One more amount.
LEMMA SumAppend ==
    ASSUME NEW s \in Seq(Nat), NEW n \in Nat
    PROVE  /\ I!SumOf(s) \in Int
           /\ I!SumOf(s \o <<n>>) = I!SumOf(s) + n
<1>1. PICK t : t = s \o <<n>>
  OBVIOUS
<1>2. PICK k \in Nat : k = Len(s)
  OBVIOUS
<1>3. /\ t \in Seq(Nat) /\ Len(t) = k + 1
      /\ \A i \in 1..k : t[i] = s[i]
      /\ t[k + 1] = n
  BY <1>1, <1>2
<1>4. \A i \in 1..k : s[i] \in Int /\ t[i] \in Int
  BY <1>2, <1>3
<1>5. I!SumOf(s) = SumTo(s, k) /\ I!SumOf(t) = SumTo(t, k + 1)
  BY <1>2, <1>3 DEF I!SumOf, I!SumTo, SumTo
<1>6. SumTo(t, k + 1) = SumTo(t, k) + t[k + 1]
  BY <1>4, SumToStep
<1>7. SumTo(t, k) = SumTo(s, k) /\ SumTo(s, k) \in Int
  BY <1>3, <1>4, SumToAgrees, SumToType
<1> QED BY <1>1, <1>3, <1>5, <1>6, <1>7

\* What begins as s sums up to as much at least.
LEMMA SumPrefix ==
    ASSUME NEW s \in Seq(Nat), NEW t \in Seq(Nat), Len(s) <= Len(t),
           \A i \in 1..Len(s) : s[i] = t[i]
    PROVE  I!SumOf(s) <= I!SumOf(t)
<1>1. PICK k \in Nat, l \in Nat : k = Len(s) /\ l = Len(t)
  OBVIOUS
<1>2. \A i \in 1..l : t[i] \in Nat
  BY <1>1
<1>3. \A i \in 1..k : s[i] \in Int /\ t[i] = s[i]
  BY <1>1
<1>4. I!SumOf(s) = SumTo(s, k) /\ I!SumOf(t) = SumTo(t, l)
  BY <1>1 DEF I!SumOf, I!SumTo, SumTo
<1>5. SumTo(t, k) = SumTo(s, k)
  BY <1>3, SumToAgrees
<1> DEFINE El == {m \in Nat : k + m <= l => SumTo(t, k) <= SumTo(t, k + m)}
<1>6. 0 \in El
  <2>1. SumTo(t, k) \in Int
    BY <1>1, <1>2, SumToType
  <2> QED BY <2>1
<1>7. ASSUME NEW m \in Nat, m \in El PROVE m + 1 \in El
  <2>1. SUFFICES ASSUME k + (m + 1) <= l PROVE SumTo(t, k) <= SumTo(t, k + (m + 1))
    OBVIOUS
  <2>2. PICK j \in Nat : j = k + m /\ j + 1 = k + (m + 1)
    OBVIOUS
  <2>3. \A i \in 1..j : t[i] \in Int
    BY <1>2, <2>1, <2>2
  <2>4. SumTo(t, j + 1) = SumTo(t, j) + t[j + 1] /\ SumTo(t, j) \in Int
    BY <2>3, SumToStep, SumToType
  <2>5. t[j + 1] \in Nat
    BY <1>2, <2>1, <2>2
  <2>6. SumTo(t, k) <= SumTo(t, j) /\ SumTo(t, k) \in Int
    BY <1>2, <1>7, <2>1, <2>2, SumToType
  <2> QED BY <2>2, <2>4, <2>5, <2>6
<1> HIDE DEF El
<1>8. Nat \subseteq El
  BY <1>6, <1>7, NatSetInduction
<1>9. l - k \in El /\ k + (l - k) = l
  BY <1>1, <1>8
<1> QED BY <1>4, <1>5, <1>9 DEF El

\* A sum of natural numbers is one.
LEMMA SumNat == \A s \in Seq(Nat) : I!SumOf(s) \in Nat
<1> SUFFICES ASSUME NEW s \in Seq(Nat) PROVE I!SumOf(s) \in Nat
  OBVIOUS
<1>1. PICK none \in Seq(Nat) : none = << >> /\ Len(none) = 0
  <2>1. << >> \in Seq(Nat) /\ Len(<< >>) = 0
    OBVIOUS
  <2> QED BY <2>1
<1>2. I!SumOf(none) = 0
  <2>1. I!SumOf(none) = SumTo(none, 0)
    BY <1>1 DEF I!SumOf, I!SumTo, SumTo
  <2> QED BY <2>1, SumToStep
<1>3. I!SumOf(none) <= I!SumOf(s)
  <2>1. Len(none) <= Len(s) /\ \A i \in 1..Len(none) : none[i] = s[i]
    BY <1>1
  <2> QED BY <2>1, SumPrefix
<1>4. I!SumOf(s) \in Int
  BY SumAppend
<1> QED BY <1>2, <1>3, <1>4

-----------------------------------------------------------------------------
(***************************************************************************)
(* Invoices. Payments are only appended, so that the payments of a copy    *)
(* are the first ones of the stored invoice; both amounts of a copy belong *)
(* to one calculation, and a save sends both or none.                      *)
(***************************************************************************)
InvoiceDocs == [status : I!Statuses, payments : Seq(Amounts), amountPaid : Int,
                amountDue : Int, version : Nat]

\* The payments of d are the first ones of e.
Begins(d, e) == /\ Len(d.payments) <= Len(e.payments)
                /\ \A i \in 1..Len(d.payments) : d.payments[i] = e.payments[i]

DueAgrees(d) == d.amountDue = Total - d.amountPaid

InvoiceCopy(q, d) ==
    /\ q.old \in InvoiceDocs /\ q.new \in InvoiceDocs
    /\ q.whole \in {{}, {"emailSentTo"}, {"reminders"}}
    /\ Begins(q.old, d)
    /\ DueAgrees(q.old) /\ DueAgrees(q.new)
    /\ IF q.op = "addPayment"
       THEN \E a \in Amounts : q.new.payments = q.old.payments \o <<a>>
       ELSE q.new.payments = q.old.payments
    /\ q.new.amountPaid = I!SumOf(q.new.payments)
    /\ q.new.status = "paid" => I!SumOf(q.new.payments) >= Total

InvoiceInv ==
    /\ stored \in InvoiceDocs
    /\ I!AmountsAgree
    /\ I!PaymentsKept
    /\ I!PaidForAReason
    /\ DOMAIN world = {"late", "paying", "confirmed", "added"}
    /\ world.added \in Int
    /\ world.paying \in {"charged", "recorded"} => world.confirmed
    /\ DOMAIN copy = Requests
    /\ \A r \in Requests : copy[r] # Nothing => InvoiceCopy(copy[r], stored)

LEMMA InvoiceAmounts == Amounts \subseteq Nat /\ Seq(Amounts) \subseteq Seq(Nat)
<1>1. Amounts \subseteq Nat
  BY AmountsAssumption
<1>2. ASSUME NEW s \in Seq(Amounts) PROVE s \in Seq(Nat)
  <2>1. PICK n \in Nat : s \in [1..n -> Amounts]
    BY SeqDef
  <2>2. s \in [1..n -> Nat]
    BY <1>1, <2>1
  <2> QED BY <2>2, SeqDef
<1> QED BY <1>1, <1>2

\* What an accepted save stores.
LEMMA InvoiceMerged ==
    ASSUME stored \in InvoiceDocs, I!AmountsAgree, NEW q, InvoiceCopy(q, stored)
    PROVE  LET d == MD!Merged(q, {"payments"})
               p == MD!Pushed(q, "payments")
           IN  /\ d \in InvoiceDocs
               /\ Begins(stored, d)
               /\ DueAgrees(d) /\ d.amountPaid <= I!SumOf(d.payments)
               /\ I!SumOf(d.payments) = I!SumOf(stored.payments)
                        + (IF q.op = "addPayment" THEN I!SumOf(p) ELSE 0)
               /\ d.status = "paid" => d.status = stored.status \/ I!SumOf(d.payments) >= Total
<1>1. PICK d : d = MD!Merged(q, {"payments"})
  OBVIOUS
<1>2. PICK count \in {0, 1} : count = IF MD!CountsVersion(q, {"payments"}) THEN 1 ELSE 0
  OBVIOUS
<1>3. PICK s \in Seq(Amounts), old \in Seq(Amounts), new \in Seq(Amounts) :
          s = stored["payments"] /\ old = q.old["payments"] /\ new = q.new["payments"]
  BY DEF InvoiceCopy, InvoiceDocs
<1>4. /\ s \in Seq(Nat) /\ old \in Seq(Nat) /\ new \in Seq(Nat)
      /\ I!SumOf(s) \in Int /\ I!SumOf(old) \in Int /\ I!SumOf(new) \in Int
  BY <1>3, InvoiceAmounts, SumAppend
<1>5. PICK ext \in Seq(Amounts) :
          /\ new = old \o ext
          /\ IF q.op = "addPayment" THEN \E a \in Amounts : ext = <<a>> ELSE ext = << >>
  <2>1. CASE q.op = "addPayment"
    <3>1. PICK a \in Amounts : new = old \o <<a>>
      BY <1>3, <2>1 DEF InvoiceCopy
    <3>2. <<a>> \in Seq(Amounts)
      OBVIOUS
    <3> QED BY <2>1, <3>1, <3>2
  <2>2. CASE q.op # "addPayment"
    <3>1. new = old /\ old \o << >> = old
      BY <1>3, <2>2, ConcatEmptySeq DEF InvoiceCopy
    <3>2. << >> \in Seq(Amounts)
      OBVIOUS
    <3> QED BY <2>2, <3>1, <3>2
  <2> QED BY <2>1, <2>2
<1>6. MD!MergedArray(q, "payments") = s \o ext /\ MD!Pushed(q, "payments") = ext
  <2>1. /\ stored["payments"] \in Seq(Amounts) /\ q.old["payments"] \in Seq(Amounts)
        /\ q.new["payments"] = q.old["payments"] \o ext
    BY <1>3, <1>5
  <2> QED BY <1>3, <2>1, MergedPushes
<1>7. "version" \notin {"payments"} \cup q.whole
  BY DEF InvoiceCopy
<1>8. DOMAIN stored = {"status", "payments", "amountPaid", "amountDue", "version"}
  BY DEF InvoiceDocs
<1>9. /\ DOMAIN d = DOMAIN stored
      /\ d.version = stored.version + count
      /\ d.status = IF q.old.status = q.new.status THEN stored.status ELSE q.new.status
      /\ d.amountPaid = IF q.old.amountPaid = q.new.amountPaid THEN stored.amountPaid
                        ELSE q.new.amountPaid
      /\ d.amountDue = IF q.old.amountDue = q.new.amountDue THEN stored.amountDue
                       ELSE q.new.amountDue
      /\ d.payments = MD!MergedArray(q, "payments")
  <2>1. \A f \in {"status", "amountPaid", "amountDue"} :
            f \notin {"payments"} \cup q.whole \cup {"version"}
    BY DEF InvoiceCopy
  <2>2. "payments" \in {"payments"} \ q.whole
    BY DEF InvoiceCopy
  <2> QED BY <1>1, <1>2, <1>7, <1>8, <2>1, <2>2, MergedFields
<1>10. PICK t \in Seq(Amounts) : t = s \o ext /\ t = d.payments
  BY <1>6, <1>9, ConcatParts
<1>11. d \in InvoiceDocs
  <2>1. d = [status |-> d.status, payments |-> d.payments, amountPaid |-> d.amountPaid,
             amountDue |-> d.amountDue, version |-> d.version]
    BY <1>1, <1>8, <1>9 DEF MD!Merged
  <2>2. /\ d.version \in Nat /\ d.status \in I!Statuses
        /\ d.amountPaid \in Int /\ d.amountDue \in Int
    <3>1. stored \in InvoiceDocs /\ q.new \in InvoiceDocs
      BY DEF InvoiceCopy
    <3>2. stored.version \in Nat
      BY <3>1 DEF InvoiceDocs
    <3>3. /\ stored.status \in I!Statuses /\ q.new.status \in I!Statuses
          /\ stored.amountPaid \in Int /\ q.new.amountPaid \in Int
          /\ stored.amountDue \in Int /\ q.new.amountDue \in Int
      BY <3>1 DEF InvoiceDocs
    <3> QED BY <1>2, <1>9, <3>2, <3>3
  <2> QED BY <1>10, <2>1, <2>2 DEF InvoiceDocs
<1>12. Len(s) <= Len(t) /\ \A i \in 1..Len(s) : s[i] = t[i]
  <2>1. /\ Len(s \o ext) = Len(s) + Len(ext)
        /\ \A i \in 1..Len(s) : (s \o ext)[i] = s[i]
    BY ConcatParts
  <2>2. Len(s) <= Len(s) + Len(ext)
    OBVIOUS
  <2> QED BY <1>10, <2>1, <2>2
<1>13. t \in Seq(Nat) /\ I!SumOf(s) <= I!SumOf(t) /\ I!SumOf(t) \in Int
  BY <1>4, <1>12, InvoiceAmounts, SumPrefix, SumAppend
<1>14. I!SumOf(t) = I!SumOf(s) + (IF q.op = "addPayment" THEN I!SumOf(ext) ELSE 0)
       /\ I!SumOf(new) <= I!SumOf(t)
  <2>1. Len(old) <= Len(s) /\ \A i \in 1..Len(old) : old[i] = s[i]
    BY <1>3 DEF InvoiceCopy, Begins
  <2>2. I!SumOf(old) <= I!SumOf(s)
    BY <1>4, <2>1, SumPrefix
  <2>3. CASE q.op = "addPayment"
    <3>1. PICK a \in Nat : ext = <<a>>
      BY <1>5, <2>3, InvoiceAmounts
    <3>2. I!SumOf(t) = I!SumOf(s) + a /\ I!SumOf(new) = I!SumOf(old) + a
      BY <1>4, <1>5, <1>10, <3>1, SumAppend
    <3>3. << >> \in Seq(Nat) /\ << >> \o <<a>> = <<a>>
      OBVIOUS
    <3>4. I!SumOf(<< >>) = 0
      <4>1. Len(<< >>) = 0
        OBVIOUS
      <4> QED BY <4>1, SumToStep DEF I!SumOf, I!SumTo, SumTo
    <3>5. I!SumOf(<<a>>) = a
      <4>1. PICK none \in Seq(Nat) : none = << >>
        BY <3>3
      <4>2. I!SumOf(none \o <<a>>) = I!SumOf(none) + a
        BY SumAppend
      <4> QED BY <3>3, <3>4, <4>1, <4>2
    <3> QED BY <1>4, <2>2, <2>3, <3>1, <3>2, <3>5
  <2>4. CASE q.op # "addPayment"
    <3>1. t = s /\ new = old
      BY <1>5, <1>10, <2>4, ConcatEmptySeq
    <3> QED BY <1>4, <2>2, <2>4, <3>1
  <2> QED BY <2>3, <2>4
<1>15. Begins(stored, d)
  BY <1>3, <1>10, <1>12 DEF Begins
<1>16. DueAgrees(d) /\ d.amountPaid <= I!SumOf(d.payments)
  <2>1. /\ q.new.amountPaid = I!SumOf(new)
        /\ q.new.amountDue = Total - q.new.amountPaid
        /\ q.old.amountDue = Total - q.old.amountPaid
        /\ stored.amountDue = Total - stored.amountPaid
        /\ stored.amountPaid <= I!SumOf(s)
    BY <1>3 DEF InvoiceCopy, DueAgrees, I!AmountsAgree
  <2>2. /\ q.old.amountPaid \in Int /\ q.new.amountPaid \in Int /\ stored.amountPaid \in Int
        /\ Total \in Int
    BY AmountsAssumption DEF InvoiceCopy, InvoiceDocs
  <2>3. CASE q.old.amountPaid = q.new.amountPaid
    BY <1>4, <1>9, <1>10, <1>13, <2>1, <2>2, <2>3 DEF DueAgrees
  <2>4. CASE q.old.amountPaid # q.new.amountPaid
    BY <1>9, <1>10, <1>13, <1>14, <2>1, <2>2, <2>4 DEF DueAgrees
  <2> QED BY <2>3, <2>4
<1>17. d.status = "paid" => d.status = stored.status \/ I!SumOf(d.payments) >= Total
  <2>1. q.new.status = "paid" => I!SumOf(new) >= Total
    BY <1>3 DEF InvoiceCopy
  <2>2. Total \in Int
    BY AmountsAssumption
  <2> QED BY <1>4, <1>9, <1>10, <1>13, <1>14, <2>1, <2>2
<1>18. I!SumOf(d.payments) = I!SumOf(stored.payments)
           + (IF q.op = "addPayment" THEN I!SumOf(MD!Pushed(q, "payments")) ELSE 0)
  BY <1>3, <1>6, <1>10, <1>14
<1> QED BY <1>1, <1>11, <1>15, <1>16, <1>17, <1>18

\* What the hook of a save makes of a copy.
LEMMA InvoiceCalculated ==
    ASSUME NEW d \in InvoiceDocs
    PROVE  LET c == I!Calculated(d)
           IN  /\ c \in InvoiceDocs /\ c.payments = d.payments
               /\ DueAgrees(c)
               /\ c.amountPaid = I!SumOf(d.payments)
               /\ c.status = "paid" => I!SumOf(d.payments) >= Total
<1>1. PICK paid \in Nat : paid = I!SumOf(d.payments)
  BY InvoiceAmounts, SumNat DEF InvoiceDocs
<1>2. PICK status : status = I!StatusOf(d.status, paid)
  OBVIOUS
<1>3. PICK c : c = [d EXCEPT !.amountPaid = paid, !.amountDue = Total - paid, !.status = status]
  OBVIOUS
<1>4. c = I!Calculated(d)
  BY <1>1, <1>2, <1>3 DEF I!Calculated
<1>5. Total \in Nat \ {0}
  BY AmountsAssumption
<1>6. status \in I!Statuses /\ (status = "paid" => paid >= Total)
  <2>1. CASE paid >= Total
    BY <1>2, <1>5, <2>1 DEF I!StatusOf, I!Statuses
  <2>2. CASE paid \in 1..Total - 1
    BY <1>2, <1>5, <2>2 DEF I!StatusOf, I!Statuses
  <2>3. CASE paid = 0
    BY <1>2, <1>5, <2>3 DEF I!StatusOf, I!Statuses
  <2> QED BY <1>1, <1>5, <2>1, <2>2, <2>3
<1>7. c = [status |-> status, payments |-> d.payments, amountPaid |-> paid,
           amountDue |-> Total - paid, version |-> d.version]
  BY <1>3 DEF InvoiceDocs
<1>8. c \in InvoiceDocs
  BY <1>5, <1>6, <1>7 DEF InvoiceDocs
<1> QED BY <1>1, <1>4, <1>6, <1>7, <1>8 DEF DueAgrees

\* The copy a request works on.
LEMMA InvoiceChange ==
    ASSUME InvoiceInv, NEW r \in Requests, NEW op, NEW d \in InvoiceDocs,
           NEW whole \in {{}, {"emailSentTo"}, {"reminders"}},
           I!Change(r, op, I!Calculated(d), whole),
           IF op = "addPayment" THEN \E a \in Amounts : d.payments = stored.payments \o <<a>>
           ELSE d.payments = stored.payments
    PROVE  InvoiceInv'
<1>1. PICK q : q = [op |-> op, old |-> stored, new |-> I!Calculated(d), whole |-> whole]
  OBVIOUS
<1>2. UNCHANGED <<stored, world>> /\ copy' = [copy EXCEPT ![r] = q]
  BY <1>1 DEF I!Change, I!Copy
<1>3. InvoiceCopy(q, stored)
  <2>1. stored \in InvoiceDocs /\ DueAgrees(stored) /\ Begins(stored, stored)
    BY DEF InvoiceInv, I!AmountsAgree, DueAgrees, Begins, InvoiceDocs
  <2> QED BY <1>1, <2>1, InvoiceCalculated DEF InvoiceCopy
<1>4. ASSUME NEW s \in Requests, copy'[s] # Nothing
      PROVE  InvoiceCopy(copy'[s], stored')
  BY <1>2, <1>3, <1>4 DEF InvoiceInv
<1> QED BY <1>2, <1>4 DEF InvoiceInv, I!AmountsAgree, I!PaymentsKept, I!PaidForAReason

\* Steps that leave the payments alone.
LEMMA InvoiceStays ==
    ASSUME InvoiceInv, stored' \in InvoiceDocs, DOMAIN copy' = Requests,
           \A r \in Requests : copy'[r] \in {copy[r], Nothing},
           stored'.payments = stored.payments, stored'.amountPaid = stored.amountPaid,
           stored'.amountDue = stored.amountDue,
           DOMAIN world' = DOMAIN world, world'.added = world.added,
           world.confirmed => world'.confirmed,
           world'.paying \in {"charged", "recorded"} => world'.confirmed,
           stored'.status \in {"paid"} \ {stored.status} => world.confirmed
    PROVE  InvoiceInv'
<1>1. ASSUME NEW s \in Requests, copy'[s] # Nothing
      PROVE  InvoiceCopy(copy'[s], stored')
  <2>1. copy'[s] = copy[s] /\ InvoiceCopy(copy[s], stored)
    BY <1>1 DEF InvoiceInv
  <2> QED BY <2>1 DEF InvoiceCopy, Begins
<1> QED BY <1>1 DEF InvoiceInv, I!AmountsAgree, I!PaymentsKept, I!PaidForAReason

LEMMA InvoiceSave ==
    ASSUME InvoiceInv, NEW r \in Requests, I!Save(r)
    PROVE  InvoiceInv'
<1>1. PICK w : /\ Saved(r, {"payments"}, w)
               /\ w = IF copy[r].op = "addPayment"
                      THEN [world EXCEPT !.added = @ + I!SumOf(MD!Pushed(copy[r], "payments"))]
                      ELSE world
  BY InvoiceSaves DEF I!Save, I!Arrays, I!Pushed, MD!Pushed
<1>2. PICK q : q = copy[r]
  OBVIOUS
<1>3. PICK p : p = MD!Pushed(q, "payments")
  OBVIOUS
<1>4. /\ InvoiceCopy(q, stored) /\ stored \in InvoiceDocs /\ I!AmountsAgree
      /\ stored' = MD!Merged(q, {"payments"}) /\ copy' = [copy EXCEPT ![r] = Nothing]
      /\ world' = w
  BY <1>1, <1>2 DEF InvoiceInv, Saved
<1>5. /\ stored' \in InvoiceDocs
      /\ Begins(stored, stored')
      /\ DueAgrees(stored') /\ stored'.amountPaid <= I!SumOf(stored'.payments)
      /\ I!SumOf(stored'.payments) = I!SumOf(stored.payments)
                        + (IF q.op = "addPayment" THEN I!SumOf(p) ELSE 0)
      /\ stored'.status = "paid" =>
            stored'.status = stored.status \/ I!SumOf(stored'.payments) >= Total
  BY <1>3, <1>4, InvoiceMerged
<1>6. /\ DOMAIN world' = DOMAIN world
      /\ world'.paying = world.paying /\ world'.confirmed = world.confirmed
      /\ world'.added = world.added + (IF q.op = "addPayment" THEN I!SumOf(p) ELSE 0)
  BY <1>1, <1>2, <1>3, <1>4 DEF InvoiceInv
<1>7. /\ stored.payments \in Seq(Amounts) /\ stored'.payments \in Seq(Amounts)
      /\ I!SumOf(stored.payments) \in Nat /\ I!SumOf(stored'.payments) \in Nat
      /\ I!SumOf(stored.payments) <= I!SumOf(stored'.payments)
  <2>1. stored.payments \in Seq(Amounts) /\ stored'.payments \in Seq(Amounts)
    BY <1>4, <1>5 DEF InvoiceDocs
  <2>2. PICK s \in Seq(Nat), t \in Seq(Nat) : s = stored.payments /\ t = stored'.payments
    BY <2>1, InvoiceAmounts
  <2>3. Len(s) <= Len(t) /\ \A i \in 1..Len(s) : s[i] = t[i]
    BY <1>5, <2>2 DEF Begins
  <2> QED BY <2>1, <2>2, <2>3, SumNat, SumPrefix
<1>8. I!SumOf(stored.payments) = world.added /\ world.added \in Int
  BY DEF InvoiceInv, I!PaymentsKept
<1>9. I!SumOf(stored'.payments) = world'.added /\ world'.added \in Int
  BY <1>5, <1>6, <1>7, <1>8
<1>10. ASSUME NEW s \in Requests, copy'[s] # Nothing
       PROVE  InvoiceCopy(copy'[s], stored')
  <2>1. copy'[s] = copy[s] /\ InvoiceCopy(copy[s], stored)
    BY <1>4, <1>10 DEF InvoiceInv
  <2>2. PICK old \in Seq(Amounts), d \in Seq(Amounts), e \in Seq(Amounts) :
            old = copy[s].old.payments /\ d = stored.payments /\ e = stored'.payments
    BY <1>7, <2>1 DEF InvoiceCopy, InvoiceDocs
  <2>3. /\ Len(old) <= Len(d) /\ \A i \in 1..Len(old) : old[i] = d[i]
        /\ Len(d) <= Len(e) /\ \A i \in 1..Len(d) : d[i] = e[i]
    BY <1>5, <2>1, <2>2 DEF InvoiceCopy, Begins
  <2>4. Len(old) <= Len(e) /\ \A i \in 1..Len(old) : old[i] = e[i]
    BY <2>3
  <2>5. Begins(copy[s].old, stored')
    BY <2>2, <2>4 DEF Begins
  <2> QED BY <2>1, <2>5 DEF InvoiceCopy
<1>11. I!PaidForAReason'
  <2>1. stored.status = "paid" => I!SumOf(stored.payments) >= Total \/ world.confirmed
    BY DEF InvoiceInv, I!PaidForAReason
  <2>2. Total \in Int
    BY AmountsAssumption
  <2>3. stored'.status = "paid" => I!SumOf(stored'.payments) >= Total \/ world'.confirmed
    BY <1>5, <1>6, <1>7, <2>1, <2>2
  <2> QED BY <2>3 DEF I!PaidForAReason
<1>12. I!AmountsAgree' /\ I!PaymentsKept'
  BY <1>5, <1>9 DEF I!AmountsAgree, I!PaymentsKept, DueAgrees
<1>13. DOMAIN copy' = Requests
  BY <1>4 DEF InvoiceInv
<1>14. /\ DOMAIN world' = {"late", "paying", "confirmed", "added"}
       /\ world'.paying \in {"charged", "recorded"} => world'.confirmed
  BY <1>6 DEF InvoiceInv
<1> QED BY <1>5, <1>9, <1>10, <1>11, <1>12, <1>13, <1>14 DEF InvoiceInv

LEMMA InvoiceFirst == I!Init => InvoiceInv
<1> SUFFICES ASSUME I!Init PROVE InvoiceInv
  OBVIOUS
<1>1. << >> \in Seq(Amounts) /\ Len(<< >>) = 0
  OBVIOUS
<1>2. stored \in InvoiceDocs /\ stored.payments = << >> /\ stored.status # "paid"
      /\ stored.amountPaid = 0 /\ stored.amountDue = Total
  BY <1>1, AmountsAssumption DEF I!Init, InvoiceDocs, I!Statuses
<1>3. I!SumOf(<< >>) = 0
  BY <1>1, SumToStep DEF I!SumOf, I!SumTo, SumTo
<1>4. world = [late |-> FALSE, paying |-> "no", confirmed |-> FALSE, added |-> 0]
      /\ copy = [r \in Requests |-> Nothing]
  BY DEF I!Init, I!NoCopies
<1>5. I!AmountsAgree
  <2>1. Total \in Int
    BY AmountsAssumption
  <2> QED BY <1>2, <1>3, <2>1 DEF I!AmountsAgree
<1> QED BY <1>2, <1>3, <1>4, <1>5 DEF InvoiceInv, I!PaymentsKept, I!PaidForAReason

LEMMA InvoiceNext == InvoiceInv /\ [I!Next]_(I!document) => InvoiceInv'
<1> SUFFICES ASSUME InvoiceInv, [I!Next]_(I!document) PROVE InvoiceInv'
  OBVIOUS
<1>1. stored \in InvoiceDocs /\ DOMAIN copy = Requests
      /\ DOMAIN world = {"late", "paying", "confirmed", "added"}
      /\ (world.paying \in {"charged", "recorded"} => world.confirmed)
  BY DEF InvoiceInv
<1>2. ASSUME NEW r \in Requests, NEW a \in Amounts, I!AddPayment(r, a) PROVE InvoiceInv'
  <2>1. PICK d : d = [stored EXCEPT !.payments = Append(@, a)]
    OBVIOUS
  <2>2. PICK s \in Seq(Amounts) : s = stored.payments
    BY <1>1 DEF InvoiceDocs
  <2>3. Append(s, a) \in Seq(Amounts) /\ Append(s, a) = s \o <<a>>
    OBVIOUS
  <2>4. d \in InvoiceDocs /\ d.payments = stored.payments \o <<a>>
    BY <1>1, <2>1, <2>2, <2>3 DEF InvoiceDocs
  <2>5. I!Change(r, "addPayment", I!Calculated(d), {})
    BY <1>2, <2>1 DEF I!AddPayment
  <2> QED BY <2>4, <2>5, InvoiceChange
<1>3. ASSUME NEW r \in Requests, I!GeneratePdf(r) \/ I!SendEmail(r) \/ I!ScheduleReminders(r)
      PROVE  InvoiceInv'
  BY <1>1, <1>3, InvoiceChange DEF I!GeneratePdf, I!SendEmail, I!ScheduleReminders
<1>4. ASSUME NEW r \in Requests, I!Save(r) PROVE InvoiceInv'
  BY <1>4, InvoiceSave
<1>5. ASSUME NEW r \in Requests, I!AbortCopy(r) PROVE InvoiceInv'
  BY <1>1, <1>5, InvoiceStays DEF I!AbortCopy
<1>6. CASE I!Charge \/ I!RecordPayment \/ I!PaymentBreaks \/ I!DueDatePasses
  <2>1. UNCHANGED <<stored, copy>>
    BY <1>6 DEF I!Charge, I!RecordPayment, I!PaymentBreaks, I!DueDatePasses, I!WorldChanges
  <2>2. /\ DOMAIN world' = DOMAIN world /\ world'.added = world.added
        /\ world.confirmed => world'.confirmed
        /\ world'.paying \in {"charged", "recorded"} => world'.confirmed
    BY <1>1, <1>6 DEF I!Charge, I!RecordPayment, I!PaymentBreaks, I!DueDatePasses, I!WorldChanges
  <2> QED BY <1>1, <2>1, <2>2, InvoiceStays
<1>7. CASE I!MarkPaid
  <2>1. /\ world.confirmed /\ copy' = copy
        /\ stored' = [stored EXCEPT !.status = "paid"]
        /\ world' = [world EXCEPT !.paying = "no"]
    BY <1>1, <1>7 DEF I!MarkPaid, I!UpdateStored
  <2>2. /\ stored' \in InvoiceDocs /\ stored'.payments = stored.payments
        /\ stored'.amountPaid = stored.amountPaid /\ stored'.amountDue = stored.amountDue
    BY <1>1, <2>1 DEF InvoiceDocs, I!Statuses
  <2>3. /\ DOMAIN world' = DOMAIN world /\ world'.added = world.added
        /\ world'.confirmed = world.confirmed /\ world'.paying = "no"
    BY <1>1, <2>1
  <2> QED BY <1>1, <2>1, <2>2, <2>3, InvoiceStays
<1>8. CASE UNCHANGED I!document
  BY <1>1, <1>8, InvoiceStays DEF I!document
<1> QED BY <1>2, <1>3, <1>4, <1>5, <1>6, <1>7, <1>8 DEF I!Next

-----------------------------------------------------------------------------
(***************************************************************************)
(* Documents. The two statuses are sent together or not at all; the list   *)
(* of shares is pushed to, or assigned at the version it was read at.      *)
(***************************************************************************)
Compliant(d) == d.compliance = D!ComplianceOf[d.status]

DocumentCopy(q, w) ==
    /\ q.old \in D!Document /\ q.new \in D!Document
    /\ q.whole \in {{}, {"tags"}, {"sharedWith"}}
    /\ Compliant(q.old) /\ Compliant(q.new)
    /\ q.new.status = "expired" /\ q.old.status # "expired" => q.new.expiry < w.today
    /\ q.op = "revokeAccess" <=> q.whole = {"sharedWith"}
    /\ q.op = "revokeAccess" => Len(q.new.sharedWith) = Len(q.old.sharedWith) - 1
    /\ q.op = "shareWith" => /\ \E u \in Users : q.new.sharedWith = q.old.sharedWith \o <<u>>
                             /\ q.new.shareCount = q.old.shareCount + 1
    /\ q.op # "shareWith" => q.new.shareCount = q.old.shareCount
    /\ q.op \notin {"shareWith", "revokeAccess"} => q.new.sharedWith = q.old.sharedWith
    /\ q.old.shareCount <= w.shared

SharesAdded(q) == IF q.op = "shareWith" THEN 1 ELSE IF q.op = "revokeAccess" THEN -1 ELSE 0

\* A copy of the stored version has as many shares.
CurrentShares(q, d) ==
    /\ q.old.version <= d.version
    /\ q.old.version = d.version => Len(q.old.sharedWith) = Len(d.sharedWith)

DocumentWorlds == [today : Int, sweep : [remind : BOOLEAN, expire : BOOLEAN],
                   shared : Nat, revoked : Nat]

StoredDocument(d, w) == /\ d \in D!Document
                        /\ Compliant(d)
                        /\ Len(d.sharedWith) = w.shared - w.revoked
                        /\ d.shareCount <= w.shared

DocumentInv ==
    /\ world \in DocumentWorlds
    /\ stored # Nothing => StoredDocument(stored, world)
    /\ DOMAIN copy = Requests
    /\ \A r \in Requests : copy[r] # Nothing =>
           DocumentCopy(copy[r], world) /\ (stored # Nothing => CurrentShares(copy[r], stored))

LEMMA ComplianceValues ==
    /\ D!ComplianceOf["pending"] = "pending_review"
    /\ D!ComplianceOf["verified"] = "compliant"
    /\ D!ComplianceOf["rejected"] = "non_compliant"
    /\ D!ComplianceOf["expired"] = "expired"
    /\ D!Statuses = {"pending", "verified", "rejected", "expired"}
    /\ \A s, t \in D!Statuses : D!ComplianceOf[s] = D!ComplianceOf[t] => s = t
<1>1. \A s \in D!Statuses : D!ComplianceOf[s] =
          CASE s = "pending"  -> "pending_review"
            [] s = "verified" -> "compliant"
            [] s = "rejected" -> "non_compliant"
            [] s = "expired"  -> "expired"
  BY DEF D!ComplianceOf
<1>2. D!Statuses = {"pending", "verified", "rejected", "expired"}
  BY DEF D!Statuses
<1> QED BY <1>1, <1>2

LEMMA DocumentFields ==
    ASSUME NEW d \in D!Document
    PROVE  /\ d.status \in D!Statuses /\ d.expiry \in Int /\ d.reminded \in BOOLEAN
           /\ d.sharedWith \in Seq(Users) /\ d.shareCount \in Nat /\ d.version \in Nat
           /\ DOMAIN d = {"status", "compliance", "expiry", "reminded", "sharedWith",
                          "shareCount", "version"}
<1>1. D!Dates \subseteq Int
  BY DaysAssumption DEF D!Dates
<1> QED BY <1>1 DEF D!Document

\* What an accepted save stores.
LEMMA DocumentMerged ==
    ASSUME world \in DocumentWorlds, StoredDocument(stored, world),
           NEW q, DocumentCopy(q, world), CurrentShares(q, stored), MD!Accepted(q, {"sharedWith"})
    PROVE  LET d == MD!Merged(q, {"sharedWith"})
           IN  /\ d \in D!Document
               /\ Compliant(d)
               /\ Len(d.sharedWith) = Len(stored.sharedWith)
                      + SharesAdded(q)
               /\ IF q.op = "shareWith" THEN d.shareCount <= world.shared + 1
                                        ELSE d.shareCount = stored.shareCount
               /\ stored.version <= d.version
               /\ d.version = stored.version => Len(d.sharedWith) = Len(stored.sharedWith)
               /\ d.status = stored.status \/ (d.status = q.new.status /\ q.new.status # q.old.status)
<1>1. PICK d : d = MD!Merged(q, {"sharedWith"})
  OBVIOUS
<1>2. PICK count \in {0, 1} : count = IF MD!CountsVersion(q, {"sharedWith"}) THEN 1 ELSE 0
  OBVIOUS
<1>3. stored \in D!Document /\ q.old \in D!Document /\ q.new \in D!Document
      /\ "version" \notin {"sharedWith"} \cup q.whole
  BY DEF StoredDocument, DocumentCopy
<1>4. /\ DOMAIN d = DOMAIN stored
      /\ d.version = stored.version + count
      /\ d.status = IF q.old.status = q.new.status THEN stored.status ELSE q.new.status
      /\ d.compliance = IF q.old.compliance = q.new.compliance THEN stored.compliance
                        ELSE q.new.compliance
      /\ d.expiry = IF q.old.expiry = q.new.expiry THEN stored.expiry ELSE q.new.expiry
      /\ d.reminded = IF q.old.reminded = q.new.reminded THEN stored.reminded ELSE q.new.reminded
      /\ d.shareCount = IF q.old.shareCount = q.new.shareCount THEN stored.shareCount
                        ELSE q.new.shareCount
      /\ q.whole = {"sharedWith"} => d.sharedWith = q.new.sharedWith
      /\ q.whole # {"sharedWith"} => d.sharedWith = MD!MergedArray(q, "sharedWith")
  <2>1. \A f \in {"status", "compliance", "expiry", "reminded", "shareCount"} :
            f \notin {"sharedWith"} \cup q.whole \cup {"version"}
    BY DEF DocumentCopy
  <2>2. q.whole # {"sharedWith"} => "sharedWith" \in {"sharedWith"} \ q.whole
    BY DEF DocumentCopy
  <2>3. DOMAIN stored = {"status", "compliance", "expiry", "reminded", "sharedWith",
                         "shareCount", "version"}
    BY <1>3, DocumentFields
  <2>4. DOMAIN d = DOMAIN stored /\ d.version = stored.version + count
    BY <1>1, <1>2, <1>3, <2>3, MergedFields
  <2>5. \A f \in {"status", "compliance", "expiry", "reminded", "shareCount"} :
            d[f] = IF q.old[f] = q.new[f] THEN stored[f] ELSE q.new[f]
    BY <1>1, <1>3, <2>1, <2>3, MergedFields
  <2>6. /\ q.whole = {"sharedWith"} => d.sharedWith = q.new.sharedWith
        /\ q.whole # {"sharedWith"} => d.sharedWith = MD!MergedArray(q, "sharedWith")
    BY <1>1, <1>3, <2>2, <2>3, MergedFields
  <2> QED BY <2>4, <2>5, <2>6
<1>5. PICK s \in Seq(Users), old \in Seq(Users), new \in Seq(Users) :
          s = stored["sharedWith"] /\ old = q.old["sharedWith"] /\ new = q.new["sharedWith"]
  BY <1>3, DocumentFields
<1>6. /\ d.sharedWith \in Seq(Users)
      /\ Len(d.sharedWith) = Len(s) + SharesAdded(q)
      /\ count = 0 => Len(d.sharedWith) = Len(s)
  <2>1. CASE q.op = "shareWith"
    <3>1. PICK u \in Users : new = old \o <<u>>
      BY <1>5, <2>1 DEF DocumentCopy
    <3>2. PICK ext \in Seq(Users) : ext = <<u>> /\ Len(ext) = 1
      <4>1. <<u>> \in Seq(Users) /\ Len(<<u>>) = 1
        OBVIOUS
      <4> QED BY <4>1
    <3>3. MD!MergedArray(q, "sharedWith") = s \o ext /\ MD!Pushed(q, "sharedWith") = ext
      <4>1. /\ stored["sharedWith"] \in Seq(Users) /\ q.old["sharedWith"] \in Seq(Users)
            /\ q.new["sharedWith"] = q.old["sharedWith"] \o ext
        BY <1>5, <3>1, <3>2
      <4>2. /\ MD!MergedArray(q, "sharedWith") = stored["sharedWith"] \o ext
            /\ MD!Pushed(q, "sharedWith") = ext
        BY <4>1, MergedPushes
      <4> QED BY <1>5, <4>2
    <3>4. q.whole # {"sharedWith"}
      BY <2>1 DEF DocumentCopy
    <3>5. s \o ext \in Seq(Users) /\ Len(s \o ext) = Len(s) + 1
      BY <3>2, ConcatParts
    <3>6. ext # << >>
      BY <3>2
    <3>7. count = 1
      BY <1>2, <3>3, <3>6 DEF MD!CountsVersion
    <3>8. d.sharedWith = s \o ext
      BY <1>4, <3>3, <3>4
    <3> QED BY <2>1, <3>5, <3>7, <3>8 DEF SharesAdded
  <2>2. CASE q.op = "revokeAccess"
    <3>1. q.whole = {"sharedWith"} /\ Len(new) = Len(old) - 1
      BY <1>5, <2>2 DEF DocumentCopy
    <3>2. q.old.version = stored.version
      BY <3>1 DEF MD!Accepted, MD!ComparesVersion
    <3>3. Len(old) = Len(s)
      BY <1>5, <3>2 DEF CurrentShares
    <3>4. count = 1
      BY <1>2, <3>1 DEF MD!CountsVersion
    <3>5. d.sharedWith = new
      BY <1>4, <1>5, <3>1
    <3> QED BY <2>2, <3>1, <3>3, <3>4, <3>5 DEF SharesAdded
  <2>3. CASE q.op \notin {"shareWith", "revokeAccess"}
    <3>1. q.whole # {"sharedWith"} /\ new = old
      BY <1>5, <2>3 DEF DocumentCopy
    <3>2. MD!MergedArray(q, "sharedWith") = s
      BY <1>5, <3>1, MergedUntouched
    <3> QED BY <1>4, <2>3, <3>1, <3>2 DEF SharesAdded
  <2> QED BY <2>1, <2>2, <2>3
<1>7. Compliant(d)
  <2>1. /\ Compliant(stored) /\ Compliant(q.old) /\ Compliant(q.new)
        /\ q.old.status \in D!Statuses /\ q.new.status \in D!Statuses
    BY <1>3, DocumentFields DEF StoredDocument, DocumentCopy
  <2>2. q.old.compliance = q.new.compliance <=> q.old.status = q.new.status
    BY <2>1, ComplianceValues DEF Compliant
  <2> QED BY <1>4, <2>1, <2>2 DEF Compliant
<1>8. d \in D!Document
  <2>1. d = [status |-> d.status, compliance |-> d.compliance, expiry |-> d.expiry,
             reminded |-> d.reminded, sharedWith |-> d.sharedWith,
             shareCount |-> d.shareCount, version |-> d.version]
    BY <1>1, <1>3, <1>4, DocumentFields DEF MD!Merged
  <2>2. d.version \in Nat
    BY <1>2, <1>3, <1>4, DocumentFields
  <2>3. /\ d.status \in D!Statuses /\ d.expiry \in D!Dates /\ d.reminded \in BOOLEAN
        /\ d.compliance \in {D!ComplianceOf[st] : st \in D!Statuses} /\ d.shareCount \in Nat
    BY <1>3, <1>4 DEF D!Document
  <2> QED BY <1>6, <2>1, <2>2, <2>3 DEF D!Document
<1>9. IF q.op = "shareWith" THEN d.shareCount <= world.shared + 1
                            ELSE d.shareCount = stored.shareCount
  <2>1. q.old.shareCount \in Nat /\ q.new.shareCount \in Nat
        /\ world.shared \in Nat /\ q.old.shareCount <= world.shared
    BY <1>3, DocumentFields DEF DocumentCopy, DocumentWorlds
  <2> QED BY <1>4, <2>1 DEF DocumentCopy
<1>10. stored.version <= d.version /\ (d.version = stored.version => count = 0)
  BY <1>2, <1>3, <1>4, DocumentFields
<1>11. d.status = stored.status \/ (d.status = q.new.status /\ q.new.status # q.old.status)
  BY <1>4
<1> QED BY <1>1, <1>5, <1>6, <1>7, <1>8, <1>9, <1>10, <1>11

\* The copy a request works on.
LEMMA DocumentChange ==
    ASSUME DocumentInv, NEW r \in Requests, NEW q, DocumentCopy(q, world), q.old = stored,
           stored # Nothing, UNCHANGED <<stored, world>>, copy' = [copy EXCEPT ![r] = q]
    PROVE  DocumentInv'
<1>1. CurrentShares(q, stored)
  BY DocumentFields DEF DocumentInv, StoredDocument, CurrentShares
<1>2. ASSUME NEW s \in Requests, copy'[s] # Nothing
      PROVE  DocumentCopy(copy'[s], world') /\ (stored' # Nothing => CurrentShares(copy'[s], stored'))
  BY <1>1, <1>2 DEF DocumentInv
<1> QED BY <1>2 DEF DocumentInv

\* Steps that free slots, and leave time and shares to go on.
LEMMA DocumentKept ==
    ASSUME DocumentInv, world' \in DocumentWorlds,
           world.today <= world'.today, world.shared <= world'.shared,
           stored' # Nothing =>
              /\ stored # Nothing
              /\ StoredDocument(stored', world')
              /\ stored.version <= stored'.version
              /\ stored'.version = stored.version =>
                    Len(stored'.sharedWith) = Len(stored.sharedWith),
           DOMAIN copy' = Requests, \A r \in Requests : copy'[r] \in {copy[r], Nothing}
    PROVE  DocumentInv'
<1>1. ASSUME NEW r \in Requests, copy'[r] # Nothing
      PROVE  DocumentCopy(copy'[r], world') /\ (stored' # Nothing => CurrentShares(copy'[r], stored'))
  <2>1. PICK q : q = copy[r] /\ q = copy'[r] /\ DocumentCopy(q, world)
                 /\ (stored # Nothing => CurrentShares(q, stored))
    BY <1>1 DEF DocumentInv
  <2>2. /\ q.new.expiry \in Int /\ q.old.shareCount \in Nat /\ q.old.version \in Nat
        /\ world.today \in Int /\ world'.today \in Int
        /\ world.shared \in Nat /\ world'.shared \in Nat
    BY <2>1, DocumentFields DEF DocumentCopy, DocumentInv, DocumentWorlds
  <2>3. DocumentCopy(q, world')
    <3>1. q.new.status = "expired" /\ q.old.status # "expired" => q.new.expiry < world'.today
      BY <2>1, <2>2 DEF DocumentCopy
    <3>2. q.old.shareCount <= world'.shared
      BY <2>1, <2>2 DEF DocumentCopy
    <3> QED BY <2>1, <3>1, <3>2 DEF DocumentCopy
  <2>4. ASSUME stored' # Nothing PROVE CurrentShares(q, stored')
    <3>1. stored.version \in Nat /\ stored'.version \in Nat
      BY <2>4, DocumentFields DEF DocumentInv, StoredDocument
    <3> QED BY <2>1, <2>2, <2>4, <3>1 DEF CurrentShares
  <2> QED BY <2>1, <2>3, <2>4
<1> QED BY <1>1 DEF DocumentInv

\* The hook of a save.
LEMMA DocumentExpired ==
    ASSUME NEW d \in D!Document, Compliant(d)
    PROVE  LET e == D!Expired(d)
           IN  /\ e \in D!Document /\ Compliant(e)
               /\ e.sharedWith = d.sharedWith /\ e.shareCount = d.shareCount
               /\ e.status = d.status \/ e.expiry < world.today
<1>1. CASE D!IsOver(d)
  <2>1. PICK e : e = [d EXCEPT !.status = "expired", !.compliance = "expired"] /\ e = D!Expired(d)
    BY <1>1 DEF D!Expired
  <2>2. e = [status |-> "expired", compliance |-> "expired", expiry |-> d.expiry,
             reminded |-> d.reminded, sharedWith |-> d.sharedWith,
             shareCount |-> d.shareCount, version |-> d.version]
    BY <2>1 DEF D!Document
  <2>3. "expired" \in D!Statuses /\ "expired" \in {D!ComplianceOf[s] : s \in D!Statuses}
    BY ComplianceValues
  <2>4. e \in D!Document
    BY <2>2, <2>3 DEF D!Document
  <2>5. Compliant(e)
    BY <2>2, ComplianceValues DEF Compliant
  <2>6. e.sharedWith = d.sharedWith /\ e.shareCount = d.shareCount /\ e.expiry = d.expiry
    BY <2>2
  <2>7. e.expiry < world.today
    BY <1>1, <2>6 DEF D!IsOver
  <2> QED BY <2>1, <2>4, <2>5, <2>6, <2>7
<1>2. CASE ~ D!IsOver(d)
  BY <1>2 DEF D!Expired
<1> QED BY <1>1, <1>2

\* A method that leaves the shares alone.
LEMMA DocumentEdit ==
    ASSUME DocumentInv, stored # Nothing, NEW r \in Requests, NEW op, NEW d \in D!Document,
           NEW whole \in {{}, {"tags"}, {"sharedWith"}},
           Compliant(d), d.status \in {stored.status, "verified", "rejected"},
           D!Edit(r, op, d, whole),
           op = "revokeAccess" <=> whole = {"sharedWith"},
           op = "revokeAccess" => Len(d.sharedWith) = Len(stored.sharedWith) - 1,
           op = "shareWith" => /\ \E u \in Users : d.sharedWith = stored.sharedWith \o <<u>>
                               /\ d.shareCount = stored.shareCount + 1,
           op # "shareWith" => d.shareCount = stored.shareCount,
           op \notin {"shareWith", "revokeAccess"} => d.sharedWith = stored.sharedWith
    PROVE  DocumentInv'
<1>1. PICK e : e = D!Expired(d)
  OBVIOUS
<1>2. PICK q : q = [op |-> op, old |-> stored, new |-> e, whole |-> whole]
  OBVIOUS
<1>3. UNCHANGED <<stored, world>> /\ copy' = [copy EXCEPT ![r] = q]
  BY <1>1, <1>2 DEF D!Edit, D!Change, D!Copy
<1>4. /\ e \in D!Document /\ Compliant(e)
      /\ e.sharedWith = d.sharedWith /\ e.shareCount = d.shareCount
      /\ e.status = d.status \/ e.expiry < world.today
  BY <1>1, DocumentExpired
<1>5. stored \in D!Document /\ Compliant(stored) /\ stored.shareCount <= world.shared
  BY DEF DocumentInv, StoredDocument
<1>6. DocumentCopy(q, world)
  BY <1>2, <1>4, <1>5 DEF DocumentCopy
<1> QED BY <1>2, <1>3, <1>6, DocumentChange

LEMMA DocumentSave ==
    ASSUME DocumentInv, NEW r \in Requests, D!Save(r)
    PROVE  /\ DocumentInv'
           /\ D!ExpiredBySomeoneWhoSawIt
<1>1. PICK w : /\ Saved(r, {"sharedWith"}, w)
               /\ w = [world EXCEPT !.shared = @ + (IF copy[r].op = "shareWith" THEN 1 ELSE 0),
                                    !.revoked = @ + (IF copy[r].op = "revokeAccess" THEN 1 ELSE 0)]
  BY DocumentSaves DEF D!Save, D!Arrays
<1>2. PICK q : q = copy[r]
  OBVIOUS
<1>3. /\ world \in DocumentWorlds /\ stored # Nothing /\ StoredDocument(stored, world)
      /\ DocumentCopy(q, world) /\ CurrentShares(q, stored) /\ MD!Accepted(q, {"sharedWith"})
      /\ stored' = MD!Merged(q, {"sharedWith"}) /\ copy' = [copy EXCEPT ![r] = Nothing]
      /\ world' = w /\ q # Nothing
  BY <1>1, <1>2 DEF DocumentInv, Saved
<1>4. /\ stored' \in D!Document
      /\ Compliant(stored')
      /\ Len(stored'.sharedWith) = Len(stored.sharedWith) + SharesAdded(q)
      /\ IF q.op = "shareWith" THEN stored'.shareCount <= world.shared + 1
                               ELSE stored'.shareCount = stored.shareCount
      /\ stored.version <= stored'.version
      /\ stored'.version = stored.version => Len(stored'.sharedWith) = Len(stored.sharedWith)
      /\ stored'.status = stored.status
         \/ (stored'.status = q.new.status /\ q.new.status # q.old.status)
  BY <1>3, DocumentMerged
<1>5. /\ world' \in DocumentWorlds /\ world'.today = world.today
      /\ world'.shared = world.shared + (IF q.op = "shareWith" THEN 1 ELSE 0)
      /\ world'.revoked = world.revoked + (IF q.op = "revokeAccess" THEN 1 ELSE 0)
      /\ world.today \in Int /\ world.shared \in Nat /\ world.revoked \in Nat
  <2>1. PICK i \in {0, 1}, j \in {0, 1} : /\ i = IF q.op = "shareWith" THEN 1 ELSE 0
                                          /\ j = IF q.op = "revokeAccess" THEN 1 ELSE 0
    OBVIOUS
  <2>2. /\ world.today \in Int /\ world.shared \in Nat /\ world.revoked \in Nat
        /\ world.sweep \in [remind : BOOLEAN, expire : BOOLEAN]
        /\ world = [today |-> world.today, sweep |-> world.sweep, shared |-> world.shared,
                    revoked |-> world.revoked]
    BY <1>3 DEF DocumentWorlds
  <2>3. w = [world EXCEPT !.shared = @ + i, !.revoked = @ + j]
    BY <1>1, <1>2, <2>1
  <2>4. w = [today |-> world.today, sweep |-> world.sweep, shared |-> world.shared + i,
             revoked |-> world.revoked + j]
    BY <2>2, <2>3
  <2>5. world.shared + i \in Nat /\ world.revoked + j \in Nat
    BY <2>2
  <2>6. w \in DocumentWorlds
    BY <2>2, <2>4, <2>5 DEF DocumentWorlds
  <2> QED BY <1>3, <2>1, <2>2, <2>4, <2>6
<1>6. StoredDocument(stored', world')
  <2>1. /\ Len(stored.sharedWith) = world.shared - world.revoked
        /\ stored.shareCount <= world.shared /\ stored.shareCount \in Nat
        /\ stored'.shareCount \in Nat
    BY <1>3, <1>4, DocumentFields DEF StoredDocument
  <2> QED BY <1>4, <1>5, <2>1 DEF StoredDocument, SharesAdded
<1>7. DOMAIN copy' = Requests /\ \A s \in Requests : copy'[s] \in {copy[s], Nothing}
  BY <1>3 DEF DocumentInv
<1>8. DocumentInv'
  BY <1>3, <1>4, <1>5, <1>6, <1>7, DocumentKept
<1>9. D!ExpiredBySomeoneWhoSawIt
  BY <1>2, <1>3, <1>4 DEF D!ExpiredBySomeoneWhoSawIt, D!IsOver, DocumentCopy
<1> QED BY <1>8, <1>9

\* Steps that leave the document as it is leave it as it was.
LEMMA DocumentStays ==
    ASSUME stored' = stored
    PROVE  D!ExpiredBySomeoneWhoSawIt
BY DEF D!ExpiredBySomeoneWhoSawIt

LEMMA DocumentFresh ==
    ASSUME NEW d, NEW expiry \in D!Dates, d = D!Uploaded(expiry)
    PROVE  /\ StoredDocument(d, D!FirstWorld)
           /\ D!FirstWorld \in DocumentWorlds
<1>1. PICK none \in Seq(Users) : none = << >> /\ Len(none) = 0
  <2>1. << >> \in Seq(Users) /\ Len(<< >>) = 0
    OBVIOUS
  <2> QED BY <2>1
<1>2. d = [status |-> "pending", compliance |-> "pending_review", expiry |-> expiry,
           reminded |-> FALSE, sharedWith |-> none, shareCount |-> 0, version |-> 0]
  BY <1>1 DEF D!Uploaded
<1>3. "pending" \in D!Statuses /\ "pending_review" \in {D!ComplianceOf[s] : s \in D!Statuses}
  BY ComplianceValues
<1>4. d \in D!Document
  BY <1>2, <1>3 DEF D!Document
<1>5. Compliant(d)
  BY <1>2, ComplianceValues DEF Compliant
<1>6. D!FirstWorld = [today |-> 0, sweep |-> [remind |-> FALSE, expire |-> FALSE],
                      shared |-> 0, revoked |-> 0]
  BY DEF D!FirstWorld, D!SweepIdle
<1>7. Len(d.sharedWith) = 0 /\ d.shareCount = 0
  BY <1>1, <1>2
<1> QED BY <1>4, <1>5, <1>6, <1>7 DEF StoredDocument, DocumentWorlds

LEMMA DocumentFirst == D!Init => DocumentInv
<1> SUFFICES ASSUME D!Init PROVE DocumentInv
  OBVIOUS
<1>1. PICK expiry \in D!Dates : stored = D!Uploaded(expiry)
  BY DEF D!Init
<1>2. copy = [r \in Requests |-> Nothing] /\ world = D!FirstWorld
  BY DEF D!Init, D!NoCopies
<1> QED BY <1>1, <1>2, DocumentFresh DEF DocumentInv

\* The methods that a request may call on the copy it read.
LEMMA DocumentRead ==
    ASSUME DocumentInv, NEW r \in Requests, D!Read(r)
    PROVE  DocumentInv' /\ stored' = stored
<1>1. /\ stored # Nothing /\ stored \in D!Document /\ Compliant(stored)
      /\ stored.shareCount <= world.shared
  BY DEF D!Read, DocumentInv, StoredDocument
<1>2. /\ stored = [status |-> stored.status, compliance |-> stored.compliance,
                   expiry |-> stored.expiry, reminded |-> stored.reminded,
                   sharedWith |-> stored.sharedWith, shareCount |-> stored.shareCount,
                   version |-> stored.version]
      /\ stored.status \in D!Statuses /\ stored.shareCount \in Nat /\ stored.version \in Nat
      /\ stored.reminded \in BOOLEAN /\ stored.expiry \in D!Dates
      /\ stored.compliance \in {D!ComplianceOf[s] : s \in D!Statuses}
  BY <1>1 DEF D!Document
<1>3. PICK s \in Seq(Users) : s = stored.sharedWith
  BY <1>1, DocumentFields
<1>4. CASE D!Use(r) \/ D!UpdateTags(r)
  <2>1. PICK op \in {"use", "update"}, whole \in {{}, {"tags"}} : D!Edit(r, op, stored, whole)
    BY <1>4 DEF D!Use, D!UpdateTags
  <2>2. DocumentInv'
    BY <1>1, <2>1, DocumentEdit
  <2> QED BY <2>1, <2>2 DEF D!Edit, D!Change
<1>5. ASSUME NEW expiry \in D!Dates, D!UpdateExpiry(r, expiry)
      PROVE  DocumentInv' /\ stored' = stored
  <2>1. PICK d : d = [stored EXCEPT !.expiry = expiry]
    OBVIOUS
  <2>2. d \in D!Document
    BY <1>1, <2>1 DEF D!Document
  <2>3. /\ d.status = stored.status /\ d.compliance = stored.compliance
        /\ d.sharedWith = stored.sharedWith /\ d.shareCount = stored.shareCount
    BY <1>2, <2>1
  <2>4. Compliant(d)
    BY <1>1, <2>3 DEF Compliant
  <2>5. D!Edit(r, "update", d, {})
    BY <1>5, <2>1 DEF D!UpdateExpiry
  <2>6. DocumentInv'
    BY <1>1, <2>2, <2>3, <2>4, <2>5, DocumentEdit
  <2> QED BY <2>5, <2>6 DEF D!Edit, D!Change
<1>6. CASE D!ReadForDeletion(r)
  <2>1. PICK q : q = [op |-> "delete", old |-> stored, new |-> stored, whole |-> {}]
    OBVIOUS
  <2>2. UNCHANGED <<stored, world>> /\ copy' = [copy EXCEPT ![r] = q]
    BY <1>6, <2>1 DEF D!ReadForDeletion, D!Change, D!Copy
  <2>3. DocumentCopy(q, world)
    BY <1>1, <2>1 DEF DocumentCopy
  <2> QED BY <1>1, <2>1, <2>2, <2>3, DocumentChange
<1>7. ASSUME NEW u \in Users, D!ShareWith(r, u)
      PROVE  DocumentInv' /\ stored' = stored
  <2>1. PICK ext \in Seq(Users) : ext = <<u>>
    <3>1. <<u>> \in Seq(Users)
      OBVIOUS
    <3> QED BY <3>1
  <2>2. s \o ext \in Seq(Users)
    BY <2>1, ConcatParts
  <2>3. Append(s, u) = s \o ext
    BY <2>1, AppendIsConcat
  <2>4. PICK d : d = [stored EXCEPT !.sharedWith = Append(@, u), !.shareCount = @ + 1]
    OBVIOUS
  <2>5. d = [status |-> stored.status, compliance |-> stored.compliance,
             expiry |-> stored.expiry, reminded |-> stored.reminded,
             sharedWith |-> s \o ext, shareCount |-> stored.shareCount + 1,
             version |-> stored.version]
    BY <1>2, <1>3, <2>3, <2>4
  <2>6. d \in D!Document
    BY <1>2, <2>2, <2>5 DEF D!Document
  <2>7. /\ d.status = stored.status /\ Compliant(d)
        /\ d.sharedWith = stored.sharedWith \o <<u>> /\ d.shareCount = stored.shareCount + 1
    BY <1>1, <1>3, <2>1, <2>5 DEF Compliant
  <2>8. D!Edit(r, "shareWith", d, {})
    BY <1>7, <2>4 DEF D!ShareWith
  <2>9. DocumentInv'
    BY <1>1, <2>6, <2>7, <2>8, DocumentEdit
  <2> QED BY <2>8, <2>9 DEF D!Edit, D!Change
<1>8. ASSUME NEW i \in DOMAIN stored.sharedWith, D!RevokeAccess(r, i)
      PROVE  DocumentInv' /\ stored' = stored
  <2>1. PICK l \in Seq(Users) : /\ l = SubSeq(s, 1, i - 1) \o SubSeq(s, i + 1, Len(s))
                                /\ Len(l) = Len(s) - 1
    <3>1. PICK k \in Nat, n \in Nat : k = i /\ n = Len(s) /\ 1 <= k /\ k <= n
      BY <1>3
    <3>2. /\ SubSeq(s, 1, k - 1) \in Seq(Users) /\ Len(SubSeq(s, 1, k - 1)) = k - 1
      <4>1. \A j \in 1..k - 1 : s[j] \in Users
        BY <3>1
      <4>2. k - 1 \in Int /\ 1 \in Int /\ (IF 1 <= k - 1 THEN k - 1 - 1 + 1 ELSE 0) = k - 1
        BY <3>1
      <4> QED BY <4>1, <4>2, SubSeqProperties
    <3>3. /\ SubSeq(s, k + 1, n) \in Seq(Users) /\ Len(SubSeq(s, k + 1, n)) = n - k
      BY <3>1, SuffixProperties
    <3>4. k - 1 + (n - k) = n - 1
      BY <3>1
    <3>5. PICK a \in Seq(Users), b \in Seq(Users) : /\ a = SubSeq(s, 1, k - 1)
                                                    /\ b = SubSeq(s, k + 1, n)
      BY <3>2, <3>3
    <3>6. a \o b \in Seq(Users) /\ Len(a \o b) = Len(a) + Len(b)
      BY ConcatParts
    <3>7. Len(a \o b) = n - 1
      BY <3>2, <3>3, <3>4, <3>5, <3>6
    <3>8. a \o b = SubSeq(s, 1, i - 1) \o SubSeq(s, i + 1, Len(s))
      BY <3>1, <3>5
    <3> QED BY <3>1, <3>6, <3>7, <3>8
  <2>2. PICK d : d = [stored EXCEPT !.sharedWith = SubSeq(@, 1, i - 1) \o SubSeq(@, i + 1, Len(@))]
    OBVIOUS
  <2>3. d = [status |-> stored.status, compliance |-> stored.compliance,
             expiry |-> stored.expiry, reminded |-> stored.reminded,
             sharedWith |-> l, shareCount |-> stored.shareCount,
             version |-> stored.version]
    BY <1>2, <1>3, <2>1, <2>2
  <2>4. d \in D!Document
    BY <1>2, <2>3 DEF D!Document
  <2>5. /\ d.status = stored.status /\ Compliant(d)
        /\ Len(d.sharedWith) = Len(stored.sharedWith) - 1 /\ d.shareCount = stored.shareCount
    BY <1>1, <1>3, <2>1, <2>3 DEF Compliant
  <2>6. D!Edit(r, "revokeAccess", d, {"sharedWith"})
    BY <1>8, <2>2 DEF D!RevokeAccess, D!Arrays
  <2>7. DocumentInv'
    BY <1>1, <2>4, <2>5, <2>6, DocumentEdit
  <2> QED BY <2>6, <2>7 DEF D!Edit, D!Change
<1>9. CASE D!Verify(r) \/ D!Reject(r)
  <2>1. PICK op \in {"verify", "reject"}, status \in {"verified", "rejected"} :
            D!Edit(r, op, [stored EXCEPT !.status = status,
                                         !.compliance = D!ComplianceOf[status]], {})
    BY <1>9, ComplianceValues DEF D!Verify, D!Reject
  <2>2. PICK d : d = [stored EXCEPT !.status = status, !.compliance = D!ComplianceOf[status]]
    OBVIOUS
  <2>3. d = [status |-> status, compliance |-> D!ComplianceOf[status],
             expiry |-> stored.expiry, reminded |-> stored.reminded,
             sharedWith |-> stored.sharedWith, shareCount |-> stored.shareCount,
             version |-> stored.version]
    BY <1>2, <2>2
  <2>4. status \in D!Statuses
    BY ComplianceValues
  <2>5. d \in D!Document
    BY <1>2, <1>3, <2>3, <2>4 DEF D!Document
  <2>6. /\ d.status = status /\ Compliant(d)
        /\ d.sharedWith = stored.sharedWith /\ d.shareCount = stored.shareCount
    BY <2>3 DEF Compliant
  <2>7. D!Edit(r, op, d, {})
    BY <2>1, <2>2
  <2>8. DocumentInv'
    BY <1>1, <2>5, <2>6, <2>7, DocumentEdit
  <2> QED BY <2>7, <2>8 DEF D!Edit, D!Change
<1> QED BY <1>4, <1>5, <1>6, <1>7, <1>8, <1>9 DEF D!Read

\* The sweep and the other steps that change the world or the document at once.
LEMMA DocumentSweep ==
    ASSUME DocumentInv,
           D!CollectForSweep \/ D!SweepReminds \/ D!SweepExpires \/ D!StopSweep \/ D!Tomorrow
    PROVE  DocumentInv' /\ D!ExpiredBySomeoneWhoSawIt
<1>1. /\ world \in DocumentWorlds
      /\ world.today \in Int /\ world.shared \in Nat /\ world.revoked \in Nat
      /\ world.sweep \in [remind : BOOLEAN, expire : BOOLEAN]
      /\ DOMAIN copy = Requests
  BY DEF DocumentInv, DocumentWorlds
<1>2. copy' = copy
  BY DEF D!CollectForSweep, D!SweepReminds, D!SweepExpires, D!StopSweep, D!Tomorrow,
         D!WorldChanges, D!UpdateStored
<1>3. ASSUME stored' = stored,
             \/ \E sweep \in [remind : BOOLEAN, expire : BOOLEAN] :
                    world' = [world EXCEPT !.sweep = sweep]
             \/ world' = [world EXCEPT !.today = @ + 1]
      PROVE  DocumentInv' /\ D!ExpiredBySomeoneWhoSawIt
  <2>1. /\ world' \in DocumentWorlds /\ world.today <= world'.today
        /\ world'.shared = world.shared /\ world'.revoked = world.revoked
    BY <1>1, <1>3 DEF DocumentWorlds
  <2>2. stored # Nothing => StoredDocument(stored, world')
    BY <2>1 DEF DocumentInv, StoredDocument
  <2>3. stored # Nothing => stored.version \in Nat
    BY DocumentFields DEF DocumentInv, StoredDocument
  <2>4. DocumentInv'
    BY <1>1, <1>2, <1>3, <2>1, <2>2, <2>3, DocumentKept
  <2> QED BY <1>3, <2>4, DocumentStays
<1>4. CASE D!CollectForSweep \/ D!StopSweep \/ D!Tomorrow
  <2>1. D!SweepIdle \in [remind : BOOLEAN, expire : BOOLEAN]
    BY DEF D!SweepIdle
  <2>2. CASE D!CollectForSweep
    <3>1. [remind |-> stored.expiry \in world.today..world.today + Reminder /\ ~ stored.reminded,
           expire |-> D!IsOver(stored)] \in [remind : BOOLEAN, expire : BOOLEAN]
      BY DEF D!IsOver
    <3> QED BY <1>3, <2>2, <3>1 DEF D!CollectForSweep, D!WorldChanges
  <2> QED BY <1>3, <1>4, <2>1, <2>2 DEF D!StopSweep, D!Tomorrow, D!WorldChanges
<1>5. ASSUME NEW d, NEW w, stored # Nothing, stored' = d, world' = w,
             w \in DocumentWorlds, w.today = world.today, w.shared = world.shared,
             w.revoked = world.revoked, d \in D!Document, Compliant(d),
             d.sharedWith = stored.sharedWith, d.shareCount = stored.shareCount,
             d.version = stored.version
      PROVE  DocumentInv'
  <2>1. StoredDocument(stored, world) /\ stored.version \in Nat
    BY <1>5, DocumentFields DEF DocumentInv, StoredDocument
  <2>2. StoredDocument(d, w)
    BY <1>5, <2>1 DEF StoredDocument
  <2> QED BY <1>1, <1>2, <1>5, <2>1, <2>2, DocumentKept
<1>6. CASE D!SweepReminds
  <2>1. /\ stored # Nothing /\ stored' = [stored EXCEPT !.reminded = TRUE]
        /\ world' = [world EXCEPT !.sweep.remind = FALSE]
    BY <1>6 DEF D!SweepReminds, D!UpdateStored
  <2>2. stored \in D!Document /\ Compliant(stored)
    BY <2>1 DEF DocumentInv, StoredDocument
  <2>3. stored' \in D!Document /\ stored'.status = stored.status /\ Compliant(stored')
        /\ stored'.sharedWith = stored.sharedWith /\ stored'.shareCount = stored.shareCount
        /\ stored'.version = stored.version
    BY <2>1, <2>2 DEF D!Document, Compliant
  <2>4. world' \in DocumentWorlds /\ world'.today = world.today
        /\ world'.shared = world.shared /\ world'.revoked = world.revoked
    BY <1>1, <2>1 DEF DocumentWorlds
  <2>5. DocumentInv'
    BY <1>5, <2>1, <2>3, <2>4
  <2> QED BY <2>3, <2>5 DEF D!ExpiredBySomeoneWhoSawIt
<1>7. CASE D!SweepExpires
  <2>1. /\ stored # Nothing /\ world.sweep.expire
        /\ stored' = [stored EXCEPT !.status = "expired", !.compliance = "expired"]
        /\ world' = [world EXCEPT !.sweep.expire = FALSE]
    BY <1>7 DEF D!SweepExpires, D!UpdateStored
  <2>2. stored \in D!Document
    BY <2>1 DEF DocumentInv, StoredDocument
  <2>3. PICK d : d = stored' /\ d.status = "expired" /\ d.compliance = "expired"
        /\ d = [status |-> "expired", compliance |-> "expired", expiry |-> stored.expiry,
             reminded |-> stored.reminded, sharedWith |-> stored.sharedWith,
             shareCount |-> stored.shareCount, version |-> stored.version]
    BY <2>1, <2>2 DEF D!Document
  <2>4. "expired" \in D!Statuses /\ "expired" \in {D!ComplianceOf[s] : s \in D!Statuses}
    BY ComplianceValues
  <2>5. d \in D!Document
    BY <2>2, <2>3, <2>4 DEF D!Document
  <2>6. Compliant(d)
    BY <2>3, ComplianceValues DEF Compliant
  <2>7. world' \in DocumentWorlds /\ world'.today = world.today
        /\ world'.shared = world.shared /\ world'.revoked = world.revoked
    BY <1>1, <2>1 DEF DocumentWorlds
  <2>8. DocumentInv'
    BY <1>5, <2>1, <2>3, <2>5, <2>6, <2>7
  <2> QED BY <2>1, <2>8 DEF D!ExpiredBySomeoneWhoSawIt
<1> QED BY <1>4, <1>6, <1>7

LEMMA DocumentSteps ==
    DocumentInv /\ [D!Next]_(D!document) => DocumentInv' /\ D!ExpiredBySomeoneWhoSawIt
<1> SUFFICES ASSUME DocumentInv, [D!Next]_(D!document)
             PROVE  DocumentInv' /\ D!ExpiredBySomeoneWhoSawIt
  OBVIOUS
<1>1. world \in DocumentWorlds /\ world.today \in Int /\ world.shared \in Nat
      /\ DOMAIN copy = Requests
  BY DEF DocumentInv, DocumentWorlds
<1>2. ASSUME NEW r \in Requests, D!Read(r)
      PROVE  DocumentInv' /\ D!ExpiredBySomeoneWhoSawIt
  BY <1>2, DocumentRead, DocumentStays
<1>3. ASSUME NEW r \in Requests, D!Save(r)
      PROVE  DocumentInv' /\ D!ExpiredBySomeoneWhoSawIt
  BY <1>3, DocumentSave
<1>4. ASSUME world' = world, DOMAIN copy' = Requests,
             \A s \in Requests : copy'[s] \in {copy[s], Nothing},
             stored' = stored \/ stored' = Nothing
      PROVE  DocumentInv' /\ D!ExpiredBySomeoneWhoSawIt
  <2>1. stored # Nothing => StoredDocument(stored, world) /\ stored.version \in Nat
    BY DocumentFields DEF DocumentInv, StoredDocument
  <2>2. DocumentInv'
    BY <1>1, <1>4, <2>1, DocumentKept
  <2> QED BY <1>4, <2>2 DEF D!ExpiredBySomeoneWhoSawIt
<1>5. ASSUME NEW r \in Requests, D!DeleteOne(r) \/ D!AbortCopy(r)
      PROVE  DocumentInv' /\ D!ExpiredBySomeoneWhoSawIt
  BY <1>1, <1>4, <1>5 DEF D!DeleteOne, D!AbortCopy
<1>6. CASE D!NextDocument
  <2>1. PICK expiry \in D!Dates : stored' = D!Uploaded(expiry)
    BY <1>6 DEF D!NextDocument
  <2>2. world' = D!FirstWorld /\ copy' = [s \in Requests |-> Nothing] /\ stored = Nothing
    BY <1>6 DEF D!NextDocument, D!NoCopies
  <2>3. StoredDocument(stored', world') /\ world' \in DocumentWorlds
    BY <2>1, <2>2, DocumentFresh
  <2>4. DocumentInv'
    BY <2>2, <2>3 DEF DocumentInv
  <2> QED BY <2>2, <2>4 DEF D!ExpiredBySomeoneWhoSawIt
<1>7. CASE UNCHANGED D!document
  BY <1>1, <1>4, <1>7 DEF D!document
<1> QED BY <1>2, <1>3, <1>5, <1>6, <1>7, DocumentSweep DEF D!Next

-----------------------------------------------------------------------------
(***************************************************************************)
(* Devices. The count and the total of a copy were those of the stored     *)
(* device when it was read, and sessions are only added while the device   *)
(* has its id; a save takes the count, and if the session took any time    *)
(* the total, of the copy.                                                 *)
(***************************************************************************)
\* A session more.
LEMMA SessionsAppended ==
    ASSUME NEW w \in Seq(Nat), NEW d \in Nat
    PROVE  \E n \in Nat, v \in Seq(Nat) :
              /\ n = Len(w) /\ v = Append(w, d) /\ Len(v) = n + 1
              /\ DOMAIN v = 1..n + 1 /\ DOMAIN w = 1..n
              /\ \A i \in 1..n : v[i] = w[i]
              /\ v[n + 1] = d
<1>1. PICK n : n = Len(w)
  OBVIOUS
<1>2. PICK v : v = Append(w, d)
  OBVIOUS
<1>3. /\ v \in Seq(Nat) /\ Len(v) = n + 1
      /\ \A i \in 1..n : v[i] = w[i]
      /\ v[n + 1] = d
  BY <1>1, <1>2, AppendProperties
<1>4. n \in Nat /\ DOMAIN w = 1..n /\ DOMAIN v = 1..n + 1
  BY <1>1, <1>3, LenProperties
<1> QED BY <1>1, <1>2, <1>3, <1>4

\* It may be counted or not.
LEMMA TotalOfMore ==
    ASSUME NEW w \in Seq(Nat), NEW d \in Nat, NEW k \in Nat, NEW total,
           DV!TotalOfSome(k, total, w)
    PROVE  /\ DV!TotalOfSome(k, total, Append(w, d))
           /\ DV!TotalOfSome(k + 1, total + d, Append(w, d))
<1>1. PICK n \in Nat, v \in Seq(Nat) :
              /\ n = Len(w) /\ v = Append(w, d) /\ Len(v) = n + 1
              /\ DOMAIN v = 1..n + 1 /\ DOMAIN w = 1..n
              /\ \A i \in 1..n : v[i] = w[i]
              /\ v[n + 1] = d
  BY SessionsAppended
<1>2. PICK c \in [1..k -> 1..n] :
          /\ \A i, j \in 1..k : i # j => c[i] # c[j]
          /\ total = DV!SumTo([i \in 1..k |-> w[c[i]]], k)
  BY <1>1 DEF DV!TotalOfSome
<1>3. \A i \in 1..n : w[i] \in Nat
  BY <1>1
<1>4. \A i \in 1..k : c[i] \in 1..n /\ w[c[i]] \in Nat /\ v[c[i]] = w[c[i]]
  BY <1>1, <1>2, <1>3
<1>5. PICK h : h = [i \in 1..k |-> w[c[i]]]
  OBVIOUS
<1>50. \A i \in 1..k : h[i] \in Int
  BY <1>4, <1>5
<1>6. total = SumTo(h, k)
  BY <1>2, <1>5 DEF DV!SumTo, SumTo
<1>7. DV!TotalOfSome(k, total, v)
  <2>1. [i \in 1..k |-> v[c[i]]] = h
    BY <1>4, <1>5
  <2>2. total = DV!SumTo([i \in 1..k |-> v[c[i]]], k)
    BY <1>6, <2>1 DEF DV!SumTo, SumTo
  <2>3. c \in [1..k -> 1..n + 1]
    BY <1>4
  <2> QED BY <1>1, <1>2, <2>2, <2>3 DEF DV!TotalOfSome
<1>8. DV!TotalOfSome(k + 1, total + d, v)
  <2>1. PICK e : e = [i \in 1..k + 1 |-> IF i = k + 1 THEN n + 1 ELSE c[i]]
    OBVIOUS
  <2>2. \A i \in 1..k : e[i] = c[i] /\ e[i] \in 1..n /\ i # k + 1
    BY <1>4, <2>1
  <2>3. e[k + 1] = n + 1 /\ \A i \in 1..k + 1 : i = k + 1 \/ i \in 1..k
    BY <2>1
  <2>4. e \in [1..k + 1 -> 1..n + 1]
    <3>1. \A i \in 1..k + 1 : e[i] \in 1..n + 1
      BY <2>2, <2>3
    <3> QED BY <2>1, <3>1
  <2>5. \A i, j \in 1..k + 1 : i # j => e[i] # e[j]
    BY <1>2, <2>2, <2>3
  <2>6. PICK g : g = [i \in 1..k + 1 |-> v[e[i]]]
    OBVIOUS
  <2>7. /\ \A i \in 1..k : g[i] = h[i] /\ g[i] \in Int
        /\ g[k + 1] = d
    BY <1>1, <1>4, <1>5, <1>50, <2>2, <2>3, <2>6
  <2>8. SumTo(g, k) = SumTo(h, k)
    BY <1>50, <2>7, SumToAgrees
  <2>9. SumTo(g, k + 1) = total + d
    BY <1>6, <2>7, <2>8, SumToStep
  <2>10. total + d = DV!SumTo(g, k + 1)
    BY <2>9 DEF DV!SumTo, SumTo
  <2>11. e \in [1..k + 1 -> DOMAIN v]
    BY <1>1, <2>4
  <2>12. total + d = DV!SumTo([i \in 1..k + 1 |-> v[e[i]]], k + 1)
    BY <2>6, <2>10
  <2> QED BY <2>5, <2>11, <2>12 DEF DV!TotalOfSome
<1> QED BY <1>1, <1>7, <1>8

LEMMA ExplainedMore ==
    ASSUME NEW w \in Seq(Nat), NEW d \in Nat, NEW count \in Nat, NEW total,
           DV!Explained(count, total, w)
    PROVE  /\ DV!Explained(count, total, Append(w, d))
           /\ DV!Explained(count + 1, total + d, Append(w, d))
<1>1. PICK n \in Nat, v \in Seq(Nat) :
              /\ n = Len(w) /\ v = Append(w, d) /\ Len(v) = n + 1
              /\ DOMAIN v = 1..n + 1 /\ DOMAIN w = 1..n
              /\ \A i \in 1..n : v[i] = w[i]
              /\ v[n + 1] = d
  BY SessionsAppended
<1>2. PICK k \in 0..n : DV!TotalOfSome(k, total, w) /\ ((\A i \in 1..n : w[i] > 0) => k = count)
  BY <1>1 DEF DV!Explained
<1>3. count <= n /\ k \in Nat
  BY <1>1, <1>2 DEF DV!Explained
<1>4. DV!TotalOfSome(k, total, v) /\ DV!TotalOfSome(k + 1, total + d, v)
  BY <1>1, <1>2, <1>3, TotalOfMore
<1>5. /\ (\A i \in 1..n + 1 : v[i] > 0) => k = count
      /\ (\A i \in 1..n + 1 : v[i] > 0) => k + 1 = count + 1
  BY <1>1, <1>2
<1>6. /\ count <= n + 1 /\ count + 1 <= n + 1
      /\ k \in 0..n + 1 /\ k + 1 \in 0..n + 1
  BY <1>3
<1>7. DV!Explained(count, total, v)
  BY <1>1, <1>4, <1>5, <1>6 DEF DV!Explained
<1>8. DV!Explained(count + 1, total + d, v)
  BY <1>1, <1>4, <1>5, <1>6 DEF DV!Explained
<1> QED BY <1>1, <1>7, <1>8

\* A session that took no time, of a copy with another count.
LEMMA ExplainedCount ==
    ASSUME NEW w \in Seq(Nat), NEW count \in Nat, NEW other \in Nat, NEW total, NEW total2,
           DV!Explained(count, total, w), DV!Explained(other, total2, w)
    PROVE  DV!Explained(other + 1, total, Append(w, 0))
<1>1. PICK n \in Nat, v \in Seq(Nat) :
              /\ n = Len(w) /\ v = Append(w, 0) /\ Len(v) = n + 1
              /\ DOMAIN v = 1..n + 1 /\ DOMAIN w = 1..n
              /\ \A i \in 1..n : v[i] = w[i]
              /\ v[n + 1] = 0
  BY SessionsAppended
<1>2. DV!Explained(count, total, v)
  BY <1>1, ExplainedMore
<1>3. other + 1 <= Len(v)
  BY <1>1 DEF DV!Explained
<1>4. ~ \A i \in DOMAIN v : v[i] > 0
  BY <1>1
<1>5. DV!Explained(other + 1, total, v)
  BY <1>2, <1>3, <1>4 DEF DV!Explained
<1> QED BY <1>1, <1>5

\* A device that has just been registered.
LEMMA ExplainedNone == DV!Explained(0, 0, << >>)
<1>1. PICK none \in Seq(Nat) : none = << >> /\ Len(none) = 0
  <2>1. << >> \in Seq(Nat) /\ Len(<< >>) = 0
    OBVIOUS
  <2> QED BY <2>1
<1>2. PICK c : c \in [1..0 -> DOMAIN none]
  <2>1. [i \in 1..0 |-> 0] \in [1..0 -> DOMAIN none]
    OBVIOUS
  <2> QED BY <2>1
<1>3. \A h : DV!SumTo(h, 0) = 0
  BY SumToStep DEF DV!SumTo, SumTo
<1>4. \A i, j \in 1..0 : FALSE
  OBVIOUS
<1> QED BY <1>1, <1>2, <1>3, <1>4 DEF DV!Explained, DV!TotalOfSome

-----------------------------------------------------------------------------
SessionsExplained(d, w) == DV!Explained(d.sessionCount, d.totalUsageTime, w)

\* A copy to be inserted; a copy of a device that was stored.
InsertedCopy(q) ==
    /\ q.op = "insert"
    /\ q.new \in DV!Device
    /\ q.new.sessionCount = 0 /\ q.new.totalUsageTime = 0

DeviceCopy(q) ==
    /\ q.op # "insert"
    /\ q.old \in DV!Device /\ q.new \in DV!Device /\ q.whole = {}
    /\ q.new.id = q.old.id
    /\ q.op # "session" => /\ q.new.sessionCount = q.old.sessionCount
                           /\ q.new.totalUsageTime = q.old.totalUsageTime
    /\ q.op = "session" =>
          /\ q.new.sessionCount = q.old.sessionCount + 1
          /\ q.new.totalUsageTime = q.old.totalUsageTime + q.new.lastSessionDuration

DeviceSeen(q, d, w, n) ==
    /\ q.old.id < n
    /\ d # Nothing /\ d.id = q.old.id => SessionsExplained(q.old, w)

StoredDevice(d, w, n) == d \in DV!Device /\ d.id < n /\ SessionsExplained(d, w)

DeviceInv ==
    /\ saves \in Nat /\ world \in Seq(Nat)
    /\ stored # Nothing => StoredDevice(stored, world, saves)
    /\ DOMAIN copy = Requests
    /\ \A r \in Requests : copy[r] # Nothing =>
          InsertedCopy(copy[r])
             \/ (DeviceCopy(copy[r]) /\ DeviceSeen(copy[r], stored, world, saves))

LEMMA DeviceFields ==
    ASSUME NEW d \in DV!Device
    PROVE  /\ d.id \in Nat /\ d.status \in DV!Statuses /\ d.sessionCount \in Nat
           /\ d.totalUsageTime \in Nat /\ d.lastSessionDuration \in Nat /\ d.version \in Nat
           /\ DOMAIN d = {"id", "status", "sessionCount", "totalUsageTime",
                          "lastSessionDuration", "version"}
BY DEF DV!Device

\* The copy a request works on.
LEMMA DeviceChange ==
    ASSUME DeviceInv, NEW r \in Requests, NEW op \in {"register", "status", "session", "other"},
           NEW new \in DV!Device, DV!Change(r, op, new, {}),
           new.id = stored.id,
           op # "session" => /\ new.sessionCount = stored.sessionCount
                             /\ new.totalUsageTime = stored.totalUsageTime,
           op = "session" =>
              /\ new.sessionCount = stored.sessionCount + 1
              /\ new.totalUsageTime = stored.totalUsageTime + new.lastSessionDuration
    PROVE  DeviceInv'
<1>1. PICK q : q = [op |-> op, old |-> stored, new |-> new, whole |-> {}]
  OBVIOUS
<1>2. UNCHANGED <<stored, world, saves>> /\ copy' = [copy EXCEPT ![r] = q] /\ stored # Nothing
  BY <1>1 DEF DV!Change, DV!Copy
<1>3. DeviceCopy(q) /\ DeviceSeen(q, stored, world, saves)
  BY <1>1, <1>2 DEF DeviceInv, StoredDevice, DeviceCopy, DeviceSeen
<1>4. ASSUME NEW s \in Requests, copy'[s] # Nothing
      PROVE  InsertedCopy(copy'[s])
                \/ (DeviceCopy(copy'[s]) /\ DeviceSeen(copy'[s], stored, world, saves))
  BY <1>2, <1>3, <1>4 DEF DeviceInv
<1> QED BY <1>2, <1>4 DEF DeviceInv

\* Steps that free slots: of the device with its sessions, or to another device.
LEMMA DeviceKept ==
    ASSUME DeviceInv, saves' \in Nat, saves <= saves', world' \in Seq(Nat),
           stored' # Nothing => StoredDevice(stored', world', saves'),
           \/ stored' = Nothing
           \/ stored'.id = saves
           \/ /\ stored # Nothing /\ stored'.id = stored.id
              /\ world' = world \/ \E d \in Nat : world' = Append(world, d),
           DOMAIN copy' = Requests, \A r \in Requests : copy'[r] \in {copy[r], Nothing}
    PROVE  DeviceInv'
<1>1. ASSUME NEW r \in Requests, copy'[r] # Nothing, ~ InsertedCopy(copy'[r])
      PROVE  DeviceCopy(copy'[r]) /\ DeviceSeen(copy'[r], stored', world', saves')
  <2>1. PICK q : q = copy[r] /\ q = copy'[r] /\ DeviceCopy(q)
                 /\ DeviceSeen(q, stored, world, saves)
    BY <1>1 DEF DeviceInv
  <2>2. q.old.id \in Nat /\ q.old.sessionCount \in Nat /\ saves \in Nat /\ q.old.id < saves
    BY <2>1, DeviceFields DEF DeviceCopy, DeviceSeen, DeviceInv
  <2>3. ASSUME stored' # Nothing, stored'.id = q.old.id PROVE SessionsExplained(q.old, world')
    <3>1. /\ stored # Nothing /\ stored.id = q.old.id
          /\ world' = world \/ \E d \in Nat : world' = Append(world, d)
      BY <2>2, <2>3
    <3>2. SessionsExplained(q.old, world) /\ world \in Seq(Nat)
      BY <2>1, <3>1 DEF DeviceSeen, DeviceInv
    <3> QED BY <2>2, <3>1, <3>2, ExplainedMore DEF SessionsExplained
  <2>4. q.old.id < saves'
    BY <2>2
  <2> QED BY <2>1, <2>3, <2>4 DEF DeviceSeen
<1>2. \A r \in Requests : copy'[r] # Nothing =>
          InsertedCopy(copy'[r])
             \/ (DeviceCopy(copy'[r]) /\ DeviceSeen(copy'[r], stored', world', saves'))
  BY <1>1
<1>3. stored' # Nothing => StoredDevice(stored', world', saves')
  OBVIOUS
<1> QED BY <1>2, <1>3 DEF DeviceInv

\* What a save stores.
LEMMA DeviceSave ==
    ASSUME DeviceInv, NEW r \in Requests, DV!Save(r)
    PROVE  DeviceInv'
<1>1. PICK q : q = copy[r]
  OBVIOUS
<1>2. PICK w : /\ Saved(r, {}, w)
               /\ w = IF q.op = "session" THEN Append(world, q.new.lastSessionDuration)
                      ELSE world
  BY <1>1, DeviceSaves DEF DV!Save
<1>3. /\ q # Nothing /\ q.op # "insert" /\ stored # Nothing /\ stored.id = q.old.id
      /\ saves' = saves + 1
  BY <1>1 DEF DV!Save, DV!SaveCopy
<1>4. /\ stored' = MD!Merged(q, {}) /\ copy' = [copy EXCEPT ![r] = Nothing] /\ world' = w
      /\ saves \in Nat /\ world \in Seq(Nat)
      /\ StoredDevice(stored, world, saves)
      /\ DeviceCopy(q) /\ SessionsExplained(q.old, world)
  BY <1>1, <1>2, <1>3 DEF Saved, DeviceInv, InsertedCopy, DeviceSeen
<1>5. stored \in DV!Device /\ q.old \in DV!Device /\ q.new \in DV!Device /\ q.whole = {}
  BY <1>4 DEF StoredDevice, DeviceCopy
<1>6. PICK d : d = stored'
  OBVIOUS
<1>7. /\ DOMAIN d = DOMAIN stored
      /\ d.id = stored.id
      /\ d.version \in Nat
      /\ d.status = IF q.old.status = q.new.status THEN stored.status ELSE q.new.status
      /\ d.sessionCount = IF q.old.sessionCount = q.new.sessionCount THEN stored.sessionCount
                          ELSE q.new.sessionCount
      /\ d.totalUsageTime = IF q.old.totalUsageTime = q.new.totalUsageTime
                            THEN stored.totalUsageTime ELSE q.new.totalUsageTime
      /\ d.lastSessionDuration = IF q.old.lastSessionDuration = q.new.lastSessionDuration
                                 THEN stored.lastSessionDuration ELSE q.new.lastSessionDuration
  <2>1. PICK count \in {0, 1} : count = IF MD!CountsVersion(q, {}) THEN 1 ELSE 0
    OBVIOUS
  <2>2. DOMAIN stored = {"id", "status", "sessionCount", "totalUsageTime",
                         "lastSessionDuration", "version"} /\ stored.version \in Nat
    BY <1>5, DeviceFields
  <2>3. "version" \notin {} \cup q.whole
    BY <1>5
  <2>4. DOMAIN d = DOMAIN stored /\ d.version = stored.version + count
    BY <1>4, <1>6, <2>1, <2>2, <2>3, MergedFields
  <2>5. \A f \in DOMAIN stored \ {"version"} :
            d[f] = IF q.old[f] = q.new[f] THEN stored[f] ELSE q.new[f]
    BY <1>4, <1>5, <1>6, <2>3, MergedFields
  <2>6. d.id = stored.id
    BY <1>4, <2>2, <2>5 DEF DeviceCopy
  <2> QED BY <2>2, <2>4, <2>5, <2>6
<1>8. d \in DV!Device
  <2>1. d = [id |-> d.id, status |-> d.status, sessionCount |-> d.sessionCount,
             totalUsageTime |-> d.totalUsageTime,
             lastSessionDuration |-> d.lastSessionDuration, version |-> d.version]
    BY <1>4, <1>5, <1>6, <1>7, DeviceFields DEF MD!Merged
  <2>2. d.id \in Nat /\ d.status \in DV!Statuses /\ d.sessionCount \in Nat
        /\ d.totalUsageTime \in Nat /\ d.lastSessionDuration \in Nat
    BY <1>5, <1>7, DeviceFields
  <2> QED BY <1>7, <2>1, <2>2 DEF DV!Device
<1>9. /\ stored.sessionCount \in Nat /\ q.old.sessionCount \in Nat
      /\ q.old.totalUsageTime \in Nat /\ q.new.lastSessionDuration \in Nat
      /\ stored.totalUsageTime \in Nat
  BY <1>5, DeviceFields
<1>10. SessionsExplained(d, w) /\ w \in Seq(Nat)
       /\ (w = world \/ \E x \in Nat : w = Append(world, x))
  <2>1. CASE q.op # "session"
    <3>1. d.sessionCount = stored.sessionCount /\ d.totalUsageTime = stored.totalUsageTime
      BY <1>4, <1>7, <2>1 DEF DeviceCopy
    <3> QED BY <1>2, <1>4, <2>1, <3>1 DEF SessionsExplained, StoredDevice
  <2>2. CASE q.op = "session"
    <3>1. PICK x \in Nat : x = q.new.lastSessionDuration
      BY <1>9
    <3>2. /\ q.new.sessionCount = q.old.sessionCount + 1
          /\ q.new.totalUsageTime = q.old.totalUsageTime + x
      BY <1>4, <2>2, <3>1 DEF DeviceCopy
    <3>3. d.sessionCount = q.old.sessionCount + 1
      BY <1>7, <1>9, <3>2
    <3>4. w = Append(world, x) /\ w \in Seq(Nat)
      BY <1>2, <1>4, <2>2, <3>1
    <3>5. CASE x = 0
      <4>1. d.totalUsageTime = stored.totalUsageTime
        BY <1>7, <1>9, <3>2, <3>5
      <4>2. DV!Explained(q.old.sessionCount + 1, stored.totalUsageTime, Append(world, 0))
        BY <1>4, <1>9, ExplainedCount DEF SessionsExplained, StoredDevice
      <4> QED BY <3>3, <3>4, <3>5, <4>1, <4>2 DEF SessionsExplained
    <3>6. CASE x # 0
      <4>1. d.totalUsageTime = q.old.totalUsageTime + x
        BY <1>7, <1>9, <3>2, <3>6
      <4>2. DV!Explained(q.old.sessionCount + 1, q.old.totalUsageTime + x, Append(world, x))
        BY <1>4, <1>9, ExplainedMore DEF SessionsExplained
      <4> QED BY <3>3, <3>4, <4>1, <4>2 DEF SessionsExplained
    <3> QED BY <3>5, <3>6
  <2> QED BY <2>1, <2>2
<1>11. StoredDevice(stored', world', saves')
  <2>1. d.id < saves'
    BY <1>3, <1>4, <1>7, DeviceFields DEF StoredDevice
  <2> QED BY <1>4, <1>6, <1>8, <1>10, <2>1 DEF StoredDevice
<1>12. DOMAIN copy' = Requests /\ \A s \in Requests : copy'[s] \in {copy[s], Nothing}
  BY <1>4 DEF DeviceInv
<1>13. saves' \in Nat /\ saves <= saves' /\ world' \in Seq(Nat) /\ stored'.id = stored.id
       /\ (world' = world \/ \E x \in Nat : world' = Append(world, x))
  BY <1>3, <1>4, <1>6, <1>7, <1>10
<1> QED BY <1>3, <1>11, <1>12, <1>13, DeviceKept

\* The methods that a request may call on the copy it read.
LEMMA DeviceRead ==
    ASSUME DeviceInv, NEW r \in Requests,
           \/ DV!Register(r) \/ DV!UpdateOther(r)
           \/ \E status \in DV!Statuses : DV!UpdateStatus(r, status)
           \/ \E duration \in Durations : DV!RecordSession(r, duration)
    PROVE  DeviceInv'
<1>1. stored # Nothing /\ stored \in DV!Device
  BY DEF DeviceInv, StoredDevice, DV!Register, DV!UpdateOther, DV!UpdateStatus,
         DV!RecordSession, DV!Change
<1>2. /\ stored = [id |-> stored.id, status |-> stored.status,
                   sessionCount |-> stored.sessionCount,
                   totalUsageTime |-> stored.totalUsageTime,
                   lastSessionDuration |-> stored.lastSessionDuration,
                   version |-> stored.version]
      /\ stored.id \in Nat /\ stored.status \in DV!Statuses /\ stored.sessionCount \in Nat
      /\ stored.totalUsageTime \in Nat /\ stored.lastSessionDuration \in Nat
      /\ stored.version \in Nat
  BY <1>1 DEF DV!Device
<1>3. ASSUME NEW op \in {"register", "status"}, NEW status \in DV!Statuses,
             DV!Change(r, op, [stored EXCEPT !.status = status], {})
      PROVE  DeviceInv'
  <2>1. PICK d : d = [stored EXCEPT !.status = status]
    OBVIOUS
  <2>2. d \in DV!Device
    BY <1>1, <2>1 DEF DV!Device
  <2>3. d.id = stored.id /\ d.sessionCount = stored.sessionCount
        /\ d.totalUsageTime = stored.totalUsageTime
    BY <1>2, <2>1
  <2>4. DV!Change(r, op, d, {})
    BY <1>3, <2>1
  <2> QED BY <2>2, <2>3, <2>4, DeviceChange
<1>4. CASE DV!Register(r)
  <2>1. "active" \in DV!Statuses
    BY DEF DV!Statuses
  <2> QED BY <1>3, <1>4, <2>1 DEF DV!Register
<1>5. CASE \E status \in DV!Statuses : DV!UpdateStatus(r, status)
  BY <1>3, <1>5 DEF DV!UpdateStatus
<1>6. CASE DV!UpdateOther(r)
  <2>1. DV!Change(r, "other", stored, {})
    BY <1>6 DEF DV!UpdateOther
  <2> QED BY <1>1, <2>1, DeviceChange
<1>7. ASSUME NEW duration \in Durations, DV!RecordSession(r, duration)
      PROVE  DeviceInv'
  <2>1. PICK d : d = [stored EXCEPT !.sessionCount = @ + 1, !.totalUsageTime = @ + duration,
                                    !.lastSessionDuration = duration]
    OBVIOUS
  <2>2. duration \in Nat
    BY DurationsAssumption
  <2>3. d = [id |-> stored.id, status |-> stored.status,
             sessionCount |-> stored.sessionCount + 1,
             totalUsageTime |-> stored.totalUsageTime + duration,
             lastSessionDuration |-> duration, version |-> stored.version]
    BY <1>2, <2>1
  <2>4. stored.sessionCount + 1 \in Nat /\ stored.totalUsageTime + duration \in Nat
    BY <1>2, <2>2
  <2>5. d \in DV!Device
    BY <1>2, <2>2, <2>3, <2>4 DEF DV!Device
  <2>6. /\ d.id = stored.id /\ d.sessionCount = stored.sessionCount + 1
        /\ d.totalUsageTime = stored.totalUsageTime + d.lastSessionDuration
    BY <2>3
  <2>7. DV!Change(r, "session", d, {})
    BY <1>7, <2>1 DEF DV!RecordSession
  <2> QED BY <2>5, <2>6, <2>7, DeviceChange
<1> QED BY <1>4, <1>5, <1>6, <1>7

LEMMA DeviceFirst == DV!Init => DeviceInv
<1> SUFFICES ASSUME DV!Init PROVE DeviceInv
  OBVIOUS
<1>1. << >> \in Seq(Nat)
  OBVIOUS
<1> QED BY <1>1 DEF DV!Init, DV!NoCopies, DeviceInv

LEMMA DeviceSteps == DeviceInv /\ [DV!Next]_(DV!document) => DeviceInv'
<1> SUFFICES ASSUME DeviceInv, [DV!Next]_(DV!document) PROVE DeviceInv'
  OBVIOUS
<1>1. /\ saves \in Nat /\ world \in Seq(Nat) /\ DOMAIN copy = Requests
      /\ stored # Nothing => StoredDevice(stored, world, saves)
  BY DEF DeviceInv
<1>2. PICK none \in Seq(Nat) : none = << >>
  <2>1. << >> \in Seq(Nat)
    OBVIOUS
  <2> QED BY <2>1
<1>3. ASSUME NEW r \in Requests,
             \/ DV!Register(r) \/ DV!UpdateOther(r)
             \/ \E status \in DV!Statuses : DV!UpdateStatus(r, status)
             \/ \E duration \in Durations : DV!RecordSession(r, duration)
      PROVE  DeviceInv'
  BY <1>3, DeviceRead
<1>4. ASSUME NEW r \in Requests, DV!RegisterNew(r) PROVE DeviceInv'
  <2>1. PICK q : q = [op |-> "insert", old |-> stored, new |-> DV!New, whole |-> {}]
    OBVIOUS
  <2>2. UNCHANGED <<stored, world, saves>> /\ copy' = [copy EXCEPT ![r] = q]
    BY <1>4, <2>1 DEF DV!RegisterNew, DV!Copy
  <2>3. "active" \in DV!Statuses
    BY DEF DV!Statuses
  <2>4. InsertedCopy(q)
    BY <1>1, <2>1, <2>3 DEF InsertedCopy, DV!New, DV!Device
  <2> QED BY <2>2, <2>4 DEF DeviceInv
<1>5. ASSUME NEW r \in Requests, DV!Insert(r) PROVE DeviceInv'
  <2>1. /\ copy[r] # Nothing /\ copy[r].op = "insert"
        /\ stored' = [copy[r].new EXCEPT !.id = saves] /\ world' = none /\ saves' = saves + 1
        /\ copy' = [copy EXCEPT ![r] = Nothing]
    BY <1>2, <1>5 DEF DV!Insert
  <2>2. InsertedCopy(copy[r])
    BY <2>1 DEF DeviceInv, DeviceCopy
  <2>3. PICK d : d = copy[r].new /\ d \in DV!Device /\ d.sessionCount = 0
                 /\ d.totalUsageTime = 0
    BY <2>2 DEF InsertedCopy
  <2>4. stored' = [d EXCEPT !.id = saves]
    BY <2>1, <2>3
  <2>5. /\ stored' \in DV!Device /\ stored'.id = saves
        /\ stored'.sessionCount = 0 /\ stored'.totalUsageTime = 0
    BY <1>1, <2>3, <2>4 DEF DV!Device
  <2>6. SessionsExplained(stored', world')
    BY <1>2, <2>1, <2>5, ExplainedNone DEF SessionsExplained
  <2>7. StoredDevice(stored', world', saves')
    BY <1>1, <2>1, <2>5, <2>6 DEF StoredDevice
  <2>8. saves' \in Nat /\ saves <= saves' /\ DOMAIN copy' = Requests
        /\ \A s \in Requests : copy'[s] \in {copy[s], Nothing}
    BY <1>1, <2>1
  <2> QED BY <1>2, <2>1, <2>5, <2>7, <2>8, DeviceKept
<1>6. ASSUME NEW r \in Requests, DV!Save(r) PROVE DeviceInv'
  BY <1>6, DeviceSave
<1>7. ASSUME NEW r \in Requests, DV!AbortCopy(r) PROVE DeviceInv'
  BY <1>1, <1>7, DeviceKept DEF DV!AbortCopy
<1>8. CASE DV!Delete
  <2>1. stored' = Nothing /\ world' = none /\ saves' = saves + 1 /\ copy' = copy
    BY <1>2, <1>8 DEF DV!Delete
  <2> QED BY <1>1, <1>2, <2>1, DeviceKept
<1>9. CASE UNCHANGED DV!document
  BY <1>1, <1>9, DeviceKept DEF DV!document
<1> QED BY <1>3, <1>4, <1>5, <1>6, <1>7, <1>8, <1>9 DEF DV!Next

-----------------------------------------------------------------------------
(***************************************************************************)
(* Report templates. Names stay at their places, so that what a reference  *)
(* in a copy resolves to is still in the stored template, or is sent with  *)
(* the copy.                                                               *)
(***************************************************************************)
TemplateArrays == {"parameters", "dataSources", "visualizations", "sections"}

\* t has the names of s at the places of s.
SameNames(s, t) == Len(s) <= Len(t) /\ \A i \in 1..Len(s) : s[i].name = t[i].name

\* What an array may refer to after a save is what it referred to, or what the copy's did.
OldOrNewReferences(s, new, d) ==
    \A i \in 1..Len(d) : \/ i \in 1..Len(s) /\ d[i].refs = s[i].refs
                        \/ \E j \in 1..Len(new) : d[i].refs = new[j].refs

OldAndNewNames(s, new, d) ==
    SameNames(s, d) /\ \A j \in 1..Len(new) : \E i \in 1..Len(d) : d[i].name = new[j].name

TemplateEdition(d, w) ==
    /\ d.edition \in 1..w.changes + 1
    /\ w.changes > 0 => d.edition > 1
    /\ (\E kind \in TemplateArrays : d[kind] # << >>) => w.changes > 0

\* A method adds to one array or to none, and the edition counts unless the element
\* is one that the template has already.
TemplateCopy(q, d, w) ==
    /\ q.old \in RT!ReportTemplate /\ q.new \in RT!ReportTemplate
    /\ RT!Valid(q.new)
    /\ \A kind \in TemplateArrays \ {"sections"} :
           SameNames(q.old[kind], d[kind]) /\ SameNames(q.old[kind], q.new[kind])
    /\ (q.whole = {} /\ q.new.sections = q.old.sections) \/ q.whole = {"sections"}
    /\ q.op # "add" => \A kind \in TemplateArrays : q.whole = {} /\ q.new[kind] = q.old[kind]
    /\ q.old.edition \in 1..w.changes + 1
    /\ q.new.edition = q.old.edition \/ (q.op = "add" /\ q.new.edition = q.old.edition + 1)
    /\ q.op = "add" /\ q.new.edition = q.old.edition => d.edition > 1

TemplateInv ==
    /\ world \in [changes : Nat]
    /\ stored \in RT!ReportTemplate /\ RT!Valid(stored) /\ TemplateEdition(stored, world)
    /\ DOMAIN copy = Requests
    /\ \A r \in Requests : copy[r] # Nothing => TemplateCopy(copy[r], stored, world)

LEMMA TemplateKinds ==
    /\ RT!Kinds = TemplateArrays
    /\ RT!Arrays = TemplateArrays
    /\ DOMAIN RT!RefersTo = TemplateArrays \ {"parameters"}
    /\ \A kind \in DOMAIN RT!RefersTo : RT!RefersTo[kind] \in TemplateArrays \ {"sections"}
BY DEF RT!Kinds, RT!Arrays, RT!RefersTo, TemplateArrays

LEMMA TemplateFields ==
    ASSUME NEW d \in RT!ReportTemplate
    PROVE  /\ DOMAIN d = TemplateArrays \cup {"status", "edition", "usageCount", "version"}
           /\ \A kind \in TemplateArrays : d[kind] \in Seq(RT!Element)
           /\ d.status \in RT!Statuses /\ d.edition \in Nat
           /\ d.usageCount \in Nat /\ d.version \in Nat
BY DEF RT!ReportTemplate, TemplateArrays

\* A template with another array.
Assigned(d, kind, t, e) == e = [d EXCEPT ![kind] = t]

LEMMA TemplateWith ==
    ASSUME NEW d \in RT!ReportTemplate, NEW kind \in TemplateArrays, NEW t \in Seq(RT!Element),
           NEW e, Assigned(d, kind, t, e)
    PROVE  /\ e \in RT!ReportTemplate
           /\ e[kind] = t
           /\ \A other \in TemplateArrays \ {kind} : e[other] = d[other]
           /\ e.edition = d.edition
<1>1. e = [d EXCEPT ![kind] = t]
  BY DEF Assigned
<1>2. DOMAIN d = TemplateArrays \cup {"status", "edition", "usageCount", "version"}
  BY TemplateFields
<1>3. e[kind] = t /\ \A f \in DOMAIN d \ {kind} : e[f] = d[f]
  BY <1>1, <1>2
<1>4. \A f \in {"status", "edition", "usageCount", "version"} : e[f] = d[f]
  BY <1>2, <1>3 DEF TemplateArrays
<1>5. \A other \in TemplateArrays : e[other] \in Seq(RT!Element)
  BY <1>2, <1>3, TemplateFields
<1>6. e = [parameters |-> e.parameters, dataSources |-> e.dataSources,
           visualizations |-> e.visualizations, sections |-> e.sections,
           status |-> e.status, edition |-> e.edition, usageCount |-> e.usageCount,
           version |-> e.version]
  BY <1>1, <1>2 DEF TemplateArrays
<1>7. e \in RT!ReportTemplate
  BY <1>4, <1>5, <1>6, TemplateFields DEF RT!ReportTemplate, TemplateArrays
<1> QED BY <1>1, <1>2, <1>3, <1>4, <1>7

\* The array of names whose elements were replaced by place or pushed.
LEMMA TemplateArrayMerged ==
    ASSUME NEW q, NEW a, NEW s \in Seq(RT!Element), NEW old \in Seq(RT!Element),
           NEW new \in Seq(RT!Element), NEW m,
           s = stored[a], old = q.old[a], new = q.new[a], m = MD!MergedArray(q, a),
           SameNames(old, s), SameNames(old, new)
    PROVE  /\ m \in Seq(RT!Element)
           /\ OldOrNewReferences(s, new, m)
           /\ OldAndNewNames(s, new, m)
<1>1. PICK k \in Nat, l \in Nat, n \in Nat : k = Len(s) /\ l = Len(old) /\ n = Len(new)
  OBVIOUS
<1>2. l <= k /\ l <= n
  BY <1>1 DEF SameNames
<1>3. /\ DOMAIN m = 1..k + (n - l) /\ Len(m) = k + (n - l)
      /\ m = [i \in 1..k + (n - l) |-> m[i]]
      /\ \A i \in 1..k : m[i] = IF i \in 1..l /\ old[i] # new[i]
                                THEN MD!MergedElement(old[i], new[i], s[i]) ELSE s[i]
      /\ \A i \in 1..n - l : m[k + i] = new[l + i]
  <2>1. PICK El : El = RT!Element
    OBVIOUS
  <2>2. stored[a] \in Seq(El) /\ CopiedArray(q, a, El)
    BY <1>1, <1>2, <2>1 DEF CopiedArray
  <2>3. MergedByPlace(old, new, s, m)
    <3>1. MergedByPlace(q.old[a], q.new[a], stored[a], MD!MergedArray(q, a))
      BY <2>2, MergedPlaces
    <3> QED BY <3>1
  <2> QED BY <1>1, <2>3 DEF MergedByPlace
<1>4. Len(m) = k + (n - l) /\ k <= Len(m)
  BY <1>2, <1>3
<1>5. \A i \in 1..k : m[i] = IF i \in 1..l /\ old[i] # new[i]
                            THEN MD!MergedElement(old[i], new[i], s[i]) ELSE s[i]
  BY <1>3
<1>6. \A i \in 1..l : s[i].name = old[i].name /\ new[i].name = old[i].name
  BY <1>1 DEF SameNames
<1>7. /\ \A i \in 1..k : s[i] \in RT!Element
      /\ \A i \in 1..n : new[i] \in RT!Element
      /\ \A i \in 1..l : old[i] \in RT!Element
  BY <1>1
<1>8. ASSUME NEW i \in 1..k
      PROVE  /\ m[i] \in RT!Element /\ m[i].name = s[i].name
             /\ m[i].refs = s[i].refs \/ (i \in 1..l /\ m[i].refs = new[i].refs)
  <2>1. CASE i \in 1..l /\ old[i] # new[i]
    <3>1. PICK x \in RT!Element, y \in RT!Element, z \in RT!Element :
              x = old[i] /\ y = new[i] /\ z = s[i]
      BY <1>2, <1>7, <2>1
    <3>2. x.name = y.name
      BY <1>6, <2>1, <3>1
    <3>3. PICK e : e = MD!MergedElement(x, y, z)
      OBVIOUS
    <3>4. m[i] = e
      BY <1>5, <2>1, <3>1, <3>3
    <3>5. DOMAIN z = {"name", "refs"} /\ z.name \in Names /\ z.refs \in SUBSET Names
          /\ y.refs \in SUBSET Names
      BY DEF RT!Element
    <3>6. e = [f \in {"name", "refs"} |-> IF x[f] = y[f] THEN z[f] ELSE y[f]]
      BY <3>3, <3>5 DEF MD!MergedElement
    <3>7. e.name = z.name /\ (e.refs = z.refs \/ e.refs = y.refs)
      BY <3>2, <3>6
    <3>8. e = [name |-> e.name, refs |-> e.refs]
      BY <3>6
    <3>9. e \in RT!Element
      BY <3>5, <3>7, <3>8 DEF RT!Element
    <3> QED BY <2>1, <3>1, <3>4, <3>7, <3>9
  <2>2. CASE ~ (i \in 1..l /\ old[i] # new[i])
    <3>1. m[i] = s[i]
      BY <1>5, <2>2
    <3> QED BY <1>7, <3>1
  <2> QED BY <2>1, <2>2
<1>9. ASSUME NEW i \in 1..k + (n - l), ~ (i \in 1..k)
      PROVE  \E j \in 1..n : m[i] = new[j]
  <2>1. PICK h \in 1..n - l : i = k + h
    <3>1. i - k \in 1..n - l /\ i = k + (i - k)
      BY <1>2, <1>9
    <3> QED BY <3>1
  <2>2. l + h \in 1..n
    BY <1>2
  <2> QED BY <1>3, <2>1, <2>2
<1>10. m \in Seq(RT!Element)
  <2>1. \A i \in 1..k + (n - l) : m[i] \in RT!Element
    BY <1>7, <1>8, <1>9
  <2>2. k + (n - l) \in Nat
    BY <1>2
  <2>3. m \in [1..k + (n - l) -> RT!Element]
    BY <1>3, <2>1
  <2> QED BY <2>2, <2>3, SeqDef
<1>11. SameNames(s, m)
  BY <1>1, <1>4, <1>8 DEF SameNames
<1>12. ASSUME NEW i \in 1..Len(m)
       PROVE  \/ i \in 1..k /\ m[i].refs = s[i].refs
              \/ \E j \in 1..n : m[i].refs = new[j].refs
  <2>1. CASE i \in 1..k
    <3>1. i \in 1..l => i \in 1..n
      BY <1>2
    <3> QED BY <1>8, <2>1, <3>1
  <2>2. CASE ~ (i \in 1..k)
    <3>1. i \in 1..k + (n - l)
      BY <1>4
    <3> QED BY <1>9, <2>2, <3>1
  <2> QED BY <2>1, <2>2
<1>13. ASSUME NEW j \in 1..n
       PROVE  \E i \in 1..Len(m) : m[i].name = new[j].name
  <2>1. CASE j \in 1..l
    <3>1. j \in 1..k /\ j \in 1..Len(m)
      BY <1>2, <1>4, <2>1
    <3>2. m[j].name = new[j].name
      BY <1>6, <1>8, <2>1, <3>1
    <3> QED BY <3>1, <3>2
  <2>2. CASE ~ (j \in 1..l)
    <3>1. PICK h \in 1..n - l : j = l + h
      <4>1. j - l \in 1..n - l /\ j = l + (j - l)
        BY <1>2, <2>2
      <4> QED BY <4>1
    <3>2. k + h \in 1..Len(m)
      BY <1>2, <1>4
    <3>3. m[k + h] = new[j]
      BY <1>3, <3>1
    <3> QED BY <3>2, <3>3
  <2> QED BY <2>1, <2>2
<1> QED BY <1>1, <1>10, <1>11, <1>12, <1>13 DEF OldOrNewReferences, OldAndNewNames

\* Each array that an accepted save leaves.
LEMMA TemplateArraysMerged ==
    ASSUME stored \in RT!ReportTemplate, NEW q, TemplateCopy(q, stored, world),
           NEW d, d = MD!Merged(q, TemplateArrays), NEW kind \in TemplateArrays
    PROVE  /\ d[kind] \in Seq(RT!Element)
           /\ OldOrNewReferences(stored[kind], q.new[kind], d[kind])
           /\ kind # "sections" => OldAndNewNames(stored[kind], q.new[kind], d[kind])
           /\ q.op # "add" => d[kind] = stored[kind]
<1>1. q.old \in RT!ReportTemplate /\ q.new \in RT!ReportTemplate
  BY DEF TemplateCopy
<1>2. PICK El : El = RT!Element
  OBVIOUS
<1>3. stored[kind] \in Seq(El) /\ q.old[kind] \in Seq(El) /\ q.new[kind] \in Seq(El)
      /\ kind \in DOMAIN stored
  BY <1>1, <1>2, TemplateFields
<1>4. /\ kind \in q.whole => d[kind] = q.new[kind]
      /\ kind \notin q.whole => d[kind] = MD!MergedArray(q, kind)
  <2>1. "version" \notin TemplateArrays \cup q.whole
    BY DEF TemplateCopy, TemplateArrays
  <2> QED BY <1>3, <2>1, MergedFields
<1>5. CASE kind = "sections"
  <2>1. CASE kind \in q.whole
    <3>1. q.op = "add"
      BY <2>1 DEF TemplateCopy
    <3>2. OldOrNewReferences(stored[kind], q.new[kind], q.new[kind])
      BY DEF OldOrNewReferences
    <3> QED BY <1>2, <1>3, <1>4, <1>5, <2>1, <3>1, <3>2
  <2>2. CASE kind \notin q.whole
    <3>1. q.new[kind] = q.old[kind]
      BY <1>5, <2>2 DEF TemplateCopy
    <3>2. MD!MergedArray(q, kind) = stored[kind]
      BY <1>3, <3>1, MergedUntouched
    <3>3. OldOrNewReferences(stored[kind], q.new[kind], stored[kind])
      BY DEF OldOrNewReferences
    <3> QED BY <1>2, <1>3, <1>4, <1>5, <2>2, <3>2, <3>3
  <2> QED BY <2>1, <2>2
<1>6. CASE kind # "sections"
  <2>1. kind \notin q.whole
    BY <1>6 DEF TemplateCopy
  <2>a. PICK m : m = MD!MergedArray(q, kind)
    OBVIOUS
  <2>2. PICK s \in Seq(RT!Element), old \in Seq(RT!Element), new \in Seq(RT!Element) :
            s = stored[kind] /\ old = q.old[kind] /\ new = q.new[kind]
    BY <1>2, <1>3
  <2>3. SameNames(old, s) /\ SameNames(old, new)
    BY <1>6, <2>2 DEF TemplateCopy
  <2>4. m \in Seq(RT!Element) /\ OldOrNewReferences(s, new, m) /\ OldAndNewNames(s, new, m)
    BY <2>2, <2>3, <2>a, TemplateArrayMerged
  <2>5. q.op # "add" => MD!MergedArray(q, kind) = stored[kind]
    <3>1. q.op # "add" => q.new[kind] = q.old[kind]
      BY DEF TemplateCopy
    <3> QED BY <1>3, <3>1, MergedUntouched
  <2> QED BY <1>4, <1>6, <2>1, <2>2, <2>4, <2>5, <2>a
<1> QED BY <1>5, <1>6

\* The references of what an accepted save leaves.
LEMMA TemplateReferences ==
    ASSUME NEW s \in RT!ReportTemplate, NEW new \in RT!ReportTemplate, RT!Valid(s), RT!Valid(new),
           NEW d,
           \A kind \in TemplateArrays :
              /\ d[kind] \in Seq(RT!Element)
              /\ OldOrNewReferences(s[kind], new[kind], d[kind])
              /\ kind # "sections" => OldAndNewNames(s[kind], new[kind], d[kind])
    PROVE  RT!Valid(d)
<1>1. ASSUME NEW kind \in DOMAIN RT!RefersTo, NEW i \in 1..Len(d[kind])
      PROVE  d[kind][i].refs \subseteq RT!NamesOf(d, RT!RefersTo[kind])
  <2>1. PICK to \in TemplateArrays : to = RT!RefersTo[kind] /\ to # "sections" /\ kind \in TemplateArrays
    BY TemplateKinds
  <2>2. /\ d[to] \in Seq(RT!Element) /\ s[to] \in Seq(RT!Element) /\ new[to] \in Seq(RT!Element)
        /\ s[kind] \in Seq(RT!Element) /\ new[kind] \in Seq(RT!Element)
    BY <2>1, TemplateFields
  <2>3. /\ RT!NamesOf(d, to) = {d[to][j].name : j \in 1..Len(d[to])}
        /\ RT!NamesOf(s, to) = {s[to][j].name : j \in 1..Len(s[to])}
        /\ RT!NamesOf(new, to) = {new[to][j].name : j \in 1..Len(new[to])}
    BY <2>2 DEF RT!NamesOf
  <2>4. OldAndNewNames(s[to], new[to], d[to])
    BY <2>1
  <2>5. RT!NamesOf(s, to) \subseteq RT!NamesOf(d, to)
    <3>1. Len(s[to]) <= Len(d[to]) /\ \A j \in 1..Len(s[to]) : s[to][j].name = d[to][j].name
      BY <2>4 DEF OldAndNewNames, SameNames
    <3>2. Len(s[to]) \in Nat /\ Len(d[to]) \in Nat
      BY <2>2
    <3> QED BY <2>3, <3>1, <3>2
  <2>6. RT!NamesOf(new, to) \subseteq RT!NamesOf(d, to)
    <3>1. \A j \in 1..Len(new[to]) : \E h \in 1..Len(d[to]) : d[to][h].name = new[to][j].name
      BY <2>4 DEF OldAndNewNames
    <3> QED BY <2>3, <3>1
  <2>7. CASE i \in 1..Len(s[kind]) /\ d[kind][i].refs = s[kind][i].refs
    <3>1. s[kind][i].refs \subseteq RT!NamesOf(s, to)
      BY <2>1, <2>2, <2>7 DEF RT!Valid
    <3> QED BY <2>1, <2>5, <2>7, <3>1
  <2>8. ASSUME NEW j \in 1..Len(new[kind]), d[kind][i].refs = new[kind][j].refs
        PROVE  d[kind][i].refs \subseteq RT!NamesOf(d, RT!RefersTo[kind])
    <3>1. new[kind][j].refs \subseteq RT!NamesOf(new, to)
      BY <2>1, <2>2 DEF RT!Valid
    <3> QED BY <2>1, <2>6, <2>8, <3>1
  <2>9. OldOrNewReferences(s[kind], new[kind], d[kind])
    BY <2>1
  <2> QED BY <2>7, <2>8, <2>9 DEF OldOrNewReferences
<1>2. \A kind \in DOMAIN RT!RefersTo : DOMAIN d[kind] = 1..Len(d[kind])
  <2>1. \A kind \in DOMAIN RT!RefersTo : d[kind] \in Seq(RT!Element)
    BY TemplateKinds
  <2> QED BY <2>1
<1> QED BY <1>1, <1>2 DEF RT!Valid

\* What an accepted save stores.
LEMMA TemplateMerged ==
    ASSUME world \in [changes : Nat], stored \in RT!ReportTemplate, RT!Valid(stored),
           TemplateEdition(stored, world), NEW q, TemplateCopy(q, stored, world),
           NEW d, d = MD!Merged(q, TemplateArrays),
           NEW w, w = [changes |-> world.changes + (IF q.op = "add" THEN 1 ELSE 0)]
    PROVE  /\ d \in RT!ReportTemplate
           /\ RT!Valid(d)
           /\ TemplateEdition(d, w)
           /\ \A kind \in TemplateArrays \ {"sections"} : SameNames(stored[kind], d[kind])
           /\ stored.edition > 1 => d.edition > 1
<1>1. q.old \in RT!ReportTemplate /\ q.new \in RT!ReportTemplate /\ RT!Valid(q.new)
      /\ "version" \notin TemplateArrays \cup q.whole
  BY DEF TemplateCopy, TemplateArrays
<1>2. PICK count \in {0, 1} : count = IF MD!CountsVersion(q, TemplateArrays) THEN 1 ELSE 0
  OBVIOUS
<1>3. DOMAIN stored = TemplateArrays \cup {"status", "edition", "usageCount", "version"}
  BY TemplateFields
<1>4. DOMAIN d = DOMAIN stored /\ d.version = stored.version + count
  <2>1. "version" \in DOMAIN stored
    BY <1>3
  <2>2. DOMAIN d = DOMAIN stored
    BY <1>1, <2>1, MergedFields
  <2>3. d.version = stored.version + (IF MD!CountsVersion(q, TemplateArrays) THEN 1 ELSE 0)
    BY <1>1, <2>1, MergedFields
  <2> QED BY <1>2, <2>2, <2>3
<1>5. \A f \in {"status", "edition", "usageCount"} :
          d[f] = IF q.old[f] = q.new[f] THEN stored[f] ELSE q.new[f]
  <2>1. \A f \in {"status", "edition", "usageCount"} :
            f \in DOMAIN stored /\ f \notin TemplateArrays \cup q.whole \cup {"version"}
    BY <1>3 DEF TemplateCopy, TemplateArrays
  <2> QED BY <1>1, <2>1, MergedFields
<1>6. \A kind \in TemplateArrays :
          /\ d[kind] \in Seq(RT!Element)
          /\ OldOrNewReferences(stored[kind], q.new[kind], d[kind])
          /\ kind # "sections" => OldAndNewNames(stored[kind], q.new[kind], d[kind])
          /\ q.op # "add" => d[kind] = stored[kind]
  BY TemplateArraysMerged
<1>7. d \in RT!ReportTemplate
  <2>1. d.version \in Nat
    <3>1. stored.version \in Nat
      BY TemplateFields
    <3> QED BY <1>2, <1>4, <3>1
  <2>2. d.status \in RT!Statuses /\ d.edition \in Nat /\ d.usageCount \in Nat
    BY <1>1, <1>5, TemplateFields
  <2>3. d = [parameters |-> d.parameters, dataSources |-> d.dataSources,
             visualizations |-> d.visualizations, sections |-> d.sections,
             status |-> d.status, edition |-> d.edition, usageCount |-> d.usageCount,
             version |-> d.version]
    BY <1>3, <1>4 DEF MD!Merged, TemplateArrays
  <2> QED BY <1>6, <2>1, <2>2, <2>3 DEF RT!ReportTemplate, TemplateArrays
<1>8. RT!Valid(d)
  <2>1. \A kind \in TemplateArrays :
            /\ d[kind] \in Seq(RT!Element)
            /\ OldOrNewReferences(stored[kind], q.new[kind], d[kind])
            /\ kind # "sections" => OldAndNewNames(stored[kind], q.new[kind], d[kind])
    BY <1>6
  <2> QED BY <1>1, <2>1, TemplateReferences
<1>9. /\ TemplateEdition(d, w)
      /\ stored.edition > 1 => d.edition > 1
  <2>1. PICK c \in Nat, i \in {0, 1}, e \in Nat, x \in Nat, y \in Nat :
            c = world.changes /\ i = (IF q.op = "add" THEN 1 ELSE 0) /\ e = stored.edition
            /\ x = q.old.edition /\ y = q.new.edition
    BY <1>1, TemplateFields
  <2>2. w.changes = c + i /\ (q.op = "add" <=> i = 1)
    BY <2>1
  <2>3. d.edition = IF x = y THEN e ELSE y
    BY <1>5, <2>1
  <2>4. /\ e \in 1..c + 1 /\ (c > 0 => e > 1)
        /\ x \in 1..c + 1 /\ (y = x \/ (i = 1 /\ y = x + 1))
        /\ i = 1 /\ y = x => e > 1
    BY <2>1, <2>2 DEF TemplateCopy, TemplateEdition
  <2>5. d.edition \in 1..(c + i) + 1 /\ (c + i > 0 => d.edition > 1) /\ (e > 1 => d.edition > 1)
    BY <2>3, <2>4
  <2>6. (\E kind \in TemplateArrays : d[kind] # << >>) => c + i > 0
    <3>1. CASE i = 1
      BY <3>1
    <3>2. CASE i = 0
      <4>1. \A kind \in TemplateArrays : d[kind] = stored[kind]
        BY <1>6, <2>2, <3>2
      <4>2. (\E kind \in TemplateArrays : stored[kind] # << >>) => c > 0
        BY <2>1 DEF TemplateEdition
      <4> QED BY <3>2, <4>1, <4>2
    <3> QED BY <3>1, <3>2
  <2> QED BY <2>1, <2>2, <2>5, <2>6 DEF TemplateEdition
<1>10. \A kind \in TemplateArrays \ {"sections"} : SameNames(stored[kind], d[kind])
  BY <1>6 DEF OldAndNewNames
<1> QED BY <1>7, <1>8, <1>9, <1>10

\* The copy a request works on.
LEMMA TemplateChange ==
    ASSUME TemplateInv, NEW r \in Requests, NEW q, TemplateCopy(q, stored, world),
           UNCHANGED <<stored, world>>, copy' = [copy EXCEPT ![r] = q]
    PROVE  TemplateInv'
<1>1. ASSUME NEW s \in Requests, copy'[s] # Nothing
      PROVE  TemplateCopy(copy'[s], stored', world')
  BY <1>1 DEF TemplateInv
<1> QED BY <1>1 DEF TemplateInv

\* Steps that free slots.
LEMMA TemplateKept ==
    ASSUME TemplateInv, world' \in [changes : Nat], world.changes <= world'.changes,
           stored' \in RT!ReportTemplate, RT!Valid(stored'), TemplateEdition(stored', world'),
           \A kind \in TemplateArrays \ {"sections"} : SameNames(stored[kind], stored'[kind]),
           stored.edition > 1 => stored'.edition > 1,
           DOMAIN copy' = Requests, \A r \in Requests : copy'[r] \in {copy[r], Nothing}
    PROVE  TemplateInv'
<1>1. ASSUME NEW r \in Requests, copy'[r] # Nothing
      PROVE  TemplateCopy(copy'[r], stored', world')
  <2>1. PICK q : q = copy[r] /\ q = copy'[r] /\ TemplateCopy(q, stored, world)
    BY <1>1 DEF TemplateInv
  <2>2. \A kind \in TemplateArrays \ {"sections"} : SameNames(q.old[kind], stored'[kind])
    <3> SUFFICES ASSUME NEW kind \in TemplateArrays \ {"sections"}
                 PROVE  SameNames(q.old[kind], stored'[kind])
      OBVIOUS
    <3>1. PICK s \in Seq(RT!Element), t \in Seq(RT!Element), u \in Seq(RT!Element) :
              s = q.old[kind] /\ t = stored[kind] /\ u = stored'[kind]
      BY <2>1, TemplateFields DEF TemplateCopy, TemplateInv
    <3>2. SameNames(s, t) /\ SameNames(t, u)
      BY <2>1, <3>1 DEF TemplateCopy
    <3>3. SameNames(s, u)
      BY <3>2 DEF SameNames
    <3> QED BY <3>1, <3>3
  <2>3. q.old.edition \in 1..world'.changes + 1
    <3>1. PICK c \in Nat, d \in Nat, e \in Nat :
              c = world.changes /\ d = world'.changes /\ c <= d /\ e = q.old.edition
      BY <2>1, TemplateFields DEF TemplateCopy, TemplateInv
    <3>2. e \in 1..c + 1
      BY <2>1, <3>1 DEF TemplateCopy
    <3> QED BY <3>1, <3>2
  <2>4. TemplateCopy(q, stored', world')
    BY <2>1, <2>2, <2>3 DEF TemplateCopy
  <2> QED BY <2>1, <2>4
<1> QED BY <1>1 DEF TemplateInv

LEMMA SameNamesReflexive == \A s \in Seq(RT!Element) : SameNames(s, s)
BY DEF SameNames

LEMMA TemplateSave ==
    ASSUME TemplateInv, NEW r \in Requests, RT!Save(r)
    PROVE  TemplateInv'
<1>1. PICK w : /\ Saved(r, TemplateArrays, w)
               /\ w = [changes |-> world.changes + (IF copy[r].op = "add" THEN 1 ELSE 0)]
  BY TemplateSaves, TemplateKinds DEF RT!Save
<1>2. PICK q : q = copy[r]
  OBVIOUS
<1>3. /\ TemplateCopy(q, stored, world) /\ stored' = MD!Merged(q, TemplateArrays)
      /\ world' = w /\ copy' = [copy EXCEPT ![r] = Nothing]
      /\ w = [changes |-> world.changes + (IF q.op = "add" THEN 1 ELSE 0)]
  BY <1>1, <1>2 DEF TemplateInv, Saved
<1>4. /\ world \in [changes : Nat] /\ stored \in RT!ReportTemplate /\ RT!Valid(stored)
      /\ TemplateEdition(stored, world)
  BY DEF TemplateInv
<1>5. PICK d : d = MD!Merged(q, TemplateArrays)
  OBVIOUS
<1>6. /\ d \in RT!ReportTemplate /\ RT!Valid(d) /\ TemplateEdition(d, w)
      /\ \A kind \in TemplateArrays \ {"sections"} : SameNames(stored[kind], d[kind])
      /\ stored.edition > 1 => d.edition > 1
  BY <1>3, <1>4, <1>5, TemplateMerged
<1>7. w \in [changes : Nat] /\ world.changes <= w.changes
  <2>1. PICK c \in Nat, i \in {0, 1} : c = world.changes /\ i = (IF q.op = "add" THEN 1 ELSE 0)
    BY <1>4
  <2> QED BY <1>3, <2>1
<1>8. DOMAIN copy' = Requests /\ \A s \in Requests : copy'[s] \in {copy[s], Nothing}
  BY <1>3 DEF TemplateInv
<1> QED BY <1>3, <1>5, <1>6, <1>7, <1>8, TemplateKept

\* An array with an element added, or in the place of one of its name.
LEMMA TemplateElementAdded ==
    ASSUME NEW s \in Seq(RT!Element), NEW e \in RT!Element, NEW t,
           \/ t = Append(s, e)
           \/ \E i \in 1..Len(s) : s[i].name = e.name /\ t = [s EXCEPT ![i] = e]
    PROVE  /\ t \in Seq(RT!Element)
           /\ SameNames(s, t)
           /\ t = s => s # << >>
<1>1. CASE t = Append(s, e)
  <2>1. /\ Append(s, e) \in Seq(RT!Element) /\ Len(Append(s, e)) = Len(s) + 1
        /\ \A i \in 1..Len(s) : Append(s, e)[i] = s[i]
    OBVIOUS
  <2>2. SameNames(s, t)
    BY <1>1, <2>1 DEF SameNames
  <2>3. t # s
    BY <1>1, <2>1
  <2> QED BY <1>1, <2>1, <2>2, <2>3
<1>2. ASSUME NEW i \in 1..Len(s), s[i].name = e.name, t = [s EXCEPT ![i] = e]
      PROVE  t \in Seq(RT!Element) /\ SameNames(s, t) /\ s # << >>
  <2>1. PICK n \in Nat : n = Len(s) /\ s \in [1..n -> RT!Element]
    BY LenProperties
  <2>2. t \in [1..n -> RT!Element] /\ \A j \in 1..n : t[j].name = s[j].name
    BY <1>2, <2>1
  <2>3. t \in Seq(RT!Element) /\ Len(t) = n
    <3>1. t \in Seq(RT!Element) /\ DOMAIN t = 1..n
      BY <2>2, SeqDef
    <3> QED BY <3>1, LenProperties
  <2>4. SameNames(s, t)
    <3>1. Len(s) <= Len(t)
      BY <2>1, <2>3
    <3>2. \A j \in 1..Len(s) : s[j].name = t[j].name
      BY <2>1, <2>2
    <3> QED BY <3>1, <3>2 DEF SameNames
  <2>5. s # << >>
    BY <1>2
  <2> QED BY <2>3, <2>4, <2>5
<1> QED BY <1>1, <1>2

\* The hook counts the edition if the contents differ.
LEMMA TemplateCounted ==
    ASSUME stored \in RT!ReportTemplate, NEW d \in RT!ReportTemplate, NEW e, e = RT!Counted(d)
    PROVE  /\ e \in RT!ReportTemplate
           /\ \A kind \in TemplateArrays : e[kind] = d[kind]
           /\ e.edition = IF \E kind \in TemplateArrays : d[kind] # stored[kind]
                          THEN d.edition + 1 ELSE d.edition
           /\ RT!Valid(d) => RT!Valid(e)
<1>1. e = IF \E kind \in TemplateArrays : d[kind] # stored[kind]
          THEN [d EXCEPT !.edition = @ + 1] ELSE d
  BY DEF RT!Counted, RT!Kinds, RT!RefersTo, TemplateArrays
<1>2. e \in RT!ReportTemplate
  <2>1. d.edition + 1 \in Nat
    BY TemplateFields
  <2>2. [d EXCEPT !.edition = @ + 1] \in RT!ReportTemplate
    BY <2>1 DEF RT!ReportTemplate
  <2> QED BY <1>1, <2>2
<1>3. e.edition = IF \E kind \in TemplateArrays : d[kind] # stored[kind]
                  THEN d.edition + 1 ELSE d.edition
  BY <1>1 DEF RT!ReportTemplate
<1>4. \A kind \in TemplateArrays : e[kind] = d[kind]
  BY <1>1 DEF RT!ReportTemplate, TemplateArrays
<1>5. RT!Valid(d) => RT!Valid(e)
  <2>1. \A kind \in DOMAIN RT!RefersTo : e[kind] = d[kind] /\ e[RT!RefersTo[kind]] = d[RT!RefersTo[kind]]
    BY <1>4, TemplateKinds
  <2>2. \A kind \in DOMAIN RT!RefersTo :
            RT!NamesOf(e, RT!RefersTo[kind]) = RT!NamesOf(d, RT!RefersTo[kind])
    BY <2>1 DEF RT!NamesOf
  <2> QED BY <2>1, <2>2 DEF RT!Valid
<1> QED BY <1>2, <1>3, <1>4, <1>5

\* What a copy of the stored template has in common with it.
LEMMA TemplateCurrent ==
    ASSUME TemplateInv
    PROVE  /\ stored \in RT!ReportTemplate /\ RT!Valid(stored) /\ TemplateEdition(stored, world)
           /\ world \in [changes : Nat] /\ stored.edition \in 1..world.changes + 1
           /\ \A kind \in TemplateArrays : SameNames(stored[kind], stored[kind])
BY SameNamesReflexive, TemplateFields DEF TemplateInv, TemplateEdition

LEMMA TemplateAdd ==
    ASSUME TemplateInv, NEW r \in Requests, NEW kind \in TemplateArrays, NEW name \in Names,
           NEW refs \in SUBSET Names, RT!AddElement(r, kind, name, refs)
    PROVE  TemplateInv'
<1>1. PICK e : e = [name |-> name, refs |-> refs]
  OBVIOUS
<1>2. e \in RT!Element /\ e.name = name
  BY <1>1 DEF RT!Element
<1>3. PICK s \in Seq(RT!Element) : s = stored[kind]
  BY TemplateCurrent, TemplateFields
<1>4. PICK places : places = {i \in DOMAIN s : s[i].name = e.name}
  OBVIOUS
<1>5. PICK first : first = CHOOSE i \in places : \A j \in places : i <= j
  OBVIOUS
<1>18. PICK t : t = IF places = {} THEN Append(s, e) ELSE [s EXCEPT ![first] = e]
  OBVIOUS
<1>6. t \in Seq(RT!Element) /\ SameNames(s, t) /\ (t = s => s # << >>)
  <2>1. CASE places = {}
    BY <1>2, <1>18, <2>1, TemplateElementAdded
  <2>2. CASE places # {}
    <3>1. places \in SUBSET Nat /\ DOMAIN s = 1..Len(s)
      BY <1>4
    <3>2. \E i \in places : \A j \in places : i <= j
      BY <2>2, <3>1, LeastOfNaturals
    <3>3. first \in places
      BY <1>5, <3>2
    <3>4. first \in 1..Len(s) /\ s[first].name = e.name /\ t = [s EXCEPT ![first] = e]
      BY <1>4, <1>18, <2>2, <3>1, <3>3
    <3> QED BY <1>2, <3>4, TemplateElementAdded
  <2> QED BY <2>1, <2>2
<1>7. PICK new : new = [stored EXCEPT ![kind] = t]
  OBVIOUS
<1>8. PICK whole : whole = IF kind = "sections" THEN {kind} ELSE {}
  OBVIOUS
<1>9. RT!Valid(new) /\ RT!Change(r, "add", RT!Counted(new), whole)
  <2>1. kind \in DOMAIN stored
    BY TemplateCurrent, TemplateFields
  <2>2. places = {i \in DOMAIN stored[kind] : stored[kind][i].name = name}
    BY <1>2, <1>3, <1>4
  <2>3. new = [stored EXCEPT ![kind] = IF places = {} THEN Append(@, e) ELSE [@ EXCEPT ![first] = e]]
    BY <1>3, <1>18, <1>7, <2>1
  <2> QED BY <1>1, <1>5, <1>8, <2>2, <2>3 DEF RT!AddElement
<1>10. /\ new \in RT!ReportTemplate /\ new[kind] = t /\ new.edition = stored.edition
       /\ \A other \in TemplateArrays \ {kind} : new[other] = stored[other]
  <2>1. Assigned(stored, kind, t, new)
    BY <1>7 DEF Assigned
  <2> QED BY <1>6, <2>1, TemplateCurrent, TemplateWith
<1>11. PICK d : d = RT!Counted(new)
  OBVIOUS
<1>12. /\ d \in RT!ReportTemplate /\ RT!Valid(d)
       /\ \A other \in TemplateArrays : d[other] = new[other]
       /\ d.edition = IF \E other \in TemplateArrays : new[other] # stored[other]
                      THEN new.edition + 1 ELSE new.edition
  BY <1>9, <1>10, <1>11, TemplateCurrent, TemplateCounted
<1>13. PICK q : q = [op |-> "add", old |-> stored, new |-> d, whole |-> whole]
  OBVIOUS
<1>14. UNCHANGED <<stored, world>> /\ copy' = [copy EXCEPT ![r] = q]
  BY <1>9, <1>11, <1>13 DEF RT!Change, RT!Copy
<1>15. \A other \in TemplateArrays \ {"sections"} : SameNames(stored[other], d[other])
  BY <1>3, <1>6, <1>10, <1>12, TemplateCurrent
<1>16. d.edition = stored.edition => stored.edition > 1
  <2>1. ASSUME d.edition = stored.edition PROVE t = s
    <3>1. stored.edition + 1 # stored.edition
      BY TemplateCurrent, TemplateFields
    <3> QED BY <1>3, <1>10, <1>12, <2>1, <3>1
  <2>2. s # << >> => stored.edition > 1
    BY <1>3, TemplateCurrent DEF TemplateEdition
  <2> QED BY <1>6, <2>1, <2>2
<1>17. TemplateCopy(q, stored, world)
  <2>1. q.op = "add" /\ q.old = stored /\ q.new = d /\ q.whole = whole
    BY <1>13
  <2>2. d.edition = stored.edition \/ d.edition = stored.edition + 1
    BY <1>10, <1>12
  <2>3. (whole = {} /\ d.sections = stored.sections) \/ whole = {"sections"}
    BY <1>8, <1>10, <1>12 DEF TemplateArrays
  <2> QED BY <1>12, <1>15, <1>16, <2>1, <2>2, <2>3, TemplateCurrent DEF TemplateCopy
<1> QED BY <1>14, <1>17, TemplateChange

\* A method that leaves the contents alone.
LEMMA TemplateOther ==
    ASSUME TemplateInv, NEW r \in Requests, NEW op, op # "add", NEW d \in RT!ReportTemplate,
           \A kind \in TemplateArrays : d[kind] = stored[kind], d.edition = stored.edition,
           RT!Change(r, op, d, {})
    PROVE  TemplateInv'
<1>1. PICK q : q = [op |-> op, old |-> stored, new |-> d, whole |-> {}]
  OBVIOUS
<1>2. UNCHANGED <<stored, world>> /\ copy' = [copy EXCEPT ![r] = q]
  BY <1>1 DEF RT!Change, RT!Copy
<1>3. RT!Valid(d)
  <2>1. \A kind \in DOMAIN RT!RefersTo :
            d[kind] = stored[kind] /\ d[RT!RefersTo[kind]] = stored[RT!RefersTo[kind]]
    BY TemplateKinds
  <2>2. \A kind \in DOMAIN RT!RefersTo :
            RT!NamesOf(d, RT!RefersTo[kind]) = RT!NamesOf(stored, RT!RefersTo[kind])
    BY <2>1 DEF RT!NamesOf
  <2> QED BY <2>1, <2>2, TemplateCurrent DEF RT!Valid
<1>4. q.op = op /\ q.old = stored /\ q.new = d /\ q.whole = {}
  BY <1>1
<1>5. d.sections = stored.sections
  BY DEF TemplateArrays
<1>6. TemplateCopy(q, stored, world)
  BY <1>3, <1>4, <1>5, TemplateCurrent DEF TemplateCopy
<1> QED BY <1>2, <1>6, TemplateChange

LEMMA TemplateFirst == RT!Init => TemplateInv
<1> SUFFICES ASSUME RT!Init PROVE TemplateInv
  OBVIOUS
<1>1. << >> \in Seq(RT!Element) /\ DOMAIN << >> = {}
  OBVIOUS
<1>2. stored = [parameters |-> << >>, dataSources |-> << >>, visualizations |-> << >>,
                sections |-> << >>, status |-> "DRAFT", edition |-> 1,
                usageCount |-> 0, version |-> 0]
  BY DEF RT!Init
<1>3. \A kind \in TemplateArrays : stored[kind] = << >>
  BY <1>2 DEF TemplateArrays
<1>4. stored \in RT!ReportTemplate
  BY <1>1, <1>2 DEF RT!ReportTemplate, RT!Statuses
<1>5. RT!Valid(stored)
  BY <1>1, <1>3, TemplateKinds DEF RT!Valid
<1>6. world = [changes |-> 0] /\ copy = [r \in Requests |-> Nothing]
  BY DEF RT!Init, RT!NoCopies
<1>7. TemplateEdition(stored, world)
  BY <1>2, <1>3, <1>6 DEF TemplateEdition
<1> QED BY <1>4, <1>5, <1>6, <1>7 DEF TemplateInv

LEMMA TemplateSteps == TemplateInv /\ [RT!Next]_(RT!document) => TemplateInv'
<1> SUFFICES ASSUME TemplateInv, [RT!Next]_(RT!document) PROVE TemplateInv'
  OBVIOUS
<1>1. DOMAIN copy = Requests /\ stored \in RT!ReportTemplate
  BY DEF TemplateInv
<1>2. ASSUME NEW r \in Requests, NEW kind \in RT!Kinds, NEW name \in Names,
             NEW refs \in SUBSET Names, RT!AddElement(r, kind, name, refs)
      PROVE  TemplateInv'
  BY <1>2, TemplateAdd, TemplateKinds
<1>3. ASSUME NEW r \in Requests, NEW status \in RT!Statuses, RT!SetStatus(r, status)
      PROVE  TemplateInv'
  <2>1. PICK d : d = [stored EXCEPT !.status = status]
    OBVIOUS
  <2>2. d \in RT!ReportTemplate /\ d.edition = stored.edition
    BY <1>1, <2>1 DEF RT!ReportTemplate
  <2>3. \A kind \in TemplateArrays : d[kind] = stored[kind]
    BY <1>1, <2>1, TemplateFields DEF TemplateArrays
  <2>4. RT!Change(r, "setStatus", d, {})
    BY <1>3, <2>1 DEF RT!SetStatus
  <2> QED BY <2>2, <2>3, <2>4, TemplateOther
<1>4. ASSUME NEW r \in Requests, RT!IncrementUsage(r) PROVE TemplateInv'
  <2>1. PICK d : d = [stored EXCEPT !.usageCount = @ + 1]
    OBVIOUS
  <2>2. stored.usageCount + 1 \in Nat
    BY <1>1, TemplateFields
  <2>5. d \in RT!ReportTemplate /\ d.edition = stored.edition
    BY <1>1, <2>1, <2>2 DEF RT!ReportTemplate
  <2>3. \A kind \in TemplateArrays : d[kind] = stored[kind]
    BY <1>1, <2>1, TemplateFields DEF TemplateArrays
  <2>4. RT!Change(r, "incrementUsage", d, {})
    BY <1>4, <2>1 DEF RT!IncrementUsage
  <2> QED BY <2>3, <2>4, <2>5, TemplateOther
<1>5. ASSUME NEW r \in Requests, RT!Save(r) PROVE TemplateInv'
  BY <1>5, TemplateSave
<1>6. ASSUME NEW r \in Requests, RT!AbortCopy(r) PROVE TemplateInv'
  <2>1. UNCHANGED <<stored, world>> /\ copy' = [copy EXCEPT ![r] = Nothing]
    BY <1>6 DEF RT!AbortCopy
  <2> QED BY <1>1, <2>1, TemplateCurrent, TemplateKept
<1>7. CASE UNCHANGED RT!document
  <2>1. UNCHANGED <<stored, world, copy>>
    BY <1>7 DEF RT!document
  <2> QED BY <1>1, <2>1, TemplateCurrent, TemplateKept
<1> QED BY <1>2, <1>3, <1>4, <1>5, <1>6, <1>7 DEF RT!Next

\* The two properties of a template.
LEMMA TemplateImplies == TemplateInv => RT!ReferencesResolve /\ RT!EditionsCounted
<1> SUFFICES ASSUME TemplateInv PROVE RT!ReferencesResolve /\ RT!EditionsCounted
  OBVIOUS
<1>1. RT!EditionsCounted
  BY DEF TemplateInv, TemplateEdition, RT!EditionsCounted
<1>2. RT!ReferencesResolve
  BY TemplateCurrent DEF RT!Valid, RT!NamesOf, RT!ReferencesResolve
<1> QED BY <1>1, <1>2

-----------------------------------------------------------------------------
(***************************************************************************)
(* Lists whose elements have ids, changed by place, pushed to, or assigned *)
(* with elements taken out. A copy of the stored version has the stored    *)
(* ids at the stored places; an id is given once, by the slot and the      *)
(* number of saves when the copy was made.                                 *)
(***************************************************************************)
SameIds(s, t) == Len(s) = Len(t) /\ \A i \in 1..Len(s) : s[i].id = t[i].id

OneEach(s) == \A i, j \in 1..Len(s) : s[i].id = s[j].id => i = j

\* The ids of slot r in s were given before n.
Before(s, r, n) == \A i \in 1..Len(s) : s[i].id.slot = r => s[i].id.at \in 0..n - 1

\* t has the ids of s at their places, and then ids of slot r that were given at n.
Pushes(s, t, r, n) ==
    /\ Len(s) <= Len(t)
    /\ \A i \in 1..Len(s) : t[i].id = s[i].id
    /\ \A i \in 1..Len(t) : i > Len(s) => t[i].id.slot = r /\ t[i].id.at = n
    /\ \A i, j \in 1..Len(t) : i > Len(s) /\ j > Len(s) /\ t[i].id = t[j].id => i = j

\* t has elements of s only.
Taken(s, t) == \A i \in 1..Len(t) : \E k \in 1..Len(s) : t[i] = s[k]

ListCopy(q, a, r, d, n) ==
    /\ q.old.version = d.version => SameIds(q.old[a], d[a])
    /\ IF a \in q.whole THEN Taken(q.old[a], q.new[a]) /\ OneEach(q.new[a])
       ELSE \E at \in 0..n : Pushes(q.old[a], q.new[a], r, at) /\ Before(d[a], r, at)

ListsCopy(q, r, d, A, El, n) ==
    /\ q.whole \subseteq A
    /\ q.old.version \in Nat /\ q.old.version <= d.version
    /\ \A a \in A : /\ q.old[a] \in Seq(El) /\ q.new[a] \in Seq(El)
                    /\ ListCopy(q, a, r, d, n)

ListsStored(d, A, El, n) ==
    /\ DOMAIN d \cap (A \cup {"version"}) = A \cup {"version"}
    /\ d.version \in Nat
    /\ \A a \in A : /\ d[a] \in Seq(El) /\ OneEach(d[a])
                    /\ \A r \in Requests : Before(d[a], r, n)

\* Elements that are changed by place remain elements, and keep their ids.
MergesElements(El) ==
    \A x, y, z \in El : x.id = y.id => /\ MD!MergedElement(x, y, z) \in El
                                       /\ MD!MergedElement(x, y, z).id = z.id

\* At most one list is not the stored one.
OneChanged(new, A) == \A a \in A : \A b \in A \ {a} : new[a] = stored[a] \/ new[b] = stored[b]

\* r makes a copy of the stored version in which at most one list is another one: without
\* elements, or with elements pushed.
MakesCopy(r, A) ==
    /\ UNCHANGED <<stored, world, saves>>
    /\ \E q : /\ copy' = [copy EXCEPT ![r] = q]
              /\ q.old = stored
              /\ \A a \in A : IF a \in q.whole THEN Taken(stored[a], q.new[a])
                             ELSE Pushes(stored[a], q.new[a], r, saves)
              /\ OneChanged(q.new, A)

\* An element that is another one in d was changed by q, or was such a one when q read it.
ChangedBy(q, d, a, i, j) ==
    \E k \in 1..Len(q.old[a]) : /\ q.old[a][k].id = stored[a][i].id
                                /\ IF a \in q.whole THEN q.old[a][k] = d[a][j]
                                   ELSE q.old[a][k] # q.new[a][k]

LEMMA SameIdsReflexive == \A s : SameIds(s, s)
BY DEF SameIds

LEMMA SameIdsTransitive == \A s, t, u : SameIds(s, t) /\ SameIds(t, u) => SameIds(s, u)
BY DEF SameIds

LEMMA BeforeLater ==
    ASSUME NEW n \in Nat, NEW m \in Nat, NEW s, NEW r, n < m, Before(s, r, n)
    PROVE  Before(s, r, m)
BY DEF Before

\* What remains true of the ids when elements are pushed.
LEMMA PushedIds ==
    ASSUME NEW El, NEW s \in Seq(El), NEW t \in Seq(El), NEW r, NEW n \in Nat,
           OneEach(s), Before(s, r, n), Pushes(s, t, r, n)
    PROVE  /\ OneEach(t)
           /\ \A i \in 1..Len(s), j \in 1..Len(t) : s[i].id = t[j].id => i = j
           /\ \A other : \A m \in Nat :
                 Before(s, other, m) /\ (other # r \/ n < m) => Before(t, other, m)
<1>1. PICK k \in Nat, l \in Nat : k = Len(s) /\ l = Len(t)
  OBVIOUS
<1>2. k <= l /\ \A i \in 1..k : t[i].id = s[i].id
  BY <1>1 DEF Pushes
<1>3. \A i \in 1..l : i > k => t[i].id.slot = r /\ t[i].id.at = n
  BY <1>1 DEF Pushes
<1>4. ASSUME NEW i \in 1..k, NEW j \in 1..l, s[i].id = t[j].id
      PROVE  i = j
  <2>1. CASE j > k
    <3>1. s[i].id.slot = r /\ s[i].id.at = n
      BY <1>3, <1>4, <2>1
    <3>2. s[i].id.at \in 0..n - 1
      BY <1>1, <3>1 DEF Before
    <3> QED BY <3>1, <3>2
  <2>2. CASE ~ (j > k)
    <3>1. j \in 1..k
      BY <2>2
    <3>2. s[i].id = s[j].id
      BY <1>2, <1>4, <3>1
    <3> QED BY <1>1, <3>1, <3>2 DEF OneEach
  <2> QED BY <2>1, <2>2
<1>5. ASSUME NEW i \in 1..l, NEW j \in 1..l, t[i].id = t[j].id
      PROVE  i = j
  <2>1. CASE i > k /\ j > k
    BY <1>1, <1>5, <2>1 DEF Pushes
  <2>2. CASE ~ (i > k)
    <3>1. i \in 1..k
      BY <2>2
    <3> QED BY <1>2, <1>4, <1>5, <3>1
  <2>3. CASE ~ (j > k)
    <3>1. j \in 1..k
      BY <2>3
    <3> QED BY <1>2, <1>4, <1>5, <3>1
  <2> QED BY <2>1, <2>2, <2>3
<1>6. ASSUME NEW other, NEW m \in Nat, Before(s, other, m), other # r \/ n < m,
             NEW i \in 1..l, t[i].id.slot = other
      PROVE  t[i].id.at \in 0..m - 1
  <2>1. CASE i > k
    BY <1>3, <1>6, <2>1
  <2>2. CASE ~ (i > k)
    <3>1. i \in 1..k
      BY <2>2
    <3> QED BY <1>1, <1>2, <1>6, <3>1 DEF Before
  <2> QED BY <2>1, <2>2
<1> QED BY <1>1, <1>4, <1>5, <1>6 DEF OneEach, Before

\* The ids of a list with elements of s.
LEMMA TakenIds ==
    ASSUME NEW El, NEW s \in Seq(El), NEW old \in Seq(El), NEW t \in Seq(El),
           SameIds(old, s), Taken(old, t), NEW r, NEW n \in Nat, Before(s, r, n)
    PROVE  Before(t, r, n)
<1>1. ASSUME NEW i \in 1..Len(t), t[i].id.slot = r PROVE t[i].id.at \in 0..n - 1
  <2>1. PICK k \in 1..Len(old) : t[i] = old[k]
    BY DEF Taken
  <2>2. k \in 1..Len(s) /\ s[k].id = t[i].id
    BY <2>1 DEF SameIds
  <2> QED BY <1>1, <2>2 DEF Before
<1> QED BY <1>1 DEF Before

\* The list of which elements were changed by place or pushed.
LEMMA MergedIds ==
    ASSUME NEW El, MergesElements(El), NEW s \in Seq(El), NEW old \in Seq(El),
           NEW new \in Seq(El), NEW m, MergedByPlace(old, new, s, m),
           NEW r, NEW at, Pushes(old, new, r, at)
    PROVE  /\ m \in Seq(El) /\ Pushes(s, m, r, at)
           /\ Len(m) = Len(s) + (Len(new) - Len(old))
           /\ \A i \in 1..Len(s) : m[i] # s[i] => i \in 1..Len(old) /\ old[i] # new[i]
<1>1. PICK k \in Nat, l \in Nat, n \in Nat : k = Len(s) /\ l = Len(old) /\ n = Len(new)
  OBVIOUS
<1>2. l <= n
  BY <1>1 DEF Pushes
<1>3. /\ DOMAIN m = 1..k + (n - l) /\ Len(m) = k + (n - l)
      /\ m = [i \in 1..k + (n - l) |-> m[i]]
      /\ \A i \in 1..k : m[i] = IF i \in 1..l /\ old[i] # new[i]
                                THEN MD!MergedElement(old[i], new[i], s[i]) ELSE s[i]
      /\ \A i \in 1..n - l : m[k + i] = new[l + i]
  BY <1>1 DEF MergedByPlace
<1>4. /\ \A i \in 1..k : s[i] \in El
      /\ \A i \in 1..n : new[i] \in El
      /\ \A i \in 1..l : old[i] \in El
  BY <1>1
<1>5. \A i \in 1..l : i \in 1..n /\ new[i].id = old[i].id
  BY <1>1, <1>2 DEF Pushes
<1>6. ASSUME NEW i \in 1..k
      PROVE  m[i] \in El /\ m[i].id = s[i].id /\ (m[i] # s[i] => i \in 1..l /\ old[i] # new[i])
  <2>1. CASE i \in 1..l /\ old[i] # new[i]
    <3>1. PICK x \in El, y \in El, z \in El : x = old[i] /\ y = new[i] /\ z = s[i]
      BY <1>4, <1>5, <2>1
    <3>2. x.id = y.id
      BY <1>5, <2>1, <3>1
    <3>3. m[i] = MD!MergedElement(x, y, z)
      BY <1>3, <2>1, <3>1
    <3> QED BY <2>1, <3>1, <3>2, <3>3 DEF MergesElements
  <2>2. CASE ~ (i \in 1..l /\ old[i] # new[i])
    <3>1. m[i] = s[i]
      BY <1>3, <2>2
    <3> QED BY <1>4, <3>1
  <2> QED BY <2>1, <2>2
<1>7. ASSUME NEW i \in 1..k + (n - l), i > k
      PROVE  l + (i - k) \in 1..n /\ l + (i - k) > l /\ m[i] = new[l + (i - k)]
  <2>1. i - k \in 1..n - l /\ k + (i - k) = i /\ l + (i - k) \in 1..n /\ l + (i - k) > l
    BY <1>2, <1>7
  <2> QED BY <1>3, <2>1
<1>8. m \in Seq(El)
  <2>1. ASSUME NEW i \in 1..k + (n - l) PROVE m[i] \in El
    <3>1. i \in 1..k \/ i > k
      OBVIOUS
    <3> QED BY <1>4, <1>6, <1>7, <3>1
  <2>2. k + (n - l) \in Nat
    BY <1>2
  <2>3. m \in [1..k + (n - l) -> El]
    BY <1>3, <2>1
  <2> QED BY <2>2, <2>3, SeqDef
<1>9. ASSUME NEW i \in 1..k + (n - l), i > k PROVE m[i].id.slot = r /\ m[i].id.at = at
  <2>1. PICK j \in 1..n : j > l /\ m[i] = new[j]
    BY <1>7, <1>9
  <2> QED BY <1>1, <2>1 DEF Pushes
<1>10. ASSUME NEW i \in 1..k + (n - l), NEW j \in 1..k + (n - l), i > k, j > k,
              m[i].id = m[j].id
       PROVE  i = j
  <2>1. PICK x \in 1..n, y \in 1..n : x = l + (i - k) /\ y = l + (j - k)
    BY <1>7, <1>10
  <2>2. x > l /\ y > l /\ m[i] = new[x] /\ m[j] = new[y]
    BY <1>7, <1>10, <2>1
  <2>3. x = y
    BY <1>1, <1>10, <2>2 DEF Pushes
  <2> QED BY <2>1, <2>3
<1>11. k <= k + (n - l)
  BY <1>2
<1>12. Pushes(s, m, r, at)
  BY <1>1, <1>3, <1>6, <1>9, <1>10, <1>11 DEF Pushes
<1> QED BY <1>1, <1>3, <1>6, <1>8, <1>12
\* A list that an accepted save leaves.
LEMMA ListSaved ==
    ASSUME NEW El, MergesElements(El), NEW A, NEW n \in Nat, ListsStored(stored, A, El, n),
           "version" \notin A, NEW r \in Requests, NEW q, ListsCopy(q, r, stored, A, El, n),
           MD!Accepted(q, A), NEW d, d = MD!Merged(q, A), NEW a \in A
    PROVE  /\ d[a] \in Seq(El) /\ OneEach(d[a])
           /\ \A other \in Requests, m \in Nat :
                 Before(stored[a], other, m) /\ (other # r \/ n < m) => Before(d[a], other, m)
           /\ \A i \in 1..Len(stored[a]), j \in 1..Len(d[a]) :
                 (stored[a][i].id = d[a][j].id /\ stored[a][i] # d[a][j])
                    => ChangedBy(q, d, a, i, j)
           /\ ~ MD!CountsVersion(q, A) => SameIds(stored[a], d[a])
<1>0. PICK t : t = d[a]
  OBVIOUS
<1>1. /\ a \in q.whole => d[a] = q.new[a]
      /\ a \notin q.whole => d[a] = MD!MergedArray(q, a)
  <2>1. "version" \notin A \cup q.whole /\ a \in DOMAIN stored
    BY DEF ListsCopy, ListsStored
  <2> QED BY <2>1, MergedFields
<1>2. PICK s \in Seq(El), old \in Seq(El), new \in Seq(El) :
          s = stored[a] /\ old = q.old[a] /\ new = q.new[a]
  BY DEF ListsCopy, ListsStored
<1>3. OneEach(s) /\ \A other \in Requests : Before(s, other, n)
  BY <1>0, <1>2 DEF ListsStored
<1>4. ListCopy(q, a, r, stored, n)
  BY DEF ListsCopy
<1>5. CASE a \in q.whole
  <2>1. SameIds(old, s)
    <3>1. MD!ComparesVersion(q, A)
      BY <1>5 DEF MD!ComparesVersion
    <3> QED BY <1>0, <1>2, <1>4, <3>1 DEF ListCopy, MD!Accepted
  <2>2. t = new /\ Taken(old, t) /\ OneEach(t)
    BY <1>1, <1>0, <1>2, <1>4, <1>5 DEF ListCopy
  <2>3. \A other \in Requests, m \in Nat : Before(s, other, m) => Before(t, other, m)
    BY <2>1, <2>2, TakenIds
  <2>4. ASSUME NEW i \in 1..Len(s), NEW j \in 1..Len(t), s[i].id = t[j].id
        PROVE  \E k \in 1..Len(old) : old[k].id = s[i].id /\ old[k] = t[j]
    BY <2>2, <2>4 DEF Taken
  <2>5. MD!CountsVersion(q, A)
    BY <1>5 DEF MD!CountsVersion
  <2> QED BY <1>0, <1>2, <1>5, <2>2, <2>3, <2>4, <2>5 DEF ChangedBy
<1>6. CASE a \notin q.whole
  <2>1. PICK at \in 0..n : Pushes(old, new, r, at) /\ Before(s, r, at)
    BY <1>0, <1>2, <1>4, <1>6 DEF ListCopy
  <2>2. MergedByPlace(old, new, s, t)
    <3>1. CopiedArray(q, a, El) /\ stored[a] \in Seq(El)
      BY <1>0, <1>2, <2>1 DEF CopiedArray, Pushes
    <3>2. MergedByPlace(q.old[a], q.new[a], stored[a], MD!MergedArray(q, a))
      BY <3>1, MergedPlaces
    <3> QED BY <1>1, <1>0, <1>2, <1>6, <3>2
  <2>3. /\ t \in Seq(El) /\ Pushes(s, t, r, at)
        /\ Len(t) = Len(s) + (Len(new) - Len(old))
        /\ \A i \in 1..Len(s) : t[i] # s[i] => i \in 1..Len(old) /\ old[i] # new[i]
    BY <2>1, <2>2, MergedIds
  <2>4. at \in Nat /\ at <= n
    BY <2>1
  <2>5. /\ OneEach(t)
        /\ \A i \in 1..Len(s), j \in 1..Len(t) : s[i].id = t[j].id => i = j
        /\ \A other : \A m \in Nat :
               Before(s, other, m) /\ (other # r \/ at < m) => Before(t, other, m)
    BY <1>3, <2>1, <2>3, <2>4, PushedIds
  <2>6. \A other \in Requests, m \in Nat :
            Before(s, other, m) /\ (other # r \/ n < m) => Before(t, other, m)
    <3>1. \A m \in Nat : n < m => at < m
      BY <2>4
    <3> QED BY <2>5, <3>1
  <2>7. ASSUME NEW i \in 1..Len(s), NEW j \in 1..Len(t), s[i].id = t[j].id, s[i] # t[j]
        PROVE  \E k \in 1..Len(old) : old[k].id = s[i].id /\ old[k] # new[k]
    <3>1. i \in 1..Len(old) /\ old[i] # new[i]
      BY <2>3, <2>5, <2>7
    <3>2. MD!ComparesVersion(q, A)
      BY <1>0, <1>2, <1>6, <3>1 DEF MD!ComparesVersion, MD!ElementsChanged, MD!Places
    <3>3. SameIds(old, s)
      BY <1>0, <1>2, <1>4, <3>2 DEF ListCopy, MD!Accepted
    <3> QED BY <3>1, <3>3 DEF SameIds
  <2>8. ASSUME ~ MD!CountsVersion(q, A) PROVE SameIds(s, t)
    <3>1. PICK k \in Nat, l \in Nat : k = Len(old) /\ l = Len(new) /\ k <= l
      BY <2>1 DEF Pushes
    <3>2. SubSeq(new, k + 1, l) = << >>
      BY <1>0, <1>2, <2>8, <3>1 DEF MD!CountsVersion, MD!Pushed
    <3>3. Len(SubSeq(new, k + 1, l)) = l - k
      BY <3>1, SuffixProperties
    <3>5. l - k = 0
      BY <3>2, <3>3
    <3>4. Len(t) = Len(s)
      <4>1. Len(s) \in Nat /\ Len(t) = Len(s) + (l - k)
        BY <2>3, <3>1
      <4> QED BY <3>5, <4>1
    <3> QED BY <2>3, <3>4 DEF SameIds, Pushes
  <2>9. \A i \in 1..Len(stored[a]), j \in 1..Len(d[a]) :
            (stored[a][i].id = d[a][j].id /\ stored[a][i] # d[a][j])
               => ChangedBy(q, d, a, i, j)
    BY <1>0, <1>2, <1>6, <2>7 DEF ChangedBy
  <2> QED BY <1>0, <1>2, <2>3, <2>5, <2>6, <2>8, <2>9
<1> QED BY <1>5, <1>6

\* All of the lists, and the copies of other requests.
LEMMA ListsSaved ==
    ASSUME NEW El, MergesElements(El), NEW A, NEW n \in Nat, ListsStored(stored, A, El, n),
           "version" \notin A, NEW r \in Requests, NEW q, ListsCopy(q, r, stored, A, El, n),
           MD!Accepted(q, A), NEW d, d = MD!Merged(q, A)
    PROVE  /\ ListsStored(d, A, El, n + 1)
           /\ \A other \in Requests \ {r} : \A p :
                 ListsCopy(p, other, stored, A, El, n) => ListsCopy(p, other, d, A, El, n + 1)
           /\ \A a \in A : \A i \in 1..Len(stored[a]), j \in 1..Len(d[a]) :
                 (stored[a][i].id = d[a][j].id /\ stored[a][i] # d[a][j])
                    => ChangedBy(q, d, a, i, j)
<1>1. /\ \A a \in A : d[a] \in Seq(El) /\ OneEach(d[a])
      /\ \A a \in A : \A other \in Requests, m \in Nat :
            Before(stored[a], other, m) /\ (other # r \/ n < m) => Before(d[a], other, m)
      /\ \A a \in A : \A i \in 1..Len(stored[a]), j \in 1..Len(d[a]) :
            (stored[a][i].id = d[a][j].id /\ stored[a][i] # d[a][j])
               => ChangedBy(q, d, a, i, j)
      /\ \A a \in A : ~ MD!CountsVersion(q, A) => SameIds(stored[a], d[a])
  BY ListSaved
<1>2. PICK v \in Nat, w \in Nat : /\ v = stored.version /\ w = d.version /\ v <= w
                                  /\ v = w => ~ MD!CountsVersion(q, A)
  <2>1. d.version = stored.version + (IF MD!CountsVersion(q, A) THEN 1 ELSE 0)
    <3>1. "version" \notin A \cup q.whole /\ "version" \in DOMAIN stored
      BY DEF ListsCopy, ListsStored
    <3> QED BY <3>1, MergedFields
  <2>2. stored.version \in Nat
    BY DEF ListsStored
  <2> QED BY <2>1, <2>2
<1>3. ListsStored(d, A, El, n + 1)
  <2>1. DOMAIN d = DOMAIN stored
    BY DEF MD!Merged
  <2>2. \A a \in A : \A other \in Requests : Before(d[a], other, n + 1)
    <3> SUFFICES ASSUME NEW a \in A, NEW other \in Requests PROVE Before(d[a], other, n + 1)
      OBVIOUS
    <3>1. n + 1 \in Nat /\ n < n + 1
      OBVIOUS
    <3>2. Before(stored[a], other, n) /\ stored[a] \in Seq(El)
      BY DEF ListsStored
    <3>3. Before(stored[a], other, n + 1)
      BY <3>2, BeforeLater, <3>1
    <3> QED BY <1>1, <3>1, <3>3
  <2> QED BY <1>1, <1>2, <2>1, <2>2 DEF ListsStored
<1>4. ASSUME NEW other \in Requests \ {r}, NEW p, ListsCopy(p, other, stored, A, El, n)
      PROVE  ListsCopy(p, other, d, A, El, n + 1)
  <2>1. p.old.version \in Nat /\ p.old.version <= d.version
        /\ (p.old.version = d.version => p.old.version = stored.version /\ ~ MD!CountsVersion(q, A))
    <3>1. PICK x \in Nat : x = p.old.version /\ x <= v
      BY <1>2, <1>4 DEF ListsCopy
    <3>2. x <= w /\ (x = w => x = v /\ v = w)
      BY <1>2, <3>1
    <3> QED BY <1>2, <3>1, <3>2
  <2>2. ASSUME NEW a \in A PROVE ListCopy(p, a, other, d, n + 1)
    <3>1. ListCopy(p, a, other, stored, n)
      BY <1>4 DEF ListsCopy
    <3>2. p.old.version = d.version => SameIds(p.old[a], d[a])
      BY <1>1, <2>1, <3>1, SameIdsTransitive DEF ListCopy
    <3>3. ASSUME NEW at \in 0..n, Before(stored[a], other, at)
          PROVE  at \in 0..n + 1 /\ Before(d[a], other, at)
      <4>1. at \in Nat /\ at \in 0..n + 1
        OBVIOUS
      <4> QED BY <1>1, <3>3, <4>1
    <3> QED BY <3>1, <3>2, <3>3 DEF ListCopy
  <2> QED BY <1>4, <2>1, <2>2 DEF ListsCopy
<1> QED BY <1>1, <1>3, <1>4
\* A copy as it is made.
LEMMA ListsRead ==
    ASSUME NEW El, NEW A, NEW n \in Nat, ListsStored(stored, A, El, n), NEW r \in Requests,
           NEW q, q.old = stored, q.whole \subseteq A,
           \A a \in A : /\ q.new[a] \in Seq(El)
                        /\ IF a \in q.whole THEN Taken(stored[a], q.new[a]) /\ OneEach(q.new[a])
                           ELSE Pushes(stored[a], q.new[a], r, n)
    PROVE  ListsCopy(q, r, stored, A, El, n)
<1>1. ASSUME NEW a \in A PROVE ListCopy(q, a, r, stored, n)
  <2>1. SameIds(stored[a], stored[a])
    BY SameIdsReflexive
  <2>2. Before(stored[a], r, n) /\ n \in 0..n
    BY DEF ListsStored
  <2> QED BY <2>1, <2>2 DEF ListCopy
<1>2. stored.version \in Nat /\ stored.version <= stored.version
  BY DEF ListsStored
<1> QED BY <1>1, <1>2 DEF ListsCopy, ListsStored

LEMMA PushesNone ==
    ASSUME NEW El, NEW s \in Seq(El), NEW t \in Seq(El), SameIds(s, t), NEW r, NEW n
    PROVE  Pushes(s, t, r, n)
<1>1. Len(s) \in Nat /\ Len(t) = Len(s)
  BY DEF SameIds
<1>2. \A i \in 1..Len(t) : ~ (i > Len(s))
  BY <1>1
<1> QED BY <1>1, <1>2 DEF Pushes, SameIds

LEMMA PushesOne ==
    ASSUME NEW El, NEW s \in Seq(El), NEW e \in El, NEW t, t = Append(s, e)
    PROVE  t \in Seq(El) /\ Pushes(s, t, e.id.slot, e.id.at)
<1>1. PICK k \in Nat : k = Len(s)
  OBVIOUS
<1>2. /\ t \in Seq(El) /\ Len(t) = k + 1 /\ t[k + 1] = e
      /\ \A i \in 1..k : t[i] = s[i]
  BY <1>1
<1>3. \A i \in 1..k + 1 : i > k => i = k + 1
  OBVIOUS
<1> QED BY <1>1, <1>2, <1>3 DEF Pushes

\* A list without one of its elements.
LEMMA RemovedIds ==
    ASSUME NEW El, NEW s \in Seq(El), OneEach(s), NEW p \in 1..Len(s), NEW t,
           t = SubSeq(s, 1, p - 1) \o SubSeq(s, p + 1, Len(s))
    PROVE  t \in Seq(El) /\ Taken(s, t) /\ OneEach(t)
<1>1. PICK k \in Nat, n \in Nat, l \in Nat : k = Len(s) /\ n = p - 1 /\ l = k - p
  OBVIOUS
<1>2. PICK u \in Seq(El), v \in Seq(El) :
          /\ u = SubSeq(s, 1, p - 1) /\ Len(u) = n /\ \A i \in 1..n : u[i] = s[i]
          /\ v = SubSeq(s, p + 1, Len(s)) /\ Len(v) = l /\ \A i \in 1..l : v[i] = s[p + i]
  <2>1. /\ SubSeq(s, 1, p - 1) \in Seq(El) /\ Len(SubSeq(s, 1, p - 1)) = n
        /\ \A i \in 1..n : SubSeq(s, 1, p - 1)[i] = s[i]
    BY <1>1
  <2>2. /\ SubSeq(s, p + 1, Len(s)) \in Seq(El) /\ Len(SubSeq(s, p + 1, Len(s))) = l
        /\ \A i \in 1..l : SubSeq(s, p + 1, Len(s))[i] = s[p + i]
    BY <1>1, SuffixProperties
  <2> QED BY <2>1, <2>2
<1>3. /\ t \in Seq(El) /\ Len(t) = n + l
      /\ \A i \in 1..n : t[i] = u[i]
      /\ \A i \in 1..l : t[n + i] = v[i]
  <2>1. /\ u \o v \in Seq(El) /\ Len(u \o v) = Len(u) + Len(v)
        /\ \A i \in 1..Len(u) : (u \o v)[i] = u[i]
        /\ \A i \in 1..Len(v) : (u \o v)[Len(u) + i] = v[i]
    BY ConcatParts
  <2>2. t = u \o v
    BY <1>2
  <2> QED BY <1>2, <2>1, <2>2
<1>4. ASSUME NEW i \in 1..n + l
      PROVE  \E j \in 1..k : t[i] = s[j] /\ j = IF i < p THEN i ELSE i + 1
  <2>1. CASE i < p
    <3>1. i \in 1..n /\ i \in 1..k
      BY <1>1, <2>1
    <3> QED BY <1>2, <1>3, <2>1, <3>1
  <2>2. CASE ~ (i < p)
    <3>1. PICK j \in 1..l : i = n + j /\ p + j = i + 1
      <4>1. i - n \in 1..l /\ i = n + (i - n) /\ p + (i - n) = i + 1
        BY <1>1, <2>2
      <4> QED BY <4>1
    <3>2. i + 1 \in 1..k
      BY <1>1, <2>2
    <3>3. t[i] = s[i + 1]
      BY <1>2, <1>3, <3>1
    <3> QED BY <2>2, <3>2, <3>3
  <2> QED BY <2>1, <2>2
<1>5. Taken(s, t)
  BY <1>1, <1>3, <1>4 DEF Taken
<1>6. ASSUME NEW i \in 1..n + l, NEW j \in 1..n + l, t[i].id = t[j].id
      PROVE  i = j
  <2>1. PICK x \in 1..k, y \in 1..k :
            /\ t[i] = s[x] /\ x = IF i < p THEN i ELSE i + 1
            /\ t[j] = s[y] /\ y = IF j < p THEN j ELSE j + 1
    BY <1>4
  <2>2. x = y
    BY <1>1, <1>6, <2>1 DEF OneEach
  <2> QED BY <2>1, <2>2
<1> QED BY <1>3, <1>5, <1>6 DEF OneEach

\* A list with another element of the same id in a place.
LEMMA ReplacedIds ==
    ASSUME NEW El, NEW s \in Seq(El), NEW p \in 1..Len(s), NEW e \in El, e.id = s[p].id,
           NEW t, t = [s EXCEPT ![p] = e]
    PROVE  t \in Seq(El) /\ SameIds(s, t)
<1>1. PICK n \in Nat : n = Len(s) /\ s \in [1..n -> El]
  BY LenProperties
<1>2. t \in [1..n -> El] /\ \A j \in 1..n : t[j].id = s[j].id
  BY <1>1
<1>3. t \in Seq(El) /\ Len(t) = n
  <2>1. t \in Seq(El) /\ DOMAIN t = 1..n
    BY <1>2, SeqDef
  <2> QED BY <2>1, LenProperties
<1> QED BY <1>1, <1>2, <1>3 DEF SameIds

\* The lists of a component, and the copies that were made when there was a document.
ListsInv(A, El) ==
    /\ saves \in Nat
    /\ ListsStored(stored, A, El, saves)
    /\ DOMAIN copy = Requests
    /\ \A r \in Requests : copy[r] # Nothing /\ copy[r].old # Nothing =>
           ListsCopy(copy[r], r, stored, A, El, saves)

LEMMA ListsChange ==
    ASSUME NEW A, NEW El, ListsInv(A, El), NEW r \in Requests,
           NEW q, ListsCopy(q, r, stored, A, El, saves),
           UNCHANGED <<stored, saves>>, copy' = [copy EXCEPT ![r] = q]
    PROVE  ListsInv(A, El)'
<1>1. ASSUME NEW s \in Requests, copy'[s] # Nothing, copy'[s].old # Nothing
      PROVE  ListsCopy(copy'[s], s, stored', A, El, saves')
  <2>1. CASE s = r
    BY <2>1 DEF ListsInv
  <2>2. CASE s # r
    BY <1>1, <2>2 DEF ListsInv
  <2> QED BY <2>1, <2>2
<1> QED BY <1>1 DEF ListsInv

LEMMA ListsLeft ==
    ASSUME NEW A, NEW El, ListsInv(A, El), UNCHANGED <<stored, saves>>,
           DOMAIN copy' = Requests,
           \A r \in Requests : copy'[r] = copy[r] \/ copy'[r] = Nothing
    PROVE  ListsInv(A, El)'
<1>1. ASSUME NEW r \in Requests, copy'[r] # Nothing, copy'[r].old # Nothing
      PROVE  ListsCopy(copy'[r], r, stored', A, El, saves')
  BY <1>1 DEF ListsInv
<1> QED BY <1>1 DEF ListsInv

LEMMA ListsSave ==
    ASSUME NEW A, NEW El, MergesElements(El), "version" \notin A, ListsInv(A, El),
           NEW r \in Requests, NEW w, Saved(r, A, w), copy[r].old # Nothing
    PROVE  /\ ListsInv(A, El)'
           /\ \A a \in A : \A i \in 1..Len(stored[a]), j \in 1..Len(stored'[a]) :
                 (stored[a][i].id = stored'[a][j].id /\ stored[a][i] # stored'[a][j])
                    => ChangedBy(copy[r], stored', a, i, j)
<1>1. PICK n \in Nat : n = saves
  BY DEF ListsInv
<1>2. PICK q : q = copy[r]
  OBVIOUS
<1>3. PICK d : d = MD!Merged(q, A)
  OBVIOUS
<1>4. /\ ListsStored(stored, A, El, n) /\ ListsCopy(q, r, stored, A, El, n)
      /\ MD!Accepted(q, A) /\ stored' = d /\ saves' = n + 1
      /\ copy' = [copy EXCEPT ![r] = Nothing]
  BY <1>1, <1>2, <1>3 DEF ListsInv, Saved
<1>5. /\ ListsStored(d, A, El, n + 1)
      /\ \A other \in Requests \ {r} : \A p :
            ListsCopy(p, other, stored, A, El, n) => ListsCopy(p, other, d, A, El, n + 1)
      /\ \A a \in A : \A i \in 1..Len(stored[a]), j \in 1..Len(d[a]) :
            (stored[a][i].id = d[a][j].id /\ stored[a][i] # d[a][j])
               => ChangedBy(q, d, a, i, j)
  BY <1>3, <1>4, ListsSaved
<1>6. ASSUME NEW s \in Requests, copy'[s] # Nothing, copy'[s].old # Nothing
      PROVE  ListsCopy(copy'[s], s, d, A, El, n + 1)
  <2>1. s # r /\ copy'[s] = copy[s]
    BY <1>4, <1>6 DEF ListsInv
  <2>2. ListsCopy(copy[s], s, stored, A, El, n)
    BY <1>1, <1>6, <2>1 DEF ListsInv
  <2> QED BY <1>5, <2>1, <2>2
<1>7. DOMAIN copy' = Requests /\ n + 1 \in Nat
  BY <1>4 DEF ListsInv
<1>8. ListsInv(A, El)'
  BY <1>4, <1>5, <1>6, <1>7 DEF ListsInv
<1> QED BY <1>2, <1>4, <1>5, <1>8

-----------------------------------------------------------------------------
(* Tax settings. *)

TaxInv == /\ ListsInv(T!Arrays, T!Element)
          /\ \A r \in Requests : copy[r] # Nothing => copy[r].old # Nothing

LEMMA TaxElements == MergesElements(T!Element) /\ "version" \notin T!Arrays
<1>1. ASSUME NEW x \in T!Element, NEW y \in T!Element, NEW z \in T!Element, x.id = y.id
      PROVE  /\ MD!MergedElement(x, y, z) \in T!Element
             /\ MD!MergedElement(x, y, z).id = z.id
  <2>1. PICK e : e = MD!MergedElement(x, y, z)
    OBVIOUS
  <2>2. /\ DOMAIN z = {"id", "code", "value"}
        /\ z.id \in T!Ids /\ z.code \in Codes /\ z.value \in TaxValues
        /\ y.code \in Codes /\ y.value \in TaxValues
    BY DEF T!Element
  <2>3. e = [f \in {"id", "code", "value"} |-> IF x[f] = y[f] THEN z[f] ELSE y[f]]
    BY <2>1, <2>2 DEF MD!MergedElement
  <2>4. /\ e = [id |-> e.id, code |-> e.code, value |-> e.value]
        /\ e.id = z.id /\ e.code \in {y.code, z.code} /\ e.value \in {y.value, z.value}
    BY <1>1, <2>3
  <2>5. e \in T!Element
    BY <2>2, <2>4 DEF T!Element
  <2> QED BY <2>1, <2>4, <2>5
<1> QED BY <1>1 DEF MergesElements, T!Arrays

\* A method, as what it does to the lists.
LEMMA TaxRequest ==
    ASSUME TaxInv, NEW r \in Requests, NEW op, NEW new, NEW whole \in SUBSET T!Arrays,
           \A a \in T!Arrays : /\ new[a] \in Seq(T!Element)
                               /\ IF a \in whole THEN Taken(stored[a], new[a]) /\ OneEach(new[a])
                                  ELSE Pushes(stored[a], new[a], r, saves),
           OneChanged(new, T!Arrays),
           T!Change(r, op, new, whole)
    PROVE  TaxInv' /\ MakesCopy(r, T!Arrays)
<1>1. PICK q : q = [op |-> op, old |-> stored, new |-> new, whole |-> whole]
  OBVIOUS
<1>2. /\ UNCHANGED <<stored, world, saves>> /\ copy' = [copy EXCEPT ![r] = q]
      /\ stored # Nothing /\ q.old = stored /\ q.new = new /\ q.whole = whole
  BY <1>1 DEF T!Change, T!Copy
<1>3. ListsCopy(q, r, stored, T!Arrays, T!Element, saves)
  <2>1. saves \in Nat /\ ListsStored(stored, T!Arrays, T!Element, saves)
    BY DEF TaxInv, ListsInv
  <2>2. \A b \in T!Arrays : /\ q.new[b] \in Seq(T!Element)
                            /\ IF b \in q.whole
                               THEN Taken(stored[b], q.new[b]) /\ OneEach(q.new[b])
                               ELSE Pushes(stored[b], q.new[b], r, saves)
    BY <1>2
  <2> QED BY <1>2, <2>1, <2>2, ListsRead
<1>4. ListsInv(T!Arrays, T!Element)'
  BY <1>2, <1>3, ListsChange DEF TaxInv
<1>5. ASSUME NEW s \in Requests, copy'[s] # Nothing PROVE copy'[s].old # Nothing
  <2>1. DOMAIN copy = Requests
    BY DEF TaxInv, ListsInv
  <2>2. copy'[s] = IF s = r THEN q ELSE copy[s]
    BY <1>2, <2>1
  <2> QED BY <1>2, <1>5, <2>2 DEF TaxInv
<1>6. MakesCopy(r, T!Arrays)
  BY <1>2 DEF MakesCopy
<1> QED BY <1>4, <1>5, <1>6 DEF TaxInv

\* The lists that a method leaves alone.
LEMMA TaxOther ==
    ASSUME TaxInv, NEW r, NEW a \in T!Arrays
    PROVE  /\ a \in DOMAIN stored /\ stored[a] \in Seq(T!Element)
           /\ Pushes(stored[a], stored[a], r, saves)
<1>1. a \in DOMAIN stored /\ stored[a] \in Seq(T!Element)
  BY DEF TaxInv, ListsInv, ListsStored
<1> QED BY <1>1, SameIdsReflexive, PushesNone

\* A method that does to one list what RemoveOne, Update or Add does.
LEMMA TaxChange ==
    ASSUME TaxInv, NEW r \in Requests, NEW op, NEW a \in T!Arrays, NEW t \in Seq(T!Element),
           NEW new, new = [stored EXCEPT ![a] = t], NEW whole,
           \/ whole = {} /\ Pushes(stored[a], t, r, saves)
           \/ whole = {a} /\ Taken(stored[a], t) /\ OneEach(t),
           T!Change(r, op, new, whole)
    PROVE  TaxInv' /\ MakesCopy(r, T!Arrays)
<1>1. ASSUME NEW b \in T!Arrays
      PROVE  /\ new[b] \in Seq(T!Element)
             /\ IF b \in whole THEN Taken(stored[b], new[b]) /\ OneEach(new[b])
                ELSE Pushes(stored[b], new[b], r, saves)
  <2>1. CASE b = a
    <3>1. new[b] = t
      BY <2>1, TaxOther
    <3> QED BY <2>1, <3>1
  <2>2. CASE b # a
    <3>1. new[b] = stored[b] /\ b \notin whole
      BY <2>2, TaxOther
    <3> QED BY <3>1, TaxOther
  <2> QED BY <2>1, <2>2
<1>2. OneChanged(new, T!Arrays)
  <2>1. \A b \in T!Arrays : b # a => new[b] = stored[b]
    BY TaxOther
  <2> QED BY <2>1 DEF OneChanged
<1>3. whole \in SUBSET T!Arrays
  OBVIOUS
<1> QED BY <1>1, <1>2, <1>3, TaxRequest

\* The place in which findIndex finds a code.
LEMMA TaxPlace ==
    ASSUME TaxInv, NEW a \in T!Arrays, NEW code, T!PlacesOf(stored, a, code) # {}
    PROVE  T!FirstPlace(stored, a, code) \in 1..Len(stored[a])
<1>1. PICK s \in Seq(T!Element) : s = stored[a]
  BY DEF TaxInv, ListsInv, ListsStored
<1>2. PICK places : places = T!PlacesOf(stored, a, code)
  OBVIOUS
<1>3. places \in SUBSET Nat /\ places \subseteq 1..Len(s) /\ places # {}
  BY <1>1, <1>2 DEF T!PlacesOf
<1>4. \E i \in places : \A j \in places : i <= j
  BY <1>3, LeastOfNaturals
<1>5. (CHOOSE i \in places : \A j \in places : i <= j) \in places
  BY <1>4
<1> QED BY <1>1, <1>2, <1>3, <1>5 DEF T!FirstPlace

LEMMA TaxAdd ==
    ASSUME TaxInv, NEW r \in Requests, NEW a \in T!Arrays, NEW code \in Codes,
           NEW value \in TaxValues, T!Add(r, a, code, value)
    PROVE  TaxInv' /\ MakesCopy(r, T!Arrays)
<1>1. PICK e : e = [id |-> [slot |-> r, at |-> saves], code |-> code, value |-> value]
  OBVIOUS
<1>2. e \in T!Element /\ e.id.slot = r /\ e.id.at = saves
  BY <1>1 DEF T!Element, T!Ids, TaxInv, ListsInv
<1>3. PICK s \in Seq(T!Element) : s = stored[a] /\ a \in DOMAIN stored
  BY DEF TaxInv, ListsInv, ListsStored
<1>4. PICK t : t = Append(s, e)
  OBVIOUS
<1>5. t \in Seq(T!Element) /\ Pushes(s, t, r, saves)
  BY <1>2, <1>4, PushesOne
<1>6. T!Change(r, "add", [stored EXCEPT ![a] = t], {})
  BY <1>1, <1>3, <1>4 DEF T!Add
<1> QED BY <1>3, <1>5, <1>6, TaxChange

LEMMA TaxUpdate ==
    ASSUME TaxInv, NEW r \in Requests, NEW a \in T!Arrays, NEW code \in Codes,
           NEW new \in [code : Codes, value : TaxValues], T!Update(r, a, code, new)
    PROVE  TaxInv' /\ MakesCopy(r, T!Arrays)
<1>1. PICK p : p = T!FirstPlace(stored, a, code)
  OBVIOUS
<1>2. PICK s \in Seq(T!Element) : s = stored[a] /\ a \in DOMAIN stored
  BY DEF TaxInv, ListsInv, ListsStored
<1>3. p \in 1..Len(s) /\ p \in DOMAIN s
  BY <1>1, <1>2, TaxPlace DEF T!Update
<1>4. PICK e : e = [s[p] EXCEPT !.code = new.code, !.value = new.value]
  OBVIOUS
<1>5. e \in T!Element /\ e.id = s[p].id
  <2>1. s[p] \in T!Element
    BY <1>3
  <2> QED BY <1>4, <2>1 DEF T!Element
<1>6. PICK t : t = [s EXCEPT ![p] = e]
  OBVIOUS
<1>7. t \in Seq(T!Element) /\ SameIds(s, t)
  BY <1>3, <1>5, <1>6, ReplacedIds
<1>8. Pushes(s, t, r, saves)
  BY <1>7, PushesNone
<1>9. [stored EXCEPT ![a][p].code = new.code, ![a][p].value = new.value] = [stored EXCEPT ![a] = t]
  BY <1>2, <1>3, <1>4, <1>6
<1>10. T!Change(r, "update", [stored EXCEPT ![a] = t], {})
  BY <1>1, <1>9 DEF T!Update
<1> QED BY <1>2, <1>7, <1>8, <1>10, TaxChange

LEMMA TaxRemove ==
    ASSUME TaxInv, NEW r \in Requests, NEW a \in T!Arrays, NEW code \in Codes,
           T!RemoveOne(r, a, code)
    PROVE  TaxInv' /\ MakesCopy(r, T!Arrays)
<1>1. PICK p : p = T!FirstPlace(stored, a, code)
  OBVIOUS
<1>2. PICK s \in Seq(T!Element) : s = stored[a] /\ a \in DOMAIN stored /\ OneEach(s)
  BY DEF TaxInv, ListsInv, ListsStored
<1>3. p \in 1..Len(s)
  BY <1>1, <1>2, TaxPlace DEF T!RemoveOne
<1>4. PICK t : t = SubSeq(s, 1, p - 1) \o SubSeq(s, p + 1, Len(s))
  OBVIOUS
<1>5. t \in Seq(T!Element) /\ Taken(s, t) /\ OneEach(t)
  BY <1>2, <1>3, <1>4, RemovedIds
<1>6. T!Change(r, "remove", [stored EXCEPT ![a] = t], {a})
  BY <1>1, <1>2, <1>4 DEF T!RemoveOne, T!RemoveAt
<1> QED BY <1>2, <1>5, <1>6, TaxChange

LEMMA TaxActive ==
    ASSUME TaxInv, NEW r \in Requests, NEW active \in BOOLEAN, T!SetActive(r, active)
    PROVE  TaxInv' /\ MakesCopy(r, T!Arrays)
<1>1. PICK new : new = [stored EXCEPT !.isActive = active]
  OBVIOUS
<1>2. \A a \in T!Arrays : new[a] = stored[a]
  BY <1>1, TaxOther DEF T!Arrays
<1>3. ASSUME NEW a \in T!Arrays
      PROVE  /\ new[a] \in Seq(T!Element)
             /\ IF a \in {} THEN Taken(stored[a], new[a]) /\ OneEach(new[a])
                ELSE Pushes(stored[a], new[a], r, saves)
  BY <1>2, TaxOther
<1>4. T!Change(r, "activate", new, {})
  BY <1>1 DEF T!SetActive
<1>5. {} \in SUBSET T!Arrays /\ OneChanged(new, T!Arrays)
  BY <1>2 DEF OneChanged
<1> QED BY <1>3, <1>4, <1>5, TaxRequest

LEMMA TaxSave ==
    ASSUME TaxInv, NEW r \in Requests, T!Save(r)
    PROVE  /\ TaxInv'
           /\ \A a \in T!Arrays : \A i \in 1..Len(stored[a]), j \in 1..Len(stored'[a]) :
                 (stored[a][i].id = stored'[a][j].id /\ stored[a][i] # stored'[a][j])
                    => ChangedBy(copy[r], stored', a, i, j)
           /\ copy[r] # Nothing /\ copy'[r] = Nothing
<1>1. PICK w : Saved(r, T!Arrays, w)
  BY TaxSaves DEF T!Save
<1>2. copy' = [copy EXCEPT ![r] = Nothing] /\ copy[r] # Nothing /\ copy[r].old # Nothing
      /\ DOMAIN copy = Requests
  BY <1>1 DEF Saved, TaxInv, ListsInv
<1>3. /\ ListsInv(T!Arrays, T!Element)'
      /\ \A a \in T!Arrays : \A i \in 1..Len(stored[a]), j \in 1..Len(stored'[a]) :
            (stored[a][i].id = stored'[a][j].id /\ stored[a][i] # stored'[a][j])
               => ChangedBy(copy[r], stored', a, i, j)
  BY <1>1, <1>2, TaxElements, ListsSave DEF TaxInv
<1>4. \A s \in Requests : copy'[s] # Nothing => copy'[s].old # Nothing
  BY <1>2 DEF TaxInv
<1> QED BY <1>2, <1>3, <1>4 DEF TaxInv

LEMMA TaxFirst == T!Init => TaxInv
<1> SUFFICES ASSUME T!Init PROVE TaxInv
  OBVIOUS
<1>1. PICK rates : /\ rates \in T!BoundedSeq([code : Codes, value : TaxValues], 2)
                   /\ stored = [taxRates |-> [i \in DOMAIN rates |->
                                                [id |-> [slot |-> Nothing, at |-> i],
                                                 code |-> rates[i].code, value |-> rates[i].value]],
                                taxExemptions |-> <<>>, isActive |-> TRUE, version |-> 0]
  BY DEF T!Init
<1>2. PICK n \in Nat : rates \in [1..n -> [code : Codes, value : TaxValues]]
  <2>1. rates \in UNION {[1..n -> [code : Codes, value : TaxValues]] : n \in 0..2}
    BY <1>1 DEF T!BoundedSeq, T!SeqOf
  <2>2. PICK n \in 0..2 : rates \in [1..n -> [code : Codes, value : TaxValues]]
    BY <2>1
  <2> QED BY <2>2
<1>3. PICK t : t = [i \in DOMAIN rates |-> [id |-> [slot |-> Nothing, at |-> i],
                                            code |-> rates[i].code, value |-> rates[i].value]]
                 /\ stored.taxRates = t
  BY <1>1
<1>4. t \in [1..n -> T!Element] /\ \A i \in 1..n : t[i].id = [slot |-> Nothing, at |-> i]
  <2>1. \A i \in 1..n : i \in Nat /\ rates[i] \in [code : Codes, value : TaxValues]
    BY <1>2
  <2> QED BY <1>2, <1>3, <2>1 DEF T!Element, T!Ids
<1>5. t \in Seq(T!Element) /\ Len(t) = n
  <2>1. t \in Seq(T!Element) /\ DOMAIN t = 1..n
    BY <1>4, SeqDef
  <2> QED BY <2>1, LenProperties
<1>6. OneEach(t) /\ \A r \in Requests : Before(t, r, 0)
  <2>1. \A i \in 1..n : t[i].id.slot = Nothing /\ t[i].id.at = i
    <3>1. \A i \in 1..n : t[i].id = [slot |-> Nothing, at |-> i]
      BY <1>4
    <3>2. \A i : [slot |-> Nothing, at |-> i].slot = Nothing /\ [slot |-> Nothing, at |-> i].at = i
      OBVIOUS
    <3> QED BY <3>1, <3>2
  <2> QED BY <1>5, <2>1, NothingAssumption DEF OneEach, Before
<1>7. PICK none \in Seq(T!Element) : none = << >> /\ Len(none) = 0
  <2>1. << >> \in Seq(T!Element) /\ Len(<< >>) = 0
    OBVIOUS
  <2> QED BY <2>1
<1>8. OneEach(none) /\ \A r \in Requests : Before(none, r, 0)
  BY <1>7 DEF OneEach, Before
<1>9. /\ DOMAIN stored = {"taxRates", "taxExemptions", "isActive", "version"}
      /\ stored.taxRates = t /\ stored.taxExemptions = none /\ stored.version = 0
  BY <1>1, <1>3, <1>7
<1>10. \A a \in T!Arrays : /\ stored[a] \in Seq(T!Element) /\ OneEach(stored[a])
                           /\ \A r \in Requests : Before(stored[a], r, 0)
  BY <1>5, <1>6, <1>7, <1>8, <1>9 DEF T!Arrays
<1>11. ListsStored(stored, T!Arrays, T!Element, 0)
  BY <1>9, <1>10 DEF ListsStored, T!Arrays
<1>12. copy = [r \in Requests |-> Nothing] /\ saves = 0
  BY DEF T!Init, T!NoCopies
<1> QED BY <1>11, <1>12 DEF TaxInv, ListsInv

\* Steps that leave the settings.
LEMMA TaxLeft ==
    ASSUME TaxInv, UNCHANGED <<stored, saves>>, DOMAIN copy' = Requests,
           \A r \in Requests : copy'[r] = copy[r] \/ copy'[r] = Nothing
    PROVE  TaxInv'
<1>1. ListsInv(T!Arrays, T!Element)'
  BY ListsLeft DEF TaxInv
<1> QED BY <1>1 DEF TaxInv

LEMMA TaxSteps ==
    TaxInv /\ [T!Next]_(T!document)
       => /\ TaxInv'
          /\ UNCHANGED stored \/ \E r \in Requests : T!Save(r)
<1> SUFFICES ASSUME TaxInv, [T!Next]_(T!document)
             PROVE  /\ TaxInv'
                    /\ UNCHANGED stored \/ \E r \in Requests : T!Save(r)
  OBVIOUS
<1>1. DOMAIN copy = Requests
  BY DEF TaxInv, ListsInv
<1>2. ASSUME NEW r \in Requests, NEW a \in T!Arrays, NEW code \in Codes, NEW value \in TaxValues,
             T!Add(r, a, code, value)
      PROVE  TaxInv' /\ UNCHANGED stored
  BY <1>2, TaxAdd DEF T!Add, T!Change
<1>3. ASSUME NEW r \in Requests, NEW a \in T!Arrays, NEW code \in Codes,
             NEW new \in [code : Codes, value : TaxValues], T!Update(r, a, code, new)
      PROVE  TaxInv' /\ UNCHANGED stored
  BY <1>3, TaxUpdate DEF T!Update, T!Change
<1>4. ASSUME NEW r \in Requests, NEW a \in T!Arrays, NEW code \in Codes, T!RemoveOne(r, a, code)
      PROVE  TaxInv' /\ UNCHANGED stored
  BY <1>4, TaxRemove DEF T!RemoveOne, T!Change
<1>5. ASSUME NEW r \in Requests, NEW active \in BOOLEAN, T!SetActive(r, active)
      PROVE  TaxInv' /\ UNCHANGED stored
  BY <1>5, TaxActive DEF T!SetActive, T!Change
<1>6. ASSUME NEW r \in Requests, T!Save(r) PROVE TaxInv'
  BY <1>6, TaxSave
<1>7. ASSUME NEW r \in Requests, T!AbortCopy(r) PROVE TaxInv' /\ UNCHANGED stored
  <2>1. UNCHANGED <<stored, saves>> /\ copy' = [copy EXCEPT ![r] = Nothing]
    BY <1>7 DEF T!AbortCopy
  <2> QED BY <1>1, <2>1, TaxLeft
<1>8. CASE UNCHANGED T!document
  <2>1. UNCHANGED <<stored, saves, copy>>
    BY <1>8 DEF T!document
  <2> QED BY <1>1, <2>1, TaxLeft
<1> QED BY <1>2, <1>3, <1>4, <1>5, <1>6, <1>7, <1>8 DEF T!Next

\* What the settings promise of a step.
LEMMA TaxImplies == TaxInv /\ [T!Next]_(T!document) => T!UpdatesReachTheirElement
<1> SUFFICES ASSUME TaxInv, [T!Next]_(T!document),
                    NEW a \in T!Arrays, NEW i \in DOMAIN stored[a], NEW j \in DOMAIN stored'[a],
                    stored[a][i].id = stored'[a][j].id, stored[a][i] # stored'[a][j]
             PROVE  \E r \in Requests :
                       /\ copy[r] # Nothing
                       /\ copy'[r] = Nothing
                       /\ \E k \in DOMAIN copy[r].old[a] :
                             /\ copy[r].old[a][k].id = stored[a][i].id
                             /\ IF a \in copy[r].whole
                                THEN copy[r].old[a][k] = stored'[a][j]
                                ELSE copy[r].old[a][k] # copy[r].new[a][k]
  BY DEF T!UpdatesReachTheirElement
<1>1. stored[a] \in Seq(T!Element) /\ OneEach(stored[a]) /\ i \in 1..Len(stored[a])
  BY DEF TaxInv, ListsInv, ListsStored
<1>2. stored'[a] \in Seq(T!Element) /\ j \in 1..Len(stored'[a])
  BY TaxSteps DEF TaxInv, ListsInv, ListsStored
<1>3. ~ UNCHANGED stored
  <2>1. CASE UNCHANGED stored
    <3>1. i = j
      BY <1>1, <1>2, <2>1 DEF OneEach
    <3> QED BY <2>1, <3>1
  <2> QED BY <2>1
<1>4. PICK r \in Requests : T!Save(r)
  BY <1>3, TaxSteps
<1>5. ChangedBy(copy[r], stored', a, i, j) /\ copy[r] # Nothing /\ copy'[r] = Nothing
  BY <1>1, <1>2, <1>4, TaxSave
<1>6. copy[r].old[a] \in Seq(T!Element)
  BY <1>5 DEF TaxInv, ListsInv, ListsCopy
<1> QED BY <1>5, <1>6 DEF ChangedBy

-----------------------------------------------------------------------------
(***************************************************************************)
(* User preferences: a list of elements whose ids tell their keys, in a    *)
(* document that is created by the first requests. A copy either holds the *)
(* document to be created, or was made of the stored one; and then it has  *)
(* another value in a place only for the key that its request set.         *)
(***************************************************************************)
Keyed == {e \in UP!Element : e.id.key = e.key}

\* The copy has another value only for its key.
ChangesItsKey(q) ==
    (q.whole = {} /\ q.op # "all") =>
        \A k \in 1..Len(q.old.preferences) :
            q.old.preferences[k] # q.new.preferences[k] => q.old.preferences[k].key = q.op

\* The keys of elements in t behind those of s are not the keys of s.
KeysNew(s, t) == \A i \in 1..Len(s), j \in 1..Len(t) : j > Len(s) => t[j].key # s[i].key

\* The copy has elements pushed for keys that were not found.
PushesNewKeys(q) == q.whole = {} => KeysNew(q.old.preferences, q.new.preferences)

\* A document, as one that is to be created.
PreferenceCopy(q) ==
    /\ q.new \in UP!UserPreferences
    /\ q.old = Nothing => /\ q.op = "create"
                          /\ ListsStored(q.new, UP!Arrays, Keyed, 0)
    /\ q.old # Nothing => ChangesItsKey(q) /\ PushesNewKeys(q)

PreferenceInv ==
    /\ saves \in Nat
    /\ DOMAIN copy = Requests
    /\ stored # Nothing => /\ stored \in UP!UserPreferences
                           /\ ListsInv(UP!Arrays, Keyed)
    /\ \A r \in Requests : copy[r] # Nothing =>
           /\ PreferenceCopy(copy[r])
           /\ copy[r].old # Nothing => stored # Nothing

LEMMA KeyedElements == MergesElements(Keyed) /\ "version" \notin UP!Arrays
<1>1. ASSUME NEW x \in Keyed, NEW y \in Keyed, NEW z \in Keyed, x.id = y.id
      PROVE  /\ MD!MergedElement(x, y, z) \in Keyed
             /\ MD!MergedElement(x, y, z).id = z.id
  <2>1. PICK e : e = MD!MergedElement(x, y, z)
    OBVIOUS
  <2>2. /\ DOMAIN z = {"id", "key", "value"}
        /\ z.id \in UP!Ids /\ z.key \in Keys /\ z.value \in PreferenceValues
        /\ y.value \in PreferenceValues
        /\ x.key = y.key /\ z.id.key = z.key
    BY <1>1 DEF UP!Element, Keyed
  <2>3. e = [f \in {"id", "key", "value"} |-> IF x[f] = y[f] THEN z[f] ELSE y[f]]
    BY <2>1, <2>2 DEF MD!MergedElement
  <2>4. /\ e = [id |-> e.id, key |-> e.key, value |-> e.value]
        /\ e.id = z.id /\ e.key = z.key /\ e.value \in {y.value, z.value}
    BY <1>1, <2>2, <2>3
  <2>5. e \in Keyed
    BY <2>2, <2>4 DEF UP!Element, Keyed
  <2> QED BY <2>1, <2>4, <2>5
<1> QED BY <1>1 DEF MergesElements, UP!Arrays

\* Elements are changed in the list to which some were pushed.
LEMMA PushesSame ==
    ASSUME NEW s, NEW p, NEW t, NEW r, NEW n, Pushes(s, p, r, n), SameIds(p, t)
    PROVE  Pushes(s, t, r, n)
<1>1. Len(t) = Len(p) /\ \A i \in 1..Len(p) : t[i].id = p[i].id
  BY DEF SameIds
<1>2. \A i \in 1..Len(s) : t[i].id = s[i].id
  <2> SUFFICES ASSUME NEW i \in 1..Len(s) PROVE t[i].id = s[i].id
    OBVIOUS
  <2>1. i \in 1..Len(p) /\ p[i].id = s[i].id
    BY DEF Pushes
  <2> QED BY <1>1, <2>1
<1> QED BY <1>1, <1>2 DEF Pushes

NewId(e, p) == \A i \in 1..Len(p) : p[i].id # e.id

\* One more element is pushed, with another id.
LEMMA PushesMore ==
    ASSUME NEW El, NEW s \in Seq(El), NEW p \in Seq(El), NEW e \in El,
           NEW r, NEW n, e.id.slot = r, e.id.at = n,
           Pushes(s, p, r, n), NewId(e, p),
           NEW t, t = Append(p, e)
    PROVE  t \in Seq(El) /\ Pushes(s, t, r, n) /\ \A i \in 1..Len(p) : t[i] = p[i]
<1>1. PICK k \in Nat, l \in Nat : k = Len(s) /\ l = Len(p) /\ k <= l
  BY DEF Pushes
<1>2. /\ t \in Seq(El) /\ Len(t) = l + 1 /\ t[l + 1] = e
      /\ \A i \in 1..l : t[i] = p[i]
  BY <1>1
<1>3. \A i \in 1..l + 1 : i \in 1..l \/ i = l + 1
  OBVIOUS
<1>4. /\ \A i \in 1..k : i \in 1..l /\ p[i].id = s[i].id
      /\ \A i \in 1..l : i > k => p[i].id.slot = r /\ p[i].id.at = n
      /\ \A i, j \in 1..l : i > k /\ j > k /\ p[i].id = p[j].id => i = j
  BY <1>1 DEF Pushes
<1>5. \A i \in 1..k : t[i].id = s[i].id
  BY <1>2, <1>4
<1>6. \A i \in 1..l + 1 : i > k => t[i].id.slot = r /\ t[i].id.at = n
  BY <1>2, <1>3, <1>4
<1>7. \A i, j \in 1..l + 1 : i > k /\ j > k /\ t[i].id = t[j].id => i = j
  <2> SUFFICES ASSUME NEW i \in 1..l + 1, NEW j \in 1..l + 1, i > k, j > k, t[i].id = t[j].id
               PROVE  i = j
    OBVIOUS
  <2>1. CASE i \in 1..l /\ j \in 1..l
    BY <1>2, <1>4, <2>1
  <2>2. CASE i \in 1..l /\ j = l + 1
    BY <1>1, <1>2, <2>2 DEF NewId
  <2>3. CASE i = l + 1 /\ j \in 1..l
    BY <1>1, <1>2, <2>3 DEF NewId
  <2> QED BY <1>3, <2>1, <2>2, <2>3
<1>8. k <= l + 1
  BY <1>1
<1> QED BY <1>1, <1>2, <1>5, <1>6, <1>7, <1>8 DEF Pushes

\* Elements at the same places have the same keys.
LEMMA PushesKeys ==
    ASSUME NEW s \in Seq(Keyed), NEW t \in Seq(Keyed), NEW r, NEW n, Pushes(s, t, r, n),
           NEW i \in 1..Len(s)
    PROVE  i \in 1..Len(t) /\ s[i].key = t[i].key
<1>1. i \in 1..Len(t) /\ t[i].id = s[i].id
  BY DEF Pushes
<1>2. s[i] \in Keyed /\ t[i] \in Keyed
  BY <1>1
<1> QED BY <1>1, <1>2 DEF Keyed

LEMMA NoKeysNew == \A s : KeysNew(s, s)
BY DEF KeysNew

\* The list with one key set.
LEMMA KeySet ==
    ASSUME NEW s \in Seq(Keyed), NEW p \in Seq(Keyed), NEW r \in Requests, saves \in Nat,
           Pushes(s, p, r, saves), KeysNew(s, p), NEW key \in Keys,
           NEW value \in PreferenceValues, NEW t, t = UP!WithKey(r, p, key, value)
    PROVE  /\ t \in Seq(Keyed) /\ Pushes(s, t, r, saves) /\ KeysNew(s, t)
           /\ \A k \in 1..Len(p) : p[k] # t[k] => p[k].key = key
<1>1. PICK places : places = UP!PlacesOf(p, key)
  OBVIOUS
<1>2. places \in SUBSET Nat /\ \A i \in places : i \in 1..Len(p) /\ p[i].key = key
  BY <1>1 DEF UP!PlacesOf
<1>3. CASE places = {}
  <2>1. PICK e : e = [id |-> [slot |-> r, at |-> saves, key |-> key], key |-> key, value |-> value]
    OBVIOUS
  <2>2. e \in Keyed /\ e.id.slot = r /\ e.id.at = saves /\ e.id.key = key
    BY <2>1 DEF UP!Element, UP!Ids, Keyed
  <2>3. t = Append(p, e)
    BY <1>1, <1>3, <2>1 DEF UP!WithKey, UP!NewElement
  <2>4. ASSUME NEW i \in 1..Len(p) PROVE p[i].id # e.id
    <3>1. i \notin places /\ p[i] \in Keyed
      BY <1>3
    <3>2. p[i].key # key
      BY <1>1, <3>1 DEF UP!PlacesOf
    <3> QED BY <2>2, <3>1, <3>2 DEF Keyed
  <2>5. t \in Seq(Keyed) /\ Pushes(s, t, r, saves) /\ \A i \in 1..Len(p) : t[i] = p[i]
    <3>1. NewId(e, p)
      BY <2>4 DEF NewId
    <3>2. Pushes(s, Append(p, e), r, saves)
      BY <2>2, <3>1, PushesMore
    <3>3. Append(p, e) \in Seq(Keyed) /\ \A i \in 1..Len(p) : Append(p, e)[i] = p[i]
      BY <2>2
    <3> QED BY <2>3, <3>2, <3>3
  <2>6. Len(t) = Len(p) + 1 /\ t[Len(p) + 1].key = key
    BY <2>1, <2>3
  <2>7. ASSUME NEW i \in 1..Len(s), NEW j \in 1..Len(t), j > Len(s) PROVE t[j].key # s[i].key
    <3>1. CASE j \in 1..Len(p)
      BY <2>5, <2>7, <3>1 DEF KeysNew
    <3>2. CASE j \notin 1..Len(p)
      <4>1. j = Len(p) + 1
        BY <2>6, <3>2
      <4>2. i \in 1..Len(p) /\ s[i].key = p[i].key
        BY PushesKeys
      <4>3. i \notin places
        BY <1>3
      <4> QED BY <1>1, <2>6, <4>1, <4>2, <4>3 DEF UP!PlacesOf
    <3> QED BY <3>1, <3>2
  <2> QED BY <2>5, <2>7 DEF KeysNew
<1>4. CASE places # {}
  <2>1. PICK f \in places : f = UP!FirstPlace(p, key)
    <3>1. \E i \in places : \A j \in places : i <= j
      BY <1>2, <1>4, LeastOfNaturals
    <3>2. (CHOOSE i \in places : \A j \in places : i <= j) \in places
      BY <3>1
    <3> QED BY <1>1, <3>2 DEF UP!FirstPlace
  <2>2. f \in 1..Len(p) /\ p[f].key = key /\ p[f] \in Keyed
    BY <1>2
  <2>3. PICK e : e = [p[f] EXCEPT !.value = value]
    OBVIOUS
  <2>4. e \in Keyed /\ e.id = p[f].id
    BY <2>2, <2>3 DEF UP!Element, Keyed
  <2>5. t = [p EXCEPT ![f] = e]
    BY <1>1, <1>4, <2>1, <2>2, <2>3 DEF UP!WithKey
  <2>6. t \in Seq(Keyed) /\ SameIds(p, t)
    BY <2>2, <2>4, <2>5, ReplacedIds
  <2>7. Pushes(s, t, r, saves)
    BY <2>6, PushesSame
  <2>8. \A k \in 1..Len(p) : k # f => t[k] = p[k]
    BY <2>5
  <2>9. KeysNew(s, t)
    <3>1. Len(t) = Len(p) /\ \A k \in 1..Len(p) : t[k].key = p[k].key
      <4>1. Len(t) = Len(p) /\ \A k \in 1..Len(p) : /\ t[k].id = p[k].id
                                                  /\ t[k] \in Keyed /\ p[k] \in Keyed
        BY <2>6 DEF SameIds
      <4> QED BY <4>1 DEF Keyed
    <3> QED BY <3>1 DEF KeysNew
  <2> QED BY <2>2, <2>6, <2>7, <2>8, <2>9
<1> QED BY <1>3, <1>4

(***************************************************************************)
(* setPreferences: the keys are set one after the other. FoldLeft is       *)
(* defined by recursion over sets of places; its values on 1..i are the    *)
(* lists after i keys.                                                     *)
(***************************************************************************)
IsFoldOfKeys(g, r, value, s, keys, n) ==
    g = [t \in SUBSET (1..n) |->
            IF t = {} THEN s
            ELSE UP!WithKey(r, g[t \ {UP!Max(t)}], keys[UP!Max(t)], value)]

LEMMA LastPlace ==
    ASSUME NEW n \in Nat, NEW t \in SUBSET (1..n), n \in t
    PROVE  UP!Max(t) = n
<1>1. \A y \in t : n >= y
  OBVIOUS
<1>2. \A x \in t : (\A y \in t : x >= y) => x = n
  BY <1>1
<1> QED BY <1>1, <1>2 DEF UP!Max

LEMMA FoldOfKeys ==
    \A r, value, s, keys : \A n \in Nat : \E g : IsFoldOfKeys(g, r, value, s, keys, n)
<1> TAKE r, value, s, keys
<1> DEFINE Turns == {n \in Nat : \E g : IsFoldOfKeys(g, r, value, s, keys, n)}
<1>1. 0 \in Turns
  <2> DEFINE g == [t \in SUBSET (1..0) |-> s]
  <2>1. \A t \in SUBSET (1..0) : t = {}
    OBVIOUS
  <2>2. IsFoldOfKeys(g, r, value, s, keys, 0)
    BY <2>1 DEF IsFoldOfKeys
  <2> QED BY <2>2
<1>2. ASSUME NEW n \in Nat, n \in Turns PROVE n + 1 \in Turns
  <2>1. PICK g : IsFoldOfKeys(g, r, value, s, keys, n)
    BY <1>2
  <2> DEFINE h == [t \in SUBSET (1..n+1) |->
                      IF n + 1 \in t THEN UP!WithKey(r, g[t \ {n+1}], keys[n+1], value)
                      ELSE g[t]]
  <2>2. ASSUME NEW t \in SUBSET (1..n+1)
        PROVE  h[t] = IF t = {} THEN s
                      ELSE UP!WithKey(r, h[t \ {UP!Max(t)}], keys[UP!Max(t)], value)
    <3>1. CASE n + 1 \in t
      <4>1. UP!Max(t) = n + 1
        BY <3>1, LastPlace
      <4>2. t \ {n+1} \in SUBSET (1..n+1) /\ n + 1 \notin t \ {n+1}
        OBVIOUS
      <4>3. h[t \ {n+1}] = g[t \ {n+1}]
        BY <4>2
      <4> QED BY <3>1, <4>1, <4>3
    <3>2. CASE n + 1 \notin t
      <4>1. t \in SUBSET (1..n) /\ h[t] = g[t]
        BY <3>2
      <4>2. g[t] = IF t = {} THEN s
                   ELSE UP!WithKey(r, g[t \ {UP!Max(t)}], keys[UP!Max(t)], value)
        BY <2>1, <4>1 DEF IsFoldOfKeys
      <4>3. t \ {UP!Max(t)} \in SUBSET (1..n+1) /\ n + 1 \notin t \ {UP!Max(t)}
        BY <3>2
      <4>4. h[t \ {UP!Max(t)}] = g[t \ {UP!Max(t)}]
        BY <4>3
      <4> QED BY <4>1, <4>2, <4>4
    <3> QED BY <3>1, <3>2
  <2> HIDE DEF h
  <2>3. DOMAIN h = SUBSET (1..n+1) /\ h = [t \in SUBSET (1..n+1) |-> h[t]]
    BY DEF h
  <2>4. IsFoldOfKeys(h, r, value, s, keys, n + 1)
    BY <2>2, <2>3 DEF IsFoldOfKeys
  <2> QED BY <2>4
<1>3. Nat \subseteq Turns
  <2> HIDE DEF Turns
  <2> QED BY <1>1, <1>2, NatSetInduction
<1> QED BY <1>3

\* The keys, each once.
LEMMA KeysInOrder ==
    \E n \in Nat : DOMAIN UP!SetToSeq(Keys) = 1..n /\ \A i \in 1..n : UP!SetToSeq(Keys)[i] \in Keys
<1>1. PICK n \in Nat : n = Cardinality(Keys) /\ ExistsBijection(1..n, Keys)
  BY KeysAssumption, FS_CardinalityType
<1>2. \E f \in [1..n -> Keys] : UP!IsInjective(f)
  BY <1>1 DEF ExistsBijection, Bijection, Injection, IsInjective, UP!IsInjective
<1>3. UP!Cardinality(Keys) = n
  BY <1>1 DEF Cardinality, UP!Cardinality, IsFiniteSet, UP!IsFiniteSet
<1>4. PICK f \in [1..n -> Keys] : f = UP!SetToSeq(Keys)
  BY <1>2, <1>3 DEF UP!SetToSeq
<1> QED BY <1>4

\* The list with all of the keys set.
LEMMA AllKeysSet ==
    ASSUME NEW s \in Seq(Keyed), NEW r \in Requests, saves \in Nat,
           NEW value \in PreferenceValues, NEW n \in Nat, NEW keys,
           \A i \in 1..n : keys[i] \in Keys,
           NEW g, IsFoldOfKeys(g, r, value, s, keys, n)
    PROVE  g[1..n] \in Seq(Keyed) /\ Pushes(s, g[1..n], r, saves) /\ KeysNew(s, g[1..n])
<1> DEFINE Turns == {i \in Nat : i <= n => /\ g[1..i] \in Seq(Keyed)
                                          /\ Pushes(s, g[1..i], r, saves)
                                          /\ KeysNew(s, g[1..i])}
<1>1. 0 \in Turns
  <2>1. 1..0 = {} /\ 1..0 \in SUBSET (1..n)
    OBVIOUS
  <2>2. g[1..0] = s
    BY <2>1 DEF IsFoldOfKeys
  <2> QED BY <2>2, SameIdsReflexive, PushesNone, NoKeysNew
<1>2. ASSUME NEW i \in Nat, i \in Turns PROVE i + 1 \in Turns
  <2> SUFFICES ASSUME i + 1 <= n
               PROVE  /\ g[1..i+1] \in Seq(Keyed)
                      /\ Pushes(s, g[1..i+1], r, saves)
                      /\ KeysNew(s, g[1..i+1])
    OBVIOUS
  <2>1. /\ 1..i+1 \in SUBSET (1..n) /\ 1..i+1 # {} /\ i + 1 \in 1..i+1
        /\ (1..i+1) \ {i+1} = 1..i /\ i + 1 \in 1..n /\ i <= n
    <3> HIDE DEF Turns
    <3>1. i + 1 \in 1..i+1 /\ i + 1 \in 1..n /\ i <= n
      OBVIOUS
    <3>2. \A j \in 1..i+1 : j \in 1..n
      OBVIOUS
    <3>3. (1..i+1) \ {i+1} = 1..i
      OBVIOUS
    <3> QED BY <3>1, <3>2, <3>3
  <2>2. UP!Max(1..i+1) = i + 1
    BY <2>1, LastPlace
  <2>3. g[1..i+1] = UP!WithKey(r, g[1..i], keys[i+1], value)
    BY <2>1, <2>2 DEF IsFoldOfKeys
  <2>4. PICK p \in Seq(Keyed) : p = g[1..i] /\ Pushes(s, p, r, saves) /\ KeysNew(s, p)
    BY <1>2, <2>1
  <2>5. PICK key \in Keys : key = keys[i+1]
    BY <2>1
  <2> QED BY <2>3, <2>4, <2>5, KeySet
<1>3. n \in Turns
  <2> HIDE DEF Turns
  <2> QED BY <1>1, <1>2, NatSetInduction
<1> QED BY <1>3

-----------------------------------------------------------------------------
(* The steps of the preferences. *)

\* A method, as what it does to the list.
LEMMA PreferenceRequest ==
    ASSUME PreferenceInv, NEW r \in Requests, NEW op, NEW s \in Seq(Keyed),
           NEW t \in Seq(Keyed), s = stored.preferences, NEW new,
           new = [stored EXCEPT !.preferences = t, !.edition = @ + 1], NEW whole,
           \/ whole = {} /\ Pushes(s, t, r, saves) /\ KeysNew(s, t)
           \/ whole = {"preferences"} /\ Taken(s, t) /\ OneEach(t),
           (whole = {} /\ op # "all") => \A k \in 1..Len(s) : s[k] # t[k] => s[k].key = op,
           UP!Change(r, op, new, whole)
    PROVE  PreferenceInv' /\ MakesCopy(r, UP!Arrays)
<1>1. PICK q : q = [op |-> op, old |-> stored, new |-> new, whole |-> whole]
  OBVIOUS
<1>2. /\ UNCHANGED <<stored, world, saves>> /\ copy' = [copy EXCEPT ![r] = q]
      /\ stored # Nothing /\ q.op = op /\ q.old = stored /\ q.new = new /\ q.whole = whole
  BY <1>1 DEF UP!Change, UP!Copy
<1>3. /\ saves \in Nat /\ stored \in UP!UserPreferences /\ ListsInv(UP!Arrays, Keyed)
      /\ DOMAIN copy = Requests /\ ListsStored(stored, UP!Arrays, Keyed, saves)
  BY <1>2 DEF PreferenceInv, ListsInv
<1>4. new.preferences = t /\ new \in UP!UserPreferences
  <2>1. t \in Seq(UP!Element)
    <3>1. PICK n \in Nat : t \in [1..n -> Keyed]
      BY SeqDef
    <3>2. t \in [1..n -> UP!Element]
      BY <3>1 DEF Keyed
    <3> QED BY <3>2, SeqDef
  <2>2. /\ stored = [preferences |-> stored.preferences, edition |-> stored.edition,
                     version |-> stored.version]
        /\ stored.edition \in Nat /\ stored.version \in Nat
    BY <1>3 DEF UP!UserPreferences
  <2>3. new = [preferences |-> t, edition |-> stored.edition + 1, version |-> stored.version]
    BY <2>2
  <2> QED BY <2>1, <2>2, <2>3 DEF UP!UserPreferences
<1>5. ListsCopy(q, r, stored, UP!Arrays, Keyed, saves)
  <2>1. \A a \in UP!Arrays : /\ q.new[a] \in Seq(Keyed)
                             /\ IF a \in q.whole
                                THEN Taken(stored[a], q.new[a]) /\ OneEach(q.new[a])
                                ELSE Pushes(stored[a], q.new[a], r, saves)
    BY <1>2, <1>4 DEF UP!Arrays
  <2>2. q.whole \subseteq UP!Arrays
    BY <1>2 DEF UP!Arrays
  <2> QED BY <1>2, <1>3, <2>1, <2>2, ListsRead
<1>6. ListsInv(UP!Arrays, Keyed)'
  BY <1>2, <1>3, <1>5, ListsChange
<1>7. PreferenceCopy(q)
  BY <1>2, <1>4 DEF PreferenceCopy, ChangesItsKey, PushesNewKeys
<1>8. ASSUME NEW other \in Requests, copy'[other] # Nothing PROVE PreferenceCopy(copy'[other])
  <2>1. copy'[other] = IF other = r THEN q ELSE copy[other]
    BY <1>2, <1>3
  <2> QED BY <1>7, <1>8, <2>1 DEF PreferenceInv
<1>9. DOMAIN copy' = Requests /\ stored' # Nothing /\ stored' \in UP!UserPreferences /\ saves' \in Nat
  BY <1>2, <1>3
<1>10. MakesCopy(r, UP!Arrays)
  <2>1. IF "preferences" \in q.whole THEN Taken(stored.preferences, q.new.preferences)
        ELSE Pushes(stored.preferences, q.new.preferences, r, saves)
    BY <1>2, <1>4
  <2> QED BY <1>2, <2>1 DEF MakesCopy, OneChanged, UP!Arrays
<1> QED BY <1>6, <1>8, <1>9, <1>10 DEF PreferenceInv

\* The list of the document, and the place in which a key is found.
LEMMA PreferenceList ==
    ASSUME PreferenceInv, stored # Nothing
    PROVE  /\ saves \in Nat /\ stored \in UP!UserPreferences
           /\ stored.preferences \in Seq(Keyed) /\ OneEach(stored.preferences)
           /\ \A key : UP!PlacesOf(stored.preferences, key) # {} =>
                  UP!FirstPlace(stored.preferences, key) \in 1..Len(stored.preferences)
<1>1. /\ saves \in Nat /\ stored \in UP!UserPreferences
      /\ stored.preferences \in Seq(Keyed) /\ OneEach(stored.preferences)
  BY DEF PreferenceInv, ListsInv, ListsStored, UP!Arrays
<1>2. ASSUME NEW key, UP!PlacesOf(stored.preferences, key) # {}
      PROVE  UP!FirstPlace(stored.preferences, key) \in 1..Len(stored.preferences)
  <2>1. PICK s \in Seq(Keyed) : s = stored.preferences
    BY <1>1
  <2>2. PICK places : places = UP!PlacesOf(s, key)
    OBVIOUS
  <2>3. places \in SUBSET Nat /\ places \subseteq 1..Len(s) /\ places # {}
    BY <1>2, <2>1, <2>2 DEF UP!PlacesOf
  <2>4. \E i \in places : \A j \in places : i <= j
    BY <2>3, LeastOfNaturals
  <2>5. (CHOOSE i \in places : \A j \in places : i <= j) \in places
    BY <2>4
  <2> QED BY <2>1, <2>2, <2>3, <2>5 DEF UP!FirstPlace
<1> QED BY <1>1, <1>2

LEMMA PreferenceSet ==
    ASSUME PreferenceInv, NEW r \in Requests, stored # Nothing, NEW key \in Keys,
           NEW value \in PreferenceValues, UP!SetPreference(r, key, value)
    PROVE  PreferenceInv' /\ MakesCopy(r, UP!Arrays)
<1>1. PICK s \in Seq(Keyed) : s = stored.preferences /\ saves \in Nat /\ stored \in UP!UserPreferences
  BY PreferenceList
<1>2. PICK t : t = UP!WithKey(r, s, key, value)
  OBVIOUS
<1>3. Pushes(s, s, r, saves)
  BY SameIdsReflexive, PushesNone
<1>4. /\ t \in Seq(Keyed) /\ Pushes(s, t, r, saves) /\ KeysNew(s, t)
      /\ \A k \in 1..Len(s) : s[k] # t[k] => s[k].key = key
  BY <1>1, <1>2, <1>3, NoKeysNew, KeySet
<1>5. UP!Change(r, key, [stored EXCEPT !.preferences = t, !.edition = @ + 1], {})
  BY <1>1, <1>2 DEF UP!SetPreference, UP!UserPreferences
<1> QED BY <1>1, <1>4, <1>5, PreferenceRequest

LEMMA PreferenceSetAll ==
    ASSUME PreferenceInv, NEW r \in Requests, stored # Nothing,
           NEW value \in PreferenceValues, UP!SetPreferences(r, value)
    PROVE  PreferenceInv' /\ MakesCopy(r, UP!Arrays)
<1>1. PICK s \in Seq(Keyed) : s = stored.preferences /\ saves \in Nat /\ stored \in UP!UserPreferences
  BY PreferenceList
<1>2. PICK keys : keys = UP!SetToSeq(Keys)
  OBVIOUS
<1>3. PICK n \in Nat : DOMAIN keys = 1..n /\ \A i \in 1..n : keys[i] \in Keys
  BY <1>2, KeysInOrder
<1> DEFINE g == CHOOSE g : IsFoldOfKeys(g, r, value, s, keys, n)
<1>4. IsFoldOfKeys(g, r, value, s, keys, n)
  BY FoldOfKeys
<1>5. UP!Change(r, "all", [stored EXCEPT !.preferences = g[1..n], !.edition = @ + 1], {})
  BY <1>1, <1>2, <1>3
     DEF UP!SetPreferences, UP!FoldLeft, UP!MapThenFoldSet, IsFoldOfKeys, UP!UserPreferences
<1> HIDE DEF g
<1>6. PICK t : t = g[1..n] /\ t \in Seq(Keyed) /\ Pushes(s, t, r, saves) /\ KeysNew(s, t)
  BY <1>1, <1>3, <1>4, AllKeysSet
<1> QED BY <1>1, <1>5, <1>6, PreferenceRequest

LEMMA PreferenceReset ==
    ASSUME PreferenceInv, NEW r \in Requests, stored # Nothing, NEW key \in Keys,
           UP!ResetPreference(r, key)
    PROVE  PreferenceInv' /\ MakesCopy(r, UP!Arrays)
<1>1. PICK s \in Seq(Keyed) : /\ s = stored.preferences /\ saves \in Nat /\ OneEach(s)
                              /\ stored \in UP!UserPreferences
  BY PreferenceList
<1>2. PICK p : p = UP!FirstPlace(s, key)
  OBVIOUS
<1>3. p \in 1..Len(s)
  BY <1>1, <1>2, PreferenceList DEF UP!ResetPreference
<1>4. PICK t : t = SubSeq(s, 1, p - 1) \o SubSeq(s, p + 1, Len(s))
  OBVIOUS
<1>5. t \in Seq(Keyed) /\ Taken(s, t) /\ OneEach(t)
  BY <1>1, <1>3, <1>4, RemovedIds
<1>6. UP!Change(r, "reset", [stored EXCEPT !.preferences = t, !.edition = @ + 1], {"preferences"})
  BY <1>1, <1>2, <1>4 DEF UP!ResetPreference, UP!RemoveAt, UP!UserPreferences
<1> QED BY <1>1, <1>5, <1>6, PreferenceRequest

LEMMA PreferenceResetAll ==
    ASSUME PreferenceInv, NEW r \in Requests, stored # Nothing, UP!ResetAllPreferences(r)
    PROVE  PreferenceInv' /\ MakesCopy(r, UP!Arrays)
<1>1. PICK s \in Seq(Keyed) : s = stored.preferences /\ saves \in Nat /\ stored \in UP!UserPreferences
  BY PreferenceList
<1>2. PICK t \in Seq(Keyed) : t = << >> /\ Len(t) = 0
  <2>1. << >> \in Seq(Keyed) /\ Len(<< >>) = 0
    OBVIOUS
  <2> QED BY <2>1
<1>3. PICK whole : whole = IF s = << >> THEN {} ELSE {"preferences"}
  OBVIOUS
<1>4. UP!Change(r, "reset", [stored EXCEPT !.preferences = t, !.edition = @ + 1], whole)
  BY <1>1, <1>2, <1>3 DEF UP!ResetAllPreferences
<1>5. Taken(s, t) /\ OneEach(t)
  BY <1>2 DEF Taken, OneEach
<1>6. CASE s = << >>
  <2>1. s = t /\ Len(s) = 0 /\ whole = {}
    BY <1>2, <1>3, <1>6
  <2>2. Pushes(s, t, r, saves) /\ KeysNew(s, t)
    BY <2>1, SameIdsReflexive, PushesNone, NoKeysNew
  <2>3. \A k \in 1..Len(s) : s[k] # t[k] => s[k].key = "reset"
    BY <2>1
  <2> QED BY <1>1, <1>4, <2>1, <2>2, <2>3, PreferenceRequest
<1>7. CASE s # << >>
  <2>1. whole = {"preferences"} /\ whole # {}
    BY <1>3, <1>7
  <2> QED BY <1>1, <1>4, <1>5, <2>1, PreferenceRequest
<1> QED BY <1>6, <1>7

\* A document is made, to be inserted.
LEMMA PreferenceCreate ==
    ASSUME PreferenceInv, NEW r \in Requests, NEW defaults \in UP!Defaults,
           UP!CreateDefaults(r, defaults)
    PROVE  PreferenceInv' /\ UNCHANGED stored
<1>1. PICK n \in Nat : /\ defaults \in [1..n -> [key : Keys, value : PreferenceValues]]
                       /\ \A i, j \in 1..n : defaults[i].key = defaults[j].key => i = j
  <2>1. /\ defaults \in UP!BoundedSeq([key : Keys, value : PreferenceValues], 2)
        /\ \A i, j \in DOMAIN defaults : defaults[i].key = defaults[j].key => i = j
    BY DEF UP!Defaults
  <2>2. defaults \in UNION {[1..n -> [key : Keys, value : PreferenceValues]] : n \in 0..2}
    BY <2>1 DEF UP!BoundedSeq, UP!SeqOf
  <2>3. PICK n \in 0..2 : defaults \in [1..n -> [key : Keys, value : PreferenceValues]]
    BY <2>2
  <2> QED BY <2>1, <2>3
<1>2. PICK t : t = [i \in 1..n |-> [id |-> [slot |-> Nothing, at |-> saves,
                                            key |-> defaults[i].key],
                                    key |-> defaults[i].key, value |-> defaults[i].value]]
  OBVIOUS
<1>3. saves \in Nat /\ DOMAIN copy = Requests
  BY DEF PreferenceInv
<1>4. /\ t \in [1..n -> Keyed]
      /\ \A i \in 1..n : /\ t[i].key = defaults[i].key
                         /\ t[i].id.key = defaults[i].key /\ t[i].id.slot = Nothing
  <2> SUFFICES ASSUME NEW i \in 1..n
               PROVE  /\ t[i] \in Keyed /\ t[i].key = defaults[i].key
                      /\ t[i].id.key = defaults[i].key /\ t[i].id.slot = Nothing
    BY <1>2
  <2>1. PICK d \in [key : Keys, value : PreferenceValues] : d = defaults[i]
    BY <1>1
  <2>2. PICK id : id = [slot |-> Nothing, at |-> saves, key |-> d.key]
    OBVIOUS
  <2>3. id \in UP!Ids /\ id.key = d.key /\ id.slot = Nothing
    BY <1>3, <2>2 DEF UP!Ids
  <2>4. t[i] = [id |-> id, key |-> d.key, value |-> d.value]
    BY <1>2, <2>1, <2>2
  <2> QED BY <2>1, <2>3, <2>4 DEF UP!Element, Keyed
<1>5. t \in Seq(Keyed) /\ t \in Seq(UP!Element) /\ Len(t) = n
  <2>1. t \in [1..n -> UP!Element]
    BY <1>4 DEF Keyed
  <2>2. t \in Seq(Keyed) /\ t \in Seq(UP!Element) /\ DOMAIN t = 1..n
    BY <1>4, <2>1, SeqDef
  <2> QED BY <2>2, LenProperties
<1>6. OneEach(t) /\ \A other \in Requests : Before(t, other, 0)
  BY <1>1, <1>4, <1>5, NothingAssumption DEF OneEach, Before
<1>7. PICK new : new = [preferences |-> t, edition |-> 1, version |-> 0]
  OBVIOUS
<1>8. new \in UP!UserPreferences /\ ListsStored(new, UP!Arrays, Keyed, 0)
  BY <1>5, <1>6, <1>7 DEF UP!UserPreferences, ListsStored, UP!Arrays
<1>9. PICK q : q = [op |-> "create", old |-> stored, new |-> new, whole |-> {}]
  OBVIOUS
<1>10. /\ stored = Nothing /\ copy' = [copy EXCEPT ![r] = q] /\ UNCHANGED <<stored, saves>>
       /\ q.old = Nothing /\ q.op = "create" /\ q.new = new
  BY <1>1, <1>2, <1>7, <1>9 DEF UP!CreateDefaults, UP!Copy, UP!NewElement
<1>11. PreferenceCopy(q)
  BY <1>8, <1>10 DEF PreferenceCopy
<1>12. \A other \in Requests : copy'[other] # Nothing =>
           /\ PreferenceCopy(copy'[other])
           /\ copy'[other].old # Nothing => stored' # Nothing
  <2> SUFFICES ASSUME NEW other \in Requests, copy'[other] # Nothing
               PROVE  /\ PreferenceCopy(copy'[other])
                      /\ copy'[other].old # Nothing => stored' # Nothing
    OBVIOUS
  <2>1. copy'[other] = IF other = r THEN q ELSE copy[other]
    BY <1>3, <1>10
  <2> QED BY <1>10, <1>11, <2>1 DEF PreferenceInv
<1>13. DOMAIN copy' = Requests /\ saves' \in Nat /\ stored' = Nothing
  BY <1>3, <1>10
<1> QED BY <1>10, <1>12, <1>13 DEF PreferenceInv

\* The unique index lets the first of them be inserted.
LEMMA PreferenceInsert ==
    ASSUME PreferenceInv, NEW r \in Requests, UP!Insert(r)
    PROVE  PreferenceInv'
<1>1. /\ stored = Nothing /\ stored' = copy[r].new /\ saves' = saves + 1
      /\ copy[r] # Nothing /\ copy' = [copy EXCEPT ![r] = Nothing]
  BY DEF UP!Insert
<1>2. saves \in Nat /\ DOMAIN copy = Requests
  BY DEF PreferenceInv
<1>3. \A other \in Requests : copy[other] # Nothing =>
          PreferenceCopy(copy[other]) /\ copy[other].old = Nothing
  BY <1>1 DEF PreferenceInv
<1>4. stored' \in UP!UserPreferences /\ ListsStored(stored', UP!Arrays, Keyed, 0)
  BY <1>1, <1>3 DEF PreferenceCopy
<1>5. ListsStored(stored', UP!Arrays, Keyed, saves')
  <2>1. 0 \in Nat /\ saves' \in Nat /\ 0 < saves'
    BY <1>1, <1>2
  <2>2. \A a \in UP!Arrays : \A other \in Requests :
            Before(stored'[a], other, 0) => Before(stored'[a], other, saves')
    BY <2>1, BeforeLater
  <2> QED BY <1>4, <2>2 DEF ListsStored
<1>6. \A other \in Requests : copy'[other] # Nothing =>
          PreferenceCopy(copy'[other]) /\ copy'[other].old = Nothing
  BY <1>1, <1>2, <1>3
<1>7. DOMAIN copy' = Requests /\ saves' \in Nat
  BY <1>1, <1>2
<1>8. ListsInv(UP!Arrays, Keyed)'
  BY <1>5, <1>6, <1>7 DEF ListsInv
<1> QED BY <1>4, <1>6, <1>7, <1>8 DEF PreferenceInv

LEMMA PreferenceSave ==
    ASSUME PreferenceInv, NEW r \in Requests, UP!Save(r)
    PROVE  /\ PreferenceInv' /\ stored' # Nothing
           /\ \A i \in 1..Len(stored.preferences), j \in 1..Len(stored'.preferences) :
                 (stored.preferences[i].id = stored'.preferences[j].id
                    /\ stored.preferences[i] # stored'.preferences[j])
                    => ChangedBy(copy[r], stored', "preferences", i, j)
           /\ copy[r] # Nothing /\ copy'[r] = Nothing
           /\ copy[r].old # Nothing /\ PreferenceCopy(copy[r])
           /\ copy[r].old.preferences \in Seq(Keyed) /\ copy[r].whole \subseteq UP!Arrays
<1>1. PICK w : Saved(r, UP!Arrays, w)
  BY PreferenceSaves DEF UP!Save
<1>2. copy' = [copy EXCEPT ![r] = Nothing] /\ copy[r] # Nothing /\ stored # Nothing
      /\ DOMAIN copy = Requests /\ copy[r].op # "create" /\ saves' = saves + 1
  BY <1>1 DEF Saved, PreferenceInv, UP!Save
<1>3. PreferenceCopy(copy[r]) /\ copy[r].old # Nothing
  BY <1>2 DEF PreferenceInv, PreferenceCopy
<1>4. /\ ListsInv(UP!Arrays, Keyed) /\ stored \in UP!UserPreferences /\ saves \in Nat
      /\ ListsCopy(copy[r], r, stored, UP!Arrays, Keyed, saves)
  BY <1>2, <1>3 DEF PreferenceInv, ListsInv
<1>5. /\ ListsInv(UP!Arrays, Keyed)'
      /\ \A a \in UP!Arrays : \A i \in 1..Len(stored[a]), j \in 1..Len(stored'[a]) :
            (stored[a][i].id = stored'[a][j].id /\ stored[a][i] # stored'[a][j])
               => ChangedBy(copy[r], stored', a, i, j)
  BY <1>1, <1>3, <1>4, KeyedElements, ListsSave
<1>6. stored' \in UP!UserPreferences
  <2>1. PICK d : d = stored' /\ d = MD!Merged(copy[r], UP!Arrays)
    BY <1>1 DEF Saved
  <2>2. /\ "edition" \in DOMAIN stored /\ "edition" \notin UP!Arrays \cup copy[r].whole \cup {"version"}
        /\ "version" \notin UP!Arrays \cup copy[r].whole
    BY <1>4 DEF UP!UserPreferences, UP!Arrays, ListsCopy
  <2>3. d.edition = IF copy[r].old.edition = copy[r].new.edition THEN stored.edition
                    ELSE copy[r].new.edition
    BY <2>1, <2>2, MergedFields
  <2>4. d.edition \in Nat
    BY <1>3, <1>4, <2>3 DEF PreferenceCopy, UP!UserPreferences
  <2>5. d = [f \in {"preferences", "edition", "version"} |-> d[f]]
    BY <1>4, <2>1 DEF MD!Merged, UP!UserPreferences
  <2>6. d.preferences \in Seq(Keyed) /\ d.version \in Nat
    BY <1>5, <2>1 DEF ListsInv, ListsStored, UP!Arrays
  <2>7. d.preferences \in Seq(UP!Element)
    <3>1. PICK n \in Nat : d.preferences \in [1..n -> Keyed]
      BY <2>6, SeqDef
    <3>2. d.preferences \in [1..n -> UP!Element]
      BY <3>1 DEF Keyed
    <3> QED BY <3>2, SeqDef
  <2>8. d = [preferences |-> d.preferences, edition |-> d.edition, version |-> d.version]
    BY <2>5
  <2> QED BY <2>1, <2>4, <2>6, <2>7, <2>8 DEF UP!UserPreferences
<1>7. stored' # Nothing
  BY <1>6, NothingAssumption
<1>8. \A other \in Requests : copy'[other] # Nothing => PreferenceCopy(copy'[other])
  BY <1>2 DEF PreferenceInv
<1>9. DOMAIN copy' = Requests /\ saves' \in Nat
  BY <1>2, <1>4
<1>10. PreferenceInv'
  BY <1>5, <1>6, <1>7, <1>8, <1>9 DEF PreferenceInv
<1>11. copy[r].old.preferences \in Seq(Keyed) /\ copy[r].whole \subseteq UP!Arrays
  BY <1>4 DEF ListsCopy, UP!Arrays
<1> QED BY <1>2, <1>3, <1>5, <1>7, <1>10, <1>11 DEF UP!Arrays

LEMMA PreferenceFirst == UP!Init => PreferenceInv
BY DEF UP!Init, UP!NoCopies, PreferenceInv

\* Steps that leave the preferences.
LEMMA PreferenceLeft ==
    ASSUME PreferenceInv, UNCHANGED <<stored, saves>>, DOMAIN copy' = Requests,
           \A r \in Requests : copy'[r] = copy[r] \/ copy'[r] = Nothing
    PROVE  PreferenceInv'
<1>1. stored # Nothing => ListsInv(UP!Arrays, Keyed)'
  BY ListsLeft DEF PreferenceInv
<1> QED BY <1>1 DEF PreferenceInv

LEMMA PreferenceSteps ==
    PreferenceInv /\ [UP!Next]_(UP!document)
       => /\ PreferenceInv'
          /\ UNCHANGED stored \/ stored = Nothing \/ \E r \in Requests : UP!Save(r)
<1> SUFFICES ASSUME PreferenceInv, [UP!Next]_(UP!document)
             PROVE  /\ PreferenceInv'
                    /\ UNCHANGED stored \/ stored = Nothing \/ \E r \in Requests : UP!Save(r)
  OBVIOUS
<1>1. DOMAIN copy = Requests
  BY DEF PreferenceInv
<1>2. ASSUME NEW r \in Requests, NEW defaults \in UP!Defaults, UP!CreateDefaults(r, defaults)
      PROVE  PreferenceInv' /\ UNCHANGED stored
  BY <1>2, PreferenceCreate
<1>3. ASSUME NEW r \in Requests, UP!Insert(r) PROVE PreferenceInv' /\ stored = Nothing
  BY <1>3, PreferenceInsert DEF UP!Insert
<1>4. ASSUME NEW r \in Requests, stored # Nothing, NEW key \in Keys,
             NEW value \in PreferenceValues, UP!SetPreference(r, key, value)
      PROVE  PreferenceInv' /\ UNCHANGED stored
  BY <1>4, PreferenceSet DEF UP!SetPreference, UP!Change
<1>5. ASSUME NEW r \in Requests, stored # Nothing, NEW value \in PreferenceValues,
             UP!SetPreferences(r, value)
      PROVE  PreferenceInv' /\ UNCHANGED stored
  <2>1. UNCHANGED stored
    BY <1>5 DEF UP!SetPreferences, UP!Change
  <2> QED BY <1>5, <2>1, PreferenceSetAll
<1>6. ASSUME NEW r \in Requests, stored # Nothing, NEW key \in Keys, UP!ResetPreference(r, key)
      PROVE  PreferenceInv' /\ UNCHANGED stored
  BY <1>6, PreferenceReset DEF UP!ResetPreference, UP!Change
<1>7. ASSUME NEW r \in Requests, stored # Nothing, UP!ResetAllPreferences(r)
      PROVE  PreferenceInv' /\ UNCHANGED stored
  BY <1>7, PreferenceResetAll DEF UP!ResetAllPreferences, UP!Change
<1>8. ASSUME NEW r \in Requests, UP!Save(r) PROVE PreferenceInv'
  BY <1>8, PreferenceSave
<1>9. ASSUME NEW r \in Requests, UP!AbortCopy(r) PROVE PreferenceInv' /\ UNCHANGED stored
  <2>1. UNCHANGED <<stored, saves>> /\ copy' = [copy EXCEPT ![r] = Nothing]
    BY <1>9 DEF UP!AbortCopy
  <2> QED BY <1>1, <2>1, PreferenceLeft
<1>10. CASE UNCHANGED UP!document
  <2>1. UNCHANGED <<stored, saves, copy>>
    BY <1>10 DEF UP!document
  <2> QED BY <1>1, <2>1, PreferenceLeft
<1> QED BY <1>2, <1>3, <1>4, <1>5, <1>6, <1>7, <1>8, <1>9, <1>10 DEF UP!Next

\* What the preferences promise of a step.
LEMMA PreferenceImplies == PreferenceInv /\ [UP!Next]_(UP!document) => UP!SetReachesItsKey
<1> SUFFICES ASSUME PreferenceInv, [UP!Next]_(UP!document), stored # Nothing, stored' # Nothing,
                    NEW i \in DOMAIN stored.preferences, NEW j \in DOMAIN stored'.preferences,
                    stored.preferences[i].id = stored'.preferences[j].id,
                    stored.preferences[i] # stored'.preferences[j]
             PROVE  \E r \in Requests :
                       /\ copy[r] # Nothing
                       /\ copy'[r] = Nothing
                       /\ \E k \in DOMAIN copy[r].old.preferences :
                             /\ copy[r].old.preferences[k].id = stored.preferences[i].id
                             /\ IF copy[r].whole # {}
                                THEN copy[r].old.preferences[k] = stored'.preferences[j]
                                ELSE copy[r].op \in {"all", stored.preferences[i].key}
  BY DEF UP!SetReachesItsKey
<1>1. /\ stored.preferences \in Seq(Keyed) /\ OneEach(stored.preferences)
      /\ i \in 1..Len(stored.preferences)
  BY PreferenceList
<1>2. stored'.preferences \in Seq(Keyed) /\ j \in 1..Len(stored'.preferences)
  BY PreferenceSteps DEF PreferenceInv, ListsInv, ListsStored, UP!Arrays
<1>3. ~ UNCHANGED stored
  <2>1. CASE UNCHANGED stored
    <3>1. i = j
      BY <1>1, <1>2, <2>1 DEF OneEach
    <3> QED BY <2>1, <3>1
  <2> QED BY <2>1
<1>4. PICK r \in Requests : UP!Save(r)
  BY <1>3, PreferenceSteps
<1>5. /\ ChangedBy(copy[r], stored', "preferences", i, j)
      /\ copy[r] # Nothing /\ copy'[r] = Nothing
      /\ copy[r].old # Nothing /\ PreferenceCopy(copy[r])
      /\ copy[r].old.preferences \in Seq(Keyed) /\ copy[r].whole \subseteq UP!Arrays
  BY <1>1, <1>2, <1>4, PreferenceSave
<1>6. PICK k \in 1..Len(copy[r].old.preferences) :
          /\ copy[r].old.preferences[k].id = stored.preferences[i].id
          /\ IF "preferences" \in copy[r].whole
             THEN copy[r].old.preferences[k] = stored'.preferences[j]
             ELSE copy[r].old.preferences[k] # copy[r].new.preferences[k]
  BY <1>5 DEF ChangedBy
<1>7. "preferences" \in copy[r].whole <=> copy[r].whole # {}
  BY <1>5 DEF UP!Arrays
<1>8. copy[r].old.preferences[k].key = stored.preferences[i].key
  <2>1. copy[r].old.preferences[k] \in Keyed /\ stored.preferences[i] \in Keyed
    BY <1>1, <1>5
  <2> QED BY <1>6, <2>1 DEF Keyed
<1>9. copy[r].whole = {} => copy[r].op \in {"all", stored.preferences[i].key}
  BY <1>5, <1>6, <1>7, <1>8 DEF PreferenceCopy, ChangesItsKey
<1> QED BY <1>5, <1>6, <1>7, <1>9

(* The keys in the list. *)

LEMMA PreferenceStored ==
    ASSUME PreferenceInv', stored' # Nothing
    PROVE  /\ ListsStored(stored', UP!Arrays, Keyed, saves')
           /\ stored'.preferences \in Seq(Keyed)
BY DEF PreferenceInv, ListsInv, ListsStored, UP!Arrays

Once(s, key) == \A i, j \in UP!PlacesOf(s, key) : i = j

LEMMA OnceCounted ==
    ASSUME NEW El, NEW s \in Seq(El), NEW key
    PROVE  /\ UP!Cardinality(UP!PlacesOf(s, key)) < 2 => Once(s, key)
           /\ Once(s, key) => ~ (UP!Cardinality(UP!PlacesOf(s, key)) >= 2)
<1>1. PICK U : U = UP!PlacesOf(s, key)
  OBVIOUS
<1>2. IsFiniteSet(U)
  <2>1. U \subseteq 1..Len(s) /\ Len(s) \in Int /\ 1 \in Int
    BY <1>1 DEF UP!PlacesOf
  <2> QED BY <2>1, FS_Interval, FS_Subset
<1>3. UP!Cardinality(U) = Cardinality(U)
  BY DEF Cardinality, UP!Cardinality, IsFiniteSet, UP!IsFiniteSet
<1>4. Cardinality(U) \in Nat
  BY <1>2, FS_CardinalityType
<1>5. ASSUME NEW i \in U, NEW j \in U, i # j PROVE ~ (Cardinality(U) < 2)
  <2>1. IsFiniteSet({i}) /\ Cardinality({i}) = 1
    BY FS_Singleton
  <2>2. j \notin {i}
    BY <1>5
  <2>5. Cardinality({i} \cup {j}) = IF j \in {i} THEN Cardinality({i}) ELSE Cardinality({i}) + 1
    BY <2>1, FS_AddElement
  <2>3. {i} \cup {j} \subseteq U
    OBVIOUS
  <2>4. Cardinality({i} \cup {j}) <= Cardinality(U)
    BY <1>2, <2>3, FS_Subset
  <2>6. Cardinality({i} \cup {j}) = 2
    BY <2>1, <2>2, <2>5
  <2> QED BY <1>4, <2>4, <2>6
<1>6. ASSUME \A i, j \in U : i = j PROVE ~ (Cardinality(U) >= 2)
  <2>1. CASE U = {}
    <3>1. Cardinality(U) = 0
      BY <2>1, FS_EmptySet
    <3> QED BY <3>1
  <2>2. CASE U # {}
    <3>1. PICK x : x \in U
      BY <2>2
    <3>2. U = {x}
      BY <1>6, <3>1
    <3>3. Cardinality(U) = 1
      BY <3>2, FS_Singleton
    <3> QED BY <3>3
  <2> QED BY <2>1, <2>2
<1> QED BY <1>1, <1>3, <1>5, <1>6 DEF Once

\* A save of a whole list has a key twice only if it was twice in what is stored.
LEMMA TakenOnce ==
    ASSUME NEW s \in Seq(Keyed), NEW old \in Seq(Keyed), NEW t \in Seq(Keyed),
           SameIds(old, s), Taken(old, t), OneEach(t), NEW key, Once(s, key)
    PROVE  Once(t, key)
<1> SUFFICES ASSUME NEW i \in 1..Len(t), NEW j \in 1..Len(t), t[i].key = key, t[j].key = key
             PROVE  i = j
  BY DEF Once, UP!PlacesOf
<1>1. PICK x \in 1..Len(old), y \in 1..Len(old) : t[i] = old[x] /\ t[j] = old[y]
  BY DEF Taken
<1>2. /\ x \in 1..Len(s) /\ y \in 1..Len(s)
      /\ s[x].id = old[x].id /\ s[y].id = old[y].id
  BY DEF SameIds
<1>3. s[x] \in Keyed /\ s[y] \in Keyed /\ old[x] \in Keyed /\ old[y] \in Keyed
  BY <1>2
<1>4. s[x].key = key /\ s[y].key = key
  BY <1>1, <1>2, <1>3 DEF Keyed
<1>5. x = y
  BY <1>2, <1>4 DEF Once, UP!PlacesOf
<1> QED BY <1>1, <1>5 DEF OneEach

\* A save that pushes has a key twice only if it was pushed by a request that had not
\* found it, although it was there.
LEMMA PushedTwice ==
    ASSUME NEW s \in Seq(Keyed), NEW old \in Seq(Keyed), NEW new \in Seq(Keyed), NEW t,
           MergedByPlace(old, new, s, t), NEW r, NEW at, Pushes(old, new, r, at),
           KeysNew(old, new), MergesElements(Keyed),
           NEW key, Once(s, key), ~ Once(t, key)
    PROVE  UP!PlacesOf(old, key) = {} /\ UP!PlacesOf(s, key) # {}
<1>1. t \in Seq(Keyed) /\ Pushes(s, t, r, at) /\ Len(t) = Len(s) + (Len(new) - Len(old))
  BY MergedIds
<1>2. PICK i \in 1..Len(t), j \in 1..Len(t) : t[i].key = key /\ t[j].key = key /\ i < j
  <2>1. PICK i \in 1..Len(t), j \in 1..Len(t) : t[i].key = key /\ t[j].key = key /\ i # j
    BY <1>1 DEF Once, UP!PlacesOf
  <2>2. i < j \/ j < i
    BY <2>1
  <2> QED BY <2>1, <2>2
<1>3. PICK k \in Nat, l \in Nat, n \in Nat : k = Len(s) /\ l = Len(old) /\ n = Len(new)
  OBVIOUS
<1>4. i \in 1..k
  <2>1. ASSUME i > k PROVE FALSE
    <3>1. j > k
      BY <1>2, <2>1
    <3>2. /\ t[i].id.slot = t[j].id.slot /\ t[i].id.at = t[j].id.at
          /\ (t[i].id = t[j].id => i = j)
      BY <1>1, <1>3, <2>1, <3>1 DEF Pushes
    <3>3. t[i] \in Keyed /\ t[j] \in Keyed
      BY <1>1
    <3>4. t[i].id.key = t[j].id.key /\ t[i].id \in UP!Ids /\ t[j].id \in UP!Ids
      BY <1>2, <3>3 DEF Keyed, UP!Element
    <3>5. \A x, y \in UP!Ids : x.slot = y.slot /\ x.at = y.at /\ x.key = y.key => x = y
      BY DEF UP!Ids
    <3>6. t[i].id = t[j].id
      BY <3>2, <3>4, <3>5
    <3> QED BY <1>2, <3>2, <3>6
  <2> QED BY <2>1
<1>5. s[i].key = key
  BY <1>1, <1>2, <1>3, <1>4, PushesKeys
<1>6. j > k
  <2>1. ASSUME j \in 1..k PROVE FALSE
    <3>1. s[j].key = key
      BY <1>1, <1>2, <1>3, <2>1, PushesKeys
    <3> QED BY <1>2, <1>3, <1>4, <1>5, <2>1, <3>1 DEF Once, UP!PlacesOf
  <2> QED BY <2>1
<1>7. PICK m \in 1..n - l : j = k + m
  <2>1. j \in 1..k + (n - l)
    BY <1>1, <1>3
  <2>2. j - k \in 1..n - l /\ j = k + (j - k)
    BY <1>6, <2>1
  <2> QED BY <2>2
<1>8. /\ t[j] = new[l + m] /\ l + m \in 1..n /\ l + m > l
  BY <1>3, <1>7 DEF MergedByPlace
<1>9. \A x \in 1..l : old[x].key # key
  BY <1>2, <1>3, <1>8 DEF KeysNew
<1>10. UP!PlacesOf(old, key) = {}
  BY <1>3, <1>9 DEF UP!PlacesOf
<1> QED BY <1>3, <1>4, <1>5, <1>10 DEF UP!PlacesOf

LEMMA PreferenceTwice ==
    ASSUME PreferenceInv, NEW r \in Requests, UP!Save(r), NEW key,
           Once(stored.preferences, key), ~ Once(stored'.preferences, key)
    PROVE  /\ UP!PlacesOf(copy[r].old.preferences, key) = {}
           /\ UP!PlacesOf(stored.preferences, key) # {}
<1>1. PICK w : Saved(r, UP!Arrays, w)
  BY PreferenceSaves DEF UP!Save
<1>2. PICK q : q = copy[r]
  OBVIOUS
<1>3. /\ PreferenceCopy(q) /\ q.old # Nothing
      /\ ListsCopy(q, r, stored, UP!Arrays, Keyed, saves)
      /\ ListsStored(stored, UP!Arrays, Keyed, saves)
      /\ ListsStored(stored', UP!Arrays, Keyed, saves')
  <2>1. copy[r] # Nothing /\ stored # Nothing
    BY <1>1 DEF Saved
  <2>2. PreferenceCopy(copy[r]) /\ copy[r].old # Nothing
    BY PreferenceSave
  <2>3. /\ ListsCopy(copy[r], r, stored, UP!Arrays, Keyed, saves)
        /\ ListsStored(stored, UP!Arrays, Keyed, saves)
    BY <2>1, <2>2 DEF PreferenceInv, ListsInv
  <2>4. ListsStored(stored', UP!Arrays, Keyed, saves')
    <3>1. PreferenceInv' /\ stored' # Nothing
      BY PreferenceSave
    <3> QED BY <3>1, PreferenceStored
  <2> QED BY <1>2, <2>2, <2>3, <2>4
<1>4. PICK s \in Seq(Keyed), old \in Seq(Keyed), new \in Seq(Keyed), t \in Seq(Keyed) :
          /\ s = stored.preferences /\ old = q.old.preferences /\ new = q.new.preferences
          /\ t = stored'.preferences /\ OneEach(t)
  BY <1>3 DEF ListsCopy, ListsStored, UP!Arrays
<1>5. ListCopy(q, "preferences", r, stored, saves)
  BY <1>3 DEF ListsCopy, UP!Arrays
<1>6. /\ MD!Accepted(q, UP!Arrays)
      /\ "preferences" \in q.whole => t = new
      /\ "preferences" \notin q.whole => t = MD!MergedArray(q, "preferences")
  <2>1. MD!Accepted(q, UP!Arrays) /\ stored' = MD!Merged(q, UP!Arrays)
    BY <1>1, <1>2 DEF Saved
  <2>2. "version" \notin UP!Arrays \cup q.whole /\ "preferences" \in DOMAIN stored
    BY <1>3 DEF ListsCopy, ListsStored, UP!Arrays
  <2>3. LET d == MD!Merged(q, UP!Arrays)
        IN  /\ "preferences" \in UP!Arrays \cap q.whole => d["preferences"] = q.new["preferences"]
            /\ "preferences" \in UP!Arrays \ q.whole =>
                   d["preferences"] = MD!MergedArray(q, "preferences")
    BY <2>2, MergedFields
  <2> QED BY <1>4, <2>1, <2>3 DEF UP!Arrays
<1>7. CASE "preferences" \in q.whole
  <2>1. SameIds(old, s) /\ Taken(old, t)
    BY <1>4, <1>5, <1>6, <1>7 DEF ListCopy, MD!Accepted, MD!ComparesVersion
  <2> QED BY <1>4, <2>1, TakenOnce
<1>8. CASE "preferences" \notin q.whole
  <2>1. PICK at : Pushes(old, new, r, at)
    BY <1>4, <1>5, <1>8 DEF ListCopy
  <2>2. MergedByPlace(old, new, s, t)
    <3>1. CopiedArray(q, "preferences", Keyed) /\ stored["preferences"] \in Seq(Keyed)
      BY <1>4, <2>1 DEF CopiedArray, Pushes
    <3>2. MergedByPlace(q.old["preferences"], q.new["preferences"], stored["preferences"],
                        MD!MergedArray(q, "preferences"))
      BY <3>1, MergedPlaces
    <3> QED BY <1>4, <1>6, <1>8, <3>2
  <2>3. q.whole = {}
    BY <1>3, <1>8 DEF ListsCopy, UP!Arrays
  <2>4. KeysNew(old, new)
    BY <1>3, <1>4, <2>3 DEF PreferenceCopy, PushesNewKeys
  <2>5. UP!PlacesOf(old, key) = {} /\ UP!PlacesOf(s, key) # {}
    BY <1>4, <2>1, <2>2, <2>4, KeyedElements, PushedTwice
  <2> QED BY <1>2, <1>4, <2>5
<1> QED BY <1>7, <1>8

\* A key is in the list twice only by a push that had not seen it.
LEMMA PreferenceSecond ==
    PreferenceInv /\ [UP!Next]_(UP!document) => UP!SecondOfKeyOnlyByOverlap
<1> SUFFICES ASSUME PreferenceInv, [UP!Next]_(UP!document), stored # Nothing, stored' # Nothing,
                    NEW key \in Keys,
                    UP!Cardinality(UP!PlacesOf(stored.preferences, key)) < 2,
                    UP!Cardinality(UP!PlacesOf(stored'.preferences, key)) >= 2
             PROVE  \E r \in Requests : /\ copy[r] # Nothing
                                        /\ copy'[r] = Nothing
                                        /\ UP!PlacesOf(copy[r].old.preferences, key) = {}
                                        /\ UP!PlacesOf(stored.preferences, key) # {}
  BY DEF UP!SecondOfKeyOnlyByOverlap
<1>1. stored.preferences \in Seq(Keyed)
  BY PreferenceList
<1>2. stored'.preferences \in Seq(Keyed)
  BY PreferenceSteps, PreferenceStored
<1>3. Once(stored.preferences, key) /\ ~ Once(stored'.preferences, key)
  BY <1>1, <1>2, OnceCounted
<1>4. stored' # stored
  BY <1>3
<1>5. PICK r \in Requests : UP!Save(r)
  BY <1>4, PreferenceSteps
<1>6. copy[r] # Nothing /\ copy'[r] = Nothing
  BY <1>5, PreferenceSave
<1> QED BY <1>3, <1>5, <1>6, PreferenceTwice

-----------------------------------------------------------------------------
(***************************************************************************)
(* Lists of tax settings and preferences: the ids of the elements that are *)
(* stored are those that were added less those that were removed. A copy   *)
(* has ids that were added when it was read, and pushes ids that no save   *)
(* added before.                                                           *)
(***************************************************************************)
IdsOfList(s) == {s[i].id : i \in 1..Len(s)}

IdsIn(d, A) == UNION {IdsOfList(d[a]) : a \in A}

\* The ids of the elements of t behind those of s.
FreshIds(s, t) == {t[i].id : i \in Len(s) + 1..Len(t)}

\* The ids of slot r in ids were given before n.
GivenBefore(ids, r, n) == \A id \in ids : id.slot = r => id.at \in 0..n - 1

\* No id is in two of the lists.
ListsApart(d, A) == \A a \in A : \A b \in A \ {a} : IdsOfList(d[a]) \cap IdsOfList(d[b]) = {}

KeptCopy(q, A, added) ==
    /\ IdsIn(q.old, A) \subseteq added
    /\ \A a \in A \ q.whole :
          /\ FreshIds(q.old[a], q.new[a]) \cap added = {}
          /\ \A b \in A \ {a} : b \notin q.whole =>
                 FreshIds(q.old[a], q.new[a]) \cap FreshIds(q.old[b], q.new[b]) = {}

ElementsInv(A) ==
    /\ IdsIn(stored, A) = world.added \ world.removed
    /\ world.removed \subseteq world.added
    /\ ListsApart(stored, A)
    /\ \A r \in Requests : GivenBefore(world.added, r, saves)
    /\ \A r \in Requests : (copy[r] # Nothing /\ copy[r].old # Nothing)
                              => KeptCopy(copy[r], A, world.added)

LEMMA FreshIdsPushed ==
    ASSUME NEW El, NEW s \in Seq(El), NEW t \in Seq(El), NEW r, NEW n, Pushes(s, t, r, n)
    PROVE  /\ IdsOfList(t) = IdsOfList(s) \cup FreshIds(s, t)
           /\ \A id \in FreshIds(s, t) : id.slot = r /\ id.at = n
<1>1. PICK k \in Nat, l \in Nat : k = Len(s) /\ l = Len(t) /\ k <= l
  BY DEF Pushes
<1>2. \A i \in 1..k : i \in 1..l /\ t[i].id = s[i].id
  BY <1>1 DEF Pushes
<1>3. \A i \in 1..l : i \in 1..k \/ i \in k + 1..l
  OBVIOUS
<1>4. \A i \in k + 1..l : i \in 1..l /\ i > k
  OBVIOUS
<1>5. IdsOfList(t) = IdsOfList(s) \cup FreshIds(s, t)
  BY <1>1, <1>2, <1>3, <1>4 DEF IdsOfList, FreshIds
<1>6. \A i \in k + 1..l : t[i].id.slot = r /\ t[i].id.at = n
  BY <1>1, <1>4 DEF Pushes
<1> QED BY <1>1, <1>5, <1>6 DEF FreshIds

LEMMA FreshIdsNone == \A El : \A s \in Seq(El) : FreshIds(s, s) = {}
<1> SUFFICES ASSUME NEW El, NEW s \in Seq(El) PROVE FreshIds(s, s) = {}
  OBVIOUS
<1>1. Len(s) \in Nat
  OBVIOUS
<1>2. Len(s) + 1..Len(s) = {}
  BY <1>1
<1> QED BY <1>2 DEF FreshIds

LEMMA IdsOfSame == \A s, t : SameIds(s, t) => IdsOfList(s) = IdsOfList(t)
BY DEF SameIds, IdsOfList

LEMMA IdsOfTaken == \A s, t : Taken(s, t) => IdsOfList(t) \subseteq IdsOfList(s)
BY DEF Taken, IdsOfList

\* The list of which elements were changed by place or pushed.
LEMMA MergedFresh ==
    ASSUME NEW El, MergesElements(El), NEW s \in Seq(El), NEW old \in Seq(El),
           NEW new \in Seq(El), NEW m, MergedByPlace(old, new, s, m),
           NEW r, NEW at, Pushes(old, new, r, at)
    PROVE  IdsOfList(m) = IdsOfList(s) \cup FreshIds(old, new)
<1>1. m \in Seq(El) /\ Pushes(s, m, r, at) /\ Len(m) = Len(s) + (Len(new) - Len(old))
  BY MergedIds
<1>2. IdsOfList(m) = IdsOfList(s) \cup FreshIds(s, m)
  BY <1>1, FreshIdsPushed
<1>3. PICK k \in Nat, l \in Nat, n \in Nat : k = Len(s) /\ l = Len(old) /\ n = Len(new)
  OBVIOUS
<1>4. \A i \in 1..n - l : m[k + i] = new[l + i]
  BY <1>3 DEF MergedByPlace
<1>5. ASSUME NEW i \in k + 1..k + (n - l) PROVE i - k + l \in l + 1..n /\ m[i] = new[i - k + l]
  <2>1. i - k \in 1..n - l /\ k + (i - k) = i /\ l + (i - k) = i - k + l
    BY <1>5
  <2> QED BY <1>4, <2>1
<1>6. ASSUME NEW i \in l + 1..n PROVE i - l + k \in k + 1..k + (n - l) /\ m[i - l + k] = new[i]
  <2>1. /\ i - l \in 1..n - l /\ k + (i - l) = i - l + k /\ l + (i - l) = i
        /\ i - l + k \in k + 1..k + (n - l)
    BY <1>6
  <2> QED BY <1>4, <2>1
<1>7. FreshIds(s, m) = FreshIds(old, new)
  <2>1. FreshIds(s, m) = {m[i].id : i \in k + 1..k + (n - l)}
    BY <1>1, <1>3 DEF FreshIds
  <2>2. FreshIds(old, new) = {new[i].id : i \in l + 1..n}
    BY <1>3 DEF FreshIds
  <2>3. ASSUME NEW id \in FreshIds(s, m) PROVE id \in FreshIds(old, new)
    <3>1. PICK i \in k + 1..k + (n - l) : id = m[i].id
      BY <2>1, <2>3
    <3>2. i - k + l \in l + 1..n /\ id = new[i - k + l].id
      BY <1>5, <3>1
    <3> QED BY <2>2, <3>2
  <2>4. ASSUME NEW id \in FreshIds(old, new) PROVE id \in FreshIds(s, m)
    <3>1. PICK i \in l + 1..n : id = new[i].id
      BY <2>2, <2>4
    <3>2. i - l + k \in k + 1..k + (n - l) /\ id = m[i - l + k].id
      BY <1>6, <3>1
    <3> QED BY <2>1, <3>2
  <2> QED BY <2>3, <2>4
<1> QED BY <1>2, <1>7

\* The ids of a list, of the copy's, and of the one that an accepted save leaves.
SavedIdsOf(d, q, a, r, n) ==
    IF a \in q.whole
    THEN /\ IdsOfList(d[a]) = IdsOfList(q.new[a])
         /\ IdsOfList(q.new[a]) \subseteq IdsOfList(q.old[a])
    ELSE /\ IdsOfList(d[a]) = IdsOfList(stored[a]) \cup FreshIds(q.old[a], q.new[a])
         /\ IdsOfList(q.new[a]) = IdsOfList(q.old[a]) \cup FreshIds(q.old[a], q.new[a])
         /\ \A id \in FreshIds(q.old[a], q.new[a]) : id.slot = r /\ id.at \in 0..n

LEMMA SavedIds ==
    ASSUME NEW El, MergesElements(El), NEW A, NEW n \in Nat, ListsStored(stored, A, El, n),
           "version" \notin A, NEW r \in Requests, NEW q, ListsCopy(q, r, stored, A, El, n),
           MD!Accepted(q, A), NEW d, d = MD!Merged(q, A), NEW a \in A
    PROVE  /\ SavedIdsOf(d, q, a, r, n)
           /\ q.whole # {} => IdsOfList(q.old[a]) = IdsOfList(stored[a])
<1>0. PICK t : t = d[a]
  OBVIOUS
<1>1. /\ a \in q.whole => d[a] = q.new[a]
      /\ a \notin q.whole => d[a] = MD!MergedArray(q, a)
  <2>1. "version" \notin A \cup q.whole /\ a \in DOMAIN stored
    BY DEF ListsCopy, ListsStored
  <2> QED BY <2>1, MergedFields
<1>2. PICK s \in Seq(El), old \in Seq(El), new \in Seq(El) :
          s = stored[a] /\ old = q.old[a] /\ new = q.new[a]
  BY DEF ListsCopy, ListsStored
<1>3. ListCopy(q, a, r, stored, n)
  BY DEF ListsCopy
<1>4. q.whole # {} => IdsOfList(old) = IdsOfList(s)
  <2> SUFFICES ASSUME q.whole # {} PROVE IdsOfList(old) = IdsOfList(s)
    OBVIOUS
  <2>1. q.old.version = stored.version
    BY DEF MD!Accepted, MD!ComparesVersion
  <2>2. SameIds(old, s)
    BY <1>2, <1>3, <2>1 DEF ListCopy
  <2> QED BY <2>2, IdsOfSame
<1>5. CASE a \in q.whole
  <2>1. t = new /\ Taken(old, new)
    BY <1>0, <1>1, <1>2, <1>3, <1>5 DEF ListCopy
  <2>2. IdsOfList(new) \subseteq IdsOfList(old)
    BY <2>1, IdsOfTaken
  <2> QED BY <1>0, <1>2, <1>4, <1>5, <2>1, <2>2 DEF SavedIdsOf
<1>6. CASE a \notin q.whole
  <2>1. PICK at \in 0..n : Pushes(old, new, r, at)
    BY <1>2, <1>3, <1>6 DEF ListCopy
  <2>2. MergedByPlace(old, new, s, t)
    <3>1. CopiedArray(q, a, El) /\ stored[a] \in Seq(El)
      BY <1>2, <2>1 DEF CopiedArray, Pushes
    <3>2. MergedByPlace(q.old[a], q.new[a], stored[a], MD!MergedArray(q, a))
      BY <3>1, MergedPlaces
    <3> QED BY <1>0, <1>1, <1>2, <1>6, <3>2
  <2>3. IdsOfList(t) = IdsOfList(s) \cup FreshIds(old, new)
    BY <2>1, <2>2, MergedFresh
  <2>4. /\ IdsOfList(new) = IdsOfList(old) \cup FreshIds(old, new)
        /\ \A id \in FreshIds(old, new) : id.slot = r /\ id.at = at
    BY <2>1, FreshIdsPushed
  <2> QED BY <1>0, <1>2, <1>4, <1>6, <2>1, <2>3, <2>4 DEF SavedIdsOf
<1> QED BY <1>5, <1>6

\* A save, by which the ids that the request pushed count as added, and those that it
\* took out as removed. L and O: the ids of its copy, as it is and as it was read.
LEMMA ElementsSaved ==
    ASSUME NEW El, MergesElements(El), NEW A, "version" \notin A, ListsInv(A, El),
           ElementsInv(A), NEW r \in Requests, NEW q, q = copy[r], q.old # Nothing,
           NEW w, Saved(r, A, w), NEW L, L = IdsIn(q.new, A), NEW O, O = IdsIn(q.old, A),
           w.added = world.added \cup (L \ O), w.removed = world.removed \cup (O \ L)
    PROVE  ElementsInv(A)'
<1>1. PICK n \in Nat : n = saves
  BY DEF ListsInv
<1>2. PICK d : d = MD!Merged(q, A)
  OBVIOUS
<1>3. PICK added, removed : added = world.added /\ removed = world.removed
  OBVIOUS
<1>4. /\ ListsStored(stored, A, El, n) /\ ListsCopy(q, r, stored, A, El, n)
      /\ MD!Accepted(q, A) /\ stored' = d /\ saves' = n + 1 /\ world' = w
      /\ copy' = [copy EXCEPT ![r] = Nothing] /\ DOMAIN copy = Requests
  BY <1>1, <1>2 DEF ListsInv, Saved
<1>5. /\ IdsIn(stored, A) = added \ removed /\ removed \subseteq added
      /\ ListsApart(stored, A) /\ KeptCopy(q, A, added)
      /\ \A s \in Requests : GivenBefore(added, s, n)
  BY <1>1, <1>3 DEF ElementsInv, Saved
<1>6. \A a \in A : SavedIdsOf(d, q, a, r, n)
  BY <1>2, <1>4, SavedIds
<1>7. q.whole # {} => \A a \in A : IdsOfList(q.old[a]) = IdsOfList(stored[a])
  BY <1>2, <1>4, SavedIds
<1>8. ASSUME NEW id \in L \ O
      PROVE  id \notin added /\ id.slot = r /\ id.at \in 0..n
  <2>1. PICK a \in A : id \in IdsOfList(q.new[a])
    BY <1>8 DEF IdsIn
  <2>2. id \notin IdsOfList(q.old[a])
    BY <1>8 DEF IdsIn
  <2>3. a \notin q.whole /\ id \in FreshIds(q.old[a], q.new[a])
    BY <1>6, <2>1, <2>2 DEF SavedIdsOf
  <2> QED BY <1>5, <1>6, <2>3 DEF SavedIdsOf, KeptCopy
<1>9. IdsIn(d, A) = (added \cup (L \ O)) \ (removed \cup (O \ L))
  <2>1. CASE q.whole = {}
    <3>1. \A a \in A : /\ IdsOfList(d[a]) = IdsOfList(stored[a]) \cup FreshIds(q.old[a], q.new[a])
                      /\ IdsOfList(q.new[a]) = IdsOfList(q.old[a]) \cup FreshIds(q.old[a], q.new[a])
                      /\ FreshIds(q.old[a], q.new[a]) \cap added = {}
      BY <1>5, <1>6, <2>1 DEF SavedIdsOf, KeptCopy
    <3>2. PICK fresh : fresh = UNION {FreshIds(q.old[a], q.new[a]) : a \in A}
      OBVIOUS
    <3>3. IdsIn(d, A) = IdsIn(stored, A) \cup fresh /\ L = O \cup fresh /\ fresh \cap added = {}
      <4>1. ASSUME NEW id PROVE id \in fresh <=> \E a \in A : id \in FreshIds(q.old[a], q.new[a])
        BY <3>2
      <4>2. ASSUME NEW id PROVE id \in IdsIn(d, A) <=> id \in IdsIn(stored, A) \cup fresh
        <5>1. id \in IdsIn(d, A) <=> \E a \in A : id \in IdsOfList(d[a])
          BY DEF IdsIn
        <5>2. id \in IdsIn(stored, A) <=> \E a \in A : id \in IdsOfList(stored[a])
          BY DEF IdsIn
        <5> QED BY <3>1, <4>1, <5>1, <5>2
      <4>3. ASSUME NEW id PROVE id \in L <=> id \in O \cup fresh
        <5>1. L = IdsIn(q.new, A) /\ O = IdsIn(q.old, A)
          OBVIOUS
        <5>2. id \in L <=> \E a \in A : id \in IdsOfList(q.new[a])
          BY <5>1 DEF IdsIn
        <5>3. id \in O <=> \E a \in A : id \in IdsOfList(q.old[a])
          BY <5>1 DEF IdsIn
        <5>4. \A a \in A : id \in IdsOfList(q.new[a])
                         <=> id \in IdsOfList(q.old[a]) \/ id \in FreshIds(q.old[a], q.new[a])
          BY <3>1
        <5>5. id \in L <=> id \in O \/ id \in fresh
          BY <4>1, <5>2, <5>3, <5>4
        <5> QED BY <5>5
      <4>4. ASSUME NEW id \in fresh PROVE id \notin added
        <5>1. PICK a \in A : id \in FreshIds(q.old[a], q.new[a])
          BY <3>2
        <5> QED BY <3>1, <5>1
      <4> QED BY <4>2, <4>3, <4>4
    <3>4. O \subseteq added
      BY <1>5 DEF KeptCopy
    <3> QED BY <1>5, <3>3, <3>4
  <2>2. CASE q.whole # {}
    <3>1. O = IdsIn(stored, A)
      BY <1>7, <2>2 DEF IdsIn
    <3>2. \A a \in A : IdsOfList(d[a]) = IdsOfList(q.new[a])
      BY <1>6, <1>7, <2>2 DEF SavedIdsOf
    <3>3. L = IdsIn(d, A)
      BY <3>2 DEF IdsIn
    <3>4. \A id \in L \ O : id \notin removed
      BY <1>5, <1>8
    <3> QED BY <1>5, <3>1, <3>3, <3>4
  <2> QED BY <2>1, <2>2
<1>10. removed \cup (O \ L) \subseteq added \cup (L \ O)
  BY <1>5 DEF KeptCopy
<1>11. ListsApart(d, A)
  <2> SUFFICES ASSUME NEW a \in A, NEW b \in A \ {a}, NEW id,
                      id \in IdsOfList(d[a]), id \in IdsOfList(d[b])
               PROVE  FALSE
    BY DEF ListsApart
  <2>1. ASSUME NEW c \in A, id \in IdsOfList(d[c])
        PROVE  \/ id \in IdsOfList(stored[c]) /\ id \in added
               \/ c \notin q.whole /\ id \in FreshIds(q.old[c], q.new[c]) /\ id \notin added
    <3>1. CASE id \in IdsOfList(stored[c])
      BY <1>5, <3>1 DEF IdsIn
    <3>2. CASE id \notin IdsOfList(stored[c])
      <4>1. c \notin q.whole
        BY <1>6, <1>7, <2>1, <3>2 DEF SavedIdsOf
      <4>2. id \in FreshIds(q.old[c], q.new[c])
        BY <1>6, <2>1, <3>2, <4>1 DEF SavedIdsOf
      <4> QED BY <1>5, <4>1, <4>2 DEF KeptCopy
    <3> QED BY <3>1, <3>2
  <2>2. CASE id \in added
    <3>1. id \in IdsOfList(stored[a]) /\ id \in IdsOfList(stored[b])
      BY <2>1, <2>2
    <3> QED BY <1>5, <3>1 DEF ListsApart
  <2>3. CASE id \notin added
    <3>1. /\ a \notin q.whole /\ id \in FreshIds(q.old[a], q.new[a])
          /\ b \notin q.whole /\ id \in FreshIds(q.old[b], q.new[b])
      BY <2>1, <2>3
    <3> QED BY <1>5, <3>1 DEF KeptCopy
  <2> QED BY <2>2, <2>3
<1>12. ASSUME NEW s \in Requests PROVE GivenBefore(added \cup (L \ O), s, n + 1)
  <2>1. ASSUME NEW id \in added, id.slot = s PROVE id.at \in 0..n
    <3>1. id.at \in 0..n - 1
      BY <1>5, <2>1 DEF GivenBefore
    <3> QED BY <3>1
  <2>2. \A id \in added \cup (L \ O) : id.slot = s => id.at \in 0..(n + 1) - 1
    <3>1. (n + 1) - 1 = n
      OBVIOUS
    <3> QED BY <1>8, <2>1, <3>1
  <2> QED BY <2>2 DEF GivenBefore
<1>13. ASSUME NEW s \in Requests, copy'[s] # Nothing, copy'[s].old # Nothing
       PROVE  KeptCopy(copy'[s], A, added \cup (L \ O))
  <2>1. PICK p : p = copy[s]
    OBVIOUS
  <2>2. s # r /\ copy'[s] = p /\ p # Nothing /\ p.old # Nothing
    BY <1>4, <1>13, <2>1
  <2>3. KeptCopy(p, A, added) /\ ListsCopy(p, s, stored, A, El, n)
    BY <1>1, <1>3, <2>1, <2>2 DEF ElementsInv, ListsInv
  <2>4. ASSUME NEW a \in A \ p.whole, NEW id \in FreshIds(p.old[a], p.new[a])
        PROVE  id \notin L \ O
    <3>1. PICK at \in 0..n : Pushes(p.old[a], p.new[a], s, at)
      BY <2>3 DEF ListsCopy, ListCopy
    <3>2. p.old[a] \in Seq(El) /\ p.new[a] \in Seq(El)
      BY <2>3 DEF ListsCopy
    <3>3. id.slot = s
      BY <2>4, <3>1, <3>2, FreshIdsPushed
    <3> QED BY <1>8, <2>2, <3>3
  <2>5. KeptCopy(p, A, added \cup (L \ O))
    BY <2>3, <2>4 DEF KeptCopy
  <2> QED BY <2>2, <2>5
<1>14. world'.added = added \cup (L \ O) /\ world'.removed = removed \cup (O \ L)
  BY <1>3, <1>4
<1>15. /\ IdsIn(stored', A) = world'.added \ world'.removed
       /\ world'.removed \subseteq world'.added /\ ListsApart(stored', A)
  BY <1>4, <1>9, <1>10, <1>11, <1>14
<1>16. ASSUME NEW s \in Requests PROVE GivenBefore(world'.added, s, saves')
  <2>1. GivenBefore(added \cup (L \ O), s, n + 1) /\ saves' = n + 1
    BY <1>4, <1>12
  <2> QED BY <1>14, <2>1
<1>17. ASSUME NEW s \in Requests, copy'[s] # Nothing, copy'[s].old # Nothing
       PROVE  KeptCopy(copy'[s], A, world'.added)
  <2>1. KeptCopy(copy'[s], A, added \cup (L \ O))
    BY <1>13, <1>17
  <2> QED BY <1>14, <2>1
<1> QED BY <1>15, <1>16, <1>17 DEF ElementsInv

-----------------------------------------------------------------------------
\* A copy is made.
LEMMA ElementsRead ==
    ASSUME NEW El, NEW A, ListsInv(A, El), ElementsInv(A), ListsInv(A, El)',
           NEW r \in Requests, MakesCopy(r, A)
    PROVE  ElementsInv(A)'
<1>1. PICK q : /\ copy' = [copy EXCEPT ![r] = q]
               /\ q.old = stored
               /\ \A a \in A : IF a \in q.whole THEN Taken(stored[a], q.new[a])
                               ELSE Pushes(stored[a], q.new[a], r, saves)
               /\ OneChanged(q.new, A)
  BY DEF MakesCopy
<1>2. UNCHANGED <<stored, world, saves>>
  BY DEF MakesCopy
<1>3. PICK added : added = world.added
  OBVIOUS
<1>4. IdsIn(stored, A) \subseteq added /\ GivenBefore(added, r, saves)
  BY <1>3 DEF ElementsInv
<1>5. saves \in Nat /\ DOMAIN copy = Requests /\ \A a \in A : stored[a] \in Seq(El)
  BY DEF ListsInv, ListsStored
<1>6. CASE q = Nothing \/ q.old = Nothing
  <2>1. \A s \in Requests : (copy'[s] # Nothing /\ copy'[s].old # Nothing)
                               => KeptCopy(copy'[s], A, world.added)
    BY <1>1, <1>5, <1>6 DEF ElementsInv
  <2> QED BY <1>2, <2>1 DEF ElementsInv
<1>7. CASE ~ (q = Nothing \/ q.old = Nothing)
  <2>1. \A a \in A : q.new[a] \in Seq(El)
    <3>1. copy'[r] = q
      BY <1>1, <1>5
    <3>2. ListsCopy(q, r, stored, A, El, saves)
      BY <1>2, <1>7, <3>1 DEF ListsInv
    <3> QED BY <3>2 DEF ListsCopy
  <2>2. ASSUME NEW a \in A \ q.whole
        PROVE  FreshIds(q.old[a], q.new[a]) \cap added = {}
    <3>1. \A id \in FreshIds(stored[a], q.new[a]) : id.slot = r /\ id.at = saves
      BY <1>1, <1>5, <2>1, FreshIdsPushed
    <3>2. \A id \in added : id.slot = r => id.at # saves
      BY <1>4, <1>5 DEF GivenBefore
    <3> QED BY <1>1, <3>1, <3>2
  <2>3. ASSUME NEW a \in A, NEW b \in A \ {a}
        PROVE  FreshIds(q.old[a], q.new[a]) \cap FreshIds(q.old[b], q.new[b]) = {}
    <3>1. q.new[a] = stored[a] \/ q.new[b] = stored[b]
      BY <1>1 DEF OneChanged
    <3>2. FreshIds(stored[a], stored[a]) = {} /\ FreshIds(stored[b], stored[b]) = {}
      BY <1>5, FreshIdsNone
    <3> QED BY <1>1, <3>1, <3>2
  <2>4. KeptCopy(q, A, added)
    BY <1>1, <1>4, <2>2, <2>3 DEF KeptCopy
  <2>5. ASSUME NEW s \in Requests, copy'[s] # Nothing, copy'[s].old # Nothing
        PROVE  KeptCopy(copy'[s], A, added)
    <3>1. copy'[s] = IF s = r THEN q ELSE copy[s]
      BY <1>1, <1>5
    <3> QED BY <1>3, <2>4, <2>5, <3>1 DEF ElementsInv
  <2> QED BY <1>2, <1>3, <2>5 DEF ElementsInv
<1> QED BY <1>6, <1>7

LEMMA ElementsLeft ==
    ASSUME NEW A, ElementsInv(A), UNCHANGED <<stored, world, saves>>,
           \A r \in Requests : copy'[r] = copy[r] \/ copy'[r] = Nothing
    PROVE  ElementsInv(A)'
BY DEF ElementsInv

\* As many ids as elements.
LEMMA CountedIds ==
    ASSUME NEW El, NEW s \in Seq(El), OneEach(s)
    PROVE  IsFiniteSet(IdsOfList(s)) /\ Cardinality(IdsOfList(s)) = Len(s)
<1>1. PICK n \in Nat : n = Len(s)
  OBVIOUS
<1>2. PICK f : f = [i \in 1..n |-> s[i].id]
  OBVIOUS
<1>3. f \in Bijection(1..n, IdsOfList(s))
  <2>1. f \in [1..n -> IdsOfList(s)]
    BY <1>1, <1>2 DEF IdsOfList
  <2>2. \A i, j \in 1..n : f[i] = f[j] => i = j
    BY <1>1, <1>2 DEF OneEach
  <2>3. \A id \in IdsOfList(s) : \E i \in 1..n : f[i] = id
    BY <1>1, <1>2 DEF IdsOfList
  <2> QED BY <2>1, <2>2, <2>3 DEF Bijection, Injection, Surjection, IsInjective
<1>4. ExistsBijection(1..n, IdsOfList(s))
  BY <1>3 DEF ExistsBijection
<1>5. IsFiniteSet(1..n) /\ Cardinality(1..n) = n
  <2>1. 1 \in Int /\ n \in Int
    OBVIOUS
  <2>2. IsFiniteSet(1..n) /\ Cardinality(1..n) = IF 1 > n THEN 0 ELSE n - 1 + 1
    BY <2>1, FS_Interval
  <2> QED BY <2>2
<1> QED BY <1>1, <1>4, <1>5, FS_Bijection

-----------------------------------------------------------------------------
(* Tax settings. *)

ElementsOfTax == ElementsInv(T!Arrays)

LEMMA TaxIds ==
    ASSUME NEW d, \A a \in T!Arrays : d[a] \in Seq(T!Element)
    PROVE  T!IdsOf(d) = IdsIn(d, T!Arrays)
<1>1. \A a \in T!Arrays : DOMAIN d[a] = 1..Len(d[a])
  OBVIOUS
<1>2. \A id : id \in T!IdsOf(d) <=> \E a \in T!Arrays : \E i \in DOMAIN d[a] : id = d[a][i].id
  BY DEF T!IdsOf
<1>3. \A id : id \in IdsIn(d, T!Arrays)
                 <=> \E a \in T!Arrays : \E i \in 1..Len(d[a]) : id = d[a][i].id
  BY DEF IdsIn, IdsOfList
<1> QED BY <1>1, <1>2, <1>3

LEMMA ElementsOfTaxFirst == T!Init => ElementsOfTax
<1> SUFFICES ASSUME T!Init PROVE ElementsOfTax
  OBVIOUS
<1>1. TaxInv
  BY TaxFirst
<1>2. \A a \in T!Arrays : stored[a] \in Seq(T!Element)
  BY <1>1 DEF TaxInv, ListsInv, ListsStored
<1>3. world = [added |-> IdsIn(stored, T!Arrays), removed |-> {}] /\ saves = 0
  BY <1>2, TaxIds DEF T!Init
<1>4. \A r \in Requests : copy[r] = Nothing
  BY DEF T!Init, T!NoCopies
<1>5. stored.taxExemptions = << >>
  BY DEF T!Init
<1>6. IdsOfList(stored.taxExemptions) = {}
  <2>1. Len(<< >>) = 0
    OBVIOUS
  <2>2. 1..0 = {}
    OBVIOUS
  <2> QED BY <1>5, <2>1, <2>2 DEF IdsOfList
<1>7. ListsApart(stored, T!Arrays)
  BY <1>6 DEF ListsApart, T!Arrays
<1>8. ASSUME NEW r \in Requests PROVE GivenBefore(IdsIn(stored, T!Arrays), r, 0)
  <2> SUFFICES ASSUME NEW id \in IdsIn(stored, T!Arrays), id.slot = r PROVE id.at \in 0..0 - 1
    BY DEF GivenBefore
  <2>1. PICK a \in T!Arrays : id \in IdsOfList(stored[a])
    BY DEF IdsIn
  <2>2. PICK i \in 1..Len(stored[a]) : id = stored[a][i].id
    BY <2>1 DEF IdsOfList
  <2>3. Before(stored[a], r, 0)
    BY <1>1, <1>3 DEF TaxInv, ListsInv, ListsStored
  <2> QED BY <2>2, <2>3 DEF Before
<1> QED BY <1>3, <1>4, <1>7, <1>8 DEF ElementsOfTax, ElementsInv

LEMMA ElementsOfTaxSave ==
    ASSUME TaxInv, ElementsOfTax, NEW r \in Requests, T!Save(r)
    PROVE  ElementsOfTax'
<1>1. PICK q : q = copy[r]
  OBVIOUS
<1>2. PICK w : w = [added   |-> world.added \cup (T!IdsOf(q.new) \ T!IdsOf(q.old)),
                    removed |-> world.removed \cup (T!IdsOf(q.old) \ T!IdsOf(q.new))]
  OBVIOUS
<1>3. T!SaveCopy(r, T!Arrays, w)
  BY <1>1, <1>2 DEF T!Save
<1>4. Saved(r, T!Arrays, w)
  BY <1>3, TaxSaves
<1>5. q # Nothing /\ q.old # Nothing /\ ListsCopy(q, r, stored, T!Arrays, T!Element, saves)
  BY <1>1, <1>4 DEF Saved, TaxInv, ListsInv
<1>6. T!IdsOf(q.new) = IdsIn(q.new, T!Arrays) /\ T!IdsOf(q.old) = IdsIn(q.old, T!Arrays)
  BY <1>5, TaxIds DEF ListsCopy
<1>7. PICK L, O : L = IdsIn(q.new, T!Arrays) /\ O = IdsIn(q.old, T!Arrays)
  OBVIOUS
<1>8. w.added = world.added \cup (L \ O) /\ w.removed = world.removed \cup (O \ L)
  BY <1>2, <1>6, <1>7
<1>9. MergesElements(T!Element) /\ "version" \notin T!Arrays
  BY TaxElements
<1>10. ListsInv(T!Arrays, T!Element) /\ ElementsInv(T!Arrays)
  BY DEF TaxInv, ElementsOfTax
<1>11. ElementsInv(T!Arrays)'
  BY <1>1, <1>4, <1>5, <1>7, <1>8, <1>9, <1>10, ElementsSaved
<1> QED BY <1>11 DEF ElementsOfTax

LEMMA ElementsOfTaxSteps ==
    TaxInv /\ ElementsOfTax /\ [T!Next]_(T!document) => ElementsOfTax'
<1> SUFFICES ASSUME TaxInv, ElementsOfTax, [T!Next]_(T!document) PROVE ElementsOfTax'
  OBVIOUS
<1>1. DOMAIN copy = Requests /\ ListsInv(T!Arrays, T!Element)
  BY DEF TaxInv, ListsInv
<1>2. ListsInv(T!Arrays, T!Element)'
  BY TaxSteps DEF TaxInv
<1>3. ASSUME NEW r \in Requests, MakesCopy(r, T!Arrays) PROVE ElementsOfTax'
  BY <1>1, <1>2, <1>3, ElementsRead DEF ElementsOfTax
<1>4. ASSUME NEW r \in Requests, NEW a \in T!Arrays, NEW code \in Codes, NEW value \in TaxValues,
             T!Add(r, a, code, value)
      PROVE  ElementsOfTax'
  BY <1>3, <1>4, TaxAdd
<1>5. ASSUME NEW r \in Requests, NEW a \in T!Arrays, NEW code \in Codes,
             NEW new \in [code : Codes, value : TaxValues], T!Update(r, a, code, new)
      PROVE  ElementsOfTax'
  BY <1>3, <1>5, TaxUpdate
<1>6. ASSUME NEW r \in Requests, NEW a \in T!Arrays, NEW code \in Codes, T!RemoveOne(r, a, code)
      PROVE  ElementsOfTax'
  BY <1>3, <1>6, TaxRemove
<1>7. ASSUME NEW r \in Requests, NEW active \in BOOLEAN, T!SetActive(r, active)
      PROVE  ElementsOfTax'
  BY <1>3, <1>7, TaxActive
<1>8. ASSUME NEW r \in Requests, T!Save(r) PROVE ElementsOfTax'
  BY <1>8, ElementsOfTaxSave
<1>9. ASSUME NEW r \in Requests, T!AbortCopy(r) PROVE ElementsOfTax'
  <2>1. UNCHANGED <<stored, world, saves>> /\ copy' = [copy EXCEPT ![r] = Nothing]
    BY <1>9 DEF T!AbortCopy
  <2>2. \A s \in Requests : copy'[s] = copy[s] \/ copy'[s] = Nothing
    BY <1>1, <2>1
  <2> QED BY <2>1, <2>2, ElementsLeft DEF ElementsOfTax
<1>10. CASE UNCHANGED T!document
  <2>1. UNCHANGED <<stored, world, saves>> /\ UNCHANGED copy
    BY <1>10 DEF T!document
  <2> QED BY <2>1, ElementsLeft DEF ElementsOfTax
<1> QED BY <1>4, <1>5, <1>6, <1>7, <1>8, <1>9, <1>10 DEF T!Next

LEMMA ElementsOfTaxImply == TaxInv /\ ElementsOfTax => T!ElementsKept
<1> SUFFICES ASSUME TaxInv, ElementsOfTax PROVE T!ElementsKept
  OBVIOUS
<1>1. PICK s \in Seq(T!Element), t \in Seq(T!Element) :
          /\ s = stored.taxRates /\ t = stored.taxExemptions /\ OneEach(s) /\ OneEach(t)
  BY DEF TaxInv, ListsInv, ListsStored, T!Arrays
<1>2. T!IdsOf(stored) = IdsIn(stored, T!Arrays)
  BY TaxIds DEF TaxInv, ListsInv, ListsStored
<1>3. IdsIn(stored, T!Arrays) = IdsOfList(s) \cup IdsOfList(t)
  BY <1>1 DEF IdsIn, T!Arrays
<1>4. IdsOfList(s) \cap IdsOfList(t) = {}
  BY <1>1 DEF ElementsOfTax, ElementsInv, ListsApart, T!Arrays
<1>5. /\ IsFiniteSet(IdsOfList(s)) /\ Cardinality(IdsOfList(s)) = Len(s)
      /\ IsFiniteSet(IdsOfList(t)) /\ Cardinality(IdsOfList(t)) = Len(t)
  BY <1>1, CountedIds
<1>6. Cardinality(IdsOfList(s) \cup IdsOfList(t)) = Len(s) + Len(t)
  <2>1. Cardinality(IdsOfList(s) \cup IdsOfList(t))
           = Cardinality(IdsOfList(s)) + Cardinality(IdsOfList(t))
               - Cardinality(IdsOfList(s) \cap IdsOfList(t))
    BY <1>5, FS_Union
  <2>2. Cardinality({}) = 0
    BY FS_EmptySet
  <2>3. PICK k \in Nat, n \in Nat : k = Len(s) /\ n = Len(t)
    OBVIOUS
  <2>4. Cardinality(IdsOfList(s) \cap IdsOfList(t)) = 0
    BY <1>4, <2>2
  <2>5. Cardinality(IdsOfList(s) \cup IdsOfList(t)) = k + n - 0
    BY <1>5, <2>1, <2>3, <2>4
  <2> QED BY <2>3, <2>5
<1>7. \A set : T!Cardinality(set) = Cardinality(set)
  BY DEF Cardinality, T!Cardinality, IsFiniteSet, T!IsFiniteSet
<1>8. T!IdsOf(stored) = world.added \ world.removed
  BY <1>2 DEF ElementsOfTax, ElementsInv
<1>9. T!Cardinality(T!IdsOf(stored)) = Len(stored.taxRates) + Len(stored.taxExemptions)
  BY <1>1, <1>2, <1>3, <1>6, <1>7
<1> QED BY <1>8, <1>9 DEF T!ElementsKept

-----------------------------------------------------------------------------
(* User preferences. *)

ElementsOfPreferences == stored # Nothing => ElementsInv(UP!Arrays)

LEMMA PreferenceIds ==
    ASSUME NEW d, d.preferences \in Seq(Keyed)
    PROVE  UP!IdsOf(d) = IdsIn(d, UP!Arrays) /\ IdsIn(d, UP!Arrays) = IdsOfList(d.preferences)
<1>1. DOMAIN d.preferences = 1..Len(d.preferences)
  OBVIOUS
<1>2. UP!IdsOf(d) = IdsOfList(d.preferences)
  BY <1>1 DEF UP!IdsOf, IdsOfList
<1>3. IdsIn(d, UP!Arrays) = IdsOfList(d.preferences)
  BY DEF IdsIn, UP!Arrays
<1> QED BY <1>2, <1>3

LEMMA ElementsOfPreferencesFirst == UP!Init => ElementsOfPreferences
BY DEF UP!Init, ElementsOfPreferences

LEMMA ElementsOfPreferencesSave ==
    ASSUME PreferenceInv, ElementsOfPreferences, NEW r \in Requests, UP!Save(r)
    PROVE  ElementsOfPreferences'
<1>1. PICK q : q = copy[r]
  OBVIOUS
<1>2. PICK w : w = [added   |-> world.added \cup (UP!IdsOf(q.new) \ UP!IdsOf(q.old)),
                    removed |-> world.removed \cup (UP!IdsOf(q.old) \ UP!IdsOf(q.new))]
  OBVIOUS
<1>3. UP!SaveCopy(r, UP!Arrays, w) /\ q.op # "create"
  BY <1>1, <1>2 DEF UP!Save
<1>4. Saved(r, UP!Arrays, w)
  BY <1>3, PreferenceSaves
<1>5. q # Nothing /\ q.old # Nothing /\ stored # Nothing
  BY <1>1, <1>3, <1>4 DEF Saved, PreferenceInv, PreferenceCopy
<1>6. ListsInv(UP!Arrays, Keyed) /\ ListsCopy(q, r, stored, UP!Arrays, Keyed, saves)
  BY <1>1, <1>5 DEF PreferenceInv, ListsInv
<1>7. UP!IdsOf(q.new) = IdsIn(q.new, UP!Arrays) /\ UP!IdsOf(q.old) = IdsIn(q.old, UP!Arrays)
  <2>1. q.new.preferences \in Seq(Keyed) /\ q.old.preferences \in Seq(Keyed)
    BY <1>6 DEF ListsCopy, UP!Arrays
  <2> QED BY <2>1, PreferenceIds
<1>8. PICK L, O : L = IdsIn(q.new, UP!Arrays) /\ O = IdsIn(q.old, UP!Arrays)
  OBVIOUS
<1>9. w.added = world.added \cup (L \ O) /\ w.removed = world.removed \cup (O \ L)
  BY <1>2, <1>7, <1>8
<1>10. MergesElements(Keyed) /\ "version" \notin UP!Arrays
  BY KeyedElements
<1>11. ElementsInv(UP!Arrays)
  BY <1>5 DEF ElementsOfPreferences
<1>12. ElementsInv(UP!Arrays)'
  BY <1>1, <1>4, <1>5, <1>6, <1>8, <1>9, <1>10, <1>11, ElementsSaved
<1> QED BY <1>12 DEF ElementsOfPreferences

\* The elements of the document that is inserted are the first that were added.
LEMMA ElementsOfPreferencesInsert ==
    ASSUME PreferenceInv, NEW r \in Requests, UP!Insert(r)
    PROVE  ElementsOfPreferences'
<1>1. /\ stored = Nothing /\ stored' = copy[r].new /\ saves' = saves + 1
      /\ copy[r] # Nothing /\ copy' = [copy EXCEPT ![r] = Nothing]
      /\ world' = [added |-> UP!IdsOf(stored'), removed |-> {}]
  BY DEF UP!Insert
<1>2. saves \in Nat /\ DOMAIN copy = Requests
  BY DEF PreferenceInv
<1>3. \A s \in Requests : copy'[s] # Nothing => copy'[s].old = Nothing
  BY <1>1, <1>2 DEF PreferenceInv
<1>4. PICK d : d = stored'
  OBVIOUS
<1>5. ListsStored(d, UP!Arrays, Keyed, 0)
  BY <1>1, <1>4 DEF PreferenceInv, PreferenceCopy
<1>6. d.preferences \in Seq(Keyed) /\ \A s \in Requests : Before(d.preferences, s, 0)
  BY <1>5 DEF ListsStored, UP!Arrays
<1>7. world' = [added |-> IdsIn(d, UP!Arrays), removed |-> {}]
  BY <1>1, <1>4, <1>6, PreferenceIds
<1>8. ASSUME NEW s \in Requests PROVE GivenBefore(IdsIn(d, UP!Arrays), s, saves')
  <2> SUFFICES ASSUME NEW id \in IdsIn(d, UP!Arrays), id.slot = s PROVE FALSE
    BY DEF GivenBefore
  <2>1. id \in IdsOfList(d.preferences)
    BY <1>6, PreferenceIds
  <2>2. PICK i \in 1..Len(d.preferences) : id = d.preferences[i].id
    BY <2>1 DEF IdsOfList
  <2>3. id.at \in 0..0 - 1
    BY <1>6, <2>2 DEF Before
  <2> QED BY <2>3
<1>9. ListsApart(d, UP!Arrays)
  BY DEF ListsApart, UP!Arrays
<1>10. world'.added = IdsIn(d, UP!Arrays) /\ world'.removed = {}
  BY <1>7
<1>11. /\ IdsIn(stored', UP!Arrays) = world'.added \ world'.removed
       /\ world'.removed \subseteq world'.added /\ ListsApart(stored', UP!Arrays)
  BY <1>4, <1>9, <1>10
<1>12. \A s \in Requests : GivenBefore(world'.added, s, saves')
  BY <1>8, <1>10
<1>13. ElementsInv(UP!Arrays)'
  BY <1>3, <1>11, <1>12 DEF ElementsInv
<1> QED BY <1>13 DEF ElementsOfPreferences

LEMMA ElementsOfPreferencesSteps ==
    PreferenceInv /\ ElementsOfPreferences /\ [UP!Next]_(UP!document) => ElementsOfPreferences'
<1> SUFFICES ASSUME PreferenceInv, ElementsOfPreferences, [UP!Next]_(UP!document)
             PROVE  ElementsOfPreferences'
  OBVIOUS
<1>1. DOMAIN copy = Requests
  BY DEF PreferenceInv
<1>2. PreferenceInv'
  BY PreferenceSteps
<1>3. ASSUME NEW r \in Requests, MakesCopy(r, UP!Arrays), stored # Nothing
      PROVE  ElementsOfPreferences'
  <2>1. UNCHANGED stored
    BY <1>3 DEF MakesCopy
  <2>2. stored' # Nothing
    BY <1>3, <2>1
  <2>3. ListsInv(UP!Arrays, Keyed) /\ ListsInv(UP!Arrays, Keyed)' /\ ElementsInv(UP!Arrays)
    BY <1>2, <1>3, <2>2 DEF PreferenceInv, ElementsOfPreferences
  <2>4. ElementsInv(UP!Arrays)'
    BY <1>3, <2>3, ElementsRead
  <2> QED BY <2>4 DEF ElementsOfPreferences
<1>4. ASSUME NEW r \in Requests, NEW defaults \in UP!Defaults, UP!CreateDefaults(r, defaults)
      PROVE  ElementsOfPreferences'
  BY <1>4 DEF UP!CreateDefaults, ElementsOfPreferences
<1>5. ASSUME NEW r \in Requests, UP!Insert(r) PROVE ElementsOfPreferences'
  BY <1>5, ElementsOfPreferencesInsert
<1>6. ASSUME NEW r \in Requests, stored # Nothing, NEW key \in Keys,
             NEW value \in PreferenceValues, UP!SetPreference(r, key, value)
      PROVE  ElementsOfPreferences'
  BY <1>3, <1>6, PreferenceSet
<1>7. ASSUME NEW r \in Requests, stored # Nothing, NEW value \in PreferenceValues,
             UP!SetPreferences(r, value)
      PROVE  ElementsOfPreferences'
  BY <1>3, <1>7, PreferenceSetAll
<1>8. ASSUME NEW r \in Requests, stored # Nothing, NEW key \in Keys, UP!ResetPreference(r, key)
      PROVE  ElementsOfPreferences'
  BY <1>3, <1>8, PreferenceReset
<1>9. ASSUME NEW r \in Requests, stored # Nothing, UP!ResetAllPreferences(r)
      PROVE  ElementsOfPreferences'
  BY <1>3, <1>9, PreferenceResetAll
<1>10. ASSUME NEW r \in Requests, UP!Save(r) PROVE ElementsOfPreferences'
  BY <1>10, ElementsOfPreferencesSave
<1>11. ASSUME UNCHANGED <<stored, world, saves>>,
              \A s \in Requests : copy'[s] = copy[s] \/ copy'[s] = Nothing
       PROVE  ElementsOfPreferences'
  <2>1. stored' # Nothing => stored # Nothing
    BY <1>11
  <2>2. stored # Nothing => ElementsInv(UP!Arrays)'
    BY <1>11, ElementsLeft DEF ElementsOfPreferences
  <2> QED BY <2>1, <2>2 DEF ElementsOfPreferences
<1>12. ASSUME NEW r \in Requests, UP!AbortCopy(r) PROVE ElementsOfPreferences'
  <2>1. UNCHANGED <<stored, world, saves>> /\ copy' = [copy EXCEPT ![r] = Nothing]
    BY <1>12 DEF UP!AbortCopy
  <2>2. \A s \in Requests : copy'[s] = copy[s] \/ copy'[s] = Nothing
    BY <1>1, <2>1
  <2> QED BY <1>11, <2>1, <2>2
<1>13. CASE UNCHANGED UP!document
  <2>1. UNCHANGED <<stored, world, saves>> /\ UNCHANGED copy
    BY <1>13 DEF UP!document
  <2> QED BY <1>11, <2>1
<1> QED BY <1>4, <1>5, <1>6, <1>7, <1>8, <1>9, <1>10, <1>12, <1>13 DEF UP!Next

LEMMA ElementsOfPreferencesImply ==
    PreferenceInv /\ ElementsOfPreferences => UP!PreferencesKept
<1> SUFFICES ASSUME PreferenceInv, ElementsOfPreferences, stored # Nothing
             PROVE  /\ UP!IdsOf(stored) = world.added \ world.removed
                    /\ UP!Cardinality(UP!IdsOf(stored)) = Len(stored.preferences)
  BY DEF UP!PreferencesKept
<1>1. stored.preferences \in Seq(Keyed) /\ OneEach(stored.preferences)
  BY PreferenceList
<1>2. /\ UP!IdsOf(stored) = IdsIn(stored, UP!Arrays)
      /\ IdsIn(stored, UP!Arrays) = IdsOfList(stored.preferences)
  BY <1>1, PreferenceIds
<1>3. Cardinality(IdsOfList(stored.preferences)) = Len(stored.preferences)
  BY <1>1, CountedIds
<1>4. \A set : UP!Cardinality(set) = Cardinality(set)
  BY DEF Cardinality, UP!Cardinality, IsFiniteSet, UP!IsFiniteSet
<1>5. IdsIn(stored, UP!Arrays) = world.added \ world.removed
  BY DEF ElementsOfPreferences, ElementsInv
<1> QED BY <1>2, <1>3, <1>4, <1>5
=============================================================================
