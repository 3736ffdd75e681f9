---------------------------- MODULE ClientContacts ----------------------------
(***************************************************************************)
(* services/client.service.ts: the contacts of one client. addContact,     *)
(* updateContact and deleteContact read the document, change the list and  *)
(* hand the whole document to findByIdAndUpdate, which compares no         *)
(* version: what others have changed meanwhile is overwritten.             *)
(*                                                                         *)
(* A contact is its _id. updateContact spreads a subdocument of Mongoose,  *)
(* whose _id is not its own property: the contact it stores is a new one.  *)
(***************************************************************************)
EXTENDS MongooseDocument

\* The request that made the _id, and the number of changes it had seen.
Ids == [slot : Requests, at : Nat]

\* name: what update changes besides the contacts.
Client == [contacts : Seq(Ids), name : Nat]

IdsOf(d) == {d.contacts[i] : i \in DOMAIN d.contacts}

NewId(r) == [slot |-> r, at |-> saves]

PlaceOf(id) == CHOOSE i \in DOMAIN stored.contacts : stored.contacts[i] = id

Without(s, i) == SubSeq(s, 1, i - 1) \o SubSeq(s, i + 1, Len(s))

-----------------------------------------------------------------------------
(* A faulty variant; it takes no part in Spec. *)

\* The last contact is deleted, whichever is asked for.
DeleteLast(r, id) ==
    Change(r, id, [stored EXCEPT !.contacts = SubSeq(@, 1, Len(@) - 1)], {})

-----------------------------------------------------------------------------
\* The op of a copy is the contact that is taken from the list.
AddContact(r) ==
    Change(r, Nothing, [stored EXCEPT !.contacts = Append(@, NewId(r))], {})

UpdateContact(r, id) ==
    Change(r, id, [stored EXCEPT !.contacts[PlaceOf(id)] = NewId(r)], {})

\* filter: _ids differ, so that it leaves out one contact. For an _id that is not
\* there (Nothing) it leaves out none, and the document is written all the same.
DeleteContact(r, id) ==
    Change(r, id, IF id = Nothing THEN stored
                  ELSE [stored EXCEPT !.contacts = Without(@, PlaceOf(id))], {})

\* findByIdAndUpdate with the whole document
WriteBack(r) ==
    /\ copy[r] # Nothing
    /\ stored # Nothing
    /\ saves < MaxSaves
    /\ stored' = copy[r].new
    /\ copy' = [copy EXCEPT ![r] = Nothing]
    /\ saves' = saves + 1
    /\ UNCHANGED world

\* update of other fields
Update == UpdateStored([stored EXCEPT !.name = saves + 1], world)

Delete == UpdateStored(Nothing, world)

\* findOne throws.
NotFound == stored = Nothing /\ UNCHANGED document

-----------------------------------------------------------------------------
Init == /\ stored = [contacts |-> <<>>, name |-> 0]
        /\ copy = NoCopies
        /\ world = Nothing
        /\ saves = 0

Next == \/ \E r \in Requests :
               \/ AddContact(r)
               \/ \E id \in (IF stored = Nothing THEN {} ELSE IdsOf(stored)) :
                      UpdateContact(r, id) \/ DeleteContact(r, id)
               \/ DeleteContact(r, Nothing)
               \/ WriteBack(r)
               \/ AbortCopy(r)
        \/ Update
        \/ Delete
        \/ NotFound

Spec == Init /\ [][Next]_document

-----------------------------------------------------------------------------
\* Every variable has its type.
TypeOK == /\ stored \in Client \cup {Nothing}
          /\ CopiesTyped(Client)
          /\ \A r \in Requests : copy[r] # Nothing => copy[r].op \in Ids \cup {Nothing}
          /\ saves \in 0..MaxSaves

\* A contact leaves the list by the request that deletes or changes it, or is lost
\* to one that read the client before it was there; and a contact or a name comes
\* back only with a document that was read before. No step but these loses anything.
LostOnlyByOverlap ==
    (stored # Nothing /\ stored' # Nothing)
      => /\ \A id \in IdsOf(stored) \ IdsOf(stored') :
               \E r \in Requests : /\ copy[r] # Nothing
                                   /\ copy'[r] = Nothing
                                   /\ copy[r].op = id \/ id \notin IdsOf(copy[r].old)
         /\ \A id \in IdsOf(stored') \ IdsOf(stored) :
               \E r \in Requests : /\ copy[r] # Nothing
                                   /\ copy'[r] = Nothing
                                   /\ copy[r].old = stored => id = [slot |-> r, at |-> id.at]
         /\ stored'.name < stored.name =>
               \E r \in Requests : copy[r] # Nothing /\ copy[r].old.name < stored.name
=============================================================================
