---------------------------- MODULE ContactDetails ----------------------------
(***************************************************************************)
(* models/ContactDetails.ts, in two parts that share no path of a          *)
(* document. Verification and status are those of one contact, as in       *)
(* MongooseDocument; preferences and the number of attempts are left out.  *)
(*                                                                         *)
(* The mark of the primary contact is about the contacts of one entity by  *)
(* one method (say, its e-mail addresses): there stored[c] says that       *)
(* contact c is stored as primary. Every save of a copy that is primary    *)
(* looks for another primary contact and saves it as not primary before    *)
(* the copy itself is saved; other requests run between the three calls of *)
(* the database.                                                           *)
(***************************************************************************)
EXTENDS MongooseDocument

CONSTANT Contacts   \* the contacts of the entity

(* Verification and status. *)

\* UNVERIFIED, VERIFIED and DO_NOT_CONTACT have methods; ACTIVE stands for every
\* other status.
Statuses == {"ACTIVE", "UNVERIFIED", "VERIFIED", "DO_NOT_CONTACT"}

\* code: the number of the verification code; 0 is none.
Contact == [status : Statuses, isVerified : BOOLEAN, allowCommunication : BOOLEAN,
            code : Nat, version : Nat]

\* A faulty variant of Verified: the code stays after it was used.
VerifiedByCode(d) == [d EXCEPT !.isVerified = TRUE, !.status = "VERIFIED"]

Verified(d) == [d EXCEPT !.isVerified = TRUE, !.status = "VERIFIED", !.code = 0]

-----------------------------------------------------------------------------
\* Codes are numbered by the saves before them.
GenerateVerificationCode(r) ==
    Change(r, "generate", [stored EXCEPT !.code = saves + 1, !.status = "UNVERIFIED"], {})

\* verify by code: the wrong code is a save that counts the attempt.
VerifyByCode(r, right) ==
    /\ stored.status # "VERIFIED"
    /\ stored.code # 0
    /\ ~ world.codesOver
    /\ Change(r, "verify", IF right THEN Verified(stored) ELSE stored, {})

\* verify by another method
Verify(r) ==
    /\ stored.status # "VERIFIED"
    /\ Change(r, "verify", Verified(stored), {})

UpdateStatus(r, status) == Change(r, "updateStatus", [stored EXCEPT !.status = status], {})

OptOut(r) ==
    Change(r, "optOut",
           [stored EXCEPT !.allowCommunication = FALSE, !.status = "DO_NOT_CONTACT"], {})

SaveVerification(r) == copy[r] # Nothing /\ SaveCopy(r, {}, world)

CodesAreOver == WorldChanges([codesOver |-> TRUE])

-----------------------------------------------------------------------------
VerificationInit ==
    /\ stored = [status |-> "ACTIVE", isVerified |-> FALSE, allowCommunication |-> TRUE,
                 code |-> 0, version |-> 0]
    /\ copy = NoCopies
    /\ world = [codesOver |-> FALSE]
    /\ saves = 0

VerificationNext ==
    \/ \E r \in Requests :
           \/ GenerateVerificationCode(r)
           \/ \E right \in BOOLEAN : VerifyByCode(r, right)
           \/ Verify(r)
           \/ \E status \in Statuses : UpdateStatus(r, status)
           \/ OptOut(r)
           \/ SaveVerification(r)
           \/ AbortCopy(r)
    \/ CodesAreOver

VerificationSpec == VerificationInit /\ [][VerificationNext]_document

-----------------------------------------------------------------------------
\* Every variable has its type.
VerificationTypeOK ==
    /\ stored \in Contact
    /\ CopiesTyped(Contact)
    /\ saves \in 0..MaxSaves

\* A contact is VERIFIED with a code that is still open only if the code was made or
\* the status set by a request that read the contact before it was verified, or after
\* which it was; a status that is set as such asks for nothing.
OpenCodeOnlyByOverlap ==
    (/\ ~ (stored.status = "VERIFIED" /\ stored.code # 0)
     /\ stored'.status = "VERIFIED" /\ stored'.code # 0)
      => \E r \in Requests : /\ copy[r] # Nothing
                             /\ copy'[r] = Nothing
                             /\ copy[r].op = "updateStatus" \/ copy[r].old # stored

-----------------------------------------------------------------------------
(* The mark of the primary contact. *)

Primaries == {c \in Contacts : stored[c]}

\* A faulty variant of OtherPrimaries: the query does not leave out the contact.
AnyPrimaries(c) == Primaries

\* The query of the hook.
OtherPrimaries(c) == Primaries \ {c}

-----------------------------------------------------------------------------
\* The copy of one contact. read: the number of saves it has seen, of its own among
\* them; other, left: what the hook found, and what else it could have.
PrimaryCopy == [id : Contacts, old : BOOLEAN, new : BOOLEAN, read : Nat,
                step : {"find", "demote", "save"}, other : Contacts \cup {Nothing},
                left : SUBSET Contacts]

\* A method of the model on a copy, up to the first await of its save.
Begin(r, c, new) ==
    /\ copy[r] = Nothing
    /\ copy' = [copy EXCEPT ![r] =
                   [id |-> c, old |-> stored[c], new |-> new, read |-> saves,
                    step |-> IF new THEN "find" ELSE "save", other |-> Nothing,
                    left |-> {}]]
    /\ UNCHANGED <<stored, world, saves>>

MarkAsPrimary(r, c) == Begin(r, c, TRUE)

\* Every other method: verify, updateStatus, optOut ...
UpdateOther(r, c) == Begin(r, c, stored[c])

\* The hook: findOne ...
FindOther(r) ==
    /\ copy[r] # Nothing
    /\ copy[r].step = "find"
    /\ \/ /\ OtherPrimaries(copy[r].id) = {}
          /\ copy' = [copy EXCEPT ![r].step = "save"]
       \/ \E c \in OtherPrimaries(copy[r].id) :
             copy' = [copy EXCEPT ![r].step = "demote", ![r].other = c,
                                  ![r].left = OtherPrimaries(copy[r].id) \ {c}]
    /\ UNCHANGED <<stored, world, saves>>

\* ... and the save of what it found, of which one path has changed
SaveOther(r) ==
    /\ copy[r] # Nothing
    /\ copy[r].step = "demote"
    /\ saves < MaxSaves
    /\ stored' = [stored EXCEPT ![copy[r].other] = FALSE]
    /\ copy' = [copy EXCEPT ![r].step = "save", ![r].read = @ + 1]
    /\ saves' = saves + 1
    /\ UNCHANGED world

\* The mark is sent if it differs from the copy as it was read.
SaveContact(r) ==
    /\ copy[r] # Nothing
    /\ copy[r].step = "save"
    /\ saves < MaxSaves
    /\ stored' = [stored EXCEPT ![copy[r].id] = IF copy[r].old = copy[r].new THEN @
                                                   ELSE copy[r].new]
    /\ copy' = [copy EXCEPT ![r] = Nothing]
    /\ saves' = saves + 1
    /\ UNCHANGED world

-----------------------------------------------------------------------------
PrimaryInit == /\ stored = [c \in Contacts |-> FALSE]
               /\ copy = NoCopies
               /\ world = Nothing
               /\ saves = 0

PrimaryNext ==
    \E r \in Requests :
        \/ \E c \in Contacts : MarkAsPrimary(r, c) \/ UpdateOther(r, c)
        \/ FindOther(r)
        \/ SaveOther(r)
        \/ SaveContact(r)
        \/ AbortCopy(r)

PrimarySpec == PrimaryInit /\ [][PrimaryNext]_document

-----------------------------------------------------------------------------
\* Every variable has its type.
PrimaryTypeOK ==
    /\ stored \in [Contacts -> BOOLEAN]
    /\ \A r \in Requests : copy[r] # Nothing => copy[r] \in PrimaryCopy
    /\ saves \in 0..MaxSaves

\* Other contacts were saved since request slot r read its copy.
Overlapped(r) == copy[r].read < saves

\* ContactDetails.ts:328, "Ensure only one primary contact per entity and method": a
\* second contact becomes primary only by a save that another one overlapped, or
\* whose hook, which takes the mark from one contact, had left others with it.
SecondPrimaryOnlyByOverlap ==
    (Cardinality(Primaries) <= 1 /\ Cardinality(Primaries') > 1)
      => \E r \in Requests : /\ copy[r] # Nothing
                             /\ copy'[r] = Nothing
                             /\ Overlapped(r) \/ copy[r].left # {}

\* A save of a contact that is primary in its copy, whatever it changes, leaves the
\* entity without a primary contact only if another save overlapped it: it may then
\* have taken the mark from the contact that took it from this one.
NonePrimaryOnlyByOverlap ==
    \A r \in Requests :
       (/\ copy[r] # Nothing /\ copy'[r] = Nothing /\ saves' # saves
        /\ copy[r].new /\ Primaries' = {})
         => Overlapped(r)
=============================================================================
