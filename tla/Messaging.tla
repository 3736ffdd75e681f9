------------------------------- MODULE Messaging -------------------------------
(***************************************************************************)
(* Messages between users, in three parts. models/Messaging.ts, a message: *)
(* its receipts, its status and its soft deletion; world.delivered and     *)
(* world.read are the users whose receipts were saved, world.deleted tells *)
(* that a deletion was. The same file, a conversation: its participants,   *)
(* its archive and its last message; world.joined are the users whose      *)
(* addition was saved.                                                     *)
(*                                                                         *)
(* models/Message.ts: a message from one user to another, with reactions;  *)
(* its queries pass over deleted messages, so that no method starts on     *)
(* one. world.reacted: the users whose reactions were saved.               *)
(***************************************************************************)
EXTENDS MongooseDocument, Functions

CONSTANTS
    Users,      \* recipients, participants, those who react
    Reactions   \* of a user to a message

-----------------------------------------------------------------------------
(* Messages. *)

MessageStatuses == {"SENT", "DELIVERED", "READ", "DELETED"}

MessageArrays == {"deliveredTo", "readBy"}

Message == [status : MessageStatuses, deliveredTo : Seq(Users), readBy : Seq(Users),
            deletedAt : BOOLEAN, version : Nat]

-----------------------------------------------------------------------------
(* Faulty variants; none of them takes part in MessageSpec. *)

\* The list of readers is assigned instead of pushed to, and each reader
\* replaces the one before.
ReadLast(r, u) ==
    Change(r, "markAsRead", [stored EXCEPT !.readBy = <<u>>, !.status = "READ"], {"readBy"})

\* A receipt sets the status whether it is new or not.
DeliveredAgain(r, u) ==
    Change(r, "markAsDelivered",
           [stored EXCEPT !.status = "DELIVERED",
                          !.deliveredTo = IF u \in Range(@) THEN @ ELSE Append(@, u)], {})

-----------------------------------------------------------------------------
SoftDelete(r) ==
    Change(r, "softDelete", [stored EXCEPT !.status = "DELETED", !.deletedAt = TRUE], {})

\* Only the first receipt of a user sets the status, whatever the status is.
MarkAsDelivered(r, u) ==
    Change(r, "markAsDelivered",
           IF u \in Range(stored.deliveredTo) THEN stored
           ELSE [stored EXCEPT !.deliveredTo = Append(@, u), !.status = "DELIVERED"], {})

MarkAsRead(r, u) ==
    Change(r, "markAsRead",
           IF u \in Range(stored.readBy) THEN stored
           ELSE [stored EXCEPT !.readBy = Append(@, u), !.status = "READ"], {})

NewIn(q, a) == Range(Pushed(q, a))

SaveMessage(r) ==
    /\ copy[r] # Nothing
    /\ SaveCopy(r, MessageArrays,
                [delivered |-> world.delivered \cup NewIn(copy[r], "deliveredTo"),
                 read |-> world.read \cup NewIn(copy[r], "readBy"),
                 deleted |-> world.deleted \/ copy[r].op = "softDelete"])

MessageInit ==
    /\ stored = [status |-> "SENT", deliveredTo |-> <<>>, readBy |-> <<>>,
                 deletedAt |-> FALSE, version |-> 0]
    /\ copy = NoCopies
    /\ world = [delivered |-> {}, read |-> {}, deleted |-> FALSE]
    /\ saves = 0

MessageNext ==
    \E r \in Requests :
        \/ SoftDelete(r)
        \/ \E u \in Users : MarkAsDelivered(r, u) \/ MarkAsRead(r, u)
        \/ SaveMessage(r)
        \/ AbortCopy(r)

MessageSpec == MessageInit /\ [][MessageNext]_document

-----------------------------------------------------------------------------
\* Every variable has its type.
MessageTypeOK ==
    /\ stored \in Message
    /\ CopiesTyped(Message)
    /\ world \in [delivered : SUBSET Users, read : SUBSET Users, deleted : BOOLEAN]
    /\ saves \in 0..MaxSaves

\* No receipt is lost. Receipts of one user that overlap are both stored: he is in
\* the list at most once for each request slot.
ReceiptsKept ==
    /\ Range(stored.deliveredTo) = world.delivered
    /\ Range(stored.readBy) = world.read
    /\ \A u \in Users :
           Cardinality({i \in DOMAIN stored.readBy : stored.readBy[i] = u})
               <= Cardinality(Requests)

\* The status has its reason among the receipts, and the mark of a deletion is
\* never taken back, whatever receipts do to the status.
StatusOfReceipts ==
    /\ stored.status = "DELIVERED" => stored.deliveredTo # <<>>
    /\ stored.status = "READ" => stored.readBy # <<>>
    /\ world.deleted => stored.deletedAt
    /\ stored.status = "DELETED" => stored.deletedAt

\* A deleted message is found again only after the first receipt of one of its
\* users: receipts do not ask for the status.
ReappearsOnlyByFirstReceipt ==
    (stored.status = "DELETED" /\ stored'.status # "DELETED")
      => \/ Len(stored'.deliveredTo) > Len(stored.deliveredTo)
         \/ Len(stored'.readBy) > Len(stored.readBy)

-----------------------------------------------------------------------------
(* Conversations. *)

ConversationArrays == {"participants"}

\* The date a method writes; 0 is no date. No two saves have one date.
Now == saves + 1

Participant == [user : Users, isActive : BOOLEAN, leftAt : Nat]

Conversation == [participants : Seq(Participant), isArchived : BOOLEAN, archivedAt : Nat,
                 lastMessage : Nat, lastMessageAt : Nat, version : Nat]

Joined(u) == [user |-> u, isActive |-> TRUE, leftAt |-> 0]

\* The places of a user; find returns the first of them.
PlacesOf(d, u) == {i \in DOMAIN d.participants : d.participants[i].user = u}

FirstPlace(d, u) == CHOOSE i \in PlacesOf(d, u) : \A j \in PlacesOf(d, u) : i <= j

-----------------------------------------------------------------------------
(* Faulty variants; none of them takes part in ConversationSpec. *)

\* addParticipant does not look for the user.
AddAlways(r, u) ==
    Change(r, "addParticipant", [stored EXCEPT !.participants = Append(@, Joined(u))], {})

\* unarchive keeps the mark.
UnarchiveDateOnly(r) == Change(r, "unarchive", [stored EXCEPT !.archivedAt = 0], {})

-----------------------------------------------------------------------------
AddParticipant(r, u) ==
    Change(r, "addParticipant",
           IF PlacesOf(stored, u) = {}
           THEN [stored EXCEPT !.participants = Append(@, Joined(u))]
           ELSE [stored EXCEPT !.participants[FirstPlace(stored, u)] =
                    IF @.isActive THEN @ ELSE Joined(u)], {})

RemoveParticipant(r, u) ==
    Change(r, "removeParticipant",
           IF PlacesOf(stored, u) = {} THEN stored
           ELSE [stored EXCEPT !.participants[FirstPlace(stored, u)].isActive = FALSE,
                               !.participants[FirstPlace(stored, u)].leftAt = Now], {})

Archive(r) == Change(r, "archive", [stored EXCEPT !.isArchived = TRUE, !.archivedAt = Now], {})

Unarchive(r) == Change(r, "unarchive", [stored EXCEPT !.isArchived = FALSE, !.archivedAt = 0], {})

\* The message and its date (and the preview, which is left out); messages are
\* numbered.
UpdateLastMessage(r) ==
    Change(r, "updateLastMessage",
           [stored EXCEPT !.lastMessage = Now, !.lastMessageAt = Now], {})

SaveConversation(r) ==
    /\ copy[r] # Nothing
    /\ SaveCopy(r, ConversationArrays,
                [world EXCEPT !.joined =
                    @ \cup {copy[r].new.participants[i].user :
                                i \in DOMAIN copy[r].new.participants}])

\* The participants a conversation is created with; the schema asks for none.
FirstLists == {<<>>} \cup {<<Joined(u)>> : u \in Users}

ConversationInit ==
    /\ \E list \in FirstLists :
           /\ stored = [participants |-> list, isArchived |-> FALSE, archivedAt |-> 0,
                        lastMessage |-> 0, lastMessageAt |-> 0, version |-> 0]
           /\ world = [joined |-> {list[i].user : i \in DOMAIN list}]
    /\ copy = NoCopies
    /\ saves = 0

ConversationNext ==
    \E r \in Requests :
        \/ \E u \in Users : AddParticipant(r, u) \/ RemoveParticipant(r, u)
        \/ Archive(r)
        \/ Unarchive(r)
        \/ UpdateLastMessage(r)
        \/ SaveConversation(r)
        \/ AbortCopy(r)

ConversationSpec == ConversationInit /\ [][ConversationNext]_document

-----------------------------------------------------------------------------
\* Every variable has its type.
ConversationTypeOK ==
    /\ stored \in Conversation
    /\ CopiesTyped(Conversation)
    /\ world.joined \subseteq Users
    /\ saves \in 0..MaxSaves

\* Every user who joined is a participant, active or not, once for each request
\* slot at most: additions that overlap each add him.
ParticipantsKept ==
    \A u \in Users :
        /\ u \in world.joined <=> PlacesOf(stored, u) # {}
        /\ Cardinality(PlacesOf(stored, u)) <= Cardinality(Requests)

\* The last message is the one of its date, whichever of two requests came last.
LastMessageDated == stored.lastMessage = stored.lastMessageAt

Dated == stored.isArchived => stored.archivedAt # 0

\* An archived conversation has the date, until it is taken from the archive by a
\* save whose copy was not there but had a date: two more archivals, one of which
\* overlapped an earlier removal, have to come in between.
DateLostOnlyByOverlap ==
    Dated /\ ~ Dated' =>
       \E r \in Requests : /\ copy[r] # Nothing
                           /\ copy'[r] = Nothing
                           /\ copy[r].op = "unarchive"
                           /\ ~ copy[r].old.isArchived
                           /\ copy[r].old.archivedAt # 0

\* A participant who left is active only after an addition, or from a save whose
\* copy did not know him.
ActiveAgainOnlyByAddition ==
    \A i \in DOMAIN stored.participants :
       (~ stored.participants[i].isActive /\ stored'.participants[i].isActive)
         => \E r \in Requests : /\ copy[r] # Nothing
                                /\ copy'[r] = Nothing
                                /\ copy[r].op = "addParticipant"

-----------------------------------------------------------------------------
(* Messages of models/Message.ts. *)

DirectArrays == {"reactions"}

Reaction == [user : Users, type : Reactions]

DirectMessage == [delivered : BOOLEAN, read : BOOLEAN, readAt : BOOLEAN,
                  reactions : Seq(Reaction), deletedAt : BOOLEAN, version : Nat]

ReactionsOf(d, u) == {i \in DOMAIN d.reactions : d.reactions[i].user = u}

\* The reaction that find returns.
FirstReaction(d, u) == CHOOSE i \in ReactionsOf(d, u) : \A j \in ReactionsOf(d, u) : i <= j

\* Faulty variant of Find: the middleware of findOne is missing.
FindAny(r, op, d) == Change(r, op, d, {})

\* findById: the middlewares of find and findOne.
Find(r, op, d) == ~ stored.deletedAt /\ Change(r, op, d, {})

-----------------------------------------------------------------------------
(* A faulty variant, which takes no part in DirectSpec. *)

\* Every reaction is added, whoever it is of.
ReactAlways(r, u, type) ==
    Find(r, "addReaction",
         [stored EXCEPT !.reactions = Append(@, [user |-> u, type |-> type])])

-----------------------------------------------------------------------------
MarkDirectAsDelivered(r) == Find(r, "markAsDelivered", [stored EXCEPT !.delivered = TRUE])

MarkDirectAsRead(r) == Find(r, "markAsRead", [stored EXCEPT !.read = TRUE, !.readAt = TRUE])

SoftDeleteDirect(r) == Find(r, "softDelete", [stored EXCEPT !.deletedAt = TRUE])

AddReaction(r, u, type) ==
    Find(r, "addReaction",
         IF ReactionsOf(stored, u) # {}
         THEN [stored EXCEPT !.reactions[FirstReaction(stored, u)].type = type]
         ELSE [stored EXCEPT !.reactions = Append(@, [user |-> u, type |-> type])])

SaveDirect(r) ==
    /\ copy[r] # Nothing
    /\ SaveCopy(r, DirectArrays,
                [reacted |-> world.reacted \cup {copy[r].new.reactions[i].user :
                                                    i \in DOMAIN copy[r].new.reactions}])

\* A message that was deleted is not found any more: the module goes on with the
\* next one of the conversation.
NextMessage ==
    /\ stored.deletedAt
    /\ copy = NoCopies
    /\ stored' = [delivered |-> FALSE, read |-> FALSE, readAt |-> FALSE, reactions |-> <<>>,
                  deletedAt |-> FALSE, version |-> 0]
    /\ world' = [reacted |-> {}]
    /\ saves' = 0
    /\ UNCHANGED copy

DirectInit ==
    /\ stored = [delivered |-> FALSE, read |-> FALSE, readAt |-> FALSE, reactions |-> <<>>,
                 deletedAt |-> FALSE, version |-> 0]
    /\ copy = NoCopies
    /\ world = [reacted |-> {}]
    /\ saves = 0

DirectNext ==
    \/ \E r \in Requests :
           \/ MarkDirectAsDelivered(r)
           \/ MarkDirectAsRead(r)
           \/ SoftDeleteDirect(r)
           \/ \E u \in Users, type \in Reactions : AddReaction(r, u, type)
           \/ SaveDirect(r)
           \/ AbortCopy(r)
    \/ NextMessage

DirectSpec == DirectInit /\ [][DirectNext]_document

-----------------------------------------------------------------------------
\* Every variable has its type.
DirectTypeOK ==
    /\ stored \in DirectMessage
    /\ CopiesTyped(DirectMessage)
    /\ world.reacted \subseteq Users
    /\ saves \in 0..MaxSaves

\* Every user who reacted has a reaction, and at most one for each request slot:
\* first reactions that overlap are all added.
ReactionsKept ==
    \A u \in Users : /\ u \in world.reacted <=> ReactionsOf(stored, u) # {}
                     /\ Cardinality(ReactionsOf(stored, u)) <= Cardinality(Requests)

\* A deleted message changes only by a save that had found it before.
DeletedChangesByOlderCopy ==
    (stored.deletedAt /\ stored'.deletedAt /\ stored' # stored)
      => \E r \in Requests : /\ copy[r] # Nothing
                             /\ copy'[r] = Nothing
                             /\ ~ copy[r].old.deletedAt
=============================================================================
