----------------------------- MODULE Notification -----------------------------
(***************************************************************************)
(* models/Notification.ts: one notification, its deliveries by channel,    *)
(* and the status that the hook of the save derives from them.             *)
(*                                                                         *)
(* world.expired: its expiry date is past; marks: the statuses that some   *)
(* operation asked for.                                                    *)
(***************************************************************************)
EXTENDS MongooseDocument, SequencesExt

CONSTANT Channels \* channels notifications are delivered by, "IN_APP" among them

Statuses == {"PENDING", "SENT", "DELIVERED", "READ", "FAILED", "CANCELLED"}

Arrays == {"deliveries"}

Delivery == [channel : Channels, status : Statuses, retryCount : Nat]

Notification == [status : Statuses, deliveries : Seq(Delivery), version : Nat]

Pending(channel) == [channel |-> channel, status |-> "PENDING", retryCount |-> 0]

\* The place of the delivery that find returns, the first one of the channel.
FirstOf(d, channel) ==
    CHOOSE i \in DOMAIN d.deliveries :
        /\ d.deliveries[i].channel = channel
        /\ \A j \in 1..i-1 : d.deliveries[j].channel # channel

HasDelivery(d, channel) == \E i \in DOMAIN d.deliveries : d.deliveries[i].channel = channel

Some(d, status) == \E i \in DOMAIN d.deliveries : d.deliveries[i].status = status

All(d, status) == \A i \in DOMAIN d.deliveries : d.deliveries[i].status = status

-----------------------------------------------------------------------------
(* Faulty variants; none of them takes part in Spec. *)

\* A notification of which a part was sent counts as delivered.
DerivedEarly(d) ==
    IF Some(d, "READ") THEN [d EXCEPT !.status = "READ"]
    ELSE IF Some(d, "SENT") THEN [d EXCEPT !.status = "DELIVERED"]
    ELSE d

\* markAllAsRead takes cancelled notifications with it.
AllReadOfAny ==
    UpdateStored([stored EXCEPT !.status = "READ"], world)

-----------------------------------------------------------------------------
\* The hook that updates the overall status.
Derived(d) ==
    IF d.deliveries = <<>> THEN d
    ELSE IF Some(d, "READ") THEN [d EXCEPT !.status = "READ"]
    ELSE IF All(d, "DELIVERED") THEN [d EXCEPT !.status = "DELIVERED"]
    ELSE IF Some(d, "SENT") THEN [d EXCEPT !.status = "SENT"]
    ELSE IF All(d, "FAILED") THEN [d EXCEPT !.status = "FAILED"]
    ELSE d

\* The delivery of a channel gets a status, or is added with it. failed: one
\* more retry.
Marked(d, channel, status, failed) ==
    IF HasDelivery(d, channel)
    THEN [d EXCEPT !.deliveries[FirstOf(d, channel)].status = status,
                   !.deliveries[FirstOf(d, channel)].retryCount = @ + failed]
    ELSE [d EXCEPT !.deliveries = Append(@, [channel |-> channel, status |-> status,
                                             retryCount |-> failed])]

Do(r, mark, d) == Change(r, mark, Derived(d), {})

MarkAsRead(r) ==
    Do(r, "READ", IF HasDelivery(stored, "IN_APP")
                  THEN Marked([stored EXCEPT !.status = "READ"], "IN_APP", "READ", 0)
                  ELSE [stored EXCEPT !.status = "READ"])

MarkAsSent(r, channel) ==
    Do(r, "SENT", [Marked(stored, channel, "SENT", 0) EXCEPT
                      !.status = IF @ \in {"READ", "DELIVERED"} THEN @ ELSE "SENT"])

MarkAsDelivered(r, channel) ==
    Do(r, "DELIVERED", [Marked(stored, channel, "DELIVERED", 0) EXCEPT
                           !.status = IF @ = "READ" THEN @ ELSE "DELIVERED"])

\* The status becomes FAILED if all deliveries have failed; otherwise the hook
\* decides.
MarkAsFailed(r, channel) == Do(r, "FAILED", Marked(stored, channel, "FAILED", 1))

\* The list of channels is left out.
AddDelivery(r, channel) ==
    Do(r, "PENDING", IF HasDelivery(stored, channel) THEN stored
                     ELSE Marked(stored, channel, "PENDING", 0))

Cancel(r) ==
    Do(r, "CANCELLED",
       [stored EXCEPT !.status = "CANCELLED",
                      !.deliveries = [i \in DOMAIN @ |->
                          IF @[i].status = "PENDING" THEN [@[i] EXCEPT !.status = "CANCELLED"]
                          ELSE @[i]]])

Save(r) ==
    /\ copy[r] # Nothing
    /\ SaveCopy(r, Arrays, [world EXCEPT !.marks = @ \cup {copy[r].op}])

\* The database changes what is neither read nor cancelled.
Open == stored.status \notin {"READ", "CANCELLED"}

MarkExpired ==
    /\ Open
    /\ world.expired
    /\ UpdateStored([stored EXCEPT !.status = "CANCELLED"],
                    [world EXCEPT !.marks = @ \cup {"CANCELLED"}])

MarkAllAsRead ==
    /\ Open
    /\ UpdateStored([stored EXCEPT !.status = "READ",
                         !.deliveries = [i \in DOMAIN @ |->
                             IF @[i].channel = "IN_APP" THEN [@[i] EXCEPT !.status = "READ"]
                             ELSE @[i]]],
                    [world EXCEPT !.marks = @ \cup {"READ"}])

ExpiryDatePasses == WorldChanges([world EXCEPT !.expired = TRUE])

-----------------------------------------------------------------------------
\* A new notification has a delivery for each of its channels.
Init == /\ \E own \in SUBSET Channels :
               stored = [status |-> "PENDING",
                         deliveries |-> [i \in 1..Cardinality(own) |-> Pending(SetToSeq(own)[i])],
                         version |-> 0]
        /\ copy = NoCopies
        /\ world = [expired |-> FALSE, marks |-> {"PENDING"}]
        /\ saves = 0

Next == \/ \E r \in Requests :
               \/ MarkAsRead(r)
               \/ \E channel \in Channels :
                      \/ MarkAsSent(r, channel)
                      \/ MarkAsDelivered(r, channel)
                      \/ MarkAsFailed(r, channel)
                      \/ AddDelivery(r, channel)
               \/ Cancel(r)
               \/ Save(r)
               \/ AbortCopy(r)
        \/ MarkExpired
        \/ MarkAllAsRead
        \/ ExpiryDatePasses

Spec == Init /\ [][Next]_document

-----------------------------------------------------------------------------
\* Every variable has its type.
TypeOK == /\ stored \in Notification
          /\ CopiesTyped(Notification)
          /\ world.expired \in BOOLEAN
          /\ world.marks \subseteq Statuses
          /\ saves \in 0..MaxSaves

\* The overall status, which methods, hook and updates by the database write in
\* turn from older and newer copies, is one that was asked for of the
\* notification or of one of its deliveries.
StatusWasMarked == stored.status \in world.marks

\* A failed delivery was counted, and a delivery was not counted more often than
\* saves happened: a copy adds one to the count that it knows.
FailuresCounted ==
    \A i \in DOMAIN stored.deliveries :
        LET d == stored.deliveries[i]
        IN  /\ d.status = "FAILED" => d.retryCount > 0
            /\ d.retryCount <= saves

\* What was read becomes unread only by a save whose copy shows no delivery as
\* read: an older copy, a late report about the delivery in the app, or any save
\* of a notification that is not delivered in the app. (markAsRead is one of them:
\* the hook takes the status away again that the method has set.)
UnreadOnlyWithoutReadDelivery ==
    (stored.status = "READ" /\ stored'.status # "READ")
      => \E r \in Requests : /\ copy[r] # Nothing
                             /\ copy'[r] = Nothing
                             /\ ~ Some(copy[r].new, "READ")
=============================================================================
