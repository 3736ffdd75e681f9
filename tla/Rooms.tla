--------------------------------- MODULE Rooms ---------------------------------
(***************************************************************************)
(* components/realtime/RealtimeUpdates.ts: the rooms that sockets join,    *)
(* and the two maps in which one process keeps them by user. A user may    *)
(* have several sockets; the maps do not tell them apart. Every handler    *)
(* runs to its end without an await.                                       *)
(***************************************************************************)
EXTENDS FiniteSets, Functions

CONSTANTS Sockets, Users, RoomNames

VARIABLES
    sockets,         \* the connected sockets: the user and the rooms of each
    userRooms,       \* Map: the rooms of a user
    roomSubscribers  \* Map: the users of a room

vars == <<sockets, userRooms, roomSubscribers>>

-----------------------------------------------------------------------------
Connected == DOMAIN sockets

UserOf(s) == sockets[s].user

RoomsOf(u) == IF u \in DOMAIN userRooms THEN userRooms[u] ELSE {}

SubscribersOf(room) ==
    IF room \in DOMAIN roomSubscribers THEN roomSubscribers[room] ELSE {}

\* The map with the value of one key changed, or the key deleted if nothing is left.
Put(map, key, value) == [k \in DOMAIN map \cup {key} |-> IF k = key THEN value ELSE map[k]]

PutOrDelete(map, key, value) ==
    IF value = {} THEN Restrict(map, DOMAIN map \ {key}) ELSE Put(map, key, value)

Unsubscribed(u, rooms) ==
    LET left == [room \in DOMAIN roomSubscribers |->
                    IF room \in rooms THEN roomSubscribers[room] \ {u}
                    ELSE roomSubscribers[room]]
    IN  Restrict(left, {room \in DOMAIN left : left[room] # {}})

\* No other socket of the user is connected.
OnlySocket(s) == \A t \in Connected \ {s} : UserOf(t) # UserOf(s)

-----------------------------------------------------------------------------
(* Faulty variants; none of them takes part in Spec. *)

\* The user is deleted from the first map only.
DisconnectUserOnly(s) ==
    /\ s \in Connected
    /\ sockets' = Restrict(sockets, Connected \ {s})
    /\ userRooms' = Restrict(userRooms, DOMAIN userRooms \ {UserOf(s)})
    /\ UNCHANGED roomSubscribers

\* A request to leave one room takes the user's whole list.
UnsubscribeAll(s, rooms) ==
    /\ s \in Connected
    /\ userRooms' = Restrict(userRooms, DOMAIN userRooms \ {UserOf(s)})
    /\ roomSubscribers' = Unsubscribed(UserOf(s), RoomsOf(UserOf(s)))
    /\ sockets' = [sockets EXCEPT ![s].rooms = @ \ rooms]

-----------------------------------------------------------------------------
Connect(s, u) ==
    /\ s \notin Connected
    /\ sockets' = Put(sockets, s, [user |-> u, rooms |-> {}])
    /\ UNCHANGED <<userRooms, roomSubscribers>>

\* The list of a user is stored even if it is empty.
Subscribe(s, rooms) ==
    /\ s \in Connected
    /\ sockets' = [sockets EXCEPT ![s].rooms = @ \cup rooms]
    /\ userRooms' = Put(userRooms, UserOf(s), RoomsOf(UserOf(s)) \cup rooms)
    /\ roomSubscribers' = [room \in DOMAIN roomSubscribers \cup rooms |->
                              IF room \in rooms THEN SubscribersOf(room) \cup {UserOf(s)}
                              ELSE roomSubscribers[room]]

\* Without a list of the user nothing is done, and the socket stays in its rooms.
Unsubscribe(s, rooms) ==
    /\ s \in Connected
    /\ UserOf(s) \in DOMAIN userRooms
    /\ sockets' = [sockets EXCEPT ![s].rooms = @ \ rooms]
    /\ userRooms' = PutOrDelete(userRooms, UserOf(s), userRooms[UserOf(s)] \ rooms)
    /\ roomSubscribers' = Unsubscribed(UserOf(s), rooms)

\* socket.io has taken the socket out of its rooms; all rooms of its user go.
Disconnect(s) ==
    /\ s \in Connected
    /\ sockets' = Restrict(sockets, Connected \ {s})
    /\ userRooms' = Restrict(userRooms, DOMAIN userRooms \ {UserOf(s)})
    /\ roomSubscribers' = Unsubscribed(UserOf(s), RoomsOf(UserOf(s)))

-----------------------------------------------------------------------------
Init == /\ sockets = <<>>
        /\ userRooms = <<>>
        /\ roomSubscribers = <<>>

Next == \E s \in Sockets :
            \/ \E u \in Users : Connect(s, u)
            \/ \E rooms \in SUBSET RoomNames : Subscribe(s, rooms) \/ Unsubscribe(s, rooms)
            \/ Disconnect(s)

Spec == Init /\ [][Next]_vars

-----------------------------------------------------------------------------
\* Every variable has its type.
TypeOK ==
    /\ Connected \subseteq Sockets
    /\ \A s \in Connected : sockets[s] \in [user : Users, rooms : SUBSET RoomNames]
    /\ DOMAIN userRooms \subseteq Users
    /\ \A u \in DOMAIN userRooms : userRooms[u] \subseteq RoomNames
    /\ DOMAIN roomSubscribers \subseteq RoomNames
    /\ \A room \in DOMAIN roomSubscribers : roomSubscribers[room] \subseteq Users

\* The two maps are the inverse of each other, no room is kept without users, and
\* a room that is listed for a user is one that a socket of the user is in.
MapsAgree ==
    /\ \A u \in Users, room \in RoomNames :
          room \in RoomsOf(u) <=> u \in SubscribersOf(room)
    /\ \A room \in DOMAIN roomSubscribers : roomSubscribers[room] # {}
    /\ \A u \in DOMAIN userRooms : \A room \in userRooms[u] :
          \E s \in Connected : UserOf(s) = u /\ room \in sockets[s].rooms

\* A socket is in a room that is not listed for its user.
Unlisted(s, room) == room \in sockets[s].rooms /\ room \notin RoomsOf(UserOf(s))

\* A room that a socket is in is taken from the list only by another socket of the
\* user, that asked to leave it or disconnected. (The first one is told of nothing,
\* and when the list is gone it cannot leave.)
UnlistedOnlyByOtherSocket ==
    \A s \in Connected : \A room \in sockets[s].rooms :
        (~ Unlisted(s, room) /\ s \in DOMAIN sockets' /\ Unlisted(s, room)') => ~ OnlySocket(s)
=============================================================================
