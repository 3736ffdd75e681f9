---------------------------- MODULE ServicesProofs ----------------------------
(***************************************************************************)
(* What is proved about the services that share nothing: that each of them *)
(* keeps its invariant, and so the composition what it states of them.     *)
(*                                                                         *)
(* The offers and seven of the models are those of ModelProofs, the        *)
(* payrolls those of PayrollProofs. Here are, by the same argument, the    *)
(* models whose paths are fields (contact submissions, generated documents *)
(* and reports, feedback, notifications, messages and conversations, the   *)
(* verification of contacts, subscriptions); the models of which several   *)
(* documents are written together (payment methods, primary contacts, the  *)
(* contacts of a client); and the rooms, the queue of analytics and the    *)
(* caches. Then all of them together.                                      *)
(***************************************************************************)
EXTENDS ModelProofs

-----------------------------------------------------------------------------
(***************************************************************************)
(* Rooms. Every handler changes both maps alike.                           *)
(***************************************************************************)
\* What a map has at a key.
At(map, k) == IF k \in DOMAIN map THEN map[k] ELSE {}

LEMMA RestrictChanges ==
    ASSUME NEW map, NEW key, NEW new, new = RM!Restrict(map, DOMAIN map \ {key})
    PROVE  /\ DOMAIN new = DOMAIN map \ {key}
           /\ \A k : At(new, k) = IF k = key THEN {} ELSE At(map, k)
BY DEF At, RM!Restrict

LEMMA PutOrDeleteChanges ==
    ASSUME NEW map, NEW key, NEW value, NEW new, new = RM!PutOrDelete(map, key, value)
    PROVE  /\ DOMAIN new \subseteq DOMAIN map \cup {key}
           /\ \A k : At(new, k) = IF k = key THEN value ELSE At(map, k)
<1>1. CASE value = {}
  <2>1. new = RM!Restrict(map, DOMAIN map \ {key})
    BY <1>1 DEF RM!PutOrDelete
  <2> QED BY <1>1, <2>1, RestrictChanges DEF RM!Restrict
<1>2. CASE value # {}
  <2>1. new = [k \in DOMAIN map \cup {key} |-> IF k = key THEN value ELSE map[k]]
    BY <1>2 DEF RM!PutOrDelete, RM!Put
  <2> QED BY <2>1 DEF At
<1> QED BY <1>1, <1>2

\* A user is taken from some rooms, and no room is left without users.
LEMMA RoomsLeft ==
    ASSUME NEW u, NEW rooms, NEW left, left = RM!Unsubscribed(u, rooms)
    PROVE  /\ \A room : At(left, room) = IF room \in rooms THEN At(world, room) \ {u}
                                         ELSE At(world, room)
           /\ DOMAIN left \subseteq DOMAIN world
           /\ \A room \in DOMAIN left : left[room] # {}
<1>1. PICK map : map = [room \in DOMAIN world |-> IF room \in rooms THEN world[room] \ {u}
                                                  ELSE world[room]]
  OBVIOUS
<1>2. left = [room \in {room \in DOMAIN map : map[room] # {}} |-> map[room]]
  BY <1>1 DEF RM!Unsubscribed, RM!Restrict
<1>3. ASSUME NEW room
      PROVE  At(left, room) = IF room \in rooms THEN At(world, room) \ {u} ELSE At(world, room)
  <2>1. CASE room \in DOMAIN world
    BY <1>1, <1>2, <2>1 DEF At
  <2>2. CASE room \notin DOMAIN world
    BY <1>1, <1>2, <2>2 DEF At
  <2> QED BY <2>1, <2>2
<1> QED BY <1>1, <1>2, <1>3

RoomsInv == RM!TypeOK /\ RM!MapsAgree

\* The two maps in terms of At.
LEMMA RoomsAt ==
    RoomsInv <=>
       /\ DOMAIN stored \subseteq Sockets
       /\ \A s \in DOMAIN stored : stored[s] \in [user : OtherUsers, rooms : SUBSET RoomNames]
       /\ DOMAIN copy \subseteq OtherUsers /\ DOMAIN world \subseteq RoomNames
       /\ \A u \in OtherUsers : At(copy, u) \subseteq RoomNames
       /\ \A room \in RoomNames : At(world, room) \subseteq OtherUsers
       /\ \A u \in OtherUsers, room \in RoomNames : room \in At(copy, u) <=> u \in At(world, room)
       /\ \A room \in DOMAIN world : world[room] # {}
       /\ \A u \in OtherUsers : \A room \in At(copy, u) :
             \E s \in DOMAIN stored : stored[s].user = u /\ room \in stored[s].rooms
BY DEF RoomsInv, RM!TypeOK, RM!MapsAgree, RM!RoomsOf, RM!SubscribersOf, RM!Connected,
       RM!UserOf, At

LEMMA RoomsFirst == RM!Init => RoomsInv
<1> SUFFICES ASSUME RM!Init PROVE RoomsInv
  OBVIOUS
<1>1. DOMAIN << >> = {}
  OBVIOUS
<1> QED BY <1>1, RoomsAt DEF RM!Init, At

LEMMA RoomsSteps == RoomsInv /\ [RM!Next]_(RM!vars) => RoomsInv'
<1> SUFFICES ASSUME RoomsInv, [RM!Next]_(RM!vars) PROVE RoomsInv'
  OBVIOUS
<1> DEFINE Sane(sk, ur, rs) ==
       /\ DOMAIN sk \subseteq Sockets
       /\ \A s \in DOMAIN sk : sk[s] \in [user : OtherUsers, rooms : SUBSET RoomNames]
       /\ DOMAIN ur \subseteq OtherUsers /\ DOMAIN rs \subseteq RoomNames
       /\ \A u \in OtherUsers : At(ur, u) \subseteq RoomNames
       /\ \A room \in RoomNames : At(rs, room) \subseteq OtherUsers
       /\ \A u \in OtherUsers, room \in RoomNames : room \in At(ur, u) <=> u \in At(rs, room)
       /\ \A room \in DOMAIN rs : rs[room] # {}
       /\ \A u \in OtherUsers : \A room \in At(ur, u) :
             \E s \in DOMAIN sk : sk[s].user = u /\ room \in sk[s].rooms
<1>1. Sane(stored, copy, world)
  BY RoomsAt
<1>2. Sane(stored', copy', world') => RoomsInv'
  BY DEF RoomsInv, RM!TypeOK, RM!MapsAgree, RM!RoomsOf, RM!SubscribersOf, RM!Connected,
         RM!UserOf, At
<1>3. ASSUME NEW s \in Sockets, NEW u \in OtherUsers, RM!Connect(s, u)
      PROVE  Sane(stored', copy', world')
  <2>1. stored' = [k \in DOMAIN stored \cup {s} |->
                      IF k = s THEN [user |-> u, rooms |-> {}] ELSE stored[k]]
        /\ copy' = copy /\ world' = world /\ s \notin DOMAIN stored
    BY <1>3 DEF RM!Connect, RM!Put, RM!Connected
  <2>2. [user |-> u, rooms |-> {}] \in [user : OtherUsers, rooms : SUBSET RoomNames]
    OBVIOUS
  <2>3. \A k \in DOMAIN stored : stored'[k] = stored[k] /\ k \in DOMAIN stored'
    BY <2>1
  <2> QED BY <1>1, <2>1, <2>2, <2>3
<1>4. ASSUME NEW s \in Sockets, NEW rooms \in SUBSET RoomNames, RM!Subscribe(s, rooms)
      PROVE  Sane(stored', copy', world')
  <2>1. PICK u \in OtherUsers : u = stored[s].user /\ s \in DOMAIN stored
    BY <1>1, <1>4 DEF RM!Subscribe, RM!Connected
  <2>2. stored' = [stored EXCEPT ![s].rooms = @ \cup rooms]
    BY <1>4 DEF RM!Subscribe
  <2>3. /\ DOMAIN stored' = DOMAIN stored
        /\ \A k \in DOMAIN stored :
              /\ stored'[k] \in [user : OtherUsers, rooms : SUBSET RoomNames]
              /\ stored'[k].user = stored[k].user
              /\ stored[k].rooms \subseteq stored'[k].rooms
        /\ rooms \subseteq stored'[s].rooms
    BY <1>1, <2>1, <2>2
  <2>4. copy' = [v \in DOMAIN copy \cup {u} |->
                    IF v = u THEN At(copy, u) \cup rooms ELSE copy[v]]
    BY <1>4, <2>1 DEF RM!Subscribe, RM!Put, RM!RoomsOf, RM!UserOf, At
  <2>5. /\ DOMAIN copy' = DOMAIN copy \cup {u}
        /\ \A v : At(copy', v) = IF v = u THEN At(copy, u) \cup rooms ELSE At(copy, v)
    BY <2>4 DEF At
  <2>6. world' = [room \in DOMAIN world \cup rooms |->
                     IF room \in rooms THEN At(world, room) \cup {u} ELSE world[room]]
    BY <1>4, <2>1 DEF RM!Subscribe, RM!SubscribersOf, RM!UserOf, At
  <2>7. /\ DOMAIN world' = DOMAIN world \cup rooms
        /\ \A room : At(world', room) = IF room \in rooms THEN At(world, room) \cup {u}
                                        ELSE At(world, room)
        /\ \A room \in DOMAIN world' : world'[room] # {}
    BY <1>1, <2>6 DEF At
  <2>8. \A v \in OtherUsers : \A room \in At(copy', v) :
            \E k \in DOMAIN stored' : stored'[k].user = v /\ room \in stored'[k].rooms
    BY <1>1, <2>1, <2>3, <2>5
  <2>9. \A v \in OtherUsers, room \in RoomNames : room \in At(copy', v) <=> v \in At(world', room)
    BY <1>1, <2>5, <2>7
  <2> QED BY <1>1, <2>1, <2>3, <2>5, <2>7, <2>8, <2>9
<1>5. ASSUME NEW s \in Sockets, NEW rooms \in SUBSET RoomNames, RM!Unsubscribe(s, rooms)
      PROVE  Sane(stored', copy', world')
  <2>1. PICK u \in OtherUsers : u = stored[s].user /\ s \in DOMAIN stored /\ u \in DOMAIN copy
    BY <1>1, <1>5 DEF RM!Unsubscribe, RM!Connected, RM!UserOf
  <2>2. stored' = [stored EXCEPT ![s].rooms = @ \ rooms]
    BY <1>5 DEF RM!Unsubscribe
  <2>3. /\ DOMAIN stored' = DOMAIN stored
        /\ \A k \in DOMAIN stored :
              /\ stored'[k] \in [user : OtherUsers, rooms : SUBSET RoomNames]
              /\ stored'[k].user = stored[k].user
              /\ stored'[k].rooms = IF k = s THEN stored[k].rooms \ rooms ELSE stored[k].rooms
    BY <1>1, <2>1, <2>2
  <2>4. copy' = RM!PutOrDelete(copy, u, At(copy, u) \ rooms)
    BY <1>5, <2>1 DEF RM!Unsubscribe, RM!UserOf, At
  <2>5. /\ DOMAIN copy' \subseteq DOMAIN copy \cup {u}
        /\ \A v : At(copy', v) = IF v = u THEN At(copy, u) \ rooms ELSE At(copy, v)
    BY <2>4, PutOrDeleteChanges
  <2>6. world' = RM!Unsubscribed(u, rooms)
    BY <1>5, <2>1 DEF RM!Unsubscribe, RM!UserOf
  <2>7. /\ \A room : At(world', room) = IF room \in rooms THEN At(world, room) \ {u}
                                        ELSE At(world, room)
        /\ DOMAIN world' \subseteq DOMAIN world
        /\ \A room \in DOMAIN world' : world'[room] # {}
    BY <2>6, RoomsLeft
  <2>8. ASSUME NEW v \in OtherUsers, NEW room \in At(copy', v)
        PROVE  \E k \in DOMAIN stored' : stored'[k].user = v /\ room \in stored'[k].rooms
    <3>1. room \in At(copy, v) /\ (v = u => room \notin rooms)
      BY <2>5, <2>8
    <3>2. PICK k \in DOMAIN stored : stored[k].user = v /\ room \in stored[k].rooms
      BY <1>1, <3>1
    <3>3. k = s => room \notin rooms
      BY <2>1, <3>1, <3>2
    <3>4. room \in stored'[k].rooms /\ stored'[k].user = v
      BY <2>3, <3>2, <3>3
    <3> QED BY <2>3, <3>4
  <2>9. \A v \in OtherUsers, room \in RoomNames : room \in At(copy', v) <=> v \in At(world', room)
    BY <1>1, <2>5, <2>7
  <2>10. \A v \in OtherUsers : At(copy', v) \subseteq RoomNames
    BY <1>1, <2>5
  <2>11. \A room \in RoomNames : At(world', room) \subseteq OtherUsers
    BY <1>1, <2>7
  <2>12. DOMAIN copy' \subseteq OtherUsers /\ DOMAIN world' \subseteq RoomNames
         /\ DOMAIN stored' \subseteq Sockets
    BY <1>1, <2>3, <2>5, <2>7
  <2>13. \A k \in DOMAIN stored' : stored'[k] \in [user : OtherUsers, rooms : SUBSET RoomNames]
    BY <2>3
  <2> QED BY <2>7, <2>8, <2>9, <2>10, <2>11, <2>12, <2>13
<1>6. ASSUME NEW s \in Sockets, RM!Disconnect(s)
      PROVE  Sane(stored', copy', world')
  <2>1. PICK u \in OtherUsers : u = stored[s].user /\ s \in DOMAIN stored
    BY <1>1, <1>6 DEF RM!Disconnect, RM!Connected
  <2>2. stored' = [k \in DOMAIN stored \ {s} |-> stored[k]]
    BY <1>6 DEF RM!Disconnect, RM!Connected, RM!Restrict
  <2>3. /\ DOMAIN stored' = DOMAIN stored \ {s}
        /\ \A k \in DOMAIN stored \ {s} : stored'[k] = stored[k]
    BY <2>2
  <2>4. copy' = RM!Restrict(copy, DOMAIN copy \ {u})
    BY <1>6, <2>1 DEF RM!Disconnect, RM!UserOf
  <2>5. /\ DOMAIN copy' = DOMAIN copy \ {u}
        /\ \A v : At(copy', v) = IF v = u THEN {} ELSE At(copy, v)
    BY <2>4, RestrictChanges DEF RM!Restrict
  <2>6. world' = RM!Unsubscribed(u, At(copy, u))
    BY <1>6, <2>1 DEF RM!Disconnect, RM!UserOf, RM!RoomsOf, At
  <2>7. /\ \A room : At(world', room) = IF room \in At(copy, u) THEN At(world, room) \ {u}
                                        ELSE At(world, room)
        /\ DOMAIN world' \subseteq DOMAIN world
        /\ \A room \in DOMAIN world' : world'[room] # {}
    BY <2>6, RoomsLeft
  <2>8. \A v \in OtherUsers : \A room \in At(copy', v) :
            \E k \in DOMAIN stored' : stored'[k].user = v /\ room \in stored'[k].rooms
    BY <1>1, <2>1, <2>3, <2>5
  <2>9. \A v \in OtherUsers, room \in RoomNames : room \in At(copy', v) <=> v \in At(world', room)
    BY <1>1, <2>5, <2>7
  <2> QED BY <1>1, <2>1, <2>3, <2>5, <2>7, <2>8, <2>9
<1>7. ASSUME UNCHANGED RM!vars
      PROVE  Sane(stored', copy', world')
  BY <1>1, <1>7 DEF RM!vars
<1> HIDE DEF Sane
<1> QED BY <1>2, <1>3, <1>4, <1>5, <1>6, <1>7 DEF RM!Next

-----------------------------------------------------------------------------
(* The paths of a document that are no arrays. *)

\* What a save sends of a path: what the copy has, unless it is what was read.
Sent(old, new, s) == IF old = new THEN s ELSE new

\* d is s with the paths of q that differ; but for the paths in A.
SentPaths(q, A, s, d) ==
    /\ DOMAIN d = DOMAIN s
    /\ \A f \in DOMAIN s \ (A \cup {"version"}) : d[f] = Sent(q.old[f], q.new[f], s[f])

\* It is so in any of the models.
LEMMA PathsSaved ==
    ASSUME NEW r, NEW A, NEW w, Saved(r, A, w), "version" \notin A \cup copy[r].whole
    PROVE  SentPaths(copy[r], A \cup copy[r].whole, stored, stored')
<1>1. stored' = MD!Merged(copy[r], A)
  BY DEF Saved
<1>2. /\ DOMAIN stored' = DOMAIN stored
      /\ \A f \in DOMAIN stored : f \notin A \cup copy[r].whole \cup {"version"} =>
            stored'[f] = IF copy[r].old[f] = copy[r].new[f] THEN stored[f] ELSE copy[r].new[f]
  BY <1>1, MergedFields
<1> QED BY <1>2 DEF SentPaths, Sent

LEMMA ContactSaves == \A r, A, w : US!SaveCopy(r, A, w) => Saved(r, A, w)
BY DEF Saved, US!SaveCopy, US!Accepted, US!ComparesVersion, US!ElementsChanged, US!Places,
       US!Merged, US!CountsVersion, US!Pushed, US!MergedArray, US!MergedElement,
       MD!Accepted, MD!ComparesVersion, MD!ElementsChanged, MD!Places,
       MD!Merged, MD!CountsVersion, MD!Pushed, MD!MergedArray, MD!MergedElement

-----------------------------------------------------------------------------
(* The submissions of a contact form. *)

SubmissionFields ==
    {"status", "assigned", "internalNotes", "viewedAt", "resolvedAt", "closedAt", "version"}

\* A submission that has the dates of n saves, and the reason of its status.
Submission(d, n) ==
    /\ DOMAIN d = SubmissionFields
    /\ d.assigned \in BOOLEAN
    /\ d.resolvedAt \in 0..n /\ d.closedAt \in 0..n
    /\ d.status = "RESOLVED" => d.resolvedAt # 0
    /\ d.status \in {"CLOSED", "SPAM"} => d.closedAt # 0
    /\ d.status = "IN_PROGRESS" => d.assigned

\* A copy sends a status only with its reason, and what is over as it was.
SubmissionCopy(q, d, n) ==
    /\ Submission(q.old, n) /\ q.whole = {}
    /\ q.old.assigned => d.assigned
    /\ q.new.assigned \in BOOLEAN /\ (q.old.assigned => q.new.assigned)
    /\ q.new.resolvedAt # q.old.resolvedAt => q.new.resolvedAt \in 1..n + 1
    /\ q.new.closedAt # q.old.closedAt => q.new.closedAt \in 1..n + 1
    /\ q.new.status # q.old.status =>
          /\ q.new.status = "RESOLVED" => q.new.resolvedAt # q.old.resolvedAt
          /\ q.new.status \in {"CLOSED", "SPAM"} => q.new.closedAt # q.old.closedAt
          /\ q.new.status = "IN_PROGRESS" => q.new.assigned
          /\ q.old.status \in US!Over => q.new.status \in US!Over

SubmissionInv ==
    /\ saves \in Nat
    /\ Submission(stored, saves)
    /\ DOMAIN copy = Requests
    /\ \A r \in Requests : copy[r] # Nothing => SubmissionCopy(copy[r], stored, saves)

\* A copy that was read.
LEMMA SubmissionRead ==
    ASSUME SubmissionInv, NEW r \in Requests, NEW op, NEW new,
           US!Change(r, op, new, {}),
           SubmissionCopy([op |-> op, old |-> stored, new |-> new, whole |-> {}], stored, saves)
    PROVE  SubmissionInv'
<1>1. PICK q : q = [op |-> op, old |-> stored, new |-> new, whole |-> {}]
  OBVIOUS
<1>2. UNCHANGED <<stored, world, saves>> /\ copy' = [copy EXCEPT ![r] = q]
  BY <1>1 DEF US!Change, US!Copy
<1> QED BY <1>1, <1>2 DEF SubmissionInv

LEMMA SubmissionMethods ==
    ASSUME SubmissionInv, NEW r \in Requests,
           \/ US!MarkAsViewed(r) \/ US!AssignTo(r) \/ US!AddInternalNote(r)
           \/ US!MarkAsResolved(r) \/ \E status \in {"CLOSED", "SPAM"} : US!Close(r, status)
    PROVE  SubmissionInv'
<1>1. Submission(stored, saves) /\ saves \in Nat
  BY DEF SubmissionInv
<1>2. CASE US!MarkAsViewed(r)
  <2>1. PICK new : /\ new = [stored EXCEPT !.status = IF @ = "NEW" THEN "VIEWED" ELSE @,
                                           !.viewedAt = US!Now]
                   /\ US!Change(r, "markAsViewed", new, {})
    BY <1>2 DEF US!MarkAsViewed
  <2>2. SubmissionCopy([op |-> "markAsViewed", old |-> stored, new |-> new, whole |-> {}],
                       stored, saves)
    BY <1>1, <2>1 DEF Submission, SubmissionFields, SubmissionCopy, US!Over
  <2> QED BY <2>1, <2>2, SubmissionRead
<1>3. CASE US!AssignTo(r)
  <2>1. PICK new : /\ new = [stored EXCEPT !.assigned = TRUE,
                          !.status = IF @ \in {"NEW", "VIEWED"} THEN "IN_PROGRESS" ELSE @]
                   /\ US!Change(r, "assignTo", new, {})
    BY <1>3 DEF US!AssignTo
  <2>2. SubmissionCopy([op |-> "assignTo", old |-> stored, new |-> new, whole |-> {}],
                       stored, saves)
    BY <1>1, <2>1 DEF Submission, SubmissionFields, SubmissionCopy, US!Over
  <2> QED BY <2>1, <2>2, SubmissionRead
<1>4. CASE US!AddInternalNote(r)
  <2>1. PICK new : /\ new = [stored EXCEPT !.internalNotes = Append(@, US!Now)]
                   /\ US!Change(r, "addInternalNote", new, {})
    BY <1>4 DEF US!AddInternalNote
  <2>2. SubmissionCopy([op |-> "addInternalNote", old |-> stored, new |-> new, whole |-> {}],
                       stored, saves)
    BY <1>1, <2>1 DEF Submission, SubmissionFields, SubmissionCopy, US!Over
  <2> QED BY <2>1, <2>2, SubmissionRead
<1>5. CASE US!MarkAsResolved(r)
  <2>1. PICK new : /\ new = [stored EXCEPT !.status = "RESOLVED", !.resolvedAt = US!Now]
                   /\ US!Change(r, "markAsResolved", new, {})
    BY <1>5 DEF US!MarkAsResolved
  <2>3. /\ new.status = "RESOLVED" /\ new.resolvedAt = saves + 1
        /\ new.assigned = stored.assigned /\ new.closedAt = stored.closedAt
    BY <1>1, <2>1 DEF Submission, SubmissionFields, US!Now
  <2>4. saves + 1 \in 1..saves + 1 /\ \A x \in 0..saves : x # saves + 1
    BY <1>1
  <2>2. SubmissionCopy([op |-> "markAsResolved", old |-> stored, new |-> new, whole |-> {}],
                       stored, saves)
    BY <1>1, <2>3, <2>4 DEF Submission, SubmissionCopy, US!Over
  <2> QED BY <2>1, <2>2, SubmissionRead
<1>6. ASSUME NEW status \in {"CLOSED", "SPAM"}, US!Close(r, status)
      PROVE  SubmissionInv'
  <2>1. PICK new : /\ new = [stored EXCEPT !.status = status, !.closedAt = US!Now]
                   /\ US!Change(r, "close", new, {})
    BY <1>6 DEF US!Close
  <2>3. /\ new.status = status /\ new.closedAt = saves + 1
        /\ new.assigned = stored.assigned /\ new.resolvedAt = stored.resolvedAt
    BY <1>1, <2>1 DEF Submission, SubmissionFields, US!Now
  <2>4. saves + 1 \in 1..saves + 1 /\ \A x \in 0..saves : x # saves + 1
    BY <1>1
  <2>2. SubmissionCopy([op |-> "close", old |-> stored, new |-> new, whole |-> {}],
                       stored, saves)
    BY <1>1, <1>6, <2>3, <2>4 DEF Submission, SubmissionCopy, US!Over
  <2> QED BY <2>1, <2>2, SubmissionRead
<1> QED BY <1>2, <1>3, <1>4, <1>5, <1>6

LEMMA SubmissionSave ==
    ASSUME SubmissionInv, NEW r \in Requests, US!Save(r)
    PROVE  SubmissionInv' /\ US!ReopenedByOlderCopy
<1>1. PICK q, w : q = copy[r] /\ q # Nothing /\ Saved(r, {"internalNotes"}, w)
  BY ContactSaves DEF US!Save, US!Arrays
<1>2. /\ SubmissionCopy(q, stored, saves) /\ q.whole = {} /\ saves \in Nat
      /\ Submission(stored, saves) /\ DOMAIN copy = Requests
  BY <1>1 DEF SubmissionInv, SubmissionCopy
<1>3. SentPaths(q, {"internalNotes"}, stored, stored')
  BY <1>1, <1>2, PathsSaved
<1>4. /\ DOMAIN stored' = SubmissionFields
      /\ stored'.status = Sent(q.old.status, q.new.status, stored.status)
      /\ stored'.assigned = Sent(q.old.assigned, q.new.assigned, stored.assigned)
      /\ stored'.resolvedAt = Sent(q.old.resolvedAt, q.new.resolvedAt, stored.resolvedAt)
      /\ stored'.closedAt = Sent(q.old.closedAt, q.new.closedAt, stored.closedAt)
  BY <1>2, <1>3 DEF SentPaths, Submission, SubmissionFields
<1>5. saves' = saves + 1 /\ copy' = [copy EXCEPT ![r] = Nothing]
  BY <1>1 DEF Saved
<1>6. Submission(stored', saves') /\ (stored.assigned => stored'.assigned)
  BY <1>2, <1>4, <1>5 DEF Submission, SubmissionCopy, Sent
<1>7. ASSUME NEW s \in Requests, copy'[s] # Nothing
      PROVE  SubmissionCopy(copy'[s], stored', saves')
  BY <1>2, <1>5, <1>6, <1>7 DEF SubmissionInv, SubmissionCopy, Submission
<1>8. US!ReopenedByOlderCopy
  BY <1>1, <1>2, <1>4, <1>5 DEF US!ReopenedByOlderCopy, SubmissionCopy, Sent
<1> QED BY <1>2, <1>5, <1>6, <1>7, <1>8 DEF SubmissionInv

LEMMA SubmissionFirst == US!Init => SubmissionInv
BY DEF US!Init, US!NoCopies, SubmissionInv, Submission, SubmissionFields

LEMMA SubmissionSteps ==
    SubmissionInv /\ [US!Next]_(US!document) => SubmissionInv' /\ US!ReopenedByOlderCopy
<1> SUFFICES ASSUME SubmissionInv, [US!Next]_(US!document)
             PROVE  SubmissionInv' /\ US!ReopenedByOlderCopy
  OBVIOUS
<1>1. ASSUME NEW r \in Requests,
             \/ US!MarkAsViewed(r) \/ US!AssignTo(r) \/ US!AddInternalNote(r)
             \/ US!MarkAsResolved(r) \/ \E status \in {"CLOSED", "SPAM"} : US!Close(r, status)
      PROVE  SubmissionInv' /\ stored' = stored
  <2>1. stored' = stored
    BY <1>1 DEF US!MarkAsViewed, US!AssignTo, US!AddInternalNote, US!MarkAsResolved,
                US!Close, US!Change
  <2> QED BY <1>1, <2>1, SubmissionMethods
<1>2. ASSUME NEW r \in Requests, US!AbortCopy(r) PROVE SubmissionInv' /\ stored' = stored
  BY <1>2 DEF US!AbortCopy, SubmissionInv
<1>3. ASSUME UNCHANGED US!document PROVE SubmissionInv' /\ stored' = stored
  BY <1>3 DEF US!document, SubmissionInv
<1>4. stored' = stored => US!ReopenedByOlderCopy
  BY DEF US!ReopenedByOlderCopy
<1> QED BY <1>1, <1>2, <1>3, <1>4, SubmissionSave DEF US!Next, US!document

-----------------------------------------------------------------------------
(* Generated documents. *)

LEMMA GenerationSaves == \A r, A, w : G!SaveCopy(r, A, w) => Saved(r, A, w)
BY DEF Saved, G!SaveCopy, G!Accepted, G!ComparesVersion, G!ElementsChanged, G!Places,
       G!Merged, G!CountsVersion, G!Pushed, G!MergedArray, G!MergedElement,
       MD!Accepted, MD!ComparesVersion, MD!ElementsChanged, MD!Places,
       MD!Merged, MD!CountsVersion, MD!Pushed, MD!MergedArray, MD!MergedElement

LEMMA GeneratedSaves == \A r, A, w : GD!SaveCopy(r, A, w) => Saved(r, A, w)
BY DEF Saved, GD!SaveCopy, GD!Accepted, GD!ComparesVersion, GD!ElementsChanged, GD!Places,
       GD!Merged, GD!CountsVersion, GD!Pushed, GD!MergedArray, GD!MergedElement,
       MD!Accepted, MD!ComparesVersion, MD!ElementsChanged, MD!Places,
       MD!Merged, MD!CountsVersion, MD!Pushed, MD!MergedArray, MD!MergedElement

GeneratedFields == {"status", "retryCount", "accessLevel", "hasCode", "accessUsers", "version"}

\* Failures are counted, and what is public has a code.
Generated(d, w) ==
    /\ DOMAIN d = GeneratedFields
    /\ d.hasCode \in BOOLEAN
    /\ d.retryCount \in Nat /\ d.retryCount <= w.failures
    /\ d.status = "FAILED" => d.retryCount > 0
    /\ d.accessLevel = "PUBLIC" => d.hasCode

\* A copy sends the status with what it comes from; codes and failures stay.
GeneratedCopy(q, d, w) ==
    /\ Generated(q.old, w) /\ q.whole \subseteq {"accessUsers"}
    /\ q.new.hasCode \in BOOLEAN
    /\ q.old.hasCode => q.new.hasCode /\ d.hasCode
    /\ q.new.accessLevel = "PUBLIC" => q.new.hasCode
    /\ q.new.retryCount = IF q.op = "markAsFailed" THEN q.old.retryCount + 1
                          ELSE q.old.retryCount
    /\ q.new.status # q.old.status => \/ q.op = "markAsFailed"
                                      \/ q.op = "mark" /\ q.new.status # "FAILED"

GeneratedInv ==
    /\ DOMAIN world = {"late", "failures", "access"} /\ world.failures \in Nat
    /\ Generated(stored, world)
    /\ DOMAIN copy = Requests
    /\ \A r \in Requests : copy[r] # Nothing => GeneratedCopy(copy[r], stored, world)

\* A copy that was read.
LEMMA GeneratedRead ==
    ASSUME GeneratedInv, NEW r \in Requests, NEW op, NEW new, NEW whole, GD!Change(r, op, new, whole),
           GeneratedCopy([op |-> op, old |-> stored, new |-> new, whole |-> whole], stored, world)
    PROVE  GeneratedInv'
<1>1. PICK q : q = [op |-> op, old |-> stored, new |-> new, whole |-> whole]
  OBVIOUS
<1>2. UNCHANGED <<stored, world, saves>> /\ copy' = [copy EXCEPT ![r] = q]
  BY <1>1 DEF GD!Change, GD!Copy
<1> QED BY <1>1, <1>2 DEF GeneratedInv

LEMMA GeneratedMethods ==
    ASSUME GeneratedInv, NEW r \in Requests,
           \/ \E status \in {"PROCESSING", "COMPLETED", "DELETED"} : GD!Mark(r, status)
           \/ GD!MarkDocumentFailed(r)
           \/ \E level \in GD!Levels : GD!UpdateAccessLevel(r, level)
           \/ \E u \in OtherUsers : GD!AddAccessUser(r, u)
           \/ \E u \in OtherUsers : GD!RemoveAccessUser(r, u)
    PROVE  GeneratedInv'
<1>1. Generated(stored, world) /\ world.failures \in Nat
  BY DEF GeneratedInv
<1>2. ASSUME NEW status \in {"PROCESSING", "COMPLETED", "DELETED"}, GD!Mark(r, status)
      PROVE  GeneratedInv'
  <2>1. PICK new : /\ new = [stored EXCEPT !.status = status]
                   /\ GD!Change(r, "mark", new, {})
    BY <1>2 DEF GD!Mark
  <2>2. /\ new.status = status
        /\ new.retryCount = stored.retryCount
        /\ new.accessLevel = stored.accessLevel
        /\ new.hasCode = stored.hasCode
    BY <1>1, <2>1 DEF Generated, GeneratedFields
  <2>3. GeneratedCopy([op |-> "mark", old |-> stored, new |-> new, whole |-> {}], stored, world)
    BY <1>1, <1>2, <2>2 DEF Generated, GeneratedCopy
  <2> QED BY <2>1, <2>3, GeneratedRead
<1>3. CASE GD!MarkDocumentFailed(r)
  <2>1. PICK new : /\ new = [stored EXCEPT !.status = "FAILED", !.retryCount = @ + 1]
                   /\ GD!Change(r, "markAsFailed", new, {})
    BY <1>3 DEF GD!MarkDocumentFailed
  <2>2. /\ new.status = "FAILED"
        /\ new.retryCount = stored.retryCount + 1
        /\ new.accessLevel = stored.accessLevel
        /\ new.hasCode = stored.hasCode
    BY <1>1, <2>1 DEF Generated, GeneratedFields
  <2>3. GeneratedCopy([op |-> "markAsFailed", old |-> stored, new |-> new, whole |-> {}], stored, world)
    BY <1>1, <2>2 DEF Generated, GeneratedCopy
  <2> QED BY <2>1, <2>3, GeneratedRead
<1>4. ASSUME NEW level \in GD!Levels, GD!UpdateAccessLevel(r, level)
      PROVE  GeneratedInv'
  <2>1. PICK new : /\ new = [stored EXCEPT !.accessLevel = level,
                                           !.hasCode = @ \/ level = "PUBLIC"]
                   /\ GD!Change(r, "updateAccessLevel", new, {})
    BY <1>4 DEF GD!UpdateAccessLevel
  <2>2. /\ new.status = stored.status
        /\ new.retryCount = stored.retryCount
        /\ new.accessLevel = level
        /\ new.hasCode = (stored.hasCode \/ level = "PUBLIC")
    BY <1>1, <2>1 DEF Generated, GeneratedFields
  <2>3. GeneratedCopy([op |-> "updateAccessLevel", old |-> stored, new |-> new, whole |-> {}], stored, world)
    BY <1>1, <1>4, <2>2 DEF Generated, GeneratedCopy
  <2> QED BY <2>1, <2>3, GeneratedRead
<1>5. ASSUME NEW u \in OtherUsers, GD!AddAccessUser(r, u)
      PROVE  GeneratedInv'
  <2>1. PICK new : /\ new = [stored EXCEPT !.accessUsers = IF u \in GD!UsersOf(stored) THEN @
                                                           ELSE Append(@, u)]
                   /\ GD!Change(r, "addAccessUser", new, {})
    BY <1>5 DEF GD!AddAccessUser
  <2>2. /\ new.status = stored.status
        /\ new.retryCount = stored.retryCount
        /\ new.accessLevel = stored.accessLevel
        /\ new.hasCode = stored.hasCode
    BY <1>1, <2>1 DEF Generated, GeneratedFields
  <2>3. GeneratedCopy([op |-> "addAccessUser", old |-> stored, new |-> new, whole |-> {}], stored, world)
    BY <1>1, <1>5, <2>2 DEF Generated, GeneratedCopy
  <2> QED BY <2>1, <2>3, GeneratedRead
<1>6. ASSUME NEW u \in OtherUsers, GD!RemoveAccessUser(r, u)
      PROVE  GeneratedInv'
  <2>1. PICK new : /\ new = [stored EXCEPT !.accessUsers = GD!Without(@, u)]
                   /\ GD!Change(r, "removeAccessUser", new, (IF u \in GD!UsersOf(stored) THEN {"accessUsers"} ELSE {}))
    BY <1>6 DEF GD!RemoveAccessUser
  <2>2. /\ new.status = stored.status
        /\ new.retryCount = stored.retryCount
        /\ new.accessLevel = stored.accessLevel
        /\ new.hasCode = stored.hasCode
    BY <1>1, <2>1 DEF Generated, GeneratedFields
  <2>3. GeneratedCopy([op |-> "removeAccessUser", old |-> stored, new |-> new, whole |-> (IF u \in GD!UsersOf(stored) THEN {"accessUsers"} ELSE {})], stored, world)
    BY <1>1, <1>6, <2>2 DEF Generated, GeneratedCopy
  <2> QED BY <2>1, <2>3, GeneratedRead
<1> QED BY <1>2, <1>3, <1>4, <1>5, <1>6

\* What a save, or the sweep, leaves: no failure and no code is taken back.
LEMMA GeneratedKept ==
    ASSUME GeneratedInv, DOMAIN world' = {"late", "failures", "access"},
           world'.failures \in Nat, world'.failures >= world.failures,
           Generated(stored', world'), stored.hasCode => stored'.hasCode,
           DOMAIN copy' = Requests, \A r \in Requests : copy'[r] \in {copy[r], Nothing}
    PROVE  GeneratedInv'
<1>1. world.failures \in Nat
  BY DEF GeneratedInv
<1>2. ASSUME NEW q, GeneratedCopy(q, stored, world) PROVE GeneratedCopy(q, stored', world')
  BY <1>1, <1>2 DEF GeneratedCopy, Generated
<1> QED BY <1>2 DEF GeneratedInv

LEMMA GeneratedSave ==
    ASSUME GeneratedInv, NEW r \in Requests, GD!SaveDocument(r)
    PROVE  GeneratedInv' /\ GD!UndeletedByRequest
<1> DEFINE added   == GD!UsersOf(copy[r].new) \ GD!UsersOf(copy[r].old)
           removed == GD!UsersOf(copy[r].old) \ GD!UsersOf(copy[r].new)
<1>1. PICK q, w, access :
          /\ q = copy[r] /\ q # Nothing /\ Saved(r, {"accessUsers"}, w)
          /\ w = [world EXCEPT !.failures = @ + (IF q.op = "markAsFailed" THEN 1 ELSE 0),
                               !.access = access]
  <2>1. PICK q, access : q = copy[r] /\ access = (world.access \cup added) \ removed
    OBVIOUS
  <2>2. /\ q # Nothing
        /\ GD!SaveCopy(r, {"accessUsers"},
               [world EXCEPT !.failures = @ + (IF q.op = "markAsFailed" THEN 1 ELSE 0),
                             !.access = access])
    BY <2>1 DEF GD!SaveDocument, GD!DocumentArrays
  <2> QED BY <2>1, <2>2, GeneratedSaves
<1>2. /\ GeneratedCopy(q, stored, world) /\ world.failures \in Nat
      /\ DOMAIN world = {"late", "failures", "access"}
      /\ Generated(stored, world) /\ DOMAIN copy = Requests
  BY <1>1 DEF GeneratedInv
<1>3. SentPaths(q, {"accessUsers"}, stored, stored')
  <2>1. "version" \notin {"accessUsers"} \cup q.whole
        /\ {"accessUsers"} \cup q.whole = {"accessUsers"}
    BY <1>2 DEF GeneratedCopy
  <2> QED BY <1>1, <2>1, PathsSaved
<1>4. /\ DOMAIN stored' = GeneratedFields
      /\ stored'.status = Sent(q.old.status, q.new.status, stored.status)
      /\ stored'.retryCount = Sent(q.old.retryCount, q.new.retryCount, stored.retryCount)
      /\ stored'.accessLevel = Sent(q.old.accessLevel, q.new.accessLevel, stored.accessLevel)
      /\ stored'.hasCode = Sent(q.old.hasCode, q.new.hasCode, stored.hasCode)
  BY <1>2, <1>3 DEF SentPaths, Generated, GeneratedFields
<1>5. world' = w /\ copy' = [copy EXCEPT ![r] = Nothing]
  BY <1>1 DEF Saved
<1>6. /\ DOMAIN world' = {"late", "failures", "access"}
      /\ world'.failures = world.failures + (IF q.op = "markAsFailed" THEN 1 ELSE 0)
  BY <1>1, <1>2, <1>5
<1>7. /\ world'.failures \in Nat /\ world'.failures >= world.failures
      /\ Generated(stored', world') /\ (stored.hasCode => stored'.hasCode)
  BY <1>2, <1>4, <1>6 DEF Generated, GeneratedCopy, Sent
<1>8. GD!UndeletedByRequest
  BY <1>1, <1>2, <1>4, <1>5 DEF GD!UndeletedByRequest, GeneratedCopy, Sent
<1> QED BY <1>2, <1>5, <1>6, <1>7, <1>8, GeneratedKept

LEMMA GeneratedFirst == GD!DocumentInit => GeneratedInv
BY DEF GD!DocumentInit, GD!NoCopies, GeneratedInv, Generated, GeneratedFields

LEMMA GeneratedSteps ==
    GeneratedInv /\ [GD!DocumentNext]_(GD!document) => GeneratedInv' /\ GD!UndeletedByRequest
<1> SUFFICES ASSUME GeneratedInv, [GD!DocumentNext]_(GD!document)
             PROVE  GeneratedInv' /\ GD!UndeletedByRequest
  OBVIOUS
<1>1. ASSUME NEW r \in Requests,
             \/ \E status \in {"PROCESSING", "COMPLETED", "DELETED"} : GD!Mark(r, status)
             \/ GD!MarkDocumentFailed(r)
             \/ \E level \in GD!Levels : GD!UpdateAccessLevel(r, level)
             \/ \E u \in OtherUsers : GD!AddAccessUser(r, u)
             \/ \E u \in OtherUsers : GD!RemoveAccessUser(r, u)
      PROVE  GeneratedInv' /\ stored' = stored
  <2>1. stored' = stored
    BY <1>1 DEF GD!Mark, GD!MarkDocumentFailed, GD!UpdateAccessLevel, GD!AddAccessUser,
                GD!RemoveAccessUser, GD!Change
  <2> QED BY <1>1, <2>1, GeneratedMethods
<1>2. ASSUME NEW r \in Requests, GD!AbortCopy(r) PROVE GeneratedInv' /\ stored' = stored
  BY <1>2 DEF GD!AbortCopy, GeneratedInv
<1>3. ASSUME UNCHANGED GD!document PROVE GeneratedInv' /\ stored' = stored
  BY <1>3 DEF GD!document, GeneratedInv
<1>4. stored' = stored => GD!UndeletedByRequest
  BY DEF GD!UndeletedByRequest
<1>5. ASSUME GD!MarkExpired PROVE GeneratedInv' /\ GD!UndeletedByRequest
  <2>1. /\ stored.status # "DELETED" /\ stored' = [stored EXCEPT !.status = "EXPIRED"]
        /\ world' = world /\ copy' = copy
    BY <1>5 DEF GD!MarkExpired, GD!UpdateStored
  <2>2. Generated(stored', world') /\ stored'.hasCode = stored.hasCode
    BY <2>1 DEF GeneratedInv, Generated, GeneratedFields
  <2>3. GeneratedInv'
    BY <2>1, <2>2, GeneratedKept DEF GeneratedInv
  <2> QED BY <2>1, <2>3 DEF GD!UndeletedByRequest
<1>6. ASSUME GD!DateIsOver PROVE GeneratedInv' /\ stored' = stored
  <2>1. stored' = stored /\ copy' = copy /\ world' = [world EXCEPT !.late = TRUE]
    BY <1>6 DEF GD!DateIsOver, GD!WorldChanges
  <2>2. DOMAIN world' = DOMAIN world /\ world'.failures = world.failures
        /\ world.failures \in Nat
    BY <2>1 DEF GeneratedInv
  <2>3. Generated(stored', world')
    BY <2>1, <2>2 DEF GeneratedInv, Generated
  <2>4. /\ DOMAIN world' = {"late", "failures", "access"} /\ world'.failures \in Nat
        /\ world'.failures >= world.failures /\ DOMAIN copy' = Requests
    BY <2>1, <2>2 DEF GeneratedInv
  <2> QED BY <2>1, <2>3, <2>4, GeneratedKept
<1> QED BY <1>1, <1>2, <1>3, <1>4, <1>5, <1>6, GeneratedSave DEF GD!DocumentNext, GD!document

-----------------------------------------------------------------------------
(* Feedback. *)

LEMMA FeedbackSaves == \A r, A, w : F!SaveCopy(r, A, w) => Saved(r, A, w)
BY DEF Saved, F!SaveCopy, F!Accepted, F!ComparesVersion, F!ElementsChanged, F!Places,
       F!Merged, F!CountsVersion, F!Pushed, F!MergedArray, F!MergedElement,
       MD!Accepted, MD!ComparesVersion, MD!ElementsChanged, MD!Places,
       MD!Merged, MD!CountsVersion, MD!Pushed, MD!MergedArray, MD!MergedElement

FeedbackFields == {"status", "isResolved", "resolvedAt", "responses", "requiresFollowUp",
                   "followUpDate", "followUpCompleted", "version"}

\* A feedback after n saves.
Resolution(d, n) ==
    /\ DOMAIN d = FeedbackFields
    /\ d.isResolved \in BOOLEAN /\ d.resolvedAt \in 0..n
    /\ d.requiresFollowUp \in BOOLEAN /\ d.followUpCompleted \in BOOLEAN
    /\ d.isResolved => d.resolvedAt # 0
    /\ d.followUpCompleted => d.requiresFollowUp

\* A copy sends a mark with a date that differs from the one it read, and takes a date
\* away only with the mark; of what is marked it sends no other status.
FeedbackCopy(q, d, n) ==
    /\ Resolution(q.old, n) /\ q.whole = {}
    /\ q.new.isResolved \in BOOLEAN /\ q.new.resolvedAt \in 0..n + 1
    /\ q.new.isResolved =>
          /\ q.new.status = "resolved"
          /\ IF q.new.resolvedAt = q.old.resolvedAt THEN q.old.isResolved
             ELSE q.new.resolvedAt # 0
    /\ ~ q.new.isResolved => q.old.isResolved \/ q.new.resolvedAt = q.old.resolvedAt
    /\ q.new.requiresFollowUp \in BOOLEAN /\ q.new.followUpCompleted \in BOOLEAN
    /\ q.old.requiresFollowUp => q.new.requiresFollowUp /\ d.requiresFollowUp
    /\ q.new.followUpCompleted => q.new.requiresFollowUp

FeedbackInv ==
    /\ saves \in Nat
    /\ Resolution(stored, saves)
    /\ DOMAIN copy = Requests
    /\ \A r \in Requests : copy[r] # Nothing => FeedbackCopy(copy[r], stored, saves)

\* A copy that was read.
LEMMA FeedbackRead ==
    ASSUME FeedbackInv, NEW r \in Requests, NEW op, NEW new, NEW whole, F!Change(r, op, new, whole),
           FeedbackCopy([op |-> op, old |-> stored, new |-> new, whole |-> whole], stored, saves)
    PROVE  FeedbackInv'
<1>1. PICK q : q = [op |-> op, old |-> stored, new |-> new, whole |-> whole]
  OBVIOUS
<1>2. UNCHANGED <<stored, world, saves>> /\ copy' = [copy EXCEPT ![r] = q]
  BY <1>1 DEF F!Change, F!Copy
<1> QED BY <1>1, <1>2 DEF FeedbackInv

LEMMA FeedbackMethods ==
    ASSUME FeedbackInv, NEW r \in Requests,
           \/ F!AddResponse(r)
           \/ F!MarkAsReviewed(r)
           \/ F!MarkAsResolved(r)
           \/ \E status \in F!Statuses : F!UpdateStatus(r, status)
           \/ F!SetPriority(r)
           \/ F!ScheduleFollowUp(r)
           \/ F!CompleteFollowUp(r)
    PROVE  FeedbackInv'
<1>1. Resolution(stored, saves) /\ saves \in Nat
  BY DEF FeedbackInv
<1>2. CASE F!AddResponse(r)
  <2>1. PICK new : /\ new = F!Resolved([stored EXCEPT
                         !.responses = Append(@, F!Now),
                         !.status = IF @ = "resolved" THEN @ ELSE "responded"])
                   /\ F!Change(r, "addResponse", new, {})
    BY <1>2 DEF F!AddResponse, F!Do
  <2>2. /\ new.isResolved = stored.isResolved
        /\ new.resolvedAt = stored.resolvedAt
        /\ new.requiresFollowUp = stored.requiresFollowUp
        /\ new.followUpCompleted = stored.followUpCompleted
        /\ new.isResolved => new.status = "resolved"
    BY <1>1, <2>1 DEF Resolution, FeedbackFields, F!Resolved, F!Now
  <2>3. new.resolvedAt \in 0..saves + 1
    BY <1>1, <2>2 DEF Resolution
  <2>4. FeedbackCopy([op |-> "addResponse", old |-> stored, new |-> new, whole |-> {}], stored, saves)
    BY <1>1, <2>2, <2>3 DEF Resolution, FeedbackCopy
  <2> QED BY <2>1, <2>4, FeedbackRead
<1>3. CASE F!MarkAsReviewed(r)
  <2>1. PICK new : /\ new = F!Resolved([stored EXCEPT !.status = "reviewed"])
                   /\ F!Change(r, "markAsReviewed", new, {})
    BY <1>3 DEF F!MarkAsReviewed, F!Do
  <2>2. /\ new.isResolved = stored.isResolved
        /\ new.resolvedAt = stored.resolvedAt
        /\ new.requiresFollowUp = stored.requiresFollowUp
        /\ new.followUpCompleted = stored.followUpCompleted
        /\ new.isResolved => new.status = "resolved"
    BY <1>1, <2>1 DEF Resolution, FeedbackFields, F!Resolved, F!Now
  <2>3. new.resolvedAt \in 0..saves + 1
    BY <1>1, <2>2 DEF Resolution
  <2>4. FeedbackCopy([op |-> "markAsReviewed", old |-> stored, new |-> new, whole |-> {}], stored, saves)
    BY <1>1, <2>2, <2>3 DEF Resolution, FeedbackCopy
  <2> QED BY <2>1, <2>4, FeedbackRead
<1>4. CASE F!MarkAsResolved(r)
  <2>1. PICK new : /\ new = F!Resolved([stored EXCEPT
                         !.status = "resolved", !.isResolved = TRUE, !.resolvedAt = F!Now])
                   /\ F!Change(r, "markAsResolved", new, {})
    BY <1>4 DEF F!MarkAsResolved, F!Do
  <2>2. /\ new.isResolved \in BOOLEAN /\ new.isResolved
        /\ new.resolvedAt = saves + 1
        /\ new.requiresFollowUp = stored.requiresFollowUp
        /\ new.followUpCompleted = stored.followUpCompleted
        /\ new.isResolved => new.status = "resolved"
    BY <1>1, <2>1 DEF Resolution, FeedbackFields, F!Resolved, F!Now
  <2>3. new.resolvedAt \in 0..saves + 1
    BY <1>1, <2>2 DEF Resolution
  <2>4. saves + 1 # 0 /\ \A x \in 0..saves : x # saves + 1
    BY <1>1
  <2>5. FeedbackCopy([op |-> "markAsResolved", old |-> stored, new |-> new, whole |-> {}], stored, saves)
    BY <1>1, <2>2, <2>3, <2>4 DEF Resolution, FeedbackCopy
  <2> QED BY <2>1, <2>5, FeedbackRead
<1>5. ASSUME NEW status \in F!Statuses, F!UpdateStatus(r, status)
      PROVE  FeedbackInv'
  <2>1. PICK new : /\ new = F!Resolved(
                         IF status = "resolved"
                         THEN [stored EXCEPT !.status = status, !.isResolved = TRUE,
                                             !.resolvedAt = F!Now]
                         ELSE [stored EXCEPT !.status = status, !.isResolved = FALSE,
                                   !.resolvedAt = IF stored.isResolved THEN 0 ELSE @])
                   /\ F!Change(r, "updateStatus", new, {})
    BY <1>5 DEF F!UpdateStatus, F!Do
  <2>2. /\ new.isResolved \in BOOLEAN /\ (new.isResolved <=> status = "resolved")
        /\ new.resolvedAt = IF status = "resolved" THEN saves + 1
                                  ELSE IF stored.isResolved THEN 0 ELSE stored.resolvedAt
        /\ new.requiresFollowUp = stored.requiresFollowUp
        /\ new.followUpCompleted = stored.followUpCompleted
        /\ new.isResolved => new.status = "resolved"
    BY <1>1, <2>1 DEF Resolution, FeedbackFields, F!Resolved, F!Now
  <2>3. new.resolvedAt \in 0..saves + 1
    BY <1>1, <2>2 DEF Resolution
  <2>4. saves + 1 # 0 /\ \A x \in 0..saves : x # saves + 1
    BY <1>1
  <2>5. FeedbackCopy([op |-> "updateStatus", old |-> stored, new |-> new, whole |-> {}], stored, saves)
    BY <1>1, <1>5, <2>2, <2>3, <2>4 DEF Resolution, FeedbackCopy
  <2> QED BY <2>1, <2>5, FeedbackRead
<1>6. CASE F!SetPriority(r)
  <2>1. PICK new : /\ new = F!Resolved(stored)
                   /\ F!Change(r, "setPriority", new, {})
    BY <1>6 DEF F!SetPriority, F!Do
  <2>2. /\ new.isResolved = stored.isResolved
        /\ new.resolvedAt = stored.resolvedAt
        /\ new.requiresFollowUp = stored.requiresFollowUp
        /\ new.followUpCompleted = stored.followUpCompleted
        /\ new.isResolved => new.status = "resolved"
    BY <1>1, <2>1 DEF Resolution, FeedbackFields, F!Resolved, F!Now
  <2>3. new.resolvedAt \in 0..saves + 1
    BY <1>1, <2>2 DEF Resolution
  <2>4. FeedbackCopy([op |-> "setPriority", old |-> stored, new |-> new, whole |-> {}], stored, saves)
    BY <1>1, <2>2, <2>3 DEF Resolution, FeedbackCopy
  <2> QED BY <2>1, <2>4, FeedbackRead
<1>7. CASE F!ScheduleFollowUp(r)
  <2>1. PICK new : /\ new = F!Resolved([stored EXCEPT
                         !.requiresFollowUp = TRUE, !.followUpDate = F!Now,
                         !.followUpCompleted = FALSE])
                   /\ F!Change(r, "scheduleFollowUp", new, {})
    BY <1>7 DEF F!ScheduleFollowUp, F!Do
  <2>2. /\ new.isResolved = stored.isResolved
        /\ new.resolvedAt = stored.resolvedAt
        /\ new.requiresFollowUp \in BOOLEAN /\ new.requiresFollowUp
        /\ new.followUpCompleted \in BOOLEAN /\ ~ new.followUpCompleted
        /\ new.isResolved => new.status = "resolved"
    BY <1>1, <2>1 DEF Resolution, FeedbackFields, F!Resolved, F!Now
  <2>3. new.resolvedAt \in 0..saves + 1
    BY <1>1, <2>2 DEF Resolution
  <2>4. FeedbackCopy([op |-> "scheduleFollowUp", old |-> stored, new |-> new, whole |-> {}], stored, saves)
    BY <1>1, <2>2, <2>3 DEF Resolution, FeedbackCopy
  <2> QED BY <2>1, <2>4, FeedbackRead
<1>8. CASE F!CompleteFollowUp(r)
  <2>1. PICK new : /\ new = F!Resolved([stored EXCEPT !.followUpCompleted = TRUE])
                   /\ stored.requiresFollowUp
                   /\ F!Change(r, "completeFollowUp", new, {})
    BY <1>8 DEF F!CompleteFollowUp, F!Do
  <2>2. /\ new.isResolved = stored.isResolved
        /\ new.resolvedAt = stored.resolvedAt
        /\ new.requiresFollowUp \in BOOLEAN /\ new.requiresFollowUp
        /\ new.followUpCompleted \in BOOLEAN /\ new.followUpCompleted
        /\ new.isResolved => new.status = "resolved"
        /\ stored.requiresFollowUp
    BY <1>1, <2>1 DEF Resolution, FeedbackFields, F!Resolved, F!Now
  <2>3. new.resolvedAt \in 0..saves + 1
    BY <1>1, <2>2 DEF Resolution
  <2>4. FeedbackCopy([op |-> "completeFollowUp", old |-> stored, new |-> new, whole |-> {}], stored, saves)
    BY <1>1, <2>2, <2>3 DEF Resolution, FeedbackCopy
  <2> QED BY <2>1, <2>4, FeedbackRead
<1> QED BY <1>2, <1>3, <1>4, <1>5, <1>6, <1>7, <1>8

LEMMA FeedbackSave ==
    ASSUME FeedbackInv, NEW r \in Requests, F!Save(r)
    PROVE  FeedbackInv' /\ F!ResolvedOverwrittenByOlderCopy
<1>1. PICK q, w : q = copy[r] /\ q # Nothing /\ Saved(r, {"responses"}, w)
  BY FeedbackSaves DEF F!Save, F!Arrays
<1>2. /\ FeedbackCopy(q, stored, saves) /\ q.whole = {} /\ saves \in Nat
      /\ Resolution(stored, saves) /\ DOMAIN copy = Requests
  BY <1>1 DEF FeedbackInv, FeedbackCopy
<1>3. SentPaths(q, {"responses"}, stored, stored')
  BY <1>1, <1>2, PathsSaved
<1>4. /\ DOMAIN stored' = FeedbackFields
      /\ stored'.status = Sent(q.old.status, q.new.status, stored.status)
      /\ stored'.isResolved = Sent(q.old.isResolved, q.new.isResolved, stored.isResolved)
      /\ stored'.resolvedAt = Sent(q.old.resolvedAt, q.new.resolvedAt, stored.resolvedAt)
      /\ stored'.requiresFollowUp =
            Sent(q.old.requiresFollowUp, q.new.requiresFollowUp, stored.requiresFollowUp)
      /\ stored'.followUpCompleted =
            Sent(q.old.followUpCompleted, q.new.followUpCompleted, stored.followUpCompleted)
  BY <1>2, <1>3 DEF SentPaths, Resolution, FeedbackFields
<1>5. saves' = saves + 1 /\ copy' = [copy EXCEPT ![r] = Nothing]
  BY <1>1 DEF Saved
<1>6. /\ Resolution(stored', saves')
      /\ stored.requiresFollowUp => stored'.requiresFollowUp
  BY <1>2, <1>4, <1>5 DEF Resolution, FeedbackCopy, Sent
<1>7. ASSUME NEW s \in Requests, copy'[s] # Nothing
      PROVE  FeedbackCopy(copy'[s], stored', saves')
  <2>1. PICK p : p = copy[s] /\ p = copy'[s] /\ FeedbackCopy(p, stored, saves)
    BY <1>2, <1>5, <1>7 DEF FeedbackInv
  <2>2. Resolution(p.old, saves') /\ (p.new.resolvedAt \in 0..saves' + 1)
    BY <1>2, <1>5, <2>1 DEF FeedbackCopy, Resolution
  <2> QED BY <1>6, <2>1, <2>2 DEF FeedbackCopy
<1>8. F!ResolvedOverwrittenByOlderCopy
  BY <1>1, <1>2, <1>4, <1>5 DEF F!ResolvedOverwrittenByOlderCopy, FeedbackCopy, Resolution,
     Sent
<1> QED BY <1>2, <1>5, <1>6, <1>7, <1>8 DEF FeedbackInv

LEMMA FeedbackFirst == F!Init => FeedbackInv
BY DEF F!Init, F!NoCopies, FeedbackInv, Resolution, FeedbackFields

LEMMA FeedbackSteps ==
    FeedbackInv /\ [F!Next]_(F!document) => FeedbackInv' /\ F!ResolvedOverwrittenByOlderCopy
<1> SUFFICES ASSUME FeedbackInv, [F!Next]_(F!document)
             PROVE  FeedbackInv' /\ F!ResolvedOverwrittenByOlderCopy
  OBVIOUS
<1>1. ASSUME NEW r \in Requests,
             \/ F!AddResponse(r)
             \/ F!MarkAsReviewed(r)
             \/ F!MarkAsResolved(r)
             \/ \E status \in F!Statuses : F!UpdateStatus(r, status)
             \/ F!SetPriority(r)
             \/ F!ScheduleFollowUp(r)
             \/ F!CompleteFollowUp(r)
      PROVE  FeedbackInv' /\ stored' = stored
  <2>1. stored' = stored
    BY <1>1 DEF F!AddResponse, F!Do, F!MarkAsReviewed, F!MarkAsResolved, F!UpdateStatus,
                F!SetPriority, F!ScheduleFollowUp, F!CompleteFollowUp, F!Change
  <2> QED BY <1>1, <2>1, FeedbackMethods
<1>2. ASSUME NEW r \in Requests, F!AbortCopy(r) PROVE FeedbackInv' /\ stored' = stored
  BY <1>2 DEF F!AbortCopy, FeedbackInv
<1>3. ASSUME UNCHANGED F!document PROVE FeedbackInv' /\ stored' = stored
  BY <1>3 DEF F!document, FeedbackInv
<1>4. stored' = stored => F!ResolvedOverwrittenByOlderCopy
  BY DEF F!ResolvedOverwrittenByOlderCopy
<1> QED BY <1>1, <1>2, <1>3, <1>4, FeedbackSave DEF F!Next, F!document

-----------------------------------------------------------------------------
(* Messages of a conversation: only what is not deleted is found. *)

DirectInv ==
    /\ DOMAIN copy = Requests
    /\ \A r \in Requests : copy[r] # Nothing => ~ copy[r].old.deletedAt

LEMMA DirectFirst == M!DirectInit => DirectInv
BY DEF M!DirectInit, M!NoCopies, DirectInv

LEMMA DirectSteps ==
    DirectInv /\ [M!DirectNext]_(M!document) => DirectInv' /\ M!DeletedChangesByOlderCopy
<1> SUFFICES ASSUME DirectInv, [M!DirectNext]_(M!document)
             PROVE  DirectInv' /\ M!DeletedChangesByOlderCopy
  OBVIOUS
<1>1. ASSUME NEW r \in Requests, NEW op, NEW new, M!Find(r, op, new)
      PROVE  DirectInv' /\ stored' = stored
  BY <1>1 DEF M!Find, M!Change, M!Copy, DirectInv
<1>2. ASSUME NEW r \in Requests,
             \/ M!MarkDirectAsDelivered(r) \/ M!MarkDirectAsRead(r) \/ M!SoftDeleteDirect(r)
             \/ \E u \in Users, type \in Reactions : M!AddReaction(r, u, type)
      PROVE  DirectInv' /\ stored' = stored
  <2>1. CASE M!MarkDirectAsDelivered(r)
    BY <1>1, <2>1 DEF M!MarkDirectAsDelivered
  <2>2. CASE M!MarkDirectAsRead(r)
    BY <1>1, <2>2 DEF M!MarkDirectAsRead
  <2>3. CASE M!SoftDeleteDirect(r)
    BY <1>1, <2>3 DEF M!SoftDeleteDirect
  <2>4. ASSUME NEW u \in Users, NEW type \in Reactions, M!AddReaction(r, u, type)
        PROVE  DirectInv' /\ stored' = stored
    <3>1. PICK new : M!Find(r, "addReaction", new)
      BY <2>4 DEF M!AddReaction
    <3> QED BY <1>1, <3>1
  <2> QED BY <1>2, <2>1, <2>2, <2>3, <2>4
<1>3. ASSUME NEW r \in Requests, M!SaveDirect(r)
      PROVE  DirectInv' /\ M!DeletedChangesByOlderCopy
  <2>1. copy[r] # Nothing /\ copy' = [copy EXCEPT ![r] = Nothing]
    BY <1>3 DEF M!SaveDirect, M!SaveCopy
  <2> QED BY <2>1 DEF DirectInv, M!DeletedChangesByOlderCopy
<1>4. ASSUME NEW r \in Requests, M!AbortCopy(r) PROVE DirectInv' /\ stored' = stored
  BY <1>4 DEF M!AbortCopy, DirectInv
<1>5. ASSUME M!NextMessage PROVE DirectInv' /\ ~ stored'.deletedAt
  BY <1>5 DEF M!NextMessage, DirectInv
<1>6. ASSUME UNCHANGED M!document PROVE DirectInv' /\ stored' = stored
  BY <1>6 DEF M!document, DirectInv
<1>7. stored' = stored \/ ~ stored'.deletedAt => M!DeletedChangesByOlderCopy
  BY DEF M!DeletedChangesByOlderCopy
<1> QED BY <1>2, <1>3, <1>4, <1>5, <1>6, <1>7 DEF M!DirectNext

-----------------------------------------------------------------------------
(* Notifications. *)

LEMMA NotificationSaves == \A r, A, w : N!SaveCopy(r, A, w) => Saved(r, A, w)
BY DEF Saved, N!SaveCopy, N!Accepted, N!ComparesVersion, N!ElementsChanged, N!Places,
       N!Merged, N!CountsVersion, N!Pushed, N!MergedArray, N!MergedElement,
       MD!Accepted, MD!ComparesVersion, MD!ElementsChanged, MD!Places,
       MD!Merged, MD!CountsVersion, MD!Pushed, MD!MergedArray, MD!MergedElement

\* A delivery after n saves, with a status of marks.
Noted(e, marks, n) ==
    /\ e \in N!Delivery
    /\ e.status \in marks
    /\ e.status = "FAILED" => e.retryCount > 0
    /\ e.retryCount <= n

\* What a copy does to a delivery: a failure is counted with the status.
DeliveryChange(x, y, op, n) ==
    /\ y \in N!Delivery
    /\ y.channel = x.channel
    /\ y.status # x.status => y.status = op
    /\ y.status # x.status /\ y.status = "FAILED" => y.retryCount # x.retryCount
    /\ y.retryCount # x.retryCount => y.retryCount \in 1..n + 1

AllNoted(s, marks, n) ==
    s \in Seq(N!Delivery) /\ \A i \in 1..Len(s) : Noted(s[i], marks, n)

DeliveriesChange(s, t, op, n) ==
    /\ t \in Seq(N!Delivery) /\ Len(s) <= Len(t)
    /\ \A i \in 1..Len(s) : DeliveryChange(s[i], t[i], op, n)
    /\ \A i \in 1..Len(t) - Len(s) : Noted(t[Len(s) + i], {op}, n + 1)

LEMMA DeliveryFields ==
    ASSUME NEW e \in N!Delivery
    PROVE  /\ e = [channel |-> e.channel, status |-> e.status, retryCount |-> e.retryCount]
           /\ e.channel \in Channels /\ e.status \in N!Statuses /\ e.retryCount \in Nat
BY DEF N!Delivery

\* One delivery, merged.
LEMMA DeliveryMerged ==
    ASSUME NEW marks, NEW n \in Nat, NEW op, NEW x \in N!Delivery, NEW y, NEW z,
           Noted(x, marks, n), DeliveryChange(x, y, op, n), Noted(z, marks, n)
    PROVE  Noted(MD!MergedElement(x, y, z), marks \cup {op}, n + 1)
<1>1. PICK e : e = MD!MergedElement(x, y, z)
  OBVIOUS
<1>2. y \in N!Delivery /\ z \in N!Delivery
  BY DEF Noted, DeliveryChange
<1>3. DOMAIN z = {"channel", "status", "retryCount"}
  BY <1>2 DEF N!Delivery
<1>4. e = [f \in {"channel", "status", "retryCount"} |-> IF x[f] = y[f] THEN z[f] ELSE y[f]]
  BY <1>1, <1>3 DEF MD!MergedElement
<1>5. /\ e = [channel |-> e.channel, status |-> e.status, retryCount |-> e.retryCount]
      /\ e.channel = Sent(x.channel, y.channel, z.channel)
      /\ e.status = Sent(x.status, y.status, z.status)
      /\ e.retryCount = Sent(x.retryCount, y.retryCount, z.retryCount)
  BY <1>4 DEF Sent
<1>6. e.channel \in Channels /\ e.status \in N!Statuses /\ e.retryCount \in Nat
  BY <1>2, <1>5, DeliveryFields DEF Sent
<1>7. e \in N!Delivery
  BY <1>5, <1>6 DEF N!Delivery
<1>8. y.retryCount \in Nat /\ z.retryCount \in Nat
  BY <1>2, DeliveryFields
<1>9. e.status \in marks \cup {op}
  BY <1>5 DEF Noted, DeliveryChange, Sent
<1>10. e.retryCount <= n + 1 /\ (e.status = "FAILED" => e.retryCount > 0)
  BY <1>5, <1>8 DEF Noted, DeliveryChange, Sent
<1> QED BY <1>1, <1>7, <1>9, <1>10 DEF Noted

LEMMA NotedLater ==
    ASSUME NEW marks, NEW n \in Nat, NEW more, NEW e, Noted(e, marks, n), marks \subseteq more
    PROVE  Noted(e, more, n) /\ Noted(e, more, n + 1)
<1>1. e.retryCount \in Nat
  BY DeliveryFields DEF Noted
<1> QED BY <1>1 DEF Noted

LEMMA ChangeLater ==
    ASSUME NEW n \in Nat, NEW op, NEW x, NEW y, DeliveryChange(x, y, op, n)
    PROVE  DeliveryChange(x, y, op, n + 1)
<1>1. \A c : c \in 1..n + 1 => c \in 1..(n + 1) + 1
  OBVIOUS
<1> QED BY <1>1 DEF DeliveryChange

\* All of them, merged.
LEMMA DeliveriesMerged ==
    ASSUME NEW marks, NEW n \in Nat, NEW op, NEW s, NEW old, NEW new, NEW m,
           AllNoted(s, marks, n), AllNoted(old, marks, n), DeliveriesChange(old, new, op, n),
           MergedByPlace(old, new, s, m)
    PROVE  AllNoted(m, marks \cup {op}, n + 1)
<1>1. PICK k \in Nat, l \in Nat, p \in Nat : k = Len(s) /\ l = Len(old) /\ p = Len(new)
  BY DEF AllNoted, DeliveriesChange
<1>2. l <= p /\ p - l \in Nat /\ k + (p - l) \in Nat
  BY <1>1 DEF DeliveriesChange
<1>3. /\ m = [i \in 1..k + (p - l) |-> m[i]] /\ Len(m) = k + (p - l)
      /\ \A i \in 1..k : m[i] = IF i \in 1..l /\ old[i] # new[i]
                                THEN MD!MergedElement(old[i], new[i], s[i]) ELSE s[i]
      /\ \A i \in 1..p - l : m[k + i] = new[l + i]
  BY <1>1 DEF MergedByPlace
<1>4. ASSUME NEW i \in 1..k PROVE Noted(m[i], marks \cup {op}, n + 1)
  <2>1. Noted(s[i], marks, n)
    BY <1>1 DEF AllNoted
  <2>2. CASE i \in 1..l /\ old[i] # new[i]
    <3>1. Noted(old[i], marks, n) /\ DeliveryChange(old[i], new[i], op, n)
      BY <1>1, <2>2 DEF AllNoted, DeliveriesChange
    <3>2. m[i] = MD!MergedElement(old[i], new[i], s[i])
      BY <1>3, <2>2
    <3>3. old[i] \in N!Delivery
      BY <3>1 DEF Noted
    <3> QED BY <2>1, <3>1, <3>2, <3>3, DeliveryMerged
  <2>3. CASE ~ (i \in 1..l /\ old[i] # new[i])
    <3>1. m[i] = s[i]
      BY <1>3, <2>3
    <3> QED BY <2>1, <3>1, NotedLater
  <2> QED BY <2>2, <2>3
<1>5. ASSUME NEW i \in 1..p - l PROVE Noted(m[k + i], marks \cup {op}, n + 1)
  <2>1. Noted(new[l + i], {op}, n + 1) /\ m[k + i] = new[l + i]
    BY <1>1, <1>3 DEF DeliveriesChange
  <2> QED BY <2>1 DEF Noted
<1>6. ASSUME NEW i \in 1..k + (p - l) PROVE Noted(m[i], marks \cup {op}, n + 1)
  <2>1. CASE i \in 1..k
    BY <1>4, <2>1
  <2>2. CASE i \notin 1..k
    <3>1. i - k \in 1..p - l /\ k + (i - k) = i
      BY <1>2, <2>2
    <3> QED BY <1>5, <3>1
  <2> QED BY <2>1, <2>2
<1>7. m \in Seq(N!Delivery)
  <2>1. \A i \in 1..k + (p - l) : m[i] \in N!Delivery
    BY <1>6 DEF Noted
  <2>2. m \in [1..k + (p - l) -> N!Delivery]
    BY <1>3, <2>1
  <2> QED BY <1>2, <2>2, SeqDef
<1> QED BY <1>3, <1>6, <1>7 DEF AllNoted

LEMMA DeliveriesSame ==
    ASSUME NEW s \in Seq(N!Delivery), NEW op, NEW n
    PROVE  DeliveriesChange(s, s, op, n)
<1>1. Len(s) \in Nat /\ \A i \in 1..Len(s) : s[i] \in N!Delivery
  OBVIOUS
<1>2. \A i \in 1..Len(s) - Len(s) : FALSE
  BY <1>1
<1> QED BY <1>1, <1>2 DEF DeliveriesChange, DeliveryChange

-----------------------------------------------------------------------------
\* What the methods do to the deliveries.
NotificationFields == {"status", "deliveries", "version"}

\* A status that counts a failure.
CountedAs(status, failed) == failed = IF status = "FAILED" THEN 1 ELSE 0

MarkedAs(d, t, status, marks, n) ==
    /\ DOMAIN t = NotificationFields
    /\ t.status = d.status
    /\ DeliveriesChange(d.deliveries, t.deliveries, status, n)
    /\ \A i \in 1..Len(t.deliveries) : t.deliveries[i].status \in marks \cup {status}

LEMMA DeliveryMarked ==
    ASSUME NEW d, DOMAIN d = NotificationFields, d.deliveries \in Seq(N!Delivery),
           NEW channel \in Channels, NEW status \in N!Statuses, NEW failed,
           CountedAs(status, failed),
           NEW marks, NEW n \in Nat, AllNoted(d.deliveries, marks, n)
    PROVE  MarkedAs(d, N!Marked(d, channel, status, failed), status, marks, n)
<1>0. failed \in {0, 1} /\ (failed = IF status = "FAILED" THEN 1 ELSE 0)
  BY DEF CountedAs
<1>1. PICK s \in Seq(N!Delivery), k \in Nat : s = d.deliveries /\ k = Len(s)
  OBVIOUS
<1>2. PICK t : t = N!Marked(d, channel, status, failed)
  OBVIOUS
<1>3. \A i \in 1..k : s[i] \in N!Delivery /\ Noted(s[i], marks, n)
  BY <1>1 DEF AllNoted
<1>4. CASE N!HasDelivery(d, channel)
  <2>1. PICK p : p = N!FirstOf(d, channel)
    OBVIOUS
  <2>2. PICK e : e = [s[p] EXCEPT !.status = status, !.retryCount = @ + failed]
    OBVIOUS
  <2>3. t = [d EXCEPT !.deliveries = [s EXCEPT ![p] = e]]
    BY <1>1, <1>2, <1>4, <2>1, <2>2 DEF N!Marked
  <2>4. PICK u : u = [s EXCEPT ![p] = e]
    OBVIOUS
  <2>5. DOMAIN t = NotificationFields /\ t.status = d.status /\ t.deliveries = u
    BY <2>3, <2>4 DEF NotificationFields
  <2>6. ASSUME p \in 1..k
        PROVE  /\ e \in N!Delivery /\ e.status = status /\ DeliveryChange(s[p], e, status, n)
    <3>1. PICK x \in N!Delivery : x = s[p] /\ Noted(x, marks, n)
      BY <1>3, <2>6
    <3>2. /\ x = [channel |-> x.channel, status |-> x.status, retryCount |-> x.retryCount]
          /\ x.channel \in Channels /\ x.status \in N!Statuses /\ x.retryCount \in Nat
      BY DeliveryFields
    <3>3. e = [channel |-> x.channel, status |-> status, retryCount |-> x.retryCount + failed]
      BY <2>2, <3>1, <3>2
    <3>4. x.retryCount + failed \in Nat /\ x.retryCount <= n
      BY <1>0, <3>1, <3>2 DEF Noted
    <3>5. e \in N!Delivery
      BY <3>2, <3>3, <3>4 DEF N!Delivery
    <3>6. e.channel = x.channel /\ e.status = status /\ e.retryCount = x.retryCount + failed
      BY <3>3
    <3>7. /\ e.retryCount # x.retryCount => e.retryCount \in 1..n + 1
          /\ status = "FAILED" => e.retryCount # x.retryCount
      BY <1>0, <3>2, <3>4, <3>6
    <3> QED BY <3>1, <3>5, <3>6, <3>7 DEF DeliveryChange
  <2>7. /\ u \in [1..k -> N!Delivery]
        /\ \A i \in 1..k : u[i] = IF i = p THEN e ELSE s[i]
    <3>1. s \in [1..k -> N!Delivery]
      BY <1>1, <1>3
    <3> QED BY <2>4, <2>6, <3>1
  <2>8. u \in Seq(N!Delivery) /\ Len(u) = k
    BY <2>7, SeqDef
  <2>9. DeliveriesChange(s, s, status, n)
    BY DeliveriesSame
  <2>10. ASSUME NEW i \in 1..k
         PROVE  DeliveryChange(s[i], u[i], status, n) /\ u[i].status \in marks \cup {status}
    <3>1. DeliveryChange(s[i], s[i], status, n) /\ s[i].status \in marks
      BY <1>1, <1>3, <2>9 DEF DeliveriesChange, Noted
    <3> QED BY <2>6, <2>7, <3>1
  <2>11. \A i \in 1..k - k : FALSE
    OBVIOUS
  <2>12. DeliveriesChange(s, u, status, n)
    BY <1>1, <2>8, <2>10, <2>11 DEF DeliveriesChange
  <2> QED BY <1>1, <1>2, <2>5, <2>8, <2>10, <2>12 DEF MarkedAs
<1>5. CASE ~ N!HasDelivery(d, channel)
  <2>1. PICK e : e = [channel |-> channel, status |-> status, retryCount |-> failed]
    OBVIOUS
  <2>2. e \in N!Delivery
    BY <1>0, <2>1 DEF N!Delivery
  <2>3. Noted(e, {status}, n + 1)
    BY <1>0, <2>1, <2>2 DEF Noted
  <2>4. PICK u : u = Append(s, e)
    OBVIOUS
  <2>5. t = [d EXCEPT !.deliveries = u]
    BY <1>1, <1>2, <1>5, <2>1, <2>4 DEF N!Marked
  <2>6. DOMAIN t = NotificationFields /\ t.status = d.status /\ t.deliveries = u
    BY <2>5 DEF NotificationFields
  <2>7. /\ u \in Seq(N!Delivery) /\ Len(u) = k + 1 /\ u[k + 1] = e
        /\ \A i \in 1..k : u[i] = s[i]
    BY <1>1, <2>2, <2>4
  <2>8. DeliveriesChange(s, s, status, n)
    BY DeliveriesSame
  <2>9. \A i \in 1..k : DeliveryChange(s[i], u[i], status, n) /\ u[i].status \in marks
    BY <1>1, <1>3, <2>7, <2>8 DEF DeliveriesChange, Noted
  <2>10. /\ \A i \in 1..(k + 1) - k : i = 1
         /\ \A i \in 1..k + 1 : i \in 1..k \/ i = k + 1
         /\ k <= k + 1
    OBVIOUS
  <2>11. \A i \in 1..(k + 1) - k : Noted(u[k + i], {status}, n + 1)
    BY <2>3, <2>7, <2>10
  <2>12. DeliveriesChange(s, u, status, n)
    BY <1>1, <2>7, <2>9, <2>10, <2>11 DEF DeliveriesChange
  <2>13. \A i \in 1..k + 1 : u[i].status \in marks \cup {status}
    BY <2>1, <2>7, <2>9, <2>10
  <2> QED BY <1>1, <1>2, <2>6, <2>7, <2>12, <2>13 DEF MarkedAs
<1> QED BY <1>4, <1>5

\* What the hook makes of a status and deliveries that were marked.
LEMMA StatusDerived ==
    ASSUME NEW d, DOMAIN d = NotificationFields, d.deliveries \in Seq(N!Delivery), NEW marks,
           d.status \in marks, \A i \in 1..Len(d.deliveries) : d.deliveries[i].status \in marks
    PROVE  LET t == N!Derived(d)
           IN  /\ DOMAIN t = NotificationFields
               /\ t.deliveries = d.deliveries
               /\ t.status \in marks
               /\ N!Some(t, "READ") => t.status = "READ"
<1>1. PICK s \in Seq(N!Delivery), k \in Nat : s = d.deliveries /\ k = Len(s) /\ DOMAIN s = 1..k
  OBVIOUS
<1>2. \A status : N!Some(d, status) => status \in marks
  BY <1>1 DEF N!Some
<1>3. \A status : s # << >> /\ N!All(d, status) => status \in marks
  <2>1. s # << >> => 1 \in 1..k
    BY <1>1
  <2> QED BY <1>1, <2>1 DEF N!All
<1>4. ASSUME s = << >> PROVE ~ N!Some(d, "READ")
  BY <1>1, <1>4 DEF N!Some
<1>5. ASSUME NEW status, NEW t, t = [d EXCEPT !.status = status]
      PROVE  /\ DOMAIN t = NotificationFields /\ t.deliveries = d.deliveries
             /\ t.status = status
  BY <1>5 DEF NotificationFields
<1>6. PICK t : t = N!Derived(d)
  OBVIOUS
<1>7. t = d \/ \E status : t = [d EXCEPT !.status = status]
  BY <1>6 DEF N!Derived
<1>8. DOMAIN t = NotificationFields /\ t.deliveries = d.deliveries
  BY <1>5, <1>7
<1>9. /\ t.status \in marks
      /\ N!Some(d, "READ") => t.status = "READ"
  BY <1>1, <1>2, <1>3, <1>4, <1>5, <1>6 DEF N!Derived
<1>10. N!Some(t, "READ") => N!Some(d, "READ")
  BY <1>8 DEF N!Some
<1> QED BY <1>6, <1>8, <1>9, <1>10

-----------------------------------------------------------------------------
Notification(d, marks, n) ==
    /\ DOMAIN d = NotificationFields
    /\ d.status \in marks
    /\ AllNoted(d.deliveries, marks, n)

NotificationCopy(q, marks, n) ==
    /\ q.whole = {}
    /\ Notification(q.old, marks, n)
    /\ DeliveriesChange(q.old.deliveries, q.new.deliveries, q.op, n)
    /\ q.new.status \in marks \cup {q.op}
    /\ N!Some(q.new, "READ") => q.new.status = "READ"

NotificationInv ==
    /\ saves \in Nat /\ DOMAIN world = {"expired", "marks"}
    /\ Notification(stored, world.marks, saves)
    /\ DOMAIN copy = Requests
    /\ \A r \in Requests : copy[r] # Nothing => NotificationCopy(copy[r], world.marks, saves)

\* What a method does, before the hook.
DoneByMethods(d, op) ==
    /\ DOMAIN d = NotificationFields
    /\ d.status \in world.marks \cup {op}
    /\ DeliveriesChange(stored.deliveries, d.deliveries, op, saves)
    /\ \A i \in 1..Len(d.deliveries) : d.deliveries[i].status \in world.marks \cup {op}

LEMMA NotificationDo ==
    ASSUME NotificationInv, NEW r \in Requests, NEW op, NEW d, DoneByMethods(d, op), N!Do(r, op, d)
    PROVE  NotificationInv'
<1>1. PICK t : t = N!Derived(d)
  OBVIOUS
<1>2. d.deliveries \in Seq(N!Delivery)
  BY DEF DoneByMethods, DeliveriesChange
<1>3. /\ t.deliveries = d.deliveries /\ t.status \in world.marks \cup {op}
      /\ N!Some(t, "READ") => t.status = "READ"
  BY <1>1, <1>2, StatusDerived DEF DoneByMethods
<1>4. PICK q : q = [op |-> op, old |-> stored, new |-> t, whole |-> {}]
  OBVIOUS
<1>5. UNCHANGED <<stored, world, saves>> /\ copy' = [copy EXCEPT ![r] = q]
  BY <1>1, <1>4 DEF N!Do, N!Change, N!Copy
<1>6. q.op = op /\ q.old = stored /\ q.new = t /\ q.whole = {}
  BY <1>4
<1>7. DeliveriesChange(q.old.deliveries, q.new.deliveries, q.op, saves)
  BY <1>3, <1>6 DEF DoneByMethods
<1>8. NotificationCopy(q, world.marks, saves)
  BY <1>3, <1>6, <1>7 DEF NotificationCopy, NotificationInv
<1> QED BY <1>5, <1>8 DEF NotificationInv

LEMMA NotificationMethods ==
    ASSUME NotificationInv, NEW r \in Requests,
           \/ N!MarkAsRead(r) \/ N!Cancel(r)
           \/ \E channel \in Channels :
                 \/ N!MarkAsSent(r, channel) \/ N!MarkAsDelivered(r, channel)
                 \/ N!MarkAsFailed(r, channel) \/ N!AddDelivery(r, channel)
    PROVE  NotificationInv'
<1>1. /\ DOMAIN stored = NotificationFields /\ stored.status \in world.marks
      /\ AllNoted(stored.deliveries, world.marks, saves) /\ saves \in Nat
      /\ stored.deliveries \in Seq(N!Delivery)
  BY DEF NotificationInv, Notification, AllNoted
<1>2. \A i \in 1..Len(stored.deliveries) : stored.deliveries[i].status \in world.marks
  BY <1>1 DEF AllNoted, Noted
<1>3. \A op : DeliveriesChange(stored.deliveries, stored.deliveries, op, saves)
  BY <1>1, DeliveriesSame
<1>4. ASSUME NEW d, NEW status, d = [stored EXCEPT !.status = status]
      PROVE  /\ DOMAIN d = NotificationFields /\ d.status = status
             /\ d.deliveries = stored.deliveries
  BY <1>1, <1>4 DEF NotificationFields
<1>5. ASSUME NEW channel \in Channels, NEW status \in {"SENT", "DELIVERED", "FAILED", "PENDING"},
             NEW failed, CountedAs(status, failed),
             NEW t, t = N!Marked(stored, channel, status, failed)
      PROVE  /\ DOMAIN t = NotificationFields /\ t.status = stored.status
             /\ DeliveriesChange(stored.deliveries, t.deliveries, status, saves)
             /\ \A i \in 1..Len(t.deliveries) :
                   t.deliveries[i].status \in world.marks \cup {status}
  <2>1. status \in N!Statuses
    BY DEF N!Statuses
  <2>2. MarkedAs(stored, N!Marked(stored, channel, status, failed), status, world.marks, saves)
    BY <1>1, <1>5, <2>1, DeliveryMarked
  <2> QED BY <1>5, <2>2 DEF MarkedAs
<1>6. CASE N!MarkAsRead(r)
  <2>1. PICK e : e = [stored EXCEPT !.status = "READ"]
    OBVIOUS
  <2>2. /\ DOMAIN e = NotificationFields /\ e.status = "READ"
        /\ e.deliveries = stored.deliveries
    BY <1>4, <2>1
  <2>3. CASE N!HasDelivery(stored, "IN_APP")
    <3>1. "IN_APP" \in Channels
      BY <1>1, <2>3, DeliveryFields DEF N!HasDelivery
    <3>2. PICK d : d = N!Marked(e, "IN_APP", "READ", 0)
      OBVIOUS
    <3>3. N!Do(r, "READ", d)
      BY <1>6, <2>1, <2>3, <3>2 DEF N!MarkAsRead
    <3>4. "READ" \in N!Statuses
      BY DEF N!Statuses
    <3>6. CountedAs("READ", 0)
      BY DEF CountedAs
    <3>7. MarkedAs(e, N!Marked(e, "IN_APP", "READ", 0), "READ", world.marks, saves)
      BY <1>1, <2>2, <3>1, <3>4, <3>6, DeliveryMarked
    <3>5. /\ DOMAIN d = NotificationFields /\ d.status = "READ"
          /\ DeliveriesChange(stored.deliveries, d.deliveries, "READ", saves)
          /\ \A i \in 1..Len(d.deliveries) :
                d.deliveries[i].status \in world.marks \cup {"READ"}
      BY <2>2, <3>2, <3>7 DEF MarkedAs
    <3> QED BY <3>3, <3>5, NotificationDo DEF DoneByMethods
  <2>4. CASE ~ N!HasDelivery(stored, "IN_APP")
    <3>1. N!Do(r, "READ", e)
      BY <1>6, <2>1, <2>4 DEF N!MarkAsRead
    <3>2. DoneByMethods(e, "READ")
      BY <1>2, <1>3, <2>2 DEF DoneByMethods
    <3> QED BY <3>1, <3>2, NotificationDo
  <2> QED BY <2>3, <2>4
<1>7. ASSUME NEW channel \in Channels, NEW op \in {"SENT", "DELIVERED"}, NEW t, NEW d,
             NEW status \in {stored.status, op},
             t = N!Marked(stored, channel, op, 0), d = [t EXCEPT !.status = status],
             N!Do(r, op, d)
      PROVE  NotificationInv'
  <2>0. CountedAs(op, 0)
    BY DEF CountedAs
  <2>1. /\ DOMAIN t = NotificationFields /\ t.status = stored.status
        /\ DeliveriesChange(stored.deliveries, t.deliveries, op, saves)
        /\ \A i \in 1..Len(t.deliveries) : t.deliveries[i].status \in world.marks \cup {op}
    BY <1>5, <1>7, <2>0
  <2>2. DOMAIN d = NotificationFields /\ d.status = status /\ d.deliveries = t.deliveries
    BY <1>7, <2>1 DEF NotificationFields
  <2>3. DoneByMethods(d, op)
    BY <1>1, <2>1, <2>2 DEF DoneByMethods
  <2> QED BY <1>7, <2>3, NotificationDo
<1>8. ASSUME NEW channel \in Channels, N!MarkAsSent(r, channel) PROVE NotificationInv'
  <2>1. PICK t : t = N!Marked(stored, channel, "SENT", 0)
    OBVIOUS
  <2>2. t.status = stored.status
    BY <1>5, <2>1 DEF CountedAs
  <2>3. PICK status \in {stored.status, "SENT"} :
            status = IF stored.status \in {"READ", "DELIVERED"} THEN stored.status ELSE "SENT"
    OBVIOUS
  <2>4. N!Do(r, "SENT", [t EXCEPT !.status = status])
    BY <1>8, <2>1, <2>2, <2>3 DEF N!MarkAsSent
  <2> QED BY <1>7, <2>1, <2>4
<1>9. ASSUME NEW channel \in Channels, N!MarkAsDelivered(r, channel) PROVE NotificationInv'
  <2>1. PICK t : t = N!Marked(stored, channel, "DELIVERED", 0)
    OBVIOUS
  <2>2. t.status = stored.status
    BY <1>5, <2>1 DEF CountedAs
  <2>3. PICK status \in {stored.status, "DELIVERED"} :
            status = IF stored.status = "READ" THEN stored.status ELSE "DELIVERED"
    OBVIOUS
  <2>4. N!Do(r, "DELIVERED", [t EXCEPT !.status = status])
    BY <1>9, <2>1, <2>2, <2>3 DEF N!MarkAsDelivered
  <2> QED BY <1>7, <2>1, <2>4
<1>10. ASSUME NEW channel \in Channels, NEW op \in {"FAILED", "PENDING"}, NEW failed,
              CountedAs(op, failed),
              NEW t, t = N!Marked(stored, channel, op, failed), N!Do(r, op, t)
       PROVE  NotificationInv'
  <2>1. DoneByMethods(t, op)
    BY <1>1, <1>5, <1>10 DEF DoneByMethods
  <2> QED BY <1>10, <2>1, NotificationDo
<1>11. ASSUME NEW channel \in Channels, N!MarkAsFailed(r, channel) PROVE NotificationInv'
  <2>1. N!Do(r, "FAILED", N!Marked(stored, channel, "FAILED", 1))
    BY <1>11 DEF N!MarkAsFailed
  <2> QED BY <1>10, <2>1 DEF CountedAs
<1>12. ASSUME NEW channel \in Channels, N!AddDelivery(r, channel) PROVE NotificationInv'
  <2>1. CASE N!Do(r, "PENDING", N!Marked(stored, channel, "PENDING", 0))
    BY <1>10, <2>1 DEF CountedAs
  <2>2. CASE N!Do(r, "PENDING", stored)
    <3>1. DoneByMethods(stored, "PENDING")
      BY <1>1, <1>2, <1>3 DEF DoneByMethods
    <3> QED BY <2>2, <3>1, NotificationDo
  <2> QED BY <1>12, <2>1, <2>2 DEF N!AddDelivery
<1>13. CASE N!Cancel(r)
  <2>1. PICK s \in Seq(N!Delivery), k \in Nat :
            s = stored.deliveries /\ k = Len(s) /\ DOMAIN s = 1..k
    BY <1>1
  <2>2. PICK t : t = [i \in 1..k |-> IF s[i].status = "PENDING"
                                     THEN [s[i] EXCEPT !.status = "CANCELLED"] ELSE s[i]]
    OBVIOUS
  <2>3. PICK d : d = [stored EXCEPT !.status = "CANCELLED", !.deliveries = t]
    OBVIOUS
  <2>4. N!Do(r, "CANCELLED", d)
    BY <1>13, <2>1, <2>2, <2>3 DEF N!Cancel
  <2>5. DOMAIN d = NotificationFields /\ d.status = "CANCELLED" /\ d.deliveries = t
    BY <1>1, <2>3 DEF NotificationFields
  <2>6. ASSUME NEW i \in 1..k
        PROVE  /\ t[i] \in N!Delivery /\ DeliveryChange(s[i], t[i], "CANCELLED", saves)
               /\ t[i].status \in world.marks \cup {"CANCELLED"}
    <3>1. PICK x \in N!Delivery : x = s[i] /\ Noted(x, world.marks, saves)
      BY <1>1, <2>1 DEF AllNoted
    <3>2. /\ x = [channel |-> x.channel, status |-> x.status, retryCount |-> x.retryCount]
          /\ x.channel \in Channels /\ x.status \in N!Statuses /\ x.retryCount \in Nat
      BY DeliveryFields
    <3>3. PICK e : e = [channel |-> x.channel, status |-> "CANCELLED",
                        retryCount |-> x.retryCount]
      OBVIOUS
    <3>4. e \in N!Delivery
      BY <3>2, <3>3 DEF N!Delivery, N!Statuses
    <3>5. t[i] = IF x.status = "PENDING" THEN e ELSE x
      BY <2>2, <3>1, <3>2, <3>3
    <3>6. e.channel = x.channel /\ e.retryCount = x.retryCount /\ e.status = "CANCELLED"
      BY <3>3
    <3> QED BY <3>1, <3>4, <3>5, <3>6 DEF DeliveryChange, Noted
  <2>7. t \in Seq(N!Delivery) /\ Len(t) = k
    <3>1. t \in [1..k -> N!Delivery]
      BY <2>2, <2>6
    <3> QED BY <3>1, SeqDef
  <2>8. \A i \in 1..k - k : FALSE
    OBVIOUS
  <2>9. DeliveriesChange(s, t, "CANCELLED", saves)
    BY <2>1, <2>6, <2>7, <2>8 DEF DeliveriesChange
  <2>10. DoneByMethods(d, "CANCELLED")
    BY <2>1, <2>5, <2>6, <2>7, <2>9 DEF DoneByMethods
  <2> QED BY <2>4, <2>10, NotificationDo
<1> QED BY <1>6, <1>8, <1>9, <1>11, <1>12, <1>13

-----------------------------------------------------------------------------
\* What remains of a copy as marks and saves become more.
LEMMA NotificationKept ==
    ASSUME NotificationInv, DOMAIN world' = {"expired", "marks"},
           world.marks \subseteq world'.marks, saves' \in {saves, saves + 1},
           Notification(stored', world'.marks, saves'),
           DOMAIN copy' = Requests, \A r \in Requests : copy'[r] \in {copy[r], Nothing}
    PROVE  NotificationInv'
<1>1. saves \in Nat /\ saves' \in Nat
  BY DEF NotificationInv
<1>2. ASSUME NEW s, AllNoted(s, world.marks, saves) PROVE AllNoted(s, world'.marks, saves')
  <2>1. ASSUME NEW i \in 1..Len(s) PROVE Noted(s[i], world'.marks, saves')
    <3>1. Noted(s[i], world.marks, saves)
      BY <1>2 DEF AllNoted
    <3>2. Noted(s[i], world'.marks, saves) /\ Noted(s[i], world'.marks, saves + 1)
      BY <1>1, <3>1, NotedLater
    <3> QED BY <3>2
  <2> QED BY <1>2, <2>1 DEF AllNoted
<1>3. ASSUME NEW s, NEW t, NEW op, DeliveriesChange(s, t, op, saves)
      PROVE  DeliveriesChange(s, t, op, saves')
  <2>1. ASSUME NEW i \in 1..Len(s) PROVE DeliveryChange(s[i], t[i], op, saves')
    <3>1. DeliveryChange(s[i], t[i], op, saves)
      BY <1>3 DEF DeliveriesChange
    <3>2. CASE saves' = saves
      BY <3>1, <3>2
    <3>3. CASE saves' = saves + 1
      <4>1. DeliveryChange(s[i], t[i], op, saves + 1)
        BY <1>1, <3>1, ChangeLater
      <4> QED BY <3>3, <4>1
    <3> QED BY <3>2, <3>3
  <2>3. \A i \in 1..Len(t) - Len(s) : Noted(t[Len(s) + i], {op}, saves + 1)
    BY <1>3 DEF DeliveriesChange
  <2>2. ASSUME NEW i \in 1..Len(t) - Len(s)
        PROVE  Noted(t[Len(s) + i], {op}, saves' + 1)
    <3>1. Noted(t[Len(s) + i], {op}, saves + 1)
      BY <2>3
    <3>5. saves + 1 \in Nat
      BY <1>1
    <3>2. Noted(t[Len(s) + i], {op}, (saves + 1) + 1)
      <4>1. PICK e, m, n : e = t[Len(s) + i] /\ m = {op} /\ n = saves + 1 /\ n \in Nat
        BY <3>5
      <4>2. Noted(e, m, n)
        BY <3>1, <4>1
      <4>3. Noted(e, m, n + 1)
        <5>1. e.retryCount \in Nat
          BY <4>2, DeliveryFields DEF Noted
        <5> QED BY <4>1, <4>2, <5>1 DEF Noted
      <4> QED BY <4>1, <4>3
    <3>3. CASE saves' = saves
      BY <3>1, <3>3
    <3>4. CASE saves' = saves + 1
      BY <3>2, <3>4
    <3> QED BY <3>3, <3>4
  <2> QED BY <1>3, <2>1, <2>2 DEF DeliveriesChange
<1>4. ASSUME NEW q, NotificationCopy(q, world.marks, saves)
      PROVE  NotificationCopy(q, world'.marks, saves')
  BY <1>2, <1>3, <1>4 DEF NotificationCopy, Notification
<1> QED BY <1>1, <1>4 DEF NotificationInv

LEMMA NotificationSave ==
    ASSUME NotificationInv, NEW r \in Requests, N!Save(r)
    PROVE  NotificationInv' /\ N!UnreadOnlyWithoutReadDelivery
<1>1. PICK q, w : /\ q = copy[r] /\ q # Nothing /\ Saved(r, {"deliveries"}, w)
                  /\ w = [world EXCEPT !.marks = @ \cup {q.op}]
  BY NotificationSaves DEF N!Save, N!Arrays
<1>2. /\ NotificationCopy(q, world.marks, saves) /\ q.whole = {} /\ saves \in Nat
      /\ DOMAIN world = {"expired", "marks"} /\ Notification(stored, world.marks, saves)
      /\ DOMAIN copy = Requests
  BY <1>1 DEF NotificationInv, NotificationCopy
<1>3. PICK s, old, new, m : /\ s = stored.deliveries /\ old = q.old.deliveries
                            /\ new = q.new.deliveries /\ m = stored'.deliveries
  OBVIOUS
<1>4. /\ AllNoted(s, world.marks, saves) /\ AllNoted(old, world.marks, saves)
      /\ DeliveriesChange(old, new, q.op, saves)
      /\ stored.status \in world.marks /\ q.new.status \in world.marks \cup {q.op}
      /\ DOMAIN stored = NotificationFields
      /\ N!Some(q.new, "READ") => q.new.status = "READ"
  BY <1>2, <1>3 DEF NotificationCopy, Notification
<1>5. SentPaths(q, {"deliveries"}, stored, stored')
  BY <1>1, <1>2, PathsSaved
<1>6. /\ DOMAIN stored' = NotificationFields
      /\ stored'.status = Sent(q.old.status, q.new.status, stored.status)
  BY <1>4, <1>5 DEF SentPaths, NotificationFields
<1>7. MergedByPlace(old, new, s, m)
  <2>1. m = MD!MergedArray(q, "deliveries")
    <3>1. stored' = MD!Merged(q, {"deliveries"})
      BY <1>1 DEF Saved
    <3>2. "version" \notin {"deliveries"} \cup q.whole /\ "deliveries" \in DOMAIN stored
          /\ "deliveries" \in {"deliveries"} \ q.whole
      BY <1>2, <1>4 DEF NotificationFields
    <3> QED BY <1>3, <3>1, <3>2, MergedFields
  <2>2. stored["deliveries"] \in Seq(N!Delivery) /\ CopiedArray(q, "deliveries", N!Delivery)
    BY <1>3, <1>4 DEF CopiedArray, AllNoted, DeliveriesChange
  <2> QED BY <1>3, <2>1, <2>2, MergedPlaces
<1>8. saves' = saves + 1 /\ copy' = [copy EXCEPT ![r] = Nothing] /\ world' = w
  BY <1>1 DEF Saved
<1>9. DOMAIN world' = {"expired", "marks"} /\ world'.marks = world.marks \cup {q.op}
  BY <1>1, <1>2, <1>8
<1>10. AllNoted(m, world.marks \cup {q.op}, saves + 1)
  BY <1>2, <1>4, <1>7, DeliveriesMerged
<1>11. Notification(stored', world'.marks, saves')
  BY <1>3, <1>4, <1>6, <1>8, <1>9, <1>10 DEF Notification, Sent
<1>12. NotificationInv'
  BY <1>2, <1>8, <1>9, <1>11, NotificationKept
<1>13. N!UnreadOnlyWithoutReadDelivery
  BY <1>1, <1>2, <1>4, <1>6, <1>8 DEF N!UnreadOnlyWithoutReadDelivery, Sent
<1> QED BY <1>12, <1>13

\* A set of channels, one after the other.
LEMMA ChannelsInOrder ==
    ASSUME NEW own \in SUBSET Channels
    PROVE  LET s == [i \in 1..N!Cardinality(own) |-> N!Pending(N!SetToSeq(own)[i])]
           IN  s \in Seq(N!Delivery) /\ \A i \in 1..Len(s) : Noted(s[i], {"PENDING"}, 0)
<1>1. PICK k \in Nat : k = Cardinality(own) /\ ExistsBijection(1..k, own)
  BY ChannelsAssumption, FS_Subset, FS_CardinalityType
<1>2. N!Cardinality(own) = k
  BY <1>1 DEF Cardinality, N!Cardinality, IsFiniteSet, N!IsFiniteSet
<1>3. \E f \in [1..k -> own] : N!IsInjective(f)
  BY <1>1 DEF ExistsBijection, Bijection, Injection, IsInjective, N!IsInjective
<1>4. N!SetToSeq(own) \in [1..k -> own]
  BY <1>2, <1>3 DEF N!SetToSeq
<1>5. PICK s : s = [i \in 1..k |-> N!Pending(N!SetToSeq(own)[i])]
  OBVIOUS
<1>6. ASSUME NEW i \in 1..k PROVE Noted(s[i], {"PENDING"}, 0)
  <2>1. PICK channel \in Channels : channel = N!SetToSeq(own)[i]
    BY <1>4
  <2>2. s[i] = [channel |-> channel, status |-> "PENDING", retryCount |-> 0]
    BY <1>5, <2>1 DEF N!Pending
  <2>3. s[i] \in N!Delivery
    BY <2>2 DEF N!Delivery, N!Statuses
  <2> QED BY <2>2, <2>3 DEF Noted
<1>7. s \in [1..k -> N!Delivery]
  BY <1>5, <1>6 DEF Noted
<1>8. s \in Seq(N!Delivery) /\ Len(s) = k
  BY <1>7, SeqDef
<1> QED BY <1>2, <1>5, <1>6, <1>8

LEMMA NotificationFirst == N!Init => NotificationInv
<1> SUFFICES ASSUME N!Init PROVE NotificationInv
  OBVIOUS
<1>1. PICK own \in SUBSET Channels :
          stored = [status |-> "PENDING",
                    deliveries |-> [i \in 1..N!Cardinality(own) |->
                                        N!Pending(N!SetToSeq(own)[i])],
                    version |-> 0]
  BY DEF N!Init
<1>2. saves = 0 /\ world = [expired |-> FALSE, marks |-> {"PENDING"}] /\ copy = N!NoCopies
  BY DEF N!Init
<1>3. PICK s : s = [i \in 1..N!Cardinality(own) |-> N!Pending(N!SetToSeq(own)[i])]
  OBVIOUS
<1>4. AllNoted(s, {"PENDING"}, 0)
  BY <1>3, ChannelsInOrder DEF AllNoted
<1>5. /\ DOMAIN stored = NotificationFields /\ stored.status = "PENDING"
      /\ stored.deliveries = s /\ world.marks = {"PENDING"}
      /\ DOMAIN world = {"expired", "marks"}
  BY <1>1, <1>2, <1>3 DEF NotificationFields
<1>6. Notification(stored, world.marks, saves)
  BY <1>2, <1>4, <1>5 DEF Notification
<1> QED BY <1>2, <1>5, <1>6 DEF NotificationInv, N!NoCopies

LEMMA NotificationSteps ==
    NotificationInv /\ [N!Next]_(N!document)
       => NotificationInv' /\ N!UnreadOnlyWithoutReadDelivery
<1> SUFFICES ASSUME NotificationInv, [N!Next]_(N!document)
             PROVE  NotificationInv' /\ N!UnreadOnlyWithoutReadDelivery
  OBVIOUS
<1>1. /\ saves \in Nat /\ DOMAIN world = {"expired", "marks"} /\ DOMAIN copy = Requests
      /\ Notification(stored, world.marks, saves)
  BY DEF NotificationInv
<1>2. ASSUME NEW r \in Requests,
             \/ N!MarkAsRead(r) \/ N!Cancel(r)
             \/ \E channel \in Channels :
                   \/ N!MarkAsSent(r, channel) \/ N!MarkAsDelivered(r, channel)
                   \/ N!MarkAsFailed(r, channel) \/ N!AddDelivery(r, channel)
      PROVE  NotificationInv' /\ stored' = stored
  <2>1. stored' = stored
    BY <1>2 DEF N!MarkAsRead, N!Cancel, N!MarkAsSent, N!MarkAsDelivered, N!MarkAsFailed,
                N!AddDelivery, N!Do, N!Change
  <2> QED BY <1>2, <2>1, NotificationMethods
<1>3. ASSUME NEW r \in Requests, N!AbortCopy(r) PROVE NotificationInv' /\ stored' = stored
  BY <1>3 DEF N!AbortCopy, NotificationInv
<1>4. ASSUME UNCHANGED N!document PROVE NotificationInv' /\ stored' = stored
  BY <1>4 DEF N!document, NotificationInv
<1>5. ASSUME N!ExpiryDatePasses PROVE NotificationInv' /\ stored' = stored
  <2>1. UNCHANGED <<stored, copy, saves>> /\ world' = [world EXCEPT !.expired = TRUE]
    BY <1>5 DEF N!ExpiryDatePasses, N!WorldChanges
  <2>2. DOMAIN world' = {"expired", "marks"} /\ world'.marks = world.marks
    BY <1>1, <2>1
  <2> QED BY <1>1, <2>1, <2>2, NotificationKept
<1>6. ASSUME N!MarkExpired PROVE NotificationInv' /\ stored.status # "READ"
  <2>1. /\ stored' = [stored EXCEPT !.status = "CANCELLED"] /\ copy' = copy
        /\ world' = [world EXCEPT !.marks = @ \cup {"CANCELLED"}] /\ saves' = saves + 1
        /\ stored.status # "READ"
    BY <1>6 DEF N!MarkExpired, N!Open, N!UpdateStored
  <2>2. DOMAIN world' = {"expired", "marks"} /\ world'.marks = world.marks \cup {"CANCELLED"}
    BY <1>1, <2>1
  <2>3. /\ DOMAIN stored' = NotificationFields /\ stored'.status = "CANCELLED"
        /\ stored'.deliveries = stored.deliveries
    BY <1>1, <2>1 DEF Notification, NotificationFields
  <2>4. AllNoted(stored.deliveries, world'.marks, saves')
    <3>1. AllNoted(stored.deliveries, world.marks, saves)
      BY <1>1 DEF Notification
    <3>2. ASSUME NEW i \in 1..Len(stored.deliveries)
          PROVE  Noted(stored.deliveries[i], world'.marks, saves + 1)
      BY <1>1, <2>2, <3>1, NotedLater DEF AllNoted
    <3> QED BY <2>1, <3>1, <3>2 DEF AllNoted
  <2>5. Notification(stored', world'.marks, saves')
    BY <2>2, <2>3, <2>4 DEF Notification
  <2> QED BY <1>1, <2>1, <2>2, <2>5, NotificationKept
<1>7. ASSUME N!MarkAllAsRead PROVE NotificationInv' /\ stored.status # "READ"
  <2>1. PICK s \in Seq(N!Delivery), k \in Nat :
            s = stored.deliveries /\ k = Len(s) /\ DOMAIN s = 1..k
    BY <1>1 DEF Notification, AllNoted
  <2>2. PICK t : t = [i \in 1..k |-> IF s[i].channel = "IN_APP"
                                     THEN [s[i] EXCEPT !.status = "READ"] ELSE s[i]]
    OBVIOUS
  <2>3. /\ stored' = [stored EXCEPT !.status = "READ", !.deliveries = t] /\ copy' = copy
        /\ world' = [world EXCEPT !.marks = @ \cup {"READ"}] /\ saves' = saves + 1
        /\ stored.status # "READ"
    BY <1>7, <2>1, <2>2 DEF N!MarkAllAsRead, N!Open, N!UpdateStored
  <2>4. DOMAIN world' = {"expired", "marks"} /\ world'.marks = world.marks \cup {"READ"}
    BY <1>1, <2>3
  <2>5. DOMAIN stored' = NotificationFields /\ stored'.status = "READ" /\ stored'.deliveries = t
    BY <1>1, <2>3 DEF Notification, NotificationFields
  <2>6. ASSUME NEW i \in 1..k PROVE Noted(t[i], world'.marks, saves')
    <3>1. PICK x \in N!Delivery : x = s[i] /\ Noted(x, world.marks, saves)
      BY <1>1, <2>1 DEF Notification, AllNoted
    <3>2. /\ x = [channel |-> x.channel, status |-> x.status, retryCount |-> x.retryCount]
          /\ x.channel \in Channels /\ x.status \in N!Statuses /\ x.retryCount \in Nat
      BY DeliveryFields
    <3>3. PICK e : e = [channel |-> x.channel, status |-> "READ", retryCount |-> x.retryCount]
      OBVIOUS
    <3>4. e \in N!Delivery
      BY <3>2, <3>3 DEF N!Delivery, N!Statuses
    <3>5. t[i] = IF x.channel = "IN_APP" THEN e ELSE x
      BY <2>2, <3>1, <3>2, <3>3
    <3>6. e.retryCount = x.retryCount /\ e.status = "READ"
      BY <3>3
    <3>7. Noted(e, world'.marks, saves)
      BY <2>4, <3>1, <3>4, <3>6 DEF Noted
    <3>8. Noted(x, world'.marks, saves + 1) /\ Noted(e, world'.marks, saves + 1)
      BY <1>1, <2>4, <3>1, <3>7, NotedLater
    <3> QED BY <2>3, <3>5, <3>8
  <2>7. t \in Seq(N!Delivery) /\ Len(t) = k
    <3>1. t \in [1..k -> N!Delivery]
      BY <2>2, <2>6 DEF Noted
    <3> QED BY <3>1, SeqDef
  <2>8. Notification(stored', world'.marks, saves')
    BY <2>4, <2>5, <2>6, <2>7 DEF Notification, AllNoted
  <2> QED BY <1>1, <2>3, <2>4, <2>8, NotificationKept
<1>8. stored' = stored \/ stored.status # "READ" => N!UnreadOnlyWithoutReadDelivery
  BY DEF N!UnreadOnlyWithoutReadDelivery
<1> QED BY <1>2, <1>3, <1>4, <1>5, <1>6, <1>7, <1>8, NotificationSave DEF N!Next

LEMMA NotificationImplies == NotificationInv => N!StatusWasMarked /\ N!FailuresCounted
<1> SUFFICES ASSUME NotificationInv PROVE N!StatusWasMarked /\ N!FailuresCounted
  OBVIOUS
<1>1. PICK s : s = stored.deliveries
  OBVIOUS
<1>2. s \in Seq(N!Delivery) /\ DOMAIN s = 1..Len(s)
  BY <1>1 DEF NotificationInv, Notification, AllNoted
<1>3. ASSUME NEW i \in DOMAIN s
      PROVE  (s[i].status = "FAILED" => s[i].retryCount > 0) /\ s[i].retryCount <= saves
  BY <1>1, <1>2 DEF NotificationInv, Notification, AllNoted, Noted
<1>4. N!FailuresCounted
  BY <1>1, <1>3 DEF N!FailuresCounted
<1> QED BY <1>4 DEF NotificationInv, Notification, N!StatusWasMarked

-----------------------------------------------------------------------------
(* Messages and their receipts. *)

LEMMA MessagingSaves == \A r, A, w : M!SaveCopy(r, A, w) => Saved(r, A, w)
BY DEF Saved, M!SaveCopy, M!Accepted, M!ComparesVersion, M!ElementsChanged, M!Places,
       M!Merged, M!CountsVersion, M!Pushed, M!MergedArray, M!MergedElement,
       MD!Accepted, MD!ComparesVersion, MD!ElementsChanged, MD!Places,
       MD!Merged, MD!CountsVersion, MD!Pushed, MD!MergedArray, MD!MergedElement

\* One more receipt, or none.
Receipts(s, t) == s \in Seq(Users) /\ (t = s \/ \E u \in Users : t = Append(s, u))

LEMMA ReceiptsMore ==
    ASSUME NEW s, NEW t, Receipts(s, t)
    PROVE  /\ t \in Seq(Users)
           /\ t # s => Len(t) > Len(s) /\ t # << >>
           /\ s # << >> => t # << >>
<1>1. CASE t = s
  BY <1>1 DEF Receipts
<1>2. ASSUME NEW u \in Users, t = Append(s, u)
      PROVE  t \in Seq(Users) /\ Len(t) > Len(s) /\ t # << >>
  <2>1. s \in Seq(Users) /\ Len(s) \in Nat
    BY DEF Receipts
  <2>2. t \in Seq(Users) /\ Len(t) = Len(s) + 1
    BY <1>2, <2>1
  <2>3. Len(t) # 0 /\ Len(t) > Len(s)
    BY <2>1, <2>2
  <2> QED BY <2>2, <2>3, EmptySeq
<1> QED BY <1>1, <1>2 DEF Receipts

\* What a copy adds is added to what is stored.
LEMMA ReceiptsMerged ==
    ASSUME NEW q, NEW a, stored[a] \in Seq(Users), Receipts(q.old[a], q.new[a])
    PROVE  /\ Receipts(stored[a], MD!MergedArray(q, a))
           /\ q.new[a] # q.old[a] => MD!MergedArray(q, a) # stored[a]
<1>1. q.old[a] \in Seq(Users)
  BY DEF Receipts
<1>2. CASE q.new[a] = q.old[a]
  <2>1. MD!MergedArray(q, a) = stored[a]
    BY <1>1, <1>2, MergedUntouched
  <2> QED BY <1>2, <2>1 DEF Receipts
<1>3. ASSUME NEW u \in Users, q.new[a] = Append(q.old[a], u)
      PROVE  MD!MergedArray(q, a) = Append(stored[a], u)
  <2>1. PICK e \in Seq(Users) : e = <<u>>
    <3>1. <<u>> \in Seq(Users)
      BY <1>3
    <3> QED BY <3>1
  <2>2. Append(q.old[a], u) = q.old[a] \o e /\ Append(stored[a], u) = stored[a] \o e
    BY <1>1, <2>1, AppendIsConcat
  <2> QED BY <1>1, <1>3, <2>2, MergedPushes
<1>4. ASSUME NEW u \in Users PROVE Append(stored[a], u) # stored[a]
  <2>1. PICK s \in Seq(Users) : s = stored[a]
    OBVIOUS
  <2>2. Len(Append(s, u)) = Len(s) + 1 /\ Len(s) \in Nat
    OBVIOUS
  <2>3. Len(Append(s, u)) # Len(s)
    BY <2>2
  <2> QED BY <2>1, <2>3
<1> QED BY <1>2, <1>3, <1>4 DEF Receipts

MessageFields == {"status", "deliveredTo", "readBy", "deletedAt", "version"}

\* A message whose status has its reason.
ReasonedMessage(d) ==
    /\ DOMAIN d = MessageFields
    /\ d.deliveredTo \in Seq(Users) /\ d.readBy \in Seq(Users)
    /\ d.status = "DELIVERED" => d.deliveredTo # << >>
    /\ d.status = "READ" => d.readBy # << >>
    /\ d.status = "DELETED" => d.deletedAt

\* A copy sends a status together with the reason.
MessageCopy(q, d) ==
    /\ q.whole = {}
    /\ Receipts(q.old.deliveredTo, q.new.deliveredTo)
    /\ Receipts(q.old.readBy, q.new.readBy)
    /\ q.new.status # q.old.status =>
          \/ q.new.status = "DELETED" /\ q.new.deletedAt
          \/ q.new.status = "DELIVERED" /\ q.new.deliveredTo # q.old.deliveredTo
          \/ q.new.status = "READ" /\ q.new.readBy # q.old.readBy
    /\ q.new.deletedAt = q.old.deletedAt \/ q.new.deletedAt
    /\ q.old.deletedAt => d.deletedAt
    /\ q.op = "softDelete" => q.new.deletedAt

MessageInv ==
    /\ ReasonedMessage(stored)
    /\ world.deleted => stored.deletedAt
    /\ DOMAIN copy = Requests
    /\ \A r \in Requests : copy[r] # Nothing => MessageCopy(copy[r], stored)

LEMMA MessageRead ==
    ASSUME MessageInv, NEW r \in Requests, NEW op, NEW new, M!Change(r, op, new, {}),
           MessageCopy([op |-> op, old |-> stored, new |-> new, whole |-> {}], stored)
    PROVE  MessageInv'
<1>1. PICK q : q = [op |-> op, old |-> stored, new |-> new, whole |-> {}]
  OBVIOUS
<1>2. UNCHANGED <<stored, world, saves>> /\ copy' = [copy EXCEPT ![r] = q]
  BY <1>1 DEF M!Change, M!Copy
<1> QED BY <1>1, <1>2 DEF MessageInv

LEMMA MessageMethods ==
    ASSUME MessageInv, NEW r \in Requests,
           \/ M!SoftDelete(r)
           \/ \E u \in Users : M!MarkAsDelivered(r, u) \/ M!MarkAsRead(r, u)
    PROVE  MessageInv'
<1>1. ReasonedMessage(stored) /\ stored.deliveredTo \in Seq(Users) /\ stored.readBy \in Seq(Users)
  BY DEF MessageInv, ReasonedMessage
<1>2. /\ Receipts(stored.deliveredTo, stored.deliveredTo)
      /\ Receipts(stored.readBy, stored.readBy)
  BY <1>1 DEF Receipts
<1>3. ASSUME NEW s \in Seq(Users), NEW u \in Users
      PROVE  Receipts(s, Append(s, u)) /\ Append(s, u) # s
  <2>1. Len(Append(s, u)) = Len(s) + 1 /\ Len(s) \in Nat
    OBVIOUS
  <2>2. Len(Append(s, u)) # Len(s)
    BY <2>1
  <2> QED BY <2>2 DEF Receipts
<1>4. CASE M!SoftDelete(r)
  <2>1. PICK new : /\ new = [stored EXCEPT !.status = "DELETED", !.deletedAt = TRUE]
                   /\ M!Change(r, "softDelete", new, {})
    BY <1>4 DEF M!SoftDelete
  <2>2. /\ new.status = "DELETED" /\ new.deletedAt
        /\ new.deliveredTo = stored.deliveredTo /\ new.readBy = stored.readBy
    BY <1>1, <2>1 DEF ReasonedMessage, MessageFields
  <2>3. MessageCopy([op |-> "softDelete", old |-> stored, new |-> new, whole |-> {}], stored)
    BY <1>2, <2>2 DEF MessageCopy
  <2> QED BY <2>1, <2>3, MessageRead
<1>5. ASSUME NEW op, op # "softDelete", M!Change(r, op, stored, {}) PROVE MessageInv'
  <2>1. MessageCopy([op |-> op, old |-> stored, new |-> stored, whole |-> {}], stored)
    BY <1>2, <1>5 DEF MessageCopy
  <2> QED BY <1>5, <2>1, MessageRead
<1>6. ASSUME NEW u \in Users, M!MarkAsDelivered(r, u) PROVE MessageInv'
  <2>1. PICK t : t = Append(stored.deliveredTo, u)
    OBVIOUS
  <2>2. PICK new : new = [stored EXCEPT !.deliveredTo = t, !.status = "DELIVERED"]
    OBVIOUS
  <2>3. \/ M!Change(r, "markAsDelivered", stored, {})
        \/ M!Change(r, "markAsDelivered", new, {})
    BY <1>6, <2>1, <2>2 DEF M!MarkAsDelivered
  <2>4. /\ new.status = "DELIVERED" /\ new.deliveredTo = t
        /\ new.readBy = stored.readBy /\ new.deletedAt = stored.deletedAt
    BY <1>1, <2>2 DEF ReasonedMessage, MessageFields
  <2>5. Receipts(stored.deliveredTo, t) /\ t # stored.deliveredTo
    BY <1>1, <1>3, <2>1
  <2>6. MessageCopy([op |-> "markAsDelivered", old |-> stored, new |-> new, whole |-> {}], stored)
    BY <1>2, <2>4, <2>5 DEF MessageCopy
  <2> QED BY <1>5, <2>3, <2>6, MessageRead
<1>7. ASSUME NEW u \in Users, M!MarkAsRead(r, u) PROVE MessageInv'
  <2>1. PICK t : t = Append(stored.readBy, u)
    OBVIOUS
  <2>2. PICK new : new = [stored EXCEPT !.readBy = t, !.status = "READ"]
    OBVIOUS
  <2>3. M!Change(r, "markAsRead", stored, {}) \/ M!Change(r, "markAsRead", new, {})
    BY <1>7, <2>1, <2>2 DEF M!MarkAsRead
  <2>4. /\ new.status = "READ" /\ new.readBy = t
        /\ new.deliveredTo = stored.deliveredTo /\ new.deletedAt = stored.deletedAt
    BY <1>1, <2>2 DEF ReasonedMessage, MessageFields
  <2>5. Receipts(stored.readBy, t) /\ t # stored.readBy
    BY <1>1, <1>3, <2>1
  <2>6. MessageCopy([op |-> "markAsRead", old |-> stored, new |-> new, whole |-> {}], stored)
    BY <1>2, <2>4, <2>5 DEF MessageCopy
  <2> QED BY <1>5, <2>3, <2>6, MessageRead
<1> QED BY <1>4, <1>6, <1>7

LEMMA MessageSave ==
    ASSUME MessageInv, NEW r \in Requests, M!SaveMessage(r)
    PROVE  MessageInv' /\ M!ReappearsOnlyByFirstReceipt
<1>1. PICK q, w : /\ q = copy[r] /\ q # Nothing /\ Saved(r, {"deliveredTo", "readBy"}, w)
                  /\ w.deleted <=> world.deleted \/ q.op = "softDelete"
  <2>1. PICK w : w = [delivered |-> world.delivered \cup M!NewIn(copy[r], "deliveredTo"),
                      read |-> world.read \cup M!NewIn(copy[r], "readBy"),
                      deleted |-> world.deleted \/ copy[r].op = "softDelete"]
    OBVIOUS
  <2>2. M!SaveCopy(r, {"deliveredTo", "readBy"}, w) /\ copy[r] # Nothing
    BY <2>1 DEF M!SaveMessage, M!MessageArrays
  <2>3. w.deleted <=> world.deleted \/ copy[r].op = "softDelete"
    BY <2>1
  <2>4. Saved(r, {"deliveredTo", "readBy"}, w)
    BY <2>2, MessagingSaves
  <2> QED BY <2>2, <2>3, <2>4
<1>2. /\ MessageCopy(q, stored) /\ q.whole = {} /\ ReasonedMessage(stored)
      /\ DOMAIN copy = Requests
      /\ stored.deliveredTo \in Seq(Users) /\ stored.readBy \in Seq(Users)
      /\ DOMAIN stored = MessageFields
  BY <1>1 DEF MessageInv, MessageCopy, ReasonedMessage
<1>3. SentPaths(q, {"deliveredTo", "readBy"}, stored, stored')
  BY <1>1, <1>2, PathsSaved
<1>4. /\ DOMAIN stored' = MessageFields
      /\ stored'.status = Sent(q.old.status, q.new.status, stored.status)
      /\ stored'.deletedAt = Sent(q.old.deletedAt, q.new.deletedAt, stored.deletedAt)
  BY <1>2, <1>3 DEF SentPaths, MessageFields
<1>5. /\ stored'.deliveredTo = MD!MergedArray(q, "deliveredTo")
      /\ stored'.readBy = MD!MergedArray(q, "readBy")
  <2>1. stored' = MD!Merged(q, {"deliveredTo", "readBy"})
    BY <1>1 DEF Saved
  <2>2. /\ "version" \notin {"deliveredTo", "readBy"} \cup q.whole
        /\ "deliveredTo" \in DOMAIN stored /\ "readBy" \in DOMAIN stored
        /\ "deliveredTo" \in {"deliveredTo", "readBy"} \ q.whole
        /\ "readBy" \in {"deliveredTo", "readBy"} \ q.whole
    BY <1>2 DEF MessageFields
  <2> QED BY <2>1, <2>2, MergedFields
<1>6. /\ Receipts(stored.deliveredTo, stored'.deliveredTo)
      /\ q.new.deliveredTo # q.old.deliveredTo => stored'.deliveredTo # stored.deliveredTo
  <2>1. stored["deliveredTo"] \in Seq(Users) /\ Receipts(q.old["deliveredTo"], q.new["deliveredTo"])
    BY <1>2 DEF MessageCopy
  <2> QED BY <1>5, <2>1, ReceiptsMerged
<1>7. /\ Receipts(stored.readBy, stored'.readBy)
      /\ q.new.readBy # q.old.readBy => stored'.readBy # stored.readBy
  <2>1. stored["readBy"] \in Seq(Users) /\ Receipts(q.old["readBy"], q.new["readBy"])
    BY <1>2 DEF MessageCopy
  <2> QED BY <1>5, <2>1, ReceiptsMerged
<1>8. /\ stored'.deliveredTo \in Seq(Users) /\ stored'.readBy \in Seq(Users)
      /\ q.new.deliveredTo # q.old.deliveredTo =>
            Len(stored'.deliveredTo) > Len(stored.deliveredTo) /\ stored'.deliveredTo # << >>
      /\ q.new.readBy # q.old.readBy =>
            Len(stored'.readBy) > Len(stored.readBy) /\ stored'.readBy # << >>
      /\ stored.deliveredTo # << >> => stored'.deliveredTo # << >>
      /\ stored.readBy # << >> => stored'.readBy # << >>
  BY <1>6, <1>7, ReceiptsMore
<1>9. copy' = [copy EXCEPT ![r] = Nothing] /\ world' = w
  BY <1>1 DEF Saved
<1>10. stored.deletedAt => stored'.deletedAt
  BY <1>2, <1>4 DEF MessageCopy, Sent
<1>11. ReasonedMessage(stored')
  <2>1. stored'.status = "DELIVERED" => stored'.deliveredTo # << >>
    BY <1>2, <1>4, <1>8 DEF ReasonedMessage, MessageCopy, Sent
  <2>2. stored'.status = "READ" => stored'.readBy # << >>
    BY <1>2, <1>4, <1>8 DEF ReasonedMessage, MessageCopy, Sent
  <2>3. stored'.status = "DELETED" => stored'.deletedAt
    BY <1>2, <1>4, <1>10 DEF ReasonedMessage, MessageCopy, Sent
  <2> QED BY <1>4, <1>8, <2>1, <2>2, <2>3 DEF ReasonedMessage
<1>12. world'.deleted => stored'.deletedAt
  BY <1>1, <1>2, <1>4, <1>9, <1>10 DEF MessageInv, MessageCopy, Sent
<1>13. ASSUME NEW s \in Requests, copy'[s] # Nothing PROVE MessageCopy(copy'[s], stored')
  <2>1. copy'[s] = copy[s] /\ MessageCopy(copy[s], stored)
    BY <1>2, <1>9, <1>13 DEF MessageInv
  <2> QED BY <1>10, <2>1 DEF MessageCopy
<1>14. M!ReappearsOnlyByFirstReceipt
  BY <1>2, <1>4, <1>8 DEF M!ReappearsOnlyByFirstReceipt, MessageCopy, Sent
<1> QED BY <1>2, <1>9, <1>11, <1>12, <1>13, <1>14 DEF MessageInv

LEMMA MessageFirst == M!MessageInit => MessageInv
<1> SUFFICES ASSUME M!MessageInit PROVE MessageInv
  OBVIOUS
<1>1. PICK none \in Seq(Users) : none = << >>
  <2>1. << >> \in Seq(Users)
    OBVIOUS
  <2> QED BY <2>1
<1> QED BY <1>1 DEF M!MessageInit, M!NoCopies, MessageInv, ReasonedMessage, MessageFields

LEMMA MessageSteps ==
    MessageInv /\ [M!MessageNext]_(M!document) => MessageInv' /\ M!ReappearsOnlyByFirstReceipt
<1> SUFFICES ASSUME MessageInv, [M!MessageNext]_(M!document)
             PROVE  MessageInv' /\ M!ReappearsOnlyByFirstReceipt
  OBVIOUS
<1>1. ASSUME NEW r \in Requests,
             \/ M!SoftDelete(r)
             \/ \E u \in Users : M!MarkAsDelivered(r, u) \/ M!MarkAsRead(r, u)
      PROVE  MessageInv' /\ stored' = stored
  <2>1. stored' = stored
    BY <1>1 DEF M!SoftDelete, M!MarkAsDelivered, M!MarkAsRead, M!Change
  <2> QED BY <1>1, <2>1, MessageMethods
<1>2. ASSUME NEW r \in Requests, M!AbortCopy(r) PROVE MessageInv' /\ stored' = stored
  BY <1>2 DEF M!AbortCopy, MessageInv
<1>3. ASSUME UNCHANGED M!document PROVE MessageInv' /\ stored' = stored
  BY <1>3 DEF M!document, MessageInv
<1>4. stored' = stored => M!ReappearsOnlyByFirstReceipt
  BY DEF M!ReappearsOnlyByFirstReceipt
<1> QED BY <1>1, <1>2, <1>3, <1>4, MessageSave DEF M!MessageNext

LEMMA MessageImplies == MessageInv => M!StatusOfReceipts
BY DEF MessageInv, ReasonedMessage, M!StatusOfReceipts

-----------------------------------------------------------------------------
(* Conversations. *)

LEMMA ParticipantFields ==
    ASSUME NEW e \in M!Participant
    PROVE  /\ e = [user |-> e.user, isActive |-> e.isActive, leftAt |-> e.leftAt]
           /\ e.user \in Users /\ e.isActive \in BOOLEAN /\ e.leftAt \in Nat
BY DEF M!Participant

\* Only an addition makes a participant active.
Rejoins(s, t, op) ==
    /\ s \in Seq(M!Participant) /\ t \in Seq(M!Participant) /\ Len(s) <= Len(t)
    /\ op # "addParticipant" =>
          \A i \in 1..Len(s) : t[i].isActive # s[i].isActive => ~ t[i].isActive

\* One place is written.
LEMMA PlaceWritten ==
    ASSUME NEW s \in Seq(M!Participant), NEW p, NEW e, NEW op,
           p \in 1..Len(s) => /\ e \in M!Participant
                              /\ op # "addParticipant" => ~ e.isActive
    PROVE  Rejoins(s, [s EXCEPT ![p] = e], op)
<1>1. PICK k \in Nat : k = Len(s) /\ s \in [1..k -> M!Participant]
  OBVIOUS
<1>2. PICK t : t = [s EXCEPT ![p] = e]
  OBVIOUS
<1>3. t \in [1..k -> M!Participant] /\ \A i \in 1..k : t[i] = IF i = p THEN e ELSE s[i]
  BY <1>1, <1>2
<1>4. t \in Seq(M!Participant) /\ Len(t) = k
  BY <1>3, SeqDef
<1>5. ASSUME op # "addParticipant", NEW i \in 1..k, t[i].isActive # s[i].isActive
      PROVE  ~ t[i].isActive
  BY <1>1, <1>3, <1>5
<1> QED BY <1>1, <1>2, <1>4, <1>5 DEF Rejoins

LEMMA RejoinsMerged ==
    ASSUME NEW s \in Seq(M!Participant), NEW old, NEW new, NEW m, NEW op,
           Rejoins(old, new, op), MergedByPlace(old, new, s, m)
    PROVE  Rejoins(s, m, op)
<1>1. PICK k \in Nat, l \in Nat, p \in Nat : k = Len(s) /\ l = Len(old) /\ p = Len(new)
  BY DEF Rejoins
<1>2. l <= p /\ p - l \in Nat /\ k + (p - l) \in Nat /\ k <= k + (p - l)
  BY <1>1 DEF Rejoins
<1>3. /\ m = [i \in 1..k + (p - l) |-> m[i]] /\ Len(m) = k + (p - l)
      /\ \A i \in 1..k : m[i] = IF i \in 1..l /\ old[i] # new[i]
                                THEN MD!MergedElement(old[i], new[i], s[i]) ELSE s[i]
      /\ \A i \in 1..p - l : m[k + i] = new[l + i]
  BY <1>1 DEF MergedByPlace
<1>4. ASSUME NEW i \in 1..k
      PROVE  /\ m[i] \in M!Participant
             /\ op # "addParticipant" /\ m[i].isActive # s[i].isActive => ~ m[i].isActive
  <2>1. s[i] \in M!Participant
    BY <1>1
  <2>2. CASE i \in 1..l /\ old[i] # new[i]
    <3>1. PICK x \in M!Participant, y \in M!Participant, z \in M!Participant :
              /\ x = old[i] /\ y = new[i] /\ z = s[i]
              /\ op # "addParticipant" /\ y.isActive # x.isActive => ~ y.isActive
      <4>1. old[i] \in M!Participant /\ new[i] \in M!Participant
        BY <1>1, <1>2, <2>2 DEF Rejoins
      <4>2. op # "addParticipant" /\ new[i].isActive # old[i].isActive => ~ new[i].isActive
        BY <1>1, <2>2 DEF Rejoins
      <4> QED BY <2>1, <4>1, <4>2
    <3>2. PICK e : e = MD!MergedElement(x, y, z)
      OBVIOUS
    <3>3. DOMAIN z = {"user", "isActive", "leftAt"}
      BY DEF M!Participant
    <3>4. e = [f \in {"user", "isActive", "leftAt"} |-> IF x[f] = y[f] THEN z[f] ELSE y[f]]
      BY <3>2, <3>3 DEF MD!MergedElement
    <3>5. /\ e = [user |-> e.user, isActive |-> e.isActive, leftAt |-> e.leftAt]
          /\ e.user = Sent(x.user, y.user, z.user)
          /\ e.isActive = Sent(x.isActive, y.isActive, z.isActive)
          /\ e.leftAt = Sent(x.leftAt, y.leftAt, z.leftAt)
      BY <3>4 DEF Sent
    <3>6. e.user \in Users /\ e.isActive \in BOOLEAN /\ e.leftAt \in Nat
      BY <3>5, ParticipantFields DEF Sent
    <3>7. e \in M!Participant
      BY <3>5, <3>6 DEF M!Participant
    <3>8. op # "addParticipant" /\ e.isActive # z.isActive => ~ e.isActive
      BY <3>1, <3>5 DEF Sent
    <3>9. m[i] = e
      BY <1>3, <2>2, <3>1, <3>2
    <3> QED BY <3>1, <3>7, <3>8, <3>9
  <2>3. CASE ~ (i \in 1..l /\ old[i] # new[i])
    <3>1. m[i] = s[i]
      BY <1>3, <2>3
    <3> QED BY <2>1, <3>1
  <2> QED BY <2>2, <2>3
<1>5. ASSUME NEW i \in 1..p - l PROVE m[k + i] \in M!Participant
  <2>1. new[l + i] \in M!Participant
    <3>1. l + i \in 1..p
      BY <1>2
    <3> QED BY <1>1, <3>1 DEF Rejoins
  <2> QED BY <1>3, <2>1
<1>6. ASSUME NEW i \in 1..k + (p - l) PROVE m[i] \in M!Participant
  <2>1. CASE i \in 1..k
    BY <1>4, <2>1
  <2>2. CASE i \notin 1..k
    <3>1. i - k \in 1..p - l /\ k + (i - k) = i
      BY <1>2, <2>2
    <3> QED BY <1>5, <3>1
  <2> QED BY <2>1, <2>2
<1>7. m \in [1..k + (p - l) -> M!Participant]
  BY <1>3, <1>6
<1>8. m \in Seq(M!Participant)
  BY <1>2, <1>7, SeqDef
<1> QED BY <1>1, <1>2, <1>3, <1>4, <1>8 DEF Rejoins

ConversationFields ==
    {"participants", "isArchived", "archivedAt", "lastMessage", "lastMessageAt", "version"}

\* A conversation with the dates of n saves.
DatedConversation(d, n) ==
    /\ DOMAIN d = ConversationFields
    /\ d.participants \in Seq(M!Participant)
    /\ d.isArchived \in BOOLEAN /\ d.archivedAt \in 0..n
    /\ d.lastMessage = d.lastMessageAt

\* A copy sends the last message with its date, and an archival with a new one.
ConversationCopy(q, n) ==
    /\ q.whole = {}
    /\ DatedConversation(q.old, n)
    /\ Rejoins(q.old.participants, q.new.participants, q.op)
    /\ q.new.lastMessage = q.new.lastMessageAt
    /\ q.new.isArchived \in BOOLEAN /\ q.new.archivedAt \in 0..n + 1
    /\ q.op = "archive" => q.new.archivedAt # q.old.archivedAt /\ q.new.archivedAt # 0
    /\ q.op = "unarchive" => ~ q.new.isArchived /\ q.new.archivedAt = 0
    /\ q.op \notin {"archive", "unarchive"} =>
          /\ q.new.isArchived = q.old.isArchived
          /\ q.new.archivedAt = q.old.archivedAt

ConversationInv ==
    /\ saves \in Nat
    /\ DatedConversation(stored, saves)
    /\ DOMAIN copy = Requests
    /\ \A r \in Requests : copy[r] # Nothing => ConversationCopy(copy[r], saves)

LEMMA ConversationRead ==
    ASSUME ConversationInv, NEW r \in Requests, NEW op, NEW new, M!Change(r, op, new, {}),
           ConversationCopy([op |-> op, old |-> stored, new |-> new, whole |-> {}], saves)
    PROVE  ConversationInv'
<1>1. PICK q : q = [op |-> op, old |-> stored, new |-> new, whole |-> {}]
  OBVIOUS
<1>2. UNCHANGED <<stored, world, saves>> /\ copy' = [copy EXCEPT ![r] = q]
  BY <1>1 DEF M!Change, M!Copy
<1> QED BY <1>1, <1>2 DEF ConversationInv

\* A change of the participants.
OnlyParticipants(d, t) ==
    /\ d.participants = t /\ d.isArchived = stored.isArchived
    /\ d.archivedAt = stored.archivedAt
    /\ d.lastMessage = stored.lastMessage /\ d.lastMessageAt = stored.lastMessageAt

LEMMA ParticipantsRead ==
    ASSUME ConversationInv, NEW r \in Requests, NEW op \in {"addParticipant", "removeParticipant"},
           NEW t, Rejoins(stored.participants, t, op), NEW new,
           OnlyParticipants(new, t), M!Change(r, op, new, {})
    PROVE  ConversationInv'
<1>1. DatedConversation(stored, saves) /\ saves \in Nat
  BY DEF ConversationInv
<1>2. /\ new.participants = t /\ new.isArchived = stored.isArchived
      /\ new.archivedAt = stored.archivedAt /\ new.lastMessage = stored.lastMessage
      /\ new.lastMessageAt = stored.lastMessageAt
  BY DEF OnlyParticipants
<1>3. new.archivedAt \in 0..saves + 1
  BY <1>1, <1>2 DEF DatedConversation
<1>4. ConversationCopy([op |-> op, old |-> stored, new |-> new, whole |-> {}], saves)
  BY <1>1, <1>2, <1>3 DEF ConversationCopy, DatedConversation
<1> QED BY <1>4, ConversationRead

LEMMA ConversationMethods ==
    ASSUME ConversationInv, NEW r \in Requests,
           \/ \E u \in Users : M!AddParticipant(r, u) \/ M!RemoveParticipant(r, u)
           \/ M!Archive(r) \/ M!Unarchive(r) \/ M!UpdateLastMessage(r)
    PROVE  ConversationInv'
<1>1. DatedConversation(stored, saves) /\ saves \in Nat /\ DOMAIN stored = ConversationFields
  BY DEF ConversationInv, DatedConversation
<1>2. PICK s \in Seq(M!Participant) : s = stored.participants
  BY <1>1 DEF DatedConversation
<1>3. \A op : Rejoins(s, s, op)
  <2>1. Len(s) \in Nat /\ Len(s) <= Len(s)
    OBVIOUS
  <2> QED BY <2>1 DEF Rejoins
<1>4. /\ OnlyParticipants(stored, s)
      /\ \A t : OnlyParticipants([stored EXCEPT !.participants = t], t)
  BY <1>1, <1>2 DEF ConversationFields, OnlyParticipants
<1>5. ASSUME NEW u \in Users, M!AddParticipant(r, u) PROVE ConversationInv'
  <2>1. PICK e \in M!Participant : e = M!Joined(u)
    <3>1. M!Joined(u) \in M!Participant
      BY DEF M!Joined, M!Participant
    <3> QED BY <3>1
  <2>2. CASE M!PlacesOf(stored, u) = {}
    <3>1. PICK t : t = Append(s, e)
      OBVIOUS
    <3>2. Rejoins(s, t, "addParticipant")
      BY <2>1, <3>1 DEF Rejoins
    <3>3. M!Change(r, "addParticipant", [stored EXCEPT !.participants = t], {})
      BY <1>2, <1>5, <2>1, <2>2, <3>1 DEF M!AddParticipant
    <3> QED BY <1>2, <1>4, <3>2, <3>3, ParticipantsRead
  <2>3. CASE M!PlacesOf(stored, u) # {}
    <3>1. PICK p : p = M!FirstPlace(stored, u)
      OBVIOUS
    <3>2. PICK x : x = IF s[p].isActive THEN s[p] ELSE e
      OBVIOUS
    <3>3. PICK t : t = [s EXCEPT ![p] = x]
      OBVIOUS
    <3>4. Rejoins(s, t, "addParticipant")
      <4>1. p \in 1..Len(s) => x \in M!Participant
        BY <2>1, <3>2
      <4> QED BY <3>3, <4>1, PlaceWritten
    <3>5. M!Change(r, "addParticipant", [stored EXCEPT !.participants = t], {})
      <4>1. PICK d : d = [stored EXCEPT !.participants[p] = IF @.isActive THEN @ ELSE e]
        OBVIOUS
      <4>2. t = [s EXCEPT ![p] = IF @.isActive THEN @ ELSE e]
        BY <3>2, <3>3
      <4>3. d = [stored EXCEPT !.participants = t]
        BY <1>2, <4>1, <4>2
      <4> QED BY <1>5, <2>1, <2>3, <3>1, <4>1, <4>3 DEF M!AddParticipant
    <3> QED BY <1>2, <1>4, <3>4, <3>5, ParticipantsRead
  <2> QED BY <2>2, <2>3
<1>6. ASSUME NEW u \in Users, M!RemoveParticipant(r, u) PROVE ConversationInv'
  <2>1. CASE M!PlacesOf(stored, u) = {}
    <3>1. M!Change(r, "removeParticipant", stored, {})
      BY <1>6, <2>1 DEF M!RemoveParticipant
    <3> QED BY <1>2, <1>3, <1>4, <3>1, ParticipantsRead
  <2>2. CASE M!PlacesOf(stored, u) # {}
    <3>1. PICK p : p = M!FirstPlace(stored, u)
      OBVIOUS
    <3>2. PICK x : x = [s[p] EXCEPT !.isActive = FALSE, !.leftAt = M!Now]
      OBVIOUS
    <3>3. PICK t : t = [s EXCEPT ![p] = x]
      OBVIOUS
    <3>4. ASSUME p \in 1..Len(s) PROVE x \in M!Participant /\ ~ x.isActive
      <4>1. PICK y \in M!Participant : y = s[p]
        BY <3>4
      <4>2. y = [user |-> y.user, isActive |-> y.isActive, leftAt |-> y.leftAt] /\ y.user \in Users
        BY ParticipantFields
      <4>3. x = [user |-> y.user, isActive |-> FALSE, leftAt |-> saves + 1]
        BY <3>2, <4>1, <4>2 DEF M!Now
      <4> QED BY <1>1, <4>2, <4>3 DEF M!Participant
    <3>5. Rejoins(s, t, "removeParticipant")
      BY <3>3, <3>4, PlaceWritten
    <3>6. M!Change(r, "removeParticipant", [stored EXCEPT !.participants = t], {})
      <4>1. PICK d : d = [stored EXCEPT !.participants[p].isActive = FALSE,
                                        !.participants[p].leftAt = M!Now]
        OBVIOUS
      <4>2. d = [stored EXCEPT !.participants = t]
        BY <1>1, <1>2, <3>2, <3>3, <4>1 DEF ConversationFields
      <4> QED BY <1>6, <2>2, <3>1, <4>1, <4>2 DEF M!RemoveParticipant
    <3> QED BY <1>2, <1>4, <3>5, <3>6, ParticipantsRead
  <2> QED BY <2>1, <2>2
<1>7. CASE M!Archive(r)
  <2>1. PICK new : /\ new = [stored EXCEPT !.isArchived = TRUE, !.archivedAt = saves + 1]
                   /\ M!Change(r, "archive", new, {})
    BY <1>7 DEF M!Archive, M!Now
  <2>2. /\ new.participants = s /\ new.isArchived \in BOOLEAN /\ new.archivedAt = saves + 1
        /\ new.lastMessage = stored.lastMessage /\ new.lastMessageAt = stored.lastMessageAt
    BY <1>1, <1>2, <2>1 DEF ConversationFields
  <2>3. saves + 1 \in 0..saves + 1 /\ saves + 1 # 0 /\ \A x \in 0..saves : x # saves + 1
    BY <1>1
  <2>4. ConversationCopy([op |-> "archive", old |-> stored, new |-> new, whole |-> {}], saves)
    BY <1>1, <1>2, <1>3, <2>2, <2>3 DEF ConversationCopy, DatedConversation
  <2> QED BY <2>1, <2>4, ConversationRead
<1>8. CASE M!Unarchive(r)
  <2>1. PICK new : /\ new = [stored EXCEPT !.isArchived = FALSE, !.archivedAt = 0]
                   /\ M!Change(r, "unarchive", new, {})
    BY <1>8 DEF M!Unarchive
  <2>2. /\ new.participants = s /\ new.isArchived \in BOOLEAN /\ ~ new.isArchived
        /\ new.archivedAt = 0
        /\ new.lastMessage = stored.lastMessage /\ new.lastMessageAt = stored.lastMessageAt
    BY <1>1, <1>2, <2>1 DEF ConversationFields
  <2>3. 0 \in 0..saves + 1
    BY <1>1
  <2>4. ConversationCopy([op |-> "unarchive", old |-> stored, new |-> new, whole |-> {}], saves)
    BY <1>1, <1>2, <1>3, <2>2, <2>3 DEF ConversationCopy, DatedConversation
  <2> QED BY <2>1, <2>4, ConversationRead
<1>9. CASE M!UpdateLastMessage(r)
  <2>1. PICK new : /\ new = [stored EXCEPT !.lastMessage = saves + 1, !.lastMessageAt = saves + 1]
                   /\ M!Change(r, "updateLastMessage", new, {})
    BY <1>9 DEF M!UpdateLastMessage, M!Now
  <2>2. /\ new.participants = s /\ new.isArchived = stored.isArchived
        /\ new.archivedAt = stored.archivedAt
        /\ new.lastMessage = saves + 1 /\ new.lastMessageAt = saves + 1
    BY <1>1, <1>2, <2>1 DEF ConversationFields
  <2>3. new.archivedAt \in 0..saves + 1
    BY <1>1, <2>2 DEF DatedConversation
  <2>4. ConversationCopy([op |-> "updateLastMessage", old |-> stored, new |-> new, whole |-> {}],
                         saves)
    BY <1>1, <1>2, <1>3, <2>2, <2>3 DEF ConversationCopy, DatedConversation
  <2> QED BY <2>1, <2>4, ConversationRead
<1> QED BY <1>5, <1>6, <1>7, <1>8, <1>9

LEMMA ConversationSave ==
    ASSUME ConversationInv, NEW r \in Requests, M!SaveConversation(r)
    PROVE  ConversationInv' /\ M!ActiveAgainOnlyByAddition /\ M!DateLostOnlyByOverlap
<1>0. PICK m : m = stored'.participants
  OBVIOUS
<1>1. PICK q, w : q = copy[r] /\ q # Nothing /\ Saved(r, {"participants"}, w)
  BY MessagingSaves DEF M!SaveConversation, M!ConversationArrays
<1>2. /\ ConversationCopy(q, saves) /\ q.whole = {} /\ DatedConversation(stored, saves)
      /\ DOMAIN copy = Requests /\ saves \in Nat /\ DOMAIN stored = ConversationFields
  BY <1>1 DEF ConversationInv, ConversationCopy, DatedConversation
<1>3. SentPaths(q, {"participants"}, stored, stored')
  BY <1>1, <1>2, PathsSaved
<1>4. /\ DOMAIN stored' = ConversationFields
      /\ stored'.isArchived = Sent(q.old.isArchived, q.new.isArchived, stored.isArchived)
      /\ stored'.archivedAt = Sent(q.old.archivedAt, q.new.archivedAt, stored.archivedAt)
      /\ stored'.lastMessage = Sent(q.old.lastMessage, q.new.lastMessage, stored.lastMessage)
      /\ stored'.lastMessageAt =
            Sent(q.old.lastMessageAt, q.new.lastMessageAt, stored.lastMessageAt)
  BY <1>2, <1>3 DEF SentPaths, ConversationFields
<1>5. PICK s \in Seq(M!Participant), old \in Seq(M!Participant),
           new \in Seq(M!Participant) :
          /\ s = stored.participants /\ old = q.old.participants
          /\ new = q.new.participants
  BY <1>2 DEF DatedConversation, ConversationCopy, Rejoins
<1>6. Rejoins(old, new, q.op)
  BY <1>2, <1>5 DEF ConversationCopy
<1>7. MergedByPlace(old, new, s, m)
  <2>1. m = MD!MergedArray(q, "participants")
    <3>1. stored' = MD!Merged(q, {"participants"})
      BY <1>1 DEF Saved
    <3>2. "version" \notin {"participants"} \cup q.whole /\ "participants" \in DOMAIN stored
          /\ "participants" \in {"participants"} \ q.whole
      BY <1>2 DEF ConversationFields
    <3> QED BY <1>0, <1>5, <3>1, <3>2, MergedFields
  <2>2. stored["participants"] \in Seq(M!Participant)
        /\ CopiedArray(q, "participants", M!Participant)
    BY <1>0, <1>5, <1>6 DEF CopiedArray, Rejoins
  <2> QED BY <1>0, <1>5, <2>1, <2>2, MergedPlaces
<1>8. Rejoins(s, m, q.op)
  BY <1>6, <1>7, RejoinsMerged
<1>9. saves' = saves + 1 /\ copy' = [copy EXCEPT ![r] = Nothing]
  BY <1>1 DEF Saved
<1>10. DatedConversation(stored', saves')
  <2>1. stored'.archivedAt \in 0..saves + 1
    BY <1>2, <1>4 DEF ConversationCopy, DatedConversation, Sent
  <2>2. stored'.participants \in Seq(M!Participant)
    BY <1>0, <1>5, <1>8 DEF Rejoins
  <2>3. stored'.isArchived \in BOOLEAN /\ stored'.lastMessage = stored'.lastMessageAt
    BY <1>2, <1>4 DEF ConversationCopy, DatedConversation, Sent
  <2> QED BY <1>4, <1>9, <2>1, <2>2, <2>3 DEF DatedConversation
<1>11. ASSUME NEW p \in Requests, copy'[p] # Nothing PROVE ConversationCopy(copy'[p], saves')
  <2>1. PICK c : c = copy'[p] /\ ConversationCopy(c, saves)
    BY <1>2, <1>9, <1>11 DEF ConversationInv
  <2>2. c.new.archivedAt \in 0..saves' + 1 /\ c.old.archivedAt \in 0..saves'
    BY <1>2, <1>9, <2>1 DEF ConversationCopy, DatedConversation
  <2> QED BY <2>1, <2>2 DEF ConversationCopy, DatedConversation
<1>12. M!ActiveAgainOnlyByAddition
  <2>1. DOMAIN s = 1..Len(s)
    OBVIOUS
  <2>2. copy'[r] = Nothing /\ copy[r] = q /\ q # Nothing
    BY <1>1, <1>2, <1>9
  <2>3. \A i \in 1..Len(s) : ~ s[i].isActive /\ m[i].isActive => q.op = "addParticipant"
    BY <1>8 DEF Rejoins
  <2> QED BY <1>0, <1>5, <2>1, <2>2, <2>3 DEF M!ActiveAgainOnlyByAddition
<1>13. M!DateLostOnlyByOverlap
  <2>1. copy'[r] = Nothing /\ copy[r] = q /\ q # Nothing
    BY <1>1, <1>2, <1>9
  <2>2. ASSUME M!Dated, stored'.isArchived, stored'.archivedAt = 0
        PROVE  q.op = "unarchive" /\ ~ q.old.isArchived /\ q.old.archivedAt # 0
    <3>1. stored.isArchived => stored.archivedAt # 0
      BY <2>2 DEF M!Dated
    <3>2. CASE q.op \notin {"archive", "unarchive"}
      BY <1>2, <1>4, <2>2, <3>1, <3>2 DEF ConversationCopy, Sent
    <3>3. CASE q.op = "archive"
      BY <1>2, <1>4, <2>2, <3>3 DEF ConversationCopy, Sent
    <3>4. CASE q.op = "unarchive"
      BY <1>2, <1>4, <2>2, <3>1, <3>4 DEF ConversationCopy, DatedConversation, Sent
    <3> QED BY <3>2, <3>3, <3>4
  <2> QED BY <2>1, <2>2 DEF M!DateLostOnlyByOverlap, M!Dated
<1> QED BY <1>2, <1>9, <1>10, <1>11, <1>12, <1>13 DEF ConversationInv

LEMMA ConversationFirst == M!ConversationInit => ConversationInv
<1> SUFFICES ASSUME M!ConversationInit PROVE ConversationInv
  OBVIOUS
<1>1. PICK list \in M!FirstLists : stored = [participants |-> list, isArchived |-> FALSE,
                                            archivedAt |-> 0, lastMessage |-> 0,
                                            lastMessageAt |-> 0, version |-> 0]
  BY DEF M!ConversationInit
<1>2. list \in Seq(M!Participant)
  <2>1. ASSUME NEW u \in Users PROVE <<M!Joined(u)>> \in Seq(M!Participant)
    <3>1. PICK e \in M!Participant : e = M!Joined(u)
      BY DEF M!Joined, M!Participant
    <3>2. <<e>> \in Seq(M!Participant)
      OBVIOUS
    <3> QED BY <3>1, <3>2
  <2>2. << >> \in Seq(M!Participant)
    OBVIOUS
  <2> QED BY <1>1, <2>1, <2>2 DEF M!FirstLists
<1>3. DatedConversation(stored, 0)
  BY <1>1, <1>2 DEF DatedConversation, ConversationFields
<1> QED BY <1>3 DEF M!ConversationInit, M!NoCopies, ConversationInv

LEMMA ConversationSteps ==
    ConversationInv /\ [M!ConversationNext]_(M!document)
       => ConversationInv' /\ M!ActiveAgainOnlyByAddition /\ M!DateLostOnlyByOverlap
<1> SUFFICES ASSUME ConversationInv, [M!ConversationNext]_(M!document)
             PROVE  /\ ConversationInv'
                    /\ M!ActiveAgainOnlyByAddition /\ M!DateLostOnlyByOverlap
  OBVIOUS
<1>1. ASSUME NEW r \in Requests,
             \/ \E u \in Users : M!AddParticipant(r, u) \/ M!RemoveParticipant(r, u)
             \/ M!Archive(r) \/ M!Unarchive(r) \/ M!UpdateLastMessage(r)
      PROVE  ConversationInv' /\ stored' = stored
  <2>1. stored' = stored
    BY <1>1 DEF M!AddParticipant, M!RemoveParticipant, M!Archive, M!Unarchive,
                M!UpdateLastMessage, M!Change
  <2> QED BY <1>1, <2>1, ConversationMethods
<1>2. ASSUME NEW r \in Requests, M!AbortCopy(r) PROVE ConversationInv' /\ stored' = stored
  BY <1>2 DEF M!AbortCopy, ConversationInv
<1>3. ASSUME UNCHANGED M!document PROVE ConversationInv' /\ stored' = stored
  BY <1>3 DEF M!document, ConversationInv
<1>4. stored' = stored => M!ActiveAgainOnlyByAddition /\ M!DateLostOnlyByOverlap
  BY DEF M!ActiveAgainOnlyByAddition, M!DateLostOnlyByOverlap, M!Dated
<1> QED BY <1>1, <1>2, <1>3, <1>4, ConversationSave DEF M!ConversationNext

-----------------------------------------------------------------------------
(* The count of a device, its registrations and its status. *)

\* What a save or a method shows.
DeviceShown == /\ DV!CountedDownByOlderCopy
               /\ DV!RegisteredIsActive
               /\ DV!ActiveAgainByRequest

\* A registration makes the device active; but for an update, nothing else touches
\* the status.
SetsStatus(op, old, new) ==
    /\ op \in {"register", "insert"} => new = "active"
    /\ op \notin {"register", "insert", "status"} => new = old

RegistrationInv ==
    \A r \in Requests : copy[r] # Nothing =>
       /\ copy[r].op \in {"register", "insert"} => copy[r].new.status = "active"
       /\ copy[r].op \notin {"register", "insert", "status"} =>
             copy[r].new.status = copy[r].old.status

LEMMA DeviceSaveShows ==
    ASSUME DeviceInv, RegistrationInv, NEW r \in Requests, DV!Save(r)
    PROVE  RegistrationInv' /\ DeviceShown
<1>1. PICK q, w : q = copy[r] /\ q # Nothing /\ q.op # "insert" /\ stored # Nothing
                  /\ Saved(r, {}, w)
  BY DeviceSaves DEF DV!Save
<1>2. /\ DeviceCopy(q) /\ q.whole = {} /\ stored \in DV!Device /\ DOMAIN copy = Requests
      /\ q.old \in DV!Device
  BY <1>1 DEF DeviceInv, StoredDevice, InsertedCopy, DeviceCopy
<1>3. SentPaths(q, {}, stored, stored')
  <2>1. "version" \notin {} \cup q.whole /\ {} \cup q.whole = {}
    BY <1>2
  <2> QED BY <1>1, <1>2, <2>1, PathsSaved
<1>4. /\ stored'.status = Sent(q.old.status, q.new.status, stored.status)
      /\ stored'.sessionCount = Sent(q.old.sessionCount, q.new.sessionCount, stored.sessionCount)
  BY <1>2, <1>3, DeviceFields DEF SentPaths
<1>5. copy' = [copy EXCEPT ![r] = Nothing] /\ copy[r] = q /\ copy'[r] = Nothing
  BY <1>1, <1>2 DEF Saved
<1>6. RegistrationInv'
  BY <1>2, <1>5 DEF RegistrationInv
<1>7. DV!CountedDownByOlderCopy
  <2>1. stored.sessionCount \in Nat /\ q.old.sessionCount \in Nat
    BY <1>2, DeviceFields
  <2>2. q.new.sessionCount \in {q.old.sessionCount, q.old.sessionCount + 1}
    BY <1>2 DEF DeviceCopy
  <2>3. stored'.sessionCount < stored.sessionCount => q.old.sessionCount < stored.sessionCount
    BY <1>4, <2>1, <2>2 DEF Sent
  <2> QED BY <1>1, <1>5, <2>3 DEF DV!CountedDownByOlderCopy
<1>8. DV!RegisteredIsActive
  <2>1. ASSUME q.op = "register"
        PROVE  stored'.status = "active" \/ stored.status # q.old.status
    BY <1>1, <1>4, <2>1 DEF RegistrationInv, Sent
  <2>2. \A s \in Requests \ {r} : copy'[s] = copy[s]
    BY <1>2, <1>5
  <2> QED BY <1>1, <1>5, <2>1, <2>2 DEF DV!RegisteredIsActive
<1>9. DV!ActiveAgainByRequest
  <2>1. ASSUME stored.status # "active", stored'.status = "active"
        PROVE  q.op \in {"register", "status"} /\ q.old.status # "active"
    <3>1. q.new.status # q.old.status /\ q.new.status = "active"
      BY <1>4, <2>1 DEF Sent
    <3> QED BY <1>1, <1>5, <3>1 DEF RegistrationInv
  <2> QED BY <1>1, <1>5, <2>1 DEF DV!ActiveAgainByRequest
<1> QED BY <1>6, <1>7, <1>8, <1>9 DEF DeviceShown

LEMMA DeviceShows ==
    DeviceInv /\ RegistrationInv /\ [DV!Next]_(DV!document)
       => RegistrationInv' /\ DeviceShown
<1> SUFFICES ASSUME DeviceInv, RegistrationInv, [DV!Next]_(DV!document)
             PROVE  RegistrationInv' /\ DeviceShown
  OBVIOUS
<1>1. DOMAIN copy = Requests
  BY DEF DeviceInv
<1>2. ASSUME NEW r \in Requests, NEW op, NEW new, DV!Change(r, op, new, {}),
             op # "insert", SetsStatus(op, stored.status, new.status)
      PROVE  RegistrationInv' /\ stored' = stored /\ saves' = saves
  <2>1. PICK q : q = [op |-> op, old |-> stored, new |-> new, whole |-> {}]
    OBVIOUS
  <2>2. UNCHANGED <<stored, world, saves>> /\ copy' = [copy EXCEPT ![r] = q]
    BY <1>2, <2>1 DEF DV!Change, DV!Copy
  <2> QED BY <1>1, <1>2, <2>1, <2>2 DEF RegistrationInv, SetsStatus
<1>3. ASSUME NEW r \in Requests,
             \/ DV!Register(r) \/ DV!UpdateOther(r)
             \/ \E status \in DV!Statuses : DV!UpdateStatus(r, status)
             \/ \E duration \in Durations : DV!RecordSession(r, duration)
      PROVE  RegistrationInv' /\ stored' = stored /\ saves' = saves
  <2>1. CASE DV!Register(r)
    <3>1. stored # Nothing => DOMAIN stored = {"id", "status", "sessionCount", "totalUsageTime",
                                               "lastSessionDuration", "version"}
      BY DeviceFields DEF DeviceInv, StoredDevice
    <3>2. PICK new : new = [stored EXCEPT !.status = "active"]
      OBVIOUS
    <3>3. DV!Change(r, "register", new, {}) /\ stored # Nothing
      BY <2>1, <3>2 DEF DV!Register, DV!Change
    <3>4. new.status = "active"
      BY <3>1, <3>2, <3>3
    <3> QED BY <1>2, <3>3, <3>4 DEF SetsStatus
  <2>2. CASE DV!UpdateOther(r)
    BY <1>2, <2>2 DEF DV!UpdateOther, SetsStatus
  <2>3. ASSUME NEW status \in DV!Statuses, DV!UpdateStatus(r, status)
        PROVE  RegistrationInv' /\ stored' = stored /\ saves' = saves
    <3>1. PICK new : DV!Change(r, "status", new, {})
      BY <2>3 DEF DV!UpdateStatus
    <3> QED BY <1>2, <3>1 DEF SetsStatus
  <2>4. ASSUME NEW duration \in Durations, DV!RecordSession(r, duration)
        PROVE  RegistrationInv' /\ stored' = stored /\ saves' = saves
    <3>1. PICK new :
             /\ new = [stored EXCEPT !.sessionCount = @ + 1,
                                     !.totalUsageTime = @ + duration,
                                     !.lastSessionDuration = duration]
             /\ DV!Change(r, "session", new, {})
      BY <2>4 DEF DV!RecordSession
    <3>2. stored # Nothing
      BY <3>1 DEF DV!Change
    <3>3. new.status = stored.status
      BY <3>1, <3>2, DeviceFields DEF DeviceInv, StoredDevice
    <3> QED BY <1>2, <3>1, <3>3 DEF SetsStatus
  <2> QED BY <1>3, <2>1, <2>2, <2>3, <2>4
<1>4. ASSUME NEW r \in Requests, DV!RegisterNew(r)
      PROVE  RegistrationInv' /\ stored' = stored /\ saves' = saves
  <2>1. PICK q : q = [op |-> "insert", old |-> stored, new |-> DV!New, whole |-> {}]
    OBVIOUS
  <2>2. UNCHANGED <<stored, world, saves>> /\ copy' = [copy EXCEPT ![r] = q]
    BY <1>4, <2>1 DEF DV!RegisterNew, DV!Copy
  <2>3. q.new.status = "active" /\ q.op = "insert"
    BY <2>1 DEF DV!New
  <2> QED BY <1>1, <2>2, <2>3 DEF RegistrationInv
<1>5. ASSUME NEW r \in Requests, DV!Insert(r)
      PROVE  RegistrationInv' /\ DeviceShown
  <2>1. /\ copy[r] # Nothing /\ copy[r].op = "insert" /\ stored = Nothing
        /\ stored' = [copy[r].new EXCEPT !.id = saves]
        /\ copy' = [copy EXCEPT ![r] = Nothing]
    BY <1>5 DEF DV!Insert
  <2>2. copy[r].new \in DV!Device /\ copy[r].new.status = "active"
    BY <2>1 DEF DeviceInv, InsertedCopy, DeviceCopy, RegistrationInv
  <2>3. stored'.status = "active"
    BY <2>1, <2>2 DEF DV!Device
  <2>4. \A s \in Requests \ {r} : copy'[s] = copy[s]
    BY <1>1, <2>1
  <2>5. RegistrationInv'
    BY <1>1, <2>1 DEF RegistrationInv
  <2> QED BY <2>1, <2>3, <2>4, <2>5 DEF DeviceShown, DV!CountedDownByOlderCopy,
             DV!RegisteredIsActive, DV!ActiveAgainByRequest
<1>6. ASSUME NEW r \in Requests, DV!AbortCopy(r)
      PROVE  RegistrationInv' /\ stored' = stored /\ saves' = saves
  BY <1>1, <1>6 DEF DV!AbortCopy, RegistrationInv
<1>7. ASSUME DV!Delete PROVE RegistrationInv' /\ stored' = Nothing /\ copy' = copy
  BY <1>7 DEF DV!Delete, RegistrationInv
<1>8. ASSUME UNCHANGED DV!document
      PROVE  RegistrationInv' /\ stored' = stored /\ saves' = saves
  BY <1>8 DEF DV!document, RegistrationInv
<1>9. stored' = stored => DV!CountedDownByOlderCopy /\ DV!ActiveAgainByRequest
  <2>1. stored # Nothing => stored.sessionCount \in Nat
    BY DeviceFields DEF DeviceInv, StoredDevice
  <2> QED BY <2>1 DEF DV!CountedDownByOlderCopy, DV!ActiveAgainByRequest
<1>10. stored' = Nothing => DV!CountedDownByOlderCopy /\ DV!ActiveAgainByRequest
  BY DEF DV!CountedDownByOlderCopy, DV!ActiveAgainByRequest
<1>11. saves' = saves \/ copy' = copy => DV!RegisteredIsActive
  BY DEF DV!RegisteredIsActive
<1>12. stored' \in {stored, Nothing} /\ (saves' = saves \/ copy' = copy) => DeviceShown
  BY <1>9, <1>10, <1>11 DEF DeviceShown
<1> QED BY <1>3, <1>4, <1>5, <1>6, <1>7, <1>8, <1>12, DeviceSaveShows DEF DV!Next

LEMMA RegistrationFirst == DV!Init => RegistrationInv
BY DEF DV!Init, DV!NoCopies, RegistrationInv

-----------------------------------------------------------------------------
(***************************************************************************)
(* The queue of analytics: stored are the statuses of the reports, world   *)
(* is the sequence of tasks, saves the Map, copy what is being done.       *)
(***************************************************************************)
QueueTask == [report : Nat, attempts : Nat]

\* The tasks that failed three times.
GivenUp(t) == {n \in 1..Len(t) : t[n].attempts >= 3}

\* The tasks of m reports, each of its own.
TasksOf(t, m) ==
    /\ t \in Seq(QueueTask)
    /\ \A n \in 1..Len(t) : t[n].report \in 1..m
    /\ \A n, k \in 1..Len(t) : n # k => t[n].report # t[k].report

\* Tasks stay, and their attempts are not taken back.
TasksLater(t, u) ==
    /\ Len(t) <= Len(u)
    /\ \A n \in 1..Len(t) : u[n].report = t[n].report
    /\ GivenUp(t) \subseteq GivenUp(u)

\* What a request or a callback may be doing.
Doing(x, t, m) ==
    \/ x = AQ!Idle
    \/ \E i \in 1..m, n \in 0..Len(t) : x = AQ!Putting(i, n)
    \/ \E n \in 1..Len(t) : x = AQ!Processing(n)
    \/ \E n \in GivenUp(t) : x = AQ!GivingUp(n)

\* A report whose task is to be put has none yet.
Unput(x, t) == x.phase = "putting" => \A n \in 1..Len(t) : t[n].report # x.report

Apart(x, y) == x.phase = "putting" /\ y.phase = "putting" => x.report # y.report

WorkInv(c, t, m) ==
    /\ \A w \in DOMAIN c : Doing(c[w], t, m) /\ Unput(c[w], t)
    /\ \A v, w \in DOMAIN c : v # w => Apart(c[v], c[w])

ReportsInv(s, t) ==
    /\ s \in Seq({"generating", "failed"})
    /\ \A i \in 1..Len(s) : s[i] = "failed" => \E n \in GivenUp(t) : t[n].report = i

\* No task is forgotten, and the last one is in the Map, but for the processes that end.
MapInv(t, p, h) ==
    /\ p \subseteq 1..Len(t)
    /\ DOMAIN h = {"succeeded", "lost"}
    /\ h.lost \/ 1..Len(t) \subseteq p \cup h.succeeded \cup GivenUp(t)
    /\ h.lost \/ Len(t) = 0 \/ Len(t) \in p \/ GivenUp(t) # {}

QueueInv ==
    /\ ReportsInv(stored, world)
    /\ TasksOf(world, Len(stored))
    /\ MapInv(world, saves, past)
    /\ DOMAIN copy = {"request"} \cup Ticks
    /\ WorkInv(copy, world, Len(stored))

LEMMA DoingFields ==
    ASSUME NEW x, NEW t, NEW m, Doing(x, t, m)
    PROVE  /\ x.phase = "putting" => x.report \in 1..m /\ x.task \in 0..Len(t)
           /\ x.phase = "processing" => x.task \in 1..Len(t)
           /\ x.phase = "givingUp" => x.task \in GivenUp(t)
BY DEF Doing, AQ!Idle, AQ!Putting, AQ!Processing, AQ!GivingUp

LEMMA DoingLater ==
    ASSUME NEW x, NEW t, NEW u, NEW m \in Nat, NEW n \in Nat, Len(t) \in Nat, Len(u) \in Nat,
           Doing(x, t, m), TasksLater(t, u), m <= n
    PROVE  Doing(x, u, n)
<1>1. 1..m \subseteq 1..n /\ 0..Len(t) \subseteq 0..Len(u) /\ 1..Len(t) \subseteq 1..Len(u)
      /\ GivenUp(t) \subseteq GivenUp(u)
  BY DEF TasksLater
<1>2. CASE x = AQ!Idle
  BY <1>2 DEF Doing
<1>3. CASE \E i \in 1..m, k \in 0..Len(t) : x = AQ!Putting(i, k)
  BY <1>1, <1>3 DEF Doing
<1>4. CASE \E k \in 1..Len(t) : x = AQ!Processing(k)
  BY <1>1, <1>4 DEF Doing
<1>5. CASE \E k \in GivenUp(t) : x = AQ!GivingUp(k)
  BY <1>1, <1>5 DEF Doing
<1> QED BY <1>2, <1>3, <1>4, <1>5 DEF Doing

\* A walk comes to a task of the Map, or ends.
LEMMA WalkDoing ==
    ASSUME NEW t, Len(t) \in Nat, NEW m, NEW map \in SUBSET (1..Len(t)), NEW n
    PROVE  Doing(AQ!WalkFrom(n, map), t, m) /\ AQ!WalkFrom(n, map).phase # "putting"
<1>1. PICK ahead : ahead = {k \in map : k > n}
  OBVIOUS
<1>2. CASE ahead = {}
  <2>1. AQ!WalkFrom(n, map) = AQ!Idle
    BY <1>1, <1>2 DEF AQ!WalkFrom
  <2> QED BY <2>1 DEF Doing, AQ!Idle
<1>3. CASE ahead # {}
  <2>1. ahead \in SUBSET Nat /\ ahead \subseteq 1..Len(t)
    <3>1. ahead \subseteq map /\ map \subseteq 1..Len(t) /\ 1..Len(t) \subseteq Nat
      BY <1>1
    <3> QED BY <3>1
  <2>2. \E x \in ahead : \A y \in ahead : x <= y
    BY <1>3, <2>1, LeastOfNaturals
  <2>3. AQ!Min(ahead) \in ahead
    BY <2>2 DEF AQ!Min
  <2>4. PICK k \in 1..Len(t) : k = AQ!Min(ahead)
    BY <2>1, <2>3
  <2>5. AQ!WalkFrom(n, map) = AQ!Processing(k)
    BY <1>1, <1>3, <2>4 DEF AQ!WalkFrom
  <2> QED BY <2>5 DEF Doing, AQ!Processing
<1> QED BY <1>2, <1>3

\* One slot does something else, which is not to put a task.
LEMMA WorkGoesOn ==
    ASSUME NEW c, NEW t, NEW u, NEW m \in Nat, NEW w, NEW x, Len(t) \in Nat, Len(u) \in Nat,
           WorkInv(c, t, m), TasksLater(t, u), Len(t) = Len(u),
           Doing(x, u, m), x.phase # "putting"
    PROVE  WorkInv([c EXCEPT ![w] = x], u, m)
<1>1. PICK d : d = [c EXCEPT ![w] = x]
  OBVIOUS
<1>2. DOMAIN d = DOMAIN c /\ \A v \in DOMAIN c : d[v] = IF v = w THEN x ELSE c[v]
  BY <1>1
<1>3. ASSUME NEW v \in DOMAIN c PROVE Doing(c[v], u, m) /\ Unput(c[v], u)
  <2>1. Doing(c[v], t, m) /\ Unput(c[v], t)
    BY DEF WorkInv
  <2>2. Doing(c[v], u, m)
    BY <2>1, DoingLater
  <2>3. Unput(c[v], u)
    BY <2>1 DEF Unput, TasksLater
  <2> QED BY <2>2, <2>3
<1>4. Unput(x, u)
  BY DEF Unput
<1>5. \A v \in DOMAIN d : Doing(d[v], u, m) /\ Unput(d[v], u)
  BY <1>2, <1>3, <1>4
<1>6. ASSUME NEW v \in DOMAIN d, NEW z \in DOMAIN d, v # z PROVE Apart(d[v], d[z])
  BY <1>2, <1>6 DEF WorkInv, Apart
<1> QED BY <1>1, <1>5, <1>6 DEF WorkInv

LEMMA QueueTypes ==
    ASSUME QueueInv
    PROVE  /\ Len(stored) \in Nat /\ Len(world) \in Nat /\ world \in Seq(QueueTask)
           /\ DOMAIN world = 1..Len(world)
           /\ TasksLater(world, world)
BY DEF QueueInv, ReportsInv, TasksOf, TasksLater

-----------------------------------------------------------------------------
\* A report is stored.
LEMMA QueueCreates ==
    ASSUME QueueInv, NEW w \in DOMAIN copy, NEW n \in 0..Len(world), AQ!CreateReport,
           AQ!Go(w, AQ!Putting(Len(stored) + 1, n)), UNCHANGED <<world, saves, past>>
    PROVE  QueueInv'
<1>1. PICK s \in Seq({"generating", "failed"}), m \in Nat : s = stored /\ m = Len(s)
  BY DEF QueueInv, ReportsInv
<1>2. stored' = Append(s, "generating")
  BY <1>1 DEF AQ!CreateReport
<1>3. /\ stored' \in Seq({"generating", "failed"}) /\ Len(stored') = m + 1
      /\ \A i \in 1..m : stored'[i] = s[i]
      /\ stored'[m + 1] = "generating"
  <2>1. "generating" \in {"generating", "failed"}
    OBVIOUS
  <2> QED BY <1>1, <1>2, <2>1
<1>4. ReportsInv(stored', world)
  <2>1. \A i \in 1..m + 1 : i \in 1..m \/ i = m + 1
    OBVIOUS
  <2> QED BY <1>1, <1>3, <2>1 DEF QueueInv, ReportsInv
<1>5. TasksOf(world, m + 1) /\ TasksOf(world, m)
  <2>1. 1..m \subseteq 1..m + 1
    OBVIOUS
  <2> QED BY <1>1, <2>1 DEF QueueInv, TasksOf
<1>6. PICK x : x = AQ!Putting(m + 1, n)
  OBVIOUS
<1>7. x.phase = "putting" /\ x.report = m + 1
  BY <1>6 DEF AQ!Putting
<1>8. DOMAIN copy' = DOMAIN copy /\ \A v \in DOMAIN copy : copy'[v] = IF v = w THEN x ELSE copy[v]
  BY <1>1, <1>6 DEF AQ!Go
<1>9. \A i \in 1..m : i # m + 1
  BY <1>1
<1>10. Doing(x, world, m + 1) /\ Unput(x, world)
  <2>1. m + 1 \in 1..m + 1
    BY <1>1
  <2>2. Doing(x, world, m + 1)
    BY <1>6, <2>1 DEF Doing
  <2>3. Unput(x, world)
    BY <1>5, <1>7, <1>9 DEF Unput, TasksOf
  <2> QED BY <2>2, <2>3
<1>11. ASSUME NEW v \in DOMAIN copy
       PROVE  /\ Doing(copy[v], world, m + 1) /\ Unput(copy[v], world)
              /\ Apart(copy[v], x) /\ Apart(x, copy[v])
  <2>1. Doing(copy[v], world, m) /\ Unput(copy[v], world)
    BY <1>1 DEF QueueInv, WorkInv
  <2>2. Doing(copy[v], world, m + 1)
    BY <1>1, <2>1, QueueTypes, DoingLater
  <2>3. Apart(copy[v], x) /\ Apart(x, copy[v])
    BY <1>7, <1>9, <2>1, DoingFields DEF Apart
  <2> QED BY <2>1, <2>2, <2>3
<1>12. WorkInv(copy', world, m + 1)
  <2>1. \A v \in DOMAIN copy' : Doing(copy'[v], world, m + 1) /\ Unput(copy'[v], world)
    BY <1>8, <1>10, <1>11
  <2>2. ASSUME NEW v \in DOMAIN copy', NEW z \in DOMAIN copy', v # z
        PROVE  Apart(copy'[v], copy'[z])
    <3>1. Apart(copy[v], copy[z])
      BY <1>8, <2>2 DEF QueueInv, WorkInv
    <3> QED BY <1>8, <1>11, <2>2, <3>1
  <2> QED BY <2>1, <2>2 DEF WorkInv
<1> QED BY <1>3, <1>4, <1>5, <1>8, <1>12 DEF QueueInv

\* A task is put.
LEMMA QueuePuts ==
    ASSUME QueueInv, NEW w \in DOMAIN copy, copy[w].phase = "putting",
           AQ!PutTask(copy[w].report), stored' = stored,
           DOMAIN past' = {"succeeded", "lost"}, past'.lost = past.lost,
           saves' \subseteq 1..Len(world) + 1, Len(world) + 1 \in saves',
           saves \cup past.succeeded \subseteq saves' \cup past'.succeeded,
           NEW x, AQ!Go(w, x), Doing(x, world', Len(stored)), x.phase # "putting"
    PROVE  QueueInv'
<1>1. PICK t \in Seq(QueueTask), k \in Nat, m \in Nat :
          t = world /\ k = Len(t) /\ m = Len(stored)
  BY QueueTypes
<1>2. PICK i \in 1..m : i = copy[w].report
  BY <1>1, DoingFields DEF QueueInv, WorkInv
<1>3. PICK e \in QueueTask : e = [report |-> i, attempts |-> 0] /\ e.report = i /\ e.attempts = 0
  <2>1. [report |-> i, attempts |-> 0] \in QueueTask
    BY DEF QueueTask
  <2> QED BY <2>1
<1>4. PICK u : u = world' /\ u = Append(t, e)
  BY <1>1, <1>2, <1>3 DEF AQ!PutTask
<1>5. /\ u \in Seq(QueueTask) /\ Len(u) = k + 1 /\ u[k + 1] = e
      /\ \A n \in 1..k : u[n] = t[n]
  BY <1>1, <1>4
<1>6. /\ \A n \in 1..k + 1 : n \in 1..k \/ n = k + 1
      /\ 1..k \subseteq 1..k + 1 /\ k <= k + 1 /\ k + 1 # 0
  BY <1>1
<1>7. GivenUp(u) = GivenUp(t)
  BY <1>1, <1>3, <1>5, <1>6 DEF GivenUp
<1>8. TasksLater(t, u)
  BY <1>1, <1>5, <1>6, <1>7 DEF TasksLater
<1>9. TasksOf(t, m) /\ \A n \in 1..k : t[n].report # i
  <2>1. Unput(copy[w], t)
    BY <1>1 DEF QueueInv, WorkInv
  <2> QED BY <1>1, <1>2, <2>1 DEF QueueInv, Unput
<1>10. TasksOf(u, m)
  <2>1. \A n \in 1..k + 1 : u[n].report \in 1..m
    BY <1>1, <1>3, <1>5, <1>6, <1>9 DEF TasksOf
  <2>2. ASSUME NEW n \in 1..k + 1, NEW j \in 1..k + 1, n # j PROVE u[n].report # u[j].report
    <3>0. \A a, b \in 1..k : a # b => t[a].report # t[b].report
      BY <1>1, <1>9 DEF TasksOf
    <3>1. CASE n \in 1..k /\ j \in 1..k
      <4>1. t[n].report # t[j].report
        BY <2>2, <3>0, <3>1
      <4>2. u[n] = t[n] /\ u[j] = t[j]
        BY <1>5, <3>1
      <4> QED BY <4>1, <4>2
    <3>2. CASE n = k + 1 /\ j \in 1..k
      BY <1>3, <1>5, <1>9, <3>2
    <3>3. CASE n \in 1..k /\ j = k + 1
      BY <1>3, <1>5, <1>9, <3>3
    <3> QED BY <1>6, <2>2, <3>1, <3>2, <3>3
  <2> QED BY <1>5, <2>1, <2>2 DEF TasksOf
<1>11. ReportsInv(stored, u)
  <2>1. \A n \in GivenUp(t) : n \in 1..k
    BY <1>1 DEF GivenUp
  <2> QED BY <1>1, <1>5, <1>7, <2>1 DEF QueueInv, ReportsInv
<1>12. MapInv(u, saves', past')
  <2>1. past.lost \/ 1..k \subseteq saves' \cup past'.succeeded \cup GivenUp(u)
    BY <1>1, <1>7 DEF QueueInv, MapInv
  <2>2. past.lost \/ 1..k + 1 \subseteq saves' \cup past'.succeeded \cup GivenUp(u)
    BY <1>1, <1>6, <2>1
  <2> QED BY <1>1, <1>5, <2>2 DEF MapInv
<1>13. DOMAIN copy' = DOMAIN copy /\ \A v \in DOMAIN copy : copy'[v] = IF v = w THEN x ELSE copy[v]
  BY DEF AQ!Go
<1>14. ASSUME NEW v \in DOMAIN copy, v # w PROVE Doing(copy[v], u, m) /\ Unput(copy[v], u)
  <2>1. Doing(copy[v], t, m) /\ Unput(copy[v], t) /\ Apart(copy[v], copy[w])
    BY <1>1, <1>14 DEF QueueInv, WorkInv
  <2>2. Doing(copy[v], u, m)
    BY <1>1, <1>5, <1>8, <2>1, DoingLater
  <2>3. Unput(copy[v], u)
    BY <1>1, <1>2, <1>3, <1>5, <1>6, <2>1 DEF Unput, Apart
  <2> QED BY <2>2, <2>3
<1>15. WorkInv(copy', u, m)
  <2>1. Doing(x, u, m) /\ Unput(x, u)
    BY <1>1, <1>4 DEF Unput
  <2>2. \A v \in DOMAIN copy' : Doing(copy'[v], u, m) /\ Unput(copy'[v], u)
    BY <1>13, <1>14, <2>1
  <2>3. ASSUME NEW v \in DOMAIN copy', NEW z \in DOMAIN copy', v # z
        PROVE  Apart(copy'[v], copy'[z])
    BY <1>13, <2>3 DEF QueueInv, WorkInv, Apart
  <2> QED BY <2>2, <2>3 DEF WorkInv
<1> QED BY <1>1, <1>4, <1>10, <1>11, <1>12, <1>13, <1>15 DEF QueueInv

\* An attempt fails.
LEMMA QueueFails ==
    ASSUME QueueInv, NEW w \in DOMAIN copy, AQ!Fail(w)
    PROVE  QueueInv'
<1>1. PICK t \in Seq(QueueTask), k \in Nat, m \in Nat :
          /\ t = world /\ k = Len(t) /\ m = Len(stored) /\ DOMAIN t = 1..k
          /\ t \in [1..k -> QueueTask]
  BY QueueTypes
<1>2. PICK n \in 1..k : n = copy[w].task
  BY <1>1, DoingFields DEF QueueInv, WorkInv, AQ!Fail
<1>3. PICK e : e = [t[n] EXCEPT !.attempts = @ + 1]
  OBVIOUS
<1>4. PICK u : u = world' /\ u = [t EXCEPT ![n] = e]
  BY <1>1, <1>2, <1>3 DEF AQ!Fail
<1>5. /\ e \in QueueTask /\ e.report = t[n].report /\ e.attempts = t[n].attempts + 1
      /\ t[n].attempts \in Nat
  BY <1>1, <1>3 DEF QueueTask
<1>6. u \in [1..k -> QueueTask] /\ \A j \in 1..k : u[j] = IF j = n THEN e ELSE t[j]
  BY <1>1, <1>4, <1>5
<1>7. u \in Seq(QueueTask) /\ Len(u) = k
  BY <1>6, SeqDef
<1>8. \A j \in 1..k : u[j].report = t[j].report
  BY <1>5, <1>6
<1>9. GivenUp(t) \subseteq GivenUp(u) /\ (e.attempts >= 3 => n \in GivenUp(u))
  BY <1>1, <1>5, <1>6, <1>7 DEF GivenUp
<1>10. TasksLater(t, u)
  BY <1>1, <1>7, <1>8, <1>9 DEF TasksLater
<1>11. TasksOf(u, m)
  BY <1>1, <1>7, <1>8 DEF QueueInv, TasksOf
<1>12. ReportsInv(stored, u)
  <2>1. \A j \in GivenUp(t) : j \in 1..k
    BY <1>1 DEF GivenUp
  <2> QED BY <1>1, <1>8, <1>9, <2>1 DEF QueueInv, ReportsInv
<1>13. /\ stored' = stored /\ past' = past /\ saves' \subseteq saves
       /\ saves' = saves \/ (e.attempts >= 3 /\ saves' = saves \ {n})
       /\ \/ AQ!Go(w, AQ!GivingUp(n)) /\ e.attempts >= 3
          \/ AQ!Go(w, AQ!WalkFrom(n, saves))
  BY <1>1, <1>2, <1>5 DEF AQ!Fail, AQ!MaxAttempts
<1>14. MapInv(u, saves', past')
  BY <1>1, <1>7, <1>9, <1>13 DEF QueueInv, MapInv
<1>15. PICK x : AQ!Go(w, x) /\ Doing(x, u, m) /\ x.phase # "putting"
  <2>1. CASE AQ!Go(w, AQ!GivingUp(n)) /\ e.attempts >= 3
    BY <1>9, <2>1 DEF Doing, AQ!GivingUp
  <2>2. CASE AQ!Go(w, AQ!WalkFrom(n, saves))
    <3>1. saves \in SUBSET (1..Len(u)) /\ Len(u) \in Nat
      BY <1>1, <1>7 DEF QueueInv, MapInv
    <3> QED BY <2>2, <3>1, WalkDoing
  <2> QED BY <1>13, <2>1, <2>2
<1>16. WorkInv(copy', u, m) /\ DOMAIN copy' = DOMAIN copy
  <2>1. copy' = [copy EXCEPT ![w] = x]
    BY <1>15 DEF AQ!Go
  <2>2. WorkInv(copy, t, m)
    BY <1>1 DEF QueueInv
  <2> QED BY <1>1, <1>7, <1>10, <1>15, <2>1, <2>2, WorkGoesOn
<1> QED BY <1>1, <1>4, <1>11, <1>12, <1>13, <1>14, <1>16 DEF QueueInv

\* The report of a task that is given up fails, or not.
LEMMA QueueGivesUp ==
    ASSUME QueueInv, NEW w \in DOMAIN copy, AQ!GiveUp(w)
    PROVE  QueueInv'
<1>1. PICK s \in Seq({"generating", "failed"}), m \in Nat :
          s = stored /\ m = Len(s) /\ s \in [1..m -> {"generating", "failed"}]
  BY DEF QueueInv, ReportsInv
<1>2. PICK n : n = copy[w].task /\ n \in GivenUp(world)
  BY <1>1, DoingFields DEF QueueInv, WorkInv, AQ!GiveUp
<1>3. PICK i : i = world[n].report
  OBVIOUS
<1>4. stored' = s \/ stored' = [s EXCEPT ![i] = "failed"]
  BY <1>1, <1>2, <1>3 DEF AQ!GiveUp
<1>5. /\ stored' \in [1..m -> {"generating", "failed"}]
      /\ \A j \in 1..m : stored'[j] = s[j] \/ j = i
  BY <1>1, <1>4
<1>6. stored' \in Seq({"generating", "failed"}) /\ Len(stored') = m
  BY <1>5, SeqDef
<1>7. ReportsInv(stored', world)
  BY <1>1, <1>2, <1>3, <1>5, <1>6 DEF QueueInv, ReportsInv
<1>8. UNCHANGED <<world, saves, past>> /\ copy' = [copy EXCEPT ![w] = AQ!WalkFrom(n, saves)]
  BY <1>2 DEF AQ!GiveUp, AQ!Go
<1>9. Doing(AQ!WalkFrom(n, saves), world, m) /\ AQ!WalkFrom(n, saves).phase # "putting"
  BY QueueTypes, WalkDoing DEF QueueInv, MapInv
<1>10. WorkInv(copy', world, m) /\ DOMAIN copy' = DOMAIN copy
  <2>1. WorkInv(copy, world, m)
    BY <1>1 DEF QueueInv
  <2> QED BY <1>8, <1>9, <2>1, QueueTypes, WorkGoesOn
<1> QED BY <1>1, <1>6, <1>7, <1>8, <1>10 DEF QueueInv

LEMMA QueueSteps == QueueInv /\ [AQ!Next]_(AQ!vars) => QueueInv'
<1> SUFFICES ASSUME QueueInv, [AQ!Next]_(AQ!vars) PROVE QueueInv'
  OBVIOUS
<1>1. /\ Len(stored) \in Nat /\ Len(world) \in Nat /\ TasksLater(world, world)
      /\ DOMAIN copy = {"request"} \cup Ticks /\ saves \subseteq 1..Len(world)
      /\ DOMAIN past = {"succeeded", "lost"}
  BY QueueTypes DEF QueueInv, MapInv
<1>2. ASSUME NEW c \in {"request"}, AQ!Request(c) PROVE QueueInv'
  <2>1. 0 \in 0..Len(world)
    BY <1>1
  <2> QED BY <1>1, <1>2, <2>1, QueueCreates DEF AQ!Request
<1>3. ASSUME NEW c \in {"request"}, AQ!PutRequested(c) PROVE QueueInv'
  <2>1. /\ copy[c].phase = "putting" /\ AQ!PutTask(copy[c].report)
        /\ saves' = saves \cup {Len(world) + 1} /\ AQ!Go(c, AQ!Idle)
        /\ UNCHANGED <<stored, past>>
    BY <1>3 DEF AQ!PutRequested
  <2>2. saves' \subseteq 1..Len(world) + 1
    <3>1. 1..Len(world) \subseteq 1..Len(world) + 1 /\ Len(world) + 1 \in 1..Len(world) + 1
      BY <1>1
    <3> QED BY <1>1, <2>1, <3>1
  <2>3. Doing(AQ!Idle, world', Len(stored)) /\ AQ!Idle.phase # "putting"
    BY DEF Doing, AQ!Idle
  <2> QED BY <1>1, <2>1, <2>2, <2>3, QueuePuts
<1>4. ASSUME NEW k \in Ticks, AQ!Fire(k) PROVE QueueInv'
  <2>1. UNCHANGED <<stored, world, saves, past>> /\ copy' = [copy EXCEPT ![k] = AQ!WalkFrom(0, saves)]
    BY <1>4 DEF AQ!Fire, AQ!Go
  <2>2. Doing(AQ!WalkFrom(0, saves), world, Len(stored)) /\ AQ!WalkFrom(0, saves).phase # "putting"
    BY <1>1, WalkDoing
  <2>3. WorkInv(copy', world, Len(stored)) /\ DOMAIN copy' = DOMAIN copy
    <3>1. WorkInv(copy, world, Len(stored))
      BY DEF QueueInv
    <3> QED BY <1>1, <2>1, <2>2, <3>1, WorkGoesOn
  <2> QED BY <2>1, <2>3 DEF QueueInv
<1>5. ASSUME NEW k \in Ticks, AQ!Generate(k) PROVE QueueInv'
  <2>1. copy[k].task \in 0..Len(world)
    <3>1. copy[k].task \in 1..Len(world)
      BY <1>1, <1>5, DoingFields DEF QueueInv, WorkInv, AQ!Generate
    <3> QED BY <1>1, <3>1
  <2> QED BY <1>1, <1>5, <2>1, QueueCreates DEF AQ!Generate
<1>6. ASSUME NEW k \in Ticks, AQ!Succeed(k) PROVE QueueInv'
  <2>1. PICK n \in 0..Len(world) : n = copy[k].task
    BY <1>1, <1>6, DoingFields DEF QueueInv, WorkInv, AQ!Succeed
  <2>2. /\ copy[k].phase = "putting" /\ AQ!PutTask(copy[k].report)
        /\ saves' = (saves \cup {Len(world) + 1}) \ {n} /\ AQ!Go(k, AQ!WalkFrom(n, saves'))
        /\ past' = [past EXCEPT !.succeeded = @ \cup {n}] /\ stored' = stored
    BY <1>6, <2>1 DEF AQ!Succeed
  <2>3. saves' \subseteq 1..Len(world) + 1 /\ Len(world) + 1 \in saves'
    BY <1>1, <2>1, <2>2
  <2>4. /\ DOMAIN past' = {"succeeded", "lost"} /\ past'.lost = past.lost
        /\ past'.succeeded = past.succeeded \cup {n}
    BY <1>1, <2>2
  <2>5. saves \cup past.succeeded \subseteq saves' \cup past'.succeeded
    BY <2>2, <2>4
  <2>6. Len(world') = Len(world) + 1 /\ Len(world') \in Nat
    BY <1>1, <2>2, QueueTypes DEF AQ!PutTask
  <2>7. /\ Doing(AQ!WalkFrom(n, saves'), world', Len(stored))
        /\ AQ!WalkFrom(n, saves').phase # "putting"
    BY <2>3, <2>6, WalkDoing
  <2> QED BY <1>1, <2>2, <2>3, <2>4, <2>5, <2>7, QueuePuts
<1>7. ASSUME NEW k \in Ticks, AQ!Fail(k) \/ AQ!GiveUp(k) PROVE QueueInv'
  BY <1>1, <1>7, QueueFails, QueueGivesUp
<1>8. CASE AQ!Restart
  <2>1. UNCHANGED <<stored, world>> /\ saves' = {} /\ copy' = [w \in DOMAIN copy |-> AQ!Idle]
        /\ past' = [past EXCEPT !.lost = TRUE]
    BY <1>8 DEF AQ!Restart
  <2>2. MapInv(world, saves', past')
    BY <1>1, <2>1 DEF MapInv
  <2>3. WorkInv(copy', world, Len(stored))
    BY <2>1 DEF WorkInv, Doing, Unput, Apart, AQ!Idle
  <2> QED BY <2>1, <2>2, <2>3 DEF QueueInv
<1>9. CASE UNCHANGED AQ!vars
  BY <1>9 DEF AQ!vars, QueueInv
<1> QED BY <1>2, <1>3, <1>4, <1>5, <1>6, <1>7, <1>8, <1>9 DEF AQ!Next

LEMMA QueueFirst == AQ!Init => QueueInv
<1> SUFFICES ASSUME AQ!Init PROVE QueueInv
  OBVIOUS
<1>1. /\ stored = << >> /\ world = << >> /\ saves = {}
      /\ copy = [w \in {"request"} \cup Ticks |-> AQ!Idle]
      /\ past = [succeeded |-> {}, lost |-> FALSE]
  BY DEF AQ!Init
<1>2. /\ << >> \in Seq({"generating", "failed"}) /\ << >> \in Seq(QueueTask) /\ Len(<< >>) = 0
      /\ \A i \in 1..0 : FALSE
  OBVIOUS
<1>3. ReportsInv(stored, world) /\ TasksOf(world, Len(stored)) /\ MapInv(world, saves, past)
  BY <1>1, <1>2 DEF ReportsInv, TasksOf, MapInv
<1>4. WorkInv(copy, world, Len(stored))
  BY <1>1 DEF WorkInv, Doing, Unput, Apart, AQ!Idle
<1> QED BY <1>1, <1>3, <1>4 DEF QueueInv

LEMMA QueueImplies == QueueInv => AQ!FailedAfterAttempts /\ AQ!NeverDone
<1> SUFFICES ASSUME QueueInv PROVE AQ!FailedAfterAttempts /\ AQ!NeverDone
  OBVIOUS
<1>1. PICK k \in Nat, m \in Nat :
          /\ k = Len(world) /\ m = Len(stored) /\ DOMAIN world = 1..k
          /\ world \in Seq(QueueTask)
  BY QueueTypes
<1>2. AQ!Exhausted = GivenUp(world)
  BY <1>1 DEF AQ!Exhausted, GivenUp, AQ!MaxAttempts
<1>3. AQ!FailedAfterAttempts
  BY <1>1, <1>2 DEF QueueInv, ReportsInv, MapInv, AQ!FailedAfterAttempts, AQ!Reports
<1>4. ASSUME ~ past.lost, GivenUp(world) = {}, world # << >>
      PROVE  saves # {} /\ AQ!Cardinality({i \in 1..m : stored[i] = "generating"}) >= k
  <2>1. k # 0
    BY <1>1, <1>4, EmptySeq
  <2>2. saves # {}
    BY <1>1, <1>4, <2>1 DEF QueueInv, MapInv
  <2>3. {i \in 1..m : stored[i] = "generating"} = 1..m
    <3>1. ASSUME NEW i \in 1..m PROVE stored[i] = "generating"
      BY <1>1, <1>4 DEF QueueInv, ReportsInv
    <3> QED BY <3>1
  <2>4. PICK f : f = [n \in 1..k |-> world[n].report]
    OBVIOUS
  <2>5. f \in Injection(1..k, 1..m)
    BY <1>1, <2>4 DEF QueueInv, TasksOf, Injection, IsInjective
  <2>6. /\ IsFiniteSet(1..m) /\ Cardinality(1..m) = m
        /\ IsFiniteSet(1..k) /\ Cardinality(1..k) = k
    <3>1. /\ IsFiniteSet(1..m) /\ Cardinality(1..m) = IF 1 > m THEN 0 ELSE m - 1 + 1
          /\ IsFiniteSet(1..k) /\ Cardinality(1..k) = IF 1 > k THEN 0 ELSE k - 1 + 1
      BY FS_Interval
    <3>2. (IF 1 > m THEN 0 ELSE m - 1 + 1) = m /\ (IF 1 > k THEN 0 ELSE k - 1 + 1) = k
      OBVIOUS
    <3> QED BY <3>1, <3>2
  <2>7. Cardinality(1..k) <= Cardinality(1..m)
    BY <2>5, <2>6, FS_Injection
  <2>8. AQ!Cardinality(1..m) = Cardinality(1..m)
    BY <2>6 DEF Cardinality, AQ!Cardinality, IsFiniteSet, AQ!IsFiniteSet
  <2> QED BY <2>2, <2>3, <2>6, <2>7, <2>8
<1>5. AQ!NeverDone
  BY <1>1, <1>2, <1>4 DEF AQ!NeverDone, AQ!Reports
<1> QED BY <1>3, <1>5

-----------------------------------------------------------------------------
(* The caches. What has to be known beforehand is what a caller may be doing. *)

CacheInv == DOMAIN copy = Requests

LEMMA CacheFirst == CU!Init => CacheInv
BY DEF CU!Init, CacheInv

LEMMA CacheSteps ==
    CacheInv /\ [CU!Next]_(CU!vars)
       => CacheInv' /\ CU!StaleOnlyByOverlap /\ CU!LockEndsByHolder
<1> SUFFICES ASSUME CacheInv, [CU!Next]_(CU!vars)
             PROVE  CacheInv' /\ CU!StaleOnlyByOverlap /\ CU!LockEndsByHolder
  OBVIOUS
<1>1. DOMAIN copy = Requests
  BY DEF CacheInv
<1>2. ASSUME NEW c \in Requests, NEW w, CU!Go(c, w)
      PROVE  CacheInv' /\ copy'[c] = w /\ \A d \in Requests \ {c} : copy'[d] = copy[d]
  BY <1>1, <1>2 DEF CU!Go, CacheInv
<1>3. ASSUME NEW c \in Requests, CU!Miss(c) \/ CU!Calculate(c)
      PROVE  CacheInv' /\ CU!StaleOnlyByOverlap /\ CU!LockEndsByHolder
  <2>1. PICK w : CU!Go(c, w) /\ UNCHANGED <<saves, stored, world>>
                 /\ copy[c].phase # "deleting"
    BY <1>3 DEF CU!Miss, CU!Calculate, CU!Idle, CU!At
  <2> QED BY <1>2, <2>1 DEF CU!StaleOnlyByOverlap, CU!StaleForGood, CU!LockEndsByHolder
<1>4. ASSUME NEW c \in Requests, CU!Store(c)
      PROVE  CacheInv' /\ CU!StaleOnlyByOverlap /\ CU!LockEndsByHolder
  <2>1. /\ copy[c].phase = "storing" /\ stored' \in {copy[c].value, stored}
        /\ CU!Go(c, CU!Idle) /\ UNCHANGED <<saves, world>>
    BY <1>4 DEF CU!Store
  <2> QED BY <1>2, <2>1 DEF CU!StaleOnlyByOverlap, CU!StaleForGood, CU!LockEndsByHolder
<1>5. ASSUME NEW c \in Requests, CU!Change(c)
      PROVE  CacheInv' /\ CU!StaleOnlyByOverlap /\ CU!LockEndsByHolder
  <2>1. PICK w : /\ CU!Go(c, w) /\ w.phase = "deleting" /\ UNCHANGED <<stored, world>>
    BY <1>5 DEF CU!Change, CU!At
  <2> QED BY <1>2, <2>1 DEF CU!StaleOnlyByOverlap, CU!StaleForGood, CU!LockEndsByHolder
<1>6. ASSUME NEW c \in Requests, CU!Delete(c)
      PROVE  CacheInv' /\ CU!StaleOnlyByOverlap /\ CU!LockEndsByHolder
  <2>1. /\ copy[c].phase = "deleting" /\ CU!Go(c, CU!Idle) /\ UNCHANGED <<saves, world>>
    BY <1>6 DEF CU!Delete
  <2> QED BY <1>2, <2>1 DEF CU!StaleOnlyByOverlap, CU!LockEndsByHolder
<1>7. ASSUME NEW c \in Requests, CU!Lock(c) \/ CU!Unlock(c)
      PROVE  CacheInv' /\ CU!StaleOnlyByOverlap /\ CU!LockEndsByHolder
  <2>1. PICK w : /\ CU!Go(c, w) /\ UNCHANGED <<saves, stored>>
                 /\ copy[c].phase # "deleting"
                 /\ world # Nothing /\ world' # world => world = c
    BY <1>7 DEF CU!Lock, CU!Unlock, CU!Idle, CU!At
  <2> QED BY <1>2, <2>1 DEF CU!StaleOnlyByOverlap, CU!StaleForGood, CU!LockEndsByHolder
<1>8. ASSUME NEW c \in Requests, CU!Crash(c)
      PROVE  CacheInv' /\ CU!StaleOnlyByOverlap /\ CU!LockEndsByHolder
  <2>1. CU!Go(c, CU!Idle) /\ UNCHANGED <<saves, stored, world>>
    BY <1>8 DEF CU!Crash
  <2> QED BY <1>2, <2>1 DEF CU!StaleOnlyByOverlap, CU!StaleForGood, CU!LockEndsByHolder
<1>9. ASSUME CU!ValueExpires \/ CU!LockExpires \/ UNCHANGED CU!vars
      PROVE  CacheInv' /\ CU!StaleOnlyByOverlap /\ CU!LockEndsByHolder
  <2>1. UNCHANGED <<saves, copy>> /\ stored' \in {stored, Nothing}
    BY <1>9 DEF CU!ValueExpires, CU!LockExpires, CU!vars
  <2> QED BY <1>1, <2>1
          DEF CacheInv, CU!StaleOnlyByOverlap, CU!StaleForGood, CU!LockEndsByHolder
<1> QED BY <1>3, <1>4, <1>5, <1>6, <1>7, <1>8, <1>9 DEF CU!Next

\* Of the cache with tags, its keys, and the fields of a caller as well.
TaggedInv ==
    /\ DOMAIN stored = Keys
    /\ DOMAIN copy = Requests
    /\ \A c \in Requests : DOMAIN copy[c] = {"phase", "keys", "value"}

LEMMA TaggedFirst == TC!Init => TaggedInv
BY DEF TC!Init, TaggedInv, TC!Idle, TC!At

LEMMA TaggedSteps ==
    TaggedInv /\ [TC!Next]_(TC!vars)
       => TaggedInv' /\ TC!OutOfReachOnlyByOverlap /\ TC!StaleOnlyByOverlap
<1> SUFFICES ASSUME TaggedInv, [TC!Next]_(TC!vars)
             PROVE  TaggedInv' /\ TC!OutOfReachOnlyByOverlap /\ TC!StaleOnlyByOverlap
  OBVIOUS
<1>1. DOMAIN copy = Requests /\ DOMAIN stored = Keys
  BY DEF TaggedInv
<1>2. ASSUME NEW c \in Requests, NEW w, TC!Go(c, w), DOMAIN w = {"phase", "keys", "value"},
             DOMAIN stored' = Keys
      PROVE  TaggedInv' /\ copy'[c] = w /\ \A d \in Requests \ {c} : copy'[d] = copy[d]
  BY <1>1, <1>2 DEF TC!Go, TaggedInv
<1>3. ASSUME NEW p, NEW k, NEW v
      PROVE  DOMAIN TC!At(p, k, v) = {"phase", "keys", "value"} /\ TC!At(p, k, v).phase = p
             /\ TC!At(p, k, v).keys = k
  BY DEF TC!At
<1>4. TC!Idle.phase = "idle" /\ DOMAIN TC!Idle = {"phase", "keys", "value"}
  BY DEF TC!Idle, TC!At
<1>5. ASSUME NEW c \in Requests, (\E k \in Keys : TC!Miss(c, k)) \/ TC!Answer(c)
      PROVE  TaggedInv' /\ TC!OutOfReachOnlyByOverlap /\ TC!StaleOnlyByOverlap
  <2>1. PICK w : /\ TC!Go(c, w) /\ UNCHANGED <<saves, stored, world>>
                 /\ DOMAIN w = {"phase", "keys", "value"}
                 /\ copy[c].phase \in {"idle", "answering"}
    <3>1. CASE \E k \in Keys : TC!Miss(c, k)
      BY <1>3, <1>4, <3>1 DEF TC!Miss
    <3>2. CASE TC!Answer(c)
      BY <1>3, <3>2 DEF TC!Answer
    <3> QED BY <1>5, <3>1, <3>2
  <2> QED BY <1>1, <1>2, <2>1 DEF TC!OutOfReachOnlyByOverlap, TC!OutOfReach,
                            TC!StaleOnlyByOverlap, TC!StaleForGood
<1>6. ASSUME NEW c \in Requests, TC!Store(c)
      PROVE  TaggedInv' /\ TC!OutOfReachOnlyByOverlap /\ TC!StaleOnlyByOverlap
  <2>1. PICK w : w = [copy[c] EXCEPT !.phase = "tagging"]
    OBVIOUS
  <2>2. /\ copy[c].phase = "storing" /\ TC!Go(c, w) /\ UNCHANGED <<saves, world>>
        /\ stored' = [k \in Keys |-> IF k \in copy[c].keys THEN copy[c].value ELSE stored[k]]
    BY <1>6, <2>1 DEF TC!Store
  <2>3. DOMAIN w = {"phase", "keys", "value"} /\ w.phase = "tagging" /\ w.keys = copy[c].keys
    BY <2>1 DEF TaggedInv
  <2> QED BY <1>1, <1>2, <2>2, <2>3 DEF TC!OutOfReachOnlyByOverlap, TC!OutOfReach,
                                  TC!StaleOnlyByOverlap, TC!StaleForGood
<1>7. ASSUME NEW c \in Requests, TC!Tag(c)
      PROVE  TaggedInv' /\ TC!OutOfReachOnlyByOverlap /\ TC!StaleOnlyByOverlap
  <2>1. /\ copy[c].phase = "tagging" /\ TC!Go(c, TC!Idle) /\ UNCHANGED <<saves, stored>>
    BY <1>7 DEF TC!Tag
  <2> QED BY <1>1, <1>2, <1>4, <2>1 DEF TC!OutOfReachOnlyByOverlap, TC!StaleOnlyByOverlap,
                                  TC!StaleForGood
<1>8. ASSUME NEW c \in Requests, TC!Change(c)
      PROVE  TaggedInv' /\ TC!OutOfReachOnlyByOverlap /\ TC!StaleOnlyByOverlap
  <2>1. PICK w : /\ TC!Go(c, w) /\ w.phase = "collecting" /\ UNCHANGED <<stored, world>>
                 /\ DOMAIN w = {"phase", "keys", "value"} /\ copy[c].phase = "idle"
    BY <1>3, <1>4, <1>8 DEF TC!Change
  <2> QED BY <1>1, <1>2, <2>1 DEF TC!OutOfReachOnlyByOverlap, TC!OutOfReach,
                            TC!StaleOnlyByOverlap, TC!StaleForGood
<1>9. ASSUME NEW c \in Requests, TC!Collect(c)
      PROVE  TaggedInv' /\ TC!OutOfReachOnlyByOverlap /\ TC!StaleOnlyByOverlap
  <2>1. PICK w : /\ TC!Go(c, w) /\ UNCHANGED <<saves, stored, world>>
                 /\ copy[c].phase = "collecting" /\ DOMAIN w = {"phase", "keys", "value"}
                 /\ w = TC!Idle \/ w.phase = "deletingKeys"
    BY <1>3, <1>4, <1>9 DEF TC!Collect
  <2> QED BY <1>1, <1>2, <2>1 DEF TC!OutOfReachOnlyByOverlap, TC!OutOfReach,
                            TC!StaleOnlyByOverlap, TC!StaleForGood
<1>10. ASSUME NEW c \in Requests, TC!DeleteKeys(c)
      PROVE  TaggedInv' /\ TC!OutOfReachOnlyByOverlap /\ TC!StaleOnlyByOverlap
  <2>1. PICK w : w = [copy[c] EXCEPT !.phase = "deletingSet"]
    OBVIOUS
  <2>2. /\ copy[c].phase = "deletingKeys" /\ TC!Go(c, w) /\ UNCHANGED <<saves, world>>
        /\ \/ stored' = stored
           \/ stored' = [k \in Keys |-> IF k \in copy[c].keys THEN Nothing ELSE stored[k]]
    BY <1>10, <2>1 DEF TC!DeleteKeys
  <2>3. DOMAIN w = {"phase", "keys", "value"} /\ w.phase = "deletingSet"
    BY <2>1 DEF TaggedInv
  <2> QED BY <1>1, <1>2, <2>2, <2>3 DEF TC!OutOfReachOnlyByOverlap, TC!OutOfReach,
                                  TC!StaleOnlyByOverlap, TC!StaleForGood
<1>11. ASSUME NEW c \in Requests, TC!DeleteSet(c)
      PROVE  TaggedInv' /\ TC!OutOfReachOnlyByOverlap /\ TC!StaleOnlyByOverlap
  <2>1. /\ copy[c].phase = "deletingSet" /\ TC!Go(c, TC!Idle) /\ UNCHANGED <<saves, stored>>
    BY <1>11 DEF TC!DeleteSet
  <2> QED BY <1>1, <1>2, <1>4, <2>1 DEF TC!OutOfReachOnlyByOverlap, TC!StaleOnlyByOverlap,
                                  TC!StaleForGood
<1>12. ASSUME NEW c \in Requests, TC!Break(c)
      PROVE  TaggedInv' /\ TC!OutOfReachOnlyByOverlap /\ TC!StaleOnlyByOverlap
  <2>1. TC!Go(c, TC!Idle) /\ UNCHANGED <<saves, stored, world>>
    BY <1>12 DEF TC!Break
  <2> QED BY <1>1, <1>2, <1>4, <2>1 DEF TC!OutOfReachOnlyByOverlap, TC!OutOfReach,
                                  TC!StaleOnlyByOverlap, TC!StaleForGood
<1>13. ASSUME (\E k \in Keys : TC!Expire(k)) \/ UNCHANGED TC!vars
       PROVE  TaggedInv' /\ TC!OutOfReachOnlyByOverlap /\ TC!StaleOnlyByOverlap
  <2>1. UNCHANGED <<saves, copy, world>> /\ \A k \in Keys : stored'[k] \in {stored[k], Nothing}
    BY <1>13 DEF TC!Expire, TC!vars, TaggedInv
  <2>2. DOMAIN stored' = DOMAIN stored
    BY <1>13 DEF TC!Expire, TC!vars
  <2> QED BY <2>1, <2>2 DEF TaggedInv, TC!OutOfReachOnlyByOverlap, TC!OutOfReach,
                      TC!StaleOnlyByOverlap, TC!StaleForGood
<1> QED BY <1>5, <1>6, <1>7, <1>8, <1>9, <1>10, <1>11, <1>12, <1>13 DEF TC!Next

-----------------------------------------------------------------------------
(***************************************************************************)
(* Generated reports, and the verification of contacts: which method sends *)
(* which status is all that has to be known.                               *)
(***************************************************************************)
ReportFields == {"status", "progress", "outputs", "deliveries", "version"}

ReportCopy(q) ==
    /\ q.whole = {}
    /\ q.op = "markAsProcessing" => q.new.status = "PROCESSING"
    /\ q.op = "markAsCompleted" => q.new.status = "COMPLETED" /\ q.new.progress = 100
    /\ q.op \notin {"markAsProcessing", "markAsCompleted"} =>
          /\ q.new.progress = q.old.progress
          /\ q.new.status # q.old.status => q.new.status # "COMPLETED"

ReportInv ==
    /\ DOMAIN stored = ReportFields
    /\ DOMAIN copy = Requests
    /\ \A r \in Requests : copy[r] # Nothing => ReportCopy(copy[r])

LEMMA ReportRead ==
    ASSUME ReportInv, NEW r \in Requests, NEW op, NEW new, G!Change(r, op, new, {}),
           ReportCopy([op |-> op, old |-> stored, new |-> new, whole |-> {}])
    PROVE  ReportInv' /\ stored' = stored
<1>1. PICK q : q = [op |-> op, old |-> stored, new |-> new, whole |-> {}]
  OBVIOUS
<1>2. stored' = stored /\ copy' = [copy EXCEPT ![r] = q]
  BY <1>1 DEF G!Change, G!Copy
<1> QED BY <1>1, <1>2 DEF ReportInv

LEMMA ReportMethods ==
    ASSUME ReportInv, NEW r \in Requests,
           \/ G!MarkAsProcessing(r) \/ G!MarkAsCompleted(r) \/ G!MarkReportFailed(r)
           \/ G!MarkAsCanceled(r) \/ G!AddOutput(r)
           \/ \E u \in Users : G!AddDelivery(r, u)
           \/ \E u \in Users, status \in G!DeliveryStatuses : G!UpdateDeliveryStatus(r, u, status)
    PROVE  ReportInv' /\ stored' = stored
<1>1. DOMAIN stored = ReportFields
  BY DEF ReportInv
<1>2. CASE G!MarkAsProcessing(r)
  <2>1. PICK new : /\ new = [stored EXCEPT !.status = "PROCESSING", !.progress = 0]
                   /\ G!Change(r, "markAsProcessing", new, {})
    BY <1>2 DEF G!MarkAsProcessing
  <2>2. ReportCopy([op |-> "markAsProcessing", old |-> stored, new |-> new, whole |-> {}])
    BY <1>1, <2>1 DEF ReportCopy, ReportFields
  <2> QED BY <2>1, <2>2, ReportRead
<1>3. CASE G!MarkAsCompleted(r)
  <2>1. PICK new : /\ new = [stored EXCEPT !.status = "COMPLETED", !.progress = 100]
                   /\ G!Change(r, "markAsCompleted", new, {})
    BY <1>3 DEF G!MarkAsCompleted
  <2>2. ReportCopy([op |-> "markAsCompleted", old |-> stored, new |-> new, whole |-> {}])
    BY <1>1, <2>1 DEF ReportCopy, ReportFields
  <2> QED BY <2>1, <2>2, ReportRead
<1>4. CASE G!MarkReportFailed(r) \/ G!MarkAsCanceled(r)
  <2>1. PICK op \in {"markAsFailed", "markAsCanceled"}, status \in {"FAILED", "CANCELED"} :
            G!Change(r, op, [stored EXCEPT !.status = status], {})
    BY <1>4 DEF G!MarkReportFailed, G!MarkAsCanceled
  <2>2. PICK new : new = [stored EXCEPT !.status = status]
    OBVIOUS
  <2>3. ReportCopy([op |-> op, old |-> stored, new |-> new, whole |-> {}])
    BY <1>1, <2>1, <2>2 DEF ReportCopy, ReportFields
  <2> QED BY <2>1, <2>2, <2>3, ReportRead
<1>5. CASE G!AddOutput(r)
  <2>1. PICK list, new : /\ new = [stored EXCEPT !.outputs = list]
                         /\ G!Change(r, "addOutput", new, {})
    BY <1>5 DEF G!AddOutput
  <2>2. ReportCopy([op |-> "addOutput", old |-> stored, new |-> new, whole |-> {}])
    BY <1>1, <2>1 DEF ReportCopy, ReportFields
  <2> QED BY <2>1, <2>2, ReportRead
<1>6. ASSUME NEW u \in Users, G!AddDelivery(r, u) PROVE ReportInv' /\ stored' = stored
  <2>1. PICK list, new : /\ new = [stored EXCEPT !.deliveries = list]
                         /\ G!Change(r, "addDelivery", new, {})
    BY <1>6 DEF G!AddDelivery
  <2>2. ReportCopy([op |-> "addDelivery", old |-> stored, new |-> new, whole |-> {}])
    BY <1>1, <2>1 DEF ReportCopy, ReportFields
  <2> QED BY <2>1, <2>2, ReportRead
<1>7. ASSUME NEW u \in Users, NEW status \in G!DeliveryStatuses,
             G!UpdateDeliveryStatus(r, u, status)
      PROVE  ReportInv' /\ stored' = stored
  <2>1. PICK i : i = G!FirstPlace(stored, u)
    OBVIOUS
  <2>2. PICK new : /\ new = [stored EXCEPT !.deliveries[i].status = status,
                                           !.deliveries[i].retryCount =
                                               IF status = "FAILED" THEN @ + 1 ELSE @]
                   /\ G!Change(r, "updateDeliveryStatus", new, {})
    BY <1>7, <2>1 DEF G!UpdateDeliveryStatus
  <2>3. new.status = stored.status /\ new.progress = stored.progress
    BY <1>1, <2>2 DEF ReportFields
  <2>4. ReportCopy([op |-> "updateDeliveryStatus", old |-> stored, new |-> new, whole |-> {}])
    BY <2>3 DEF ReportCopy
  <2> QED BY <2>2, <2>4, ReportRead
<1> QED BY <1>2, <1>3, <1>4, <1>5, <1>6, <1>7

LEMMA ReportSave ==
    ASSUME ReportInv, NEW r \in Requests, G!SaveReport(r)
    PROVE  ReportInv' /\ G!CompletedOtherwiseOnlyByOverlap
<1>1. PICK q, w : q = copy[r] /\ q # Nothing /\ Saved(r, {"outputs", "deliveries"}, w)
  BY GenerationSaves DEF G!SaveReport, G!ReportArrays
<1>2. ReportCopy(q) /\ q.whole = {} /\ DOMAIN stored = ReportFields /\ DOMAIN copy = Requests
  BY <1>1 DEF ReportInv, ReportCopy
<1>3. SentPaths(q, {"outputs", "deliveries"}, stored, stored')
  <2>1. "version" \notin {"outputs", "deliveries"} \cup q.whole
        /\ {"outputs", "deliveries"} \cup q.whole = {"outputs", "deliveries"}
    BY <1>2
  <2> QED BY <1>1, <2>1, PathsSaved
<1>4. /\ DOMAIN stored' = ReportFields
      /\ stored'.status = Sent(q.old.status, q.new.status, stored.status)
      /\ stored'.progress = Sent(q.old.progress, q.new.progress, stored.progress)
  BY <1>2, <1>3 DEF SentPaths, ReportFields
<1>5. copy' = [copy EXCEPT ![r] = Nothing]
  BY <1>1 DEF Saved
<1>6. ReportInv'
  BY <1>2, <1>4, <1>5 DEF ReportInv
<1>7. G!CompletedOtherwiseOnlyByOverlap
  BY <1>1, <1>2, <1>4, <1>5 DEF G!CompletedOtherwiseOnlyByOverlap, ReportCopy, Sent
<1> QED BY <1>6, <1>7

LEMMA ReportFirst == G!ReportInit => ReportInv
BY DEF G!ReportInit, G!NoCopies, ReportInv, ReportFields

LEMMA ReportSteps ==
    ReportInv /\ [G!ReportNext]_(G!document)
       => ReportInv' /\ G!CompletedOtherwiseOnlyByOverlap
<1> SUFFICES ASSUME ReportInv, [G!ReportNext]_(G!document)
             PROVE  ReportInv' /\ G!CompletedOtherwiseOnlyByOverlap
  OBVIOUS
<1>1. ASSUME NEW r \in Requests, G!AbortCopy(r) PROVE ReportInv' /\ stored' = stored
  BY <1>1 DEF G!AbortCopy, ReportInv
<1>2. ASSUME G!TimePasses \/ UNCHANGED G!document PROVE ReportInv' /\ stored' = stored
  BY <1>2 DEF G!TimePasses, G!WorldChanges, G!document, ReportInv
<1>3. ASSUME G!CleanupExpired PROVE ReportInv' /\ G!CompletedOtherwiseOnlyByOverlap
  <2>1. stored' = [stored EXCEPT !.status = "EXPIRED"] /\ copy' = copy
    BY <1>3 DEF G!CleanupExpired, G!UpdateStored
  <2> QED BY <2>1 DEF ReportInv, ReportFields, G!CompletedOtherwiseOnlyByOverlap
<1>4. stored' = stored => G!CompletedOtherwiseOnlyByOverlap
  BY DEF G!CompletedOtherwiseOnlyByOverlap
<1> QED BY <1>1, <1>2, <1>3, <1>4, ReportMethods, ReportSave DEF G!ReportNext

-----------------------------------------------------------------------------
LEMMA VerificationSaves == \A r, A, w : CD!SaveCopy(r, A, w) => Saved(r, A, w)
BY DEF Saved, CD!SaveCopy, CD!Accepted, CD!ComparesVersion, CD!ElementsChanged, CD!Places,
       CD!Merged, CD!CountsVersion, CD!Pushed, CD!MergedArray, CD!MergedElement,
       MD!Accepted, MD!ComparesVersion, MD!ElementsChanged, MD!Places,
       MD!Merged, MD!CountsVersion, MD!Pushed, MD!MergedArray, MD!MergedElement

ContactFields == {"status", "isVerified", "allowCommunication", "code", "version"}

OpenCode(d) == d.status = "VERIFIED" /\ d.code # 0

VerificationCopy(q) ==
    /\ q.whole = {}
    /\ q.op = "updateStatus" \/ (OpenCode(q.new) => OpenCode(q.old))

VerificationInv ==
    /\ saves \in Nat
    /\ DOMAIN stored = ContactFields
    /\ DOMAIN copy = Requests
    /\ \A r \in Requests : copy[r] # Nothing => VerificationCopy(copy[r])

LEMMA VerificationRead ==
    ASSUME VerificationInv, NEW r \in Requests, NEW op, NEW new, CD!Change(r, op, new, {}),
           op = "updateStatus" \/ (OpenCode(new) => OpenCode(stored))
    PROVE  VerificationInv' /\ stored' = stored
<1>1. PICK q : q = [op |-> op, old |-> stored, new |-> new, whole |-> {}]
  OBVIOUS
<1>2. stored' = stored /\ saves' = saves /\ copy' = [copy EXCEPT ![r] = q]
  BY <1>1 DEF CD!Change, CD!Copy
<1>3. VerificationCopy(q)
  BY <1>1 DEF VerificationCopy
<1> QED BY <1>2, <1>3 DEF VerificationInv

LEMMA VerificationMethods ==
    ASSUME VerificationInv, NEW r \in Requests,
           \/ CD!GenerateVerificationCode(r) \/ \E right \in BOOLEAN : CD!VerifyByCode(r, right)
           \/ CD!Verify(r) \/ \E status \in CD!Statuses : CD!UpdateStatus(r, status)
           \/ CD!OptOut(r)
    PROVE  VerificationInv' /\ stored' = stored
<1>1. DOMAIN stored = ContactFields
  BY DEF VerificationInv
<1>2. CASE CD!GenerateVerificationCode(r)
  <2>1. PICK new : /\ new = [stored EXCEPT !.code = saves + 1, !.status = "UNVERIFIED"]
                   /\ CD!Change(r, "generate", new, {})
    BY <1>2 DEF CD!GenerateVerificationCode
  <2>2. ~ OpenCode(new)
    BY <1>1, <2>1 DEF OpenCode, ContactFields
  <2> QED BY <2>1, <2>2, VerificationRead
<1>3. ~ OpenCode(CD!Verified(stored))
  BY <1>1 DEF OpenCode, ContactFields, CD!Verified
<1>4. ASSUME NEW right \in BOOLEAN, CD!VerifyByCode(r, right)
      PROVE  VerificationInv' /\ stored' = stored
  <2>1. PICK new : /\ new = IF right THEN CD!Verified(stored) ELSE stored
                   /\ CD!Change(r, "verify", new, {})
    BY <1>4 DEF CD!VerifyByCode
  <2>2. OpenCode(new) => OpenCode(stored)
    BY <1>3, <2>1
  <2> QED BY <2>1, <2>2, VerificationRead
<1>5. CASE CD!Verify(r)
  BY <1>3, <1>5, VerificationRead DEF CD!Verify
<1>6. ASSUME NEW status \in CD!Statuses, CD!UpdateStatus(r, status)
      PROVE  VerificationInv' /\ stored' = stored
  BY <1>6, VerificationRead DEF CD!UpdateStatus
<1>7. CASE CD!OptOut(r)
  <2>1. PICK new : /\ new = [stored EXCEPT !.allowCommunication = FALSE, !.status = "DO_NOT_CONTACT"]
                   /\ CD!Change(r, "optOut", new, {})
    BY <1>7 DEF CD!OptOut
  <2>2. ~ OpenCode(new)
    BY <1>1, <2>1 DEF OpenCode, ContactFields
  <2> QED BY <2>1, <2>2, VerificationRead
<1> QED BY <1>2, <1>4, <1>5, <1>6, <1>7

LEMMA VerificationFirst == CD!VerificationInit => VerificationInv
BY DEF CD!VerificationInit, CD!NoCopies, VerificationInv, ContactFields

LEMMA VerificationSteps ==
    VerificationInv /\ [CD!VerificationNext]_(CD!document)
       => VerificationInv' /\ CD!OpenCodeOnlyByOverlap
<1> SUFFICES ASSUME VerificationInv, [CD!VerificationNext]_(CD!document)
             PROVE  VerificationInv' /\ CD!OpenCodeOnlyByOverlap
  OBVIOUS
<1>1. ASSUME NEW r \in Requests, CD!AbortCopy(r) PROVE VerificationInv' /\ stored' = stored
  BY <1>1 DEF CD!AbortCopy, VerificationInv
<1>2. ASSUME CD!CodesAreOver \/ UNCHANGED CD!document PROVE VerificationInv' /\ stored' = stored
  BY <1>2 DEF CD!CodesAreOver, CD!WorldChanges, CD!document, VerificationInv
<1>3. ASSUME NEW r \in Requests, CD!SaveVerification(r)
      PROVE  VerificationInv' /\ CD!OpenCodeOnlyByOverlap
  <2>1. PICK q : q = copy[r] /\ q # Nothing /\ Saved(r, {}, world)
    BY <1>3, VerificationSaves DEF CD!SaveVerification
  <2>2. VerificationCopy(q) /\ q.whole = {} /\ DOMAIN stored = ContactFields
        /\ DOMAIN copy = Requests /\ saves \in Nat
    BY <2>1 DEF VerificationInv, VerificationCopy
  <2>3. SentPaths(q, {}, stored, stored')
    <3>1. "version" \notin {} \cup q.whole /\ {} \cup q.whole = {}
      BY <2>2
    <3> QED BY <2>1, <3>1, PathsSaved
  <2>4. /\ DOMAIN stored' = ContactFields
        /\ stored'.status = Sent(q.old.status, q.new.status, stored.status)
        /\ stored'.code = Sent(q.old.code, q.new.code, stored.code)
    BY <2>2, <2>3 DEF SentPaths, ContactFields
  <2>5. copy' = [copy EXCEPT ![r] = Nothing] /\ saves' = saves + 1
    BY <2>1 DEF Saved
  <2>6. VerificationInv'
    BY <2>2, <2>4, <2>5 DEF VerificationInv
  <2>7. q.old = stored => stored'.status = q.new.status /\ stored'.code = q.new.code
    BY <2>4 DEF Sent
  <2>8. CD!OpenCodeOnlyByOverlap
    BY <2>1, <2>2, <2>5, <2>7 DEF CD!OpenCodeOnlyByOverlap, VerificationCopy, OpenCode
  <2> QED BY <2>6, <2>8
<1>4. stored' = stored => CD!OpenCodeOnlyByOverlap
  BY DEF CD!OpenCodeOnlyByOverlap
<1> QED BY <1>1, <1>2, <1>3, <1>4, VerificationMethods DEF CD!VerificationNext

-----------------------------------------------------------------------------
(* And the rooms of a socket. *)

LEMMA RoomsShow == RoomsInv /\ [RM!Next]_(RM!vars) => RM!UnlistedOnlyByOtherSocket
<1> SUFFICES ASSUME RoomsInv, [RM!Next]_(RM!vars),
                    NEW s \in DOMAIN stored, NEW room \in stored[s].rooms,
                    s \in DOMAIN stored', room \in stored'[s].rooms,
                    NEW u, u = stored[s].user, room \in At(copy, u),
                    room \notin At(copy', stored'[s].user),
                    \A t \in DOMAIN stored \ {s} : stored[t].user # u
             PROVE  FALSE
  BY DEF RM!UnlistedOnlyByOtherSocket, RM!Unlisted, RM!Connected, RM!UserOf, RM!OnlySocket,
         RM!RoomsOf, At
<1>1. stored[s] \in [user : OtherUsers, rooms : SUBSET RoomNames] /\ stored[s].user = u
  BY DEF RoomsInv, RM!TypeOK, RM!Connected
<1>2. ASSUME NEW t \in Sockets, NEW v \in OtherUsers, RM!Connect(t, v) PROVE FALSE
  BY <1>2 DEF RM!Connect, RM!Put, RM!Connected
<1>3. ASSUME NEW t \in Sockets, NEW rooms \in SUBSET RoomNames, RM!Subscribe(t, rooms)
      PROVE  FALSE
  <2>1. stored'[s].user = u
    BY <1>1, <1>3 DEF RM!Subscribe
  <2>2. copy' = [k \in DOMAIN copy \cup {stored[t].user} |->
                    IF k = stored[t].user THEN At(copy, stored[t].user) \cup rooms ELSE copy[k]]
    BY <1>3 DEF RM!Subscribe, RM!Put, RM!RoomsOf, RM!UserOf, At
  <2> QED BY <2>1, <2>2 DEF At
<1>4. ASSUME NEW t \in Sockets, NEW rooms \in SUBSET RoomNames, RM!Unsubscribe(t, rooms)
      PROVE  FALSE
  <2>1. /\ t \in DOMAIN stored /\ stored[t].user \in DOMAIN copy
        /\ stored' = [stored EXCEPT ![t].rooms = @ \ rooms]
        /\ copy' = RM!PutOrDelete(copy, stored[t].user, At(copy, stored[t].user) \ rooms)
    BY <1>4 DEF RM!Unsubscribe, RM!Connected, RM!UserOf, At
  <2>2. \A k : At(copy', k) = IF k = stored[t].user THEN At(copy, stored[t].user) \ rooms
                              ELSE At(copy, k)
    BY <2>1, PutOrDeleteChanges
  <2>3. stored'[s].user = u /\ (t = s => room \notin rooms)
    BY <1>1, <2>1
  <2> QED BY <2>1, <2>2, <2>3
<1>5. ASSUME NEW t \in Sockets, RM!Disconnect(t) PROVE FALSE
  <2>1. /\ t \in DOMAIN stored /\ stored' = RM!Restrict(stored, DOMAIN stored \ {t})
        /\ copy' = RM!Restrict(copy, DOMAIN copy \ {stored[t].user})
    BY <1>5 DEF RM!Disconnect, RM!Connected, RM!UserOf
  <2>2. s # t /\ stored'[s] = stored[s]
    BY <2>1 DEF RM!Restrict
  <2>3. \A k : At(copy', k) = IF k = stored[t].user THEN {} ELSE At(copy, k)
    BY <2>1 DEF At, RM!Restrict
  <2> QED BY <2>1, <2>2, <2>3
<1>6. CASE UNCHANGED RM!vars
  BY <1>6 DEF RM!vars
<1> QED BY <1>2, <1>3, <1>4, <1>5, <1>6 DEF RM!Next

-----------------------------------------------------------------------------
(* Subscriptions: the plan and the end. *)

LEMMA SubscriptionSaves == \A r, A, w : S!SaveCopy(r, A, w) => Saved(r, A, w)
BY DEF Saved, S!SaveCopy, S!Accepted, S!ComparesVersion, S!ElementsChanged, S!Places,
       S!Merged, S!CountsVersion, S!Pushed, S!MergedArray, S!MergedElement,
       MD!Accepted, MD!ComparesVersion, MD!ElementsChanged, MD!Places,
       MD!Merged, MD!CountsVersion, MD!Pushed, MD!MergedArray, MD!MergedElement

SubscriptionFields == {"plan", "billingCycle", "billingAmount", "status", "startDate",
                       "nextBillingDate", "endDate", "autoRenew", "payments", "version"}

Dated(d) == d.startDate \in Nat /\ d.nextBillingDate \in Nat /\ d.billingCycle \in Nat

\* The method changes the plan with its cycle and price, or none of them.
BillsAs(op, old, new) ==
    IF op = "changePlan"
    THEN new.billingCycle = new.plan.billingCycle /\ new.billingAmount = new.plan.price
    ELSE /\ new.plan = old.plan /\ new.billingCycle = old.billingCycle
         /\ new.billingAmount = old.billingAmount

\* The method cancels at once, ends nothing, or ends with what was billed.
EndsAs(old, new) ==
    \/ new.status = "CANCELLED"
    \/ new.endDate = 0
    \/ new.startDate = old.startDate /\ new.endDate \in {old.endDate, old.nextBillingDate}

SubscriptionCopy(q) ==
    /\ q.whole = {}
    /\ Dated(q.new)
    /\ BillsAs(q.op, q.old, q.new)
    /\ EndsAs(q.old, q.new)

SubscriptionInv ==
    /\ DOMAIN world = {"today", "given"} /\ world.today \in Nat
    /\ DOMAIN stored = SubscriptionFields /\ Dated(stored)
    /\ DOMAIN copy = Requests
    /\ \A r \in Requests : copy[r] # Nothing => SubscriptionCopy(copy[r])

LEMMA NextIsDate ==
    \A date, cycle, otherwise \in Nat : S!NextDate(date, cycle, otherwise) \in Nat
BY DEF S!NextDate, S!Custom

\* The hook changes the next date of a copy only.
LEMMA HookBills ==
    ASSUME NEW new, NEW d, DOMAIN new = SubscriptionFields, Dated(new), d = S!Billed(new)
    PROVE  /\ DOMAIN d = SubscriptionFields /\ Dated(d)
           /\ \A f \in SubscriptionFields \ {"nextBillingDate"} : d[f] = new[f]
<1>1. CASE d = new
  BY <1>1
<1>2. PICK next : next = S!NextDate(new.startDate, new.billingCycle, new.nextBillingDate)
  OBVIOUS
<1>3. next \in Nat
  BY <1>2, NextIsDate DEF Dated
<1>4. CASE d = [new EXCEPT !.nextBillingDate = next]
  BY <1>3, <1>4 DEF Dated, SubscriptionFields
<1>5. d = new \/ d = [new EXCEPT !.nextBillingDate = next]
  BY <1>2 DEF S!Billed, SubscriptionFields
<1> QED BY <1>1, <1>4, <1>5

LEMMA SubscriptionRead ==
    ASSUME SubscriptionInv, NEW r \in Requests, NEW op, NEW new, S!Do(r, op, new),
           DOMAIN new = SubscriptionFields, Dated(new), BillsAs(op, stored, new),
           EndsAs(stored, new)
    PROVE  SubscriptionInv' /\ stored' = stored
<1>1. PICK d : d = S!Billed(new)
  OBVIOUS
<1>2. PICK q : q = [op |-> op, old |-> stored, new |-> d, whole |-> {}]
  OBVIOUS
<1>3. UNCHANGED <<stored, world>> /\ copy' = [copy EXCEPT ![r] = q]
  BY <1>1, <1>2 DEF S!Do, S!Change, S!Copy
<1>4. /\ Dated(d) /\ d.plan = new.plan /\ d.billingCycle = new.billingCycle
      /\ d.billingAmount = new.billingAmount /\ d.status = new.status
      /\ d.endDate = new.endDate /\ d.startDate = new.startDate
  BY <1>1, HookBills DEF SubscriptionFields
<1>5. SubscriptionCopy(q)
  BY <1>2, <1>4 DEF SubscriptionCopy, BillsAs, EndsAs
<1> QED BY <1>3, <1>5 DEF SubscriptionInv

LEMMA SubscriptionMethods ==
    ASSUME SubscriptionInv, NEW r \in Requests,
           \/ \E status \in {"ACTIVE", "INACTIVE"} : S!SetStatus(r, status)
           \/ \E immediate \in BOOLEAN : S!Cancel(r, immediate)
           \/ S!Renew(r) \/ \E p \in Plans : S!ChangePlan(r, p)
           \/ \E payment \in Given : S!AddPayment(r, payment)
           \/ \E i \in DOMAIN stored.payments, status \in {"PAID", "REFUNDED"} :
                  S!UpdatePaymentStatus(r, i, status)
    PROVE  SubscriptionInv' /\ stored' = stored
<1>1. DOMAIN stored = SubscriptionFields /\ Dated(stored) /\ world.today \in Nat
  BY DEF SubscriptionInv
<1>2. ASSUME NEW status \in {"ACTIVE", "INACTIVE"}, S!SetStatus(r, status)
      PROVE  SubscriptionInv' /\ stored' = stored
  <2>1. PICK new : new = [stored EXCEPT !.status = status] /\ S!Do(r, "setStatus", new)
    BY <1>2 DEF S!SetStatus
  <2>2. /\ DOMAIN new = SubscriptionFields /\ Dated(new)
        /\ BillsAs("setStatus", stored, new) /\ EndsAs(stored, new)
    BY <1>1, <2>1 DEF Dated, SubscriptionFields, BillsAs, EndsAs
  <2> QED BY <2>1, <2>2, SubscriptionRead
<1>3. ASSUME NEW immediate \in BOOLEAN, S!Cancel(r, immediate)
      PROVE  SubscriptionInv' /\ stored' = stored
  <2>1. CASE immediate
    <3>1. PICK new : /\ new = [stored EXCEPT !.status = "CANCELLED", !.endDate = world.today]
                     /\ S!Do(r, "cancel", new)
      BY <1>3, <2>1 DEF S!Cancel
    <3>2. /\ DOMAIN new = SubscriptionFields /\ Dated(new)
          /\ BillsAs("cancel", stored, new) /\ EndsAs(stored, new)
      BY <1>1, <3>1 DEF Dated, SubscriptionFields, BillsAs, EndsAs
    <3> QED BY <3>1, <3>2, SubscriptionRead
  <2>2. CASE ~ immediate
    <3>1. PICK new : /\ new = [stored EXCEPT !.autoRenew = FALSE, !.endDate = stored.nextBillingDate]
                     /\ S!Do(r, "cancel", new)
      BY <1>3, <2>2 DEF S!Cancel
    <3>2. /\ DOMAIN new = SubscriptionFields /\ Dated(new)
          /\ BillsAs("cancel", stored, new) /\ EndsAs(stored, new)
      BY <1>1, <3>1 DEF Dated, SubscriptionFields, BillsAs, EndsAs
    <3> QED BY <3>1, <3>2, SubscriptionRead
  <2> QED BY <2>1, <2>2
<1>4. CASE S!Renew(r)
  <2>1. PICK next : next = S!NextDate(stored.nextBillingDate, stored.billingCycle,
                                      stored.nextBillingDate)
    OBVIOUS
  <2>2. PICK new : /\ new = [stored EXCEPT !.startDate = stored.nextBillingDate,
                                           !.nextBillingDate = next,
                                           !.endDate = 0, !.status = "ACTIVE"]
                   /\ S!Do(r, "renew", new)
    <3>1. [stored EXCEPT !.startDate = stored.nextBillingDate,
                         !.nextBillingDate = S!NextDate(@, stored.billingCycle, @),
                         !.endDate = 0, !.status = "ACTIVE"]
          = [stored EXCEPT !.startDate = stored.nextBillingDate,
                           !.nextBillingDate = next,
                           !.endDate = 0, !.status = "ACTIVE"]
      BY <1>1, <2>1 DEF SubscriptionFields
    <3> QED BY <1>4, <3>1 DEF S!Renew, S!NoDate
  <2>3. next \in Nat /\ stored.nextBillingDate \in Nat /\ stored.billingCycle \in Nat
    BY <1>1, <2>1, NextIsDate DEF Dated
  <2>4. /\ DOMAIN new = SubscriptionFields /\ new.endDate = 0
        /\ new.startDate = stored.nextBillingDate /\ new.nextBillingDate = next
        /\ new.plan = stored.plan /\ new.billingCycle = stored.billingCycle
        /\ new.billingAmount = stored.billingAmount
    BY <1>1, <2>2 DEF SubscriptionFields
  <2>5. Dated(new) /\ BillsAs("renew", stored, new) /\ EndsAs(stored, new)
    BY <2>3, <2>4 DEF Dated, BillsAs, EndsAs
  <2> QED BY <2>2, <2>4, <2>5, SubscriptionRead
<1>5. ASSUME NEW p \in Plans, S!ChangePlan(r, p)
      PROVE  SubscriptionInv' /\ stored' = stored
  <2>1. PICK next : next = S!NextDate(world.today, p.billingCycle, stored.nextBillingDate)
    OBVIOUS
  <2>2. PICK new : /\ new = [stored EXCEPT !.plan = p, !.billingCycle = p.billingCycle,
                                           !.billingAmount = p.price, !.nextBillingDate = next]
                   /\ S!Do(r, "changePlan", new)
    <3>1. [stored EXCEPT !.plan = p, !.billingCycle = p.billingCycle, !.billingAmount = p.price,
                         !.nextBillingDate = S!NextDate(world.today, p.billingCycle, @)]
          = [stored EXCEPT !.plan = p, !.billingCycle = p.billingCycle,
                           !.billingAmount = p.price, !.nextBillingDate = next]
      BY <1>1, <2>1 DEF SubscriptionFields
    <3> QED BY <1>5, <3>1 DEF S!ChangePlan
  <2>3. next \in Nat /\ p.billingCycle \in Nat
    <3>1. p.billingCycle \in Nat
      BY PlansAssumption
    <3> QED BY <1>1, <2>1, <3>1, NextIsDate DEF Dated
  <2>4. /\ DOMAIN new = SubscriptionFields /\ new.endDate = stored.endDate
        /\ new.startDate = stored.startDate /\ new.nextBillingDate = next
        /\ new.plan = p /\ new.billingCycle = p.billingCycle
        /\ new.billingAmount = p.price
    BY <1>1, <2>2 DEF SubscriptionFields
  <2>5. Dated(new) /\ BillsAs("changePlan", stored, new) /\ EndsAs(stored, new)
    BY <1>1, <2>3, <2>4 DEF Dated, BillsAs, EndsAs
  <2> QED BY <2>2, <2>4, <2>5, SubscriptionRead
<1>6. ASSUME NEW payment \in Given, S!AddPayment(r, payment)
      PROVE  SubscriptionInv' /\ stored' = stored
  <2>1. PICK list : S!Do(r, "addPayment", [stored EXCEPT !.payments = list])
    BY <1>6 DEF S!AddPayment
  <2>2. PICK new : new = [stored EXCEPT !.payments = list]
    OBVIOUS
  <2>3. /\ DOMAIN new = SubscriptionFields /\ Dated(new)
        /\ BillsAs("addPayment", stored, new) /\ EndsAs(stored, new)
    BY <1>1, <2>2 DEF Dated, SubscriptionFields, BillsAs, EndsAs
  <2> QED BY <2>1, <2>2, <2>3, SubscriptionRead
<1>7. ASSUME NEW i \in DOMAIN stored.payments, NEW status \in {"PAID", "REFUNDED"},
             S!UpdatePaymentStatus(r, i, status)
      PROVE  SubscriptionInv' /\ stored' = stored
  <2>1. PICK new : /\ new = [stored EXCEPT !.payments[i].status = status,
                                           !.payments[i].dated = @ \/ status = "PAID"]
                   /\ S!Do(r, "updatePaymentStatus", new)
    BY <1>7 DEF S!UpdatePaymentStatus
  <2>2. /\ DOMAIN new = SubscriptionFields
        /\ \A f \in SubscriptionFields \ {"payments"} : new[f] = stored[f]
    BY <1>1, <2>1
  <2>3. Dated(new) /\ BillsAs("updatePaymentStatus", stored, new) /\ EndsAs(stored, new)
    BY <1>1, <2>2 DEF Dated, SubscriptionFields, BillsAs, EndsAs
  <2> QED BY <2>1, <2>2, <2>3, SubscriptionRead
<1> QED BY <1>2, <1>3, <1>4, <1>5, <1>6, <1>7

LEMMA SubscriptionSave ==
    ASSUME SubscriptionInv, NEW r \in Requests, S!Save(r)
    PROVE  /\ SubscriptionInv'
           /\ S!OtherBillingOnlyByOverlap /\ S!EndBeforeStartOnlyByOverlap
<1>1. PICK q, n : /\ q = copy[r] /\ q # Nothing
                  /\ Saved(r, {"payments"}, [world EXCEPT !.given = n])
  <2>1. PICK n : /\ copy[r] # Nothing
                 /\ S!SaveCopy(r, {"payments"}, [world EXCEPT !.given = n])
    <3>1. \A g : [world EXCEPT !.given = @ \o g] = [world EXCEPT !.given = world.given \o g]
      BY DEF SubscriptionInv
    <3> QED BY <3>1 DEF S!Save, S!Arrays
  <2> QED BY <2>1, SubscriptionSaves
<1>2. /\ SubscriptionCopy(q) /\ q.whole = {} /\ DOMAIN stored = SubscriptionFields
      /\ DOMAIN copy = Requests /\ Dated(stored)
      /\ DOMAIN world = {"today", "given"} /\ world.today \in Nat
  BY <1>1 DEF SubscriptionInv, SubscriptionCopy
<1>3. SentPaths(q, {"payments"}, stored, stored')
  <2>1. "version" \notin {"payments"} \cup q.whole /\ {"payments"} \cup q.whole = {"payments"}
    BY <1>2
  <2> QED BY <1>1, <2>1, PathsSaved
<1>4. /\ DOMAIN stored' = SubscriptionFields
      /\ stored'.plan = Sent(q.old.plan, q.new.plan, stored.plan)
      /\ stored'.billingCycle = Sent(q.old.billingCycle, q.new.billingCycle, stored.billingCycle)
      /\ stored'.billingAmount =
            Sent(q.old.billingAmount, q.new.billingAmount, stored.billingAmount)
      /\ stored'.startDate = Sent(q.old.startDate, q.new.startDate, stored.startDate)
      /\ stored'.nextBillingDate =
            Sent(q.old.nextBillingDate, q.new.nextBillingDate, stored.nextBillingDate)
      /\ stored'.endDate = Sent(q.old.endDate, q.new.endDate, stored.endDate)
  BY <1>2, <1>3 DEF SentPaths, SubscriptionFields
<1>5. copy' = [copy EXCEPT ![r] = Nothing] /\ world' = [world EXCEPT !.given = n]
  BY <1>1 DEF Saved
<1>6. Dated(stored')
  BY <1>2, <1>4 DEF Dated, SubscriptionCopy, Sent
<1>7. SubscriptionInv'
  BY <1>2, <1>4, <1>5, <1>6 DEF SubscriptionInv
<1>8. S!OtherBillingOnlyByOverlap
  <2>1. ASSUME S!BillsThePlan, ~ S!BillsThePlan'
        PROVE  q.op = "changePlan" /\ S!Billing(q.old) # S!Billing(stored)
    <3>1. stored.billingCycle = stored.plan.billingCycle /\ stored.billingAmount = stored.plan.price
      BY <2>1 DEF S!BillsThePlan
    <3>2. ~ (/\ stored'.billingCycle = stored'.plan.billingCycle
             /\ stored'.billingAmount = stored'.plan.price)
      BY <2>1 DEF S!BillsThePlan
    <3>3. q.op = "changePlan"
      BY <1>2, <1>4, <3>1, <3>2 DEF SubscriptionCopy, BillsAs, Sent
    <3>4. ASSUME q.old.plan = stored.plan, q.old.billingCycle = stored.billingCycle,
                 q.old.billingAmount = stored.billingAmount
          PROVE  FALSE
      BY <1>2, <1>4, <3>2, <3>3, <3>4 DEF SubscriptionCopy, BillsAs, Sent
    <3> QED BY <3>3, <3>4 DEF S!Billing
  <2> QED BY <1>1, <1>2, <1>5, <2>1 DEF S!OtherBillingOnlyByOverlap
<1>9. S!EndBeforeStartOnlyByOverlap
  <2>1. ASSUME S!EndsBeforeStart(stored'), ~ S!EndsBeforeStart(stored),
               stored.nextBillingDate > stored.startDate
        PROVE  q.old # stored \/ q.new.status = "CANCELLED"
    <3> SUFFICES ASSUME q.old = stored, q.new.status # "CANCELLED" PROVE FALSE
      OBVIOUS
    <3>1. stored'.startDate = q.new.startDate /\ stored'.endDate = q.new.endDate
      BY <1>4 DEF Sent
    <3>2. q.new.endDate # 0 /\ q.new.endDate < q.new.startDate
          /\ ~ (stored.endDate # 0 /\ stored.endDate < stored.startDate)
      BY <2>1, <3>1 DEF S!EndsBeforeStart, S!NoDate
    <3>3. q.new.startDate = stored.startDate
          /\ q.new.endDate \in {stored.endDate, stored.nextBillingDate}
      BY <1>2, <3>2 DEF SubscriptionCopy, EndsAs
    <3>4. stored.startDate \in Nat /\ stored.nextBillingDate \in Nat
      BY <1>2 DEF Dated
    <3> QED BY <2>1, <3>2, <3>3, <3>4
  <2> QED BY <1>1, <1>2, <1>5, <2>1 DEF S!EndBeforeStartOnlyByOverlap
<1> QED BY <1>7, <1>8, <1>9

LEMMA SubscriptionFirst == S!Init => SubscriptionInv
<1> SUFFICES ASSUME S!Init PROVE SubscriptionInv
  OBVIOUS
<1>1. PICK p \in Plans, date \in {S!NoDate, 2}, list \in S!FirstPayments :
          /\ stored = [plan |-> p, billingCycle |-> p.billingCycle,
                       billingAmount |-> p.price, status |-> "PENDING", startDate |-> 1,
                       nextBillingDate |-> S!NextDate(1, p.billingCycle, date),
                       endDate |-> S!NoDate, autoRenew |-> TRUE, payments |-> list,
                       version |-> 0]
          /\ world = [today |-> 1, given |-> list]
  BY DEF S!Init
<1>2. p.billingCycle \in Nat /\ S!NextDate(1, p.billingCycle, date) \in Nat
  <2>1. p.billingCycle \in Nat /\ date \in Nat
    BY PlansAssumption DEF S!NoDate
  <2> QED BY <2>1, NextIsDate
<1>3. DOMAIN stored = SubscriptionFields /\ Dated(stored)
  BY <1>1, <1>2 DEF Dated, SubscriptionFields
<1>4. copy = [r \in Requests |-> Nothing]
  BY DEF S!Init, S!NoCopies
<1> QED BY <1>1, <1>3, <1>4 DEF SubscriptionInv

LEMMA SubscriptionSteps ==
    SubscriptionInv /\ [S!Next]_(S!document)
       => /\ SubscriptionInv'
          /\ S!OtherBillingOnlyByOverlap /\ S!EndBeforeStartOnlyByOverlap
<1> SUFFICES ASSUME SubscriptionInv, [S!Next]_(S!document)
             PROVE  /\ SubscriptionInv'
                    /\ S!OtherBillingOnlyByOverlap /\ S!EndBeforeStartOnlyByOverlap
  OBVIOUS
<1>1. ASSUME NEW r \in Requests, S!AbortCopy(r) PROVE SubscriptionInv' /\ stored' = stored
  BY <1>1 DEF S!AbortCopy, SubscriptionInv
<1>2. ASSUME S!MonthPasses PROVE SubscriptionInv' /\ stored' = stored
  <2>1. UNCHANGED <<stored, copy>> /\ world' = [world EXCEPT !.today = @ + 1]
    BY <1>2 DEF S!MonthPasses, S!WorldChanges
  <2>2. DOMAIN world' = {"today", "given"} /\ world'.today \in Nat
    BY <2>1 DEF SubscriptionInv
  <2> QED BY <2>1, <2>2 DEF SubscriptionInv
<1>3. ASSUME UNCHANGED S!document PROVE SubscriptionInv' /\ stored' = stored
  BY <1>3 DEF S!document, SubscriptionInv
<1>4. stored' = stored => S!OtherBillingOnlyByOverlap /\ S!EndBeforeStartOnlyByOverlap
  BY DEF S!OtherBillingOnlyByOverlap, S!BillsThePlan, S!EndBeforeStartOnlyByOverlap,
         S!EndsBeforeStart
<1> QED BY <1>1, <1>2, <1>3, <1>4, SubscriptionMethods, SubscriptionSave DEF S!Next

-----------------------------------------------------------------------------
(***************************************************************************)
(* The default among payment methods: a request that has unset the others  *)
(* knows every default that was stored since.                              *)
(***************************************************************************)
\* n is a default of the methods d.
DefaultIn(d, n) == d[n] # Nothing /\ d[n].isDefault

Siblings(m) == (IF m \in OfCompany THEN OfCompany ELSE Methods) \ {m}

MakesDefault(old, new) == new.isDefault /\ (old = Nothing \/ ~ old.isDefault)

PaymentCopy(q, d) ==
    /\ DOMAIN q = {"op", "id", "old", "new", "step", "since"}
    /\ q.id \in Methods
    /\ q.old # Nothing => q.old \in PM!PaymentMethod /\ d[q.id] # Nothing
    /\ q.new \in PM!PaymentMethod
    /\ q.step \in {"unset", "save"}
    /\ (q.step = "save" /\ MakesDefault(q.old, q.new)) =>
          \A n \in Siblings(q.id) : n \in Methods /\ DefaultIn(d, n) => n \in q.since

PaymentInv ==
    /\ DOMAIN stored = Methods
    /\ \A m \in Methods : stored[m] # Nothing => stored[m] \in PM!PaymentMethod
    /\ DOMAIN copy = Requests
    /\ \A r \in Requests : copy[r] # Nothing => PaymentCopy(copy[r], stored)

LEMMA PaymentStart ==
    ASSUME PaymentInv, NEW r \in Requests, NEW m \in Methods, NEW op, NEW new \in PM!PaymentMethod,
           PM!Start(r, m, op, new)
    PROVE  PaymentInv' /\ stored' = stored
<1>1. PICK d : d = PM!Expired(m, new)
  OBVIOUS
<1>2. d \in PM!PaymentMethod /\ d.isDefault = new.isDefault
  BY <1>1 DEF PM!Expired, PM!PaymentMethod, PM!Statuses
<1>3. PICK q : q = [op |-> op, id |-> m, old |-> stored[m], new |-> d,
                    step |-> IF MakesDefault(stored[m], new) THEN "unset" ELSE "save",
                    since |-> {}]
  OBVIOUS
<1>4. stored' = stored /\ copy' = [copy EXCEPT ![r] = q]
  BY <1>1, <1>3 DEF PM!Start, PM!BecomesDefault, MakesDefault
<1>5. q.step = "save" => ~ MakesDefault(q.old, q.new)
  BY <1>2, <1>3 DEF MakesDefault
<1>6. /\ DOMAIN q = {"op", "id", "old", "new", "step", "since"} /\ q.id = m
      /\ q.old = stored[m] /\ q.new = d /\ q.step \in {"unset", "save"}
  BY <1>3
<1>7. PaymentCopy(q, stored)
  BY <1>2, <1>5, <1>6 DEF PaymentCopy, PaymentInv
<1>8. ASSUME NEW s \in Requests, copy'[s] # Nothing PROVE PaymentCopy(copy'[s], stored')
  BY <1>4, <1>7, <1>8 DEF PaymentInv
<1> QED BY <1>4, <1>8 DEF PaymentInv

LEMMA PaymentMethodsStart ==
    ASSUME PaymentInv, NEW r \in Requests, NEW m \in Methods,
           \/ \E default \in BOOLEAN : PM!Create(r, m, default)
           \/ PM!SetAsDefault(r, m) \/ PM!Deactivate(r, m) \/ PM!MarkAsVerified(r, m)
           \/ PM!UpdateStatus(r, m, "DECLINED") \/ PM!Delete(r, m)
    PROVE  PaymentInv' /\ stored' = stored
<1>1. stored[m] # Nothing => stored[m] \in PM!PaymentMethod
  BY DEF PaymentInv
<1>2. PICK op, new : PM!Start(r, m, op, new) /\ new \in PM!PaymentMethod
  <2>1. ASSUME NEW default \in BOOLEAN, PM!Create(r, m, default)
        PROVE  \E op, new : PM!Start(r, m, op, new) /\ new \in PM!PaymentMethod
    <3>1. [status |-> "PENDING_VERIFICATION", isDefault |-> default] \in PM!PaymentMethod
      BY DEF PM!PaymentMethod, PM!Statuses
    <3> QED BY <2>1, <3>1 DEF PM!Create
  <2>2. CASE PM!SetAsDefault(r, m)
    <3>1. stored[m] # Nothing => [stored[m] EXCEPT !.isDefault = TRUE] \in PM!PaymentMethod
      BY <1>1 DEF PM!PaymentMethod
    <3> QED BY <2>2, <3>1 DEF PM!SetAsDefault, PM!Change
  <2>3. ASSUME NEW status \in PM!Statuses, stored[m] # Nothing
        PROVE  [stored[m] EXCEPT !.status = status] \in PM!PaymentMethod
    BY <1>1, <2>3 DEF PM!PaymentMethod
  <2>4. CASE PM!Deactivate(r, m)
    BY <2>3, <2>4 DEF PM!Deactivate, PM!Change, PM!Statuses
  <2>5. CASE PM!MarkAsVerified(r, m)
    BY <2>3, <2>5 DEF PM!MarkAsVerified, PM!Change, PM!Statuses
  <2>6. CASE PM!UpdateStatus(r, m, "DECLINED")
    BY <2>3, <2>6 DEF PM!UpdateStatus, PM!Change, PM!Statuses
  <2>7. CASE PM!Delete(r, m)
    <3>1. [status |-> "DELETED", isDefault |-> FALSE] \in PM!PaymentMethod
      BY DEF PM!PaymentMethod, PM!Statuses
    <3> QED BY <2>7, <3>1 DEF PM!Delete, PM!Change
  <2> QED BY <2>1, <2>2, <2>4, <2>5, <2>6, <2>7
<1> QED BY <1>2, PaymentStart

LEMMA PaymentUnset ==
    ASSUME PaymentInv, NEW r \in Requests, PM!UnsetOthers(r)
    PROVE  PaymentInv' /\ \A m \in Methods : DefaultIn(stored', m) => DefaultIn(stored, m)
<1>1. PICK q : q = [copy[r] EXCEPT !.step = "save", !.since = {}]
  OBVIOUS
<1>2. /\ copy[r] # Nothing /\ copy[r].step = "unset"
      /\ stored' = [n \in Methods |->
                       IF n \in Siblings(copy[r].id) /\ DefaultIn(stored, n)
                       THEN [stored[n] EXCEPT !.isDefault = FALSE] ELSE stored[n]]
      /\ copy' = [copy EXCEPT ![r] = q]
  <2>1. PaymentCopy(copy[r], stored)
    BY DEF PM!UnsetOthers, PaymentInv
  <2>2. [copy EXCEPT ![r].step = "save", ![r].since = {}] = [copy EXCEPT ![r] = q]
    BY <1>1, <2>1 DEF PaymentCopy, PaymentInv
  <2> QED BY <2>2 DEF PM!UnsetOthers, PM!Others, PM!IsDefault, Siblings, DefaultIn
<1>3. /\ DOMAIN copy = Requests /\ PaymentCopy(copy[r], stored)
      /\ \A m \in Methods : stored[m] # Nothing => stored[m] \in PM!PaymentMethod
  BY <1>2 DEF PaymentInv
<1>4. /\ DOMAIN q = {"op", "id", "old", "new", "step", "since"} /\ q.id = copy[r].id
      /\ q.old = copy[r].old /\ q.new = copy[r].new /\ q.step = "save"
  BY <1>1, <1>3 DEF PaymentCopy
<1>5. ASSUME NEW m \in Methods
      PROVE  /\ stored'[m] # Nothing <=> stored[m] # Nothing
             /\ stored'[m] # Nothing => stored'[m] \in PM!PaymentMethod
             /\ DefaultIn(stored', m) => DefaultIn(stored, m)
             /\ m \in Siblings(q.id) => ~ DefaultIn(stored', m)
  <2>1. CASE m \in Siblings(copy[r].id) /\ DefaultIn(stored, m)
    <3>1. stored[m] \in PM!PaymentMethod /\ stored[m] # Nothing
      BY <1>3, <2>1 DEF DefaultIn
    <3>2. stored'[m] = [stored[m] EXCEPT !.isDefault = FALSE]
      BY <1>2, <2>1
    <3>3. stored'[m] \in PM!PaymentMethod /\ ~ stored'[m].isDefault
      BY <3>1, <3>2 DEF PM!PaymentMethod
    <3> QED BY <2>1, <3>1, <3>3, NothingAssumption DEF DefaultIn
  <2>2. CASE ~ (m \in Siblings(copy[r].id) /\ DefaultIn(stored, m))
    <3>1. stored'[m] = stored[m]
      BY <1>2, <2>2
    <3> QED BY <1>3, <1>4, <2>2, <3>1 DEF DefaultIn
  <2> QED BY <2>1, <2>2
<1>6. ASSUME NEW c, PaymentCopy(c, stored) PROVE PaymentCopy(c, stored')
  BY <1>5, <1>6 DEF PaymentCopy
<1>7. PaymentCopy(q, stored')
  BY <1>3, <1>4, <1>5 DEF PaymentCopy
<1>8. ASSUME NEW s \in Requests, copy'[s] # Nothing PROVE PaymentCopy(copy'[s], stored')
  <2>1. CASE s = r
    BY <1>2, <1>3, <1>7, <2>1
  <2>2. CASE s # r
    BY <1>2, <1>3, <1>6, <1>8, <2>2 DEF PaymentInv
  <2> QED BY <2>1, <2>2
<1>9. DOMAIN stored' = Methods /\ DOMAIN copy' = Requests
  BY <1>2, <1>3
<1>10. PaymentInv'
  BY <1>5, <1>8, <1>9 DEF PaymentInv
<1> QED BY <1>5, <1>10

LEMMA PaymentSave ==
    ASSUME PaymentInv, NEW r \in Requests, PM!Save(r)
    PROVE  /\ PaymentInv'
           /\ \A m, n \in Methods :
                 (m # n /\ DefaultIn(stored', n) /\ DefaultIn(stored', m) /\ ~ DefaultIn(stored, m))
                   => \/ n \notin Siblings(m)
                      \/ copy[r] # Nothing /\ copy[r].id = m /\ n \in copy[r].since
<1>1. PICK q : q = copy[r]
  OBVIOUS
<1>2. /\ q # Nothing /\ q.step = "save" /\ PaymentCopy(q, stored)
      /\ DOMAIN stored = Methods /\ DOMAIN copy = Requests
      /\ \A m \in Methods : stored[m] # Nothing => stored[m] \in PM!PaymentMethod
  BY <1>1 DEF PM!Save, PaymentInv
<1>3. PICK merged : merged = PM!Merged(q)
  OBVIOUS
<1>4. /\ stored' = [stored EXCEPT ![q.id] = merged]
      /\ copy' = [s \in Requests |->
                     IF s = r THEN Nothing
                     ELSE IF copy[s] # Nothing /\ MakesDefault(q.old, q.new)
                     THEN [copy[s] EXCEPT !.since = @ \cup {q.id}] ELSE copy[s]]
  BY <1>1, <1>3 DEF PM!Save, PM!BecomesDefault, MakesDefault
<1>c. \A n \in Methods : stored'[n] = IF n = q.id THEN merged ELSE stored[n]
  <2>1. stored' = [stored EXCEPT ![q.id] = merged] /\ DOMAIN stored = Methods
    BY <1>2, <1>4
  <2> QED BY <2>1
<1>5. /\ merged \in PM!PaymentMethod
      /\ merged.isDefault => MakesDefault(q.old, q.new) \/ DefaultIn(stored, q.id)
  <2>1. CASE q.old = Nothing
    BY <1>2, <1>3, <2>1 DEF PM!Merged, PaymentCopy, MakesDefault
  <2>2. CASE q.old # Nothing
    <3>1. /\ q.old \in PM!PaymentMethod /\ q.new \in PM!PaymentMethod
          /\ stored[q.id] # Nothing /\ stored[q.id] \in PM!PaymentMethod
      BY <1>2, <2>2 DEF PaymentCopy
    <3>2. merged = [f \in DOMAIN q.new |-> IF q.old[f] = q.new[f] THEN stored[q.id][f] ELSE q.new[f]]
      BY <1>3, <2>2 DEF PM!Merged
    <3>3. DOMAIN q.new = {"status", "isDefault"}
      BY <3>1 DEF PM!PaymentMethod
    <3>4. merged = [status |-> IF q.old.status = q.new.status THEN stored[q.id].status ELSE q.new.status,
                    isDefault |-> IF q.old.isDefault = q.new.isDefault
                                  THEN stored[q.id].isDefault ELSE q.new.isDefault]
      BY <3>2, <3>3
    <3> QED BY <3>1, <3>4 DEF PM!PaymentMethod, MakesDefault, DefaultIn
  <2> QED BY <2>1, <2>2
<1>6. q.id \in Methods /\ merged # Nothing
  BY <1>2, <1>5, NothingAssumption DEF PaymentCopy
<1>7. ASSUME NEW n \in Methods
      PROVE  /\ stored'[n] # Nothing => stored'[n] \in PM!PaymentMethod
             /\ stored[n] # Nothing => stored'[n] # Nothing
             /\ DefaultIn(stored', n) =>
                   DefaultIn(stored, n) \/ (n = q.id /\ MakesDefault(q.old, q.new))
  <2>1. CASE n = q.id
    <3>1. stored'[n] = merged
      BY <1>c, <2>1
    <3>2. merged \in PM!PaymentMethod /\ merged # Nothing
      BY <1>5, <1>6
    <3>3. DefaultIn(stored', n) =>
             DefaultIn(stored, n) \/ (n = q.id /\ MakesDefault(q.old, q.new))
      BY <1>5, <2>1, <3>1 DEF DefaultIn
    <3> QED BY <3>1, <3>2, <3>3
  <2>2. CASE n # q.id
    <3>1. stored'[n] = stored[n]
      BY <1>c, <2>2
    <3>2. DefaultIn(stored', n) <=> DefaultIn(stored, n)
      BY <3>1 DEF DefaultIn
    <3> QED BY <1>2, <3>1, <3>2
  <2> QED BY <2>1, <2>2
<1>8. ASSUME NEW s \in Requests, copy'[s] # Nothing PROVE PaymentCopy(copy'[s], stored')
  <2>1. s # r /\ copy[s] # Nothing /\ PaymentCopy(copy[s], stored)
    <3>1. s # r
      BY <1>4, <1>8
    <3>2. copy[s] # Nothing
      BY <1>4, <1>8, <3>1
    <3> QED BY <3>1, <3>2 DEF PaymentInv
  <2>2. CASE MakesDefault(q.old, q.new)
    <3>1. copy'[s] = [copy[s] EXCEPT !.since = @ \cup {q.id}]
      BY <1>4, <2>1, <2>2
    <3>2. /\ DOMAIN copy'[s] = DOMAIN copy[s] /\ copy'[s].id = copy[s].id
          /\ copy'[s].old = copy[s].old /\ copy'[s].new = copy[s].new
          /\ copy'[s].step = copy[s].step /\ copy'[s].since = copy[s].since \cup {q.id}
      BY <2>1, <3>1 DEF PaymentCopy
    <3> QED BY <1>7, <2>1, <3>2 DEF PaymentCopy
  <2>3. CASE ~ MakesDefault(q.old, q.new)
    <3>1. copy'[s] = copy[s]
      BY <1>4, <2>1, <2>3
    <3> QED BY <1>7, <2>1, <2>3, <3>1 DEF PaymentCopy
  <2> QED BY <2>2, <2>3
<1>9. DOMAIN stored' = Methods /\ DOMAIN copy' = Requests
  BY <1>2, <1>4
<1>10. PaymentInv'
  BY <1>7, <1>8, <1>9 DEF PaymentInv
<1>11. ASSUME NEW m \in Methods, NEW n \in Methods, m # n, n \in Siblings(m),
              DefaultIn(stored', n), DefaultIn(stored', m), ~ DefaultIn(stored, m)
       PROVE  copy[r] # Nothing /\ copy[r].id = m /\ n \in copy[r].since
  <2>1. m = q.id /\ MakesDefault(q.old, q.new)
    BY <1>7, <1>11
  <2>2. DefaultIn(stored, n)
    BY <1>7, <1>11, <2>1
  <2> QED BY <1>1, <1>2, <1>11, <2>1, <2>2 DEF PaymentCopy
<1> QED BY <1>10, <1>11

LEMMA PaymentFirst == PM!Init => PaymentInv
BY DEF PM!Init, PaymentInv

LEMMA PaymentSteps ==
    ASSUME PaymentInv, [PM!Next]_(PM!paymentMethods)
    PROVE  PaymentInv' /\ PM!SecondDefaultOnlyByOverlap
<1>1. PaymentInv' /\
        (\/ \A m \in Methods : DefaultIn(stored', m) => DefaultIn(stored, m)
         \/ \E r \in Requests : \A m, n \in Methods :
               (m # n /\ DefaultIn(stored', n) /\ DefaultIn(stored', m) /\ ~ DefaultIn(stored, m))
                   => \/ n \notin Siblings(m)
                      \/ copy[r] # Nothing /\ copy[r].id = m /\ n \in copy[r].since)
  <2>1. ASSUME NEW r \in Requests, NEW m \in Methods,
               \/ \E default \in BOOLEAN : PM!Create(r, m, default)
               \/ PM!SetAsDefault(r, m) \/ PM!Deactivate(r, m) \/ PM!MarkAsVerified(r, m)
               \/ PM!UpdateStatus(r, m, "DECLINED") \/ PM!Delete(r, m)
        PROVE  PaymentInv' /\ stored' = stored
    BY <2>1, PaymentMethodsStart
  <2>2. ASSUME NEW r \in Requests, PM!Abort(r) PROVE PaymentInv' /\ stored' = stored
    BY <2>2 DEF PM!Abort, PaymentInv
  <2>3. CASE PM!MonthEnds
    BY <2>3 DEF PM!MonthEnds, PaymentInv
  <2>4. CASE UNCHANGED PM!paymentMethods
    BY <2>4 DEF PM!paymentMethods, PaymentInv
  <2>5. ASSUME NEW r \in Requests, PM!UnsetOthers(r)
        PROVE  PaymentInv' /\ \A m \in Methods : DefaultIn(stored', m) => DefaultIn(stored, m)
    BY <2>5, PaymentUnset
  <2>6. ASSUME NEW r \in Requests, PM!Save(r)
        PROVE  PaymentInv' /\ \A m, n \in Methods :
               (m # n /\ DefaultIn(stored', n) /\ DefaultIn(stored', m) /\ ~ DefaultIn(stored, m))
                   => \/ n \notin Siblings(m)
                      \/ copy[r] # Nothing /\ copy[r].id = m /\ n \in copy[r].since
    BY <2>6, PaymentSave
  <2>7. CASE stored' = stored /\ PaymentInv'
    BY <2>7
  <2>8. CASE PM!Next
    BY <2>1, <2>2, <2>3, <2>5, <2>6, <2>7, <2>8 DEF PM!Next
  <2>9. UNCHANGED PM!paymentMethods => stored' = stored
    BY DEF PM!paymentMethods
  <2> QED BY <2>4, <2>7, <2>8, <2>9
<1> QED BY <1>1 DEF PM!SecondDefaultOnlyByOverlap, PM!IsDefault, PM!Others, DefaultIn, Siblings

-----------------------------------------------------------------------------
(***************************************************************************)
(* The mark of the primary contact: a copy that no other save overlapped   *)
(* knows the mark of its own contact, and its hook all the marks but those *)
(* it has left.                                                            *)
(***************************************************************************)
Marked(d) == {c \in Contacts : d[c]}

MarkCopy(q, d, n) ==
    /\ DOMAIN q = {"id", "old", "new", "read", "step", "other", "left"}
    /\ q.id \in Contacts /\ q.old \in BOOLEAN /\ q.new \in BOOLEAN
    /\ q.read \in Nat /\ q.read <= n
    /\ q.old => q.new
    /\ q.step \in {"find", "demote", "save"}
    /\ q.step = "demote" => q.other \in Contacts /\ q.other # q.id
    /\ q.read = n => d[q.id] = q.old
    /\ (q.read = n /\ q.new /\ q.left = {} /\ q.step # "find") =>
          \A c \in Contacts : d[c] => c = q.id \/ (q.step = "demote" /\ c = q.other)

MarkInv ==
    /\ DOMAIN stored = Contacts /\ \A c \in Contacts : stored[c] \in BOOLEAN
    /\ IsFiniteSet(Marked(stored))
    /\ saves \in Nat
    /\ DOMAIN copy = Requests
    /\ \A r \in Requests : copy[r] # Nothing =>
          copy[r] \in CP!PrimaryCopy /\ MarkCopy(copy[r], stored, saves)

\* What a contact's mark does to the other copies: they are overlapped.
LEMMA MarkOthers ==
    ASSUME NEW q, NEW d, NEW e, NEW n \in Nat, MarkCopy(q, d, n)
    PROVE  MarkCopy(q, e, n + 1)
<1>1. q.read \in Nat /\ q.read <= n + 1 /\ q.read # n + 1
  BY DEF MarkCopy
<1> QED BY <1>1 DEF MarkCopy

LEMMA MarkBegin ==
    ASSUME MarkInv, NEW r \in Requests, NEW c \in Contacts,
           CP!MarkAsPrimary(r, c) \/ CP!UpdateOther(r, c)
    PROVE  MarkInv' /\ stored' = stored /\ saves' = saves
<1>1. PICK new \in BOOLEAN : CP!Begin(r, c, new) /\ (stored[c] => new)
  BY DEF CP!MarkAsPrimary, CP!UpdateOther, MarkInv
<1>2. PICK q : q = [id |-> c, old |-> stored[c], new |-> new, read |-> saves,
                    step |-> IF new THEN "find" ELSE "save", other |-> Nothing, left |-> {}]
  OBVIOUS
<1>3. stored' = stored /\ saves' = saves /\ copy' = [copy EXCEPT ![r] = q]
  BY <1>1, <1>2 DEF CP!Begin
<1>4. q \in CP!PrimaryCopy
  BY <1>2 DEF CP!PrimaryCopy, MarkInv
<1>5. /\ q.id = c /\ q.old = stored[c] /\ q.new = new /\ q.read = saves /\ q.left = {}
      /\ q.step = IF new THEN "find" ELSE "save"
      /\ DOMAIN q = {"id", "old", "new", "read", "step", "other", "left"}
  BY <1>2
<1>6. stored[c] \in BOOLEAN /\ saves \in Nat
  BY DEF MarkInv
<1>7. MarkCopy(q, stored, saves)
  BY <1>1, <1>5, <1>6 DEF MarkCopy
<1>8. ASSUME NEW s \in Requests, copy'[s] # Nothing
      PROVE  copy'[s] \in CP!PrimaryCopy /\ MarkCopy(copy'[s], stored, saves)
  BY <1>3, <1>4, <1>7, <1>8 DEF MarkInv
<1> QED BY <1>3, <1>8 DEF MarkInv

LEMMA MarkFind ==
    ASSUME MarkInv, NEW r \in Requests, CP!FindOther(r)
    PROVE  MarkInv' /\ stored' = stored /\ saves' = saves
<1>1. PICK q : q = copy[r]
  OBVIOUS
<1>2. /\ q # Nothing /\ q.step = "find" /\ stored' = stored /\ saves' = saves
      /\ q \in CP!PrimaryCopy /\ MarkCopy(q, stored, saves) /\ DOMAIN copy = Requests
  BY <1>1 DEF CP!FindOther, MarkInv
<1>3. PICK p : /\ copy' = [copy EXCEPT ![r] = p]
               /\ p \in CP!PrimaryCopy /\ MarkCopy(p, stored, saves)
  <2>1. CASE CP!OtherPrimaries(copy[r].id) = {} /\ copy' = [copy EXCEPT ![r].step = "save"]
    <3>1. PICK p : p = [q EXCEPT !.step = "save"]
      OBVIOUS
    <3>2. copy' = [copy EXCEPT ![r] = p]
      BY <1>1, <1>2, <2>1, <3>1
    <3>3. p \in CP!PrimaryCopy
      BY <1>2, <3>1 DEF CP!PrimaryCopy
    <3>4. /\ DOMAIN p = DOMAIN q /\ p.id = q.id /\ p.old = q.old /\ p.new = q.new
          /\ p.read = q.read /\ p.left = q.left /\ p.step = "save"
      BY <1>2, <3>1 DEF MarkCopy
    <3>5. \A c \in Contacts : stored[c] => c = q.id
      BY <1>1, <2>1 DEF CP!OtherPrimaries, CP!Primaries
    <3>6. MarkCopy(p, stored, saves)
      BY <1>2, <3>4, <3>5 DEF MarkCopy
    <3> QED BY <3>2, <3>3, <3>6
  <2>2. ASSUME NEW c \in CP!OtherPrimaries(copy[r].id),
               copy' = [copy EXCEPT ![r].step = "demote", ![r].other = c,
                                    ![r].left = CP!OtherPrimaries(copy[r].id) \ {c}]
        PROVE  \E p : /\ copy' = [copy EXCEPT ![r] = p]
                      /\ p \in CP!PrimaryCopy /\ MarkCopy(p, stored, saves)
    <3>1. PICK left : left = CP!OtherPrimaries(copy[r].id) \ {c}
      OBVIOUS
    <3>2. PICK p : p = [q EXCEPT !.step = "demote", !.other = c, !.left = left]
      OBVIOUS
    <3>3. copy' = [copy EXCEPT ![r] = p]
      BY <1>1, <1>2, <2>2, <3>1, <3>2
    <3>4. c \in Contacts /\ c # q.id /\ left \in SUBSET Contacts
      BY <1>1, <3>1 DEF CP!OtherPrimaries, CP!Primaries
    <3>5. p \in CP!PrimaryCopy
      BY <1>2, <3>2, <3>4 DEF CP!PrimaryCopy
    <3>6. /\ DOMAIN p = DOMAIN q /\ p.id = q.id /\ p.old = q.old /\ p.new = q.new
          /\ p.read = q.read /\ p.left = left /\ p.step = "demote" /\ p.other = c
      BY <1>2, <3>2 DEF MarkCopy
    <3>7. left = {} => \A d \in Contacts : stored[d] => d = q.id \/ d = c
      BY <1>1, <3>1 DEF CP!OtherPrimaries, CP!Primaries
    <3>8. MarkCopy(p, stored, saves)
      BY <1>2, <3>4, <3>6, <3>7 DEF MarkCopy
    <3> QED BY <3>3, <3>5, <3>8
  <2> QED BY <2>1, <2>2 DEF CP!FindOther
<1>4. ASSUME NEW s \in Requests, copy'[s] # Nothing
      PROVE  copy'[s] \in CP!PrimaryCopy /\ MarkCopy(copy'[s], stored, saves)
  BY <1>2, <1>3, <1>4 DEF MarkInv
<1> QED BY <1>2, <1>3, <1>4 DEF MarkInv

LEMMA MarkCounts ==
    ASSUME NEW n, NEW U, IsFiniteSet(U), CP!Cardinality(U) > 1
    PROVE  ~ U \subseteq {n}
<1>1. CP!Cardinality(U) = Cardinality(U)
  BY DEF Cardinality, CP!Cardinality, IsFiniteSet, CP!IsFiniteSet
<1>2. SUFFICES ASSUME U = {} \/ U = {n} PROVE FALSE
  OBVIOUS
<1> QED BY <1>1, <1>2, FS_EmptySet, FS_Singleton

LEMMA MarkDemote ==
    ASSUME MarkInv, NEW r \in Requests, CP!SaveOther(r)
    PROVE  /\ MarkInv'
           /\ \A s \in Requests : copy[s] # Nothing => copy'[s] # Nothing
           /\ CP!Cardinality(Marked(stored)) <= 1 => ~ (CP!Cardinality(Marked(stored')) > 1)
<1>1. PICK q : q = copy[r]
  OBVIOUS
<1>2. /\ q # Nothing /\ q.step = "demote" /\ saves' = saves + 1
      /\ q \in CP!PrimaryCopy /\ MarkCopy(q, stored, saves) /\ DOMAIN copy = Requests
      /\ saves \in Nat
      /\ stored' = [stored EXCEPT ![q.other] = FALSE]
      /\ DOMAIN stored = Contacts /\ \A c \in Contacts : stored[c] \in BOOLEAN
  BY <1>1 DEF CP!SaveOther, MarkInv
<1>3. PICK p : p = [q EXCEPT !.step = "save", !.read = q.read + 1]
  OBVIOUS
<1>4. copy' = [copy EXCEPT ![r] = p]
  <2>1. copy' = [copy EXCEPT ![r].step = "save", ![r].read = @ + 1]
    BY DEF CP!SaveOther
  <2> QED BY <1>1, <1>2, <1>3, <2>1
<1>5. q.other \in Contacts /\ q.other # q.id /\ q.read \in Nat /\ q.read <= saves
  BY <1>2 DEF MarkCopy
<1>6. \A c \in Contacts : stored'[c] = IF c = q.other THEN FALSE ELSE stored[c]
  BY <1>2, <1>5
<1>7. /\ DOMAIN p = DOMAIN q /\ p.id = q.id /\ p.old = q.old /\ p.new = q.new
      /\ p.read = q.read + 1 /\ p.left = q.left /\ p.step = "save"
  BY <1>2, <1>3 DEF MarkCopy
<1>8. p \in CP!PrimaryCopy
  <2>1. PICK read \in Nat : read = q.read + 1
    BY <1>5
  <2>2. p = [q EXCEPT !.step = "save", !.read = read]
    BY <1>3, <2>1
  <2>3. q \in CP!PrimaryCopy
    BY <1>2
  <2> QED BY <2>2, <2>3 DEF CP!PrimaryCopy
<1>9. MarkCopy(p, stored', saves + 1)
  <2>1. p.read \in Nat /\ p.read <= saves + 1 /\ (p.read = saves + 1 => q.read = saves)
    BY <1>2, <1>5, <1>7
  <2> QED BY <1>2, <1>5, <1>6, <1>7, <2>1 DEF MarkCopy
<1>10. ASSUME NEW s \in Requests, copy'[s] # Nothing
       PROVE  copy'[s] \in CP!PrimaryCopy /\ MarkCopy(copy'[s], stored', saves')
  <2>1. CASE s = r
    BY <1>2, <1>4, <1>8, <1>9, <2>1
  <2>2. CASE s # r
    <3>1. copy'[s] = copy[s]
      BY <1>2, <1>4, <2>2
    <3>2. copy[s] \in CP!PrimaryCopy /\ MarkCopy(copy[s], stored, saves)
      BY <1>10, <3>1 DEF MarkInv
    <3> QED BY <1>2, <3>1, <3>2, MarkOthers
  <2> QED BY <2>1, <2>2
<1>11. Marked(stored') = Marked(stored) \ {q.other}
  BY <1>6 DEF Marked
<1>12. IsFiniteSet(Marked(stored))
  BY DEF MarkInv
<1>13. IsFiniteSet(Marked(stored'))
  BY <1>11, <1>12, FS_Subset
<1>14. MarkInv'
  <2>1. /\ DOMAIN stored' = Contacts /\ \A c \in Contacts : stored'[c] \in BOOLEAN
        /\ DOMAIN copy' = Requests
    BY <1>2, <1>4, <1>6
  <2>2. saves' \in Nat
    BY <1>2
  <2> QED BY <1>10, <1>13, <2>1, <2>2 DEF MarkInv, Marked
<1>15. ASSUME NEW s \in Requests, copy[s] # Nothing PROVE copy'[s] # Nothing
  <2>1. p # Nothing
    BY <1>8, NothingAssumption
  <2> QED BY <1>2, <1>4, <1>15, <2>1
<1>16. CP!Cardinality(Marked(stored)) <= 1 => ~ (CP!Cardinality(Marked(stored')) > 1)
  <2>1. Cardinality(Marked(stored')) <= Cardinality(Marked(stored))
    BY <1>11, <1>12, FS_Subset
  <2>2. /\ CP!Cardinality(Marked(stored)) = Cardinality(Marked(stored))
        /\ CP!Cardinality(Marked(stored')) = Cardinality(Marked(stored'))
    BY DEF Cardinality, CP!Cardinality, IsFiniteSet, CP!IsFiniteSet
  <2>3. Cardinality(Marked(stored)) \in Nat /\ Cardinality(Marked(stored')) \in Nat
    BY <1>12, <1>13, FS_CardinalityType
  <2> QED BY <2>1, <2>2, <2>3
<1> QED BY <1>14, <1>15, <1>16

LEMMA MarkSave ==
    ASSUME MarkInv, NEW r \in Requests, CP!SaveContact(r)
    PROVE  /\ MarkInv'
           /\ \A s \in Requests \ {r} : copy'[s] = copy[s]
           /\ copy[r] # Nothing /\ copy'[r] = Nothing
           /\ CP!Cardinality(Marked(stored)) <= 1 /\ CP!Cardinality(Marked(stored')) > 1
                => copy[r].read < saves \/ copy[r].left # {}
           /\ copy[r].new /\ Marked(stored') = {} => copy[r].read < saves
<1>1. PICK q : q = copy[r]
  OBVIOUS
<1>2. /\ q # Nothing /\ q.step = "save" /\ saves' = saves + 1
      /\ MarkCopy(q, stored, saves) /\ DOMAIN copy = Requests /\ saves \in Nat
      /\ stored' = [stored EXCEPT ![q.id] = IF q.old = q.new THEN @ ELSE q.new]
      /\ copy' = [copy EXCEPT ![r] = Nothing]
      /\ DOMAIN stored = Contacts /\ \A c \in Contacts : stored[c] \in BOOLEAN
  BY <1>1 DEF CP!SaveContact, MarkInv
<1>3. /\ q.id \in Contacts /\ q.old \in BOOLEAN /\ q.new \in BOOLEAN
      /\ q.read \in Nat /\ q.read <= saves
  BY <1>2 DEF MarkCopy
<1>4. \A c \in Contacts : stored'[c] = IF c = q.id /\ q.old # q.new THEN q.new ELSE stored[c]
  BY <1>2, <1>3
<1>5. ASSUME NEW s \in Requests \ {r} PROVE copy'[s] = copy[s]
  BY <1>2
<1>6. copy'[r] = Nothing
  BY <1>2
<1>7. ASSUME NEW s \in Requests, copy'[s] # Nothing
      PROVE  copy'[s] \in CP!PrimaryCopy /\ MarkCopy(copy'[s], stored', saves')
  <2>1. copy'[s] = copy[s]
    BY <1>5, <1>6, <1>7
  <2>2. copy[s] \in CP!PrimaryCopy /\ MarkCopy(copy[s], stored, saves)
    BY <1>7, <2>1 DEF MarkInv
  <2> QED BY <1>2, <2>1, <2>2, MarkOthers
<1>8. IsFiniteSet(Marked(stored'))
  <2>1. Marked(stored') \subseteq Marked(stored) \cup {q.id}
    BY <1>4 DEF Marked
  <2>2. IsFiniteSet(Marked(stored) \cup {q.id})
    BY FS_AddElement DEF MarkInv
  <2> QED BY <2>1, <2>2, FS_Subset
<1>9. MarkInv'
  <2>1. /\ DOMAIN stored' = Contacts /\ \A c \in Contacts : stored'[c] \in BOOLEAN
        /\ DOMAIN copy' = Requests /\ saves' \in Nat
    BY <1>2, <1>3, <1>4
  <2> QED BY <1>7, <1>8, <2>1 DEF MarkInv, Marked
<1>10. ASSUME CP!Cardinality(Marked(stored)) <= 1, CP!Cardinality(Marked(stored')) > 1
       PROVE  q.read < saves \/ q.left # {}
  <2> SUFFICES ASSUME q.read = saves, q.left = {} PROVE FALSE
    BY <1>2, <1>3
  <2>1. stored[q.id] = q.old
    BY <1>2 DEF MarkCopy
  <2>2. CASE q.new
    <3>1. \A c \in Contacts : stored[c] => c = q.id
      BY <1>2, <2>2 DEF MarkCopy
    <3>2. Marked(stored') \subseteq {q.id}
      BY <1>4, <3>1 DEF Marked
    <3> QED BY <1>8, <1>10, <3>2, MarkCounts
  <2>3. CASE ~ q.new
    <3>1. q.old = q.new
      BY <1>2, <1>3, <2>3 DEF MarkCopy
    <3>2. Marked(stored') = Marked(stored)
      BY <1>4, <3>1 DEF Marked
    <3>3. CP!Cardinality(Marked(stored)) \in Nat
      <4>1. CP!Cardinality(Marked(stored)) = Cardinality(Marked(stored))
        BY DEF Cardinality, CP!Cardinality, IsFiniteSet, CP!IsFiniteSet
      <4> QED BY <4>1, FS_CardinalityType DEF MarkInv
    <3> QED BY <1>10, <3>2, <3>3
  <2> QED BY <2>2, <2>3
<1>11. ASSUME q.new, Marked(stored') = {} PROVE q.read < saves
  <2> SUFFICES ASSUME q.read = saves PROVE FALSE
    BY <1>2, <1>3
  <2>1. stored[q.id] = q.old
    BY <1>2 DEF MarkCopy
  <2>2. stored'[q.id]
    BY <1>3, <1>4, <1>11, <2>1
  <2> QED BY <1>3, <1>11, <2>2 DEF Marked
<1> QED BY <1>1, <1>2, <1>5, <1>6, <1>9, <1>10, <1>11

LEMMA MarkFirst == CP!PrimaryInit => MarkInv
<1> SUFFICES ASSUME CP!PrimaryInit PROVE MarkInv
  OBVIOUS
<1>1. /\ stored = [c \in Contacts |-> FALSE] /\ copy = [r \in Requests |-> Nothing] /\ saves = 0
  BY DEF CP!PrimaryInit, CP!NoCopies
<1>2. Marked(stored) = {}
  BY <1>1 DEF Marked
<1> QED BY <1>1, <1>2, FS_EmptySet DEF MarkInv

LEMMA MarkSteps ==
    ASSUME MarkInv, [CP!PrimaryNext]_(CP!document)
    PROVE  /\ MarkInv'
           /\ CP!SecondPrimaryOnlyByOverlap /\ CP!NonePrimaryOnlyByOverlap
<1>0. /\ CP!Primaries = Marked(stored) /\ CP!Primaries' = Marked(stored')
  BY DEF CP!Primaries, Marked
<1>1. ASSUME stored' = stored, saves' = saves
      PROVE  CP!SecondPrimaryOnlyByOverlap /\ CP!NonePrimaryOnlyByOverlap
  <2>1. CP!Cardinality(Marked(stored)) \in Nat \/ TRUE
    OBVIOUS
  <2>2. CP!Cardinality(Marked(stored)) = Cardinality(Marked(stored))
    BY DEF Cardinality, CP!Cardinality, IsFiniteSet, CP!IsFiniteSet
  <2>3. Cardinality(Marked(stored)) \in Nat
    BY FS_CardinalityType DEF MarkInv
  <2>4. CP!SecondPrimaryOnlyByOverlap
    BY <1>0, <1>1, <2>2, <2>3 DEF CP!SecondPrimaryOnlyByOverlap
  <2> QED BY <1>1, <2>4 DEF CP!NonePrimaryOnlyByOverlap
<1>2. ASSUME NEW r \in Requests, CP!SaveOther(r)
      PROVE  MarkInv' /\ CP!SecondPrimaryOnlyByOverlap /\ CP!NonePrimaryOnlyByOverlap
  <2>1. /\ MarkInv'
        /\ \A s \in Requests : copy[s] # Nothing => copy'[s] # Nothing
        /\ CP!Cardinality(Marked(stored)) <= 1 => ~ (CP!Cardinality(Marked(stored')) > 1)
    BY <1>2, MarkDemote
  <2> QED BY <1>0, <2>1 DEF CP!SecondPrimaryOnlyByOverlap, CP!NonePrimaryOnlyByOverlap
<1>3. ASSUME NEW r \in Requests, CP!SaveContact(r)
      PROVE  MarkInv' /\ CP!SecondPrimaryOnlyByOverlap /\ CP!NonePrimaryOnlyByOverlap
  <2>1. /\ MarkInv'
        /\ \A s \in Requests \ {r} : copy'[s] = copy[s]
        /\ copy[r] # Nothing /\ copy'[r] = Nothing
        /\ CP!Cardinality(Marked(stored)) <= 1 /\ CP!Cardinality(Marked(stored')) > 1
                => copy[r].read < saves \/ copy[r].left # {}
        /\ copy[r].new /\ Marked(stored') = {} => copy[r].read < saves
    BY <1>3, MarkSave
  <2>2. CP!SecondPrimaryOnlyByOverlap
    BY <1>0, <2>1 DEF CP!SecondPrimaryOnlyByOverlap, CP!Overlapped
  <2>3. CP!NonePrimaryOnlyByOverlap
    BY <1>0, <2>1 DEF CP!NonePrimaryOnlyByOverlap, CP!Overlapped
  <2> QED BY <2>1, <2>2, <2>3
<1>4. ASSUME NEW r \in Requests, CP!AbortCopy(r)
      PROVE  MarkInv' /\ stored' = stored /\ saves' = saves
  BY <1>4 DEF CP!AbortCopy, MarkInv
<1>5. CASE UNCHANGED CP!document
  <2>1. stored' = stored /\ saves' = saves /\ copy' = copy
    BY <1>5 DEF CP!document
  <2>2. MarkInv'
    BY <2>1 DEF MarkInv
  <2> QED BY <1>1, <2>1, <2>2
<1>6. ASSUME NEW r \in Requests,
             \/ \E c \in Contacts : CP!MarkAsPrimary(r, c) \/ CP!UpdateOther(r, c)
             \/ CP!FindOther(r)
      PROVE  MarkInv' /\ stored' = stored /\ saves' = saves
  BY <1>6, MarkBegin, MarkFind
<1>7. CASE MarkInv' /\ stored' = stored /\ saves' = saves
  BY <1>1, <1>7
<1> QED BY <1>2, <1>3, <1>4, <1>5, <1>6, <1>7 DEF CP!PrimaryNext

-----------------------------------------------------------------------------
(* The contacts of a client: a copy has what was read, less what its request *)
(* takes, and what its request made.                                         *)

Listed(s) == {s[i] : i \in DOMAIN s}

\* n is s less at most id, and more at most what request slot r makes.
ListChanged(s, n, id, r) ==
    /\ Listed(s) \ {id} \subseteq Listed(n)
    /\ \A e \in Listed(n) \ Listed(s) : e = [slot |-> r, at |-> e.at]

ClientDoc(d) == /\ DOMAIN d = {"contacts", "name"}
                /\ d.contacts \in Seq(CC!Ids) /\ d.name \in Nat

ClientCopy(r, q) ==
    /\ DOMAIN q = {"op", "old", "new", "whole"}
    /\ ClientDoc(q.old) /\ ClientDoc(q.new)
    /\ ListChanged(q.old.contacts, q.new.contacts, q.op, r)
    /\ q.new.name = q.old.name

ClientInv ==
    /\ saves \in Nat
    /\ stored # Nothing => ClientDoc(stored) /\ stored.name <= saves
    /\ DOMAIN copy = Requests
    /\ \A r \in Requests : copy[r] # Nothing =>
          ClientCopy(r, copy[r]) /\ copy[r].old.name <= saves

\* What a list is with an element appended, replaced or taken out.
LEMMA ListAppended ==
    ASSUME NEW El, NEW s \in Seq(El), NEW e \in El
    PROVE  Append(s, e) \in Seq(El) /\ Listed(Append(s, e)) = Listed(s) \cup {e}
<1>1. PICK n \in Nat : n = Len(s) /\ DOMAIN s = 1..n
  OBVIOUS
<1>2. PICK t : t = Append(s, e)
  OBVIOUS
<1>3. /\ t \in Seq(El) /\ DOMAIN t = 1..n + 1 /\ t[n + 1] = e
      /\ \A i \in 1..n : t[i] = s[i]
  BY <1>1, <1>2
<1>4. \A i \in 1..n + 1 : i = n + 1 \/ i \in 1..n
  BY <1>1
<1>5. \A i \in 1..n : i \in 1..n + 1
  BY <1>1
<1>6. n + 1 \in 1..n + 1
  BY <1>1
<1>7. Listed(t) = Listed(s) \cup {e}
  BY <1>1, <1>3, <1>4, <1>5, <1>6 DEF Listed
<1> QED BY <1>2, <1>3, <1>7

LEMMA ListReplaced ==
    ASSUME NEW El, NEW s \in Seq(El), NEW e \in El, NEW p \in DOMAIN s
    PROVE  /\ [s EXCEPT ![p] = e] \in Seq(El)
           /\ Listed(s) \ {s[p]} \subseteq Listed([s EXCEPT ![p] = e])
           /\ Listed([s EXCEPT ![p] = e]) \subseteq Listed(s) \cup {e}
<1>1. PICK n \in Nat : n = Len(s) /\ DOMAIN s = 1..n
  OBVIOUS
<1>2. PICK t : t = [s EXCEPT ![p] = e]
  OBVIOUS
<1>3. DOMAIN t = DOMAIN s /\ \A i \in DOMAIN s : t[i] = IF i = p THEN e ELSE s[i]
  BY <1>2
<1>4. t \in Seq(El)
  <2>1. t \in [1..n -> El]
    BY <1>1, <1>2
  <2> QED BY <1>1, <2>1, SeqDef
<1>5. Listed(s) \ {s[p]} \subseteq Listed(t) /\ Listed(t) \subseteq Listed(s) \cup {e}
  BY <1>3 DEF Listed
<1> QED BY <1>2, <1>4, <1>5

LEMMA ListWithout ==
    ASSUME NEW El, NEW s \in Seq(El), NEW p \in DOMAIN s
    PROVE  /\ CC!Without(s, p) \in Seq(El)
           /\ Listed(s) \ {s[p]} \subseteq Listed(CC!Without(s, p))
           /\ Listed(CC!Without(s, p)) \subseteq Listed(s)
<1>1. PICK n \in Nat : n = Len(s) /\ DOMAIN s = 1..n
  OBVIOUS
<1>2. PICK k \in Nat : p = k + 1 /\ k + 1 <= n /\ p - 1 = k
  <2>1. p - 1 \in Nat
    BY <1>1
  <2> QED BY <1>1, <2>1
<1>3. PICK a : a = SubSeq(s, 1, p - 1)
  OBVIOUS
<1>4. PICK b : b = SubSeq(s, p + 1, Len(s))
  OBVIOUS
<1>5. a \in Seq(El) /\ Len(a) = k /\ \A i \in 1..k : a[i] = s[i]
  <2>1. \A i \in 1..k : s[i] \in El
    BY <1>1, <1>2
  <2>2. /\ SubSeq(s, 1, k) \in Seq(El)
        /\ Len(SubSeq(s, 1, k)) = IF 1 <= k THEN k - 1 + 1 ELSE 0
        /\ \A i \in 1..k - 1 + 1 : SubSeq(s, 1, k)[i] = s[1 + i - 1]
    BY <2>1, SubSeqProperties
  <2>3. \A i \in 1..k : i \in 1..k - 1 + 1 /\ 1 + i - 1 = i
    OBVIOUS
  <2> QED BY <1>2, <1>3, <2>2, <2>3
<1>6. b \in Seq(El) /\ Len(b) = n - p /\ \A i \in 1..n - p : b[i] = s[p + i]
  <2>1. p \in Nat /\ p <= Len(s)
    BY <1>1, <1>2
  <2> QED BY <1>1, <1>4, <2>1, SuffixProperties
<1>7. PICK t : t = a \o b
  OBVIOUS
<1>8. /\ t \in Seq(El) /\ Len(t) = Len(a) + Len(b)
      /\ \A i \in 1..Len(a) : t[i] = a[i]
      /\ \A i \in 1..Len(b) : t[Len(a) + i] = b[i]
  <2>1. a \in Seq(El) /\ b \in Seq(El)
    BY <1>5, <1>6
  <2> QED BY <1>7, <2>1, ConcatParts
<1>9. /\ DOMAIN t = 1..k + (n - p)
      /\ \A i \in 1..k : t[i] = s[i]
      /\ \A i \in 1..n - p : t[k + i] = s[p + i]
  BY <1>5, <1>6, <1>8
<1>10. Listed(s) \ {s[p]} \subseteq Listed(t)
  <2> SUFFICES ASSUME NEW i \in 1..n, i # p PROVE s[i] \in Listed(t)
    BY <1>1 DEF Listed
  <2>1. CASE i < p
    <3>1. i \in 1..k /\ i \in 1..k + (n - p)
      BY <1>2, <2>1
    <3> QED BY <1>9, <3>1 DEF Listed
  <2>2. CASE p < i
    <3>1. PICK j \in 1..n - p : j = i - p
      BY <1>2, <2>2
    <3>2. p + j = i /\ k + j \in 1..k + (n - p)
      BY <1>2, <3>1
    <3> QED BY <1>9, <3>1, <3>2 DEF Listed
  <2> QED BY <1>2, <2>1, <2>2
<1>11. Listed(t) \subseteq Listed(s)
  <2> SUFFICES ASSUME NEW i \in 1..k + (n - p) PROVE t[i] \in Listed(s)
    BY <1>9 DEF Listed
  <2>1. CASE i <= k
    <3>1. i \in 1..k /\ i \in 1..n
      BY <1>2, <2>1
    <3> QED BY <1>1, <1>9, <3>1 DEF Listed
  <2>2. CASE k < i
    <3>1. PICK j \in 1..n - p : j = i - k
      BY <1>2, <2>2
    <3>2. k + j = i /\ p + j \in 1..n
      BY <1>2, <3>1
    <3> QED BY <1>1, <1>9, <3>1, <3>2 DEF Listed
  <2> QED BY <1>2, <2>1, <2>2
<1>12. CC!Without(s, p) = t
  BY <1>3, <1>4, <1>7 DEF CC!Without
<1> QED BY <1>8, <1>10, <1>11, <1>12

LEMMA ClientChange ==
    ASSUME ClientInv, NEW r \in Requests, NEW id, NEW new, CC!Change(r, id, new, {}),
           ClientDoc(new), new.name = stored.name,
           ListChanged(stored.contacts, new.contacts, id, r)
    PROVE  ClientInv' /\ stored' = stored
<1>1. PICK q : q = [op |-> id, old |-> stored, new |-> new, whole |-> {}]
  OBVIOUS
<1>2. /\ copy' = [copy EXCEPT ![r] = q] /\ stored' = stored /\ saves' = saves
      /\ stored # Nothing
  BY <1>1 DEF CC!Change, CC!Copy
<1>3. ClientDoc(stored) /\ stored.name <= saves
  BY <1>2 DEF ClientInv
<1>4. ClientCopy(r, q) /\ q.old.name <= saves
  BY <1>1, <1>3 DEF ClientCopy
<1>5. ASSUME NEW s \in Requests, copy'[s] # Nothing
      PROVE  ClientCopy(s, copy'[s]) /\ copy'[s].old.name <= saves
  BY <1>2, <1>4, <1>5 DEF ClientInv
<1> QED BY <1>2, <1>5 DEF ClientInv

LEMMA ClientAdd ==
    ASSUME ClientInv, NEW r \in Requests, CC!AddContact(r)
    PROVE  ClientInv' /\ stored' = stored
<1>1. PICK e : e = [slot |-> r, at |-> saves]
  OBVIOUS
<1>2. e \in CC!Ids /\ e = [slot |-> r, at |-> e.at]
  BY <1>1 DEF CC!Ids, ClientInv
<1>3. PICK new : new = [stored EXCEPT !.contacts = Append(@, e)]
  OBVIOUS
<1>4. CC!Change(r, Nothing, new, {}) /\ stored # Nothing
  BY <1>1, <1>3 DEF CC!AddContact, CC!NewId, CC!Change
<1>5. ClientDoc(stored)
  BY <1>4 DEF ClientInv
<1>6. /\ DOMAIN new = DOMAIN stored /\ new.contacts = Append(stored.contacts, e)
      /\ new.name = stored.name
  BY <1>3, <1>5 DEF ClientDoc
<1>7. /\ Append(stored.contacts, e) \in Seq(CC!Ids)
      /\ Listed(Append(stored.contacts, e)) = Listed(stored.contacts) \cup {e}
  BY <1>2, <1>5, ListAppended DEF ClientDoc
<1>8. ListChanged(stored.contacts, new.contacts, Nothing, r)
  BY <1>2, <1>6, <1>7 DEF ListChanged
<1> QED BY <1>4, <1>5, <1>6, <1>7, <1>8, ClientChange DEF ClientDoc

LEMMA ClientPlace ==
    ASSUME NEW id \in CC!IdsOf(stored)
    PROVE  CC!PlaceOf(id) \in DOMAIN stored.contacts /\ stored.contacts[CC!PlaceOf(id)] = id
BY DEF CC!IdsOf, CC!PlaceOf

LEMMA ClientUpdateContact ==
    ASSUME ClientInv, NEW r \in Requests, NEW id \in CC!IdsOf(stored), CC!UpdateContact(r, id)
    PROVE  ClientInv' /\ stored' = stored
<1>1. PICK e : e = [slot |-> r, at |-> saves]
  OBVIOUS
<1>2. e \in CC!Ids /\ e = [slot |-> r, at |-> e.at]
  BY <1>1 DEF CC!Ids, ClientInv
<1>3. PICK p : p = CC!PlaceOf(id) /\ p \in DOMAIN stored.contacts /\ stored.contacts[p] = id
  BY ClientPlace
<1>4. PICK t : t = [stored.contacts EXCEPT ![p] = e]
  OBVIOUS
<1>5. PICK new : new = [stored EXCEPT !.contacts = t]
  OBVIOUS
<1>6. stored # Nothing
  BY DEF CC!UpdateContact, CC!Change
<1>7. ClientDoc(stored)
  BY <1>6 DEF ClientInv
<1>8. CC!Change(r, id, new, {})
  <2>1. [stored EXCEPT !.contacts[p] = e] = [stored EXCEPT !.contacts = [stored.contacts EXCEPT ![p] = e]]
    BY <1>7 DEF ClientDoc
  <2> QED BY <1>1, <1>3, <1>4, <1>5, <2>1 DEF CC!UpdateContact, CC!NewId
<1>9. /\ DOMAIN new = DOMAIN stored /\ new.contacts = t /\ new.name = stored.name
  BY <1>5, <1>7 DEF ClientDoc
<1>10. /\ t \in Seq(CC!Ids) /\ Listed(stored.contacts) \ {id} \subseteq Listed(t)
       /\ Listed(t) \subseteq Listed(stored.contacts) \cup {e}
  <2>1. stored.contacts \in Seq(CC!Ids)
    BY <1>7 DEF ClientDoc
  <2>2. /\ [stored.contacts EXCEPT ![p] = e] \in Seq(CC!Ids)
        /\ Listed(stored.contacts) \ {stored.contacts[p]}
              \subseteq Listed([stored.contacts EXCEPT ![p] = e])
        /\ Listed([stored.contacts EXCEPT ![p] = e]) \subseteq Listed(stored.contacts) \cup {e}
    BY <1>2, <1>3, <2>1, ListReplaced
  <2> QED BY <1>3, <1>4, <2>2
<1>11. ListChanged(stored.contacts, new.contacts, id, r)
  BY <1>2, <1>9, <1>10 DEF ListChanged
<1> QED BY <1>7, <1>8, <1>9, <1>10, <1>11, ClientChange DEF ClientDoc

LEMMA ClientDeleteContact ==
    ASSUME ClientInv, NEW r \in Requests, NEW id, id = Nothing \/ id \in CC!IdsOf(stored),
           CC!DeleteContact(r, id)
    PROVE  ClientInv' /\ stored' = stored
<1>0. CASE id = Nothing
  <2>1. CC!Change(r, id, stored, {}) /\ stored # Nothing
    BY <1>0 DEF CC!DeleteContact, CC!Change
  <2>2. ClientDoc(stored)
    BY <2>1 DEF ClientInv
  <2>3. ListChanged(stored.contacts, stored.contacts, id, r)
    BY DEF ListChanged
  <2> QED BY <2>1, <2>2, <2>3, ClientChange
<1> SUFFICES ASSUME id # Nothing PROVE ClientInv' /\ stored' = stored
  BY <1>0
<1>1. PICK p : p = CC!PlaceOf(id) /\ p \in DOMAIN stored.contacts /\ stored.contacts[p] = id
  BY ClientPlace
<1>2. PICK t : t = CC!Without(stored.contacts, p)
  OBVIOUS
<1>3. PICK new : new = [stored EXCEPT !.contacts = t]
  OBVIOUS
<1>4. stored # Nothing
  BY DEF CC!DeleteContact, CC!Change
<1>5. ClientDoc(stored)
  BY <1>4 DEF ClientInv
<1>6. CC!Change(r, id, new, {})
  BY <1>1, <1>2, <1>3 DEF CC!DeleteContact, CC!Without
<1>7. /\ DOMAIN new = DOMAIN stored /\ new.contacts = t /\ new.name = stored.name
  BY <1>3, <1>5 DEF ClientDoc
<1>8. /\ t \in Seq(CC!Ids) /\ Listed(stored.contacts) \ {id} \subseteq Listed(t)
      /\ Listed(t) \subseteq Listed(stored.contacts)
  <2>1. stored.contacts \in Seq(CC!Ids)
    BY <1>5 DEF ClientDoc
  <2>2. /\ CC!Without(stored.contacts, p) \in Seq(CC!Ids)
        /\ Listed(stored.contacts) \ {stored.contacts[p]}
              \subseteq Listed(CC!Without(stored.contacts, p))
        /\ Listed(CC!Without(stored.contacts, p)) \subseteq Listed(stored.contacts)
    BY <1>1, <2>1, ListWithout
  <2> QED BY <1>1, <1>2, <2>2
<1>9. ListChanged(stored.contacts, new.contacts, id, r)
  BY <1>7, <1>8 DEF ListChanged
<1> QED BY <1>5, <1>6, <1>7, <1>8, <1>9, ClientChange DEF ClientDoc

\* What a step loses, in terms of lists.
LostWith(s, n) ==
    \/ Listed(s.contacts) = Listed(n.contacts) /\ n.name >= s.name
    \/ \E r \in Requests :
          /\ copy[r] # Nothing /\ copy'[r] = Nothing
          /\ \A id \in Listed(s.contacts) \ Listed(n.contacts) :
                copy[r].op = id \/ id \notin Listed(copy[r].old.contacts)
          /\ \A id \in Listed(n.contacts) \ Listed(s.contacts) :
                copy[r].old = s => id = [slot |-> r, at |-> id.at]
          /\ n.name < s.name => copy[r].old.name < s.name

LEMMA ClientWriteBack ==
    ASSUME ClientInv, NEW r \in Requests, CC!WriteBack(r)
    PROVE  ClientInv' /\ LostWith(stored, stored')
<1>1. PICK q : q = copy[r]
  OBVIOUS
<1>2. /\ q # Nothing /\ stored # Nothing /\ stored' = q.new /\ saves' = saves + 1
      /\ copy' = [copy EXCEPT ![r] = Nothing] /\ DOMAIN copy = Requests
      /\ ClientCopy(r, q) /\ q.old.name <= saves /\ saves \in Nat
  BY <1>1 DEF CC!WriteBack, ClientInv
<1>3. ASSUME NEW n \in Nat, n <= saves PROVE n <= saves + 1
  BY <1>2, <1>3
<1>4. /\ saves + 1 \in Nat /\ ClientDoc(q.new) /\ q.new.name = q.old.name
      /\ q.old.name \in Nat /\ q.old.name <= saves + 1
  BY <1>2, <1>3 DEF ClientCopy, ClientDoc
<1>5. ASSUME NEW s \in Requests, copy'[s] # Nothing
      PROVE  ClientCopy(s, copy'[s]) /\ copy'[s].old.name <= saves + 1
  <2>1. copy'[s] = copy[s]
    BY <1>2, <1>5
  <2>2. ClientCopy(s, copy[s]) /\ copy[s].old.name <= saves
    BY <1>5, <2>1 DEF ClientInv
  <2> QED BY <1>3, <2>1, <2>2 DEF ClientCopy, ClientDoc
<1>6. ClientInv'
  BY <1>2, <1>4, <1>5 DEF ClientInv
<1>7. copy[r] # Nothing /\ copy'[r] = Nothing
  BY <1>1, <1>2
<1>8. LostWith(stored, stored')
  BY <1>1, <1>2, <1>4, <1>7 DEF LostWith, ClientCopy, ListChanged
<1> QED BY <1>6, <1>8

LEMMA ClientUpdate ==
    ASSUME ClientInv, CC!Update \/ CC!Delete
    PROVE  ClientInv' /\ (stored' = Nothing \/ LostWith(stored, stored'))
<1>1. /\ stored # Nothing /\ saves' = saves + 1 /\ copy' = copy
      /\ stored' \in {[stored EXCEPT !.name = saves + 1], Nothing}
  BY DEF CC!Update, CC!Delete, CC!UpdateStored
<1>2. ClientDoc(stored) /\ stored.name <= saves /\ saves \in Nat
  BY <1>1 DEF ClientInv
<1>3. saves + 1 \in Nat /\ \A n \in Nat : n <= saves => n <= saves + 1
  BY <1>2
<1>4. stored' # Nothing => /\ DOMAIN stored' = DOMAIN stored
                           /\ stored'.contacts = stored.contacts /\ stored'.name = saves + 1
  BY <1>1, <1>2 DEF ClientDoc
<1>5. stored' # Nothing => ClientDoc(stored') /\ stored'.name <= saves + 1
  BY <1>2, <1>3, <1>4 DEF ClientDoc
<1>6. ASSUME NEW s \in Requests, copy[s] # Nothing
      PROVE  ClientCopy(s, copy[s]) /\ copy[s].old.name <= saves + 1
  BY <1>3, <1>6 DEF ClientInv, ClientCopy, ClientDoc
<1>7. ClientInv'
  BY <1>1, <1>3, <1>5, <1>6 DEF ClientInv
<1>8. stored' # Nothing => LostWith(stored, stored')
  <2>1. stored.name \in Nat /\ saves + 1 >= stored.name
    BY <1>2 DEF ClientDoc
  <2> QED BY <1>4, <2>1 DEF LostWith
<1> QED BY <1>7, <1>8

LEMMA ClientFirst == CC!Init => ClientInv
<1> SUFFICES ASSUME CC!Init PROVE ClientInv
  OBVIOUS
<1>1. /\ stored = [contacts |-> <<>>, name |-> 0] /\ copy = [r \in Requests |-> Nothing]
      /\ saves = 0
  BY DEF CC!Init, CC!NoCopies
<1>2. <<>> \in Seq(CC!Ids)
  OBVIOUS
<1> QED BY <1>1, <1>2 DEF ClientInv, ClientDoc

LEMMA ClientSteps ==
    ASSUME ClientInv, [CC!Next]_(CC!document)
    PROVE  ClientInv' /\ CC!LostOnlyByOverlap
<1>1. ClientInv' /\ (stored' = stored \/ stored' = Nothing \/ LostWith(stored, stored'))
  <2>1. ASSUME NEW r \in Requests, CC!AddContact(r) PROVE ClientInv' /\ stored' = stored
    BY <2>1, ClientAdd
  <2>2. ASSUME NEW r \in Requests,
               NEW id \in (IF stored = Nothing THEN {} ELSE CC!IdsOf(stored)),
               CC!UpdateContact(r, id) \/ CC!DeleteContact(r, id)
        PROVE  ClientInv' /\ stored' = stored
    <3>1. id \in CC!IdsOf(stored)
      BY <2>2 DEF CC!UpdateContact, CC!DeleteContact, CC!Change
    <3> QED BY <2>2, <3>1, ClientUpdateContact, ClientDeleteContact
  <2>8. ASSUME NEW r \in Requests, CC!DeleteContact(r, Nothing)
        PROVE  ClientInv' /\ stored' = stored
    BY <2>8, ClientDeleteContact
  <2>3. ASSUME NEW r \in Requests, CC!WriteBack(r)
        PROVE  ClientInv' /\ LostWith(stored, stored')
    BY <2>3, ClientWriteBack
  <2>4. ASSUME NEW r \in Requests, CC!AbortCopy(r) PROVE ClientInv' /\ stored' = stored
    BY <2>4 DEF CC!AbortCopy, ClientInv
  <2>5. CASE CC!Update \/ CC!Delete
    BY <2>5, ClientUpdate
  <2>6. CASE UNCHANGED CC!document
    BY <2>6 DEF CC!document, ClientInv
  <2>7. CC!NotFound => UNCHANGED CC!document
    BY DEF CC!NotFound
  <2> QED BY <2>1, <2>2, <2>3, <2>4, <2>5, <2>6, <2>7, <2>8 DEF CC!Next
<1>2. ASSUME stored' = stored, stored # Nothing PROVE CC!LostOnlyByOverlap
  <2>1. stored.name \in Nat /\ ~ (stored.name < stored.name)
    BY <1>2 DEF ClientInv, ClientDoc
  <2> QED BY <1>2, <2>1 DEF CC!LostOnlyByOverlap, CC!IdsOf
<1>3. ASSUME LostWith(stored, stored'), stored # Nothing, stored' # Nothing
      PROVE  CC!LostOnlyByOverlap
  <2>1. stored.name \in Nat /\ stored'.name \in Nat
    BY <1>1, <1>3 DEF ClientInv, ClientDoc
  <2>2. CASE Listed(stored.contacts) = Listed(stored'.contacts) /\ stored'.name >= stored.name
    BY <2>1, <2>2 DEF CC!LostOnlyByOverlap, CC!IdsOf, Listed
  <2>3. CASE ~ (Listed(stored.contacts) = Listed(stored'.contacts) /\ stored'.name >= stored.name)
    <3>1. PICK r \in Requests :
          /\ copy[r] # Nothing /\ copy'[r] = Nothing
          /\ \A id \in Listed(stored.contacts) \ Listed(stored'.contacts) :
                copy[r].op = id \/ id \notin Listed(copy[r].old.contacts)
          /\ \A id \in Listed(stored'.contacts) \ Listed(stored.contacts) :
                copy[r].old = stored => id = [slot |-> r, at |-> id.at]
          /\ stored'.name < stored.name => copy[r].old.name < stored.name
      BY <1>3, <2>3 DEF LostWith
    <3> QED BY <3>1 DEF CC!LostOnlyByOverlap, CC!IdsOf, Listed
  <2> QED BY <2>2, <2>3
<1>4. CASE stored = Nothing \/ stored' = Nothing
  BY <1>1, <1>4 DEF CC!LostOnlyByOverlap
<1> QED BY <1>1, <1>2, <1>3, <1>4

PP == INSTANCE PayrollProofs WITH MaxSaves <- MaxPayrollSaves

-----------------------------------------------------------------------------
(* Job offers and payrolls. *)

\* Among the services, offers are what JobOffer says.
LEMMA OffersInServices == ServiceSpec => Spec
<1>1. ServiceInit => Init
  BY DEF ServiceInit
<1>2. [ServiceNext]_serviceVars => [Next]_vars
  BY DEF ServiceNext, serviceVars
<1> QED BY <1>1, <1>2, PTL DEF ServiceSpec, Spec

\* A job and a candidate have one offer, as in ModelProofs.
THEOREM OneOfferInServices == ServiceSpec => []OneOfferPerPair
<1> QED BY OffersInServices, OneOffer, PTL

\* The history of an offer explains its status, as in ModelProofs.
THEOREM HistoryInServices == ServiceSpec => []HistoryExplains
<1> QED BY OffersInServices, HistoryKnows, PTL

\* Who overwrites an answer tested before it, as in ModelProofs.
THEOREM AnswersInServices == ServiceSpec => AnswerOverwrittenByOlderTest
<1> QED BY OffersInServices, AnswersHold, PTL

\* The steps of the two instances of Payroll are the same.
LEMMA SamePayrollStep == P!Next => PP!Next
<1>1. ASSUME NEW r \in Requests, NEW t \in Periods, P!CollectForCreate(r, t)
      PROVE  PP!CollectForCreate(r, t)
  BY <1>1 DEF P!CollectForCreate, PP!CollectForCreate, P!ValidPeriod, PP!ValidPeriod,
              P!Collected, PP!Collected, P!Start, PP!Start, P!Idle, PP!Idle
<1>2. ASSUME NEW r \in Requests, NEW p \in Payrolls, P!InsertCreated(r, p)
      PROVE  PP!InsertCreated(r, p)
  BY <1>2 DEF P!InsertCreated, PP!InsertCreated, P!Exists, PP!Exists, P!NewDoc, PP!NewDoc,
              P!NoDoc, PP!NoDoc, P!Idle, PP!Idle
<1>3. ASSUME NEW r \in Requests, NEW p \in Payrolls, P!ReadStep(r, p)
      PROVE  PP!ReadStep(r, p)
  BY <1>3 DEF P!ReadStep, PP!ReadStep, P!ReadApprovePayroll, PP!ReadApprovePayroll,
              P!ReadProcessPayment, PP!ReadProcessPayment,
              P!ReadRecordPaymentFailure, PP!ReadRecordPaymentFailure,
              P!ReadUpdateTaxCode, PP!ReadUpdateTaxCode,
              P!Read, PP!Read, P!Exists, PP!Exists, P!Start, PP!Start, P!Idle, PP!Idle,
              P!KeepAll, PP!KeepAll
<1>4. ASSUME NEW r \in Requests, P!Save(r) PROVE PP!Save(r)
  BY <1>4 DEF P!Save, PP!Save, P!Apply, PP!Apply, P!Put, PP!Put, P!Idle, PP!Idle
<1>5. ASSUME NEW r \in Requests, P!Abort(r) PROVE PP!Abort(r)
  BY <1>5 DEF P!Abort, PP!Abort, P!Idle, PP!Idle
<1>6. ASSUME NEW s \in Sheets, P!SheetChanges(s) PROVE PP!SheetChanges(s)
  BY <1>6 DEF P!SheetChanges, PP!SheetChanges, P!SheetRecord, PP!SheetRecord
<1> QED BY <1>1, <1>2, <1>3, <1>4, <1>5, <1>6
        DEF P!Next, PP!Next, P!PayrollNext, PP!PayrollNext

\* Among the services, payrolls are what Payroll says.
LEMMA PayrollsInServices == ServiceSpec => PP!Spec
<1>1. ServiceInit => PP!Init
  BY DEF ServiceInit, Payrolls0, P!Init, PP!Init, P!PayrollInit, PP!PayrollInit,
         P!SheetRecord, PP!SheetRecord, P!NoDoc, PP!NoDoc, P!Idle, PP!Idle
<1>2. [ServiceNext]_serviceVars => [PP!Next]_PP!vars
  BY SamePayrollStep DEF ServiceNext, serviceVars, payrollVars, PP!vars
<1> QED BY <1>1, <1>2, PTL DEF ServiceSpec, PP!Spec

\* However requests overlap, no payroll is paid, and no payment of it recorded as
\* failed, before it was approved.
THEOREM PaymentsFollowApprovals == ServiceSpec => []PaymentAfterApproval
<1>1. PP!PaymentAfterApproval => PaymentAfterApproval
  BY DEF PP!PaymentAfterApproval, PaymentAfterApproval, P!PaymentAfterApproval, PP!At, P!At
<1> QED BY <1>1, PayrollsInServices, PP!PaymentsFollowApproval, PTL

\* The payrolls of the services follow the lifecycle, as in PayrollProofs.
THEOREM PayrollsFollowLifecycle == ServiceSpec => PayrollImplementsLifecycle
<1>1. PP!Lifecycle!Init => P!Lifecycle!Init
  BY DEF PP!Lifecycle!Init, P!Lifecycle!Init, PP!StatusesSeen, P!StatusesSeen, PP!At, P!At
<1>2. [PP!Lifecycle!Next]_(PP!Lifecycle!vars) => [P!Lifecycle!Next]_(P!Lifecycle!vars)
  BY DEF PP!Lifecycle!Next, P!Lifecycle!Next, PP!Lifecycle!vars, P!Lifecycle!vars,
         PP!Lifecycle!Create, P!Lifecycle!Create, PP!Lifecycle!Move, P!Lifecycle!Move,
         PP!Lifecycle!SetStatus, P!Lifecycle!SetStatus, PP!Moves, P!Moves,
         PP!StatusesSeen, P!StatusesSeen, PP!At, P!At
<1> QED BY <1>1, <1>2, PayrollsInServices, PP!PayrollRefinesLifecycle, PTL
        DEF PayrollImplementsLifecycle, P!ImplementsLifecycle, PP!ImplementsLifecycle,
            P!Lifecycle!Spec, PP!Lifecycle!Spec

-----------------------------------------------------------------------------
(* All of them. *)

\* The component that was chosen keeps its invariant.
ServicesInv ==
    /\ component = "Rating" => RatingInv
    /\ component = "Document" => DocumentInv
    /\ component = "Invoice" => InvoiceInv
    /\ component = "Feedback" => FeedbackInv
    /\ component = "Notification" => NotificationInv
    /\ component = "Message" => MessageInv
    /\ component = "Conversation" => ConversationInv
    /\ component = "DirectMessage" => DirectInv
    /\ component = "ContactUs" => SubmissionInv
    /\ component = "GeneratedDocument" => GeneratedInv
    /\ component = "Device" => DeviceInv /\ RegistrationInv
    /\ component = "Rooms" => RoomsInv
    /\ component = "ReportTemplate" => TemplateInv
    /\ component = "TaxSettings" => TaxInv
    /\ component = "UserPreferences" => PreferenceInv
    /\ component = "AnalyticsQueue" => QueueInv
    /\ component = "Subscription" => SubscriptionInv
    /\ component = "PaymentMethod" => PaymentInv
    /\ component = "ContactVerification" => VerificationInv
    /\ component = "ContactDetails" => MarkInv
    /\ component = "GeneratedReport" => ReportInv
    /\ component = "ClientContacts" => ClientInv
    /\ component = "CacheUtils" => CacheInv
    /\ component = "TaggedCache" => TaggedInv

\* Every behaviour begins in the component's initial states ...
LEMMA ServicesFirst == ServiceInit => ServicesInv
<1> SUFFICES ASSUME ServiceInit PROVE ServicesInv
  OBVIOUS
<1>1. component = "Rating" => R!Init
  BY DEF ServiceInit, ModelInit, DocumentInit
<1>2. component = "Document" => D!Init
  BY DEF ServiceInit, ModelInit, DocumentInit
<1>3. component = "Invoice" => I!Init
  BY DEF ServiceInit, ModelInit, DocumentInit
<1>4. component = "Feedback" => F!Init
  BY DEF ServiceInit, ModelInit, DocumentInit
<1>5. component = "Notification" => N!Init
  BY DEF ServiceInit, ModelInit, DocumentInit
<1>6. component = "Message" => M!MessageInit
  BY DEF ServiceInit, ModelInit, DocumentInit
<1>7. component = "Conversation" => M!ConversationInit
  BY DEF ServiceInit, ModelInit, DocumentInit
<1>8. component = "DirectMessage" => M!DirectInit
  BY DEF ServiceInit, ModelInit, DocumentInit
<1>9. component = "ContactUs" => US!Init
  BY DEF ServiceInit, ModelInit, DocumentInit
<1>10. component = "GeneratedDocument" => GD!DocumentInit
  BY DEF ServiceInit, ModelInit, DocumentInit
<1>11. component = "Device" => DV!Init
  BY DEF ServiceInit, ModelInit, DocumentInit
<1>12. component = "Rooms" => RM!Init
  BY DEF ServiceInit, ModelInit, DocumentInit
<1>13. component = "ReportTemplate" => RT!Init
  BY DEF ServiceInit, ModelInit, DocumentInit
<1>14. component = "TaxSettings" => T!Init
  BY DEF ServiceInit, ModelInit, DocumentInit
<1>15. component = "UserPreferences" => UP!Init
  BY DEF ServiceInit, ModelInit, DocumentInit
<1>16. component = "AnalyticsQueue" => AQ!Init
  BY DEF ServiceInit, ModelInit, DocumentInit
<1>17. component = "Subscription" => S!Init
  BY DEF ServiceInit, ModelInit, DocumentInit
<1>18. component = "PaymentMethod" => PM!Init
  BY DEF ServiceInit, ModelInit, DocumentInit
<1>19. component = "ContactVerification" => CD!VerificationInit
  BY DEF ServiceInit, ModelInit, DocumentInit
<1>20. component = "ContactDetails" => CP!PrimaryInit
  BY DEF ServiceInit, ModelInit, DocumentInit
<1>21. component = "GeneratedReport" => G!ReportInit
  BY DEF ServiceInit, ModelInit, DocumentInit
<1>22. component = "ClientContacts" => CC!Init
  BY DEF ServiceInit, ModelInit, DocumentInit
<1>23. component = "CacheUtils" => CU!Init
  BY DEF ServiceInit, ModelInit, DocumentInit
<1>24. component = "TaggedCache" => TC!Init
  BY DEF ServiceInit, ModelInit, DocumentInit
<1> QED BY <1>1, <1>2, <1>3, <1>4, <1>5, <1>6, <1>7, <1>8, <1>9, <1>10, <1>11, <1>12,
           <1>13, <1>14, <1>15, <1>16, <1>17, <1>18, <1>19, <1>20, <1>21, <1>22, <1>23,
           <1>24, RatingFirst, DocumentFirst, InvoiceFirst,
           FeedbackFirst, NotificationFirst, MessageFirst, ConversationFirst,
           DirectFirst, SubmissionFirst, GeneratedFirst, DeviceFirst, RegistrationFirst,
           RoomsFirst, TemplateFirst, TaxFirst, PreferenceFirst, QueueFirst,
           SubscriptionFirst, PaymentFirst, VerificationFirst, MarkFirst, ReportFirst,
           ClientFirst, CacheFirst, TaggedFirst
           DEF ServicesInv

\* ... and goes on with its steps.
LEMMA ComponentSteps ==
    [ServiceNext]_serviceVars =>
       /\ component' = component
       /\ component = "Rating" => [R!Next]_(R!document)
       /\ component = "Document" => [D!Next]_(D!document)
       /\ component = "Invoice" => [I!Next]_(I!document)
       /\ component = "Feedback" => [F!Next]_(F!document)
       /\ component = "Notification" => [N!Next]_(N!document)
       /\ component = "Message" => [M!MessageNext]_(M!document)
       /\ component = "Conversation" => [M!ConversationNext]_(M!document)
       /\ component = "DirectMessage" => [M!DirectNext]_(M!document)
       /\ component = "ContactUs" => [US!Next]_(US!document)
       /\ component = "GeneratedDocument" => [GD!DocumentNext]_(GD!document)
       /\ component = "Device" => [DV!Next]_(DV!document)
       /\ component = "Rooms" => [RM!Next]_(RM!vars)
       /\ component = "ReportTemplate" => [RT!Next]_(RT!document)
       /\ component = "TaxSettings" => [T!Next]_(T!document)
       /\ component = "UserPreferences" => [UP!Next]_(UP!document)
       /\ component = "AnalyticsQueue" => [AQ!Next]_(AQ!vars)
       /\ component = "Subscription" => [S!Next]_(S!document)
       /\ component = "PaymentMethod" => [PM!Next]_(PM!paymentMethods)
       /\ component = "ContactVerification" => [CD!VerificationNext]_(CD!document)
       /\ component = "ContactDetails" => [CP!PrimaryNext]_(CP!document)
       /\ component = "GeneratedReport" => [G!ReportNext]_(G!document)
       /\ component = "ClientContacts" => [CC!Next]_(CC!document)
       /\ component = "CacheUtils" => [CU!Next]_(CU!vars)
       /\ component = "TaggedCache" => [TC!Next]_(TC!vars)
<1> SUFFICES ASSUME [ServiceNext]_serviceVars
             PROVE  /\ component' = component
                    /\ component = "Rating" => [R!Next]_(R!document)
                    /\ component = "Document" => [D!Next]_(D!document)
                    /\ component = "Invoice" => [I!Next]_(I!document)
                    /\ component = "Feedback" => [F!Next]_(F!document)
                    /\ component = "Notification" => [N!Next]_(N!document)
                    /\ component = "Message" => [M!MessageNext]_(M!document)
                    /\ component = "Conversation" => [M!ConversationNext]_(M!document)
                    /\ component = "DirectMessage" => [M!DirectNext]_(M!document)
                    /\ component = "ContactUs" => [US!Next]_(US!document)
                    /\ component = "GeneratedDocument" => [GD!DocumentNext]_(GD!document)
                    /\ component = "Device" => [DV!Next]_(DV!document)
                    /\ component = "Rooms" => [RM!Next]_(RM!vars)
                    /\ component = "ReportTemplate" => [RT!Next]_(RT!document)
                    /\ component = "TaxSettings" => [T!Next]_(T!document)
                    /\ component = "UserPreferences" => [UP!Next]_(UP!document)
                    /\ component = "AnalyticsQueue" => [AQ!Next]_(AQ!vars)
                    /\ component = "Subscription" => [S!Next]_(S!document)
                    /\ component = "PaymentMethod" => [PM!Next]_(PM!paymentMethods)
                    /\ component = "ContactVerification" => [CD!VerificationNext]_(CD!document)
                    /\ component = "ContactDetails" => [CP!PrimaryNext]_(CP!document)
                    /\ component = "GeneratedReport" => [G!ReportNext]_(G!document)
                    /\ component = "ClientContacts" => [CC!Next]_(CC!document)
                    /\ component = "CacheUtils" => [CU!Next]_(CU!vars)
                    /\ component = "TaggedCache" => [TC!Next]_(TC!vars)
  OBVIOUS
<1>1. CASE UNCHANGED serviceVars
  BY <1>1 DEF serviceVars, document, R!document, D!document, I!document, F!document,
             N!document, M!document, US!document, G!document, GD!document,
             DV!document, RM!vars,
             RT!document, T!document, UP!document, AQ!vars, S!document,
             PM!paymentMethods, CD!document, CP!document, CC!document, CU!vars, TC!vars
<1>2. CASE ServiceNext
  BY <1>2 DEF ServiceNext, ModelNext, DocumentNext
<1> QED BY <1>1, <1>2

LEMMA ServicesSteps == ServicesInv /\ [ServiceNext]_serviceVars => ServicesInv'
BY ComponentSteps, RatingNext, DocumentSteps, InvoiceNext, FeedbackSteps, NotificationSteps,
   MessageSteps, ConversationSteps, DirectSteps, SubmissionSteps, GeneratedSteps, DeviceSteps,
   DeviceShows, RoomsSteps, TemplateSteps, TaxSteps, PreferenceSteps, QueueSteps,
   SubscriptionSteps, PaymentSteps, VerificationSteps, MarkSteps, ReportSteps, ClientSteps,
   CacheSteps, TaggedSteps
   DEF ServicesInv

LEMMA ServicesInvariance == ServiceSpec => []ServicesInv
<1> QED BY ServicesFirst, ServicesSteps, PTL DEF ServiceSpec

\* However requests overlap, what is calculated on copies agrees with what it was
\* calculated from: the average of a rating with its scores, the amounts of an
\* invoice with each other, the compliance of a document with its status, the usage
\* of a device with its sessions; and the two maps of rooms with each other.
THEOREM DerivedAgrees == ServiceSpec => []DerivedAgree
<1>1. RatingInv => R!AverageOfScores
  BY DEF RatingInv, AverageAgrees, R!AverageOfScores
<1>2. DocumentInv => D!ComplianceFollowsStatus
  BY DEF DocumentInv, StoredDocument, Compliant, D!ComplianceFollowsStatus
<1>3. InvoiceInv => I!AmountsAgree
  BY DEF InvoiceInv
<1>4. DeviceInv => DV!UsageAgrees
  BY DEF DeviceInv, StoredDevice, SessionsExplained, DV!UsageAgrees
<1>5. RoomsInv => RM!MapsAgree
  BY DEF RoomsInv
<1>6. ServicesInv => DerivedAgree
  BY <1>1, <1>2, <1>3, <1>4, <1>5 DEF ServicesInv, DerivedAgree
<1> QED BY <1>6, ServicesInvariance, PTL

\* However requests overlap, a status has its reason: an invoice is paid by payments,
\* a notification has a status that was marked and counts its failures, a message has
\* the status of its receipts, what is resolved and what has a last message have their
\* dates, a submission the dates of its status, a generated document the reasons of its
\* failures; a report of analytics failed three times, and processing completes none.
THEOREM StatusesHaveReasons == ServiceSpec => []StatusHasReason
<1>1. InvoiceInv => I!PaidForAReason
  BY DEF InvoiceInv
<1>2. NotificationInv => N!StatusWasMarked /\ N!FailuresCounted
  BY NotificationImplies
<1>3. MessageInv => M!StatusOfReceipts
  BY MessageImplies
<1>4. FeedbackInv => F!ResolutionDated
  BY DEF FeedbackInv, Resolution, F!ResolutionDated
<1>5. ConversationInv => M!LastMessageDated
  BY DEF ConversationInv, DatedConversation, M!LastMessageDated
<1>6. SubmissionInv => US!StatusDated
  BY DEF SubmissionInv, Submission, US!StatusDated
<1>7. GeneratedInv => GD!FailuresAndCodesKept
  BY DEF GeneratedInv, Generated, GD!FailuresAndCodesKept
<1>8. QueueInv => AQ!FailedAfterAttempts /\ AQ!NeverDone
  BY QueueImplies
<1>9. ServicesInv => StatusHasReason
  BY <1>1, <1>2, <1>3, <1>4, <1>5, <1>6, <1>7, <1>8 DEF ServicesInv, StatusHasReason
<1> QED BY <1>9, ServicesInvariance, PTL

\* What is over or done is undone only by a save of an older copy, or by what the
\* method says, in every step of every request.
THEOREM UndoneExplained == ServiceSpec => UndoneByOlderCopies
<1>1. ASSUME ServicesInv, [ServiceNext]_serviceVars
      PROVE  /\ component = "Feedback" => F!ResolvedOverwrittenByOlderCopy
             /\ component = "Notification" => N!UnreadOnlyWithoutReadDelivery
             /\ component = "Message" => M!ReappearsOnlyByFirstReceipt
             /\ component = "Conversation" => /\ M!ActiveAgainOnlyByAddition
                                              /\ M!DateLostOnlyByOverlap
             /\ component = "DirectMessage" => M!DeletedChangesByOlderCopy
             /\ component = "ContactUs" => US!ReopenedByOlderCopy
             /\ component = "GeneratedDocument" => GD!UndeletedByRequest
             /\ component = "Device" => DV!CountedDownByOlderCopy
  BY <1>1, ComponentSteps, FeedbackSteps, NotificationSteps, MessageSteps, ConversationSteps,
     DirectSteps, SubmissionSteps, GeneratedSteps, DeviceShows DEF ServicesInv, DeviceShown
<1> QED BY <1>1, ServicesInvariance, PTL DEF ServiceSpec, UndoneByOlderCopies

\* A document becomes expired before its date only by a sweep, or the save of a copy,
\* that saw it past its date, although a renewal may come between.
THEOREM ExpiredBySomeone == ServiceSpec => ExpiredBySomeoneWhoSawIt
<1>1. ServicesInv /\ [ServiceNext]_serviceVars
         => [component = "Document" => D!ExpiredBySomeoneWhoSawIt]_serviceVars
  BY ComponentSteps, DocumentSteps DEF ServicesInv
<1> QED BY <1>1, ServicesInvariance, PTL DEF ServiceSpec, ExpiredBySomeoneWhoSawIt

\* However requests overlap, a tax rate or exemption changes only by an update that
\* found this very element, although updates are stored by place, and a preference
\* only by a request that set its key; or they change back, by the save of a list that
\* was read before.
THEOREM UpdatesReach == ServiceSpec => UpdatesReachTheirElement
<1>1. ServicesInv /\ [ServiceNext]_serviceVars
         => [/\ component = "TaxSettings" => T!UpdatesReachTheirElement
             /\ component = "UserPreferences" => UP!SetReachesItsKey]_serviceVars
  BY ComponentSteps, TaxImplies, PreferenceImplies DEF ServicesInv
<1> QED BY <1>1, ServicesInvariance, PTL DEF ServiceSpec, UpdatesReachTheirElement

\* However requests overlap, what the data sources, visualizations and sections of a
\* report template refer to is in the template, and every element that was added has
\* counted an edition.
THEOREM TemplatesConsistent == ServiceSpec => []TemplateConsistent
<1>1. ServicesInv => TemplateConsistent
  BY TemplateImplies DEF ServicesInv, TemplateConsistent
<1> QED BY <1>1, ServicesInvariance, PTL

\* What belongs together parts only when requests overlap, in every step of every
\* request: a billing and its plan, an end and its start, the one default and the one
\* primary contact, a contact and its verification, a client and its contacts, a
\* completed report and its progress, a preference and its key, a registration and
\* its status, what is cached and its source, a lock and its holder, the rooms of a
\* socket and those of its user.
THEOREM PartsExplained == ServiceSpec => PartsOnlyByOverlap
<1>1. ASSUME ServicesInv, [ServiceNext]_serviceVars
      PROVE  /\ component = "Subscription" => /\ S!OtherBillingOnlyByOverlap
                                              /\ S!EndBeforeStartOnlyByOverlap
             /\ component = "PaymentMethod" => PM!SecondDefaultOnlyByOverlap
             /\ component = "ContactVerification" => CD!OpenCodeOnlyByOverlap
             /\ component = "ContactDetails" => /\ CP!SecondPrimaryOnlyByOverlap
                                                /\ CP!NonePrimaryOnlyByOverlap
             /\ component = "ClientContacts" => CC!LostOnlyByOverlap
             /\ component = "GeneratedReport" => G!CompletedOtherwiseOnlyByOverlap
             /\ component = "UserPreferences" => UP!SecondOfKeyOnlyByOverlap
             /\ component = "Device" => DV!RegisteredIsActive /\ DV!ActiveAgainByRequest
             /\ component = "CacheUtils" => CU!StaleOnlyByOverlap /\ CU!LockEndsByHolder
             /\ component = "TaggedCache" => /\ TC!OutOfReachOnlyByOverlap
                                             /\ TC!StaleOnlyByOverlap
             /\ component = "Rooms" => RM!UnlistedOnlyByOtherSocket
  BY <1>1, ComponentSteps, SubscriptionSteps, PaymentSteps, VerificationSteps, MarkSteps,
     ClientSteps, ReportSteps, PreferenceSecond, DeviceShows, CacheSteps, TaggedSteps, RoomsShow
     DEF ServicesInv, DeviceShown
<1> QED BY <1>1, ServicesInvariance, PTL DEF ServiceSpec, PartsOnlyByOverlap
===============================================================================
