-------------------------------- MODULE Devices --------------------------------
(***************************************************************************)
(* services/device.service.ts: one device id. A registration finds no      *)
(* device and inserts one, or makes the device it found active; sessions   *)
(* are counted on copies. A device that is deleted and registered again is *)
(* another document: a copy of the first one is not saved into it. The     *)
(* description of a device, its place, its permissions and flags are left  *)
(* out.                                                                    *)
(*                                                                         *)
(* world: the durations of the sessions whose save went through, of this   *)
(* document.                                                               *)
(***************************************************************************)
EXTENDS MongooseDocument, Sums

CONSTANT Durations \* of sessions: natural numbers, 0 among them

Statuses == {"active", "inactive", "blocked", "lost", "stolen"}

\* id: the _id, which is the number of changes before the insertion.
Device == [id : Nat, status : Statuses, sessionCount : Nat, totalUsageTime : Nat,
           lastSessionDuration : Nat, version : Nat]

New == [id |-> saves, status |-> "active", sessionCount |-> 0, totalUsageTime |-> 0,
        lastSessionDuration |-> 0, version |-> 0]

-----------------------------------------------------------------------------
(* Faulty variants; none of them takes part in Spec. *)

\* The duration is added that was stored as the last one.
RecordLast(r, duration) ==
    Change(r, "session",
           [stored EXCEPT !.sessionCount = @ + 1,
                          !.totalUsageTime = @ + stored.lastSessionDuration,
                          !.lastSessionDuration = duration], {})

\* A session makes the device active.
RecordActivating(r, duration) ==
    Change(r, "session",
           [stored EXCEPT !.status = "active",
                          !.sessionCount = @ + 1,
                          !.totalUsageTime = @ + duration,
                          !.lastSessionDuration = duration], {})

-----------------------------------------------------------------------------
\* registerDevice: the device is found ...
Register(r) == Change(r, "register", [stored EXCEPT !.status = "active"], {})

\* ... or not; the document to be inserted is made.
RegisterNew(r) ==
    /\ copy[r] = Nothing
    /\ stored = Nothing
    /\ copy' = [copy EXCEPT ![r] = Copy("insert", New, {})]
    /\ UNCHANGED <<stored, world, saves>>

\* The unique index refuses a second document of the id.
Insert(r) ==
    /\ copy[r] # Nothing
    /\ copy[r].op = "insert"
    /\ stored = Nothing
    /\ saves < MaxSaves
    /\ stored' = [copy[r].new EXCEPT !.id = saves]
    /\ copy' = [copy EXCEPT ![r] = Nothing]
    /\ world' = <<>>
    /\ saves' = saves + 1

\* updateDeviceStatus; updateDevice may set the status as well.
UpdateStatus(r, status) == Change(r, "status", [stored EXCEPT !.status = status], {})

RecordSession(r, duration) ==
    Change(r, "session",
           [stored EXCEPT !.sessionCount = @ + 1,
                          !.totalUsageTime = @ + duration,
                          !.lastSessionDuration = duration], {})

\* updateDeviceLocation, and updateDevice otherwise: what is left out here.
UpdateOther(r) == Change(r, "other", stored, {})

Save(r) ==
    /\ copy[r] # Nothing
    /\ copy[r].op # "insert"
    /\ stored # Nothing
    /\ stored.id = copy[r].old.id
    /\ SaveCopy(r, {}, IF copy[r].op = "session"
                       THEN Append(world, copy[r].new.lastSessionDuration) ELSE world)

\* deleteDevice: deleteOne
Delete ==
    /\ stored # Nothing
    /\ saves < MaxSaves
    /\ stored' = Nothing
    /\ world' = <<>>
    /\ saves' = saves + 1
    /\ UNCHANGED copy

-----------------------------------------------------------------------------
Init == /\ stored = Nothing
        /\ copy = NoCopies
        /\ world = <<>>
        /\ saves = 0

Next == \/ \E r \in Requests :
               \/ Register(r)
               \/ RegisterNew(r)
               \/ Insert(r)
               \/ \E status \in Statuses : UpdateStatus(r, status)
               \/ \E duration \in Durations : RecordSession(r, duration)
               \/ UpdateOther(r)
               \/ Save(r)
               \/ AbortCopy(r)
        \/ Delete

Spec == Init /\ [][Next]_document

-----------------------------------------------------------------------------
\* Every variable has its type.
TypeOK == /\ stored \in Device \cup {Nothing}
          /\ \A r \in Requests : copy[r] # Nothing =>
                copy[r].old \in Device \cup {Nothing} /\ copy[r].new \in Device
          /\ world \in Seq(Durations)
          /\ saves \in 0..MaxSaves

\* The total is that of k of the sessions in w.
TotalOfSome(k, total, w) ==
    \E chosen \in [1..k -> DOMAIN w] :
       /\ \A i, j \in 1..k : i # j => chosen[i] # chosen[j]
       /\ total = SumTo([i \in 1..k |-> w[chosen[i]]], k)

\* The total is that of as many sessions in w as were counted, unless one of them took
\* no time: a save of that one sends the count of its copy, and no total.
Explained(count, total, w) ==
    /\ count <= Len(w)
    /\ \E k \in 0..Len(w) : /\ TotalOfSome(k, total, w)
                            /\ (\A i \in DOMAIN w : w[i] > 0) => k = count

\* The total usage is the sum of recorded sessions, and of as many as are counted: of
\* sessions that are recorded at once some are lost, but with their number also
\* their time.
UsageAgrees ==
    stored # Nothing => Explained(stored.sessionCount, stored.totalUsageTime, world)

\* The count of a device that is not deleted goes down only by the save of an older
\* copy.
CountedDownByOlderCopy ==
    (/\ stored # Nothing /\ stored' # Nothing
     /\ stored'.sessionCount < stored.sessionCount)
      => \E r \in Requests : /\ copy[r] # Nothing
                             /\ copy'[r] = Nothing
                             /\ copy[r].old.sessionCount < stored.sessionCount

\* A device becomes active again only by a request that asks for that and had found it
\* otherwise: who found it active does not take back the status it got meanwhile.
ActiveAgainByRequest ==
    (/\ stored # Nothing /\ stored' # Nothing
     /\ stored.status # "active" /\ stored'.status = "active")
      => \E r \in Requests : /\ copy[r] # Nothing
                             /\ copy'[r] = Nothing
                             /\ copy[r].op \in {"register", "status"}
                             /\ copy[r].old.status # "active"

\* A registration leaves a device that is not active only if the status was changed
\* after the registration had found it.
RegisteredIsActive ==
    \A r \in Requests :
       (/\ copy[r] # Nothing
        /\ copy'[r] = Nothing
        /\ copy[r].op \in {"register", "insert"}
        /\ saves' # saves)
         => stored'.status = "active" \/ stored.status # copy[r].old.status
=============================================================================
