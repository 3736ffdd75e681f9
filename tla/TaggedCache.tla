------------------------------ MODULE TaggedCache ------------------------------
(***************************************************************************)
(* middleware/cacheHandler.ts: the answers of one GET route in Redis, and  *)
(* the set of cached keys of one tag. A request stores its answer in the   *)
(* background and then adds the key to the set of the tag. An invalidation *)
(* reads the set, deletes its keys, and deletes the set; both deletions    *)
(* are sent together, and each may be refused. Other commands run between  *)
(* those of a request; one answer is like another, and of an answer what   *)
(* matters is how many changes it has seen.                                *)
(***************************************************************************)
EXTENDS Integers

CONSTANTS
    Callers,   \* requests and invalidations under way
    Keys,      \* keys of answers with the tag
    Nothing,   \* no answer is cached
    MaxChanges \* bound: changes of what the answers show

VARIABLES
    source,  \* what an answer shows: the number of changes
    cached,  \* cached[k]: the answer under key k
    tagged,  \* the set of the tag
    work     \* work[c]: what a request or an invalidation is doing

vars == <<source, cached, tagged, work>>

At(phase, keys, value) == [phase |-> phase, keys |-> keys, value |-> value]

Idle == At("idle", {}, 0)

Go(c, w) == work' = [work EXCEPT ![c] = w]

-----------------------------------------------------------------------------
(* A faulty variant; it takes no part in Spec. *)

\* The set is deleted before its keys.
DeleteSetFirst(c) ==
    /\ work[c].phase = "deletingKeys"
    /\ tagged' = {}
    /\ Go(c, [work[c] EXCEPT !.phase = "deletingSet"])
    /\ UNCHANGED <<source, cached>>

-----------------------------------------------------------------------------
\* The middleware finds nothing under the key, or cannot read it; the handler makes
\* the answer.
Miss(c, k) ==
    /\ work[c] = Idle
    /\ Go(c, At("answering", {k}, 0))
    /\ UNCHANGED <<source, cached, tagged>>

Answer(c) ==
    /\ work[c].phase = "answering"
    /\ Go(c, At("storing", work[c].keys, source))
    /\ UNCHANGED <<source, cached, tagged>>

\* storeInCache: setex ...
Store(c) ==
    /\ work[c].phase = "storing"
    /\ cached' = [k \in Keys |-> IF k \in work[c].keys THEN work[c].value ELSE cached[k]]
    /\ Go(c, [work[c] EXCEPT !.phase = "tagging"])
    /\ UNCHANGED <<source, tagged>>

\* ... and sadd
Tag(c) ==
    /\ work[c].phase = "tagging"
    /\ tagged' = tagged \cup work[c].keys
    /\ Go(c, Idle)
    /\ UNCHANGED <<source, cached>>

\* What the answers show is changed, and then invalidateByTags is called.
Change(c) ==
    /\ work[c] = Idle
    /\ source < MaxChanges
    /\ source' = source + 1
    /\ Go(c, At("collecting", {}, source'))
    /\ UNCHANGED <<cached, tagged>>

\* invalidateByTags: smembers; without keys it is done
Collect(c) ==
    /\ work[c].phase = "collecting"
    /\ Go(c, IF tagged = {} THEN Idle ELSE At("deletingKeys", tagged, work[c].value))
    /\ UNCHANGED <<source, cached, tagged>>

\* del of the keys, which Redis may refuse ...
DeleteKeys(c) ==
    /\ work[c].phase = "deletingKeys"
    /\ cached' \in {cached, [k \in Keys |-> IF k \in work[c].keys THEN Nothing ELSE cached[k]]}
    /\ Go(c, [work[c] EXCEPT !.phase = "deletingSet"])
    /\ UNCHANGED <<source, tagged>>

\* ... and of the set, in any case
DeleteSet(c) ==
    /\ work[c].phase = "deletingSet"
    /\ tagged' = {}
    /\ Go(c, Idle)
    /\ UNCHANGED <<source, cached>>

\* The duration of an answer is over; the set keeps its key.
Expire(k) ==
    /\ cached[k] # Nothing
    /\ cached' = [cached EXCEPT ![k] = Nothing]
    /\ UNCHANGED <<source, tagged, work>>

\* Redis refuses a command, or the process ends.
Break(c) ==
    /\ work[c] # Idle
    /\ Go(c, Idle)
    /\ UNCHANGED <<source, cached, tagged>>

-----------------------------------------------------------------------------
Init == /\ source = 0
        /\ cached = [k \in Keys |-> Nothing]
        /\ tagged = {}
        /\ work = [c \in Callers |-> Idle]

Next == \/ \E c \in Callers : \/ \E k \in Keys : Miss(c, k)
                              \/ Answer(c)
                              \/ Store(c)
                              \/ Tag(c)
                              \/ Change(c)
                              \/ Collect(c)
                              \/ DeleteKeys(c)
                              \/ DeleteSet(c)
                              \/ Break(c)
        \/ \E k \in Keys : Expire(k)

Spec == Init /\ [][Next]_vars

-----------------------------------------------------------------------------
\* Every variable has its type.
TypeOK == /\ source \in 0..MaxChanges
          /\ cached \in [Keys -> 0..MaxChanges \cup {Nothing}]
          /\ tagged \subseteq Keys
          /\ \A c \in Callers : /\ work[c].keys \subseteq Keys
                                /\ work[c].value \in 0..MaxChanges

\* An answer that no invalidation will find.
OutOfReach(k) ==
    /\ cached[k] # Nothing
    /\ k \notin tagged
    /\ \A c \in Callers : work[c].phase = "tagging" => k \notin work[c].keys

\* An answer gets out of reach of the tag only because its request broke off before
\* it was tagged, or because an invalidation deletes the set: its keys are gone by
\* then, so that the answer was stored or tagged while the invalidation ran, or their
\* deletion was refused.
OutOfReachOnlyByOverlap ==
    \A k \in Keys : (~ OutOfReach(k) /\ OutOfReach(k)')
       => \E c \in Callers :
             /\ work'[c] = Idle
             /\ work[c].phase \in {"tagging", "deletingSet"}

\* An answer shows less than the last change, and no invalidation is under way.
StaleForGood(k) ==
    /\ cached[k] # Nothing
    /\ cached[k] # source
    /\ \A c \in Callers : work[c].phase \notin {"collecting", "deletingKeys"}

\* An older answer outlives the invalidations only if it is stored afterwards, if
\* it was not in the set when they collected the keys, or if they broke off or the
\* deletion of their keys, of all of them, was refused.
StaleOnlyByOverlap ==
    \A k \in Keys : (~ StaleForGood(k) /\ StaleForGood(k)')
       => \E c \in Callers :
             \/ work[c].phase = "storing" /\ work[c].value # source
             \/ work[c].phase = "collecting" /\ work'[c] = Idle
             \/ /\ work[c].phase = "deletingKeys"
                /\ work'[c] = Idle \/ k \notin work[c].keys \/ cached' = cached
=============================================================================
