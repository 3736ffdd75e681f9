------------------------------ MODULE CacheUtils ------------------------------
(***************************************************************************)
(* utils/caching.ts: one key of the cache in Redis, and the lock on it.    *)
(* remember reads the key, and if it finds nothing calculates the value    *)
(* and stores it; whoever changes what the value is calculated from        *)
(* deletes the key afterwards. A lock is a key with a token and a time to  *)
(* live: it may be gone while its holder still works.                      *)
(***************************************************************************)
EXTENDS Integers

CONSTANTS
    Callers,   \* requests that use the cache or the lock
    Nothing,   \* no key in Redis, no token, no work
    MaxChanges \* bound: changes of what the value is calculated from

VARIABLES
    source,   \* what the callback calculates; the number of changes of it
    cached,   \* the key in Redis
    lock,     \* the token in the key of the lock: its holder, for tokens are random
    work      \* work[c]: what a caller is doing

vars == <<source, cached, lock, work>>

At(phase, value) == [phase |-> phase, value |-> value]

Idle == At("idle", 0)

Go(c, w) == work' = [work EXCEPT ![c] = w]

-----------------------------------------------------------------------------
(* Faulty variants; none of them takes part in Spec. *)

\* unlock deletes the key without a look at the token.
UnlockAny(c) ==
    /\ work[c].phase = "holding"
    /\ lock' = Nothing
    /\ Go(c, Idle)
    /\ UNCHANGED <<source, cached>>

\* set also stores over what was deleted in between, and does so once more.
StoreTwice(c) ==
    /\ work[c].phase = "storing"
    /\ cached' \in {work[c].value, cached}
    /\ \/ Go(c, Idle)
       \/ UNCHANGED work
    /\ UNCHANGED <<source, lock>>

-----------------------------------------------------------------------------
\* remember: nothing is cached, or Redis cannot be read, which looks the same ...
Miss(c) ==
    /\ work[c] = Idle
    /\ Go(c, At("calculating", 0))
    /\ UNCHANGED <<source, cached, lock>>

\* ... the callback reads the source ...
Calculate(c) ==
    /\ work[c].phase = "calculating"
    /\ Go(c, At("storing", source))
    /\ UNCHANGED <<source, cached, lock>>

\* ... and set stores what it returned, or fails without a word.
Store(c) ==
    /\ work[c].phase = "storing"
    /\ cached' \in {work[c].value, cached}
    /\ Go(c, Idle)
    /\ UNCHANGED <<source, lock>>

Change(c) ==
    /\ work[c] = Idle
    /\ source < MaxChanges
    /\ source' = source + 1
    /\ Go(c, At("deleting", source'))
    /\ UNCHANGED <<cached, lock>>

\* delete, which fails without a word as well
Delete(c) ==
    /\ work[c].phase = "deleting"
    /\ cached' \in {Nothing, cached}
    /\ Go(c, Idle)
    /\ UNCHANGED <<source, lock>>

\* The time to live of the value is over.
ValueExpires ==
    /\ cached # Nothing
    /\ cached' = Nothing
    /\ UNCHANGED <<source, lock, work>>

\* lock: SET NX; a caller that does not get it goes away.
Lock(c) ==
    /\ work[c] = Idle
    /\ lock = Nothing
    /\ lock' = c
    /\ Go(c, At("holding", 0))
    /\ UNCHANGED <<source, cached>>

\* unlock: the script deletes the key if it has the token of the caller.
Unlock(c) ==
    /\ work[c].phase = "holding"
    /\ lock' = (IF lock = c THEN Nothing ELSE lock)
    /\ Go(c, Idle)
    /\ UNCHANGED <<source, cached>>

LockExpires ==
    /\ lock # Nothing
    /\ lock' = Nothing
    /\ UNCHANGED <<source, cached, work>>

\* The process of a caller ends; a lock stays until it expires.
Crash(c) ==
    /\ work[c] # Idle
    /\ Go(c, Idle)
    /\ UNCHANGED <<source, cached, lock>>

-----------------------------------------------------------------------------
Init == /\ source = 0
        /\ cached = Nothing
        /\ lock = Nothing
        /\ work = [c \in Callers |-> Idle]

Next == \/ \E c \in Callers : \/ Miss(c)
                              \/ Calculate(c)
                              \/ Store(c)
                              \/ Change(c)
                              \/ Delete(c)
                              \/ Lock(c)
                              \/ Unlock(c)
                              \/ Crash(c)
        \/ ValueExpires
        \/ LockExpires

Spec == Init /\ [][Next]_vars

-----------------------------------------------------------------------------
\* Every variable has its type.
TypeOK == /\ source \in 0..MaxChanges
          /\ cached \in 0..MaxChanges \cup {Nothing}
          /\ lock \in Callers \cup {Nothing}
          /\ work \in [Callers -> [phase : {"idle", "calculating", "storing", "deleting", "holding"},
                                   value : 0..MaxChanges]]

\* The cache has an older value, and nobody is going to delete it.
StaleForGood ==
    /\ cached # Nothing
    /\ cached # source
    /\ \A c \in Callers : work[c].phase # "deleting"

\* An older value stays in the cache only because it was calculated before the
\* change and stored after the deletion, or because the deletion failed or never
\* came.
StaleOnlyByOverlap ==
    (~ StaleForGood /\ StaleForGood')
       => \E c \in Callers :
             /\ work'[c] = Idle
             /\ \/ work[c].phase = "storing" /\ work[c].value # source
                \/ work[c].phase = "deleting"

\* A lock is taken from its holder only by the holder and by time: a caller whose
\* lock has expired while it worked does not release that of the next one.
LockEndsByHolder ==
    (lock # Nothing /\ lock' # lock)
       => \A c \in Callers \ {lock} : work'[c] = work[c]
=============================================================================
