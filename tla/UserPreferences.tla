---------------------------- MODULE UserPreferences ----------------------------
(***************************************************************************)
(* models/UserPreferences.ts: the preferences of one user, a list in which *)
(* a key is looked up, changed at the place where it was found, or pushed. *)
(* The document is created with the default preferences when it is looked  *)
(* for and not found; the unique index refuses a second one.               *)
(*                                                                         *)
(* edition: the path version of the schema, which is not Mongoose's.       *)
(* world.added, world.removed: the ids of the elements whose addition,     *)
(* whose removal was saved.                                                *)
(***************************************************************************)
EXTENDS MongooseDocument, SequencesExt

CONSTANTS Names, Values \* keys and values of preferences

Arrays == {"preferences"}

\* The slot of those the document was created with is Nothing.
Ids == [slot : Requests \cup {Nothing}, at : Nat, key : Names]

Element == [id : Ids, key : Names, value : Values]

UserPreferences == [preferences : Seq(Element), edition : Nat, version : Nat]

PlacesOf(prefs, key) == {i \in DOMAIN prefs : prefs[i].key = key}

FirstPlace(prefs, key) ==
    CHOOSE i \in PlacesOf(prefs, key) : \A j \in PlacesOf(prefs, key) : i <= j

IdsOf(d) == {d.preferences[i].id : i \in DOMAIN d.preferences}

NewElement(slot, key, value) ==
    [id |-> [slot |-> slot, at |-> saves, key |-> key], key |-> key, value |-> value]

(* Faulty variants of WithKey; none of them takes part in Spec. *)

\* A key is pushed without a look.
PushKey(r, prefs, key, value) == Append(prefs, NewElement(r, key, value))

\* The last preference is changed.
WithLast(r, prefs, key, value) ==
    IF prefs = <<>> THEN Append(prefs, NewElement(r, key, value))
    ELSE [prefs EXCEPT ![Len(prefs)].value = value]

\* The preferences with one key set.
WithKey(r, prefs, key, value) ==
    IF PlacesOf(prefs, key) = {} THEN Append(prefs, NewElement(r, key, value))
    ELSE [prefs EXCEPT ![FirstPlace(prefs, key)].value = value]

-----------------------------------------------------------------------------
\* findByUserId: nothing is found, and the document to be inserted is made.
CreateDefaults(r, defaults) ==
    /\ stored = Nothing
    /\ copy[r] = Nothing
    /\ copy' = [copy EXCEPT ![r] =
                   Copy("create",
                        [preferences |-> [i \in DOMAIN defaults |->
                            NewElement(Nothing, defaults[i].key, defaults[i].value)],
                         edition |-> 1, version |-> 0], {})]
    /\ UNCHANGED <<stored, world, saves>>

Insert(r) ==
    /\ copy[r] # Nothing
    /\ copy[r].op = "create"
    /\ stored = Nothing
    /\ saves < MaxSaves
    /\ stored' = copy[r].new
    /\ copy' = [copy EXCEPT ![r] = Nothing]
    /\ world' = [added |-> IdsOf(stored'), removed |-> {}]
    /\ saves' = saves + 1

\* setPreference; the op of the copy is the key.
SetPreference(r, key, value) ==
    Change(r, key,
           [stored EXCEPT !.preferences = WithKey(r, @, key, value), !.edition = @ + 1], {})

\* setPreferences: all of the given keys, one after the other
SetPreferences(r, value) ==
    Change(r, "all",
           [stored EXCEPT
              !.preferences = FoldLeft(LAMBDA prefs, key : WithKey(r, prefs, key, value),
                                       @, SetToSeq(Names)),
              !.edition = @ + 1], {})

\* splice assigns the list anew.
ResetPreference(r, key) ==
    /\ PlacesOf(stored.preferences, key) # {}
    /\ Change(r, "reset",
              [stored EXCEPT !.preferences = RemoveAt(@, FirstPlace(@, key)),
                             !.edition = @ + 1], {"preferences"})

\* An empty list that is assigned to an empty one is no change.
ResetAllPreferences(r) ==
    Change(r, "reset", [stored EXCEPT !.preferences = <<>>, !.edition = @ + 1],
           IF stored.preferences = <<>> THEN {} ELSE {"preferences"})

Save(r) ==
    /\ copy[r] # Nothing
    /\ copy[r].op # "create"
    /\ SaveCopy(r, Arrays,
                [added   |-> world.added \cup (IdsOf(copy[r].new) \ IdsOf(copy[r].old)),
                 removed |-> world.removed \cup (IdsOf(copy[r].old) \ IdsOf(copy[r].new))])

-----------------------------------------------------------------------------
\* The definitions that are not hidden have different keys.
Defaults == {d \in BoundedSeq([key : Names, value : Values], 2) :
                \A i, j \in DOMAIN d : d[i].key = d[j].key => i = j}

Init == /\ stored = Nothing
        /\ copy = NoCopies
        /\ world = [added |-> {}, removed |-> {}]
        /\ saves = 0

Next == \E r \in Requests :
            \/ \E defaults \in Defaults : CreateDefaults(r, defaults)
            \/ Insert(r)
            \/ stored # Nothing /\ ( \/ \E key \in Names :
                                         \/ \E value \in Values : SetPreference(r, key, value)
                                         \/ ResetPreference(r, key)
                                     \/ \E value \in Values : SetPreferences(r, value)
                                     \/ ResetAllPreferences(r)
                                     \/ Save(r))
            \/ AbortCopy(r)

Spec == Init /\ [][Next]_document

-----------------------------------------------------------------------------
\* Every variable has its type.
TypeOK == /\ stored \in UserPreferences \cup {Nothing}
          /\ \A r \in Requests : copy[r] # Nothing =>
                /\ copy[r].old \in UserPreferences \cup {Nothing}
                /\ copy[r].new \in UserPreferences
          /\ world.added \subseteq Ids /\ world.removed \subseteq Ids
          /\ saves \in 0..MaxSaves

\* The preferences are those that were added less those that were reset, each once,
\* although a reset writes a whole list of an older copy.
PreferencesKept ==
    stored # Nothing =>
        /\ IdsOf(stored) = world.added \ world.removed
        /\ Cardinality(IdsOf(stored)) = Len(stored.preferences)

\* A key is in the list twice only by requests that each pushed it without seeing the
\* other's.
SecondOfKeyOnlyByOverlap ==
    (stored # Nothing /\ stored' # Nothing) =>
        \A key \in Names :
           (Cardinality(PlacesOf(stored.preferences, key)) < 2
              /\ Cardinality(PlacesOf(stored'.preferences, key)) >= 2)
             => \E r \in Requests : /\ copy[r] # Nothing
                                    /\ copy'[r] = Nothing
                                    /\ PlacesOf(copy[r].old.preferences, key) = {}
                                    /\ PlacesOf(stored.preferences, key) # {}

\* A preference keeps its value unless a request set its key; or it gets back an older
\* one, by a reset of another key that read the list before.
SetReachesItsKey ==
    (stored # Nothing /\ stored' # Nothing) =>
        \A i \in DOMAIN stored.preferences, j \in DOMAIN stored'.preferences :
           (stored.preferences[i].id = stored'.preferences[j].id
              /\ stored.preferences[i] # stored'.preferences[j])
             => \E r \in Requests :
                   /\ copy[r] # Nothing
                   /\ copy'[r] = Nothing
                   /\ \E k \in DOMAIN copy[r].old.preferences :
                         /\ copy[r].old.preferences[k].id = stored.preferences[i].id
                         /\ IF copy[r].whole # {}
                            THEN copy[r].old.preferences[k] = stored'.preferences[j]
                            ELSE copy[r].op \in {"all", stored.preferences[i].key}
=============================================================================
