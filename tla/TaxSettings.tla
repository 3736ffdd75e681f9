----------------------------- MODULE TaxSettings -----------------------------
(***************************************************************************)
(* models/TaxSettings.ts: the tax rates and the exemptions of one document *)
(* of settings. Both are lists of elements that are looked up by a code,   *)
(* changed at the place where they were found, and taken out by place. The *)
(* choice of a global default is that of PaymentMethods, and left out.     *)
(*                                                                         *)
(* Mongoose gives each element an _id. world.added, world.removed: the ids *)
(* of the elements whose addition, whose removal was saved.                *)
(***************************************************************************)
EXTENDS MongooseDocument, SequencesExt

CONSTANTS Codes, Values \* codes of rates and exemptions; all else of them

Arrays == {"taxRates", "taxExemptions"}

\* Those the settings were created with have no slot.
Ids == [slot : Requests \cup {Nothing}, at : Nat]

Element == [id : Ids, code : Codes, value : Values]

TaxSettings == [taxRates : Seq(Element), taxExemptions : Seq(Element),
                isActive : BOOLEAN, version : Nat]

\* The places of a code; findIndex returns the first of them.
PlacesOf(d, a, code) == {i \in DOMAIN d[a] : d[a][i].code = code}

FirstPlace(d, a, code) ==
    CHOOSE i \in PlacesOf(d, a, code) : \A j \in PlacesOf(d, a, code) : i <= j

IdsOf(d) == UNION {{d[a][i].id : i \in DOMAIN d[a]} : a \in Arrays}

-----------------------------------------------------------------------------
\* addTaxRate, addTaxExemption: of a code that is not there yet
Add(r, a, code, value) ==
    /\ PlacesOf(stored, a, code) = {}
    /\ Change(r, "add",
              [stored EXCEPT ![a] = Append(@, [id |-> [slot |-> r, at |-> saves],
                                               code |-> code, value |-> value])], {})

\* updateTaxRate, updateTaxExemption: Object.assign of any part of an element, its
\* code included, which is not looked for again
Update(r, a, code, new) ==
    /\ PlacesOf(stored, a, code) # {}
    /\ Change(r, "update",
              [stored EXCEPT ![a][FirstPlace(stored, a, code)].code = new.code,
                             ![a][FirstPlace(stored, a, code)].value = new.value], {})

\* removeTaxRate, removeTaxExemption: splice assigns the list anew.
RemoveOne(r, a, code) ==
    /\ PlacesOf(stored, a, code) # {}
    /\ Change(r, "remove",
              [stored EXCEPT ![a] = RemoveAt(@, FirstPlace(stored, a, code))], {a})

\* activate, deactivate
SetActive(r, active) == Change(r, "activate", [stored EXCEPT !.isActive = active], {})

Save(r) ==
    /\ copy[r] # Nothing
    /\ SaveCopy(r, Arrays,
                [added   |-> world.added \cup (IdsOf(copy[r].new) \ IdsOf(copy[r].old)),
                 removed |-> world.removed \cup (IdsOf(copy[r].old) \ IdsOf(copy[r].new))])

\* Settings that are created with at most two rates.
Init == /\ \E rates \in BoundedSeq([code : Codes, value : Values], 2) :
               stored = [taxRates |-> [i \in DOMAIN rates |->
                                          [id |-> [slot |-> Nothing, at |-> i],
                                           code |-> rates[i].code, value |-> rates[i].value]],
                         taxExemptions |-> <<>>, isActive |-> TRUE, version |-> 0]
        /\ copy = NoCopies
        /\ world = [added |-> IdsOf(stored), removed |-> {}]
        /\ saves = 0

Next == \E r \in Requests :
            \/ \E a \in Arrays, code \in Codes :
                   \/ \E value \in Values : Add(r, a, code, value)
                   \/ \E new \in [code : Codes, value : Values] : Update(r, a, code, new)
                   \/ RemoveOne(r, a, code)
            \/ \E active \in BOOLEAN : SetActive(r, active)
            \/ Save(r)
            \/ AbortCopy(r)

Spec == Init /\ [][Next]_document

-----------------------------------------------------------------------------
\* Every variable has its type.
TypeOK == /\ stored \in TaxSettings
          /\ CopiesTyped(TaxSettings)
          /\ world.added \subseteq Ids /\ world.removed \subseteq Ids
          /\ saves \in 0..MaxSaves

\* The rates and exemptions are those that were added less those that were
\* removed, each once, although a removal writes a whole list of an older copy.
ElementsKept ==
    /\ IdsOf(stored) = world.added \ world.removed
    /\ Cardinality(IdsOf(stored)) = Len(stored.taxRates) + Len(stored.taxExemptions)

\* A rate or exemption changes only by an update that found this very element,
\* although the update is stored by place and other requests move elements; or it
\* changes back, by a removal of another element that read the list before an
\* update, which counts no version.
UpdatesReachTheirElement ==
    \A a \in Arrays : \A i \in DOMAIN stored[a], j \in DOMAIN stored'[a] :
       (stored[a][i].id = stored'[a][j].id /\ stored[a][i] # stored'[a][j])
         => \E r \in Requests :
               /\ copy[r] # Nothing
               /\ copy'[r] = Nothing
               /\ \E k \in DOMAIN copy[r].old[a] :
                     /\ copy[r].old[a][k].id = stored[a][i].id
                     /\ IF a \in copy[r].whole
                        THEN copy[r].old[a][k] = stored'[a][j]
                        ELSE copy[r].old[a][k] # copy[r].new[a][k]
=============================================================================
