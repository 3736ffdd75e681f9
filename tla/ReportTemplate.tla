---------------------------- MODULE ReportTemplate ----------------------------
(***************************************************************************)
(* models/ReportTemplate.ts: sections that show visualizations, which draw *)
(* from data sources, which take parameters. A save validates these        *)
(* references in its own copy; what it stores is merged into a template    *)
(* that other requests may have changed.                                   *)
(*                                                                         *)
(* The field version of the model, which the code counts itself, is called *)
(* edition here; version is the one that Mongoose keeps.                   *)
(***************************************************************************)
EXTENDS MongooseDocument

CONSTANT Names \* names and ids of elements

Statuses == {"DRAFT", "ACTIVE", "INACTIVE", "ARCHIVED"}

\* The kinds of elements, each with the kind its elements refer to.
RefersTo == [sections |-> "visualizations", visualizations |-> "dataSources",
             dataSources |-> "parameters"]

Kinds == DOMAIN RefersTo \cup {"parameters"}

Arrays == Kinds

Element == [name : Names, refs : SUBSET Names]

ReportTemplate == [parameters : Seq(Element), dataSources : Seq(Element),
                   visualizations : Seq(Element), sections : Seq(Element),
                   status : Statuses, edition : Nat, usageCount : Nat, version : Nat]

NamesOf(d, kind) == {d[kind][i].name : i \in DOMAIN d[kind]}

-----------------------------------------------------------------------------
(* A faulty variant, which takes no part in Spec. *)

\* The visualizations are not looked at.
ValidSections(d) == \A i \in DOMAIN d.sections :
                        d.sections[i].refs \subseteq NamesOf(d, "visualizations")

-----------------------------------------------------------------------------
\* The three hooks of the validation.
Valid(d) == \A kind \in DOMAIN RefersTo : \A i \in DOMAIN d[kind] :
                d[kind][i].refs \subseteq NamesOf(d, RefersTo[kind])

\* The hook of the save that counts.
Counted(new) ==
    IF \E kind \in Kinds : new[kind] # stored[kind] THEN [new EXCEPT !.edition = @ + 1] ELSE new

-----------------------------------------------------------------------------
\* addParameter, addDataSource, addVisualization, addSection: an element of this
\* name, which is found first, is replaced. A visualization names one data source.
\* addSection sorts the sections, which assigns them anew.
AddElement(r, kind, name, refs) ==
    LET e == [name |-> name, refs |-> refs]
        places == {i \in DOMAIN stored[kind] : stored[kind][i].name = name}
        first == CHOOSE i \in places : \A j \in places : i <= j
        new == [stored EXCEPT ![kind] =
                   IF places = {} THEN Append(@, e) ELSE [@ EXCEPT ![first] = e]]
    IN  /\ kind = "parameters" => refs = {}
        /\ kind = "visualizations" => Cardinality(refs) = 1
        /\ Valid(new)
        /\ Change(r, "add", Counted(new), IF kind = "sections" THEN {kind} ELSE {})

\* activate, deactivate, archive
SetStatus(r, status) == Change(r, "setStatus", [stored EXCEPT !.status = status], {})

IncrementUsage(r) == Change(r, "incrementUsage", [stored EXCEPT !.usageCount = @ + 1], {})

Save(r) ==
    /\ copy[r] # Nothing
    /\ SaveCopy(r, Arrays,
                [changes |-> world.changes + (IF copy[r].op = "add" THEN 1 ELSE 0)])

Init == /\ stored = [parameters |-> <<>>, dataSources |-> <<>>, visualizations |-> <<>>,
                     sections |-> <<>>, status |-> "DRAFT", edition |-> 1,
                     usageCount |-> 0, version |-> 0]
        /\ copy = NoCopies
        /\ world = [changes |-> 0]
        /\ saves = 0

Next == \E r \in Requests :
            \/ \E kind \in Kinds, name \in Names, refs \in SUBSET Names :
                   AddElement(r, kind, name, refs)
            \/ \E status \in Statuses \ {"DRAFT"} : SetStatus(r, status)
            \/ IncrementUsage(r)
            \/ Save(r)
            \/ AbortCopy(r)

Spec == Init /\ [][Next]_document

-----------------------------------------------------------------------------
\* Every variable has its type.
TypeOK == /\ stored \in ReportTemplate
          /\ CopiesTyped(ReportTemplate)
          /\ world.changes \in 0..MaxSaves
          /\ saves \in 0..MaxSaves

\* Every reference in the stored template resolves, although no save has seen the
\* whole of what it leaves behind.
ReferencesResolve ==
    \A kind \in DOMAIN RefersTo : \A i \in DOMAIN stored[kind] :
        \A name \in stored[kind][i].refs :
            \E j \in DOMAIN stored[RefersTo[kind]] : stored[RefersTo[kind]][j].name = name

\* The edition is counted on copies, so that changes that overlap count once: it is
\* one more than the changes of content at most, and a changed template never has
\* the first edition.
EditionsCounted == /\ stored.edition \in 1..world.changes + 1
                   /\ world.changes > 0 => stored.edition > 1
=============================================================================
