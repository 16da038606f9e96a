---------------------------- MODULE Persistence ----------------------------
(***************************************************************************)
(* Project files (app.rs, engine/persistence.rs, engine/refs.rs).  A save  *)
(* writes what differs from the defaults the application declares, and a   *)
(* load lays the saved records over those defaults again.  Both sides      *)
(* compute the defaults for themselves, node by node, and a declared child *)
(* equal to its default is not written at all: it comes back with a new    *)
(* uuid.                                                                   *)
(*                                                                         *)
(* A project, and a file, is a function from paths to nodes; a path is the *)
(* sequence of the keys of the nodes on it, the declaration id for a       *)
(* declared child and a name of its own for an item the user added.  The   *)
(* metadata is a label and a description, and a parameter's data its value *)
(* and its declared default: the other fields are written and read the     *)
(* same way.  Owner is the type of the items (a node that declares a       *)
(* folder with a parameter in it, and a reference parameter), Bin the      *)
(* user's folders that hold them.                                          *)
(***************************************************************************)
EXTENDS Naturals, Sequences, FiniteSets, FiniteSetsExt, SequencesExt, TLC

CONSTANTS
    Bins,       \* the keys of the folders items may be added to
    Items,      \* the keys of the items
    Gains,      \* the values the user gives the declared parameter
    GainDefault,\* its declared default
    Nothing,        \* the reference that points nowhere, and an absent field
    MaxProjectEdits,   \* bounds the edits
    MaxStamps   \* bounds the steps that make uuids

ASSUME PersistenceAssumption ==
    /\ {0, GainDefault} \subseteq Gains /\ Gains \subseteq Nat
    /\ GainDefault # 0 /\ MaxProjectEdits \in Nat /\ MaxStamps \in Nat

VARIABLES
    project,    \* path -> node of the running engine
    document,       \* path -> record of the last saved file, << >> before a save
    saved,      \* the project that was saved, for the properties
    lastUuid,      \* counts the actions that make uuids
    projectEdits,      \* the edits made
    lastStep        \* what happened last, for the properties

projectVars == <<project, document, saved, lastUuid, projectEdits, lastStep>>

-----------------------------------------------------------------------------
(* The application's schema.                                               *)

Label(base) == [base |-> base, n |-> 1]

SchemaEntry(type, label, note, data, kids) ==
    [type |-> type, label |-> label, note |-> note, data |-> data, kids |-> kids]

Data(value, default) == [value |-> value, def |-> default]
NoData == << >>

\* What a node of a type is when it is made, and what it declares below it.
Schema ==
    <<"folder">> :> SchemaEntry("folder", Label("folder"), Nothing, NoData, << >>)
    @@ <<"float">> :> SchemaEntry("float", Label("float"), Nothing, Data(0, 0), << >>)
    @@ <<"ref">> :> SchemaEntry("ref", Label("ref"), Nothing, Data(Nothing, Nothing), << >>)
    @@ <<"owner">> :> SchemaEntry("owner", Label("owner"), Nothing, NoData, <<"advanced", "target">>)
    @@ <<"owner", "target">> :> SchemaEntry("ref", Label("target"), Nothing, Data(Nothing, Nothing), << >>)
    @@ <<"owner", "advanced">> :> SchemaEntry("folder", Label("advanced"), Nothing, NoData, <<"gain">>)
    @@ <<"owner", "advanced", "gain">> :>
            SchemaEntry("float", Label("gain"), "about", Data(GainDefault, GainDefault), << >>)

\* No node of the schema.
Unmatched == << >>

-----------------------------------------------------------------------------
(* Paths and uuids.                                                        *)

Under(t, p) == {q \in DOMAIN t : IsPrefix(p, q)}

Rest(p, q) == SubSeq(q, Len(p) + 1, Len(q))

\* The uuid made in one action for the node at a path.
Uuid(at, path) == [at |-> at, path |-> path]

\* Mutant: a default taken from the cache keeps the uuids it was made with.
Materialized_cached(p, b) ==
    [q \in {p \o Rest(b, s) : s \in Under(Schema, b)} |->
            [uuid |-> Uuid(lastUuid, b \o Rest(p, q))] @@ Schema[b \o Rest(p, q)]]

\* The nodes the schema gives a node at p made from b, with new uuids: the
\* cached defaults of an earlier node of that kind are given fresh ones.
Materialized(p, b) ==
    [q \in {p \o Rest(b, s) : s \in Under(Schema, b)} |->
            [uuid |-> Uuid(lastUuid, q)] @@ Schema[b \o Rest(p, q)]]

RefPaths(t) == {p \in DOMAIN t : t[p].type = "ref"}

\* The nodes with a uuid.
Holder(t, uuid) == {p \in DOMAIN t : t[p].uuid = uuid}

\* A subtree put under a parent as its i-th child.
Attached(t, sub, parent, key, i) ==
    sub @@ [t EXCEPT ![parent].kids = InsertAt(@, i, key)]

Detached(t, p) ==
    [q \in DOMAIN t \ Under(t, p) |->
        IF q = Front(p) THEN [t[q] EXCEPT !.kids = SelectSeq(@, LAMBDA k : k # Last(p))]
                        ELSE t[q]]

-----------------------------------------------------------------------------
(* Saving.                                                                 *)

\* The fields that differ from a default; a description that was cleared has
\* no representation and is left out.
MetaDelta(n, s) ==
    LET differs == {f \in {"label", "note"} : n[f] # s[f]}
    IN  [f \in {f \in differs : f = "note" => n.note # Nothing} |-> n[f]]

DataDelta(n, s) == [f \in {f \in DOMAIN n.data : n.data[f] # s.data[f]} |-> n.data[f]]

\* Mutant: a child equal to its default is left out although something
\* refers to it.
Referenced_none == {}

\* The uuids some reference of the project holds.
Referenced == {project[p].data.value : p \in RefPaths(project)}

\* The records of the nodes from p down.  b is the default of p among the
\* declared children of its parent.  A node that equals it looks up the
\* defaults of its children below it; a node that was changed makes them
\* anew from its own type, as if it stood alone.
RECURSIVE Encoded(_, _)
Encoded(p, b) ==
    LET n == project[p]
        same == /\ b # Unmatched
                /\ MetaDelta(n, Schema[b]) = NoData
                /\ DataDelta(n, Schema[b]) = NoData
        shape == IF same THEN b ELSE <<n.type>>
        self == IF b # Unmatched THEN Schema[b] ELSE Schema[<<n.type>>]
        ChildBase(k) == IF k \in Range(Schema[shape].kids) THEN Append(shape, k) ELSE Unmatched
        below == FoldLeft(LAMBDA t, k : t @@ Encoded(Append(p, k), ChildBase(k)), << >>, n.kids)
        written == SelectSeq(n.kids, LAMBDA k : Append(p, k) \in DOMAIN below)
    IN  IF same /\ written = << >> /\ n.uuid \notin Referenced
        THEN << >>
        ELSE below @@ p :> [uuid |-> n.uuid, type |-> n.type, kids |-> written,
                            meta |-> MetaDelta(n, self), data |-> DataDelta(n, self)]

-----------------------------------------------------------------------------
(* Loading.                                                                *)

\* The nodes from p down that the file's records give, laid over the default
\* b of p: declared children first and in their declared order, with the
\* record of the file when there is one, then the other records.
RECURSIVE Expanded(_, _)
Expanded(p, b) ==
    LET r == document[p]
        shape == IF b # Unmatched THEN b ELSE <<r.type>>
        s == Schema[shape]
        others == SelectSeq(r.kids, LAMBDA k : k \notin Range(s.kids))
        meta == r.meta @@ [label |-> s.label, note |-> s.note]
        node == SchemaEntry(r.type, meta.label, meta.note, r.data @@ s.data, s.kids \o others)
        Child(k) ==
            CASE k \notin Range(s.kids) -> Expanded(Append(p, k), Unmatched)
              [] Append(p, k) \in DOMAIN document -> Expanded(Append(p, k), Append(shape, k))
              [] OTHER -> Materialized(Append(p, k), Append(shape, k))
    IN  FoldLeft(LAMBDA t, k : t @@ Child(k), p :> ([uuid |-> r.uuid] @@ node), node.kids)

-----------------------------------------------------------------------------
(* Copies.                                                                 *)

\* A label no child of the parent has: the wanted one, or the next number.
NextLabel(parent, wanted) ==
    LET used == {project[Append(parent, k)].label : k \in Range(project[parent].kids)}
        Numbered(i) == [wanted EXCEPT !.n = i]
    IN  IF wanted \notin used THEN wanted
        ELSE Numbered(Min({i \in wanted.n + 1 .. wanted.n + 1 + Cardinality(used) :
                              Numbered(i) \notin used}))

\* Mutant: the references of a copy are left as they are.
Remapped_none(from, to, uuid) == uuid

\* What a reference of the copied subtree holds in the copy.
Remapped(from, to, uuid) ==
    LET inside == {q \in Under(project, from) : project[q].uuid = uuid}
    IN  IF inside = {} THEN uuid
        ELSE Uuid(lastUuid, to \o Rest(from, CHOOSE q \in inside : TRUE))

Copied(from, to) ==
    [q \in {to \o Rest(from, s) : s \in Under(project, from)} |->
        LET n == project[from \o Rest(to, q)]
        IN  [n EXCEPT !.uuid = Uuid(lastUuid, q),
                      !.label = IF q = to THEN NextLabel(Front(to), @) ELSE @,
                      !.data = IF n.type = "ref"
                               THEN [@ EXCEPT !.value = Remapped(from, to, @)] ELSE @]]

-----------------------------------------------------------------------------
(* Steps.                                                                  *)

Did(what) == [did |-> what, from |-> << >>, to |-> << >>]

Edited(t) ==
    /\ projectEdits < MaxProjectEdits
    /\ projectEdits' = projectEdits + 1
    /\ project' = t
    /\ UNCHANGED <<document, saved>>

ChangedOnly(t) == Edited(t) /\ lastStep' = Did("edited") /\ UNCHANGED lastUuid

SetValue(p, v) ==
    /\ project[p].type = "float"
    /\ project[p].data.value # v
    /\ ChangedOnly([project EXCEPT ![p].data.value = v])

\* Any node may be pointed at.
SetReference(p, q) ==
    /\ project[p].type = "ref"
    /\ q # p
    /\ project[q].type # "folder"
    /\ ChangedOnly([project EXCEPT ![p].data.value = project[q].uuid])

Rename(p) ==
    /\ p # << >>
    /\ project[p].label # Label("other")
    /\ ChangedOnly([project EXCEPT ![p].label = Label("other")])

ClearNote(p) ==
    /\ project[p].note # Nothing
    /\ ChangedOnly([project EXCEPT ![p].note = Nothing])

FreeItems == {k \in Items : \A p \in DOMAIN project : p = << >> \/ Last(p) # k}

AddItem(bin, k) ==
    LET p == Append(bin, k)
        sub == [Materialized(p, <<"owner">>) EXCEPT ![p].label = NextLabel(bin, @)]
    IN  /\ Edited(Attached(project, sub, bin, k, Len(project[bin].kids) + 1))
        /\ lastUuid' = lastUuid + 1
        /\ lastStep' = Did("edited")

RemoveItem(p) ==
    /\ project[p].type = "owner"
    /\ ChangedOnly(Detached(project, p))

\* A copy is written whole, given new uuids and inserted where asked.
CopyItem(from, bin, k) ==
    LET to == Append(bin, k)
    IN  /\ project[from].type = "owner"
        /\ \E i \in 1 .. Len(project[bin].kids) + 1 :
                Edited(Attached(project, Copied(from, to), bin, k, i))
        /\ lastUuid' = lastUuid + 1
        /\ lastStep' = [did |-> "copied", from |-> from, to |-> to]

Save ==
    /\ lastStep.did \in {"edited", "copied"}
    /\ document' = Encoded(<< >>, Unmatched)
    /\ saved' = project
    /\ lastStep' = Did("saved")
    /\ UNCHANGED <<project, lastUuid, projectEdits>>

\* A load replaces the engine: what was not saved is gone.
Load ==
    /\ document # << >>
    /\ lastStep.did # "loaded"
    /\ lastUuid < MaxStamps
    /\ project' = Expanded(<< >>, Unmatched)
    /\ lastUuid' = lastUuid + 1
    /\ lastStep' = Did("loaded")
    /\ UNCHANGED <<document, saved, projectEdits>>

-----------------------------------------------------------------------------
Folders == {<<b>> : b \in Bins}

\* The root with the user's folders.
PersistenceInit ==
    /\ project = [p \in {<< >>} \cup Folders |->
            [uuid |-> Uuid(0, p)] @@
            [Schema[<<"folder">>] EXCEPT
                !.label = IF p = << >> THEN Label("root") ELSE Label(p[1]),
                !.kids = IF p = << >> THEN SetToSeq(Bins) ELSE << >>]]
    /\ document = << >>
    /\ saved = << >>
    /\ lastUuid = 1
    /\ projectEdits = 0
    /\ lastStep = Did("edited")

PersistenceNext ==
    \/ \E p \in DOMAIN project :
            \/ \E v \in Gains : SetValue(p, v)
            \/ \E q \in DOMAIN project : SetReference(p, q)
            \/ Rename(p)
            \/ ClearNote(p)
            \/ RemoveItem(p)
            \/ \E bin \in Folders, k \in FreeItems : CopyItem(p, bin, k)
    \/ \E bin \in Folders, k \in FreeItems : AddItem(bin, k)
    \/ Save
    \/ Load

PersistenceSpec == PersistenceInit /\ [][PersistenceNext]_projectVars

-----------------------------------------------------------------------------
(* Properties.                                                             *)

\* A uuid names one node.
UuidsAreUnique ==
    \A p, q \in DOMAIN project : project[p].uuid = project[q].uuid => p = q

LoadedAsSaved ==
    lastStep.did = "loaded" =>
        /\ UuidsAreUnique
        /\ DOMAIN project = DOMAIN saved
        /\ \A p \in DOMAIN saved : project[p].kids = saved[p].kids
        /\ \A p \in RefPaths(saved) : \A q \in Holder(saved, saved[p].data.value) :
                Holder(project, project[p].data.value) = {q}

CopiesStandAlone ==
    lastStep.did = "copied" =>
        /\ UuidsAreUnique
        /\ \A p \in RefPaths(project) \cap Under(project, lastStep.to) :
               LET original == lastStep.from \o Rest(lastStep.to, p)
               IN  \A q \in Holder(project, project[original].data.value) :
                       Holder(project, project[p].data.value) =
                           {IF IsPrefix(lastStep.from, q) THEN lastStep.to \o Rest(lastStep.from, q) ELSE q}

\* A load, which fills in the declared children the file leaves out from
\* defaults it caches, gives no two nodes the same uuid (app.rs:808-813).  A
\* loaded project has the nodes of the saved one in the same order, and every
\* reference that pointed at a node points at the same one: a declared child
\* that is left out of the file because nothing about it changed would come
\* back under another uuid (app.rs:1388-1394, 1817-1826).  A copy has new uuids
\* throughout; it refers to its own nodes where the original refers to its own,
\* and to the same node as the original elsewhere (persistence.rs:1259-1268).
NodesKeepApart == LoadedAsSaved /\ CopiesStandAlone

\* What app.rs:591 and 602-603 say: a save leaves out what the defaults give
\* and a load lays the records over those defaults, so every parameter has the
\* value it was saved with.
ValuesComeBack ==
    lastStep.did = "loaded" =>
        \A p \in DOMAIN saved :
            saved[p].type = "float" => project[p].data.value = saved[p].data.value
=============================================================================
