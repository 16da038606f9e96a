----------------------------- MODULE NodeGraph ------------------------------
(***************************************************************************)
(* The node store of an Engine and the edits that change its topology:     *)
(* engine/node_store.rs, the engine/apply_tree directory and               *)
(* apply_patch_meta of                                                     *)
(* engine/apply_param.rs.  One action per edit handler, with everything    *)
(* the handler writes: the links, the slot of the id, the uuid index, the  *)
(* parameter cache and the cached effective_enabled flag.                  *)
(*                                                                         *)
(* Abstracted: a node object is its id and a generation (ReplaceNode puts  *)
(* another object behind the same id), so a uuid is the pair               *)
(* <<id, generation>> and a cached parameter value is the generation it    *)
(* was read from.  Label, tags, permissions and item kinds are left out;   *)
(* a handler that rejects an edit before writing anything leaves the graph *)
(* alone, which is a stuttering step here.  Node callbacks                 *)
(* (engine_on_attached, init, on_node_ready, destroy) can only queue more  *)
(* edits, which are more steps of this module.                             *)
(***************************************************************************)
EXTENDS SiblingLinks, Naturals

CONSTANTS Root,           \* Engine::root
          MaxGen,         \* bound: objects that can stand behind one id
          StaleSiblings,  \* may an edit name a sibling that left the parent?
          MayReplace      \* may ReplaceNode edits occur?

ASSUME RootAssumption == Root \in NodeId
ASSUME FlagAssumption == /\ MaxGen \in Nat
                         /\ StaleSiblings \in BOOLEAN
                         /\ MayReplace \in BOOLEAN

VARIABLES links,      \* the five link fields of every NodeData
          slot,       \* state of every slot-map key
          enabled,    \* meta.enabled
          effective,  \* NodeData::effective_enabled
          gen,        \* which object stands behind the id
          nextGen,    \* the next object made for the id
          uuidIndex,  \* Engine::uuid_index, as the set of indexed uuids
          paramCache  \* Engine::parameter_values_cache

graph == <<links, slot, enabled, effective, gen, nextGen, uuidIndex, paramCache>>

NoEntry == MaxGen + 1                 \* no parameter_values_cache entry
Gens == 0..MaxGen
live == {n \in NodeId : slot[n] = "live"}

TypeOK ==
    /\ links \in Links
    /\ slot \in [NodeId -> {"free", "live", "detached", "removed"}]
    /\ enabled \in [NodeId -> BOOLEAN]
    /\ effective \in [NodeId -> BOOLEAN]
    /\ gen \in [NodeId -> Gens]
    /\ nextGen \in [NodeId -> 0..(MaxGen + 1)]
    /\ \A n \in NodeId : gen[n] < nextGen[n]     \* uuids are never reused
    /\ uuidIndex \subseteq NodeId \X Gens
    /\ paramCache \in [NodeId -> Gens \cup {NoEntry}]

Init ==
    /\ links = NoLinks
    /\ slot = [n \in NodeId |-> IF n = Root THEN "live" ELSE "free"]
    /\ enabled = [n \in NodeId |-> TRUE]
    /\ effective = [n \in NodeId |-> TRUE]
    /\ gen = [n \in NodeId |-> 0]
    /\ nextGen = [n \in NodeId |-> 1]
    /\ uuidIndex = {<<Root, 0>>}
    /\ paramCache = [n \in NodeId |-> IF n = Root THEN 0 ELSE NoEntry]

-----------------------------------------------------------------------------
(* is_effectively_enabled walks the parent chain and reads meta.enabled.   *)
WalkEnabled(t, store, flags, n) == \A a \in UpChain(t, n) : a \in store /\ flags[a]

(* attach_node's validation of an explicit previous sibling.               *)
SiblingOK(t, p, s) == s = Nil \/ (s \in live /\ t.parent[s] = p)

(* NodeStore::insert and register_node_uuid for the objects in "new".      *)
Insert(new, e) ==
    /\ new \subseteq {n \in NodeId : slot[n] = "free"}
    /\ slot' = [n \in NodeId |-> IF n \in new THEN "live" ELSE slot[n]]
    /\ enabled' = [n \in NodeId |-> IF n \in new THEN e ELSE enabled[n]]
    /\ uuidIndex' = uuidIndex \cup {<<n, gen[n]>> : n \in new}
    /\ UNCHANGED <<gen, nextGen>>

(* apply_add_node_with_role, apply_add_node_tree, apply_add_user_item,     *)
(* apply_add_user_item_tree: insert, attach, compute effective_enabled by  *)
(* the parent walk, fill the parameter cache.                              *)
EffectiveOfNew(new, t, flags) ==
    [n \in NodeId |-> IF n \in new THEN WalkEnabled(t, live \cup new, flags, n)
                      ELSE effective[n]]

AddNode(n, p, s, e) ==
    /\ p \in live
    /\ SiblingOK(links, p, s)
    /\ Insert({n}, e)
    /\ links' = Attach(links, n, p, s)
    /\ effective' = EffectiveOfNew({n}, links', enabled')
    /\ paramCache' = [paramCache EXCEPT ![n] = gen[n]]

\* insert_pending_node_tree with one child: the root of the pasted tree is
\* attached first, then the child at the end of the root's empty list.
AddNodeTree(n, c, p, s, e) ==
    /\ p \in live
    /\ n # c
    /\ SiblingOK(links, p, s)
    /\ Insert({n, c}, e)
    /\ links' = Attach(Attach(links, n, p, s), c, n, Nil)
    /\ effective' = EffectiveOfNew({n, c}, links', enabled')
    /\ paramCache' = [x \in NodeId |-> IF x \in {n, c} THEN gen[x] ELSE paramCache[x]]

(* The same handlers when attach_node rejects the sibling: the node is in  *)
(* the store and in the uuid index, and nothing takes it out again.        *)
AddNodeRejected(n, p, s, e) ==
    /\ StaleSiblings
    /\ p \in live
    /\ s # n
    /\ ~SiblingOK(links, p, s)
    /\ Insert({n}, e)
    /\ UNCHANGED <<links, effective, paramCache>>

(* apply_remove_node: the whole subtree leaves the store; its keys stay    *)
(* reserved for undo.                                                      *)
RemoveSlots(S) ==
    /\ slot' = [m \in NodeId |-> IF m \in S THEN "detached" ELSE slot[m]]
    /\ uuidIndex' = uuidIndex \ {<<m, gen[m]>> : m \in S}
    /\ paramCache' = [m \in NodeId |-> IF m \in S THEN NoEntry ELSE paramCache[m]]

\* Seeded fault: only the node itself leaves the store.
RemoveNode_notSubtree(n) ==
    /\ n \in live \ {Root}
    /\ links.parent[n] # Nil
    /\ Subtree(links, n) \subseteq live
    /\ RemoveSlots({n})
    /\ links' = Detach(links, n)
    /\ UNCHANGED <<enabled, effective, gen, nextGen>>

RemoveNode(n) ==
    /\ n \in live \ {Root}
    /\ links.parent[n] # Nil
    /\ Subtree(links, n) \subseteq live
    /\ RemoveSlots(Subtree(links, n))
    /\ links' = Detach(links, n)
    /\ UNCHANGED <<enabled, effective, gen, nextGen>>

(* apply_replace_node: another object behind the same id, with the links   *)
(* of the old one and its own meta.enabled; a fresh NodeData says          *)
(* effective_enabled = true.                                               *)
SwapObject(n, g, e, eff) ==
    /\ gen' = [gen EXCEPT ![n] = g]
    /\ enabled' = [enabled EXCEPT ![n] = e]
    /\ effective' = [effective EXCEPT ![n] = eff]
    /\ uuidIndex' = (uuidIndex \ {<<n, gen[n]>>}) \cup {<<n, g>>}
    /\ paramCache' = [paramCache EXCEPT ![n] = g]

\* Seeded fault: the replacement does not use up a fresh uuid.
ReplaceNode_reusesUuid(n, e) ==
    /\ MayReplace
    /\ n \in live
    /\ links.parent[n] # Nil
    /\ nextGen[n] <= MaxGen
    /\ SwapObject(n, nextGen[n], e, TRUE)
    /\ UNCHANGED <<links, slot, nextGen>>

ReplaceNode(n, e) ==
    /\ MayReplace
    /\ n \in live
    /\ links.parent[n] # Nil
    /\ nextGen[n] <= MaxGen
    /\ SwapObject(n, nextGen[n], e, TRUE)
    /\ nextGen' = [nextGen EXCEPT ![n] = @ + 1]
    /\ UNCHANGED <<links, slot>>

(* apply_move_node.                                                        *)
MovedLinks(n, p, s) ==
    LET t == Detach(links, n)
    IN  IF s = Nil THEN AttachBetween(t, n, p, Nil, t.first[p])
        ELSE Attach(t, n, p, s)

\* Seeded fault: only a move below itself is refused.
MoveAllowed_shallow(n, p, s) ==
    /\ n \in live \ {Root}
    /\ p \in live
    /\ p # n
    /\ s # n
    /\ links.parent[n] # Nil

MoveAllowed(n, p, s) ==
    /\ n \in live \ {Root}
    /\ p \in live
    /\ ~IsDescendant(links, p, n)
    /\ s # n
    /\ links.parent[n] # Nil

\* Seeded fault: the children of the moved node keep their flag.
EffectiveAfterMove_rootOnly(n, p, t) ==
    [effective EXCEPT ![n] = IF links.parent[n] # p THEN effective[p] /\ enabled[n] ELSE @]

\* subtree_effective_enabled_changes: from the new parent's cached flag down.
EffectiveAfterMove(n, p, t) ==
    LET moved == IF links.parent[n] # p THEN Subtree(t, n) ELSE {}
        above == UpChain(t, p)
    IN  [m \in NodeId |->
            IF m \in moved
            THEN effective[p] /\ \A a \in UpChain(t, m) \ above : enabled[a]
            ELSE effective[m]]

MoveNode(n, p, s) ==
    /\ MoveAllowed(n, p, s)
    /\ SiblingOK(links, p, s)
    /\ links' = MovedLinks(n, p, s)
    /\ effective' = EffectiveAfterMove(n, p, links')
    /\ UNCHANGED <<slot, enabled, gen, nextGen, uuidIndex, paramCache>>

(* The sibling is only looked at after detach_node: a stale one leaves the *)
(* node in the store without a parent.                                     *)
MoveNodeRejected(n, p, s) ==
    /\ StaleSiblings
    /\ MoveAllowed(n, p, s)
    /\ ~SiblingOK(links, p, s)
    /\ links' = Detach(links, n)
    /\ UNCHANGED <<slot, enabled, effective, gen, nextGen, uuidIndex, paramCache>>

(* apply_patch_meta with an "enabled" field: the nodes of the subtree      *)
(* whose walk changes are written.                                         *)
PatchMeta(n, e) ==
    /\ n \in live
    /\ enabled' = [enabled EXCEPT ![n] = e]
    /\ LET patched == IF e # enabled[n] THEN Subtree(links, n) ELSE {}
           walk(flags, m) == WalkEnabled(links, live, flags, m)
       IN  effective' = [m \in NodeId |->
                            IF m \in patched /\ walk(enabled, m) # walk(enabled', m)
                            THEN walk(enabled', m)
                            ELSE effective[m]]
    /\ UNCHANGED <<links, slot, gen, nextGen, uuidIndex, paramCache>>

Next ==
    \/ \E n \in NodeId, p \in NodeId, s \in OptNode, e \in BOOLEAN :
          AddNode(n, p, s, e) \/ AddNodeRejected(n, p, s, e)
    \/ \E n \in NodeId, c \in NodeId, p \in NodeId, s \in OptNode, e \in BOOLEAN :
          AddNodeTree(n, c, p, s, e)
    \/ \E n \in NodeId : RemoveNode(n)
    \/ \E n \in NodeId, e \in BOOLEAN : ReplaceNode(n, e) \/ PatchMeta(n, e)
    \/ \E n \in NodeId, p \in NodeId, s \in OptNode :
          MoveNode(n, p, s) \/ MoveNodeRejected(n, p, s)

Spec == Init /\ [][Next]_graph

-----------------------------------------------------------------------------
(* Properties *)

\* The children of a node are one doubly linked chain from first_child to
\* last_child, after every edit, the ones that fail half-way included
\* (attach_node_between, detach_node).
LinksConsistent == LinksOK(links)

\* apply_move_node's CycleDetected check suffices: no edit makes a node its
\* own ancestor, so the parent walks of the engine terminate.
NoParentCycle == ParentsAcyclic(links)

\* The links of a node in the store lead to nodes in the store: the walks of
\* collect_subtree never meet NodeNotFound.
StoreClosed == ClosedIn(links, live)

\* The nodes of the store that the child links do not reach from the root.
Outside == live \ Subtree(links, Root)

\* Every node of the store is in the tree, as long as no edit fails after its
\* first write (attach_node finds a stale sibling): no other edit takes a node,
\* or a part of the subtree it removes, moves or inserts, out of reach.
EveryNodeInTree ==
    [][\/ Outside' = {}
       \/ Outside # {}
       \/ \E n \in NodeId, p \in NodeId, s \in OptNode :
             \/ \E e \in BOOLEAN : AddNodeRejected(n, p, s, e)
             \/ MoveNodeRejected(n, p, s)]_graph

\* Engine::is_enabled(node, true) may answer from the cached flag: for every
\* node of the tree it equals the conjunction of meta.enabled up to the root.
\* ReplaceNode starts its object with the flag set and leaves the flags below it,
\* so the nodes with a replaced one in their chain are exempt.
EffectiveAgrees ==
    \A n \in Subtree(links, Root) :
       (\A a \in UpChain(links, n) : gen[a] = 0)
          => effective[n] = WalkEnabled(links, live, enabled, n)

\* uuid_index holds exactly the uuids of the nodes in the store;
\* parameter_values_cache has the current object of every node of the tree
\* and no entry for a node that left the store.
IndexesAgree ==
    /\ uuidIndex = {<<n, gen[n]>> : n \in live}
    /\ \A n \in NodeId : /\ n \in Subtree(links, Root) => paramCache[n] = gen[n]
                         /\ n \notin live => paramCache[n] = NoEntry

=============================================================================
