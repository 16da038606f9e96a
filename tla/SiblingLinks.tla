---------------------------- MODULE SiblingLinks ----------------------------
(***************************************************************************)
(* The intrusive tree of golden_engine: every node of the store carries    *)
(* parent / first_child / last_child / prev_sibling / next_sibling links   *)
(* (node/core/metadata.rs, NodeData), and engine/apply_tree/structure.rs   *)
(* rewrites them.  A value "t" of Links is the five link fields of every   *)
(* node id, as functions; the operators below are the pure part of         *)
(* structure.rs, validation.rs and history.rs: what a call leaves in the   *)
(* links.  They are used by NodeGraph (edits) and GraphHistory (undo/redo).*)
(***************************************************************************)
CONSTANTS NodeId,   \* slot-map keys the store can hand out
          Nil       \* Option::None

ASSUME NilAssumption == Nil \notin NodeId

OptNode == NodeId \cup {Nil}

Links == [parent : [NodeId -> OptNode],
          first  : [NodeId -> OptNode],
          last   : [NodeId -> OptNode],
          prev   : [NodeId -> OptNode],
          next   : [NodeId -> OptNode]]

\* prepare_node_for_insert clears the five links of a node before insertion.
NoLinks == [parent |-> [n \in NodeId |-> Nil],
            first  |-> [n \in NodeId |-> Nil],
            last   |-> [n \in NodeId |-> Nil],
            prev   |-> [n \in NodeId |-> Nil],
            next   |-> [n \in NodeId |-> Nil]]

(* attach_node_between, after its validations: n becomes a child of p      *)
(* between the two given neighbours; a missing neighbour is an end of p's  *)
(* child list.                                                             *)
AttachBetween(t, n, p, before, after) ==
    [parent |-> [t.parent EXCEPT ![n] = p],
     first  |-> [x \in NodeId |-> IF x = p /\ before = Nil THEN n ELSE t.first[x]],
     last   |-> [x \in NodeId |-> IF x = p /\ after = Nil THEN n ELSE t.last[x]],
     prev   |-> [x \in NodeId |-> IF x = n THEN before
                                  ELSE IF x = after THEN n ELSE t.prev[x]],
     next   |-> [x \in NodeId |-> IF x = n THEN after
                                  ELSE IF x = before THEN n ELSE t.next[x]]]

(* attach_node: behind the given sibling, or at the end of the list.       *)
AttachPrev(t, p, sibling) == IF sibling = Nil THEN t.last[p] ELSE sibling
NextAfter(t, p, before)   == IF before = Nil THEN t.first[p] ELSE t.next[before]

Attach(t, n, p, sibling) ==
    LET before == AttachPrev(t, p, sibling)
    IN  AttachBetween(t, n, p, before, NextAfter(t, p, before))

\* Seeded fault: last_child is not moved back when the last child leaves.
Detach_keepsLast(t, n) ==
    LET p == t.parent[n]
        before == t.prev[n]
        after == t.next[n]
    IN  [parent |-> [t.parent EXCEPT ![n] = Nil],
         first  |-> [x \in NodeId |-> IF x = p /\ before = Nil THEN after ELSE t.first[x]],
         last   |-> t.last,
         prev   |-> [x \in NodeId |-> IF x = n THEN Nil
                                      ELSE IF x = after THEN before ELSE t.prev[x]],
         next   |-> [x \in NodeId |-> IF x = n THEN Nil
                                      ELSE IF x = before THEN after ELSE t.next[x]]]

(* detach_node: n leaves its parent's child list and keeps its own.        *)
Detach(t, n) ==
    LET p == t.parent[n]
        before == t.prev[n]
        after == t.next[n]
    IN  [parent |-> [t.parent EXCEPT ![n] = Nil],
         first  |-> [x \in NodeId |-> IF x = p /\ before = Nil THEN after ELSE t.first[x]],
         last   |-> [x \in NodeId |-> IF x = p /\ after = Nil THEN before ELSE t.last[x]],
         prev   |-> [x \in NodeId |-> IF x = n THEN Nil
                                      ELSE IF x = after THEN before ELSE t.prev[x]],
         next   |-> [x \in NodeId |-> IF x = n THEN Nil
                                      ELSE IF x = before THEN after ELSE t.next[x]]]

(* collect_subtree walks first_child / next_sibling from n; the nodes it   *)
(* reaches are the least set that holds n's first child and is closed      *)
(* under both links.                                                       *)
ClosedUnderLinks(t, S) ==
    \A x \in S : /\ t.first[x] \in S \cup {Nil}
                 /\ t.next[x] \in S \cup {Nil}

Below(t, n) ==
    {m \in NodeId : \A S \in SUBSET NodeId :
        (t.first[n] \in S \cup {Nil} /\ ClosedUnderLinks(t, S)) => m \in S}

Subtree(t, n) == {n} \cup Below(t, n)

(* is_descendant_of, is_effectively_enabled: the parent chain of n, n      *)
(* included.                                                               *)
UpChain(t, n) ==
    {m \in NodeId : \A S \in SUBSET NodeId :
        (n \in S /\ \A x \in S : t.parent[x] \in S \cup {Nil}) => m \in S}

IsDescendant(t, n, ancestor) == ancestor \in UpChain(t, n)

\* Seeded fault: a restored node always goes to the end of the list.
HistoricalBounds_append(t, live, p, before, after) == <<t.last[p], Nil>>

(* historical_sibling_bounds: where undo/redo puts a restored node when    *)
(* its recorded neighbours may have left the parent meanwhile.             *)
HistoricalBounds(t, live, p, before, after) ==
    LET isChild(c) == c # Nil /\ c \in live /\ t.parent[c] = p
    IN  IF isChild(before) THEN <<before, t.next[before]>>
        ELSE IF isChild(after) THEN <<t.prev[after], after>>
        ELSE <<t.last[p], Nil>>

-----------------------------------------------------------------------------
(* What the five links must satisfy together, whatever the edits were.     *)

\* The parent's ends and the first/last flags of the children agree.
EndsOK(t) ==
    \A p \in NodeId :
       /\ (t.first[p] = Nil) <=> (t.last[p] = Nil)
       /\ t.first[p] # Nil => t.parent[t.first[p]] = p /\ t.prev[t.first[p]] = Nil
       /\ t.last[p] # Nil => t.parent[t.last[p]] = p /\ t.next[t.last[p]] = Nil

\* Each child is reachable from the neighbour or the end it names.
ChainOK(t) ==
    \A n \in NodeId :
       IF t.parent[n] = Nil
       THEN t.prev[n] = Nil /\ t.next[n] = Nil
       ELSE /\ IF t.prev[n] = Nil THEN t.first[t.parent[n]] = n
               ELSE t.next[t.prev[n]] = n /\ t.parent[t.prev[n]] = t.parent[n]
            /\ IF t.next[n] = Nil THEN t.last[t.parent[n]] = n
               ELSE t.prev[t.next[n]] = n /\ t.parent[t.next[n]] = t.parent[n]

\* No ring of siblings: with EndsOK and ChainOK, a child is reached from its
\* parent's first child.
NoSiblingRing(t) ==
    \A S \in SUBSET NodeId : S # {} => \E x \in S : t.prev[x] \notin S

LinksOK(t) == EndsOK(t) /\ ChainOK(t) /\ NoSiblingRing(t)

\* No cycle of parents: every non-empty set of nodes has a topmost member.
ParentsAcyclic(t) ==
    \A S \in SUBSET NodeId : S # {} => \E x \in S : t.parent[x] \notin S

\* The links of the nodes in L lead to nodes in L.
ClosedIn(t, L) ==
    \A x \in L : {t.parent[x], t.first[x], t.last[x], t.prev[x], t.next[x]}
                   \subseteq L \cup {Nil}

=============================================================================
