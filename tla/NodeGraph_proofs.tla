-------------------------- MODULE NodeGraph_proofs --------------------------
(***************************************************************************)
(* Proofs about NodeGraph for every set of node ids, every bound on the    *)
(* generations and both settings of StaleSiblings and MayReplace.          *)
(***************************************************************************)
EXTENDS NodeGraph, TLAPS

-----------------------------------------------------------------------------
(* The link rewrites of engine/apply_tree/structure.rs, for every set of     *)
(* node ids: attach_node_between and detach_node keep the five links in      *)
(* agreement and the tree free of cycles, and collect_subtree finds exactly  *)
(* the nodes whose parent chain passes through its root.                     *)

\* attach_node_between writes links only.
LEMMA AttachBetweenType ==
    ASSUME NEW t \in Links, NEW n \in NodeId, NEW p \in NodeId,
           NEW before \in OptNode, NEW after \in OptNode
    PROVE  AttachBetween(t, n, p, before, after) \in Links
BY DEF AttachBetween, Links, OptNode

\* The neighbours attach_node computes are node ids or None.
LEMMA AttachBounds ==
    ASSUME NEW t \in Links, NEW p \in NodeId, NEW s \in OptNode
    PROVE  /\ AttachPrev(t, p, s) \in OptNode
           /\ NextAfter(t, p, AttachPrev(t, p, s)) \in OptNode
BY DEF AttachPrev, NextAfter, Links, OptNode

\* attach_node writes links only.
LEMMA AttachType ==
    ASSUME NEW t \in Links, NEW n \in NodeId, NEW p \in NodeId, NEW s \in OptNode
    PROVE  Attach(t, n, p, s) \in Links
BY AttachBetweenType, AttachBounds DEF Attach

\* detach_node writes links only.
LEMMA DetachType ==
    ASSUME NEW t \in Links, NEW n \in NodeId
    PROVE  Detach(t, n) \in Links
BY DEF Detach, Links, OptNode

\* A node without a parent is in nobody's chain.
LEMMA OrphanIsAlone ==
    ASSUME NEW t \in Links, EndsOK(t), ChainOK(t), NEW n \in NodeId, t.parent[n] = Nil
    PROVE  /\ t.prev[n] = Nil /\ t.next[n] = Nil
           /\ \A x \in NodeId : /\ t.first[x] # n /\ t.last[x] # n
                                /\ t.prev[x] # n /\ t.next[x] # n
BY NilAssumption DEF EndsOK, ChainOK, Links, OptNode

-----------------------------------------------------------------------------
(* attach_node_between.  The two neighbours are adjacent children of p (or *)
(* ends of its list), which is what its callers have to pass.              *)
Adjacent(t, p, before, after) ==
    /\ before \in OptNode
    /\ after \in OptNode
    /\ IF before = Nil THEN t.first[p] = after
       ELSE t.parent[before] = p /\ t.next[before] = after
    /\ IF after = Nil THEN t.last[p] = before
       ELSE t.parent[after] = p /\ t.prev[after] = before

\* Linking an orphan between two adjacent children keeps the parent's ends right.
LEMMA AttachBetweenEnds ==
    ASSUME NEW t \in Links, NEW n \in NodeId, NEW p \in NodeId,
           NEW before, NEW after,
           LinksOK(t), t.parent[n] = Nil, n # p, Adjacent(t, p, before, after)
    PROVE  EndsOK(AttachBetween(t, n, p, before, after))
<1> DEFINE u == AttachBetween(t, n, p, before, after)
<1>1. n # before /\ n # after
  BY NilAssumption DEF Adjacent
<1>2. /\ u.parent = [t.parent EXCEPT ![n] = p]
      /\ u.first = [x \in NodeId |-> IF x = p /\ before = Nil THEN n ELSE t.first[x]]
      /\ u.last = [x \in NodeId |-> IF x = p /\ after = Nil THEN n ELSE t.last[x]]
      /\ u.prev = [x \in NodeId |-> IF x = n THEN before
                                    ELSE IF x = after THEN n ELSE t.prev[x]]
      /\ u.next = [x \in NodeId |-> IF x = n THEN after
                                    ELSE IF x = before THEN n ELSE t.next[x]]
  BY DEF AttachBetween
<1>3. /\ t.parent \in [NodeId -> OptNode] /\ t.first \in [NodeId -> OptNode]
      /\ t.last \in [NodeId -> OptNode] /\ t.prev \in [NodeId -> OptNode]
      /\ t.next \in [NodeId -> OptNode]
  BY DEF Links
<1>4. /\ t.prev[n] = Nil /\ t.next[n] = Nil
      /\ \A x \in NodeId : /\ t.first[x] # n /\ t.last[x] # n
                           /\ t.prev[x] # n /\ t.next[x] # n
  BY OrphanIsAlone DEF LinksOK
<1>5. EndsOK(t) /\ ChainOK(t)
  BY DEF LinksOK
<1> HIDE DEF u
<1>6. ASSUME NEW x \in NodeId
      PROVE  /\ (u.first[x] = Nil) <=> (u.last[x] = Nil)
             /\ u.first[x] # Nil => u.parent[u.first[x]] = x /\ u.prev[u.first[x]] = Nil
             /\ u.last[x] # Nil => u.parent[u.last[x]] = x /\ u.next[u.last[x]] = Nil
  <2>1. CASE x = p
    BY <2>1, <1>1, <1>2, <1>3, <1>4, <1>5, NilAssumption DEF EndsOK, ChainOK, Adjacent, OptNode
  <2>2. CASE x # p
    BY <2>2, <1>1, <1>2, <1>3, <1>4, <1>5, NilAssumption DEF EndsOK, ChainOK, Adjacent, OptNode
  <2> QED  BY <2>1, <2>2
<1> QED  BY <1>6 DEF EndsOK, u

\* ... and the chain doubly linked.
LEMMA AttachBetweenChain ==
    ASSUME NEW t \in Links, NEW n \in NodeId, NEW p \in NodeId,
           NEW before, NEW after,
           LinksOK(t), t.parent[n] = Nil, n # p, Adjacent(t, p, before, after)
    PROVE  ChainOK(AttachBetween(t, n, p, before, after))
<1> DEFINE u == AttachBetween(t, n, p, before, after)
<1>1. n # before /\ n # after
  BY NilAssumption DEF Adjacent
<1>2. /\ u.parent = [t.parent EXCEPT ![n] = p]
      /\ u.first = [x \in NodeId |-> IF x = p /\ before = Nil THEN n ELSE t.first[x]]
      /\ u.last = [x \in NodeId |-> IF x = p /\ after = Nil THEN n ELSE t.last[x]]
      /\ u.prev = [x \in NodeId |-> IF x = n THEN before
                                    ELSE IF x = after THEN n ELSE t.prev[x]]
      /\ u.next = [x \in NodeId |-> IF x = n THEN after
                                    ELSE IF x = before THEN n ELSE t.next[x]]
  BY DEF AttachBetween
<1>3. /\ t.parent \in [NodeId -> OptNode] /\ t.first \in [NodeId -> OptNode]
      /\ t.last \in [NodeId -> OptNode] /\ t.prev \in [NodeId -> OptNode]
      /\ t.next \in [NodeId -> OptNode]
  BY DEF Links
<1>4. /\ t.prev[n] = Nil /\ t.next[n] = Nil
      /\ \A x \in NodeId : /\ t.first[x] # n /\ t.last[x] # n
                           /\ t.prev[x] # n /\ t.next[x] # n
  BY OrphanIsAlone DEF LinksOK
<1>5. EndsOK(t) /\ ChainOK(t)
  BY DEF LinksOK
<1> HIDE DEF u
<1>6. ASSUME NEW x \in NodeId, u.parent[x] = Nil
      PROVE  u.prev[x] = Nil /\ u.next[x] = Nil
  BY <1>6, <1>1, <1>2, <1>3, <1>4, <1>5, NilAssumption DEF ChainOK, Adjacent, OptNode
<1>7. ASSUME NEW x \in NodeId, u.parent[x] # Nil
      PROVE  IF u.prev[x] = Nil THEN u.first[u.parent[x]] = x
             ELSE u.next[u.prev[x]] = x /\ u.parent[u.prev[x]] = u.parent[x]
  <2>1. CASE x = n
    BY <2>1, <1>7, <1>1, <1>2, <1>3, <1>4, <1>5, NilAssumption DEF ChainOK, Adjacent, OptNode
  <2>2. CASE x = after
    BY <2>2, <1>7, <1>1, <1>2, <1>3, <1>4, <1>5, NilAssumption DEF ChainOK, Adjacent, OptNode
  <2>3. CASE x # n /\ x # after
    BY <2>3, <1>7, <1>1, <1>2, <1>3, <1>4, <1>5, NilAssumption DEF ChainOK, Adjacent, OptNode
  <2> QED  BY <2>1, <2>2, <2>3
<1>8. ASSUME NEW x \in NodeId, u.parent[x] # Nil
      PROVE  IF u.next[x] = Nil THEN u.last[u.parent[x]] = x
             ELSE u.prev[u.next[x]] = x /\ u.parent[u.next[x]] = u.parent[x]
  <2>1. CASE x = n
    BY <2>1, <1>8, <1>1, <1>2, <1>3, <1>4, <1>5, NilAssumption DEF ChainOK, Adjacent, OptNode
  <2>2. CASE x = before
    BY <2>2, <1>8, <1>1, <1>2, <1>3, <1>4, <1>5, NilAssumption DEF ChainOK, Adjacent, OptNode
  <2>3. CASE x # n /\ x # before
    BY <2>3, <1>8, <1>1, <1>2, <1>3, <1>4, <1>5, NilAssumption DEF ChainOK, Adjacent, OptNode
  <2> QED  BY <2>1, <2>2, <2>3
<1> QED  BY <1>6, <1>7, <1>8 DEF ChainOK, u

\* ... and free of sibling rings.
LEMMA AttachBetweenNoRing ==
    ASSUME NEW t \in Links, NEW n \in NodeId, NEW p \in NodeId,
           NEW before, NEW after,
           LinksOK(t), t.parent[n] = Nil, n # p, Adjacent(t, p, before, after)
    PROVE  NoSiblingRing(AttachBetween(t, n, p, before, after))
<1> DEFINE u == AttachBetween(t, n, p, before, after)
<1>1. n # before /\ n # after
  BY NilAssumption DEF Adjacent
<1>2. SUFFICES ASSUME NEW S \in SUBSET NodeId, S # {}, \A x \in S : u.prev[x] \in S
               PROVE FALSE
  BY DEF NoSiblingRing
<1>3. u.prev = [x \in NodeId |-> IF x = n THEN before
                                 ELSE IF x = after THEN n ELSE t.prev[x]]
  BY DEF AttachBetween
<1>4. \A x \in NodeId : t.prev[x] # n
  BY OrphanIsAlone DEF LinksOK
<1>5. CASE after \in S
  <2>1. t.prev[after] = before /\ before \in S
    <3>1. after # Nil
      BY <1>5, NilAssumption
    <3>2. n \in S
      BY <1>2, <1>3, <1>5, <1>1
    <3> QED  BY <3>1, <3>2, <1>2, <1>3 DEF Adjacent
  <2>2. \A x \in S \ {n} : t.prev[x] \in S \ {n}
    BY <1>1, <1>2, <1>3, <1>4, <2>1
  <2>3. S \ {n} # {} /\ S \ {n} \in SUBSET NodeId
    BY <1>5, <1>1
  <2> QED  BY <2>2, <2>3 DEF LinksOK, NoSiblingRing
<1>6. CASE after \notin S
  <2>1. \A x \in S \ {n} : t.prev[x] \in S \ {n}
    BY <1>2, <1>3, <1>4, <1>6
  <2>2. CASE S \ {n} = {}
    BY <2>2, <1>1, <1>2, <1>3
  <2> QED  BY <2>1, <2>2 DEF LinksOK, NoSiblingRing
<1> QED  BY <1>5, <1>6

\* attach_node passes adjacent neighbours, whatever valid sibling it is given.
LEMMA AttachAdjacent ==
    ASSUME NEW t \in Links, LinksOK(t), NEW p \in NodeId, NEW s \in OptNode,
           s # Nil => t.parent[s] = p
    PROVE  Adjacent(t, p, AttachPrev(t, p, s), NextAfter(t, p, AttachPrev(t, p, s)))
BY NilAssumption
DEF Adjacent, AttachPrev, NextAfter, LinksOK, EndsOK, ChainOK, Links, OptNode

\* attach_node keeps the links in agreement when the node is an orphan.
LEMMA AttachLinksOK ==
    ASSUME NEW t \in Links, LinksOK(t), NEW n \in NodeId, NEW p \in NodeId,
           NEW s \in OptNode, t.parent[n] = Nil, n # p,
           s # Nil => t.parent[s] = p
    PROVE  LinksOK(Attach(t, n, p, s))
BY AttachAdjacent, AttachBetweenEnds, AttachBetweenChain, AttachBetweenNoRing
DEF Attach, LinksOK

\* MoveNode's "become first child" passes adjacent neighbours too.
LEMMA FirstChildLinksOK ==
    ASSUME NEW t \in Links, LinksOK(t), NEW n \in NodeId, NEW p \in NodeId,
           t.parent[n] = Nil, n # p
    PROVE  LinksOK(AttachBetween(t, n, p, Nil, t.first[p]))
<1>1. Adjacent(t, p, Nil, t.first[p])
  BY NilAssumption DEF Adjacent, LinksOK, EndsOK, ChainOK, Links, OptNode
<1> QED
  BY <1>1, AttachBetweenEnds, AttachBetweenChain, AttachBetweenNoRing DEF LinksOK

-----------------------------------------------------------------------------
(* detach_node.                                                            *)

\* Unlinking a child keeps the parent's ends and the chain in agreement.
LEMMA DetachEndsChain ==
    ASSUME NEW t \in Links, LinksOK(t), NEW n \in NodeId, t.parent[n] # Nil
    PROVE  EndsOK(Detach(t, n)) /\ ChainOK(Detach(t, n))
<1> DEFINE p == t.parent[n]
           b == t.prev[n]
           a == t.next[n]
           u == Detach(t, n)
<1>1. /\ u.parent = [t.parent EXCEPT ![n] = Nil]
      /\ u.first = [x \in NodeId |-> IF x = p /\ b = Nil THEN a ELSE t.first[x]]
      /\ u.last = [x \in NodeId |-> IF x = p /\ a = Nil THEN b ELSE t.last[x]]
      /\ u.prev = [x \in NodeId |-> IF x = n THEN Nil
                                    ELSE IF x = a THEN b ELSE t.prev[x]]
      /\ u.next = [x \in NodeId |-> IF x = n THEN Nil
                                    ELSE IF x = b THEN a ELSE t.next[x]]
  BY DEF Detach
<1>2. /\ t.parent \in [NodeId -> OptNode] /\ t.first \in [NodeId -> OptNode]
      /\ t.last \in [NodeId -> OptNode] /\ t.prev \in [NodeId -> OptNode]
      /\ t.next \in [NodeId -> OptNode]
  BY DEF Links
<1>3. EndsOK(t) /\ ChainOK(t)
  BY DEF LinksOK
<1>4. n # b /\ n # a /\ (a = b => a = Nil)
  <2>1. t.prev[n] # n
    <3>1. \E x \in {n} : t.prev[x] \notin {n}
      BY DEF LinksOK, NoSiblingRing
    <3> QED  BY <3>1
  <2>2. t.next[n] # n
    BY <2>1, <1>3, NilAssumption DEF ChainOK
  <2>3. ASSUME a = b, a # Nil PROVE FALSE
    <3>1. a \in NodeId /\ t.prev[a] = n /\ t.prev[n] = a
      BY <2>3, <1>2, <1>3 DEF ChainOK, OptNode
    <3>2. \E x \in {n, a} : t.prev[x] \notin {n, a}
      BY <3>1 DEF LinksOK, NoSiblingRing
    <3> QED  BY <3>1, <3>2
  <2> QED  BY <2>1, <2>2, <2>3
<1> HIDE DEF u
<1>5. ASSUME NEW x \in NodeId
      PROVE  /\ (u.first[x] = Nil) <=> (u.last[x] = Nil)
             /\ u.first[x] # Nil => u.parent[u.first[x]] = x /\ u.prev[u.first[x]] = Nil
             /\ u.last[x] # Nil => u.parent[u.last[x]] = x /\ u.next[u.last[x]] = Nil
  <2>1. CASE x = p
    <3>1. /\ (t.first[p] = Nil) <=> (t.last[p] = Nil)
          /\ t.first[p] # Nil => t.parent[t.first[p]] = p /\ t.prev[t.first[p]] = Nil
          /\ t.last[p] # Nil => t.parent[t.last[p]] = p /\ t.next[t.last[p]] = Nil
      BY <2>1, <1>3 DEF EndsOK
    <3>2. /\ b = Nil => t.first[p] = n
          /\ b # Nil => b \in NodeId /\ t.next[b] = n /\ t.parent[b] = p
          /\ a = Nil => t.last[p] = n
          /\ a # Nil => a \in NodeId /\ t.prev[a] = n /\ t.parent[a] = p
          /\ t.first[p] \in OptNode /\ t.last[p] \in OptNode
      BY <2>1, <1>2, <1>3 DEF ChainOK, OptNode
    <3>3. /\ u.first[p] = IF b = Nil THEN a ELSE t.first[p]
          /\ u.last[p] = IF a = Nil THEN b ELSE t.last[p]
          /\ a # Nil /\ b = Nil => u.parent[a] = p /\ u.prev[a] = Nil
          /\ b # Nil /\ a = Nil => u.parent[b] = p /\ u.next[b] = Nil
      BY <2>1, <3>2, <1>1, <1>4
    <3>4. /\ b # Nil /\ a = Nil => t.first[p] # Nil
          /\ a # Nil /\ b = Nil => t.last[p] # Nil
      BY <3>1, <3>2, NilAssumption
    <3>5. ASSUME b # Nil, t.first[p] # Nil
          PROVE  u.parent[t.first[p]] = p /\ u.prev[t.first[p]] = Nil
      <4> DEFINE f == t.first[p]
      <4>1. f \in NodeId /\ f # n /\ f # a /\ t.parent[f] = p /\ t.prev[f] = Nil
        BY <3>1, <3>2, <3>5, NilAssumption DEF OptNode
      <4> HIDE DEF f
      <4>2. u.parent[f] = t.parent[f]
        BY <4>1, <1>1, <1>2
      <4>3. u.prev[f] = t.prev[f]
        BY <4>1, <1>1
      <4> QED  BY <4>1, <4>2, <4>3 DEF f
    <3>6. ASSUME a # Nil, t.last[p] # Nil
          PROVE  u.parent[t.last[p]] = p /\ u.next[t.last[p]] = Nil
      <4> DEFINE f == t.last[p]
      <4>1. f \in NodeId /\ f # n /\ f # b /\ t.parent[f] = p /\ t.next[f] = Nil
        BY <3>1, <3>2, <3>6, NilAssumption DEF OptNode
      <4> HIDE DEF f
      <4>2. u.parent[f] = t.parent[f]
        BY <4>1, <1>1, <1>2
      <4>3. u.next[f] = t.next[f]
        BY <4>1, <1>1
      <4> QED  BY <4>1, <4>2, <4>3 DEF f
    <3>7. (u.first[p] = Nil) <=> (u.last[p] = Nil)
      BY <3>1, <3>3, <3>4
    <3>8. u.first[p] # Nil => u.parent[u.first[p]] = p /\ u.prev[u.first[p]] = Nil
      BY <3>3, <3>5
    <3>9. u.last[p] # Nil => u.parent[u.last[p]] = p /\ u.next[u.last[p]] = Nil
      BY <3>3, <3>6
    <3> QED  BY <2>1, <3>7, <3>8, <3>9
  <2>2. CASE x # p
    BY <2>2, <1>1, <1>2, <1>3, <1>4, NilAssumption DEF EndsOK, ChainOK, OptNode
  <2> QED  BY <2>1, <2>2
<1>6. ASSUME NEW x \in NodeId, u.parent[x] = Nil
      PROVE  u.prev[x] = Nil /\ u.next[x] = Nil
  BY <1>6, <1>1, <1>2, <1>3, <1>4, NilAssumption DEF ChainOK, OptNode
<1>7. ASSUME NEW x \in NodeId, u.parent[x] # Nil
      PROVE  IF u.prev[x] = Nil THEN u.first[u.parent[x]] = x
             ELSE u.next[u.prev[x]] = x /\ u.parent[u.prev[x]] = u.parent[x]
  <2>1. x # n /\ t.parent[x] # Nil
    BY <1>7, <1>1, <1>2
  <2>2. CASE x = a
    BY <2>1, <2>2, <1>1, <1>2, <1>3, <1>4, NilAssumption DEF EndsOK, ChainOK, OptNode
  <2>3. CASE x # a
    BY <2>1, <2>3, <1>1, <1>2, <1>3, <1>4, NilAssumption DEF EndsOK, ChainOK, OptNode
  <2> QED  BY <2>2, <2>3
<1>8. ASSUME NEW x \in NodeId, u.parent[x] # Nil
      PROVE  IF u.next[x] = Nil THEN u.last[u.parent[x]] = x
             ELSE u.prev[u.next[x]] = x /\ u.parent[u.next[x]] = u.parent[x]
  <2>1. x # n /\ t.parent[x] # Nil
    BY <1>8, <1>1, <1>2
  <2>2. CASE x = b
    BY <2>1, <2>2, <1>1, <1>2, <1>3, <1>4, NilAssumption DEF EndsOK, ChainOK, OptNode
  <2>3. CASE x # b
    BY <2>1, <2>3, <1>1, <1>2, <1>3, <1>4, NilAssumption DEF EndsOK, ChainOK, OptNode
  <2> QED  BY <2>2, <2>3
<1>9. EndsOK(u)
  BY <1>5 DEF EndsOK
<1>10. ChainOK(u)
  BY <1>6, <1>7, <1>8 DEF ChainOK
<1> QED  BY <1>9, <1>10 DEF u

\* ... and makes no ring.
LEMMA DetachNoRing ==
    ASSUME NEW t \in Links, LinksOK(t), NEW n \in NodeId, t.parent[n] # Nil
    PROVE  NoSiblingRing(Detach(t, n))
<1> DEFINE u == Detach(t, n)
<1>1. SUFFICES ASSUME NEW S \in SUBSET NodeId, S # {}, \A x \in S : u.prev[x] \in S
               PROVE FALSE
  BY DEF NoSiblingRing
<1>2. u.prev = [x \in NodeId |-> IF x = n THEN Nil
                                 ELSE IF x = t.next[n] THEN t.prev[n] ELSE t.prev[x]]
  BY DEF Detach
<1>3. n \notin S
  BY <1>1, <1>2, NilAssumption
<1>4. CASE t.next[n] \in S
  <2>1. t.prev[t.next[n]] = n
    BY <1>4, NilAssumption DEF LinksOK, ChainOK
  <2>2. t.prev[n] \in S
    BY <1>4, <1>2, <1>3, <1>1
  <2>3. \A x \in S \cup {n} : t.prev[x] \in S \cup {n}
    BY <1>1, <1>2, <1>3, <2>1, <2>2
  <2> QED  BY <2>3 DEF LinksOK, NoSiblingRing
<1>5. CASE t.next[n] \notin S
  <2>1. \A x \in S : t.prev[x] \in S
    BY <1>1, <1>2, <1>3, <1>5
  <2> QED  BY <2>1, <1>1 DEF LinksOK, NoSiblingRing
<1> QED  BY <1>4, <1>5

\* detach_node keeps the links in agreement.
LEMMA DetachLinksOK ==
    ASSUME NEW t \in Links, LinksOK(t), NEW n \in NodeId, t.parent[n] # Nil
    PROVE  LinksOK(Detach(t, n))
BY DetachEndsChain, DetachNoRing DEF LinksOK

-----------------------------------------------------------------------------
(* The parent chain and the subtree.                                       *)

\* is_descendant_of answers true for the node itself.
LEMMA UpSelf ==
    ASSUME NEW t \in Links, NEW n \in NodeId
    PROVE  n \in UpChain(t, n)
BY DEF UpChain

\* The chain of a child holds the chain of its parent.
LEMMA UpChild ==
    ASSUME NEW t \in Links, NEW x \in NodeId, t.parent[x] # Nil,
           NEW n \in UpChain(t, t.parent[x])
    PROVE  n \in UpChain(t, x)
BY DEF UpChain

\* ... and nothing else but the child.
LEMMA UpStep ==
    ASSUME NEW t \in Links, NEW x \in NodeId, NEW n \in UpChain(t, x), n # x
    PROVE  t.parent[x] # Nil /\ n \in UpChain(t, t.parent[x])
<1>1. t.parent[x] # Nil
  <2>1. SUFFICES ASSUME t.parent[x] = Nil PROVE FALSE
    OBVIOUS
  <2>2. {x} \in SUBSET NodeId /\ \A y \in {x} : t.parent[y] \in {x} \cup {Nil}
    BY <2>1
  <2> QED  BY <2>2 DEF UpChain
<1>2. ASSUME NEW S \in SUBSET NodeId, t.parent[x] \in S,
             \A y \in S : t.parent[y] \in S \cup {Nil}
      PROVE  n \in S
  <2>1. \A y \in S \cup {x} : t.parent[y] \in (S \cup {x}) \cup {Nil}
    BY <1>2
  <2>2. n \in S \cup {x}
    BY <2>1 DEF UpChain
  <2> QED  BY <2>2
<1> QED  BY <1>1, <1>2 DEF UpChain

\* Without a cycle of parents no node is an ancestor of its parent.
LEMMA NotOwnAncestor ==
    ASSUME NEW t \in Links, ParentsAcyclic(t), NEW n \in NodeId, t.parent[n] # Nil
    PROVE  n \notin UpChain(t, t.parent[n])
<1> SUFFICES ASSUME n \in UpChain(t, t.parent[n]) PROVE FALSE
  OBVIOUS
<1> DEFINE S == {x \in NodeId : n \in UpChain(t, x)}
<1>1. n \in S
  BY UpSelf
<1>2. ASSUME NEW x \in S PROVE t.parent[x] \in S
  <2>1. t.parent[x] # Nil /\ n \in UpChain(t, t.parent[x])
    <3>1. CASE x = n
      BY <3>1
    <3>2. CASE x # n
      BY <3>2, UpStep
    <3> QED  BY <3>1, <3>2
  <2>2. t.parent[x] \in NodeId
    BY <2>1 DEF Links, OptNode
  <2> QED  BY <2>1, <2>2
<1>3. S \in SUBSET NodeId /\ S # {}
  BY <1>1
<1> QED  BY <1>2, <1>3 DEF ParentsAcyclic

\* What collect_subtree finds below n has n in its parent chain.
LEMMA BelowIsUnder ==
    ASSUME NEW t \in Links, LinksOK(t), ParentsAcyclic(t),
           NEW n \in NodeId, NEW m \in Below(t, n)
    PROVE  m # n /\ n \in UpChain(t, m)
<1> DEFINE U == {x \in NodeId : x # n /\ n \in UpChain(t, x)}
<1>1. ASSUME NEW x \in NodeId, t.parent[x] # Nil, n \in UpChain(t, t.parent[x])
      PROVE  x \in U
  BY <1>1, UpChild, NotOwnAncestor
<1>2. t.first[n] \in U \cup {Nil}
  <2>1. CASE t.first[n] # Nil
    <3>1. t.first[n] \in NodeId /\ t.parent[t.first[n]] = n
      BY <2>1 DEF LinksOK, EndsOK, Links, OptNode
    <3> QED  BY <3>1, <1>1, UpSelf, NilAssumption
  <2> QED  BY <2>1
<1>3. ASSUME NEW x \in U PROVE t.first[x] \in U \cup {Nil} /\ t.next[x] \in U \cup {Nil}
  <2>1. ASSUME t.first[x] # Nil PROVE t.first[x] \in U
    <3>1. t.first[x] \in NodeId /\ t.parent[t.first[x]] = x
      BY <2>1 DEF LinksOK, EndsOK, Links, OptNode
    <3> QED  BY <3>1, <1>1, NilAssumption
  <2>2. ASSUME t.next[x] # Nil PROVE t.next[x] \in U
    <3>1. t.parent[x] # Nil /\ n \in UpChain(t, t.parent[x])
      BY UpStep
    <3>2. t.next[x] \in NodeId /\ t.parent[t.next[x]] = t.parent[x]
      BY <2>2, <3>1 DEF LinksOK, ChainOK, Links, OptNode
    <3> QED  BY <3>1, <3>2, <1>1
  <2> QED  BY <2>1, <2>2
<1>4. U \in SUBSET NodeId
  OBVIOUS
<1>5. ClosedUnderLinks(t, U)
  BY <1>3 DEF ClosedUnderLinks
<1>6. m \in U
  BY <1>2, <1>4, <1>5 DEF Below
<1> QED  BY <1>6

\* collect_subtree misses no child of a node it visits.
LEMMA ChildrenAreBelow ==
    ASSUME NEW t \in Links, LinksOK(t), NEW n \in NodeId,
           NEW x \in NodeId, t.parent[x] \in Subtree(t, n)
    PROVE  x \in Below(t, n)
<1> DEFINE y == t.parent[x]
<1>1. SUFFICES ASSUME NEW S \in SUBSET NodeId, t.first[n] \in S \cup {Nil},
                      ClosedUnderLinks(t, S), x \notin S
               PROVE FALSE
  BY DEF Below
<1>2. y \in NodeId /\ (y \in S \/ y = n)
  BY <1>1 DEF Subtree, Below
<1>3. t.first[y] \in S \cup {Nil}
  BY <1>1, <1>2 DEF ClosedUnderLinks
<1> DEFINE T == {z \in NodeId : t.parent[z] = y /\ z \notin S}
<1>4. ASSUME NEW z \in T PROVE t.prev[z] \in T
  <2>1. t.parent[z] # Nil /\ z \in NodeId /\ z \notin S /\ t.parent[z] = y
    BY <1>2, NilAssumption
  <2>2. t.prev[z] # Nil
    BY <2>1, <1>3, NilAssumption DEF LinksOK, ChainOK
  <2>3. t.prev[z] \in NodeId /\ t.next[t.prev[z]] = z /\ t.parent[t.prev[z]] = y
    BY <2>1, <2>2 DEF LinksOK, ChainOK, Links, OptNode
  <2>4. t.prev[z] \notin S
    BY <2>1, <2>3, <1>1, NilAssumption DEF ClosedUnderLinks
  <2> QED  BY <2>3, <2>4
<1>5. T \in SUBSET NodeId /\ T # {}
  BY <1>1
<1> QED  BY <1>4, <1>5 DEF LinksOK, NoSiblingRing

\* collect_subtree finds every node that has n in its parent chain.
LEMMA UnderIsInSubtree ==
    ASSUME NEW t \in Links, LinksOK(t), NEW n \in NodeId, NEW m \in NodeId,
           n \in UpChain(t, m)
    PROVE  m \in Subtree(t, n)
<1> SUFFICES ASSUME m \notin Subtree(t, n) PROVE FALSE
  OBVIOUS
<1> DEFINE S == NodeId \ Subtree(t, n)
<1>1. \A x \in S : t.parent[x] \in S \cup {Nil}
  BY ChildrenAreBelow DEF Subtree, Links, OptNode
<1>2. n \in S
  BY <1>1 DEF UpChain
<1> QED  BY <1>2 DEF Subtree

\* Without cycles nothing in a subtree is the parent of its root.
LEMMA ParentOutsideSubtree ==
    ASSUME NEW t \in Links, LinksOK(t), ParentsAcyclic(t),
           NEW n \in NodeId, t.parent[n] # Nil
    PROVE  t.parent[n] \notin Subtree(t, n)
BY BelowIsUnder, NotOwnAncestor, UpSelf DEF Subtree

\* The parent of a node below n is in n's subtree.
LEMMA SubtreeParent ==
    ASSUME NEW t \in Links, LinksOK(t), ParentsAcyclic(t),
           NEW n \in NodeId, NEW m \in Subtree(t, n), m # n
    PROVE  t.parent[m] # Nil /\ t.parent[m] \in Subtree(t, n)
<1>1. m \in NodeId /\ n \in UpChain(t, m)
  BY BelowIsUnder DEF Subtree, Below
<1>2. t.parent[m] # Nil /\ n \in UpChain(t, t.parent[m])
  BY <1>1, UpStep
<1>3. t.parent[m] \in NodeId
  BY <1>1, <1>2 DEF Links, OptNode
<1> QED  BY <1>2, <1>3, UnderIsInSubtree

\* After detach_node no node outside the subtree links into it: removing the
\* subtree from the store leaves no dangling link.
LEMMA DetachCutsSubtree ==
    ASSUME NEW t \in Links, LinksOK(t), ParentsAcyclic(t),
           NEW n \in NodeId, t.parent[n] # Nil,
           NEW x \in NodeId \ Subtree(t, n)
    PROVE  {Detach(t, n).parent[x], Detach(t, n).first[x], Detach(t, n).last[x],
            Detach(t, n).prev[x], Detach(t, n).next[x]} \cap Subtree(t, n) = {}
<1> DEFINE u == Detach(t, n)
           Sub == Subtree(t, n)
<1>1. u \in Links /\ EndsOK(u) /\ ChainOK(u) /\ u.parent = [t.parent EXCEPT ![n] = Nil]
  BY DetachType, DetachEndsChain DEF Detach
<1>2. x # n /\ n \in Sub /\ Sub \subseteq NodeId
  BY DEF Subtree, Below
<1>3. u.parent[x] = t.parent[x] /\ t.parent[x] \notin Sub
  BY <1>1, <1>2, ChildrenAreBelow DEF Links, Subtree
<1>4. ASSUME NEW y \in NodeId, u.parent[y] # Nil, u.parent[y] \notin Sub
      PROVE  y \notin Sub
  <2>1. y # n
    BY <1>4, <1>1 DEF Links
  <2>2. u.parent[y] = t.parent[y]
    BY <2>1, <1>1 DEF Links
  <2> QED  BY <1>4, <2>1, <2>2, SubtreeParent
<1>a. /\ u.first[x] \in OptNode /\ u.last[x] \in OptNode
      /\ u.prev[x] \in OptNode /\ u.next[x] \in OptNode
  BY <1>1 DEF Links
<1>b. Nil \notin Sub
  BY <1>2, NilAssumption
<1>c. EndsOK(u) /\ ChainOK(u)
  BY <1>1
<1> HIDE DEF u, Sub
<1>5. \A y \in {u.first[x], u.last[x]} : y \notin Sub
  <2>1. u.first[x] # Nil => u.parent[u.first[x]] = x
    BY <1>c DEF EndsOK
  <2>2. u.last[x] # Nil => u.parent[u.last[x]] = x
    BY <1>c DEF EndsOK
  <2>3. x \in NodeId /\ x # Nil /\ x \notin Sub
    BY NilAssumption DEF Sub
  <2> QED  BY <2>1, <2>2, <2>3, <1>a, <1>b, <1>4 DEF OptNode
<1>6. \A y \in {u.prev[x], u.next[x]} : y \notin Sub
  <2>1. CASE u.parent[x] = Nil
    BY <2>1, <1>b, <1>c DEF ChainOK
  <2>2. CASE u.parent[x] # Nil
    <3>1. /\ u.prev[x] # Nil => u.parent[u.prev[x]] = u.parent[x]
          /\ u.next[x] # Nil => u.parent[u.next[x]] = u.parent[x]
      BY <2>2, <1>c DEF ChainOK
    <3>2. u.parent[x] \notin Sub
      BY <1>3
    <3> QED  BY <2>2, <3>1, <3>2, <1>a, <1>b, <1>4 DEF OptNode
  <2> QED  BY <2>1, <2>2
<1> QED  BY <1>3, <1>5, <1>6 DEF u, Sub

\* The subtree of n is what has n in its parent chain: collect_subtree going
\* down and is_descendant_of going up agree.
LEMMA SubtreeIsUnder ==
    ASSUME NEW t \in Links, LinksOK(t), ParentsAcyclic(t), NEW n \in NodeId,
           NEW m \in NodeId
    PROVE  m \in Subtree(t, n) <=> n \in UpChain(t, m)
BY BelowIsUnder, UnderIsInSubtree, UpSelf DEF Subtree

\* A parent chain is closed under parents.
LEMMA UpClosed ==
    ASSUME NEW t \in Links, NEW x \in NodeId
    PROVE  \A y \in UpChain(t, x) : t.parent[y] \in UpChain(t, x) \cup {Nil}
<1> SUFFICES ASSUME NEW y \in UpChain(t, x), t.parent[y] # Nil
             PROVE  t.parent[y] \in UpChain(t, x)
  OBVIOUS
<1>1. y \in NodeId /\ t.parent[y] \in NodeId
  BY DEF UpChain, Links, OptNode
<1>2. ASSUME NEW S \in SUBSET NodeId, x \in S, \A z \in S : t.parent[z] \in S \cup {Nil}
      PROVE  t.parent[y] \in S
  BY <1>2 DEF UpChain
<1> QED  BY <1>1, <1>2 DEF UpChain

\* The ancestors of an ancestor are ancestors.
LEMMA UpTrans ==
    ASSUME NEW t \in Links, NEW x \in NodeId, NEW y \in UpChain(t, x),
           NEW z \in UpChain(t, y)
    PROVE  z \in UpChain(t, x)
<1>1. UpChain(t, x) \in SUBSET NodeId
  BY DEF UpChain
<1>2. y \in UpChain(t, x) /\ \A a \in UpChain(t, x) : t.parent[a] \in UpChain(t, x) \cup {Nil}
  BY UpClosed
<1> QED  BY <1>1, <1>2 DEF UpChain

\* A chain without n is the same whatever the parent of n is.
LEMMA UpSame ==
    ASSUME NEW t \in Links, NEW u \in Links, NEW n \in NodeId,
           \A y \in NodeId : y # n => u.parent[y] = t.parent[y],
           NEW x \in NodeId, n \notin UpChain(t, x)
    PROVE  UpChain(u, x) = UpChain(t, x)
<1> DEFINE C == UpChain(t, x)
<1>1. C \in SUBSET NodeId /\ x \in C /\ n \notin C
  BY UpSelf DEF UpChain
<1>2. \A y \in C : u.parent[y] \in C \cup {Nil}
  BY <1>1, UpClosed
<1>3. UpChain(u, x) \subseteq C
  BY <1>1, <1>2 DEF UpChain
<1>4. ASSUME NEW S \in SUBSET NodeId, x \in S, \A y \in S : u.parent[y] \in S \cup {Nil}
      PROVE  C \subseteq S
  <2>1. S \cap C \in SUBSET NodeId /\ x \in S \cap C
    BY <1>1, <1>4
  <2>2. \A y \in S \cap C : t.parent[y] \in (S \cap C) \cup {Nil}
    <3>1. \A y \in C : t.parent[y] \in C \cup {Nil}
      BY UpClosed
    <3>2. \A y \in S \cap C : t.parent[y] = u.parent[y]
      BY <1>1
    <3> QED  BY <3>1, <3>2, <1>4
  <2> QED  BY <2>1, <2>2 DEF UpChain
<1>5. C \subseteq UpChain(u, x)
  BY <1>1, <1>4 DEF UpChain
<1> QED  BY <1>3, <1>5

\* A chain through n stays one whatever the parent of n becomes.
LEMMA UpThrough ==
    ASSUME NEW t \in Links, NEW u \in Links, NEW n \in NodeId,
           \A y \in NodeId : y # n => u.parent[y] = t.parent[y],
           NEW x \in NodeId, n \in UpChain(t, x)
    PROVE  n \in UpChain(u, x)
<1> SUFFICES ASSUME NEW S \in SUBSET NodeId, x \in S, n \notin S,
                    \A y \in S : u.parent[y] \in S \cup {Nil}
             PROVE  FALSE
  BY DEF UpChain
<1>1. \A y \in S : t.parent[y] \in S \cup {Nil}
  OBVIOUS
<1> QED  BY <1>1 DEF UpChain

\* In a store closed under the links the chain of a node of the store is there.
LEMMA UpInStore ==
    ASSUME NEW t \in Links, NEW L \in SUBSET NodeId, ClosedIn(t, L), NEW x \in L
    PROVE  UpChain(t, x) \subseteq L
<1>1. \A y \in L : t.parent[y] \in L \cup {Nil}
  BY DEF ClosedIn
<1> QED  BY <1>1 DEF UpChain

\* ... and so is the subtree of a node of the store.
LEMMA SubtreeInStore ==
    ASSUME NEW t \in Links, NEW L \in SUBSET NodeId, ClosedIn(t, L), NEW x \in L
    PROVE  Subtree(t, x) \subseteq L
<1>1. t.first[x] \in L \cup {Nil} /\ ClosedUnderLinks(t, L)
  BY DEF ClosedIn, ClosedUnderLinks
<1> QED  BY <1>1 DEF Subtree, Below

\* Of two ancestors of a node one is an ancestor of the other.
LEMMA UpLinear ==
    ASSUME NEW t \in Links, NEW x \in NodeId, NEW y \in UpChain(t, x), NEW z \in UpChain(t, x)
    PROVE  y \in UpChain(t, z) \/ z \in UpChain(t, y)
<1> SUFFICES ASSUME y \notin UpChain(t, z), z \notin UpChain(t, y) PROVE FALSE
  OBVIOUS
<1> DEFINE S == {w \in NodeId : y \in UpChain(t, w) /\ z \in UpChain(t, w)}
<1>1. x \in S /\ S \in SUBSET NodeId /\ y \in NodeId /\ z \in NodeId
  BY DEF UpChain
<1>2. ASSUME NEW w \in S PROVE t.parent[w] \in S
  <2>1. w # y /\ w # z
    OBVIOUS
  <2>2. t.parent[w] # Nil /\ y \in UpChain(t, t.parent[w]) /\ z \in UpChain(t, t.parent[w])
    BY <2>1, UpStep
  <2>3. t.parent[w] \in NodeId
    BY <2>2 DEF Links, OptNode
  <2> QED  BY <2>2, <2>3
<1>3. y \in S
  BY <1>1, <1>2 DEF UpChain
<1> QED  BY <1>3

\* A node that is nobody's parent is in no chain but its own.
LEMMA UpChildless ==
    ASSUME NEW t \in Links, NEW n \in NodeId, \A y \in NodeId : t.parent[y] # n,
           NEW x \in NodeId, x # n
    PROVE  n \notin UpChain(t, x)
<1>1. /\ NodeId \ {n} \in SUBSET NodeId /\ x \in NodeId \ {n}
      /\ \A y \in NodeId \ {n} : t.parent[y] \in (NodeId \ {n}) \cup {Nil}
  BY DEF Links, OptNode
<1> QED  BY <1>1 DEF UpChain

\* After n was cut from its parent, the chains that still reach an ancestor
\* which is not below n did not pass through n.
LEMMA UpCut ==
    ASSUME NEW t \in Links, NEW u \in Links, NEW n \in NodeId,
           u.parent = [t.parent EXCEPT ![n] = Nil],
           NEW x \in NodeId, NEW r \in UpChain(u, x), n \notin UpChain(t, r)
    PROVE  n \notin UpChain(t, x)
<1> SUFFICES ASSUME n \in UpChain(t, x) PROVE FALSE
  OBVIOUS
<1> DEFINE S == {y \in NodeId : n \in UpChain(t, y)}
<1>1. x \in S /\ S \in SUBSET NodeId
  OBVIOUS
<1>2. ASSUME NEW y \in S PROVE u.parent[y] \in S \cup {Nil}
  <2>1. CASE y = n
    BY <2>1 DEF Links
  <2>2. CASE y # n
    <3>1. u.parent[y] = t.parent[y]
      BY <2>2 DEF Links
    <3>2. t.parent[y] # Nil /\ n \in UpChain(t, t.parent[y])
      BY <2>2, UpStep
    <3>3. t.parent[y] \in NodeId
      BY <3>2 DEF Links, OptNode
    <3> QED  BY <3>1, <3>2, <3>3
  <2> QED  BY <2>1, <2>2
<1>3. r \in S
  BY <1>1, <1>2 DEF UpChain
<1> QED  BY <1>3

-----------------------------------------------------------------------------
(* Cycles of parents.                                                      *)

\* detach_node makes no cycle.
LEMMA DetachAcyclic ==
    ASSUME NEW t \in Links, ParentsAcyclic(t), NEW n \in NodeId
    PROVE  ParentsAcyclic(Detach(t, n))
<1>1. Detach(t, n).parent = [t.parent EXCEPT ![n] = Nil]
  BY DEF Detach
<1>2. SUFFICES ASSUME NEW S \in SUBSET NodeId, S # {},
                      \A x \in S : Detach(t, n).parent[x] \in S
               PROVE FALSE
  BY DEF ParentsAcyclic
<1>3. \A x \in S : t.parent[x] \in S
  BY <1>1, <1>2, NilAssumption DEF Links
<1> QED  BY <1>2, <1>3 DEF ParentsAcyclic

\* Hanging n below a node that is not below n makes no cycle (the check that
\* answers CycleDetected).
LEMMA AttachBetweenAcyclic ==
    ASSUME NEW t \in Links, ParentsAcyclic(t), NEW n \in NodeId, NEW p \in NodeId,
           NEW before, NEW after, n \notin UpChain(t, p)
    PROVE  ParentsAcyclic(AttachBetween(t, n, p, before, after))
<1>1. AttachBetween(t, n, p, before, after).parent = [t.parent EXCEPT ![n] = p]
  BY DEF AttachBetween
<1>2. SUFFICES ASSUME NEW S \in SUBSET NodeId, S # {},
                      \A x \in S : [t.parent EXCEPT ![n] = p][x] \in S
               PROVE FALSE
  BY <1>1 DEF ParentsAcyclic
<1>3. PICK C \in SUBSET NodeId : /\ p \in C /\ n \notin C
                                 /\ \A x \in C : t.parent[x] \in C \cup {Nil}
  BY DEF UpChain
<1>4. CASE n \in S
  <2>1. S \cap C \in SUBSET NodeId /\ S \cap C # {}
    BY <1>2, <1>3, <1>4 DEF Links
  <2>2. \A x \in S \cap C : t.parent[x] \in S \cap C
    BY <1>2, <1>3, NilAssumption DEF Links
  <2> QED  BY <2>1, <2>2 DEF ParentsAcyclic
<1>5. CASE n \notin S
  <2>1. \A x \in S : t.parent[x] \in S
    BY <1>2, <1>5 DEF Links
  <2> QED  BY <2>1, <1>2 DEF ParentsAcyclic
<1> QED  BY <1>4, <1>5

-----------------------------------------------------------------------------
(* Links that agree on the nodes in L: what undo and redo restore.         *)
LinksAgree(t, u, L) ==
    \A x \in L : /\ t.parent[x] = u.parent[x] /\ t.first[x] = u.first[x]
                 /\ t.last[x] = u.last[x] /\ t.prev[x] = u.prev[x] /\ t.next[x] = u.next[x]

\* Agreement passes on from one set of links to the next.
LEMMA AgreeTransitive ==
    ASSUME NEW t, NEW u, NEW v, NEW L, LinksAgree(t, u, L), LinksAgree(u, v, L)
    PROVE  LinksAgree(t, v, L)
BY DEF LinksAgree

\* Links that agree on the store with links that stay in it stay in it too.
LEMMA AgreeClosed ==
    ASSUME NEW t, NEW u, NEW L, LinksAgree(t, u, L), ClosedIn(u, L)
    PROVE  ClosedIn(t, L)
BY DEF LinksAgree, ClosedIn

\* Links that agree on the store still agree when a node of it is unlinked.
LEMMA DetachAgrees ==
    ASSUME NEW t \in Links, NEW u \in Links, NEW L \in SUBSET NodeId, LinksAgree(t, u, L),
           NEW n \in L
    PROVE  LinksAgree(Detach(t, n), Detach(u, n), L)
BY DEF LinksAgree, Detach, Links

\* ... or linked.
LEMMA AttachAgrees ==
    ASSUME NEW t \in Links, NEW u \in Links, NEW L \in SUBSET NodeId, LinksAgree(t, u, L),
           NEW n \in NodeId, NEW p, NEW before, NEW after
    PROVE  LinksAgree(AttachBetween(t, n, p, before, after),
                      AttachBetween(u, n, p, before, after), L)
BY DEF LinksAgree, AttachBetween, Links

\* Linking a node between its former neighbours undoes its unlinking.
LEMMA Relink ==
    ASSUME NEW t \in Links, LinksOK(t), NEW n \in NodeId, t.parent[n] # Nil
    PROVE  LinksAgree(AttachBetween(Detach(t, n), n, t.parent[n], t.prev[n], t.next[n]),
                      t, NodeId)
<1> DEFINE p == t.parent[n]
           b == t.prev[n]
           a == t.next[n]
           d == Detach(t, n)
           u == AttachBetween(d, n, p, b, a)
<1>1. /\ d.parent = [t.parent EXCEPT ![n] = Nil]
      /\ d.first = [x \in NodeId |-> IF x = p /\ b = Nil THEN a ELSE t.first[x]]
      /\ d.last = [x \in NodeId |-> IF x = p /\ a = Nil THEN b ELSE t.last[x]]
      /\ d.prev = [x \in NodeId |-> IF x = n THEN Nil
                                    ELSE IF x = a THEN b ELSE t.prev[x]]
      /\ d.next = [x \in NodeId |-> IF x = n THEN Nil
                                    ELSE IF x = b THEN a ELSE t.next[x]]
  BY DEF Detach
<1>2. t.parent \in [NodeId -> OptNode]
  BY DEF Links
<1>3. /\ b = Nil => t.first[p] = n
      /\ b # Nil => t.next[b] = n
      /\ a = Nil => t.last[p] = n
      /\ a # Nil => t.prev[a] = n
  BY DEF LinksOK, ChainOK
<1> HIDE DEF d
<1>4. /\ u.parent = [d.parent EXCEPT ![n] = p]
      /\ u.first = [x \in NodeId |-> IF x = p /\ b = Nil THEN n ELSE d.first[x]]
      /\ u.last = [x \in NodeId |-> IF x = p /\ a = Nil THEN n ELSE d.last[x]]
      /\ u.prev = [x \in NodeId |-> IF x = n THEN b ELSE IF x = a THEN n ELSE d.prev[x]]
      /\ u.next = [x \in NodeId |-> IF x = n THEN a ELSE IF x = b THEN n ELSE d.next[x]]
  BY DEF AttachBetween
<1> HIDE DEF u
<1> SUFFICES ASSUME NEW x \in NodeId
             PROVE  /\ u.parent[x] = t.parent[x] /\ u.first[x] = t.first[x]
                    /\ u.last[x] = t.last[x] /\ u.prev[x] = t.prev[x] /\ u.next[x] = t.next[x]
  BY DEF LinksAgree, u, d
<1>5. u.parent[x] = t.parent[x]
  BY <1>1, <1>2, <1>4
<1>6. u.first[x] = t.first[x] /\ u.last[x] = t.last[x]
  BY <1>1, <1>3, <1>4
<1>7. u.prev[x] = t.prev[x] /\ u.next[x] = t.next[x]
  BY <1>1, <1>3, <1>4, NilAssumption
<1>. QED
  BY <1>5, <1>6, <1>7

\* Unlinking a node that was linked between adjacent children undoes the linking.
LEMMA Unlink ==
    ASSUME NEW t \in Links, LinksOK(t), NEW n \in NodeId, NEW p \in NodeId, n # p,
           NEW before, NEW after, Adjacent(t, p, before, after), t.parent[n] = Nil
    PROVE  LinksAgree(Detach(AttachBetween(t, n, p, before, after), n), t, NodeId)
<1> DEFINE u == AttachBetween(t, n, p, before, after)
           d == Detach(u, n)
<1>0. EndsOK(t) /\ ChainOK(t)
  BY DEF LinksOK
<1>1. /\ u.parent = [t.parent EXCEPT ![n] = p]
      /\ u.first = [x \in NodeId |-> IF x = p /\ before = Nil THEN n ELSE t.first[x]]
      /\ u.last = [x \in NodeId |-> IF x = p /\ after = Nil THEN n ELSE t.last[x]]
      /\ u.prev = [x \in NodeId |-> IF x = n THEN before ELSE IF x = after THEN n ELSE t.prev[x]]
      /\ u.next = [x \in NodeId |-> IF x = n THEN after ELSE IF x = before THEN n ELSE t.next[x]]
  BY DEF AttachBetween
<1>2. t.parent \in [NodeId -> OptNode] /\ t.prev[n] = Nil /\ t.next[n] = Nil
  BY <1>0 DEF Links, ChainOK
<1>3. before # n /\ after # n
  BY <1>2, NilAssumption DEF Adjacent
<1>4. u.parent[n] = p /\ u.prev[n] = before /\ u.next[n] = after
  BY <1>1, <1>2
<1> HIDE DEF u
<1>5. /\ d.parent = [u.parent EXCEPT ![n] = Nil]
      /\ d.first = [x \in NodeId |-> IF x = p /\ before = Nil THEN after ELSE u.first[x]]
      /\ d.last = [x \in NodeId |-> IF x = p /\ after = Nil THEN before ELSE u.last[x]]
      /\ d.prev = [x \in NodeId |-> IF x = n THEN Nil
                                    ELSE IF x = after THEN before ELSE u.prev[x]]
      /\ d.next = [x \in NodeId |-> IF x = n THEN Nil
                                    ELSE IF x = before THEN after ELSE u.next[x]]
  BY <1>4 DEF Detach
<1> HIDE DEF d
<1> SUFFICES ASSUME NEW x \in NodeId
             PROVE  /\ d.parent[x] = t.parent[x] /\ d.first[x] = t.first[x]
                    /\ d.last[x] = t.last[x] /\ d.prev[x] = t.prev[x] /\ d.next[x] = t.next[x]
  BY DEF LinksAgree, u, d
<1>6. d.parent[x] = t.parent[x]
  BY <1>1, <1>2, <1>5
<1>7. d.first[x] = t.first[x] /\ d.last[x] = t.last[x]
  BY <1>1, <1>5 DEF Adjacent
<1>8. d.prev[x] = t.prev[x] /\ d.next[x] = t.next[x]
  BY <1>1, <1>2, <1>3, <1>5, NilAssumption DEF Adjacent
<1>. QED
  BY <1>6, <1>7, <1>8

\* The former neighbours of an unlinked node are adjacent.
LEMMA DetachAdjacent ==
    ASSUME NEW t \in Links, LinksOK(t), NEW n \in NodeId, t.parent[n] # Nil
    PROVE  /\ Adjacent(Detach(t, n), t.parent[n], t.prev[n], t.next[n])
           /\ t.prev[n] # n /\ t.next[n] # n
<1> DEFINE p == t.parent[n]
           b == t.prev[n]
           a == t.next[n]
           d == Detach(t, n)
<1>1. /\ d.parent = [t.parent EXCEPT ![n] = Nil]
      /\ d.first = [x \in NodeId |-> IF x = p /\ b = Nil THEN a ELSE t.first[x]]
      /\ d.last = [x \in NodeId |-> IF x = p /\ a = Nil THEN b ELSE t.last[x]]
      /\ d.prev = [x \in NodeId |-> IF x = n THEN Nil
                                    ELSE IF x = a THEN b ELSE t.prev[x]]
      /\ d.next = [x \in NodeId |-> IF x = n THEN Nil
                                    ELSE IF x = b THEN a ELSE t.next[x]]
  BY DEF Detach
<1>2. /\ t.parent \in [NodeId -> OptNode] /\ p \in NodeId /\ b \in OptNode /\ a \in OptNode
  BY DEF Links, OptNode
<1>3. /\ b = Nil => t.first[p] = n
      /\ b # Nil => b \in NodeId /\ t.next[b] = n /\ t.parent[b] = p
      /\ a = Nil => t.last[p] = n
      /\ a # Nil => a \in NodeId /\ t.prev[a] = n /\ t.parent[a] = p
  BY <1>2 DEF LinksOK, ChainOK, OptNode
<1>4. b # n
  <2>1. \E x \in {n} : t.prev[x] \notin {n}
    BY DEF LinksOK, NoSiblingRing
  <2>. QED
    BY <2>1
<1>5. a # n
  BY <1>3, <1>4, NilAssumption
<1> HIDE DEF d
<1>6. Adjacent(d, p, b, a)
  BY <1>1, <1>2, <1>3, <1>4, <1>5 DEF Adjacent
<1>. QED
  BY <1>4, <1>5, <1>6 DEF d

\* Adjacency is seen in the links of the store.
LEMMA AdjacentAgrees ==
    ASSUME NEW t, NEW u, NEW L, LinksAgree(t, u, L), NEW p \in L,
           NEW before \in L \cup {Nil}, NEW after \in L \cup {Nil}, Adjacent(u, p, before, after)
    PROVE  Adjacent(t, p, before, after)
BY DEF Adjacent, LinksAgree

\* The historical neighbours are found again while they are adjacent.
LEMMA BoundsFound ==
    ASSUME NEW t, NEW p, NEW L, NEW before \in L \cup {Nil}, NEW after \in L \cup {Nil},
           Adjacent(t, p, before, after)
    PROVE  HistoricalBounds(t, L, p, before, after) = <<before, after>>
BY DEF HistoricalBounds, Adjacent

\* Links that agree on a closed store have the same subtrees there.
LEMMA SubtreeAgrees ==
    ASSUME NEW t \in Links, NEW u \in Links, NEW L \in SUBSET NodeId, LinksAgree(t, u, L),
           ClosedIn(u, L), NEW n \in L
    PROVE  Subtree(t, n) = Subtree(u, n)
<1>1. \A x \in L : /\ u.first[x] \in L \cup {Nil} /\ u.next[x] \in L \cup {Nil}
                   /\ t.first[x] = u.first[x] /\ t.next[x] = u.next[x]
  BY DEF ClosedIn, LinksAgree
<1>2. ASSUME NEW m \in Below(t, n), NEW S \in SUBSET NodeId,
             u.first[n] \in S \cup {Nil}, ClosedUnderLinks(u, S)
      PROVE  m \in S
  <2>1. t.first[n] \in (S \cap L) \cup {Nil} /\ ClosedUnderLinks(t, S \cap L)
    BY <1>1, <1>2 DEF ClosedUnderLinks
  <2>2. S \cap L \in SUBSET NodeId
    OBVIOUS
  <2>. QED
    BY <2>1, <2>2 DEF Below
<1>3. ASSUME NEW m \in Below(u, n), NEW S \in SUBSET NodeId,
             t.first[n] \in S \cup {Nil}, ClosedUnderLinks(t, S)
      PROVE  m \in S
  <2>1. u.first[n] \in (S \cap L) \cup {Nil} /\ ClosedUnderLinks(u, S \cap L)
    BY <1>1, <1>3 DEF ClosedUnderLinks
  <2>2. S \cap L \in SUBSET NodeId
    OBVIOUS
  <2>. QED
    BY <2>1, <2>2 DEF Below
<1>4. Below(t, n) = Below(u, n)
  <2>1. Below(t, n) \subseteq Below(u, n)
    BY <1>2 DEF Below
  <2>2. Below(u, n) \subseteq Below(t, n)
    BY <1>3 DEF Below
  <2>. QED
    BY <2>1, <2>2
<1>. QED
  BY <1>4 DEF Subtree

\* The place of a node is outside its subtree.
LEMMA PlaceOutside ==
    ASSUME NEW t \in Links, LinksOK(t), ParentsAcyclic(t), NEW L \in SUBSET NodeId,
           ClosedIn(t, L), NEW n \in L, t.parent[n] # Nil
    PROVE  /\ t.parent[n] \in L \ Subtree(t, n)
           /\ t.prev[n] \in (L \ Subtree(t, n)) \cup {Nil}
           /\ t.next[n] \in (L \ Subtree(t, n)) \cup {Nil}
<1>1. /\ t.parent[n] \in L
      /\ t.prev[n] \in L \cup {Nil} /\ t.next[n] \in L \cup {Nil}
  BY DEF ClosedIn
<1>2. t.parent[n] \notin Subtree(t, n)
  BY ParentOutsideSubtree
<1>3. t.prev[n] # n /\ t.next[n] # n
  BY DetachAdjacent
<1>4. ASSUME NEW m \in Subtree(t, n), m # n PROVE t.parent[m] \in Subtree(t, n)
  BY <1>4, SubtreeParent
<1>5. /\ t.prev[n] # Nil => t.parent[t.prev[n]] = t.parent[n]
      /\ t.next[n] # Nil => t.parent[t.next[n]] = t.parent[n]
  BY DEF LinksOK, ChainOK
<1>. QED
  BY <1>1, <1>2, <1>3, <1>4, <1>5

\* Unlinking a node leaves the nodes below it as they are.
LEMMA DetachBelow ==
    ASSUME NEW t \in Links, LinksOK(t), ParentsAcyclic(t), NEW n \in NodeId,
           t.parent[n] # Nil, NEW m \in Subtree(t, n)
    PROVE  LET d == Detach(t, n)
           IN  /\ d.first[m] = t.first[m] /\ d.last[m] = t.last[m]
               /\ m # n => /\ d.parent[m] = t.parent[m]
                           /\ d.prev[m] = t.prev[m] /\ d.next[m] = t.next[m]
               /\ d.parent[n] = Nil
<1>1. m \in NodeId
  BY DEF Subtree, Below
<1>2. /\ m # t.parent[n]
      /\ m # n => m # t.prev[n] /\ m # t.next[n]
  <2>1. ClosedIn(t, NodeId)
    BY DEF ClosedIn, Links, OptNode
  <2>2. /\ t.parent[n] \notin Subtree(t, n)
        /\ t.prev[n] \in (NodeId \ Subtree(t, n)) \cup {Nil}
        /\ t.next[n] \in (NodeId \ Subtree(t, n)) \cup {Nil}
    BY <2>1, PlaceOutside
  <2>. QED
    BY <1>1, <2>2, NilAssumption
<1>. QED
  BY <1>1, <1>2 DEF Detach, Links

-----------------------------------------------------------------------------
(* The node graph.                                                         *)

USE RootAssumption, FlagAssumption

\* A key that was never handed out has no parent and no child: what the
\* handlers that take a fresh key from the store rest on.
FreshUnlinked ==
    \A n \in NodeId : slot[n] = "free" =>
        /\ links.parent[n] = Nil
        /\ \A x \in NodeId : links.parent[x] # n

-----------------------------------------------------------------------------
\* The handlers write values of the declared types only.
LEMMA TypeStep == TypeOK /\ [Next]_graph => TypeOK'
<1> SUFFICES ASSUME TypeOK, [Next]_graph PROVE TypeOK'
  OBVIOUS
<1> USE DEF TypeOK, Gens, NoEntry
<1>1. ASSUME NEW n \in NodeId, NEW p \in NodeId, NEW s \in OptNode, NEW e \in BOOLEAN,
             AddNode(n, p, s, e)
      PROVE  TypeOK'
  <2>1. links' \in Links
    BY <1>1, AttachType DEF AddNode
  <2>2. slot' \in [NodeId -> {"free", "live", "detached", "removed"}]
    BY <1>1 DEF AddNode, Insert
  <2>3. enabled' \in [NodeId -> BOOLEAN] /\ gen' = gen /\ nextGen' = nextGen
    BY <1>1 DEF AddNode, Insert
  <2>4. effective' \in [NodeId -> BOOLEAN]
    BY <1>1 DEF AddNode, EffectiveOfNew, WalkEnabled
  <2>5. uuidIndex' \subseteq NodeId \X Gens
    BY <1>1 DEF AddNode, Insert
  <2>6. paramCache' \in [NodeId -> Gens \cup {NoEntry}]
    BY <1>1 DEF AddNode
  <2> QED  BY <2>1, <2>2, <2>3, <2>4, <2>5, <2>6
<1>2. ASSUME NEW n \in NodeId, NEW p \in NodeId, NEW s \in OptNode, NEW e \in BOOLEAN,
             AddNodeRejected(n, p, s, e)
      PROVE  TypeOK'
  BY <1>2 DEF AddNodeRejected, Insert
<1>3. ASSUME NEW n \in NodeId, NEW c \in NodeId, NEW p \in NodeId, NEW s \in OptNode,
             NEW e \in BOOLEAN, AddNodeTree(n, c, p, s, e)
      PROVE  TypeOK'
  <2>1. links' \in Links
    BY <1>3, AttachType, NilAssumption DEF AddNodeTree, OptNode
  <2>2. slot' \in [NodeId -> {"free", "live", "detached", "removed"}]
    BY <1>3 DEF AddNodeTree, Insert
  <2>3. enabled' \in [NodeId -> BOOLEAN] /\ gen' = gen /\ nextGen' = nextGen
    BY <1>3 DEF AddNodeTree, Insert
  <2>4. effective' \in [NodeId -> BOOLEAN]
    BY <1>3 DEF AddNodeTree, EffectiveOfNew, WalkEnabled
  <2>5. uuidIndex' \subseteq NodeId \X Gens
    BY <1>3 DEF AddNodeTree, Insert
  <2>6. paramCache' \in [NodeId -> Gens \cup {NoEntry}]
    BY <1>3 DEF AddNodeTree
  <2> QED  BY <2>1, <2>2, <2>3, <2>4, <2>5, <2>6
<1>4. ASSUME NEW n \in NodeId, RemoveNode(n) PROVE TypeOK'
  <2>1. links' \in Links
    BY <1>4, DetachType DEF RemoveNode
  <2> QED  BY <1>4, <2>1 DEF RemoveNode, RemoveSlots
<1>5. ASSUME NEW n \in NodeId, NEW e \in BOOLEAN, ReplaceNode(n, e) PROVE TypeOK'
  <2>1. nextGen[n] \in Gens /\ nextGen[n] + 1 \in 0..(MaxGen + 1)
    BY <1>5 DEF ReplaceNode
  <2> QED  BY <1>5, <2>1 DEF ReplaceNode, SwapObject
<1>6. ASSUME NEW n \in NodeId, NEW e \in BOOLEAN, PatchMeta(n, e) PROVE TypeOK'
  <2>1. enabled' \in [NodeId -> BOOLEAN]
    BY <1>6 DEF PatchMeta
  <2>2. effective' \in [NodeId -> BOOLEAN]
    BY <1>6 DEF PatchMeta, WalkEnabled
  <2> QED  BY <1>6, <2>1, <2>2 DEF PatchMeta
<1>7. ASSUME NEW n \in NodeId, NEW p \in NodeId, NEW s \in OptNode, MoveNode(n, p, s)
      PROVE  TypeOK'
  <2>1. links' \in Links
    <3>1. Detach(links, n) \in Links
      BY DetachType
    <3>2. Detach(links, n).first[p] \in OptNode
      BY <3>1 DEF Links
    <3> QED
      BY <1>7, <3>1, <3>2, AttachType, AttachBetweenType DEF MoveNode, MovedLinks, OptNode
  <2>2. effective' \in [NodeId -> BOOLEAN]
    BY <1>7 DEF MoveNode, EffectiveAfterMove
  <2> QED  BY <1>7, <2>1, <2>2 DEF MoveNode
<1>8. ASSUME NEW n \in NodeId, NEW p \in NodeId, NEW s \in OptNode, MoveNodeRejected(n, p, s)
      PROVE  TypeOK'
  BY <1>8, DetachType DEF MoveNodeRejected
<1>9. CASE UNCHANGED graph
  BY <1>9 DEF graph
<1> QED  BY SMTT(20), <1>1, <1>2, <1>3, <1>4, <1>5, <1>6, <1>7, <1>8, <1>9 DEF Next

\* The value of every variable keeps its type (Engine::new and every edit).
THEOREM TypeCorrect == Spec => []TypeOK
<1>1. Init => TypeOK
  BY NilAssumption DEF Init, TypeOK, NoLinks, Links, OptNode, Gens, NoEntry
<1> QED  BY <1>1, TypeStep, PTL DEF Spec

-----------------------------------------------------------------------------
(* One lemma per way the handlers rewrite the links.                       *)
LinkInv == links \in Links /\ LinksOK(links) /\ ParentsAcyclic(links)

\* attach_node of a node without parent and children below a node that is
\* not itself: agreement and acyclicity are kept.
LEMMA AttachFresh ==
    ASSUME NEW t \in Links, LinksOK(t), ParentsAcyclic(t),
           NEW n \in NodeId, NEW p \in NodeId, n # p, NEW s \in OptNode,
           t.parent[n] = Nil, \A x \in NodeId : t.parent[x] # n,
           s # Nil => t.parent[s] = p
    PROVE  /\ Attach(t, n, p, s) \in Links
           /\ LinksOK(Attach(t, n, p, s))
           /\ ParentsAcyclic(Attach(t, n, p, s))
           /\ Attach(t, n, p, s).parent = [t.parent EXCEPT ![n] = p]
<1>1. n \notin UpChain(t, p)
  <2>1. NodeId \ {n} \in SUBSET NodeId /\ p \in NodeId \ {n} /\ n \notin NodeId \ {n}
    OBVIOUS
  <2>2. \A x \in NodeId \ {n} : t.parent[x] \in (NodeId \ {n}) \cup {Nil}
    BY DEF Links, OptNode
  <2> QED  BY <2>1, <2>2 DEF UpChain
<1>2. ParentsAcyclic(Attach(t, n, p, s))
  BY <1>1, AttachBetweenAcyclic DEF Attach
<1> QED  BY <1>2, AttachType, AttachLinksOK DEF Attach, AttachBetween

\* apply_move_node after its checks: agreement and acyclicity are kept.
LEMMA MoveKeepsTree ==
    ASSUME LinkInv, NEW n \in NodeId, NEW p \in NodeId, NEW s \in OptNode,
           links.parent[n] # Nil, n \notin UpChain(links, p), s # n,
           s # Nil => links.parent[s] = p
    PROVE  /\ MovedLinks(n, p, s) \in Links
           /\ LinksOK(MovedLinks(n, p, s))
           /\ ParentsAcyclic(MovedLinks(n, p, s))
           /\ MovedLinks(n, p, s).parent = [links.parent EXCEPT ![n] = p]
<1> DEFINE t == Detach(links, n)
<1>1. /\ t \in Links /\ LinksOK(t) /\ ParentsAcyclic(t)
      /\ t.parent = [links.parent EXCEPT ![n] = Nil]
  BY DetachType, DetachLinksOK, DetachAcyclic DEF LinkInv, Detach
<1>2. n # p
  BY UpSelf DEF LinkInv
<1>3. t.parent[n] = Nil /\ (s # Nil => t.parent[s] = p)
  BY <1>1 DEF LinkInv, Links, OptNode
<1>4. n \notin UpChain(t, p)
  <2>1. PICK C \in SUBSET NodeId : /\ p \in C /\ n \notin C
                                   /\ \A x \in C : links.parent[x] \in C \cup {Nil}
    BY DEF UpChain
  <2>2. \A x \in C : t.parent[x] \in C \cup {Nil}
    BY <2>1, <1>1 DEF LinkInv, Links
  <2> QED  BY <2>1, <2>2 DEF UpChain
<1>5. t.first[p] \in OptNode /\ Nil \in OptNode
  BY <1>1 DEF Links, OptNode
<1>6. MovedLinks(n, p, s) \in Links
  BY <1>1, <1>5, AttachType, AttachBetweenType DEF MovedLinks
<1>7. LinksOK(MovedLinks(n, p, s))
  <2>1. CASE s = Nil
    BY <2>1, <1>1, <1>2, <1>3, FirstChildLinksOK DEF MovedLinks
  <2>2. CASE s # Nil
    BY <2>2, <1>1, <1>2, <1>3, AttachLinksOK DEF MovedLinks
  <2> QED  BY <2>1, <2>2
<1>8. ParentsAcyclic(MovedLinks(n, p, s))
  BY <1>1, <1>4, AttachBetweenAcyclic DEF MovedLinks, Attach
<1>9. MovedLinks(n, p, s).parent = [links.parent EXCEPT ![n] = p]
  BY <1>1 DEF MovedLinks, Attach, AttachBetween, LinkInv, Links
<1> QED  BY <1>6, <1>7, <1>8, <1>9

-----------------------------------------------------------------------------
(* The topology part of the invariant, one step per edit handler.          *)
TreeInv == LinkInv /\ FreshUnlinked

\* Every edit keeps the tree a tree.
LEMMA TreeStep == TypeOK /\ TreeInv /\ [Next]_graph => TreeInv'
<1> SUFFICES ASSUME TypeOK, TreeInv, [Next]_graph PROVE TreeInv'
  OBVIOUS
<1>t. links \in Links /\ slot \in [NodeId -> {"free", "live", "detached", "removed"}]
  BY DEF TypeOK
<1>1. ASSUME NEW n \in NodeId, NEW p \in NodeId, NEW s \in OptNode, NEW e \in BOOLEAN,
             AddNode(n, p, s, e)
      PROVE  TreeInv'
  <2>1. /\ slot[n] = "free" /\ slot[p] = "live" /\ n # p
        /\ s # Nil => links.parent[s] = p
        /\ links' = Attach(links, n, p, s)
        /\ slot' = [x \in NodeId |-> IF x \in {n} THEN "live" ELSE slot[x]]
    BY <1>1, <1>t DEF AddNode, Insert, live, SiblingOK
  <2>2. links.parent[n] = Nil /\ \A x \in NodeId : links.parent[x] # n
    BY <2>1 DEF TreeInv, FreshUnlinked
  <2>3. LinkInv' /\ links'.parent = [links.parent EXCEPT ![n] = p]
    BY <2>1, <2>2, AttachFresh DEF TreeInv, LinkInv
  <2>4. FreshUnlinked'
    BY <2>1, <2>3, <1>t DEF FreshUnlinked, TreeInv, Links
  <2> QED  BY <2>3, <2>4 DEF TreeInv
<1>2. ASSUME NEW n \in NodeId, NEW p \in NodeId, NEW s \in OptNode, NEW e \in BOOLEAN,
             AddNodeRejected(n, p, s, e)
      PROVE  TreeInv'
  BY <1>2, <1>t DEF AddNodeRejected, Insert, TreeInv, LinkInv, FreshUnlinked
<1>3. ASSUME NEW n \in NodeId, NEW c \in NodeId, NEW p \in NodeId, NEW s \in OptNode,
             NEW e \in BOOLEAN, AddNodeTree(n, c, p, s, e)
      PROVE  TreeInv'
  <2> DEFINE t == Attach(links, n, p, s)
  <2>1. /\ slot[n] = "free" /\ slot[c] = "free" /\ slot[p] = "live"
        /\ n # p /\ c # p /\ n # c
        /\ s # Nil => links.parent[s] = p
        /\ links' = Attach(t, c, n, Nil)
        /\ slot' = [x \in NodeId |-> IF x \in {n, c} THEN "live" ELSE slot[x]]
    BY <1>3, <1>t DEF AddNodeTree, Insert, live, SiblingOK
  <2>2. /\ links.parent[n] = Nil /\ \A x \in NodeId : links.parent[x] # n
        /\ links.parent[c] = Nil /\ \A x \in NodeId : links.parent[x] # c
    BY <2>1 DEF TreeInv, FreshUnlinked
  <2>3. /\ t \in Links /\ LinksOK(t) /\ ParentsAcyclic(t)
        /\ t.parent = [links.parent EXCEPT ![n] = p]
    BY <2>1, <2>2, AttachFresh DEF TreeInv, LinkInv
  <2>4. t.parent[c] = Nil /\ \A x \in NodeId : t.parent[x] # c
    BY <2>1, <2>2, <2>3, <1>t DEF Links
  <2>5. LinkInv' /\ links'.parent = [t.parent EXCEPT ![c] = n]
    <3> HIDE DEF t
    <3>1. Nil \in OptNode
      BY DEF OptNode
    <3>2. /\ Attach(t, c, n, Nil) \in Links
          /\ LinksOK(Attach(t, c, n, Nil))
          /\ ParentsAcyclic(Attach(t, c, n, Nil))
          /\ Attach(t, c, n, Nil).parent = [t.parent EXCEPT ![c] = n]
      <4>1. c # n /\ t \in Links /\ LinksOK(t) /\ ParentsAcyclic(t)
        BY <2>1, <2>3
      <4> QED  BY <4>1, <2>4, <3>1, AttachFresh
    <3> QED  BY <2>1, <3>2 DEF LinkInv
  <2>6. FreshUnlinked'
    BY <2>1, <2>3, <2>5, <1>t DEF FreshUnlinked, TreeInv, Links
  <2> QED  BY <2>5, <2>6 DEF TreeInv
<1>4. ASSUME NEW n \in NodeId, links.parent[n] # Nil, links' = Detach(links, n),
             \A x \in NodeId : slot'[x] = "free" => slot[x] = "free"
      PROVE  TreeInv'
  <2>1. LinkInv'
    BY <1>4, <1>t, DetachType, DetachLinksOK, DetachAcyclic DEF TreeInv, LinkInv
  <2>2. links'.parent = [links.parent EXCEPT ![n] = Nil]
    BY <1>4 DEF Detach
  <2>3. FreshUnlinked'
    BY <2>2, <1>4, <1>t, NilAssumption DEF FreshUnlinked, TreeInv, Links
  <2> QED  BY <2>1, <2>3 DEF TreeInv
<1>5. ASSUME NEW n \in NodeId, RemoveNode(n) PROVE TreeInv'
  BY <1>4, <1>5, <1>t DEF RemoveNode, RemoveSlots
<1>6. ASSUME NEW n \in NodeId, NEW p \in NodeId, NEW s \in OptNode, MoveNodeRejected(n, p, s)
      PROVE  TreeInv'
  BY <1>4, <1>6 DEF MoveNodeRejected, MoveAllowed
<1>7. ASSUME NEW n \in NodeId, NEW p \in NodeId, NEW s \in OptNode, MoveNode(n, p, s)
      PROVE  TreeInv'
  <2>1. /\ slot[n] = "live" /\ slot[p] = "live" /\ links.parent[n] # Nil
        /\ n \notin UpChain(links, p) /\ s # n
        /\ s # Nil => links.parent[s] = p
        /\ links' = MovedLinks(n, p, s) /\ slot' = slot
    BY <1>7 DEF MoveNode, MoveAllowed, IsDescendant, live, SiblingOK
  <2>2. LinkInv' /\ links'.parent = [links.parent EXCEPT ![n] = p]
    BY <2>1, MoveKeepsTree DEF TreeInv, LinkInv
  <2>3. FreshUnlinked'
    BY <2>1, <2>2, <1>t DEF FreshUnlinked, TreeInv, Links
  <2> QED  BY <2>2, <2>3 DEF TreeInv
<1>8. ASSUME NEW n \in NodeId, NEW e \in BOOLEAN, ReplaceNode(n, e) \/ PatchMeta(n, e)
      PROVE  TreeInv'
  BY <1>8 DEF ReplaceNode, PatchMeta, TreeInv, LinkInv, FreshUnlinked
<1>9. CASE UNCHANGED graph
  BY <1>9 DEF graph, TreeInv, LinkInv, FreshUnlinked
<1> QED  BY <1>1, <1>2, <1>3, <1>5, <1>6, <1>7, <1>8, <1>9 DEF Next

\* A new engine's tree is a root alone.
LEMMA TreeInit == Init => TypeOK /\ TreeInv
<1> SUFFICES ASSUME Init PROVE TypeOK /\ TreeInv
  OBVIOUS
<1>1. TypeOK
  BY NilAssumption DEF Init, TypeOK, NoLinks, Links, OptNode, Gens, NoEntry
<1>2. LinksOK(links) /\ ParentsAcyclic(links)
  BY NilAssumption DEF Init, NoLinks, LinksOK, EndsOK, ChainOK, NoSiblingRing, ParentsAcyclic
<1>3. FreshUnlinked
  BY NilAssumption DEF Init, NoLinks, FreshUnlinked
<1> QED  BY <1>1, <1>2, <1>3 DEF TreeInv, LinkInv, TypeOK

\* Whatever edits arrive, stale sibling references included, the children of
\* every node stay one doubly linked chain (attach_node_between, detach_node).
THEOREM LinksStayConsistent == Spec => []LinksConsistent
<1>1. TypeOK /\ TreeInv => LinksConsistent
  BY DEF TreeInv, LinkInv, LinksConsistent
<1> QED  BY <1>1, TreeInit, TypeStep, TreeStep, PTL DEF Spec

\* Whatever edits arrive, no node becomes its own ancestor, so every parent
\* walk of the engine ends (is_descendant_of, is_effectively_enabled).
THEOREM TreeStaysAcyclic == Spec => []NoParentCycle
<1>1. TypeOK /\ TreeInv => NoParentCycle
  BY DEF TreeInv, LinkInv, NoParentCycle
<1> QED  BY <1>1, TreeInit, TypeStep, TreeStep, PTL DEF Spec

-----------------------------------------------------------------------------
(* The store is closed under the links.                                    *)

\* attach_node_between writes ids of the store only.
LEMMA AttachClosed ==
    ASSUME NEW t \in Links, NEW L \in SUBSET NodeId, ClosedIn(t, L),
           NEW n \in L, NEW p \in L,
           NEW before \in L \cup {Nil}, NEW after \in L \cup {Nil}
    PROVE  ClosedIn(AttachBetween(t, n, p, before, after), L)
BY DEF ClosedIn, AttachBetween, Links

\* detach_node writes ids of the store only.
LEMMA DetachClosed ==
    ASSUME NEW t \in Links, NEW L \in SUBSET NodeId, ClosedIn(t, L), NEW n \in L
    PROVE  ClosedIn(Detach(t, n), L)
BY DEF ClosedIn, Detach, Links

\* attach_node's neighbours are ids of the store.
LEMMA AttachNodeClosed ==
    ASSUME NEW t \in Links, NEW L \in SUBSET NodeId, ClosedIn(t, L),
           NEW n \in L, NEW p \in L, NEW s \in L \cup {Nil}
    PROVE  ClosedIn(Attach(t, n, p, s), L)
<1>1. /\ AttachPrev(t, p, s) \in L \cup {Nil}
      /\ NextAfter(t, p, AttachPrev(t, p, s)) \in L \cup {Nil}
  BY DEF ClosedIn, AttachPrev, NextAfter
<1> QED  BY <1>1, AttachClosed DEF Attach

\* A key that was never handed out has no links at all.
LEMMA FreshNoLinks ==
    ASSUME TreeInv, NEW n \in NodeId, slot[n] = "free"
    PROVE  {links.parent[n], links.first[n], links.last[n],
            links.prev[n], links.next[n]} = {Nil}
<1>1. links.parent[n] = Nil /\ \A x \in NodeId : links.parent[x] # n
  BY DEF TreeInv, FreshUnlinked
<1>2. links.prev[n] = Nil /\ links.next[n] = Nil
  BY <1>1 DEF TreeInv, LinkInv, LinksOK, ChainOK
<1>3. links.first[n] = Nil /\ links.last[n] = Nil
  BY <1>1 DEF TreeInv, LinkInv, LinksOK, EndsOK, Links, OptNode
<1> QED  BY <1>1, <1>2, <1>3

\* Every edit keeps the store closed.
LEMMA StoreStep == TypeOK /\ TreeInv /\ StoreClosed /\ [Next]_graph => StoreClosed'
<1> SUFFICES ASSUME TypeOK, TreeInv, StoreClosed, [Next]_graph PROVE StoreClosed'
  OBVIOUS
<1>t. links \in Links /\ slot \in [NodeId -> {"free", "live", "detached", "removed"}]
  BY DEF TypeOK
<1>c. ClosedIn(links, live) /\ live \in SUBSET NodeId
  BY DEF StoreClosed, live
<1>0. ASSUME NEW new \in SUBSET NodeId, NEW e, Insert(new, e)
      PROVE  live' = live \cup new /\ ClosedIn(links, live \cup new)
  <2>1. live' = live \cup new
    BY <1>0, <1>t DEF Insert, live
  <2>2. \A x \in new : {links.parent[x], links.first[x], links.last[x],
                        links.prev[x], links.next[x]} = {Nil}
    BY <1>0, FreshNoLinks DEF Insert
  <2> QED  BY <2>1, <2>2, <1>c DEF ClosedIn
<1>1. ASSUME NEW n \in NodeId, NEW p \in NodeId, NEW s \in OptNode, NEW e \in BOOLEAN,
             AddNode(n, p, s, e)
      PROVE  StoreClosed'
  <2>1. live' = live \cup {n} /\ ClosedIn(links, live \cup {n})
    BY <1>0, <1>1 DEF AddNode
  <2>2. p \in live /\ s \in live \cup {Nil} /\ links' = Attach(links, n, p, s)
    BY <1>1 DEF AddNode, SiblingOK
  <2>3. ClosedIn(Attach(links, n, p, s), live \cup {n})
    BY <2>1, <2>2, <1>t, <1>c, AttachNodeClosed
  <2> QED  BY <2>1, <2>2, <2>3 DEF StoreClosed
<1>2. ASSUME NEW n \in NodeId, NEW p \in NodeId, NEW s \in OptNode, NEW e \in BOOLEAN,
             AddNodeRejected(n, p, s, e)
      PROVE  StoreClosed'
  BY <1>0, <1>2 DEF AddNodeRejected, StoreClosed
<1>3. ASSUME NEW n \in NodeId, NEW c \in NodeId, NEW p \in NodeId, NEW s \in OptNode,
             NEW e \in BOOLEAN, AddNodeTree(n, c, p, s, e)
      PROVE  StoreClosed'
  <2>1. live' = live \cup {n, c} /\ ClosedIn(links, live \cup {n, c})
    BY <1>0, <1>3 DEF AddNodeTree
  <2>2. /\ p \in live /\ s \in live \cup {Nil}
        /\ links' = Attach(Attach(links, n, p, s), c, n, Nil)
    BY <1>3 DEF AddNodeTree, SiblingOK
  <2>3. Attach(links, n, p, s) \in Links /\ ClosedIn(Attach(links, n, p, s), live \cup {n, c})
    BY <2>1, <2>2, <1>t, <1>c, AttachNodeClosed, AttachType
  <2>4. ClosedIn(Attach(Attach(links, n, p, s), c, n, Nil), live \cup {n, c})
    BY <2>3, <1>c, AttachNodeClosed
  <2> QED  BY <2>1, <2>2, <2>4 DEF StoreClosed
<1>4. ASSUME NEW n \in NodeId, RemoveNode(n) PROVE StoreClosed'
  <2>1. /\ n \in live /\ links.parent[n] # Nil /\ links' = Detach(links, n)
        /\ live' = live \ Subtree(links, n)
    BY <1>4, <1>t DEF RemoveNode, RemoveSlots, live
  <2>2. ClosedIn(Detach(links, n), live)
    BY <2>1, <1>t, <1>c, DetachClosed
  <2>3. \A x \in live \ Subtree(links, n) :
           {links'.parent[x], links'.first[x], links'.last[x],
            links'.prev[x], links'.next[x]} \cap Subtree(links, n) = {}
    BY <2>1, <1>t, <1>c, DetachCutsSubtree DEF TreeInv, LinkInv
  <2> QED  BY <2>1, <2>2, <2>3 DEF StoreClosed, ClosedIn
<1>5. ASSUME NEW n \in NodeId, NEW p \in NodeId, NEW s \in OptNode, MoveNode(n, p, s)
      PROVE  StoreClosed'
  <2>1. /\ n \in live /\ p \in live /\ s \in live \cup {Nil}
        /\ links' = MovedLinks(n, p, s) /\ live' = live
    BY <1>5 DEF MoveNode, MoveAllowed, SiblingOK, live
  <2>2. Detach(links, n) \in Links /\ ClosedIn(Detach(links, n), live)
    BY <2>1, <1>t, <1>c, DetachClosed, DetachType
  <2>3. Detach(links, n).first[p] \in live \cup {Nil}
    BY <2>1, <2>2 DEF ClosedIn
  <2>4. ClosedIn(MovedLinks(n, p, s), live)
    <3>1. CASE s = Nil
      BY <3>1, <2>1, <2>2, <2>3, <1>c, AttachClosed DEF MovedLinks
    <3>2. CASE s # Nil
      BY <3>2, <2>1, <2>2, <1>c, AttachNodeClosed DEF MovedLinks
    <3> QED  BY <3>1, <3>2
  <2> QED  BY <2>1, <2>4 DEF StoreClosed
<1>6. ASSUME NEW n \in NodeId, NEW p \in NodeId, NEW s \in OptNode, MoveNodeRejected(n, p, s)
      PROVE  StoreClosed'
  BY <1>6, <1>t, <1>c, DetachClosed DEF MoveNodeRejected, MoveAllowed, StoreClosed, live
<1>7. ASSUME NEW n \in NodeId, NEW e \in BOOLEAN, ReplaceNode(n, e) \/ PatchMeta(n, e)
      PROVE  StoreClosed'
  BY <1>7 DEF ReplaceNode, PatchMeta, StoreClosed, live
<1>8. CASE UNCHANGED graph
  BY <1>8 DEF graph, StoreClosed, live
<1> QED  BY <1>1, <1>2, <1>3, <1>4, <1>5, <1>6, <1>7, <1>8 DEF Next

\* No link of a node in the store dangles: apply_remove_node takes out exactly
\* the nodes whose parent chain passes through the removed one, and a handler
\* that fails half-way leaves nothing behind that points outside the store.
THEOREM StoreStaysClosed == Spec => []StoreClosed
<1>1. Init => StoreClosed
  BY NilAssumption DEF Init, StoreClosed, ClosedIn, NoLinks, live
<1> QED  BY <1>1, TreeInit, TypeStep, TreeStep, StoreStep, PTL DEF Spec

-----------------------------------------------------------------------------
(* What is in the tree, and the two places that cache by node.             *)

\* The root is in the store and nobody's child: no handler moves, removes or
\* replaces a node without a parent.
RootOnTop == Root \in live /\ links.parent[Root] = Nil

\* No edit takes the root away or gives it a parent.
LEMMA RootStep == TypeOK /\ TreeInv /\ RootOnTop /\ [Next]_graph => RootOnTop'
<1> SUFFICES ASSUME TypeOK, TreeInv, RootOnTop, [Next]_graph PROVE RootOnTop'
  OBVIOUS
<1>t. /\ links \in Links /\ slot \in [NodeId -> {"free", "live", "detached", "removed"}]
      /\ LinkInv
  BY DEF TypeOK, TreeInv
<1>r. slot[Root] = "live" /\ links.parent[Root] = Nil
  BY DEF RootOnTop, live
<1>0. ASSUME NEW new \in SUBSET NodeId, NEW e, Insert(new, e)
      PROVE  slot'[Root] = "live" /\ Root \notin new
  BY <1>0, <1>t, <1>r DEF Insert
<1>1. ASSUME NEW n \in NodeId, NEW p \in NodeId, NEW s \in OptNode, NEW e \in BOOLEAN,
             AddNode(n, p, s, e)
      PROVE  RootOnTop'
  <2>1. links'.parent = [links.parent EXCEPT ![n] = p]
    BY <1>1 DEF AddNode, Attach, AttachBetween
  <2>2. slot'[Root] = "live" /\ Root # n
    BY <1>0, <1>1 DEF AddNode
  <2> QED  BY <2>1, <2>2, <1>t, <1>r DEF RootOnTop, live, Links
<1>2. ASSUME NEW n \in NodeId, NEW p \in NodeId, NEW s \in OptNode, NEW e \in BOOLEAN,
             AddNodeRejected(n, p, s, e)
      PROVE  RootOnTop'
  BY <1>0, <1>2, <1>r DEF AddNodeRejected, RootOnTop, live
<1>3. ASSUME NEW n \in NodeId, NEW c \in NodeId, NEW p \in NodeId, NEW s \in OptNode,
             NEW e \in BOOLEAN, AddNodeTree(n, c, p, s, e)
      PROVE  RootOnTop'
  <2>1. links'.parent = [[links.parent EXCEPT ![n] = p] EXCEPT ![c] = n]
    BY <1>3 DEF AddNodeTree, Attach, AttachBetween
  <2>2. slot'[Root] = "live" /\ Root # n /\ Root # c
    BY <1>0, <1>3 DEF AddNodeTree
  <2> QED  BY <2>1, <2>2, <1>t, <1>r DEF RootOnTop, live, Links
<1>4. ASSUME NEW n \in NodeId, RemoveNode(n) PROVE RootOnTop'
  <2>1. /\ n # Root /\ links.parent[n] # Nil
        /\ links'.parent = [links.parent EXCEPT ![n] = Nil]
        /\ slot' = [m \in NodeId |-> IF m \in Subtree(links, n) THEN "detached" ELSE slot[m]]
    BY <1>4 DEF RemoveNode, RemoveSlots, Detach
  <2>2. Root \notin Subtree(links, n)
    BY <2>1, <1>t, <1>r, SubtreeParent DEF LinkInv
  <2> QED  BY <2>1, <2>2, <1>t, <1>r DEF RootOnTop, live, Links
<1>5. ASSUME NEW n \in NodeId, NEW p \in NodeId, NEW s \in OptNode, MoveNode(n, p, s)
      PROVE  RootOnTop'
  <2>1. n # Root /\ slot' = slot /\ links'.parent[Root] = links.parent[Root]
    BY <1>5, <1>t DEF MoveNode, MoveAllowed, MovedLinks, Attach, AttachBetween, Detach, Links
  <2> QED  BY <2>1, <1>r DEF RootOnTop, live
<1>6. ASSUME NEW n \in NodeId, NEW p \in NodeId, NEW s \in OptNode, MoveNodeRejected(n, p, s)
      PROVE  RootOnTop'
  <2>1. n # Root /\ slot' = slot /\ links'.parent[Root] = links.parent[Root]
    BY <1>6, <1>t DEF MoveNodeRejected, MoveAllowed, Detach, Links
  <2> QED  BY <2>1, <1>r DEF RootOnTop, live
<1>7. ASSUME NEW n \in NodeId, NEW e \in BOOLEAN, ReplaceNode(n, e) \/ PatchMeta(n, e)
      PROVE  RootOnTop'
  BY <1>7, <1>r DEF ReplaceNode, PatchMeta, RootOnTop, live
<1>8. CASE UNCHANGED graph
  BY <1>8, <1>r DEF graph, RootOnTop, live
<1> QED  BY <1>1, <1>2, <1>3, <1>4, <1>5, <1>6, <1>7, <1>8 DEF Next

\* The inductive form of IndexesAgree.  The tree alone is not enough: a node
\* that a rejected move left outside can come back with a later move, so the
\* cache must be right for every node that has a parent.
CachesRight ==
    /\ uuidIndex = {<<n, gen[n]>> : n \in live}
    /\ \A n \in live : n = Root \/ links.parent[n] # Nil => paramCache[n] = gen[n]
    /\ \A n \in NodeId \ live : paramCache[n] = NoEntry

\* Every edit keeps the indexes right.
LEMMA CacheStep ==
    TypeOK /\ TreeInv /\ RootOnTop /\ StoreClosed /\ CachesRight /\ [Next]_graph => CachesRight'
<1> SUFFICES ASSUME TypeOK, TreeInv, RootOnTop, StoreClosed, CachesRight, [Next]_graph
             PROVE  CachesRight'
  OBVIOUS
<1>t. /\ links \in Links /\ slot \in [NodeId -> {"free", "live", "detached", "removed"}]
      /\ gen \in [NodeId -> Gens] /\ paramCache \in [NodeId -> Gens \cup {NoEntry}]
  BY DEF TypeOK
<1>i. uuidIndex = {<<n, gen[n]>> : n \in live}
  BY DEF CachesRight
<1>0. ASSUME NEW new \in SUBSET NodeId, NEW e, Insert(new, e)
      PROVE  /\ live' = live \cup new /\ live \cap new = {} /\ gen' = gen
             /\ uuidIndex' = {<<n, gen[n]>> : n \in live'}
  <2>1. live' = live \cup new /\ live \cap new = {} /\ gen' = gen
    BY <1>0, <1>t DEF Insert, live
  <2>2. uuidIndex' = {<<n, gen[n]>> : n \in live} \cup {<<n, gen[n]>> : n \in new}
    BY <1>0, <1>i DEF Insert
  <2>3. {<<n, gen[n]>> : n \in live} \cup {<<n, gen[n]>> : n \in new}
           = {<<n, gen[n]>> : n \in live \cup new}
    OBVIOUS
  <2> QED  BY <2>1, <2>2, <2>3
<1>1. ASSUME NEW n \in NodeId, NEW p \in NodeId, NEW s \in OptNode, NEW e \in BOOLEAN,
             AddNode(n, p, s, e)
      PROVE  CachesRight'
  <2>1. /\ live' = live \cup {n} /\ n \notin live /\ gen' = gen
        /\ uuidIndex' = {<<m, gen'[m]>> : m \in live'}
    <3>1. {n} \in SUBSET NodeId /\ Insert({n}, e)
      BY <1>1 DEF AddNode
    <3>2. live' = live \cup {n} /\ live \cap {n} = {} /\ gen' = gen
          /\ uuidIndex' = {<<m, gen[m]>> : m \in live'}
      BY <3>1, <1>0
    <3> QED  BY <3>2
  <2>2. /\ paramCache' = [paramCache EXCEPT ![n] = gen[n]]
        /\ links'.parent = [links.parent EXCEPT ![n] = p]
    BY <1>1 DEF AddNode, Attach, AttachBetween
  <2> QED  BY <2>1, <2>2, <1>t DEF CachesRight, Links, live
<1>2. ASSUME NEW n \in NodeId, NEW p \in NodeId, NEW s \in OptNode, NEW e \in BOOLEAN,
             AddNodeRejected(n, p, s, e)
      PROVE  CachesRight'
  <2>1. /\ live' = live \cup {n} /\ n \notin live /\ gen' = gen
        /\ uuidIndex' = {<<m, gen'[m]>> : m \in live'}
        /\ paramCache' = paramCache /\ links' = links
    <3>1. {n} \in SUBSET NodeId /\ Insert({n}, e)
      BY <1>2 DEF AddNodeRejected
    <3>2. live' = live \cup {n} /\ live \cap {n} = {} /\ gen' = gen
          /\ uuidIndex' = {<<m, gen[m]>> : m \in live'}
      BY <3>1, <1>0
    <3> QED  BY <3>2, <1>2 DEF AddNodeRejected
  <2>2. slot[n] = "free"
    BY <1>2 DEF AddNodeRejected, Insert
  <2>3. links.parent[n] = Nil /\ n # Root
    BY <2>1, <2>2 DEF TreeInv, FreshUnlinked, RootOnTop
  <2> QED  BY <2>1, <2>3 DEF CachesRight
<1>3. ASSUME NEW n \in NodeId, NEW c \in NodeId, NEW p \in NodeId, NEW s \in OptNode,
             NEW e \in BOOLEAN, AddNodeTree(n, c, p, s, e)
      PROVE  CachesRight'
  <2>1. /\ live' = live \cup {n, c} /\ n \notin live /\ c \notin live /\ gen' = gen
        /\ uuidIndex' = {<<m, gen'[m]>> : m \in live'}
    <3>1. {n, c} \in SUBSET NodeId /\ Insert({n, c}, e)
      BY <1>3 DEF AddNodeTree
    <3>2. live' = live \cup {n, c} /\ live \cap {n, c} = {} /\ gen' = gen
          /\ uuidIndex' = {<<m, gen[m]>> : m \in live'}
      BY <3>1, <1>0
    <3> QED  BY <3>2
  <2>2. /\ paramCache' = [x \in NodeId |-> IF x \in {n, c} THEN gen[x] ELSE paramCache[x]]
        /\ links'.parent = [[links.parent EXCEPT ![n] = p] EXCEPT ![c] = n]
    BY <1>3 DEF AddNodeTree, Attach, AttachBetween
  <2> QED  BY <2>1, <2>2, <1>t DEF CachesRight, Links, live
<1>4. ASSUME NEW n \in NodeId, RemoveNode(n) PROVE CachesRight'
  <2> DEFINE S == Subtree(links, n)
  <2>1. /\ S \subseteq live /\ gen' = gen
        /\ links'.parent = [links.parent EXCEPT ![n] = Nil]
        /\ uuidIndex' = uuidIndex \ {<<m, gen[m]>> : m \in S}
        /\ paramCache' = [m \in NodeId |-> IF m \in S THEN NoEntry ELSE paramCache[m]]
    BY <1>4 DEF RemoveNode, RemoveSlots, Detach
  <2>2. live' = live \ S
    BY <1>4, <1>t DEF RemoveNode, RemoveSlots, live
  <2>3. n \in S
    BY DEF Subtree
  <2>4. uuidIndex' = {<<m, gen'[m]>> : m \in live'}
    BY <2>1, <2>2, <1>i
  <2>5. \A m \in live' : m = Root \/ links'.parent[m] # Nil => paramCache'[m] = gen'[m]
    BY <2>1, <2>2, <2>3, <1>t DEF CachesRight, Links, live
  <2>6. \A m \in NodeId \ live' : paramCache'[m] = NoEntry
    BY <2>1, <2>2 DEF CachesRight
  <2>7. NoEntry' = NoEntry
    BY DEF NoEntry
  <2> QED  BY <2>4, <2>5, <2>6, <2>7 DEF CachesRight
<1>5. ASSUME NEW n \in NodeId, NEW e \in BOOLEAN, ReplaceNode(n, e) PROVE CachesRight'
  <2>1. /\ n \in live /\ live' = live /\ links' = links
        /\ gen' = [gen EXCEPT ![n] = nextGen[n]]
        /\ uuidIndex' = (uuidIndex \ {<<n, gen[n]>>}) \cup {<<n, nextGen[n]>>}
        /\ paramCache' = [paramCache EXCEPT ![n] = nextGen[n]]
    BY <1>5 DEF ReplaceNode, SwapObject, live
  <2>2. uuidIndex' = {<<m, gen'[m]>> : m \in live'}
    BY <2>1, <1>i, <1>t DEF live
  <2> QED  BY <2>1, <2>2, <1>t DEF CachesRight
<1>6. ASSUME NEW n \in NodeId, links.parent[n] # Nil, live' = live, gen' = gen,
             UNCHANGED <<uuidIndex, paramCache>>,
             \A x \in NodeId : x # n => links'.parent[x] = links.parent[x]
      PROVE  CachesRight'
  BY <1>6 DEF CachesRight, live
<1>7. ASSUME NEW n \in NodeId, NEW p \in NodeId, NEW s \in OptNode, MoveNode(n, p, s)
      PROVE  CachesRight'
  <2>1. \A x \in NodeId : x # n => links'.parent[x] = links.parent[x]
    BY <1>7, <1>t DEF MoveNode, MovedLinks, Attach, AttachBetween, Detach, Links
  <2> QED  BY <1>6, <1>7, <2>1 DEF MoveNode, MoveAllowed, live
<1>8. ASSUME NEW n \in NodeId, NEW p \in NodeId, NEW s \in OptNode, MoveNodeRejected(n, p, s)
      PROVE  CachesRight'
  <2>1. \A x \in NodeId : x # n => links'.parent[x] = links.parent[x]
    BY <1>8, <1>t DEF MoveNodeRejected, Detach, Links
  <2> QED  BY <1>6, <1>8, <2>1 DEF MoveNodeRejected, MoveAllowed, live
<1>9. ASSUME NEW n \in NodeId, NEW e \in BOOLEAN, PatchMeta(n, e) PROVE CachesRight'
  BY <1>9 DEF PatchMeta, CachesRight, live
<1>10. CASE UNCHANGED graph
  BY <1>10 DEF graph, CachesRight, live
<1> QED  BY <1>1, <1>2, <1>3, <1>4, <1>5, <1>7, <1>8, <1>9, <1>10 DEF Next

\* A new engine's root is indexed and cached.
LEMMA CacheInit == Init => RootOnTop /\ StoreClosed /\ CachesRight
<1> SUFFICES ASSUME Init PROVE RootOnTop /\ StoreClosed /\ CachesRight
  OBVIOUS
<1>1. live = {Root}
  BY DEF Init, live
<1>2. RootOnTop /\ StoreClosed
  BY <1>1, NilAssumption DEF Init, RootOnTop, StoreClosed, ClosedIn, NoLinks
<1>3. uuidIndex = {<<n, gen[n]>> : n \in live}
  BY <1>1 DEF Init
<1>4. CachesRight
  BY <1>1, <1>3 DEF Init, CachesRight, NoLinks
<1> QED  BY <1>2, <1>4

\* Whatever edits arrive, uuid_index holds exactly the uuids of the nodes of
\* the store, and parameter_values_cache the current object of every node of
\* the tree and nothing of a node that left (apply_remove_node,
\* apply_replace_node, register_node_uuid).
THEOREM IndexesStayRight == Spec => []IndexesAgree
<1>1. TypeOK /\ TreeInv /\ RootOnTop /\ StoreClosed /\ CachesRight => IndexesAgree
  <2> SUFFICES ASSUME TypeOK, TreeInv, RootOnTop, StoreClosed, CachesRight
               PROVE  IndexesAgree
    OBVIOUS
  <2>1. links \in Links /\ LinksOK(links) /\ ParentsAcyclic(links)
    BY DEF TreeInv, LinkInv
  <2>2. live \in SUBSET NodeId /\ Root \in live /\ ClosedIn(links, live)
    BY DEF RootOnTop, StoreClosed, live
  <2>3. Subtree(links, Root) \subseteq live
    BY <2>1, <2>2, SubtreeInStore
  <2>4. \A n \in Subtree(links, Root) : n = Root \/ links.parent[n] # Nil
    BY <2>1, SubtreeParent
  <2> QED  BY <2>3, <2>4 DEF CachesRight, IndexesAgree
<1> QED  BY <1>1, TreeInit, CacheInit, TypeStep, TreeStep, RootStep, StoreStep, CacheStep, PTL
         DEF Spec

-----------------------------------------------------------------------------
(* No edit that succeeds leaves a node of the store outside the tree.      *)

\* The root is an ancestor of the node.
UnderRoot(n) == Root \in UpChain(links, n)

\* The nodes the child links reach from the root are those whose chain ends there.
LEMMA TreeIsUnderRoot ==
    ASSUME TreeInv, NEW n \in NodeId
    PROVE  n \in Subtree(links, Root) <=> UnderRoot(n)
BY SubtreeIsUnder DEF TreeInv, LinkInv, UnderRoot

\* Nothing is above the root.
LEMMA NotAboveRoot ==
    ASSUME NEW t \in Links, t.parent[Root] = Nil, NEW n \in NodeId, n # Root
    PROVE  n \notin UpChain(t, Root)
BY UpStep

\* What attach_node of a fresh key does to the chains.
LEMMA FreshChains ==
    ASSUME NEW t \in Links, NEW u \in Links, NEW n \in NodeId, NEW p \in NodeId, n # p,
           \A y \in NodeId : t.parent[y] # n,
           u.parent[n] = p, \A y \in NodeId : y # n => u.parent[y] = t.parent[y]
    PROVE  /\ \A x \in NodeId : x # n => UpChain(u, x) = UpChain(t, x)
           /\ UpChain(t, p) \subseteq UpChain(u, n)
<1>2. ASSUME NEW x \in NodeId, x # n PROVE UpChain(u, x) = UpChain(t, x)
  <2>1. n \notin UpChain(t, x)
    BY <1>2, UpChildless
  <2> QED  BY <2>1, UpSame
<1>3. UpChain(u, p) \subseteq UpChain(u, n)
  BY UpChild, NilAssumption
<1> QED  BY <1>2, <1>3

\* The key a handler takes from the store is in nobody's way.
LEMMA InsertedIsFresh ==
    ASSUME TypeOK, TreeInv, NEW new \in SUBSET NodeId, NEW e, Insert(new, e)
    PROVE  /\ live' = live \cup new /\ live \cap new = {}
           /\ \A n \in new : links.parent[n] = Nil /\ \A y \in NodeId : links.parent[y] # n
           /\ gen' = gen
           /\ \A n \in NodeId \ new : enabled'[n] = enabled[n]
BY DEF TypeOK, Insert, live, TreeInv, FreshUnlinked

\* Every edit but a rejected one keeps a whole tree whole.
LEMMA WholeStep ==
    ASSUME TypeOK, TreeInv, RootOnTop, TreeInv', Next, Outside = {}
    PROVE  \/ Outside' = {}
           \/ \E n \in NodeId, p \in NodeId, s \in OptNode :
                 \/ \E e \in BOOLEAN : AddNodeRejected(n, p, s, e)
                 \/ MoveNodeRejected(n, p, s)
<1>l. links \in Links /\ links' \in Links
  BY DEF TreeInv, LinkInv
<1>w. \A x \in live : UnderRoot(x)
  BY TreeIsUnderRoot DEF Outside, live
<1>r. Root \in live /\ links.parent[Root] = Nil
  BY DEF RootOnTop
<1>0. SUFFICES ASSUME ~ \E n \in NodeId, p \in NodeId, s \in OptNode :
                          \/ \E e \in BOOLEAN : AddNodeRejected(n, p, s, e)
                          \/ MoveNodeRejected(n, p, s)
               PROVE  \A x \in live' : UnderRoot(x)'
  <2>1. (\A n \in NodeId : n \in Subtree(links, Root) <=> UnderRoot(n))'
    BY SubtreeIsUnder DEF TreeInv, LinkInv, UnderRoot
  <2>2. live' \subseteq NodeId
    BY DEF live
  <2> QED  BY <2>1, <2>2 DEF Outside
<1>1. ASSUME NEW n \in NodeId, NEW p \in NodeId, NEW s \in OptNode, NEW e \in BOOLEAN,
             AddNode(n, p, s, e)
      PROVE  \A x \in live' : UnderRoot(x)'
  <2>0. Insert({n}, e) /\ {n} \in SUBSET NodeId
    BY <1>1 DEF AddNode
  <2>1. /\ live' = live \cup {n} /\ n \notin live
        /\ \A y \in NodeId : links.parent[y] # n
    BY <2>0, InsertedIsFresh
  <2>2. /\ \A x \in NodeId : x # n => UpChain(links', x) = UpChain(links, x)
        /\ UpChain(links, p) \subseteq UpChain(links', n)
    <3>1. /\ p \in live /\ links'.parent[n] = p
          /\ \A y \in NodeId : y # n => links'.parent[y] = links.parent[y]
      BY <1>1, <1>l DEF AddNode, Attach, AttachBetween, Links
    <3> QED  BY <2>1, <3>1, <1>l, FreshChains
  <2>3. p \in live
    BY <1>1 DEF AddNode
  <2> QED  BY <2>1, <2>2, <2>3, <1>w DEF UnderRoot, live
<1>2. ASSUME NEW n \in NodeId, NEW c \in NodeId, NEW p \in NodeId, NEW s \in OptNode,
             NEW e \in BOOLEAN, AddNodeTree(n, c, p, s, e)
      PROVE  \A x \in live' : UnderRoot(x)'
  <2> DEFINE t == Attach(links, n, p, s)
  <2>0. Insert({n, c}, e) /\ {n, c} \in SUBSET NodeId /\ p \in live /\ n # c
    BY <1>2 DEF AddNodeTree
  <2>1. /\ live' = live \cup {n, c} /\ n \notin live /\ c \notin live
        /\ \A y \in NodeId : links.parent[y] # n /\ links.parent[y] # c
    BY <2>0, InsertedIsFresh
  <2>2. /\ t \in Links
        /\ t.parent[n] = p /\ \A y \in NodeId : y # n => t.parent[y] = links.parent[y]
        /\ links'.parent[c] = n /\ \A y \in NodeId : y # c => links'.parent[y] = t.parent[y]
    <3>1. t \in Links
      BY <1>l, AttachType
    <3>2. t.parent = [links.parent EXCEPT ![n] = p]
      BY DEF Attach, AttachBetween
    <3>3. links'.parent = [t.parent EXCEPT ![c] = n]
      BY <1>2 DEF AddNodeTree, Attach, AttachBetween
    <3> HIDE DEF t
    <3> QED  BY <3>1, <3>2, <3>3, <1>l DEF Links
  <2>3. \A y \in NodeId : t.parent[y] # c
    BY <2>0, <2>1, <2>2, <1>l DEF Links
  <2>4. /\ \A x \in NodeId : x # n => UpChain(t, x) = UpChain(links, x)
        /\ UpChain(links, p) \subseteq UpChain(t, n)
    BY <2>0, <2>1, <2>2, <1>l, FreshChains
  <2>5. /\ \A x \in NodeId : x # c => UpChain(links', x) = UpChain(t, x)
        /\ UpChain(t, n) \subseteq UpChain(links', c)
    BY <2>0, <2>2, <2>3, <1>l, FreshChains
  <2> QED  BY <2>0, <2>1, <2>2, <2>4, <2>5, <1>w DEF UnderRoot, live
<1>3. ASSUME NEW n \in NodeId, RemoveNode(n) PROVE \A x \in live' : UnderRoot(x)'
  <2>1. live' = live \ Subtree(links, n)
    BY <1>3 DEF RemoveNode, RemoveSlots, live, TypeOK
  <2>2. \A y \in NodeId : y # n => links'.parent[y] = links.parent[y]
    BY <1>3, <1>l DEF RemoveNode, Detach, Links
  <2>3. \A x \in live' : n \notin UpChain(links, x)
    BY <2>1, UnderIsInSubtree DEF TreeInv, LinkInv, live
  <2>4. \A x \in live' : UpChain(links', x) = UpChain(links, x)
    BY <2>1, <2>2, <2>3, <1>l, UpSame DEF live
  <2> QED  BY <2>1, <2>4, <1>w DEF UnderRoot
<1>4. ASSUME NEW n \in NodeId, NEW e \in BOOLEAN, ReplaceNode(n, e) \/ PatchMeta(n, e)
      PROVE  \A x \in live' : UnderRoot(x)'
  BY <1>4, <1>w DEF ReplaceNode, PatchMeta, live, UnderRoot
<1>5. ASSUME NEW n \in NodeId, NEW p \in NodeId, NEW s \in OptNode, MoveNode(n, p, s)
      PROVE  \A x \in live' : UnderRoot(x)'
  <2>1. /\ live' = live /\ p \in live /\ n \notin UpChain(links, p)
        /\ \A y \in NodeId : y # n => links'.parent[y] = links.parent[y]
        /\ links'.parent[n] = p
    BY <1>5, <1>l DEF MoveNode, MoveAllowed, IsDescendant, MovedLinks, Attach, AttachBetween,
                      Detach, Links, live
  <2>2. UpChain(links', p) = UpChain(links, p)
    BY <2>1, <1>l, UpSame
  <2>3. Root \in UpChain(links', n)
    BY <2>1, <2>2, <1>w, <1>l, UpChild, NilAssumption DEF UnderRoot
  <2>4. ASSUME NEW x \in live PROVE Root \in UpChain(links', x)
    <3>1. CASE n \in UpChain(links, x)
      <4>1. n \in UpChain(links', x)
        BY <3>1, <2>1, <1>l, UpThrough DEF live
      <4> QED  BY <4>1, <2>3, <1>l, UpTrans DEF live
    <3>2. CASE n \notin UpChain(links, x)
      <4>1. UpChain(links', x) = UpChain(links, x)
        BY <3>2, <2>1, <1>l, UpSame DEF live
      <4> QED  BY <4>1, <1>w DEF UnderRoot
    <3> QED  BY <3>1, <3>2
  <2> QED  BY <2>1, <2>4 DEF UnderRoot
<1> QED  BY <1>0, <1>1, <1>2, <1>3, <1>4, <1>5 DEF Next

\* As long as no edit fails after its first write, every node of the store
\* stays reachable from the root: removals, moves and insertions take the whole
\* subtree along (collect_subtree, detach_node, attach_node).
THEOREM EditsKeepTheTreeWhole == Spec => EveryNodeInTree
<1>1. TypeOK /\ TreeInv /\ RootOnTop /\ TreeInv' /\ [Next]_graph
         => [\/ Outside' = {}
             \/ Outside # {}
             \/ \E n \in NodeId, p \in NodeId, s \in OptNode :
                   \/ \E e \in BOOLEAN : AddNodeRejected(n, p, s, e)
                   \/ MoveNodeRejected(n, p, s)]_graph
  BY WholeStep
<1> QED  BY <1>1, TreeInit, CacheInit, TypeStep, TreeStep, RootStep, PTL
         DEF Spec, EveryNodeInTree

-----------------------------------------------------------------------------
(* The cached flag of is_effectively_enabled.                              *)

\* The flag of one node agrees with meta.enabled up its chain.
FlagRight(x) ==
    (UnderRoot(x) /\ \A a \in UpChain(links, x) : gen[a] = 0)
       => (effective[x] <=> \A a \in UpChain(links, x) : enabled[a])

FlagsRight == \A x \in NodeId : FlagRight(x)

\* An edit that leaves the chain, its flags and the cached flag alone.
LEMMA FlagKept ==
    ASSUME NEW x \in NodeId, FlagRight(x), UpChain(links', x) = UpChain(links, x),
           \A a \in UpChain(links, x) : enabled'[a] = enabled[a] /\ (gen'[a] = 0 => gen[a] = 0),
           effective'[x] = effective[x]
    PROVE  FlagRight(x)'
BY DEF FlagRight, UnderRoot

\* The nodes under the root are in the store, and so are their chains.
LEMMA TreeInStore ==
    ASSUME TreeInv, RootOnTop, StoreClosed, NEW x \in NodeId, UnderRoot(x)
    PROVE  UpChain(links, x) \subseteq live
<1>1. links \in Links /\ live \in SUBSET NodeId /\ Root \in live /\ ClosedIn(links, live)
  BY DEF TreeInv, LinkInv, RootOnTop, StoreClosed, live
<1>2. x \in live
  BY <1>1, TreeIsUnderRoot, SubtreeInStore
<1> QED  BY <1>1, <1>2, UpInStore

\* A handler that computes the flag by the parent walk gets it right.
LEMMA FlagWalked ==
    ASSUME TreeInv, RootOnTop, StoreClosed, NEW x \in NodeId,
           effective[x] = WalkEnabled(links, live, enabled, x)
    PROVE  FlagRight(x)
BY TreeInStore DEF FlagRight, WalkEnabled

\* Inserting nodes that are nobody's parent and walking for each of them.
LEMMA FlagsOfNew ==
    ASSUME TypeOK, TreeInv, RootOnTop, StoreClosed, FlagsRight,
           TreeInv', RootOnTop', StoreClosed',
           NEW new \in SUBSET NodeId, NEW e, Insert(new, e),
           \A x \in NodeId \ new : UpChain(links', x) = UpChain(links, x),
           effective' = EffectiveOfNew(new, links', enabled')
    PROVE  FlagsRight'
<1>1. /\ live' = live \cup new /\ gen' = gen
      /\ \A n \in new : \A y \in NodeId : links.parent[y] # n
      /\ \A n \in NodeId \ new : enabled'[n] = enabled[n]
  BY InsertedIsFresh
<1>2. ASSUME NEW x \in NodeId, x \in new PROVE FlagRight(x)'
  <2>1. effective'[x] = WalkEnabled(links', live', enabled', x)
    BY <1>1, <1>2 DEF EffectiveOfNew
  <2>2. UnderRoot(x)' => UpChain(links', x) \subseteq live'
    <3>1. links' \in Links /\ live' \in SUBSET NodeId /\ Root \in live' /\ ClosedIn(links', live')
      BY DEF TreeInv, LinkInv, RootOnTop, StoreClosed, live
    <3>2. x \in live'
      BY <1>1, <1>2
    <3> QED  BY <3>1, <3>2, UpInStore
  <2> QED  BY <2>1, <2>2 DEF FlagRight, WalkEnabled
<1>3. ASSUME NEW x \in NodeId, x \notin new PROVE FlagRight(x)'
  <2>1. UpChain(links', x) = UpChain(links, x) /\ FlagRight(x)
    BY <1>3 DEF FlagsRight
  <2>2. ASSUME NEW a \in UpChain(links, x) PROVE a \in NodeId \ new
    <3>1. a \in NodeId /\ links \in Links
      BY DEF UpChain, TreeInv, LinkInv
    <3> QED  BY <3>1, <1>1, <1>3, UpChildless
  <2>3. effective'[x] = effective[x]
    BY <1>3 DEF EffectiveOfNew
  <2> QED  BY <2>1, <2>2, <2>3, <1>1, FlagKept
<1> QED  BY <1>2, <1>3 DEF FlagsRight

\* detach_node of a node under the root takes its subtree out of the tree and
\* leaves the other chains alone.
LEMMA FlagsOfCut ==
    ASSUME TreeInv, RootOnTop, FlagsRight, TreeInv', NEW n \in NodeId, n # Root,
           links' = Detach(links, n), UNCHANGED <<enabled, effective, gen>>
    PROVE  FlagsRight'
<1>l. links \in Links /\ links' \in Links
  BY DEF TreeInv, LinkInv
<1>1. links'.parent = [links.parent EXCEPT ![n] = Nil]
  BY DEF Detach
<1>2. \A y \in NodeId : y # n => links'.parent[y] = links.parent[y]
  BY <1>1, <1>l DEF Links
<1>3. n \notin UpChain(links, Root)
  BY <1>l, NotAboveRoot DEF RootOnTop
<1>4. ASSUME NEW x \in NodeId, UnderRoot(x)' PROVE FlagRight(x)'
  <2>1. n \notin UpChain(links, x)
    BY <1>4, <1>1, <1>3, <1>l, UpCut DEF UnderRoot
  <2>2. UpChain(links', x) = UpChain(links, x)
    BY <2>1, <1>2, <1>l, UpSame
  <2> QED  BY <2>2, FlagKept DEF FlagsRight
<1> QED  BY <1>4 DEF FlagsRight, FlagRight

\* Every edit keeps the cached flags right.
LEMMA FlagStep ==
    ASSUME TypeOK, TreeInv, RootOnTop, StoreClosed, FlagsRight, [Next]_graph,
           TreeInv', RootOnTop', StoreClosed'
    PROVE  FlagsRight'
<1>l. links \in Links /\ links' \in Links
  BY DEF TreeInv, LinkInv
<1>f. \A x \in NodeId : FlagRight(x)
  BY DEF FlagsRight
<1>1. ASSUME NEW n \in NodeId, NEW p \in NodeId, NEW s \in OptNode, NEW e \in BOOLEAN,
             AddNode(n, p, s, e)
      PROVE  FlagsRight'
  <2>1. /\ Insert({n}, e) /\ {n} \in SUBSET NodeId
        /\ effective' = EffectiveOfNew({n}, links', enabled')
    BY <1>1 DEF AddNode
  <2>2. n # p /\ \A y \in NodeId : links.parent[y] # n
    BY <1>1, <2>1, InsertedIsFresh DEF AddNode
  <2>3. links'.parent[n] = p /\ \A y \in NodeId : y # n => links'.parent[y] = links.parent[y]
    BY <1>1, <1>l DEF AddNode, Attach, AttachBetween, Links
  <2>4. \A x \in NodeId \ {n} : UpChain(links', x) = UpChain(links, x)
    BY <2>2, <2>3, <1>l, FreshChains
  <2> QED  BY <2>1, <2>4, FlagsOfNew
<1>2. ASSUME NEW n \in NodeId, NEW p \in NodeId, NEW s \in OptNode, NEW e \in BOOLEAN,
             AddNodeRejected(n, p, s, e)
      PROVE  FlagsRight'
  <2>1. /\ Insert({n}, e) /\ {n} \in SUBSET NodeId
        /\ UNCHANGED <<links, effective>>
    BY <1>2 DEF AddNodeRejected
  <2>2. /\ links.parent[n] = Nil /\ \A y \in NodeId : links.parent[y] # n
        /\ gen' = gen /\ n \notin live
        /\ \A x \in NodeId : x # n => enabled'[x] = enabled[x]
    BY <2>1, InsertedIsFresh
  <2>3. ASSUME NEW x \in NodeId, x # n PROVE FlagRight(x)'
    <3>1. \A a \in UpChain(links, x) : a \in NodeId /\ a # n
      BY <2>2, <2>3, <1>l, UpChildless DEF UpChain
    <3> QED  BY <3>1, <2>1, <2>2, <1>f, FlagKept
  <2>4. ~UnderRoot(n)'
    <3>1. Root # n
      BY <2>2 DEF RootOnTop
    <3> QED  BY <3>1, <2>1, <2>2, <1>l, UpStep DEF UnderRoot
  <2> QED  BY <2>3, <2>4 DEF FlagsRight, FlagRight
<1>3. ASSUME NEW n \in NodeId, NEW c \in NodeId, NEW p \in NodeId, NEW s \in OptNode,
             NEW e \in BOOLEAN, AddNodeTree(n, c, p, s, e)
      PROVE  FlagsRight'
  <2> DEFINE t == Attach(links, n, p, s)
  <2>1. /\ Insert({n, c}, e) /\ {n, c} \in SUBSET NodeId
        /\ effective' = EffectiveOfNew({n, c}, links', enabled') /\ p \in live /\ n # c
    BY <1>3 DEF AddNodeTree
  <2>2. /\ n \notin live /\ c \notin live
        /\ \A y \in NodeId : links.parent[y] # n /\ links.parent[y] # c
    BY <2>1, InsertedIsFresh
  <2>3. /\ t \in Links
        /\ t.parent[n] = p /\ \A y \in NodeId : y # n => t.parent[y] = links.parent[y]
        /\ links'.parent[c] = n /\ \A y \in NodeId : y # c => links'.parent[y] = t.parent[y]
    <3>1. t \in Links
      BY <1>l, AttachType
    <3>2. t.parent = [links.parent EXCEPT ![n] = p]
      BY DEF Attach, AttachBetween
    <3>3. links'.parent = [t.parent EXCEPT ![c] = n]
      BY <1>3 DEF AddNodeTree, Attach, AttachBetween
    <3> HIDE DEF t
    <3> QED  BY <3>1, <3>2, <3>3, <1>l DEF Links
  <2>4. \A y \in NodeId : t.parent[y] # c
    BY <2>1, <2>2, <2>3, <1>l DEF Links
  <2>5. \A x \in NodeId : x # n => UpChain(t, x) = UpChain(links, x)
    BY <2>1, <2>2, <2>3, <1>l, FreshChains
  <2>6. \A x \in NodeId : x # c => UpChain(links', x) = UpChain(t, x)
    BY <2>1, <2>3, <2>4, <1>l, FreshChains
  <2>7. \A x \in NodeId \ {n, c} : UpChain(links', x) = UpChain(links, x)
    BY <2>5, <2>6
  <2> QED  BY <2>1, <2>7, FlagsOfNew
<1>4. ASSUME NEW n \in NodeId, RemoveNode(n) PROVE FlagsRight'
  BY <1>4, FlagsOfCut DEF RemoveNode
<1>5. ASSUME NEW n \in NodeId, NEW p \in NodeId, NEW s \in OptNode, MoveNodeRejected(n, p, s)
      PROVE  FlagsRight'
  BY <1>5, FlagsOfCut DEF MoveNodeRejected, MoveAllowed
<1>6. ASSUME NEW n \in NodeId, NEW e \in BOOLEAN, ReplaceNode(n, e) PROVE FlagsRight'
  <2>1. /\ links' = links /\ gen' = [gen EXCEPT ![n] = nextGen[n]]
        /\ enabled' = [enabled EXCEPT ![n] = e] /\ effective' = [effective EXCEPT ![n] = TRUE]
    BY <1>6 DEF ReplaceNode, SwapObject
  <2>2. gen'[n] # 0
    BY <2>1 DEF TypeOK, Gens
  <2>3. ASSUME NEW x \in NodeId, n \notin UpChain(links, x) PROVE FlagRight(x)'
    <3>1. \A a \in UpChain(links, x) : enabled'[a] = enabled[a] /\ gen'[a] = gen[a]
      BY <2>1, <2>3 DEF TypeOK, UpChain
    <3>2. effective'[x] = effective[x]
      BY <2>1, <2>3, <1>l, UpSelf DEF TypeOK
    <3> QED  BY <3>1, <3>2, <2>1, <1>f, FlagKept
  <2> QED  BY <2>1, <2>2, <2>3 DEF FlagsRight, FlagRight
<1>7. ASSUME NEW n \in NodeId, NEW e \in BOOLEAN, PatchMeta(n, e) PROVE FlagsRight'
  <2> DEFINE patched == IF e # enabled[n] THEN Subtree(links, n) ELSE {}
  <2>1. /\ links' = links /\ gen' = gen /\ enabled' = [enabled EXCEPT ![n] = e] /\ live' = live
        /\ effective' = [m \in NodeId |->
              IF m \in patched /\ WalkEnabled(links, live, enabled, m)
                                   # WalkEnabled(links, live, enabled', m)
              THEN WalkEnabled(links, live, enabled', m) ELSE effective[m]]
    BY <1>7 DEF PatchMeta, live
  <2>2. ASSUME NEW x \in NodeId, x \notin patched PROVE FlagRight(x)'
    <3>1. effective'[x] = effective[x]
      BY <2>1, <2>2
    <3>2. n \notin UpChain(links, x) \/ enabled[n] = e
      BY <2>2, UnderIsInSubtree DEF TreeInv, LinkInv
    <3>3. \A a \in UpChain(links, x) : enabled'[a] = enabled[a]
      BY <3>2, <2>1 DEF TypeOK, UpChain
    <3> QED  BY <3>1, <3>3, <2>1, <1>f, FlagKept
  <2>3. ASSUME NEW x \in NodeId, x \in patched PROVE FlagRight(x)'
    <3> SUFFICES ASSUME UnderRoot(x), \A a \in UpChain(links, x) : gen[a] = 0
                 PROVE  effective'[x] <=> \A a \in UpChain(links, x) : enabled'[a]
      BY <2>1 DEF FlagRight, UnderRoot
    <3>1. UpChain(links, x) \subseteq live
      BY TreeInStore
    <3>2. WalkEnabled(links, live, enabled, x) <=> \A a \in UpChain(links, x) : enabled[a]
      BY <3>1 DEF WalkEnabled
    <3>3. WalkEnabled(links, live, enabled', x) <=> \A a \in UpChain(links, x) : enabled'[a]
      BY <3>1 DEF WalkEnabled
    <3>4. effective[x] <=> WalkEnabled(links, live, enabled, x)
      BY <3>2, <1>f DEF FlagRight
    <3> HIDE DEF patched
    <3>5. effective'[x] <=> WalkEnabled(links, live, enabled', x)
      <4>1. CASE WalkEnabled(links, live, enabled, x) # WalkEnabled(links, live, enabled', x)
        BY <4>1, <2>1, <2>3
      <4>2. CASE WalkEnabled(links, live, enabled, x) = WalkEnabled(links, live, enabled', x)
        BY <4>2, <2>1, <2>3, <3>4
      <4> QED  BY <4>1, <4>2
    <3> QED  BY <3>3, <3>5
  <2> QED  BY <2>2, <2>3 DEF FlagsRight
<1>8. ASSUME NEW n \in NodeId, NEW p \in NodeId, NEW s \in OptNode, MoveNode(n, p, s)
      PROVE  FlagsRight'
  <2>1. /\ n # Root /\ n \notin UpChain(links, p)
        /\ UNCHANGED <<enabled, gen, slot>>
        /\ effective' = EffectiveAfterMove(n, p, links')
    BY <1>8 DEF MoveNode, MoveAllowed, IsDescendant
  <2>2. /\ \A y \in NodeId : y # n => links'.parent[y] = links.parent[y]
        /\ links'.parent[n] = p
    BY <1>8, <1>l DEF MoveNode, MovedLinks, Attach, AttachBetween, Detach, Links
  <2>3. ASSUME NEW x \in NodeId, UpChain(links', x) = UpChain(links, x),
               links.parent[n] = p \/ x \notin Subtree(links', n)
        PROVE  FlagRight(x)'
    <3>1. effective'[x] = effective[x]
      BY <2>1, <2>3 DEF EffectiveAfterMove
    <3> QED  BY <3>1, <2>1, <2>3, <1>f, FlagKept
  <2>4. CASE links.parent[n] = p
    <3>1. \A y \in NodeId : links'.parent[y] = links.parent[y]
      BY <2>2, <2>4
    <3>2. \A x \in NodeId : UpChain(links', x) = UpChain(links, x)
      BY <3>1 DEF UpChain
    <3> QED  BY <3>2, <2>3, <2>4 DEF FlagsRight
  <2>5. CASE links.parent[n] # p
    <3>1. ASSUME NEW x \in NodeId, n \notin UpChain(links', x) PROVE FlagRight(x)'
      <4>1. UpChain(links', x) = UpChain(links, x)
        BY <3>1, <2>2, <1>l, UpSame
      <4>2. x \notin Subtree(links', n)
        BY <3>1, SubtreeIsUnder DEF TreeInv, LinkInv
      <4> QED  BY <4>1, <4>2, <2>3
    <3>2. ASSUME NEW x \in NodeId, n \in UpChain(links', x) PROVE FlagRight(x)'
      <4> SUFFICES ASSUME UnderRoot(x)', \A a \in UpChain(links', x) : gen[a] = 0
                   PROVE  effective'[x] <=> \A a \in UpChain(links', x) : enabled[a]
        BY <2>1 DEF FlagRight
      <4>1. Root \in UpChain(links', n)
        <5>1. n \notin UpChain(links', Root)
          BY <2>1, <1>l, NotAboveRoot DEF RootOnTop
        <5> QED  BY <5>1, <3>2, <1>l, UpLinear DEF UnderRoot
      <4>2. Root \in UpChain(links', p)
        BY <4>1, <2>1, <2>2, <1>l, UpStep
      <4>3. UpChain(links', p) = UpChain(links, p)
        BY <2>1, <2>2, <1>l, UpSame
      <4>4. UpChain(links', p) \subseteq UpChain(links', x)
        <5>1. p \in UpChain(links', n)
          BY <2>2, <1>l, UpSelf, UpChild, NilAssumption
        <5>2. p \in UpChain(links', x)
          BY <5>1, <3>2, <1>l, UpTrans
        <5> QED  BY <5>2, <1>l, UpTrans
      <4>5. effective[p] <=> \A a \in UpChain(links', p) : enabled[a]
        BY <4>2, <4>3, <4>4, <1>f DEF FlagRight, UnderRoot
      <4>6. x \in Subtree(links', n)
        BY <3>2, SubtreeIsUnder DEF TreeInv, LinkInv
      <4>7. effective'[x] <=> (effective[p] /\ \A a \in UpChain(links', x) \ UpChain(links', p) :
                                                  enabled[a])
        BY <4>6, <2>1, <2>5 DEF EffectiveAfterMove
      <4> QED  BY <4>4, <4>5, <4>7
    <3> QED  BY <3>1, <3>2 DEF FlagsRight
  <2> QED  BY <2>4, <2>5
<1>9. CASE UNCHANGED graph
  BY <1>9, <1>f DEF graph, FlagsRight, FlagRight, UnderRoot
<1> QED  BY <1>1, <1>2, <1>3, <1>4, <1>5, <1>6, <1>7, <1>8, <1>9 DEF Next

\* Whatever edits arrive, the flag is_enabled(node, true) answers from is the
\* conjunction of meta.enabled up to the root, for every node of the tree whose
\* chain holds no replaced object (apply_move_node's and apply_patch_meta's
\* incremental updates agree with the walk that add_node makes).
THEOREM CachedFlagsStayRight == Spec => []EffectiveAgrees
<1>1. Init => FlagsRight
  <2> SUFFICES ASSUME Init, NEW x \in NodeId PROVE FlagRight(x)
    BY DEF FlagsRight
  <2>1. effective[x] /\ \A a \in UpChain(links, x) : enabled[a]
    BY DEF Init, UpChain
  <2> QED  BY <2>1 DEF FlagRight
<1>2. TypeOK /\ TreeInv /\ RootOnTop /\ StoreClosed /\ FlagsRight => EffectiveAgrees
  <2> SUFFICES ASSUME TypeOK, TreeInv, RootOnTop, StoreClosed, FlagsRight,
                      NEW n \in Subtree(links, Root), \A a \in UpChain(links, n) : gen[a] = 0
               PROVE  effective[n] = WalkEnabled(links, live, enabled, n)
    BY DEF EffectiveAgrees
  <2>1. n \in NodeId
    BY DEF Subtree, Below
  <2>2. UnderRoot(n)
    BY <2>1, TreeIsUnderRoot
  <2>3. effective[n] <=> \A a \in UpChain(links, n) : enabled[a]
    BY <2>1, <2>2 DEF FlagsRight, FlagRight
  <2>4. WalkEnabled(links, live, enabled, n) <=> \A a \in UpChain(links, n) : enabled[a]
    BY <2>1, <2>2, TreeInStore DEF WalkEnabled
  <2>5. effective[n] \in BOOLEAN /\ WalkEnabled(links, live, enabled, n) \in BOOLEAN
    BY <2>1 DEF TypeOK, WalkEnabled
  <2> QED  BY <2>3, <2>4, <2>5
<1> QED  BY <1>1, <1>2, TreeInit, CacheInit, TypeStep, TreeStep, RootStep, StoreStep, FlagStep, PTL
         DEF Spec

=============================================================================
