--------------------------- MODULE FileTree_proofs ---------------------------
(***************************************************************************)
(* Proofs about FileTree: that the tree finds its nodes by their paths,    *)
(* and that the navigator comes to show what is on disk, for every         *)
(* workspace and every number of changes, inputs and objects.              *)
(*                                                                         *)
(* The children of an object are in its directory, one for each path, and  *)
(* they are so however old the object is; two refreshes can only meet in   *)
(* the objects that they reuse.  What an answer leaves as it was is the    *)
(* rest of the tree, and nothing of that rest is at a path that the answer *)
(* touches.                                                                *)
(*                                                                         *)
(* For what is on disk there is a version of each directory, not newer     *)
(* than the last change that the frontend has been told of it: an answer   *)
(* or a node that is not older is right, and an object that shows its      *)
(* children is not older, or is waited for.  Objects that wait hide what   *)
(* is below them, so that only the nodes above can put them into view.     *)
(***************************************************************************)
EXTENDS FileTree, FiniteSetTheorems, SequenceTheorems, WellFoundedInduction, TLAPS

----------------------------------------------------------------------------
(* Paths and nodes in their order.                                         *)

LEMMA Least ==
  ASSUME NEW T \in SUBSET Nat, T # {}
  PROVE  \E n \in T : \A k \in T : n <= k
<1>1. IsWellFoundedOn(OpToRel(<, Nat), Nat)
  BY NatLessThanWellFounded
<1>2. \E n \in T : \A k \in T : <<k, n>> \notin OpToRel(<, Nat)
  BY <1>1, WFMin
<1>3. PICK n \in T : \A k \in T : <<k, n>> \notin OpToRel(<, Nat)
  BY <1>2
<1>4. \A k \in T : ~(k < n)
  BY <1>3 DEF OpToRel
<1>5. \A k \in T : n <= k
  BY <1>4
<1> QED BY <1>5

LEMMA Places == \A p \in Paths : Position(p) \in 1 .. Len(Order) /\ Order[Position(p)] = p
<1>1. Order \in Seq(Paths)
  BY TreeAssumption
<1>2. \A p \in Paths : Position(p) \in DOMAIN Order /\ Order[Position(p)] = p
  BY DEF Position, Paths
<1> QED BY <1>1, <1>2

LEMMA Length == Len(Order) \in Nat
BY TreeAssumption

LEMMA Upward ==
  ASSUME NEW p \in Paths, p # Top
  PROVE  ParentOf[p] \in Paths /\ Position(ParentOf[p]) < Position(p)
BY TreeAssumption

LEMMA Deepest ==
  ASSUME NEW S \in SUBSET Node, S # {}
  PROVE  \E n \in S : \A m \in S : Position(m.path) <= Position(n.path)
<1> DEFINE Height(n) == Len(Order) - Position(n.path)
<1>1. \A n \in S : Position(n.path) \in 1 .. Len(Order) /\ Height(n) \in Nat
  BY Places, Length DEF Node
<1>2. {Height(n) : n \in S} \in SUBSET Nat /\ {Height(n) : n \in S} # {}
  BY <1>1
<1>3. PICK h \in {Height(n) : n \in S} : \A k \in {Height(n) : n \in S} : h <= k
  BY <1>2, Least
<1>4. PICK n \in S : h = Height(n)
  BY <1>3
<1>5. \A m \in S : Height(n) <= Height(m)
  BY <1>3, <1>4
<1>6. \A m \in S : Position(m.path) <= Position(n.path)
  BY <1>1, <1>5, Length
<1> QED BY <1>6

LEMMA HighestPath ==
  ASSUME NEW S \in SUBSET Paths, S # {}
  PROVE  \E p \in S : \A q \in S : Position(p) <= Position(q)
<1>1. \A p \in S : Position(p) \in Nat
  BY Places, Length
<1>2. {Position(p) : p \in S} \in SUBSET Nat /\ {Position(p) : p \in S} # {}
  BY <1>1
<1>3. PICK h \in {Position(p) : p \in S} : \A k \in {Position(p) : p \in S} : h <= k
  BY <1>2, Least
<1>4. PICK p \in S : h = Position(p)
  BY <1>3
<1>5. \A q \in S : Position(p) <= Position(q)
  BY <1>3, <1>4
<1> QED BY <1>5

LEMMA Highest ==
  ASSUME NEW S \in SUBSET Node, S # {}
  PROVE  \E n \in S : \A m \in S : Position(n.path) <= Position(m.path)
<1>1. {n.path : n \in S} \in SUBSET Paths /\ {n.path : n \in S} # {}
  BY DEF Node
<1>2. PICK p \in {n.path : n \in S} : \A q \in {n.path : n \in S} : Position(p) <= Position(q)
  BY <1>1, HighestPath
<1>3. PICK n \in S : n.path = p
  BY <1>2
<1>4. \A m \in S : Position(n.path) <= Position(m.path)
  BY <1>2, <1>3
<1> QED BY <1>4

----------------------------------------------------------------------------
(* What an iteration visits is the least closed set.                       *)

Closed(children, S) == \A m \in S : children[m] \subseteq S

Reached(children, n) == {m \in Node : \A S \in SUBSET Node : n \in S /\ Closed(children, S) => m \in S}

Formed(children) ==
  /\ children \in [Node -> SUBSET Node]
  /\ \A n \in Node : \A c \in children[n] : c.path # Top /\ ParentOf[c.path] = n.path
  /\ \A n \in Node : \A b, c \in children[n] : b.path = c.path => b = c

LEMMA ReachedIs ==
  ASSUME NEW children \in [Node -> SUBSET Node], NEW n \in Node
  PROVE  /\ n \in Reached(children, n) /\ Reached(children, n) \in SUBSET Node
         /\ Closed(children, Reached(children, n))
         /\ \A S \in SUBSET Node : n \in S /\ Closed(children, S) => Reached(children, n) \subseteq S
<1> DEFINE R == Reached(children, n)
<1>1. n \in R /\ R \in SUBSET Node
  BY DEF Reached
<1>2. ASSUME NEW m \in R, NEW c \in children[m] PROVE c \in R
  <2>1. c \in Node
    BY DEF Reached
  <2>2. ASSUME NEW S \in SUBSET Node, n \in S, Closed(children, S) PROVE c \in S
    <3>1. m \in S
      BY <2>2 DEF Reached
    <3> QED BY <2>2, <3>1 DEF Closed
  <2> QED BY <2>1, <2>2 DEF Reached
<1>3. \A S \in SUBSET Node : n \in S /\ Closed(children, S) => R \subseteq S
  BY DEF Reached
<1> HIDE DEF R
<1>4. Closed(children, R)
  BY <1>2 DEF Closed
<1> QED BY <1>1, <1>3, <1>4 DEF R

LEMMA Unfolded ==
  ASSUME NEW children \in [Node -> SUBSET Node], NEW n \in Node
  PROVE  Reached(children, n) = {n} \union UNION {Reached(children, c) : c \in children[n]}
<1> DEFINE U == {n} \union UNION {Reached(children, c) : c \in children[n]}
<1>1. \A c \in children[n] : c \in Node
  OBVIOUS
<1>2. U \in SUBSET Node /\ n \in U
  BY <1>1, ReachedIs
<1>3. ASSUME NEW m \in U PROVE children[m] \subseteq U
  <2>1. CASE m = n
    <3>1. \A c \in children[n] : c \in Reached(children, c)
      BY <1>1, ReachedIs
    <3> QED BY <2>1, <3>1
  <2>2. ASSUME NEW c \in children[n], m \in Reached(children, c) PROVE children[m] \subseteq U
    <3>1. children[m] \subseteq Reached(children, c)
      BY <1>1, <2>2, ReachedIs DEF Closed
    <3> QED BY <3>1
  <2> QED BY <2>1, <2>2
<1>4. Reached(children, n) \subseteq U
  <2> HIDE DEF U
  <2>1. Closed(children, U)
    BY <1>3 DEF Closed
  <2> QED BY <1>2, <2>1, ReachedIs
<1>5. ASSUME NEW c \in children[n] PROVE Reached(children, c) \subseteq Reached(children, n)
  <2>1. c \in Reached(children, n) /\ c \in Node
    BY <1>1, ReachedIs DEF Closed
  <2> QED BY <2>1, ReachedIs
<1>6. U \subseteq Reached(children, n)
  BY <1>5, ReachedIs
<1> QED BY <1>4, <1>6

LEMMA VisitedIsReached ==
  ASSUME NEW children, Formed(children), NEW n \in Node
  PROVE  Visited(children, n) = Reached(children, n)
<1> DEFINE Visits(f) == f = [m \in Node |-> {m} \union UNION {f[c] : c \in children[m]}]
<1>1. children \in [Node -> SUBSET Node]
  BY DEF Formed
<1>2. Visits([m \in Node |-> Reached(children, m)])
  <2> DEFINE g == [m \in Node |-> Reached(children, m)]
  <2>1. ASSUME NEW m \in Node PROVE Reached(children, m) = {m} \union UNION {g[c] : c \in children[m]}
    <3>1. \A c \in children[m] : g[c] = Reached(children, c)
      BY <1>1
    <3>2. {g[c] : c \in children[m]} = {Reached(children, c) : c \in children[m]}
      BY <3>1
    <3> QED BY <1>1, <3>2, Unfolded
  <2> QED BY <2>1
<1>3. PICK f : Visits(f) /\ Visited(children, n) = f[n]
  <2>1. Visited(children, n) = (CHOOSE f : Visits(f))[n]
    BY DEF Visited
  <2>2. Visits(CHOOSE f : Visits(f))
    BY <1>2
  <2> QED BY <2>1, <2>2
<1> DEFINE T == {m \in Node : f[m] # Reached(children, m)}
<1>4. SUFFICES ASSUME T # {} PROVE FALSE
  BY <1>3
<1>5. PICK m \in T : \A k \in T : Position(k.path) <= Position(m.path)
  BY <1>4, Deepest
<1>6. ASSUME NEW c \in children[m] PROVE f[c] = Reached(children, c)
  <2> m \in Node
    BY <1>5
  <2>1. c \in Node /\ c.path \in Paths /\ c.path # Top /\ ParentOf[c.path] = m.path /\ m.path \in Paths
    <3>1. c \in Node /\ c.path # Top /\ ParentOf[c.path] = m.path
      BY <1>1 DEF Formed
    <3> QED BY <3>1 DEF Node
  <2>2. Position(m.path) < Position(c.path)
    BY <2>1, Upward
  <2>3. c \notin T
    BY <1>5, <2>1, <2>2, Places, Length
  <2> QED BY <2>1, <2>3
<1>7. f[m] = {m} \union UNION {f[c] : c \in children[m]}
  BY <1>3
<1>8. {f[c] : c \in children[m]} = {Reached(children, c) : c \in children[m]}
  BY <1>6
<1>9. f[m] = Reached(children, m)
  BY <1>1, <1>7, <1>8, Unfolded
<1> QED BY <1>5, <1>9
LEMMA FormedIs ==
  ASSUME NEW children, Formed(children), NEW n \in Node, NEW c \in children[n]
  PROVE  /\ c \in Node /\ c.path \in Paths /\ n.path \in Paths
         /\ c.path # Top /\ ParentOf[c.path] = n.path /\ Position(n.path) < Position(c.path)
<1>1. c \in Node /\ c.path # Top /\ ParentOf[c.path] = n.path
  BY DEF Formed
<1>2. c.path \in Paths /\ n.path \in Paths
  BY <1>1 DEF Node
<1> QED BY <1>1, <1>2, Upward

LEMMA ReachedType == ASSUME NEW children, NEW n PROVE Reached(children, n) \in SUBSET Node
BY DEF Reached

LEMMA OverParent ==
  ASSUME NEW children, Formed(children), NEW n \in Node, NEW m \in Reached(children, n), m # n
  PROVE  \E k \in Reached(children, n) : m \in children[k]
<1> DEFINE R == Reached(children, n)
           S == {n} \union UNION {children[k] : k \in R}
<1>1. children \in [Node -> SUBSET Node]
  BY DEF Formed
<1>2. n \in R /\ R \in SUBSET Node /\ Closed(children, R)
  BY <1>1, ReachedIs
<1>3. S \in SUBSET Node /\ n \in S /\ S \subseteq R
  BY <1>1, <1>2 DEF Closed
<1>4. Closed(children, S)
  BY <1>3 DEF Closed
<1>5. m \in S
  <2> HIDE DEF S
  <2> QED BY <1>1, <1>3, <1>4, ReachedIs
<1> QED BY <1>5

LEMMA Lower ==
  ASSUME NEW children, Formed(children), NEW n \in Node, NEW m \in Reached(children, n)
  PROVE  m = n \/ Position(n.path) < Position(m.path)
<1> DEFINE S == {k \in Node : k = n \/ Position(n.path) < Position(k.path)}
<1>1. children \in [Node -> SUBSET Node]
  BY DEF Formed
<1>2. ASSUME NEW k \in S, NEW c \in children[k] PROVE c \in S
  <2>1. c \in Node /\ c.path \in Paths /\ k.path \in Paths /\ Position(k.path) < Position(c.path)
    BY <1>1, FormedIs
  <2>2. n.path \in Paths
    BY DEF Node
  <2> QED BY <2>1, <2>2, Places, Length
<1>3. S \in SUBSET Node /\ n \in S
  OBVIOUS
<1> HIDE DEF S
<1>4. m \in S
  BY <1>1, <1>2, <1>3, ReachedIs DEF Closed
<1> QED BY <1>4 DEF S

\* An object that is reached is the only one of its path.
LEMMA OnePerPath ==
  ASSUME NEW children, Formed(children), NEW n \in Node
  PROVE  \A a, b \in Reached(children, n) : a.path = b.path => a = b
<1> DEFINE R == Reached(children, n)
           T == {a \in R : \E b \in R : a.path = b.path /\ a # b}
<1>1. R \in SUBSET Node
  BY ReachedType
<1>2. SUFFICES ASSUME T # {} PROVE FALSE
  OBVIOUS
<1>3. PICK a \in T : \A k \in T : Position(a.path) <= Position(k.path)
  BY <1>1, <1>2, Highest
<1>4. PICK b \in R : a.path = b.path /\ a # b
  OBVIOUS
<1>5. a \in Node /\ b \in Node /\ a.path \in Paths /\ n.path \in Paths
  BY <1>1, <1>4 DEF Node
<1>6. a # n /\ b # n
  <2>1. (a = n \/ Position(n.path) < Position(a.path)) /\ (b = n \/ Position(n.path) < Position(b.path))
    BY <1>4, Lower
  <2> QED BY <1>4, <1>5, <2>1, Places, Length
<1>7. PICK k \in R : a \in children[k]
  BY <1>6, OverParent
<1>8. PICK l \in R : b \in children[l]
  BY <1>4, <1>6, OverParent
<1>9. k.path = l.path /\ Position(k.path) < Position(a.path)
  <2>1. ParentOf[a.path] = k.path /\ ParentOf[b.path] = l.path /\ Position(k.path) < Position(a.path)
    BY <1>1, <1>7, <1>8, FormedIs
  <2> QED BY <1>4, <2>1
<1>10. k \in Node /\ k.path \in Paths
  BY <1>1, <1>7 DEF Node
<1>11. k \notin T
  BY <1>3, <1>5, <1>9, <1>10, Places, Length
<1>12. k = l
  BY <1>7, <1>8, <1>9, <1>11
<1> QED BY <1>1, <1>4, <1>7, <1>8, <1>12 DEF Formed

\* What is below n in one tree has its place below n in another, too.
LEMMA SamePlace ==
  ASSUME NEW before, Formed(before), NEW after, Formed(after), NEW r \in Node,
         NEW n \in Reached(after, r)
  PROVE  \A k \in Reached(before, n), m \in Reached(after, r) : m.path = k.path => m \in Reached(after, n)
<1> DEFINE B == Reached(before, n)
           R == Reached(after, r)
           A == Reached(after, n)
           T == {k \in B : \E m \in R : m.path = k.path /\ m \notin A}
<1>1. B \in SUBSET Node /\ R \in SUBSET Node /\ n \in Node
  BY ReachedType
<1>2. SUFFICES ASSUME T # {} PROVE FALSE
  OBVIOUS
<1>3. PICK k \in T : \A j \in T : Position(k.path) <= Position(j.path)
  BY <1>1, <1>2, Highest
<1>4. PICK m \in R : m.path = k.path /\ m \notin A
  OBVIOUS
<1>5. after \in [Node -> SUBSET Node] /\ before \in [Node -> SUBSET Node]
  BY DEF Formed
<1>6. n \in A /\ Closed(after, A)
  BY <1>1, <1>5, ReachedIs
<1>7. k # n
  BY <1>4, <1>6, OnePerPath
<1>8. PICK j \in B : k \in before[j]
  BY <1>1, <1>7, OverParent
<1>9. k \in Node /\ j \in Node /\ m \in Node /\ j.path \in Paths /\ k.path \in Paths /\ n.path \in Paths /\ r.path \in Paths
  BY <1>1, <1>4, <1>8 DEF Node
<1>10. ParentOf[k.path] = j.path /\ Position(j.path) < Position(k.path)
  BY <1>8, <1>9, FormedIs
<1>11. m # r
  <2>1. n = r \/ Position(r.path) < Position(n.path)
    BY Lower
  <2>2. Position(n.path) < Position(k.path)
    BY <1>1, <1>7, Lower
  <2> QED BY <1>4, <1>9, <2>1, <2>2, Places, Length
<1>12. PICK l \in R : m \in after[l]
  BY <1>4, <1>11, OverParent
<1>13. l.path = j.path
  <2>1. l \in Node /\ ParentOf[m.path] = l.path
    BY <1>1, <1>12, FormedIs
  <2> QED BY <1>4, <1>10, <2>1
<1>14. j \notin T
  BY <1>3, <1>9, <1>10, Places, Length
<1>15. l \in A
  BY <1>8, <1>12, <1>13, <1>14
<1> QED BY <1>4, <1>6, <1>12, <1>15 DEF Closed

\* When the children of n are replaced, what is reached changes below n only.
LEMMA OtherChildren ==
  ASSUME NEW before, Formed(before), NEW after, Formed(after), NEW r \in Node, NEW n \in Node,
         \A m \in Node : m # n => after[m] = before[m]
  PROVE  /\ n \notin Reached(before, r) => Reached(after, r) \subseteq Reached(before, r)
         /\ n \in Reached(before, r) => n \in Reached(after, r)
         /\ Reached(after, r) \subseteq Reached(before, r) \union Reached(after, n)
<1>1. after \in [Node -> SUBSET Node] /\ before \in [Node -> SUBSET Node]
  BY DEF Formed
<1> DEFINE B == Reached(before, r)
           A == Reached(after, r)
           N == Reached(after, n)
           S == {m \in Node : m \in A \/ Position(n.path) < Position(m.path)}
<1>2. B \in SUBSET Node /\ A \in SUBSET Node /\ N \in SUBSET Node
  BY ReachedType
<1>3. r \in B /\ Closed(before, B) /\ r \in A /\ Closed(after, A) /\ n \in N /\ Closed(after, N)
  BY <1>1, ReachedIs
<1>4. ASSUME n \notin B PROVE A \subseteq B
  <2>1. Closed(after, B)
    BY <1>2, <1>3, <1>4 DEF Closed
  <2> QED BY <1>1, <1>2, <1>3, <2>1, ReachedIs
<1>5. A \subseteq B \union N
  <2>1. Closed(after, B \union N)
    <3>1. ASSUME NEW m \in B \union N PROVE after[m] \subseteq B \union N
      <4>1. CASE m \in N
        BY <1>3, <4>1 DEF Closed
      <4>2. CASE m \in B /\ m # n
        BY <1>2, <1>3, <4>2 DEF Closed
      <4>3. CASE m = n
        BY <1>3, <4>3 DEF Closed
      <4> QED BY <4>1, <4>2, <4>3
    <3> QED BY <3>1 DEF Closed
  <2> QED BY <1>1, <1>2, <1>3, <2>1, ReachedIs
<1>6. ASSUME n \in B PROVE n \in A
  <2>1. ASSUME NEW m \in S PROVE before[m] \subseteq S
    <3>1. SUFFICES ASSUME NEW c \in before[m] PROVE c \in S
      OBVIOUS
    <3>2. m \in Node /\ c \in Node /\ c.path \in Paths /\ m.path \in Paths /\ n.path \in Paths
          /\ Position(m.path) < Position(c.path)
      <4>1. m \in Node
        OBVIOUS
      <4>2. n.path \in Paths
        BY DEF Node
      <4> QED BY <3>1, <4>1, <4>2, FormedIs
    <3>3. CASE Position(n.path) < Position(m.path)
      BY <3>2, <3>3, Places, Length
    <3>4. CASE m \in A /\ m # n
      <4>1. c \in A
        BY <1>3, <3>2, <3>4 DEF Closed
      <4> QED BY <3>2, <4>1
    <3>5. CASE m = n
      BY <3>2, <3>5
    <3> QED BY <3>3, <3>4, <3>5
  <2>2. S \in SUBSET Node /\ r \in S
    BY <1>3
  <2> HIDE DEF S
  <2>3. n \in S
    BY <1>1, <1>6, <2>1, <2>2, ReachedIs DEF Closed
  <2>4. ~(Position(n.path) < Position(n.path))
    <3>1. n.path \in Paths
      BY DEF Node
    <3> QED BY <3>1, Places, Length
  <2> QED BY <2>3, <2>4 DEF S
<1> QED BY <1>4, <1>5, <1>6

----------------------------------------------------------------------------
(* Values of the tree.                                                     *)

Trees == [root : Node \union {NoNode}, nodes : [Paths -> Node \union {NoNode}],
          children : [Node -> SUBSET Node], parent : [Node -> Node \union {NoNode}],
          expanded : SUBSET Node, created : [Paths -> Nat]]

\* The objects that have been made.
Made(t) == {n \in Node : n.gen <= t.created[n.path]}

\* Parents are in the directory above, or there are none.
Parented(parent) ==
  \A m \in Node : \/ parent[m] = NoNode
                  \/ parent[m] \in Node /\ m.path # Top /\ parent[m].path = ParentOf[m.path]

\* The map has objects under their own paths, and the children of an object are one for each path in
\* its directory.
Good(t) ==
  /\ t \in Trees
  /\ t.root.path = Top /\ Parented(t.parent)
  /\ t.root \in Made(t) \union {NoNode}
  /\ \A p \in Paths : t.nodes[p] = NoNode \/ (t.nodes[p] \in Made(t) /\ t.nodes[p].path = p)
  /\ Formed(t.children)
  /\ \A n \in Node : t.children[n] \subseteq Made(t)

Mapped(t, S) == \A n \in S : t.nodes[n.path] = n

LEMMA NoNodeIs == NoNode \notin Node /\ NoNode.path = Top /\ NoNode.gen = 0
BY DEF NoNode, Node

LEMMA NodeIs == \A n \in Node : n.path \in Paths /\ n.gen \in 1 .. MaxObjects /\ n = [path |-> n.path, gen |-> n.gen]
BY DEF Node

ReplacedBy(t, removed, added, nodes) ==
  /\ nodes \in [Paths -> Node \union {NoNode}]
  /\ \A n \in added : nodes[n.path] = n
  /\ \A p \in Paths :
       /\ (\A n \in added \union removed : n.path # p) => nodes[p] = t.nodes[p]
       /\ nodes[p] = NoNode \/ nodes[p] = t.nodes[p] \/ nodes[p] \in added
       /\ nodes[p] = NoNode \/ nodes[p].path = p

LEMMA ReplaceIs ==
  ASSUME NEW t, Good(t), NEW removed \in SUBSET Node, NEW added \in SUBSET Node,
         \A a, b \in added : a.path = b.path => a = b
  PROVE  ReplacedBy(t, removed, added, Replace(t, removed, added))
<1> DEFINE nodes == Replace(t, removed, added)
<1>1. nodes = [p \in Paths |-> nodes[p]]
  BY DEF Replace
<1>2. ASSUME NEW n \in added PROVE nodes[n.path] = n
  <2>1. n.path \in Paths
    BY NodeIs
  <2>2. nodes[n.path] = CHOOSE m \in added : m.path = n.path
    BY <2>1 DEF Replace
  <2>3. (CHOOSE m \in added : m.path = n.path) \in added /\ (CHOOSE m \in added : m.path = n.path).path = n.path
    OBVIOUS
  <2> QED BY <2>2, <2>3
<1>3. ASSUME NEW p \in Paths, \A n \in added \union removed : n.path # p PROVE nodes[p] = t.nodes[p]
  BY <1>3 DEF Replace
<1>4. ASSUME NEW p \in Paths
      PROVE  /\ nodes[p] = NoNode \/ nodes[p] = t.nodes[p] \/ nodes[p] \in added
             /\ nodes[p] = NoNode \/ nodes[p].path = p
             /\ nodes[p] \in Node \union {NoNode}
  <2>1. CASE \E n \in added : n.path = p
    BY <1>2, <2>1
  <2>2. CASE ~\E n \in added : n.path = p
    <3>1. nodes[p] = NoNode \/ nodes[p] = t.nodes[p]
      BY <2>2 DEF Replace
    <3>2. t.nodes[p] = NoNode \/ (t.nodes[p] \in Node /\ t.nodes[p].path = p)
      BY DEF Good, Made
    <3> QED BY <3>1, <3>2
  <2> QED BY <2>1, <2>2
<1> HIDE DEF nodes
<1>5. nodes \in [Paths -> Node \union {NoNode}]
  BY <1>1, <1>4
<1> QED BY <1>2, <1>3, <1>4, <1>5 DEF nodes, ReplacedBy

LEMMA SubtreeIs ==
  ASSUME NEW t, Good(t), NEW n \in Node
  PROVE  /\ Subtree(t, n) = Reached(t.children, n) /\ Subtree(t, n) \in SUBSET Node
         /\ n \in Subtree(t, n) /\ Closed(t.children, Subtree(t, n))
         /\ \A a, b \in Subtree(t, n) : a.path = b.path => a = b
<1>1. Formed(t.children) /\ t.children \in [Node -> SUBSET Node]
  BY DEF Good, Formed
<1> QED BY <1>1, VisitedIsReached, ReachedIs, OnePerPath DEF Subtree

LEMMA MadeBelow ==
  ASSUME NEW t, Good(t), NEW n \in Made(t)
  PROVE  Subtree(t, n) \in SUBSET Made(t)
<1>1. n \in Node /\ Made(t) \in SUBSET Node
  BY DEF Made
<1>2. t.children \in [Node -> SUBSET Node] /\ \A m \in Node : t.children[m] \subseteq Made(t)
  BY DEF Good, Formed
<1>3. Closed(t.children, Made(t))
  BY <1>1, <1>2 DEF Closed
<1> QED BY <1>1, <1>2, <1>3, SubtreeIs, ReachedIs

LEMMA SetRootIs ==
  ASSUME NEW t, Good(t), NEW n \in Made(t), n.path = Top
  PROVE  /\ Good(SetRoot(t, n)) /\ Mapped(SetRoot(t, n), InTree(SetRoot(t, n)))
         /\ SetRoot(t, n).root = n /\ SetRoot(t, n).children = t.children
         /\ SetRoot(t, n).expanded = t.expanded /\ SetRoot(t, n).created = t.created
<1> DEFINE u == SetRoot(t, n)
           empty == [t EXCEPT !.nodes = [p \in Paths |-> NoNode]]
<1>1. n \in Node /\ n # NoNode
  BY NoNodeIs DEF Made
<1>2. Good(empty)
  BY DEF Good, Trees, Made
<1>3. /\ Subtree(t, n) \in SUBSET Made(t) /\ Subtree(t, n) \in SUBSET Node
      /\ \A a, b \in Subtree(t, n) : a.path = b.path => a = b
  BY <1>1, MadeBelow, SubtreeIs
<1>4. u = [t EXCEPT !.root = n, !.nodes = Replace(empty, {}, Subtree(t, n))]
  BY DEF SetRoot
<1>5. /\ \A m \in Subtree(t, n) : Replace(empty, {}, Subtree(t, n))[m.path] = m
      /\ Replace(empty, {}, Subtree(t, n)) \in [Paths -> Node \union {NoNode}]
      /\ \A p \in Paths : LET m == Replace(empty, {}, Subtree(t, n))[p]
                          IN  m = NoNode \/ (m \in Subtree(t, n) /\ m.path = p)
  <2> HIDE DEF empty
  <2>1. \A p \in Paths : empty.nodes[p] = NoNode
    BY DEF empty, Good, Trees
  <2>2. ReplacedBy(empty, {}, Subtree(t, n), Replace(empty, {}, Subtree(t, n)))
    BY <1>2, <1>3, ReplaceIs
  <2> QED BY <2>1, <2>2 DEF ReplacedBy
<1> HIDE DEF empty
<1>6. t = [root |-> t.root, nodes |-> t.nodes, children |-> t.children, parent |-> t.parent,
           expanded |-> t.expanded, created |-> t.created]
      /\ t \in Trees
  BY DEF Good, Trees
<1>7. u = [root |-> n, nodes |-> Replace(empty, {}, Subtree(t, n)), children |-> t.children, parent |-> t.parent,
           expanded |-> t.expanded, created |-> t.created]
  BY <1>4, <1>6
<1> HIDE DEF u
<1>8. u.root = n /\ u.nodes = Replace(empty, {}, Subtree(t, n)) /\ u.children = t.children /\ u.created = t.created
      /\ u.parent = t.parent
  BY <1>7
<1>9. Made(u) = Made(t)
  BY <1>8 DEF Made
<1>10. u \in Trees
  BY <1>1, <1>5, <1>6, <1>7 DEF Trees
<1>11. Good(u)
  <2>1. u.root \in Made(u) \union {NoNode}
    BY <1>8, <1>9
  <2>2. \A p \in Paths : u.nodes[p] = NoNode \/ (u.nodes[p] \in Made(u) /\ u.nodes[p].path = p)
    BY <1>3, <1>5, <1>8, <1>9
  <2>3. Formed(u.children) /\ \A m \in Node : u.children[m] \subseteq Made(u)
    BY <1>8, <1>9 DEF Good
  <2>4. u.root.path = Top /\ Parented(u.parent)
    BY <1>8 DEF Good
  <2> QED BY <1>10, <2>1, <2>2, <2>3, <2>4 DEF Good
<1>12. InTree(u) = Subtree(t, n)
  BY <1>1, <1>8 DEF InTree, Subtree
<1>13. Mapped(u, InTree(u))
  BY <1>5, <1>8, <1>12 DEF Mapped
<1>14. u.root = n /\ u.children = t.children /\ u.expanded = t.expanded /\ u.created = t.created
  BY <1>7
<1> QED BY <1>11, <1>13, <1>14 DEF u

Kids(t, paths) == {IF p \in {q \in paths : t.nodes[q] = NoNode} THEN Fresh(t, p) ELSE t.nodes[p] : p \in paths}

\* A refresh of n brings these paths.
Fits(t, n, paths) ==
  /\ paths \subseteq {q \in Paths \ {Top} : ParentOf[q] = n.path}
  /\ \A p \in paths : t.nodes[p] = NoNode => t.created[p] < MaxObjects

LEMMA KidsAre ==
  ASSUME NEW t, Good(t), NEW n \in Node, NEW paths, Fits(t, n, paths)
  PROVE  /\ Kids(t, paths) \in SUBSET Node
         /\ \A c \in Kids(t, paths) : c.path \in paths /\ (c \in Made(t) \/ (c = Fresh(t, c.path) /\ t.nodes[c.path] = NoNode))
         /\ \A b, c \in Kids(t, paths) : b.path = c.path => b = c
         /\ {c.path : c \in Kids(t, paths)} = paths
<1> DEFINE kid(p) == IF t.nodes[p] = NoNode THEN Fresh(t, p) ELSE t.nodes[p]
<1>1. t.created \in [Paths -> Nat] /\ MaxObjects \in Nat
  BY TreeAssumption DEF Good, Trees
<1>2. ASSUME NEW p \in paths
      PROVE  kid(p) \in Node /\ kid(p).path = p /\ (kid(p) \in Made(t) \/ (kid(p) = Fresh(t, p) /\ t.nodes[p] = NoNode))
  <2>1. p \in Paths
    BY DEF Fits
  <2>2. CASE t.nodes[p] = NoNode
    <3>1. t.created[p] \in Nat /\ t.created[p] < MaxObjects
      BY <1>1, <2>1, <2>2 DEF Fits
    <3>2. Fresh(t, p) \in Node /\ Fresh(t, p).path = p
      BY <1>1, <2>1, <3>1 DEF Fresh, Node
    <3> QED BY <2>2, <3>2
  <2>3. CASE t.nodes[p] # NoNode
    <3>1. t.nodes[p] \in Made(t) /\ t.nodes[p].path = p
      BY <2>1, <2>3 DEF Good
    <3>2. kid(p) = t.nodes[p]
      BY <2>3
    <3>3. t.nodes[p] \in Node
      BY <3>1 DEF Made
    <3> HIDE DEF kid
    <3> QED BY <3>1, <3>2, <3>3
  <2> QED BY <2>2, <2>3
<1>3. Kids(t, paths) = {kid(p) : p \in paths}
  BY DEF Kids
<1> HIDE DEF kid
<1> QED BY <1>2, <1>3

LEMMA SetChildrenIs ==
  ASSUME NEW t, Good(t), NEW n \in Made(t), NEW paths, Fits(t, n, paths), NEW u, u = SetChildren(t, n, paths)
  PROVE  /\ Good(u) /\ Made(t) \subseteq Made(u)
         /\ u.root = t.root /\ u.expanded = t.expanded
         /\ \A m \in Node : m # n => u.children[m] = t.children[m]
         /\ {c.path : c \in u.children[n]} = paths
         /\ ReplacedBy(t, Subtree(t, n), Subtree(u, n), u.nodes)
<1> DEFINE kids == Kids(t, paths)
           new == {p \in paths : t.nodes[p] = NoNode}
           children == [t.children EXCEPT ![n] = kids]
           parent == [m \in Node |-> IF m \in kids /\ m.path \in new THEN n ELSE t.parent[m]]
           created == [p \in Paths |-> IF p \in new THEN t.created[p] + 1 ELSE t.created[p]]
           v == [t EXCEPT !.children = children, !.parent = parent, !.created = created]
<1>1. n \in Node /\ n # NoNode
  BY NoNodeIs DEF Made
<1>2. t = [root |-> t.root, nodes |-> t.nodes, children |-> t.children, parent |-> t.parent,
           expanded |-> t.expanded, created |-> t.created]
      /\ t \in Trees
  BY DEF Good, Trees
<1>3. v = [root |-> t.root, nodes |-> t.nodes, children |-> children, parent |-> parent,
           expanded |-> t.expanded, created |-> created]
  <2> HIDE DEF kids, new, children, parent, created
  <2> DEFINE w == [t EXCEPT !.children = children]
             x == [w EXCEPT !.parent = parent]
  <2>1. w = [root |-> t.root, nodes |-> t.nodes, children |-> children, parent |-> t.parent,
             expanded |-> t.expanded, created |-> t.created]
    BY <1>2
  <2>2. x = [root |-> t.root, nodes |-> t.nodes, children |-> children, parent |-> parent,
             expanded |-> t.expanded, created |-> t.created]
    <3> HIDE DEF w
    <3> QED BY <2>1
  <2>3. v = [x EXCEPT !.created = created]
    OBVIOUS
  <2> HIDE DEF w, x, v
  <2> QED BY <2>2, <2>3
<1>4. u = [v EXCEPT !.nodes = Replace(t, Subtree(t, n), Subtree(v, n))]
  <2>1. v = [t EXCEPT !.children[n] = kids, !.parent = parent, !.created = created]
    BY <1>2
  <2> QED BY <2>1 DEF SetChildren, Kids
<1>5. /\ kids \in SUBSET Node
      /\ \A c \in kids : c.path \in paths /\ (c \in Made(t) \/ (c = Fresh(t, c.path) /\ c.path \in new))
      /\ \A b, c \in kids : b.path = c.path => b = c
      /\ {c.path : c \in kids} = paths
  BY <1>1, KidsAre
<1> HIDE DEF kids, new
<1>6. /\ children \in [Node -> SUBSET Node] /\ children[n] = kids
      /\ \A m \in Node : m # n => children[m] = t.children[m]
  BY <1>1, <1>2, <1>5 DEF Trees
<1>7. created \in [Paths -> Nat] /\ \A p \in Paths : t.created[p] \in Nat /\ t.created[p] <= created[p]
  BY <1>2 DEF Trees
<1>8. parent \in [Node -> Node \union {NoNode}] /\ Parented(parent)
  <2>1. parent \in [Node -> Node \union {NoNode}]
    BY <1>1, <1>2 DEF Trees
  <2>2. ASSUME NEW m \in Node
        PROVE  parent[m] = NoNode \/ (parent[m] \in Node /\ m.path # Top /\ parent[m].path = ParentOf[m.path])
    <3>1. CASE m \in kids /\ m.path \in new
      <4>1. m.path \in paths /\ parent[m] = n
        BY <1>5, <3>1
      <4> QED BY <1>1, <4>1 DEF Fits
    <3>2. CASE ~(m \in kids /\ m.path \in new)
      <4>1. parent[m] = t.parent[m]
        BY <3>2
      <4>2. Parented(t.parent)
        BY DEF Good
      <4> QED BY <4>1, <4>2 DEF Parented
    <3> QED BY <3>1, <3>2
  <2> HIDE DEF parent
  <2> QED BY <2>1, <2>2 DEF Parented
<1>9. \A p \in new : p \in Paths => created[p] = t.created[p] + 1
  OBVIOUS
<1> HIDE DEF children, parent, created
<1>10. v.children = children /\ v.nodes = t.nodes /\ v.root = t.root /\ v.created = created /\ v.parent = parent
  BY <1>3
<1> HIDE DEF v
<1>11. Made(t) \subseteq Made(v) /\ Made(v) \in SUBSET Node
  <2>1. ASSUME NEW m \in Made(t) PROVE m \in Made(v)
    <3>1. m \in Node /\ m.gen <= t.created[m.path]
      BY DEF Made
    <3>2. m.path \in Paths /\ m.gen \in Nat
      BY <3>1, NodeIs, TreeAssumption
    <3> QED BY <1>7, <1>10, <3>1, <3>2 DEF Made
  <2> QED BY <2>1 DEF Made
<1>12. kids \subseteq Made(v)
  <2>1. ASSUME NEW c \in kids, c = Fresh(t, c.path), c.path \in new PROVE c \in Made(v)
    <3>1. c \in Node /\ c.path \in Paths /\ c.gen = t.created[c.path] + 1
      BY <1>5, <2>1, NodeIs DEF Fresh
    <3>2. created[c.path] = t.created[c.path] + 1 /\ t.created[c.path] \in Nat
      BY <1>7, <1>9, <2>1, <3>1
    <3> QED BY <1>10, <3>1, <3>2 DEF Made
  <2> QED BY <1>5, <1>11, <2>1
<1>13. Formed(children)
  <2>1. ASSUME NEW m \in Node, NEW c \in children[m] PROVE c.path # Top /\ ParentOf[c.path] = m.path
    <3>1. CASE m = n
      BY <1>5, <1>6, <3>1 DEF Fits
    <3>2. CASE m # n
      BY <1>6, <3>2 DEF Good, Formed
    <3> QED BY <3>1, <3>2
  <2>2. ASSUME NEW m \in Node, NEW b \in children[m], NEW c \in children[m], b.path = c.path PROVE b = c
    <3>1. CASE m = n
      BY <1>5, <1>6, <2>2, <3>1
    <3>2. CASE m # n
      BY <1>6, <2>2, <3>2 DEF Good, Formed
    <3> QED BY <3>1, <3>2
  <2> QED BY <1>6, <2>1, <2>2 DEF Formed
<1>14. Good(v)
  <2>1. v \in Trees
    BY <1>2, <1>3, <1>6, <1>7, <1>8 DEF Trees, v
  <2>2. v.root \in Made(v) \union {NoNode}
    BY <1>10, <1>11 DEF Good
  <2>3. \A p \in Paths : v.nodes[p] = NoNode \/ (v.nodes[p] \in Made(v) /\ v.nodes[p].path = p)
    BY <1>10, <1>11 DEF Good
  <2>4. \A m \in Node : v.children[m] \subseteq Made(v)
    BY <1>6, <1>10, <1>11, <1>12 DEF Good
  <2>5. v.root.path = Top /\ Parented(v.parent)
    BY <1>8, <1>10 DEF Good
  <2> QED BY <1>10, <1>13, <2>1, <2>2, <2>3, <2>4, <2>5 DEF Good
<1> DEFINE nodes == Replace(t, Subtree(t, n), Subtree(v, n))
<1>15. ReplacedBy(t, Subtree(t, n), Subtree(v, n), nodes)
  BY <1>1, <1>14, SubtreeIs, ReplaceIs
<1> HIDE DEF nodes
<1>16. u = [root |-> t.root, nodes |-> nodes, children |-> children, parent |-> parent,
            expanded |-> t.expanded, created |-> created]
  BY <1>3, <1>4 DEF nodes, v
<1>17. u.children = children /\ u.nodes = nodes /\ u.root = t.root /\ u.created = created /\ u.expanded = t.expanded
       /\ u.parent = parent
  BY <1>16
<1>18. Subtree(u, n) = Subtree(v, n) /\ Made(u) = Made(v)
  BY <1>10, <1>17 DEF Subtree, Made
<1>19. Good(u)
  <2>1. u \in Trees
    BY <1>2, <1>6, <1>7, <1>8, <1>15, <1>16 DEF Trees, ReplacedBy
  <2>2. u.root \in Made(u) \union {NoNode}
    BY <1>10, <1>14, <1>17, <1>18 DEF Good
  <2>3. ASSUME NEW p \in Paths PROVE u.nodes[p] = NoNode \/ (u.nodes[p] \in Made(u) /\ u.nodes[p].path = p)
    <3>1. n \in Made(v)
      BY <1>11
    <3>2. Subtree(v, n) \subseteq Made(v)
      BY <1>14, <3>1, MadeBelow
    <3>3. t.nodes[p] = NoNode \/ t.nodes[p] \in Made(v)
      BY <1>11 DEF Good
    <3> QED BY <1>15, <1>17, <1>18, <3>2, <3>3 DEF ReplacedBy
  <2>4. \A m \in Node : u.children[m] \subseteq Made(u)
    BY <1>10, <1>14, <1>17, <1>18 DEF Good
  <2>5. u.root.path = Top /\ Parented(u.parent)
    BY <1>8, <1>17 DEF Good
  <2> QED BY <1>13, <1>17, <2>1, <2>2, <2>3, <2>4, <2>5 DEF Good
<1>20. {c.path : c \in u.children[n]} = paths
  BY <1>5, <1>6, <1>17
<1> QED BY <1>6, <1>11, <1>15, <1>17, <1>18, <1>19, <1>20

LEMMA ExpandedIs ==
  ASSUME NEW t, Good(t), NEW E \in SUBSET Node, NEW u, u = [t EXCEPT !.expanded = E]
  PROVE  /\ Good(u) /\ Made(u) = Made(t) /\ InTree(u) = InTree(t) /\ u.expanded = E
         /\ u.root = t.root /\ u.nodes = t.nodes /\ u.children = t.children /\ u.created = t.created
<1>1. t = [root |-> t.root, nodes |-> t.nodes, children |-> t.children, parent |-> t.parent,
           expanded |-> t.expanded, created |-> t.created]
      /\ t \in Trees
  BY DEF Good, Trees
<1>2. u = [root |-> t.root, nodes |-> t.nodes, children |-> t.children, parent |-> t.parent,
           expanded |-> E, created |-> t.created]
  BY <1>1
<1>3. /\ u.expanded = E /\ u.root = t.root /\ u.nodes = t.nodes /\ u.children = t.children
      /\ u.created = t.created /\ u.parent = t.parent
  BY <1>2
<1>4. u \in Trees
  BY <1>1, <1>2 DEF Trees
<1>5. Made(u) = Made(t) /\ InTree(u) = InTree(t)
  BY <1>3 DEF Made, InTree, Subtree
<1>6. Good(u)
  BY <1>3, <1>4, <1>5 DEF Good
<1> QED BY <1>3, <1>5, <1>6

\* What follows a refresh that has put in kids: more is expanded, and for all of that, and for what
\* is expanded of the kids, there is a call.
ShowsMore(t, kids, result) ==
  \E E \in SUBSET Node :
    /\ t.expanded \subseteq E /\ result.tree = [t EXCEPT !.expanded = E]
    /\ \A r \in result.asks : r.node \in Made(t)
    /\ \A n \in (E \ t.expanded) \union (kids \intersect E) : \E r \in result.asks : r.node = n

LEMMA ValidateIs ==
  ASSUME NEW t, Good(t), NEW n
  PROVE  Validate(t, n) = NoNode \/ (Validate(t, n) \in Made(t) /\ Validate(t, n).path = n.path)
<1>1. CASE n \in Node
  <2>1. n.path \in Paths /\ Validate(t, n) = t.nodes[n.path]
    BY <1>1, NodeIs DEF Validate
  <2> QED BY <2>1 DEF Good
<1>2. CASE n \notin Node
  BY <1>2 DEF Validate
<1> QED BY <1>1, <1>2

\* revealFile has expanded nothing, or one node, and called for that one.
ExpandsOne(t, result) ==
  \/ result.tree = t /\ result.asks = {}
  \/ \E n \in Made(t) : result.tree = Expand(t, n) /\ \E r : r.node = n /\ result.asks = {r}

LEMMA RevealIs ==
  ASSUME NEW t, Good(t), NEW s, NEW ahead \in SUBSET Paths, NEW target, NEW captured, NEW result,
         result = Reveal(t, s, ahead, target, captured)
  PROVE  ExpandsOne(t, result)
<1> DEFINE node(p) == IF \E n \in captured : n.path = p THEN CHOOSE n \in captured : n.path = p
                      ELSE t.nodes[p]
           missing(p) == node(p) = NoNode
           closed(p) == /\ p \in Dirs /\ node(p) \notin t.expanded
                        /\ Validate(t, node(p)) \notin t.expanded \union {NoNode}
           stops == {p \in ahead : missing(p) \/ closed(p)}
           first == CHOOSE p \in stops : \A q \in stops : Position(p) <= Position(q)
           n == Validate(t, node(first))
<1>1. CASE stops = {}
  <2>1. result = Result(t, AddSelection(t, s, node(target), "default"), {})
    BY <1>1 DEF Reveal
  <2> QED BY <2>1 DEF Result, ExpandsOne
<1>2. CASE stops # {} /\ missing(first)
  <2>1. result = Result(t, s, {})
    BY <1>2 DEF Reveal
  <2> QED BY <2>1 DEF Result, ExpandsOne
<1>3. CASE stops # {} /\ ~missing(first)
  <2>1. result = Result(Expand(t, n), s, {Request(n, "reveal", target, captured)})
    BY <1>3 DEF Reveal
  <2>2. first \in stops
    <3> HIDE DEF missing, closed
    <3>1. stops \in SUBSET Paths
      OBVIOUS
    <3> HIDE DEF stops
    <3> QED BY <1>3, <3>1, HighestPath
  <2>3. n # NoNode
    BY <1>3, <2>2
  <2> HIDE DEF node
  <2>4. n \in Made(t)
    BY <2>3, ValidateIs
  <2> HIDE DEF n
  <2>5. /\ result.tree = Expand(t, n) /\ result.asks = {Request(n, "reveal", target, captured)}
        /\ Request(n, "reveal", target, captured).node = n
    BY <2>1 DEF Result, Request
  <2> QED BY <2>4, <2>5 DEF ExpandsOne
<1> QED BY <1>1, <1>2, <1>3

LEMMA RefreshedIs ==
  ASSUME NEW t, Good(t), NEW n \in Node, NEW kids, kids \subseteq Made(t), NEW request
  PROVE  ShowsMore(t, kids, Refreshed(t, n, kids, request))
<1> DEFINE expands == request.kind # "refresh"
           only == IF expands /\ n \in t.expanded /\ Cardinality(kids) = 1
                   THEN {c \in kids : c.path \in Dirs} \ t.expanded ELSE {}
           u == [t EXCEPT !.expanded = @ \union only]
           s == IF expands THEN ExpansionChanged(t, selection, n) ELSE selection
           asks == {Request(c, "refresh", Top, {}) : c \in kids \intersect t.expanded}
                     \union {Request(c, "expand", Top, {}) : c \in only}
           ahead == Chain(request.target) \ Chain(request.node.path)
           reveal == Reveal(u, s, ahead, request.target, request.captured)
<1>1. Refreshed(t, n, kids, request) = GoOn(u, s, request, asks)
  BY DEF Refreshed
<1>2. only \subseteq kids /\ kids \subseteq Node /\ t.expanded \in SUBSET Node
  BY DEF Made, Good, Trees
<1> HIDE DEF only
<1> DEFINE E == t.expanded \union only
<1>3. u = [t EXCEPT !.expanded = E] /\ E \in SUBSET Node
  BY <1>2
<1>4. /\ Good(u) /\ Made(u) = Made(t) /\ u.expanded = E
  <2> HIDE DEF u, E
  <2> QED BY <1>3, ExpandedIs
<1>5. \A r \in asks : r.node \in Made(t)
  BY <1>2 DEF Request
<1>6. ASSUME NEW m \in (E \ t.expanded) \union (kids \intersect E) PROVE \E r \in asks : r.node = m
  <2>1. CASE m \in only
    <3>1. Request(m, "expand", Top, {}) \in asks /\ Request(m, "expand", Top, {}).node = m
      BY <2>1 DEF Request
    <3> QED BY <3>1
  <2>2. CASE m \in kids \intersect t.expanded
    <3>1. Request(m, "refresh", Top, {}) \in asks /\ Request(m, "refresh", Top, {}).node = m
      BY <2>2 DEF Request
    <3> QED BY <3>1
  <2> QED BY <1>2, <2>1, <2>2
<1> HIDE DEF asks, s
<1>7. CASE request.kind # "reveal"
  <2>1. GoOn(u, s, request, asks) = Result(u, s, asks)
    BY <1>7 DEF GoOn
  <2>2. Result(u, s, asks).tree = u /\ Result(u, s, asks).asks = asks
    BY DEF Result
  <2> HIDE DEF u, E
  <2>3. t.expanded \subseteq E
    BY DEF E
  <2> QED BY <1>1, <1>3, <1>5, <1>6, <2>1, <2>2, <2>3 DEF ShowsMore
<1>8. CASE request.kind = "reveal"
  <2>1. GoOn(u, s, request, asks) = [reveal EXCEPT !.asks = @ \union asks]
    BY <1>8 DEF GoOn
  <2>2. ExpandsOne(u, reveal)
    <3>1. ahead \in SUBSET Paths
      BY DEF Chain
    <3>2. reveal = Reveal(u, s, ahead, request.target, request.captured)
      OBVIOUS
    <3> HIDE DEF u, ahead, reveal
    <3> QED BY <1>4, <3>1, <3>2, RevealIs
  <2>3. DOMAIN reveal = {"tree", "selection", "asks"}
    BY DEF Reveal, Result
  <2> DEFINE result == [reveal EXCEPT !.asks = @ \union asks]
  <2> HIDE DEF reveal
  <2>4. result.tree = reveal.tree /\ result.asks = reveal.asks \union asks
    BY <2>3
  <2> HIDE DEF result
  <2>5. CASE reveal.tree = u /\ reveal.asks = {}
    <3> HIDE DEF u, E
    <3>1. t.expanded \subseteq E
      BY DEF E
    <3>2. result.tree = [t EXCEPT !.expanded = E] /\ result.asks = asks
      BY <1>3, <2>4, <2>5
    <3>3. ShowsMore(t, kids, result)
      BY <1>3, <1>5, <1>6, <3>1, <3>2 DEF ShowsMore
    <3> QED BY <1>1, <2>1, <3>3 DEF result
  <2>6. ASSUME NEW m \in Made(u), NEW call, call.node = m, reveal.tree = Expand(u, m), reveal.asks = {call}
        PROVE  ShowsMore(t, kids, result)
    <3> DEFINE F == E \union {m}
    <3>1. m \in Made(t) /\ m \in Node
      BY <1>4 DEF Made
    <3>2. result.tree = [t EXCEPT !.expanded = F]
      <4>1. t = [root |-> t.root, nodes |-> t.nodes, children |-> t.children, parent |-> t.parent,
                 expanded |-> t.expanded, created |-> t.created]
        BY DEF Good, Trees
      <4>2. u = [root |-> t.root, nodes |-> t.nodes, children |-> t.children, parent |-> t.parent,
                 expanded |-> E, created |-> t.created]
        BY <1>3, <4>1
      <4> HIDE DEF u, E
      <4>3. Expand(u, m) = [root |-> t.root, nodes |-> t.nodes, children |-> t.children, parent |-> t.parent,
                            expanded |-> F, created |-> t.created]
        BY <4>2 DEF Expand
      <4>4. [t EXCEPT !.expanded = F] = [root |-> t.root, nodes |-> t.nodes, children |-> t.children,
                                         parent |-> t.parent, expanded |-> F, created |-> t.created]
        <5> HIDE DEF F
        <5> QED BY <4>1
      <4> QED BY <2>4, <2>6, <4>3, <4>4
    <3>3. call.node = m
      BY <2>6
    <3>4. \A r \in result.asks : r.node \in Made(t)
      BY <1>5, <2>4, <2>6, <3>1, <3>3
    <3>5. ASSUME NEW k \in (F \ t.expanded) \union (kids \intersect F) PROVE \E r \in result.asks : r.node = k
      <4>1. CASE k = m
        BY <2>4, <2>6, <3>3, <4>1
      <4>2. CASE k # m
        <5>1. k \in (E \ t.expanded) \union (kids \intersect E)
          BY <4>2
        <5>2. PICK r \in asks : r.node = k
          <6> HIDE DEF E
          <6> QED BY <1>6, <5>1
        <5> QED BY <2>4, <5>2
      <4> QED BY <4>1, <4>2
    <3>6. F \in SUBSET Node /\ t.expanded \subseteq F
      BY <1>3, <3>1
    <3> HIDE DEF F
    <3> QED BY <3>2, <3>4, <3>5, <3>6 DEF ShowsMore
  <2>7. CASE ~(reveal.tree = u /\ reveal.asks = {})
    <3> HIDE DEF u
    <3>1. ShowsMore(t, kids, result)
      BY <2>2, <2>6, <2>7 DEF ExpandsOne
    <3> QED BY <1>1, <2>1, <3>1 DEF result
  <2> QED BY <2>5, <2>7
<1> QED BY <1>7, <1>8

----------------------------------------------------------------------------
(* Bags of calls.                                                          *)

LEMMA BagMore ==
  ASSUME NEW B, IsABag(B), NEW S
  PROVE  IsABag(B (+) SetToBag(S)) /\ DOMAIN (B (+) SetToBag(S)) = DOMAIN B \union S
BY DEF IsABag, SetToBag, (+)

LEMMA BagLess ==
  ASSUME NEW B, IsABag(B), NEW x
  PROVE  /\ IsABag(B (-) SetToBag({x}))
         /\ DOMAIN (B (-) SetToBag({x})) \subseteq DOMAIN B
         /\ \A y \in DOMAIN B : y # x => y \in DOMAIN (B (-) SetToBag({x}))
<1> DEFINE C == [e \in DOMAIN B |-> IF e \in {x} THEN B[e] - 1 ELSE B[e]]
           D == [e \in {d \in DOMAIN C : C[d] > 0} |-> C[e]]
<1>1. B (-) SetToBag({x}) = D
  BY DEF SetToBag, (-)
<1>2. \A e \in DOMAIN B : B[e] \in Nat /\ B[e] > 0
  BY DEF IsABag
<1>3. \A e \in DOMAIN C : C[e] \in Int /\ (C[e] > 0 => C[e] \in Nat)
  BY <1>2
<1>4. DOMAIN C = DOMAIN B /\ \A e \in DOMAIN B : e # x => C[e] = B[e]
  OBVIOUS
<1> HIDE DEF C
<1>5. DOMAIN D = {d \in DOMAIN C : C[d] > 0} /\ \A e \in DOMAIN D : D[e] = C[e]
  OBVIOUS
<1>6. D = [e \in DOMAIN D |-> D[e]]
  OBVIOUS
<1> HIDE DEF D
<1>7. IsABag(D)
  <2>1. \A e \in DOMAIN D : D[e] \in {n \in Nat : n > 0}
    BY <1>3, <1>5
  <2> QED BY <1>6, <2>1 DEF IsABag
<1> QED BY <1>1, <1>2, <1>4, <1>5, <1>7

LEMMA NoBag == IsABag(EmptyBag) /\ DOMAIN EmptyBag = {}
BY DEF IsABag, EmptyBag, SetToBag

----------------------------------------------------------------------------
(* The invariant.                                                          *)

Asked(n) == \E r \in DOMAIN asked : r.node = n

Pending(n) == Asked(n) \/ \E a \in DOMAIN answers : a.request.node = n

Listing(p) == {q \in files \ {Top} : ParentOf[q] = p}

\* The watcher has noticed a change of the directory that the frontend has not been told of.
Changed(p) == \E i \in DOMAIN changes : \E q \in changes[i] : ParentOf[q] = p

\* The rows that are shown when the children of the nodes that are about to get them are left out.
Open == [n \in Node |-> IF n \in tree.expanded /\ ~Pending(n) THEN tree.children[n] ELSE {}]
Exposed == IF tree.root = NoNode THEN {} ELSE Reached(Open, tree.root)

Names(n) == {c.path : c \in tree.children[n]}

Inputs == [changes : Nat, roots : SUBSET {"service", "layout"}, user : Nat]

\* Who waits for what: calls and answers are for objects that have been made, and an answer fits its
\* object.
Stands ==
  /\ files \in SUBSET Paths
  /\ changes \in Seq(SUBSET Paths)
  /\ inputs \in Inputs
  /\ Good(tree)
  /\ IsABag(asked) /\ IsABag(answers)
  /\ \A r \in DOMAIN asked : r.node \in Made(tree)
  /\ \A a \in DOMAIN answers :
       /\ a.request.node \in Made(tree)
       /\ a.seen \subseteq {q \in Paths \ {Top} : ParentOf[q] = a.request.node.path}

\* How old things are.
Dated ==
  /\ newest \in [Node -> Nat]
  /\ \A n \in Node : newest[n] <= Version
  /\ \A n \in Node \ Made(tree) : newest[n] = 0
  /\ \A a \in DOMAIN answers : a.version \in 1 .. Version

\* What is as old as the files is what they are.
NowIsNow ==
  /\ \A a \in DOMAIN answers : a.version = Version => a.seen = Listing(a.request.node.path)
  /\ \A n \in Node \ outdated : newest[n] = Version => Names(n) = Listing(n.path)

\* n is not older than the version v, or will not be.
KnowsOrWill(n, v) ==
  \/ Asked(n) \/ newest[n] >= v
  \/ \E a \in DOMAIN answers : a.request.node = n /\ a.version >= v

\* What the frontend has been told of the directory p, it has been told in version d[p] at the latest:
\* an answer or a node that is not older than that is right, unless there is more to be told; and
\* each row that shows its children is not older than that, or will not be.
Fact(d) ==
  /\ \A a \in DOMAIN answers :
       \/ a.seen = Listing(a.request.node.path) \/ Changed(a.request.node.path)
       \/ a.version < d[a.request.node.path]
  /\ \A n \in Node \ outdated : Names(n) = Listing(n.path) \/ Changed(n.path) \/ newest[n] < d[n.path]
  /\ \A n \in Exposed \intersect tree.expanded : KnowsOrWill(n, d[n.path])

Told == \E d \in [Paths -> 1 .. Version] : Fact(d)

IInv == Stands /\ Dated /\ NowIsNow /\ Told /\ MapHasTree

LEMMA VersionIs == ASSUME Stands PROVE Version \in Nat /\ Version >= 1 /\ inputs.changes \in Nat
BY DEF Stands, Inputs, Version

LEMMA MadeIs == \A t : Made(t) \in SUBSET Node
BY DEF Made

LEMMA OpenIs ==
  ASSUME Good(tree)
  PROVE  Formed(Open) /\ \A n \in Node : Open[n] \subseteq tree.children[n]
<1>1. Formed(tree.children)
  BY DEF Good
<1>2. \A n \in Node : Open[n] \subseteq tree.children[n]
  BY DEF Open
<1>3. Open \in [Node -> SUBSET Node]
  BY <1>1 DEF Open, Formed
<1> QED BY <1>1, <1>2, <1>3 DEF Formed

LEMMA ExposedIs ==
  ASSUME Good(tree)
  PROVE  /\ Exposed \in SUBSET Node /\ Exposed \subseteq InTree(tree)
         /\ Closed(Open, Exposed)
         /\ tree.root # NoNode => tree.root \in Exposed
<1>1. CASE tree.root = NoNode
  BY <1>1 DEF Exposed, Closed
<1>2. CASE tree.root # NoNode
  <2> DEFINE r == tree.root
  <2>1. r \in Node /\ Exposed = Reached(Open, r)
    BY <1>2 DEF Exposed, Good, Made
  <2>2. InTree(tree) = Reached(tree.children, r) /\ Closed(tree.children, Reached(tree.children, r))
        /\ r \in Reached(tree.children, r) /\ Reached(tree.children, r) \in SUBSET Node
    BY <1>2, <2>1, SubtreeIs DEF InTree
  <2>3. Open \in [Node -> SUBSET Node] /\ Closed(Open, Reached(tree.children, r))
    BY <2>2, OpenIs DEF Formed, Closed
  <2> HIDE DEF r
  <2>4. /\ r \in Reached(Open, r) /\ Reached(Open, r) \in SUBSET Node
        /\ Closed(Open, Reached(Open, r))
        /\ Reached(Open, r) \subseteq Reached(tree.children, r)
    BY <2>1, <2>2, <2>3, ReachedIs
  <2> QED BY <2>1, <2>2, <2>4 DEF r
<1> QED BY <1>1, <1>2

\* A set with the root that the next Open does not lead out of has all that is exposed then.
LEMMA NoMoreExposed ==
  ASSUME Good(tree)', NEW S \in SUBSET Node, tree'.root # NoNode => tree'.root \in S, Closed(Open', S)
  PROVE  Exposed' \subseteq S
<1>1. CASE tree'.root = NoNode
  BY <1>1 DEF Exposed
<1>2. CASE tree'.root # NoNode
  <2>1. tree'.root \in Node /\ Exposed' = Reached(Open', tree'.root)
    BY <1>2 DEF Exposed, Good, Made
  <2>2. Open' \in [Node -> SUBSET Node]
    BY DEF Good, Formed, Open
  <2> DEFINE r == tree'.root
             children == Open'
  <2>3. r \in Node /\ children \in [Node -> SUBSET Node] /\ r \in S /\ Closed(children, S)
        /\ Exposed' = Reached(children, r)
    BY <1>2, <2>1, <2>2
  <2> HIDE DEF r, children
  <2> QED BY <2>3, ReachedIs
<1> QED BY <1>1, <1>2

----------------------------------------------------------------------------
(* The steps: what the user does.                                          *)

\* What the user does: something is expanded, with a call, or collapsed.
Shown ==
  /\ UNCHANGED <<files, changes, answers, strayed, newest, outdated>>
  /\ inputs' \in Inputs /\ inputs'.changes = inputs.changes
  /\ IsABag(asked') /\ DOMAIN asked \subseteq DOMAIN asked'
  /\ \A r \in DOMAIN asked' : r \in DOMAIN asked \/ r.node \in Made(tree)
  /\ \E E \in SUBSET Node :
       /\ tree' = [tree EXCEPT !.expanded = E]
       /\ \A n \in E \ tree.expanded : \E r \in DOMAIN asked' : r.node = n

LEMMA UserInputIs ==
  ASSUME Stands, UserInput
  PROVE  /\ UNCHANGED <<files, changes, answers, strayed, newest, outdated>>
         /\ inputs' \in Inputs /\ inputs'.changes = inputs.changes
BY DEF Stands, UserInput, Inputs

LEMMA SameTree ==
  ASSUME Stands, UserInput, UNCHANGED <<tree, asked>>
  PROVE  Shown
<1>1. tree' = [tree EXCEPT !.expanded = tree.expanded] /\ tree.expanded \in SUBSET Node
  BY DEF Stands, Good, Trees
<1>2. asked' = asked
  OBVIOUS
<1> QED BY <1>1, <1>2, UserInputIs DEF Shown, Stands

LEMMA ToggleIs ==
  ASSUME Stands, UserInput, NEW s, NEW n, NEW expand, ToggleExpansion(s, n, expand)
  PROVE  Shown
<1> DEFINE m == Validate(tree, n)
<1>1. /\ tree.expanded \in SUBSET Node /\ IsABag(asked)
      /\ (m = NoNode \/ m \in Made(tree))
  BY ValidateIs DEF Stands, Good, Trees
<1>2. CASE m # NoNode /\ tree' = Expand(tree, m) /\ asked' = asked (+) SetToBag({Request(m, "expand", Top, {})})
  <2> HIDE DEF m
  <2> DEFINE call == Request(m, "expand", Top, {})
  <2>1. m \in Made(tree) /\ m \in Node
    BY <1>1, <1>2, MadeIs
  <2>2. call.node = m
    BY DEF Request
  <2> HIDE DEF call
  <2>3. asked' = asked (+) SetToBag({call})
    BY <1>2 DEF call
  <2>4. IsABag(asked') /\ DOMAIN asked' = DOMAIN asked \union {call}
    BY <1>1, <2>3, BagMore
  <2> DEFINE E == tree.expanded \union {m}
  <2>5. tree' = [tree EXCEPT !.expanded = E] /\ E \in SUBSET Node
    BY <1>1, <1>2, <2>1 DEF Expand
  <2>6. \A k \in E \ tree.expanded : k = m
    OBVIOUS
  <2> HIDE DEF E
  <2> QED BY <2>1, <2>2, <2>4, <2>5, <2>6, UserInputIs DEF Shown
<1>3. CASE tree' = [tree EXCEPT !.expanded = @ \ {m}] /\ asked' = asked
  <2> DEFINE E == tree.expanded \ {m}
  <2>1. tree' = [tree EXCEPT !.expanded = E] /\ E \in SUBSET Node /\ E \subseteq tree.expanded
    BY <1>1, <1>3
  <2> HIDE DEF E
  <2> QED BY <1>1, <1>3, <2>1, UserInputIs DEF Shown
<1>4. CASE UNCHANGED <<tree, asked>>
  BY <1>4, SameTree
<1> QED BY <1>2, <1>3, <1>4 DEF ToggleExpansion

LEMMA RevealFileIs == ASSUME Stands, RevealFile PROVE Shown
<1>1. PICK p \in Paths \ Dirs :
        LET known == {tree.nodes[q] : q \in Chain(p)} \ {NoNode}
        IN Become(Reveal(tree, selection, Chain(p), p, known))
  BY DEF RevealFile
<1> DEFINE result == Reveal(tree, selection, Chain(p), p, {tree.nodes[q] : q \in Chain(p)} \ {NoNode})
<1>2. Chain(p) \in SUBSET Paths /\ Good(tree) /\ IsABag(asked)
  BY DEF Chain, Stands
<1>3. ExpandsOne(tree, result)
  <2> DEFINE known == {tree.nodes[q] : q \in Chain(p)} \ {NoNode}
             ahead == Chain(p)
  <2>1. result = Reveal(tree, selection, ahead, p, known) /\ ahead \in SUBSET Paths
    BY <1>2
  <2> HIDE DEF known, ahead, result
  <2> QED BY <1>2, <2>1, RevealIs
<1>4. tree' = result.tree /\ asked' = asked (+) SetToBag(result.asks)
  BY <1>1 DEF Become
<1>5. UserInput
  BY DEF RevealFile
<1> HIDE DEF result
<1>6. IsABag(asked') /\ DOMAIN asked' = DOMAIN asked \union result.asks
  BY <1>2, <1>4, BagMore
<1>7. tree.expanded \in SUBSET Node
  BY <1>2 DEF Good, Trees
<1>8. CASE result.tree = tree /\ result.asks = {}
  <2>1. tree' = [tree EXCEPT !.expanded = tree.expanded]
    BY <1>2, <1>4, <1>8 DEF Good, Trees
  <2> QED BY <1>5, <1>6, <1>7, <1>8, <2>1, UserInputIs DEF Shown
<1>9. ASSUME NEW n \in Made(tree), NEW r, result.tree = Expand(tree, n), r.node = n, result.asks = {r}
      PROVE  Shown
  <2> DEFINE E == tree.expanded \union {n}
  <2>1. tree' = [tree EXCEPT !.expanded = E] /\ E \in SUBSET Node
    BY <1>4, <1>7, <1>9, MadeIs DEF Expand
  <2>2. \A k \in E \ tree.expanded : k = n
    OBVIOUS
  <2> HIDE DEF E
  <2> QED BY <1>5, <1>6, <1>9, <2>1, <2>2, UserInputIs DEF Shown
<1> QED BY <1>3, <1>8, <1>9 DEF ExpandsOne

LEMMA UserIs ==
  ASSUME Stands, (\E n \in Visible(tree) : Click(n) \/ CtrlClick(n) \/ ShiftClick(n)) \/ Up \/ Down \/ Left \/ Right \/ RevealFile
  PROVE  Shown
<1>1. ASSUME NEW n, NEW type, Select(n, type) PROVE Shown
  BY <1>1, SameTree DEF Select
<1>2. ASSUME NEW n, Click(n) PROVE Shown
  <2>1. UserInput
    BY <1>2 DEF Click
  <2>2. \/ UNCHANGED <<tree, asked>>
        \/ ToggleExpansion(AddSelection(tree, selection, n, "default"), n, n \notin tree.expanded)
    BY <1>2 DEF Click
  <2> QED BY <2>1, <2>2, SameTree, ToggleIs
<1>3. ASSUME NEW n, Arrow(n) PROVE Shown
  BY <1>1, <1>3 DEF Arrow
<1>4. ASSUME NEW expand, Sideways(expand) PROVE Shown
  <2> DEFINE nodes == Selected(tree, selection.stack)
             dirs == SelectSeq(nodes, LAMBDA n : n.path \in Dirs)
  <2>1. GoSideways(nodes, dirs, expand)
    BY <1>4 DEF Sideways
  <2> HIDE DEF nodes, dirs
  <2>2. UserInput /\ (ToggleExpansion(selection, Head(dirs), expand) \/ UNCHANGED <<tree, asked>>)
    BY <2>1 DEF GoSideways
  <2> QED BY <2>2, SameTree, ToggleIs
<1>5. CASE \E n \in Visible(tree) : Click(n) \/ CtrlClick(n) \/ ShiftClick(n)
  BY <1>1, <1>2, <1>5 DEF CtrlClick, ShiftClick
<1>6. CASE Up \/ Down
  BY <1>3, <1>6 DEF Up, Down
<1>7. CASE Left \/ Right
  BY <1>4, <1>7 DEF Left, Right
<1> QED BY <1>5, <1>6, <1>7, RevealFileIs

----------------------------------------------------------------------------
(* The steps: another root.                                                *)

\* A tree in which objects have been made, and those that were there are as before.
Grown(t, u) ==
  /\ Good(u) /\ Made(t) \subseteq Made(u)
  /\ \A n \in Made(t) : u.children[n] = t.children[n]

RootPut ==
  /\ UNCHANGED <<files, changes, answers, newest, outdated>>
  /\ inputs' \in Inputs /\ inputs'.changes = inputs.changes
  /\ Grown(tree, tree') /\ Mapped(tree', InTree(tree')) /\ tree'.root \in Made(tree')
  /\ IsABag(asked') /\ DOMAIN asked \subseteq DOMAIN asked'
  /\ \A r \in DOMAIN asked' : r \in DOMAIN asked \/ r.node = tree'.root
  /\ \E r \in DOMAIN asked' : r.node = tree'.root

LEMMA PutRootIs ==
  ASSUME Stands, NEW t, Grown(tree, t), NEW n \in Made(t), n.path = Top,
         NEW way \in {"service", "layout"}, PutRoot(t, n, way)
  PROVE  RootPut
<1>1. Good(t)
  BY DEF Grown
<1>2. /\ Good(tree') /\ Mapped(tree', InTree(tree')) /\ tree'.root = n
      /\ tree'.children = t.children /\ tree'.created = t.created
  BY <1>1, SetRootIs DEF PutRoot
<1>3. Made(tree') = Made(t)
  BY <1>2 DEF Made
<1>4. Validate(tree', n) = n /\ n # NoNode /\ n \in Node
  <2>1. n \in Node /\ n # NoNode
    BY NoNodeIs DEF Made
  <2>2. InTree(tree') = Subtree(tree', n) /\ n \in Subtree(tree', n)
    BY <1>2, <2>1, SubtreeIs DEF InTree
  <2> QED BY <1>2, <2>1, <2>2 DEF Validate, Mapped
<1>5. Refresh(tree', n) = {Request(n, "refresh", Top, {})}
  BY <1>4 DEF Refresh
<1> DEFINE call == Request(n, "refresh", Top, {})
<1>6. asked' = asked (+) SetToBag({call})
  BY <1>5 DEF PutRoot
<1>7. call.node = n
  BY DEF Request
<1> HIDE DEF call
<1>8. IsABag(asked') /\ DOMAIN asked' = DOMAIN asked \union {call}
  BY <1>6, BagMore DEF Stands
<1>9. inputs' \in Inputs /\ inputs'.changes = inputs.changes
  BY DEF Stands, Inputs, PutRoot
<1>10. UNCHANGED <<files, changes, answers, newest, outdated>>
  BY DEF PutRoot
<1>11. Grown(tree, tree')
  BY <1>2, <1>3 DEF Grown
<1> QED BY <1>2, <1>3, <1>7, <1>8, <1>9, <1>10, <1>11 DEF RootPut

LEMMA FreshIs ==
  ASSUME NEW t, Good(t), NEW p \in Paths, t.created[p] < MaxObjects
  PROVE  Fresh(t, p) \in Node /\ Fresh(t, p) \notin Made(t) /\ Fresh(t, p).path = p
         /\ Fresh(t, p).gen = t.created[p] + 1 /\ t.created[p] \in Nat
<1>1. t.created[p] \in Nat /\ MaxObjects \in Nat
  BY TreeAssumption DEF Good, Trees
<1>2. Fresh(t, p) = [path |-> p, gen |-> t.created[p] + 1]
  BY DEF Fresh
<1>3. Fresh(t, p).path = p /\ Fresh(t, p).gen = t.created[p] + 1
  BY <1>2
<1>4. Fresh(t, p) \in Node
  BY <1>1, <1>2 DEF Node
<1>5. ~(t.created[p] + 1 <= t.created[p])
  BY <1>1
<1> QED BY <1>1, <1>3, <1>4, <1>5 DEF Made

\* Objects that are made for some paths have children among them.
Stored(t, paths, children) ==
  \A n \in Node : \/ children[n] = t.children[n]
                  \/ /\ \E p \in paths : n = Fresh(t, p)
                     /\ children[n] = {Fresh(t, p) : p \in {q \in paths : q # Top /\ ParentOf[q] = n.path}}

LEMMA GrownIs ==
  ASSUME NEW t, Good(t), NEW paths \in SUBSET Paths, \A p \in paths : t.created[p] < MaxObjects,
         NEW children, NEW parent \in [Node -> Node \union {NoNode}], NEW E \in SUBSET Node, NEW created, NEW u,
         created = [p \in Paths |-> IF p \in paths THEN t.created[p] + 1 ELSE t.created[p]],
         children \in [Node -> SUBSET Node],
         Stored(t, paths, children), Parented(parent),
         u = [root |-> t.root, nodes |-> t.nodes, children |-> children, parent |-> parent,
              expanded |-> E, created |-> created]
  PROVE  Grown(t, u) /\ \A p \in paths : Fresh(t, p) \in Made(u)
<1>1. /\ u.root = t.root /\ u.nodes = t.nodes /\ u.children = children /\ u.parent = parent
      /\ u.expanded = E /\ u.created = created
  OBVIOUS
<1>2. \A p \in Paths : t.created[p] \in Nat /\ created[p] \in Nat /\ t.created[p] <= created[p]
                       /\ (p \in paths => created[p] = t.created[p] + 1)
  BY DEF Good, Trees
<1>3. \A p \in paths : p \in Paths /\ Fresh(t, p) \in Node /\ Fresh(t, p) \notin Made(t) /\ Fresh(t, p).path = p
                       /\ Fresh(t, p).gen = t.created[p] + 1
  BY FreshIs
<1>4. \A p \in paths : Fresh(t, p) \in Made(u)
  BY <1>1, <1>2, <1>3 DEF Made
<1>5. Made(t) \subseteq Made(u)
  <2>1. ASSUME NEW n \in Made(t) PROVE n \in Made(u)
    <3>1. n \in Node /\ n.path \in Paths /\ n.gen \in Nat /\ n.gen <= t.created[n.path]
      BY NodeIs, TreeAssumption DEF Made
    <3> QED BY <1>1, <1>2, <3>1 DEF Made
  <2> QED BY <2>1
<1>6. \A n \in Made(t) : children[n] = t.children[n]
  BY <1>3, MadeIs DEF Stored
<1>7. ASSUME NEW n \in Node, NEW c \in children[n]
      PROVE  c.path # Top /\ ParentOf[c.path] = n.path /\ c \in Made(u)
  <2>1. CASE children[n] = t.children[n]
    BY <1>5, <2>1 DEF Good, Formed
  <2>2. CASE children[n] = {Fresh(t, p) : p \in {q \in paths : q # Top /\ ParentOf[q] = n.path}}
    BY <1>3, <1>4, <2>2
  <2> QED BY <2>1, <2>2 DEF Stored
<1>8. ASSUME NEW n \in Node, NEW b \in children[n], NEW c \in children[n], b.path = c.path
      PROVE  b = c
  <2>1. CASE children[n] = t.children[n]
    BY <1>8, <2>1 DEF Good, Formed
  <2>2. CASE children[n] = {Fresh(t, p) : p \in {q \in paths : q # Top /\ ParentOf[q] = n.path}}
    BY <1>3, <1>8, <2>2
  <2> QED BY <2>1, <2>2 DEF Stored
<1>9. Formed(children)
  BY <1>7, <1>8 DEF Formed
<1>10. Good(u)
  <2>1. u \in Trees
    <3>1. created \in [Paths -> Nat]
      BY <1>2
    <3> QED BY <3>1 DEF Good, Trees
  <2>2. u.root \in Made(u) \union {NoNode} /\ \A p \in Paths : u.nodes[p] = NoNode \/ (u.nodes[p] \in Made(u) /\ u.nodes[p].path = p)
    BY <1>1, <1>5 DEF Good
  <2>3. \A n \in Node : u.children[n] \subseteq Made(u)
    BY <1>1, <1>7
  <2>4. u.root.path = Top /\ Parented(u.parent)
    BY <1>1 DEF Good
  <2> QED BY <1>1, <1>9, <2>1, <2>2, <2>3, <2>4 DEF Good
<1> QED BY <1>1, <1>4, <1>5, <1>6, <1>10 DEF Grown

LEMMA TopIs == Top \in Paths
BY TreeAssumption DEF Top, Paths

LEMMA InitializeIs == ASSUME Stands, Initialize PROVE RootPut
<1> DEFINE n == Fresh(tree, Top)
           created == [p \in Paths |-> IF p \in {Top} THEN tree.created[p] + 1 ELSE tree.created[p]]
           E == tree.expanded \union {n}
           t == [tree EXCEPT !.expanded = @ \union {n}, !.created[Top] = @ + 1]
<1>1. Good(tree) /\ PutRoot(t, n, "service") /\ tree.created[Top] < MaxObjects
  BY DEF Stands, Initialize, Room
<1>2. n \in Node /\ n.path = Top
  BY <1>1, TopIs, FreshIs
<1>3. tree = [root |-> tree.root, nodes |-> tree.nodes, children |-> tree.children, parent |-> tree.parent,
              expanded |-> tree.expanded, created |-> tree.created]
      /\ tree \in Trees
  BY <1>1 DEF Good, Trees
<1> HIDE DEF n
<1>4. [tree.created EXCEPT ![Top] = @ + 1] = created
  BY <1>3 DEF Trees
<1> HIDE DEF created, E
<1>5. t = [root |-> tree.root, nodes |-> tree.nodes, children |-> tree.children, parent |-> tree.parent,
           expanded |-> E, created |-> created]
  <2> DEFINE v == [tree EXCEPT !.expanded = E]
  <2>1. v = [root |-> tree.root, nodes |-> tree.nodes, children |-> tree.children, parent |-> tree.parent,
             expanded |-> E, created |-> tree.created]
    BY <1>3
  <2>2. t = [v EXCEPT !.created = created]
    BY <1>3, <1>4 DEF E
  <2> HIDE DEF v, t
  <2> QED BY <2>1, <2>2
<1> HIDE DEF t
<1>6. /\ tree.parent \in [Node -> Node \union {NoNode}] /\ E \in SUBSET Node
      /\ tree.children \in [Node -> SUBSET Node] /\ Parented(tree.parent)
  BY <1>1, <1>2, <1>3 DEF Trees, E, Good
<1>7. Grown(tree, t) /\ n \in Made(t)
  <2>1. {Top} \in SUBSET Paths /\ \A p \in {Top} : tree.created[p] < MaxObjects
    BY <1>1, TopIs
  <2>2. created = [p \in Paths |-> IF p \in {Top} THEN tree.created[p] + 1 ELSE tree.created[p]]
    BY DEF created
  <2>3. Stored(tree, {Top}, tree.children)
    BY DEF Stored
  <2>4. Grown(tree, t) /\ \A p \in {Top} : Fresh(tree, p) \in Made(t)
    BY <1>1, <1>5, <1>6, <2>1, <2>2, <2>3, GrownIs
  <2> QED BY <2>4 DEF n
<1> QED BY <1>1, <1>2, <1>7, PutRootIs

LEMMA RestoreStateIs == ASSUME Stands, RestoreState PROVE RootPut
<1>1. PICK layout \in Layouts : Room(layout.paths) /\
        LET stored == {Fresh(tree, p) : p \in layout.paths}
            kids(n) == {m \in stored : m.path # Top /\ ParentOf[m.path] = n.path}
        IN PutRoot([tree EXCEPT
                        !.children = [n \in Node |-> IF n \in stored THEN kids(n) ELSE @[n]],
                        !.parent = [m \in Node |-> IF m \in stored /\ m.path # Top
                                                   THEN Fresh(tree, ParentOf[m.path]) ELSE @[m]],
                        !.expanded = @ \union {n \in stored : n.path \in layout.expanded},
                        !.created = [p \in Paths |-> IF p \in layout.paths THEN @[p] + 1 ELSE @[p]]],
                      Fresh(tree, Top), "layout")
  BY DEF RestoreState
<1> DEFINE paths == layout.paths
           stored == {Fresh(tree, p) : p \in paths}
           kids(n) == {m \in stored : m.path # Top /\ ParentOf[m.path] = n.path}
           children == [n \in Node |-> IF n \in stored THEN kids(n) ELSE tree.children[n]]
           parent == [m \in Node |-> IF m \in stored /\ m.path # Top
                                     THEN Fresh(tree, ParentOf[m.path]) ELSE tree.parent[m]]
           E == tree.expanded \union {n \in stored : n.path \in layout.expanded}
           created == [p \in Paths |-> IF p \in paths THEN tree.created[p] + 1 ELSE tree.created[p]]
           t == [tree EXCEPT !.children = children, !.parent = parent, !.expanded = E, !.created = created]
<1>2. PutRoot(t, Fresh(tree, Top), "layout")
  BY <1>1
<1>3. paths \in ClosedSets
  BY TreeAssumption
<1> HIDE DEF paths
<1>4. paths \in SUBSET Paths /\ Top \in paths /\ \A p \in paths \ {Top} : ParentOf[p] \in paths
  BY <1>3 DEF ClosedSets
<1>5. Good(tree) /\ \A p \in paths : tree.created[p] < MaxObjects
  BY <1>1 DEF Stands, Room, paths
<1>6. tree = [root |-> tree.root, nodes |-> tree.nodes, children |-> tree.children, parent |-> tree.parent,
              expanded |-> tree.expanded, created |-> tree.created]
      /\ tree \in Trees
  BY <1>5 DEF Good, Trees
<1>7. \A p \in paths : Fresh(tree, p) \in Node /\ Fresh(tree, p).path = p
  BY <1>4, <1>5, FreshIs
<1>8. parent \in [Node -> Node \union {NoNode}]
  <2>1. ASSUME NEW m \in Node
        PROVE  (IF m \in stored /\ m.path # Top THEN Fresh(tree, ParentOf[m.path]) ELSE tree.parent[m]) \in Node \union {NoNode}
    <3>1. CASE m \in stored /\ m.path # Top
      BY <1>4, <1>7, <3>1
    <3>2. CASE ~(m \in stored /\ m.path # Top)
      BY <1>6, <3>2 DEF Trees
    <3> QED BY <3>1, <3>2
  <2> QED BY <2>1
<1>15. Parented(parent)
  <2>1. ASSUME NEW m \in Node
        PROVE  parent[m] = NoNode \/ (parent[m] \in Node /\ m.path # Top /\ parent[m].path = ParentOf[m.path])
    <3>1. CASE m \in stored /\ m.path # Top
      <4>1. m.path \in paths /\ ParentOf[m.path] \in paths
        BY <1>4, <1>7, <3>1
      <4>2. parent[m] = Fresh(tree, ParentOf[m.path])
        BY <3>1
      <4> QED BY <1>7, <3>1, <4>1, <4>2
    <3>2. CASE ~(m \in stored /\ m.path # Top)
      <4>1. parent[m] = tree.parent[m]
        BY <3>2
      <4> QED BY <1>5, <4>1 DEF Good, Parented
    <3> QED BY <3>1, <3>2
  <2> HIDE DEF parent
  <2> QED BY <2>1 DEF Parented
<1>9. children \in [Node -> SUBSET Node]
  BY <1>6, <1>7 DEF Trees
<1>10. Stored(tree, paths, children)
  BY <1>7 DEF Stored
<1>11. E \in SUBSET Node
  BY <1>6, <1>7 DEF Trees
<1>12. created = [p \in Paths |-> IF p \in paths THEN tree.created[p] + 1 ELSE tree.created[p]]
  OBVIOUS
<1> HIDE DEF stored, kids, children, parent, E, created
<1>13. t = [root |-> tree.root, nodes |-> tree.nodes, children |-> children, parent |-> parent,
            expanded |-> E, created |-> created]
  <2> DEFINE v == [tree EXCEPT !.children = children]
             w == [v EXCEPT !.parent = parent]
             x == [w EXCEPT !.expanded = E]
  <2>1. v = [root |-> tree.root, nodes |-> tree.nodes, children |-> children, parent |-> tree.parent,
             expanded |-> tree.expanded, created |-> tree.created]
    BY <1>6
  <2>2. w = [root |-> tree.root, nodes |-> tree.nodes, children |-> children, parent |-> parent,
             expanded |-> tree.expanded, created |-> tree.created]
    <3> HIDE DEF v
    <3> QED BY <2>1
  <2>3. x = [root |-> tree.root, nodes |-> tree.nodes, children |-> children, parent |-> parent,
             expanded |-> E, created |-> tree.created]
    <3> HIDE DEF w
    <3> QED BY <2>2
  <2>4. t = [x EXCEPT !.created = created]
    OBVIOUS
  <2> HIDE DEF v, w, x, t
  <2> QED BY <2>3, <2>4
<1> HIDE DEF t
<1>14. Grown(tree, t) /\ \A p \in paths : Fresh(tree, p) \in Made(t)
  BY <1>4, <1>5, <1>8, <1>9, <1>10, <1>11, <1>12, <1>13, <1>15, GrownIs
<1> QED BY <1>2, <1>4, <1>7, <1>14, PutRootIs

----------------------------------------------------------------------------
(* The steps: an answer.                                                   *)

LEMMA MaxIs ==
  ASSUME NEW x \in Nat, NEW y \in Nat
  PROVE  Max({x, y}) = IF x < y THEN y ELSE x
<1> DEFINE P(z) == z \in {x, y} /\ \A w \in {x, y} : z >= w
<1>1. Max({x, y}) = CHOOSE z : P(z)
  BY DEF Max
<1>2. P(IF x < y THEN y ELSE x)
  OBVIOUS
<1>3. P(CHOOSE z : P(z))
  <2> HIDE DEF P
  <2> QED BY <1>2
<1> QED BY <1>1, <1>2, <1>3

\* What the step of an answer does.
Received(a) ==
  LET n == a.request.node IN
  /\ UNCHANGED <<files, changes, inputs>>
  /\ Good(tree') /\ Made(tree) \subseteq Made(tree') /\ tree'.root = tree.root
  /\ \A m \in Node : m # n => tree'.children[m] = tree.children[m]
  /\ {c.path : c \in tree'.children[n]} = a.seen
  /\ ReplacedBy(tree, Subtree(tree, n), Subtree(tree', n), tree'.nodes)
  /\ tree.expanded \subseteq tree'.expanded
  /\ IsABag(asked') /\ DOMAIN asked \subseteq DOMAIN asked'
  /\ \A r \in DOMAIN asked' : r \in DOMAIN asked \/ r.node \in Made(tree')
  /\ \A m \in (tree'.expanded \ tree.expanded) \union (tree'.children[n] \intersect tree'.expanded) :
       \E r \in DOMAIN asked' : r.node = m
  /\ IsABag(answers') /\ DOMAIN answers' \subseteq DOMAIN answers
  /\ \A b \in DOMAIN answers : b # a => b \in DOMAIN answers'
  /\ Note(tree', n, a.version)

LEMMA SubtreeSame ==
  ASSUME NEW t, NEW u, u.children = t.children
  PROVE  \A n : Subtree(u, n) = Subtree(t, n)
BY DEF Subtree

LEMMA ReceiveIs ==
  ASSUME Stands, NEW a \in DOMAIN answers, Receive(a)
  PROVE  Received(a)
<1> DEFINE n == a.request.node
           u == SetChildren(tree, n, a.seen)
           kids == u.children[n]
           result == Refreshed(u, n, kids, a.request)
<1>1. Good(tree) /\ n \in Made(tree) /\ n \in Node /\ IsABag(asked) /\ IsABag(answers)
  BY MadeIs DEF Stands
<1>2. Fits(tree, n, a.seen)
  BY DEF Stands, Receive, Room, Fits
<1>3. /\ Become(result) /\ Note(u, n, a.version) /\ answers' = answers (-) SetToBag({a})
      /\ UNCHANGED <<files, changes, inputs>>
  BY DEF Receive, Put
<1> HIDE DEF result, n
<1>4. /\ Good(u) /\ Made(tree) \subseteq Made(u)
      /\ u.root = tree.root /\ u.expanded = tree.expanded
      /\ \A m \in Node : m # n => u.children[m] = tree.children[m]
      /\ {c.path : c \in kids} = a.seen
      /\ ReplacedBy(tree, Subtree(tree, n), Subtree(u, n), u.nodes)
  <2> DEFINE paths == a.seen
  <2>1. u = SetChildren(tree, n, paths) /\ Fits(tree, n, paths)
    BY <1>2
  <2> HIDE DEF u, paths
  <2>2. /\ Good(u) /\ Made(tree) \subseteq Made(u)
        /\ u.root = tree.root /\ u.expanded = tree.expanded
        /\ \A m \in Node : m # n => u.children[m] = tree.children[m]
        /\ {c.path : c \in u.children[n]} = paths
        /\ ReplacedBy(tree, Subtree(tree, n), Subtree(u, n), u.nodes)
    BY <1>1, <2>1, SetChildrenIs
  <2> QED BY <2>2 DEF paths
<1>5. result = Refreshed(u, n, kids, a.request) /\ kids \subseteq Made(u)
  BY <1>1, <1>4 DEF result, Good
<1> HIDE DEF u, kids
<1>6. ShowsMore(u, kids, result)
  BY <1>1, <1>4, <1>5, RefreshedIs
<1>7. PICK E \in SUBSET Node :
        /\ u.expanded \subseteq E /\ result.tree = [u EXCEPT !.expanded = E]
        /\ \A r \in result.asks : r.node \in Made(u)
        /\ \A m \in (E \ u.expanded) \union (kids \intersect E) : \E r \in result.asks : r.node = m
  BY <1>6 DEF ShowsMore
<1>8. tree' = [u EXCEPT !.expanded = E] /\ asked' = asked (+) SetToBag(result.asks)
  BY <1>3, <1>7 DEF Become
<1>9. /\ Good(tree') /\ Made(tree') = Made(u) /\ tree'.expanded = E
      /\ tree'.root = u.root /\ tree'.nodes = u.nodes /\ tree'.children = u.children
  BY <1>4, <1>8, ExpandedIs
<1>10. \A m : Subtree(tree', m) = Subtree(u, m)
  BY <1>9, SubtreeSame
<1>11. Note(tree', n, a.version)
  BY <1>3, <1>10 DEF Note
<1>12. IsABag(asked') /\ DOMAIN asked' = DOMAIN asked \union result.asks
  BY <1>1, <1>8, BagMore
<1>13. /\ IsABag(answers') /\ DOMAIN answers' \subseteq DOMAIN answers
       /\ \A b \in DOMAIN answers : b # a => b \in DOMAIN answers'
  BY <1>1, <1>3, BagLess
<1>14. \A r \in DOMAIN asked' : r \in DOMAIN asked \/ r.node \in Made(tree')
  BY <1>7, <1>9, <1>12
<1>15. tree.expanded \subseteq tree'.expanded
  BY <1>4, <1>7, <1>9
<1>16. \A m \in (tree'.expanded \ tree.expanded) \union (kids \intersect tree'.expanded) :
         \E r \in DOMAIN asked' : r.node = m
  BY <1>4, <1>7, <1>9, <1>12
<1>17. kids = tree'.children[n] /\ ReplacedBy(tree, Subtree(tree, n), Subtree(tree', n), tree'.nodes)
  BY <1>4, <1>9, <1>10 DEF kids
<1>18. /\ Made(tree) \subseteq Made(tree') /\ tree'.root = tree.root
       /\ \A m \in Node : m # n => tree'.children[m] = tree.children[m]
       /\ {c.path : c \in tree'.children[n]} = a.seen
  BY <1>4, <1>9, <1>17
<1>19. UNCHANGED <<files, changes, inputs>>
  BY <1>3
<1> QED BY <1>9, <1>11, <1>12, <1>13, <1>14, <1>15, <1>16, <1>17, <1>18, <1>19 DEF Received, n

----------------------------------------------------------------------------
(* The map after an answer.                                                *)

LEMMA ReceiveKeepsMap ==
  ASSUME Stands, MapHasTree, NEW a \in DOMAIN answers, Received(a)
  PROVE  MapHasTree'
<1> DEFINE n == a.request.node
           old == Subtree(tree, n)
           now == Subtree(tree', n)
           touched == {m.path : m \in old \union now}
           before == tree.children
           after == tree'.children
           r == tree.root
<1>1. /\ Good(tree) /\ Good(tree') /\ n \in Node /\ r \in Node \union {NoNode} /\ tree'.root = r
      /\ \A m \in Node : m # n => after[m] = before[m]
  BY MadeIs DEF Stands, Received, Good
<1>2. /\ old = Reached(before, n) /\ old \in SUBSET Node
      /\ now = Reached(after, n) /\ now \in SUBSET Node
  BY <1>1, SubtreeIs
<1>3. ReplacedBy(tree, old, now, tree'.nodes)
  BY DEF Received
<1>4. strayed' = IF n \in InTree(tree) THEN strayed \ touched ELSE strayed \union touched
  BY DEF Received, Note
<1>5. Formed(before) /\ Formed(after)
  BY <1>1 DEF Good
<1> SUFFICES ASSUME NEW m \in InTree(tree')
             PROVE  tree'.nodes[m.path] = m \/ m.path \in strayed'
  BY DEF MapHasTree
<1>6. /\ r \in Node /\ m \in Reached(after, r) /\ m \in Node /\ m.path \in Paths
      /\ InTree(tree) = Reached(before, r)
      /\ Closed(after, Reached(after, r)) /\ after \in [Node -> SUBSET Node]
  <2>1. r # NoNode /\ r \in Node
    BY <1>1 DEF InTree
  <2>2. InTree(tree') = Reached(after, r) /\ InTree(tree) = Reached(before, r)
    BY <1>1, <2>1, SubtreeIs DEF InTree
  <2>3. m \in Node /\ m.path \in Paths
    BY <2>2, ReachedType, NodeIs
  <2> QED BY <1>5, <2>1, <2>2, <2>3, ReachedIs DEF Formed
<1>7. \A k \in InTree(tree) : tree.nodes[k.path] = k \/ k.path \in strayed
  BY DEF MapHasTree
<1> HIDE DEF n, old, now, before, after, r
<1>8. m.path \notin touched => tree'.nodes[m.path] = tree.nodes[m.path]
  BY <1>3, <1>6 DEF ReplacedBy
<1>9. /\ n \notin Reached(before, r) => Reached(after, r) \subseteq Reached(before, r)
      /\ n \in Reached(before, r) => n \in Reached(after, r)
      /\ Reached(after, r) \subseteq Reached(before, r) \union Reached(after, n)
  BY <1>1, <1>5, <1>6, OtherChildren
<1>10. CASE n \notin InTree(tree)
  <2>1. strayed' = strayed \union touched /\ m \in InTree(tree)
    BY <1>4, <1>6, <1>9, <1>10
  <2> HIDE DEF touched
  <2> QED BY <1>7, <1>8, <2>1
<1>11. CASE n \in InTree(tree) /\ m \in now
  BY <1>3, <1>11 DEF ReplacedBy
<1>12. CASE n \in InTree(tree) /\ m \notin now
  <2>1. n \in Reached(after, r)
    BY <1>6, <1>9, <1>12
  <2>2. m \in InTree(tree) /\ strayed' = strayed \ touched
    BY <1>2, <1>4, <1>6, <1>9, <1>12
  <2>3. ASSUME NEW k \in old, k.path = m.path PROVE FALSE
    BY <1>2, <1>5, <1>6, <1>12, <2>1, <2>3, SamePlace
  <2>4. ASSUME NEW k \in now, k.path = m.path PROVE FALSE
    <3>1. Reached(after, n) \subseteq Reached(after, r)
      BY <1>1, <1>6, <2>1, ReachedIs
    <3> QED BY <1>2, <1>5, <1>6, <1>12, <2>4, <3>1, OnePerPath
  <2>5. m.path \notin touched
    BY <2>3, <2>4
  <2> QED BY <1>7, <1>8, <2>2, <2>5
<1> QED BY <1>10, <1>11, <1>12

----------------------------------------------------------------------------
(* Calls and answers are for objects that have been made.                  *)

LEMMA NextIs ==
  ASSUME Stands, Next
  PROVE  \/ ChangeFiles \/ FilesChanged \/ RootPut \/ GetFileStat
         \/ \E a \in DOMAIN answers : Received(a)
         \/ Shown
<1>1. CASE ChangeFiles \/ FilesChanged \/ GetFileStat
  BY <1>1
<1>2. CASE Initialize
  BY <1>2, InitializeIs
<1>3. CASE RestoreState
  BY <1>3, RestoreStateIs
<1>4. CASE \E a \in BagToSet(answers) : Receive(a)
  BY <1>4, ReceiveIs DEF BagToSet
<1>5. CASE (\E n \in Visible(tree) : Click(n) \/ CtrlClick(n) \/ ShiftClick(n)) \/ Up \/ Down \/ Left \/ Right \/ RevealFile
  BY <1>5, UserIs
<1> QED BY <1>1, <1>2, <1>3, <1>4, <1>5 DEF Next

LEMMA RefreshIs ==
  ASSUME NEW t, Good(t), NEW n, NEW call \in Refresh(t, n)
  PROVE  call.node = Validate(t, n) /\ call.node \in Made(t)
<1>1. Validate(t, n) \in Made(t) /\ call = Request(Validate(t, n), "refresh", Top, {})
  BY ValidateIs DEF Refresh
<1> QED BY <1>1 DEF Request

LEMMA ChangeFilesIs ==
  ASSUME Stands, ChangeFiles
  PROVE  /\ files' \in SUBSET Paths /\ changes' \in Seq(SUBSET Paths)
         /\ changes' = Append(changes, (files' \ files) \union (files \ files'))
         /\ inputs' \in Inputs /\ Version' = Version + 1
         /\ UNCHANGED <<tree, selection, asked, answers, strayed, newest, outdated>>
<1>1. files' \in SUBSET Paths
  BY DEF Stands, ChangeFiles
<1>2. changes' = Append(changes, (files' \ files) \union (files \ files'))
  BY DEF ChangeFiles
<1>3. changes' \in Seq(SUBSET Paths)
  <2>1. changes \in Seq(SUBSET Paths) /\ (files' \ files) \union (files \ files') \in SUBSET Paths
    BY <1>1 DEF Stands
  <2> QED BY <1>2, <2>1
<1>4. inputs \in Inputs /\ inputs' = [inputs EXCEPT !.changes = @ + 1]
  BY DEF Stands, ChangeFiles
<1>5. inputs' \in Inputs /\ inputs'.changes = inputs.changes + 1
  BY <1>4 DEF Inputs
<1>6. Version' = Version + 1
  BY <1>5 DEF Version
<1> QED BY <1>1, <1>2, <1>3, <1>5, <1>6 DEF ChangeFiles

\* What the frontend is told of.
Batch(k) == UNION {changes[i] : i \in 1 .. k}

Hears(k) ==
  LET affected == {tree.nodes[ParentOf[p]] : p \in Batch(k)} \intersect tree.expanded
      deaf == {n \in InTree(tree) : n.path \in {ParentOf[p] : p \in Batch(k)} \intersect strayed}
  IN /\ changes' = SubSeq(changes, k + 1, Len(changes))
     /\ UNCHANGED <<files, tree, answers, inputs, strayed>>
     /\ IsABag(asked') /\ DOMAIN asked \subseteq DOMAIN asked'
     /\ \A r \in DOMAIN asked' : r \in DOMAIN asked \/ r.node \in Made(tree)
     /\ \A n \in affected : Validate(tree, n) # NoNode => \E r \in DOMAIN asked' : r.node = Validate(tree, n)
     /\ newest' = [n \in Node |-> IF n \in deaf THEN Version ELSE newest[n]]
     /\ outdated' = outdated \union deaf

LEMMA FilesChangedIs ==
  ASSUME Stands, FilesChanged
  PROVE  \E k \in 1 .. Len(changes) : Hears(k)
<1>1. PICK k \in 1 .. Len(changes) :
        LET batch == UNION {changes[i] : i \in 1 .. k}
            affected == {tree.nodes[ParentOf[p]] : p \in batch} \intersect tree.expanded
            lost == {ParentOf[p] : p \in batch} \intersect strayed
            deaf == {n \in InTree(tree) : n.path \in lost}
        IN /\ changes' = SubSeq(changes, k + 1, Len(changes))
           /\ asked' = asked (+) SetToBag(UNION {Refresh(tree, n) : n \in affected})
           /\ newest' = [n \in Node |-> IF n \in deaf THEN Version ELSE newest[n]]
           /\ outdated' = outdated \union deaf
           /\ UNCHANGED <<files, tree, selection, answers, inputs, strayed>>
  BY DEF FilesChanged
<1> DEFINE affected == {tree.nodes[ParentOf[p]] : p \in Batch(k)} \intersect tree.expanded
           calls == UNION {Refresh(tree, n) : n \in affected}
<1>2. asked' = asked (+) SetToBag(calls)
  BY <1>1 DEF Batch
<1>3. \A r \in calls : r.node \in Made(tree)
  BY RefreshIs DEF Stands
<1>4. \A n \in affected : Validate(tree, n) # NoNode =>
        Request(Validate(tree, n), "refresh", Top, {}) \in calls
  BY DEF Refresh
<1> HIDE DEF calls
<1>5. IsABag(asked') /\ DOMAIN asked' = DOMAIN asked \union calls
  BY <1>2, BagMore DEF Stands
<1>6. \A n : Request(n, "refresh", Top, {}).node = n
  BY DEF Request
<1>7. \A n \in affected : Validate(tree, n) # NoNode => \E r \in DOMAIN asked' : r.node = Validate(tree, n)
  BY <1>4, <1>5, <1>6
<1> HIDE DEF affected
<1>8. \A r \in DOMAIN asked' : r \in DOMAIN asked \/ r.node \in Made(tree)
  BY <1>3, <1>5
<1> QED BY <1>1, <1>5, <1>7, <1>8 DEF Hears, Batch, affected

LEMMA GetFileStatIs ==
  ASSUME Stands, GetFileStat
  PROVE  \E request \in DOMAIN asked :
           LET answer == [request |-> request, seen |-> Listing(request.node.path), version |-> Version]
           IN /\ UNCHANGED <<files, changes, tree, inputs, strayed, newest, outdated>>
              /\ IsABag(answers') /\ DOMAIN answers' = DOMAIN answers \union {answer}
              /\ IsABag(asked') /\ DOMAIN asked' \subseteq DOMAIN asked
              /\ \A r \in DOMAIN asked : r # request => r \in DOMAIN asked'
<1>1. PICK request \in DOMAIN asked :
        /\ answers' = answers (+) SetToBag({[request |-> request, seen |-> Listing(request.node.path), version |-> Version]})
        /\ asked' = asked (-) SetToBag({request})
        /\ UNCHANGED <<files, changes, tree, inputs, strayed, newest, outdated>>
  BY DEF GetFileStat, BagToSet, Listing
<1> DEFINE answer == [request |-> request, seen |-> Listing(request.node.path), version |-> Version]
<1>2. answers' = answers (+) SetToBag({answer})
  BY <1>1
<1> HIDE DEF answer
<1>3. IsABag(answers') /\ DOMAIN answers' = DOMAIN answers \union {answer}
  BY <1>2, BagMore DEF Stands
<1>4. /\ IsABag(asked') /\ DOMAIN asked' \subseteq DOMAIN asked
      /\ \A r \in DOMAIN asked : r # request => r \in DOMAIN asked'
  BY <1>1, BagLess DEF Stands
<1> QED BY <1>1, <1>3, <1>4 DEF answer

LEMMA StandsKept == ASSUME Stands, [Next]_vars PROVE Stands'
<1>1. CASE ChangeFiles
  BY <1>1, ChangeFilesIs DEF Stands
<1>2. CASE FilesChanged
  <2>1. PICK k \in 1 .. Len(changes) : Hears(k)
    BY <1>2, FilesChangedIs
  <2>2. changes' \in Seq(SUBSET Paths)
    <3>1. changes \in Seq(SUBSET Paths) /\ Len(changes) \in Nat
      BY DEF Stands
    <3>2. SubSeq(changes, k + 1, Len(changes)) \in Seq(SUBSET Paths)
      BY <3>1
    <3> QED BY <2>1, <3>2 DEF Hears
  <2>3. /\ UNCHANGED <<files, tree, answers, inputs>> /\ IsABag(asked')
        /\ \A r \in DOMAIN asked' : r \in DOMAIN asked \/ r.node \in Made(tree)
    BY <2>1 DEF Hears
  <2> QED BY <2>2, <2>3 DEF Stands
<1>3. CASE RootPut
  BY <1>3 DEF RootPut, Grown, Stands
<1>4. CASE GetFileStat
  <2>1. PICK request \in DOMAIN asked :
           LET answer == [request |-> request, seen |-> Listing(request.node.path), version |-> Version]
           IN /\ UNCHANGED <<files, changes, tree, inputs, strayed, newest, outdated>>
              /\ IsABag(answers') /\ DOMAIN answers' = DOMAIN answers \union {answer}
              /\ IsABag(asked') /\ DOMAIN asked' \subseteq DOMAIN asked
    BY <1>4, GetFileStatIs
  <2> QED BY <2>1 DEF Stands, Listing
<1>5. ASSUME NEW a \in DOMAIN answers, Received(a) PROVE Stands'
  BY <1>5 DEF Received, Stands
<1>6. CASE Shown
  <2>1. PICK E \in SUBSET Node : tree' = [tree EXCEPT !.expanded = E]
    BY <1>6 DEF Shown
  <2>2. Good(tree') /\ Made(tree') = Made(tree)
    BY <2>1, ExpandedIs DEF Stands
  <2> QED BY <1>6, <2>2 DEF Shown, Stands
<1>7. CASE UNCHANGED vars
  BY <1>7 DEF vars, Stands
<1> QED BY <1>1, <1>2, <1>3, <1>4, <1>5, <1>6, <1>7, NextIs

----------------------------------------------------------------------------
(* How old things are.                                                     *)

LEMMA InTreeIsMade == ASSUME NEW t, Good(t) PROVE InTree(t) \subseteq Made(t)
<1>1. CASE t.root = NoNode
  BY <1>1 DEF InTree
<1>2. CASE t.root # NoNode
  BY <1>2, MadeBelow DEF InTree, Good
<1> QED BY <1>1, <1>2

LEMMA ShownIs ==
  ASSUME Stands, Shown
  PROVE  /\ Good(tree') /\ Made(tree') = Made(tree) /\ InTree(tree') = InTree(tree)
         /\ tree'.root = tree.root /\ tree'.nodes = tree.nodes /\ tree'.children = tree.children
         /\ \A n \in tree'.expanded \ tree.expanded : \E r \in DOMAIN asked' : r.node = n
         /\ DOMAIN asked \subseteq DOMAIN asked'
         /\ UNCHANGED <<files, changes, answers, strayed, newest, outdated, Version>>
<1>1. PICK E \in SUBSET Node :
        tree' = [tree EXCEPT !.expanded = E] /\ \A n \in E \ tree.expanded : \E r \in DOMAIN asked' : r.node = n
  BY DEF Shown
<1>2. /\ Good(tree') /\ Made(tree') = Made(tree) /\ InTree(tree') = InTree(tree) /\ tree'.expanded = E
      /\ tree'.root = tree.root /\ tree'.nodes = tree.nodes /\ tree'.children = tree.children
  <2>1. Good(tree)
    BY DEF Stands
  <2> QED BY <1>1, <2>1, ExpandedIs
<1>3. UNCHANGED <<files, changes, answers, strayed, newest, outdated>> /\ DOMAIN asked \subseteq DOMAIN asked'
  BY DEF Shown
<1>4. UNCHANGED Version
  BY DEF Shown, Version
<1> QED BY <1>1, <1>2, <1>3, <1>4

LEMMA NoteIs ==
  ASSUME Stands, Dated, NEW a \in DOMAIN answers, Received(a)
  PROVE  LET n == a.request.node IN
         /\ n \in Made(tree) /\ n \in Node /\ newest[n] \in Nat /\ a.version \in Nat
         /\ newest' \in [Node -> Nat]
         /\ newest'[n] = IF newest[n] < a.version THEN a.version ELSE newest[n]
         /\ \A m \in Node : m # n => newest'[m] = newest[m] /\ (m \in outdated' <=> m \in outdated)
         /\ n \in outdated' <=> a.version < newest[n]
         /\ Version' = Version
<1> DEFINE n == a.request.node
<1>1. n \in Made(tree) /\ n \in Node
  BY MadeIs DEF Stands
<1>2. newest \in [Node -> Nat] /\ newest[n] \in Nat /\ a.version \in Nat
  BY <1>1, VersionIs DEF Dated
<1>3. /\ newest' = [newest EXCEPT ![n] = Max({newest[n], a.version})]
      /\ outdated' = IF a.version < newest[n] THEN outdated \union {n} ELSE outdated \ {n}
  BY DEF Received, Note
<1>4. Max({newest[n], a.version}) = IF newest[n] < a.version THEN a.version ELSE newest[n]
  BY <1>2, MaxIs
<1> DEFINE most == Max({newest[n], a.version})
<1>5. most \in Nat
  BY <1>2, <1>4
<1>6. newest' = [newest EXCEPT ![n] = most]
  BY <1>3
<1>7. Version' = Version
  BY DEF Received, Version
<1> HIDE DEF n, most
<1>8. newest' \in [Node -> Nat] /\ newest'[n] = most /\ \A m \in Node : m # n => newest'[m] = newest[m]
  BY <1>1, <1>2, <1>5, <1>6
<1>9. /\ n \in outdated' <=> a.version < newest[n]
      /\ \A m \in Node : m # n => (m \in outdated' <=> m \in outdated)
  BY <1>3
<1> QED BY <1>1, <1>2, <1>4, <1>7, <1>8, <1>9 DEF most, n

LEMMA DatedKept == ASSUME Stands, Dated, [Next]_vars PROVE Dated'
<1>1. Version \in Nat /\ Version >= 1
  BY VersionIs
<1>2. CASE ChangeFiles
  <2>1. Version' = Version + 1 /\ UNCHANGED <<tree, answers, newest>>
    BY <1>2, ChangeFilesIs
  <2>2. /\ \A n \in Node : newest[n] \in Nat /\ newest[n] <= Version
        /\ \A a \in DOMAIN answers : a.version \in 1 .. Version
    BY DEF Dated
  <2>3. \A n \in Node : newest[n] <= Version'
    BY <1>1, <2>1, <2>2
  <2>4. \A a \in DOMAIN answers : a.version \in 1 .. Version'
    BY <1>1, <2>1, <2>2
  <2> HIDE DEF Version
  <2> QED BY <2>1, <2>3, <2>4 DEF Dated
<1>3. CASE FilesChanged
  <2>1. PICK k \in 1 .. Len(changes) : Hears(k)
    BY <1>3, FilesChangedIs
  <2> DEFINE deaf == {n \in InTree(tree) : n.path \in {ParentOf[p] : p \in Batch(k)} \intersect strayed}
  <2>2. newest' = [n \in Node |-> IF n \in deaf THEN Version ELSE newest[n]] /\ UNCHANGED <<tree, answers, Version>>
    BY <2>1 DEF Hears, Version
  <2>3. deaf \subseteq Made(tree)
    BY InTreeIsMade DEF Stands
  <2> HIDE DEF deaf
  <2> QED BY <1>1, <2>2, <2>3 DEF Dated
<1>4. CASE RootPut
  <2>1. UNCHANGED <<answers, newest, Version>> /\ Made(tree) \subseteq Made(tree')
    BY <1>4 DEF RootPut, Grown, Version
  <2> QED BY <2>1 DEF Dated
<1>5. CASE GetFileStat
  <2>1. PICK request \in DOMAIN asked :
           LET answer == [request |-> request, seen |-> Listing(request.node.path), version |-> Version]
           IN /\ UNCHANGED <<files, changes, tree, inputs, strayed, newest, outdated>>
              /\ DOMAIN answers' = DOMAIN answers \union {answer}
    BY <1>5, GetFileStatIs
  <2>2. UNCHANGED <<tree, newest, Version>> /\ \A a \in DOMAIN answers' : a \in DOMAIN answers \/ a.version = Version
    BY <2>1 DEF Version
  <2>3. \A a \in DOMAIN answers' : a.version \in 1 .. Version
    BY <1>1, <2>2 DEF Dated
  <2> QED BY <2>2, <2>3 DEF Dated
<1>6. ASSUME NEW a \in DOMAIN answers, Received(a) PROVE Dated'
  <2> DEFINE n == a.request.node
  <2>1. /\ n \in Made(tree) /\ n \in Node
        /\ newest' \in [Node -> Nat]
        /\ newest'[n] = IF newest[n] < a.version THEN a.version ELSE newest[n]
        /\ \A m \in Node : m # n => newest'[m] = newest[m]
        /\ Version' = Version
    BY <1>6, NoteIs
  <2>2. Made(tree) \subseteq Made(tree') /\ DOMAIN answers' \subseteq DOMAIN answers
    BY <1>6 DEF Received
  <2>3. a.version \in 1 .. Version /\ newest[n] <= Version
    BY <2>1 DEF Dated
  <2>4. newest'[n] <= Version
    BY <1>1, <2>1, <2>3
  <2> HIDE DEF n
  <2>5. \A m \in Node : newest'[m] <= Version
    BY <2>1, <2>4 DEF Dated
  <2>6. \A m \in Node \ Made(tree') : newest'[m] = 0
    BY <2>1, <2>2 DEF Dated
  <2>7. \A b \in DOMAIN answers' : b.version \in 1 .. Version
    BY <2>2 DEF Dated
  <2> QED BY <2>1, <2>5, <2>6, <2>7 DEF Dated
<1>7. CASE Shown
  BY <1>7, ShownIs DEF Dated
<1>8. CASE UNCHANGED vars
  BY <1>8 DEF vars, Dated, Version
<1> QED BY <1>2, <1>3, <1>4, <1>5, <1>6, <1>7, <1>8, NextIs

LEMMA NowIsNowKept == ASSUME Stands, Dated, NowIsNow, [Next]_vars PROVE NowIsNow'
<1>1. Version \in Nat /\ Version >= 1
  BY VersionIs
<1>2. CASE ChangeFiles
  <2>1. Version' = Version + 1 /\ UNCHANGED <<tree, answers, newest>>
    BY <1>2, ChangeFilesIs
  <2>2. /\ \A n \in Node : newest[n] \in Nat /\ newest[n] <= Version
        /\ \A a \in DOMAIN answers : a.version \in 1 .. Version
    BY DEF Dated
  <2>3. \A n \in Node : newest[n] # Version'
    BY <1>1, <2>1, <2>2
  <2>4. \A a \in DOMAIN answers : a.version # Version'
    BY <1>1, <2>1, <2>2
  <2> QED BY <2>1, <2>3, <2>4 DEF NowIsNow
<1>3. CASE FilesChanged
  <2>1. PICK k \in 1 .. Len(changes) : Hears(k)
    BY <1>3, FilesChangedIs
  <2> DEFINE deaf == {n \in InTree(tree) : n.path \in {ParentOf[p] : p \in Batch(k)} \intersect strayed}
  <2>2. newest' = [n \in Node |-> IF n \in deaf THEN Version ELSE newest[n]]
        /\ outdated' = outdated \union deaf /\ UNCHANGED <<files, tree, answers, Version>>
    BY <2>1 DEF Hears, Version
  <2> HIDE DEF deaf
  <2>3. \A n \in Node \ outdated' : n \notin outdated /\ newest'[n] = newest[n]
    BY <2>2
  <2> QED BY <2>2, <2>3 DEF NowIsNow, Names, Listing
<1>4. CASE RootPut
  <2>1. UNCHANGED <<files, answers, newest, outdated, Version>> /\ \A n \in Made(tree) : tree'.children[n] = tree.children[n]
    BY <1>4 DEF RootPut, Grown, Version
  <2>2. \A n \in Node \ Made(tree) : newest[n] # Version
    BY <1>1 DEF Dated
  <2> QED BY <2>1, <2>2 DEF NowIsNow, Names, Listing
<1>5. CASE GetFileStat
  <2>1. PICK request \in DOMAIN asked :
           LET answer == [request |-> request, seen |-> Listing(request.node.path), version |-> Version]
           IN /\ UNCHANGED <<files, changes, tree, inputs, strayed, newest, outdated>>
              /\ DOMAIN answers' = DOMAIN answers \union {answer}
    BY <1>5, GetFileStatIs
  <2>2. UNCHANGED <<files, tree, newest, outdated, Version>>
        /\ \A a \in DOMAIN answers' : a \in DOMAIN answers \/ a.seen = Listing(a.request.node.path)
    BY <2>1 DEF Version
  <2> QED BY <2>2 DEF NowIsNow, Names, Listing
<1>6. ASSUME NEW a \in DOMAIN answers, Received(a) PROVE NowIsNow'
  <2> DEFINE n == a.request.node
  <2>1. /\ n \in Node /\ newest[n] \in Nat /\ a.version \in Nat
        /\ newest'[n] = IF newest[n] < a.version THEN a.version ELSE newest[n]
        /\ \A m \in Node : m # n => newest'[m] = newest[m] /\ (m \in outdated' <=> m \in outdated)
        /\ n \in outdated' <=> a.version < newest[n]
        /\ Version' = Version
    BY <1>6, NoteIs
  <2>2. /\ files' = files /\ DOMAIN answers' \subseteq DOMAIN answers
        /\ \A m \in Node : m # n => tree'.children[m] = tree.children[m]
        /\ {c.path : c \in tree'.children[n]} = a.seen
    BY <1>6 DEF Received
  <2>3. a.version = Version => a.seen = Listing(n.path)
    BY DEF NowIsNow
  <2> HIDE DEF n
  <2>4. n \notin outdated' => newest'[n] = a.version
    BY <2>1
  <2>5. \A p : Listing(p)' = Listing(p)
    BY <2>2 DEF Listing
  <2>6. n \notin outdated' /\ newest'[n] = Version => Names(n)' = Listing(n.path)
    BY <2>2, <2>3, <2>4 DEF Names
  <2>7. \A m \in Node : m # n => Names(m)' = Names(m)
    BY <2>2 DEF Names
  <2>8. \A m \in Node \ outdated' : newest'[m] = Version => Names(m)' = Listing(m.path)
    BY <2>1, <2>6, <2>7 DEF NowIsNow
  <2>9. \A b \in DOMAIN answers' : b.version = Version => b.seen = Listing(b.request.node.path)
    BY <2>2 DEF NowIsNow
  <2> QED BY <2>1, <2>5, <2>8, <2>9 DEF NowIsNow
<1>7. CASE Shown
  BY <1>7, ShownIs DEF NowIsNow, Names, Listing
<1>8. CASE UNCHANGED vars
  BY <1>8 DEF vars, NowIsNow, Version, Names, Listing
<1> QED BY <1>2, <1>3, <1>4, <1>5, <1>6, <1>7, <1>8, NextIs

----------------------------------------------------------------------------
(* What the frontend has been told.                                        *)

LEMMA LessOpen ==
  ASSUME Good(tree), Good(tree)', tree'.root = tree.root, tree'.children = tree.children,
         \A n \in Node : Pending(n) => Pending(n)',
         \A n \in tree'.expanded \ tree.expanded : Pending(n)'
  PROVE  Exposed' \subseteq Exposed
<1>1. Exposed \in SUBSET Node /\ Closed(Open, Exposed) /\ (tree.root # NoNode => tree.root \in Exposed)
  BY ExposedIs
<1>2. \A n \in Node : Open'[n] \subseteq Open[n]
  BY DEF Open
<1>3. Closed(Open', Exposed)
  BY <1>1, <1>2 DEF Closed
<1>4. tree'.root # NoNode => tree'.root \in Exposed
  BY <1>1
<1> HIDE DEF Exposed, Open
<1> QED BY <1>1, <1>3, <1>4, NoMoreExposed

LEMMA FactInChangeFiles ==
  ASSUME Stands, Stands', Dated, NEW d \in [Paths -> 1 .. Version], Fact(d), ChangeFiles
  PROVE  Told'
<1>1. /\ changes' = Append(changes, (files' \ files) \union (files \ files'))
      /\ Version' = Version + 1 /\ changes \in Seq(SUBSET Paths) /\ changes' \in Seq(SUBSET Paths)
      /\ UNCHANGED <<tree, asked, answers, newest, outdated>>
  BY ChangeFilesIs DEF Stands
<1>2. ASSUME NEW p PROVE Changed(p) => Changed(p)'
  <2>1. ASSUME NEW i \in DOMAIN changes PROVE i \in DOMAIN changes' /\ changes'[i] = changes[i]
    BY <1>1
  <2> QED BY <2>1 DEF Changed
<1>3. ASSUME NEW p PROVE Listing(p)' = Listing(p) \/ Changed(p)'
  <2>1. ASSUME Listing(p)' # Listing(p) PROVE \E q \in (files' \ files) \union (files \ files') : ParentOf[q] = p
    BY <2>1 DEF Listing
  <2>2. Len(changes) + 1 \in DOMAIN changes' /\ changes'[Len(changes) + 1] = (files' \ files) \union (files \ files')
    BY <1>1
  <2> QED BY <2>1, <2>2 DEF Changed
<1>4. Exposed' \subseteq Exposed
  <2>1. Good(tree) /\ Good(tree)'
    BY DEF Stands
  <2>2. tree'.root = tree.root /\ tree'.children = tree.children /\ tree'.expanded = tree.expanded
    BY <1>1
  <2>3. \A n \in Node : Pending(n) => Pending(n)'
    BY <1>1 DEF Pending, Asked
  <2> QED BY <2>1, <2>2, <2>3, LessOpen
<1>5. d \in [Paths -> 1 .. Version']
  <2>1. Version \in Nat
    BY VersionIs
  <2>2. 1 .. Version \subseteq 1 .. (Version + 1)
    BY <2>1
  <2> QED BY <1>1, <2>2
<1>6. /\ \A a \in DOMAIN answers :
           \/ a.seen = Listing(a.request.node.path) \/ Changed(a.request.node.path)
           \/ a.version < d[a.request.node.path]
      /\ \A n \in Node \ outdated : Names(n) = Listing(n.path) \/ Changed(n.path) \/ newest[n] < d[n.path]
      /\ \A n \in Exposed \intersect tree.expanded : KnowsOrWill(n, d[n.path])
  BY DEF Fact
<1>7. \A n, v : KnowsOrWill(n, v)' <=> KnowsOrWill(n, v)
  BY <1>1 DEF KnowsOrWill, Asked
<1>8. \A n : Names(n)' = Names(n)
  BY <1>1 DEF Names
<1>9. \A n \in Node \ outdated : Names(n)' = Listing(n.path)' \/ Changed(n.path)' \/ newest[n] < d[n.path]
  BY <1>2, <1>3, <1>6, <1>8
<1>10. \A a \in DOMAIN answers :
           \/ a.seen = Listing(a.request.node.path)' \/ Changed(a.request.node.path)'
           \/ a.version < d[a.request.node.path]
  BY <1>2, <1>3, <1>6
<1>11. \A n \in Exposed' \intersect tree'.expanded : KnowsOrWill(n, d[n.path])'
  BY <1>1, <1>4, <1>6, <1>7
<1> HIDE DEF Version
<1>12. Fact(d)'
  BY <1>1, <1>9, <1>10, <1>11 DEF Fact
<1> QED BY <1>5, <1>12 DEF Told

\* When nothing but the calls, the answers and the expansion changes.
LEMMA FactInShown ==
  ASSUME Stands, Stands', NEW d \in [Paths -> 1 .. Version], Fact(d), Shown
  PROVE  Told'
<1>1. /\ tree'.root = tree.root /\ tree'.children = tree.children
      /\ \A n \in tree'.expanded \ tree.expanded : \E r \in DOMAIN asked' : r.node = n
      /\ DOMAIN asked \subseteq DOMAIN asked'
      /\ UNCHANGED <<files, changes, answers, newest, outdated, Version>>
  BY ShownIs
<1>2. \A n \in Node : Pending(n) => Pending(n)'
  BY <1>1 DEF Pending, Asked
<1>3. \A n \in tree'.expanded \ tree.expanded : Pending(n)'
  BY <1>1 DEF Pending, Asked
<1>4. Exposed' \subseteq Exposed
  <2>1. Good(tree) /\ Good(tree)'
    BY DEF Stands
  <2> QED BY <1>1, <1>2, <1>3, <2>1, LessOpen
<1>5. ASSUME NEW n \in Exposed' \intersect tree'.expanded PROVE KnowsOrWill(n, d[n.path])'
  <2>1. CASE n \in tree.expanded
    <3>1. KnowsOrWill(n, d[n.path])
      BY <1>4, <2>1 DEF Fact
    <3> QED BY <1>1, <3>1 DEF KnowsOrWill, Asked
  <2>2. CASE n \notin tree.expanded
    BY <1>1, <2>2 DEF KnowsOrWill, Asked
  <2> QED BY <2>1, <2>2
<1>6. \A p : (Listing(p)' = Listing(p)) /\ (Changed(p)' <=> Changed(p))
  BY <1>1 DEF Listing, Changed
<1>7. \A n : Names(n)' = Names(n)
  BY <1>1 DEF Names
<1> HIDE DEF Version
<1>8. Fact(d)'
  BY <1>1, <1>5, <1>6, <1>7 DEF Fact
<1> QED BY <1>1, <1>8 DEF Told

LEMMA FactInGetFileStat ==
  ASSUME Stands, Stands', NEW d \in [Paths -> 1 .. Version], Fact(d), GetFileStat
  PROVE  Told'
<1>1. PICK request \in DOMAIN asked :
           LET answer == [request |-> request, seen |-> Listing(request.node.path), version |-> Version]
           IN /\ UNCHANGED <<files, changes, tree, inputs, strayed, newest, outdated>>
              /\ DOMAIN answers' = DOMAIN answers \union {answer}
              /\ \A r \in DOMAIN asked : r # request => r \in DOMAIN asked'
  BY GetFileStatIs
<1> DEFINE answer == [request |-> request, seen |-> Listing(request.node.path), version |-> Version]
<1>2. DOMAIN answers' = DOMAIN answers \union {answer}
  BY <1>1
<1>3. answer.request = request /\ answer.seen = Listing(request.node.path) /\ answer.version = Version
  OBVIOUS
<1> HIDE DEF answer
<1>4. UNCHANGED <<files, changes, tree, newest, outdated, Version>>
  BY <1>1 DEF Version
<1>5. \A n \in Node : Pending(n) => Pending(n)'
  BY <1>1, <1>2, <1>3 DEF Pending, Asked
<1>6. Exposed' \subseteq Exposed
  <2>1. Good(tree) /\ Good(tree)'
    BY DEF Stands
  <2>2. tree'.root = tree.root /\ tree'.children = tree.children /\ tree'.expanded = tree.expanded
    BY <1>4
  <2> QED BY <1>5, <2>1, <2>2, LessOpen
<1>7. Version \in Nat /\ \A n \in Node : d[n.path] <= Version
  BY VersionIs, NodeIs
<1>8. ASSUME NEW n \in Exposed' \intersect tree'.expanded PROVE KnowsOrWill(n, d[n.path])'
  <2>1. KnowsOrWill(n, d[n.path])
    BY <1>4, <1>6 DEF Fact
  <2>2. n \in Node /\ d[n.path] \in Nat
    <3>1. n \in Node
      BY <1>6, ExposedIs DEF Stands
    <3> QED BY <1>7, <3>1, NodeIs
  <2>3. CASE request.node = n
    <3>1. answer \in DOMAIN answers' /\ answer.request.node = n /\ answer.version >= d[n.path]
      BY <1>2, <1>3, <1>7, <2>2, <2>3
    <3> QED BY <3>1 DEF KnowsOrWill
  <2>4. CASE request.node # n
    BY <1>1, <1>2, <1>4, <2>1, <2>4 DEF KnowsOrWill, Asked
  <2> QED BY <2>3, <2>4
<1>9. \A p : (Listing(p)' = Listing(p)) /\ (Changed(p)' <=> Changed(p))
  BY <1>4 DEF Listing, Changed
<1>10. \A n : Names(n)' = Names(n)
  BY <1>4 DEF Names
<1>11. \A a \in DOMAIN answers' :
         \/ a.seen = Listing(a.request.node.path) \/ Changed(a.request.node.path)
         \/ a.version < d[a.request.node.path]
  BY <1>2, <1>3 DEF Fact
<1> HIDE DEF Version
<1>12. Fact(d)'
  BY <1>4, <1>8, <1>9, <1>10, <1>11 DEF Fact
<1> QED BY <1>4, <1>12 DEF Told

\* Of the directories in the batch the frontend has been told all that there is.
LEMMA FactInFilesChanged ==
  ASSUME Stands, Stands', Dated, NowIsNow, MapHasTree, NEW d \in [Paths -> 1 .. Version], Fact(d), FilesChanged
  PROVE  Told'
<1>1. PICK k \in 1 .. Len(changes) : Hears(k)
  BY FilesChangedIs
<1> DEFINE dirs == {ParentOf[p] : p \in Batch(k)}
           affected == {tree.nodes[ParentOf[p]] : p \in Batch(k)} \intersect tree.expanded
           deaf == {n \in InTree(tree) : n.path \in dirs \intersect strayed}
<1>2. /\ changes' = SubSeq(changes, k + 1, Len(changes))
      /\ UNCHANGED <<files, tree, answers, strayed, Version>>
      /\ DOMAIN asked \subseteq DOMAIN asked'
      /\ \A n \in affected : Validate(tree, n) # NoNode => \E r \in DOMAIN asked' : r.node = Validate(tree, n)
      /\ newest' = [n \in Node |-> IF n \in deaf THEN Version ELSE newest[n]]
      /\ outdated' = outdated \union deaf
  BY <1>1 DEF Hears, Version
<1>3. Version \in Nat /\ Version >= 1
  BY VersionIs
<1>4. Good(tree) /\ Good(tree)' /\ tree'.root = tree.root /\ tree'.children = tree.children
      /\ tree'.expanded = tree.expanded
  BY <1>2 DEF Stands
<1>5. \A p \in dirs : \E q \in Batch(k) : p = ParentOf[q]
  OBVIOUS
<1> HIDE DEF Version
<1>6. PICK told \in [Paths -> 1 .. Version] : \A p \in Paths : told[p] = IF p \in dirs THEN Version ELSE d[p]
  <2> DEFINE f == [p \in Paths |-> IF p \in dirs THEN Version ELSE d[p]]
  <2>1. f \in [Paths -> 1 .. Version] /\ \A p \in Paths : f[p] = IF p \in dirs THEN Version ELSE d[p]
    BY <1>3
  <2> QED BY <2>1
<1>7. ASSUME NEW n \in InTree(tree) \intersect tree.expanded, n.path \in dirs, n \notin deaf PROVE Asked(n)'
  <2>1. tree.nodes[n.path] = n
    BY <1>7 DEF MapHasTree
  <2>2. n \in affected
    BY <1>5, <1>7, <2>1
  <2>3. n \in Node /\ n # NoNode
    BY <1>4, InTreeIsMade, MadeIs, NoNodeIs
  <2>4. Validate(tree, n) = n
    BY <2>1, <2>3 DEF Validate
  <2> QED BY <1>2, <2>2, <2>3, <2>4 DEF Asked
<1> HIDE DEF dirs, affected
<1>8. ASSUME NEW p, p \notin dirs, Changed(p) PROVE Changed(p)'
  <2>1. PICK i \in DOMAIN changes : \E q \in changes[i] : ParentOf[q] = p
    BY <1>8 DEF Changed
  <2>2. changes \in Seq(SUBSET Paths) /\ k \in Nat /\ i \in Nat
    BY DEF Stands
  <2>3. i > k
    BY <1>8, <2>1, <2>2 DEF dirs, Batch
  <2>4. i - k \in DOMAIN changes' /\ changes'[i - k] = changes[i]
    BY <1>2, <2>1, <2>2, <2>3
  <2> QED BY <2>1, <2>4 DEF Changed
<1>9. \A p : Listing(p)' = Listing(p)
  BY <1>2 DEF Listing
<1>10. \A n : Names(n)' = Names(n)
  BY <1>2 DEF Names
<1>11. ASSUME NEW a \in DOMAIN answers
       PROVE  \/ a.seen = Listing(a.request.node.path) \/ Changed(a.request.node.path)'
              \/ a.version < told[a.request.node.path]
  <2> DEFINE p == a.request.node.path
  <2>1. p \in Paths /\ a.version \in 1 .. Version
    BY MadeIs, NodeIs DEF Stands, Dated
  <2>2. a.seen = Listing(p) \/ Changed(p) \/ a.version < d[p]
    BY DEF Fact
  <2>3. a.version = Version => a.seen = Listing(p)
    BY DEF NowIsNow
  <2> HIDE DEF p
  <2>4. CASE p \in dirs
    <3>1. a.version = Version \/ a.version < Version
      BY <1>3, <2>1
    <3> QED BY <1>6, <2>1, <2>3, <2>4, <3>1 DEF p
  <2>5. CASE p \notin dirs
    BY <1>6, <1>8, <2>1, <2>2, <2>5 DEF p
  <2> QED BY <2>4, <2>5
<1>12. ASSUME NEW n \in Node \ outdated'
       PROVE  Names(n) = Listing(n.path) \/ Changed(n.path)' \/ newest'[n] < told[n.path]
  <2>1. n \notin outdated /\ newest'[n] = newest[n] /\ n.path \in Paths
    BY <1>2, NodeIs
  <2>2. Names(n) = Listing(n.path) \/ Changed(n.path) \/ newest[n] < d[n.path]
    BY <2>1 DEF Fact
  <2>3. newest[n] = Version => Names(n) = Listing(n.path)
    BY <2>1 DEF NowIsNow
  <2>4. CASE n.path \in dirs
    <3>1. newest[n] = Version \/ newest[n] < Version
      BY <1>3 DEF Dated
    <3> QED BY <1>6, <2>1, <2>3, <2>4, <3>1
  <2>5. CASE n.path \notin dirs
    BY <1>6, <1>8, <2>1, <2>2, <2>5
  <2> QED BY <2>4, <2>5
<1>13. Exposed' \subseteq Exposed /\ Exposed \subseteq InTree(tree) /\ Exposed \in SUBSET Node
  <2>1. \A n \in Node : Pending(n) => Pending(n)'
    BY <1>2 DEF Pending, Asked
  <2>2. Exposed' \subseteq Exposed
    BY <1>4, <2>1, LessOpen
  <2> QED BY <1>4, <2>2, ExposedIs
<1>14. ASSUME NEW n \in Exposed' \intersect tree'.expanded PROVE KnowsOrWill(n, told[n.path])'
  <2>1. n \in Exposed /\ n \in tree.expanded /\ n \in InTree(tree) /\ n \in Node /\ n.path \in Paths
    BY <1>4, <1>13, NodeIs
  <2>2. CASE n.path \in dirs /\ n \notin deaf
    BY <1>7, <2>1, <2>2 DEF KnowsOrWill
  <2>3. CASE n.path \in dirs /\ n \in deaf
    <3>1. newest'[n] >= told[n.path]
      BY <1>2, <1>3, <1>6, <2>1, <2>3
    <3> QED BY <3>1 DEF KnowsOrWill
  <2>4. CASE n.path \notin dirs
    <3>1. KnowsOrWill(n, d[n.path]) /\ told[n.path] = d[n.path]
      BY <1>6, <2>1, <2>4 DEF Fact
    <3>2. newest'[n] = newest[n]
      BY <1>2, <2>1, <2>4
    <3> QED BY <1>2, <3>1, <3>2 DEF KnowsOrWill, Asked
  <2> QED BY <2>2, <2>3, <2>4
<1>15. Fact(told)'
  BY <1>2, <1>9, <1>10, <1>11, <1>12, <1>14 DEF Fact
<1> QED BY <1>2, <1>15 DEF Told

\* Another root: only the root is exposed, and asked for.
LEMMA FactInRootPut ==
  ASSUME Stands, Stands', Dated, NEW d \in [Paths -> 1 .. Version], Fact(d), RootPut
  PROVE  Told'
<1>1. /\ UNCHANGED <<files, changes, answers, newest, outdated, Version>>
      /\ \A n \in Made(tree) : tree'.children[n] = tree.children[n]
      /\ tree'.root \in Node /\ \E r \in DOMAIN asked' : r.node = tree'.root
  BY MadeIs DEF RootPut, Grown, Version
<1>2. \A p : (Listing(p)' = Listing(p)) /\ (Changed(p)' <=> Changed(p))
  BY <1>1 DEF Listing, Changed
<1>3. Exposed' \subseteq {tree'.root}
  <2> DEFINE r == tree'.root
             S == {r}
  <2>1. Good(tree)' /\ S \in SUBSET Node /\ r \in S
    BY <1>1 DEF Stands
  <2>2. Open'[r] = {}
    BY <1>1 DEF Open, Pending, Asked
  <2>3. Closed(Open', S)
    BY <2>2 DEF Closed
  <2> QED BY <2>1, <2>3, NoMoreExposed
<1>4. ASSUME NEW n \in Exposed' \intersect tree'.expanded PROVE KnowsOrWill(n, d[n.path])'
  BY <1>1, <1>3 DEF KnowsOrWill, Asked
<1>5. Version \in Nat
  BY VersionIs
<1> HIDE DEF Version
<1>6. ASSUME NEW n \in Node \ outdated
      PROVE  Names(n)' = Listing(n.path) \/ Changed(n.path) \/ newest[n] < d[n.path]
  <2>1. CASE n \in Made(tree)
    <3>1. Names(n)' = Names(n)
      BY <1>1, <2>1 DEF Names
    <3> QED BY <3>1 DEF Fact
  <2>2. CASE n \notin Made(tree)
    <3>1. newest[n] = 0 /\ d[n.path] \in 1 .. Version
      BY <2>2, NodeIs DEF Dated
    <3> QED BY <1>5, <3>1
  <2> QED BY <2>1, <2>2
<1>7. Fact(d)'
  BY <1>1, <1>2, <1>4, <1>6 DEF Fact
<1> QED BY <1>1, <1>7 DEF Told

\* An answer: its node may show its children, and those that show theirs are asked for.
LEMMA FactInReceive ==
  ASSUME Stands, Stands', Dated, NEW d \in [Paths -> 1 .. Version], Fact(d), NEW a \in DOMAIN answers, Received(a)
  PROVE  Told'
<1> DEFINE n == a.request.node
           kids == tree'.children[n]
<1>1. /\ n \in Node /\ newest[n] \in Nat /\ a.version \in Nat
      /\ newest'[n] = IF newest[n] < a.version THEN a.version ELSE newest[n]
      /\ \A m \in Node : m # n => newest'[m] = newest[m] /\ (m \in outdated' <=> m \in outdated)
      /\ n \in outdated' <=> a.version < newest[n]
      /\ Version' = Version
  BY NoteIs
<1>2. /\ UNCHANGED <<files, changes>>
      /\ tree'.root = tree.root
      /\ \A m \in Node : m # n => tree'.children[m] = tree.children[m]
      /\ {c.path : c \in kids} = a.seen
      /\ DOMAIN asked \subseteq DOMAIN asked'
      /\ \A m \in (tree'.expanded \ tree.expanded) \union (kids \intersect tree'.expanded) :
           \E r \in DOMAIN asked' : r.node = m
      /\ DOMAIN answers' \subseteq DOMAIN answers
      /\ \A b \in DOMAIN answers : b # a => b \in DOMAIN answers'
  BY DEF Received
<1>3. Good(tree) /\ Good(tree)' /\ kids \in SUBSET Node
  BY <1>1 DEF Stands, Good, Formed
<1>4. Version \in Nat /\ \A m \in Node : m.path \in Paths /\ d[m.path] \in 1 .. Version /\ newest[m] \in Nat
  BY VersionIs, NodeIs DEF Dated
<1> HIDE DEF n, kids, Version
<1>5. \A p : (Listing(p)' = Listing(p)) /\ (Changed(p)' <=> Changed(p))
  BY <1>2 DEF Listing, Changed
<1>6. Exposed \in SUBSET Node /\ Closed(Open, Exposed) /\ (tree.root # NoNode => tree.root \in Exposed)
  BY <1>3, ExposedIs
<1>7. Exposed' \subseteq Exposed \union kids
  <2> DEFINE S == Exposed \union kids
  <2>1. ASSUME NEW m \in Node, m # n PROVE Open'[m] \subseteq Open[m]
    <3>1. Pending(m) => Pending(m)'
      BY <1>2, <2>1 DEF Pending, Asked, n
    <3>2. m \in tree'.expanded \ tree.expanded => Pending(m)'
      BY <1>2 DEF Pending, Asked
    <3> QED BY <1>2, <2>1, <3>1, <3>2 DEF Open
  <2>2. ASSUME NEW m \in kids PROVE Open'[m] = {}
    <3>1. m \in Node
      BY <1>3
    <3>2. m \in tree'.expanded => Pending(m)'
      BY <1>2 DEF Pending, Asked
    <3> QED BY <3>1, <3>2 DEF Open
  <2>3. Open'[n] \subseteq kids
    BY <1>1 DEF Open, kids
  <2>4. ASSUME NEW m \in S PROVE Open'[m] \subseteq S
    <3>1. CASE m \in kids
      BY <2>2, <3>1
    <3>2. CASE m = n
      BY <2>3, <3>2
    <3>3. CASE m \in Exposed /\ m # n
      BY <1>6, <2>1, <3>3 DEF Closed
    <3> QED BY <3>1, <3>2, <3>3
  <2>5. Closed(Open', S) /\ S \in SUBSET Node
    BY <1>3, <1>6, <2>4 DEF Closed
  <2>6. tree'.root # NoNode => tree'.root \in S
    BY <1>2, <1>6
  <2> HIDE DEF S
  <2>7. Exposed' \subseteq S
    BY <1>3, <2>5, <2>6, NoMoreExposed
  <2> QED BY <2>7 DEF S
<1>8. ASSUME NEW m \in Exposed' \intersect tree'.expanded PROVE KnowsOrWill(m, d[m.path])'
  <2>1. CASE m \in kids \/ m \notin tree.expanded
    BY <1>2, <2>1 DEF KnowsOrWill, Asked
  <2>2. CASE m \notin kids /\ m \in tree.expanded
    <3>1. m \in Node /\ KnowsOrWill(m, d[m.path])
      BY <1>6, <1>7, <2>2 DEF Fact
    <3>2. d[m.path] \in Nat /\ newest[m] \in Nat
      BY <1>4, <3>1
    <3>3. CASE Asked(m)
      BY <1>2, <3>3 DEF KnowsOrWill, Asked
    <3>4. CASE newest[m] >= d[m.path]
      <4>1. newest'[m] >= d[m.path]
        BY <1>1, <3>1, <3>2, <3>4
      <4> QED BY <4>1 DEF KnowsOrWill
    <3>5. ASSUME NEW b \in DOMAIN answers, b.request.node = m, b.version >= d[m.path]
          PROVE  KnowsOrWill(m, d[m.path])'
      <4>1. CASE b = a
        <5>1. m = n /\ a.version >= d[m.path]
          BY <3>5, <4>1 DEF n
        <5>2. newest'[m] >= d[m.path]
          BY <1>1, <3>2, <5>1
        <5> QED BY <5>2 DEF KnowsOrWill
      <4>2. CASE b # a
        BY <1>2, <3>5, <4>2 DEF KnowsOrWill
      <4> QED BY <4>1, <4>2
    <3> QED BY <3>1, <3>3, <3>4, <3>5 DEF KnowsOrWill
  <2> QED BY <2>1, <2>2
<1>9. ASSUME NEW m \in Node \ outdated'
      PROVE  Names(m)' = Listing(m.path) \/ Changed(m.path) \/ newest'[m] < d[m.path]
  <2>1. CASE m # n
    <3>1. Names(m)' = Names(m) /\ newest'[m] = newest[m] /\ m \notin outdated
      BY <1>1, <1>2, <2>1 DEF Names
    <3> QED BY <3>1 DEF Fact
  <2>2. CASE m = n
    <3>1. Names(m)' = a.seen
      BY <1>2, <2>2 DEF Names, kids
    <3>2. newest'[m] = a.version
      BY <1>1, <2>2
    <3>3. a.seen = Listing(m.path) \/ Changed(m.path) \/ a.version < d[m.path]
      BY <2>2 DEF Fact, n
    <3> QED BY <3>1, <3>2, <3>3
  <2> QED BY <2>1, <2>2
<1>10. Fact(d)'
  BY <1>2, <1>5, <1>8, <1>9 DEF Fact
<1> QED BY <1>1, <1>10 DEF Told

LEMMA ToldKept ==
  ASSUME Stands, Stands', Dated, NowIsNow, MapHasTree, Told, [Next]_vars
  PROVE  Told'
<1>1. PICK d \in [Paths -> 1 .. Version] : Fact(d)
  BY DEF Told
<1>2. CASE UNCHANGED vars
  <2>1. Fact(d)' /\ Version' = Version
    BY <1>1, <1>2 DEF vars, Fact, Listing, Changed, Names, Exposed, Open, Pending, Asked, KnowsOrWill, Version
  <2> HIDE DEF Version
  <2> QED BY <1>1, <2>1 DEF Told
<1> QED BY <1>1, <1>2, NextIs, FactInChangeFiles, FactInFilesChanged, FactInRootPut, FactInGetFileStat,
           FactInReceive, FactInShown

----------------------------------------------------------------------------
(* Rows: nodes in the order of the tree.                                   *)

At(n) == Position(n.path)

OnePer(S) == \A a, b \in S : a.path = b.path => a = b

LEMMA AtIs == \A n \in Node : At(n) \in 1 .. Len(Order) /\ At(n) \in Nat /\ n.path \in Paths
<1>1. \A n \in Node : n.path \in Paths
  BY NodeIs
<1> QED BY <1>1, Places, Length DEF At

LEMMA AtIsOne ==
  ASSUME NEW S \in SUBSET Node, OnePer(S), NEW a \in S, NEW b \in S, At(a) = At(b)
  PROVE  a = b
<1>1. a.path \in Paths /\ b.path \in Paths
  BY AtIs
<1>2. a.path = b.path
  BY <1>1, Places DEF At
<1> QED BY <1>2 DEF OnePer

LEMMA FiniteRows ==
  ASSUME NEW S \in SUBSET Node, OnePer(S)
  PROVE  IsFiniteSet(S) /\ Cardinality(S) \in Nat
<1> DEFINE f == [n \in S |-> At(n)]
           T == 1 .. Len(Order)
<1>1. f \in [S -> T]
  BY AtIs
<1>2. \A a, b \in S : f[a] = f[b] => a = b
  BY AtIsOne
<1>3. f \in Injection(S, T)
  <2> DOMAIN f = S
    OBVIOUS
  <2> HIDE DEF f, T
  <2> QED BY <1>1, <1>2 DEF Injection, IsInjective
<1>4. IsFiniteSet(T)
  BY FS_Interval, Length
<1> HIDE DEF f, T
<1>5. IsFiniteSet(S)
  BY <1>3, <1>4, FS_Injection
<1> QED BY <1>5, FS_CardinalityType

Sorts(rows, S) ==
  /\ rows \in Seq(S) /\ DOMAIN rows = 1 .. Cardinality(S) /\ Len(rows) = Cardinality(S) /\ Cardinality(S) \in Nat
  /\ \A i \in 1 .. Cardinality(S) : rows[i] \in S
  /\ \A n \in S : \E i \in 1 .. Cardinality(S) : rows[i] = n
  /\ \A i, j \in 1 .. Cardinality(S) : i < j => At(rows[i]) < At(rows[j])

LEMMA SortedIs ==
  ASSUME NEW S \in SUBSET Node, OnePer(S)
  PROVE  Sorts(Sorted(S), S)
<1> DEFINE N == Cardinality(S)
           Before(n) == {m \in S : At(m) < At(n)}
           Rank(n) == Cardinality(Before(n))
           rank == [n \in S |-> Rank(n)]
           rows == Sorted(S)
<1>1. IsFiniteSet(S) /\ N \in Nat
  BY FiniteRows
<1>2. \A n \in S : At(n) \in Nat
  BY AtIs
<1>3. ASSUME NEW n \in S PROVE IsFiniteSet(Before(n)) /\ Rank(n) \in Nat /\ Rank(n) < N
  <2>1. IsFiniteSet(S \ {n}) /\ Cardinality(S \ {n}) = N - 1
    BY <1>1, FS_RemoveElement
  <2>2. Before(n) \in SUBSET (S \ {n})
    BY <1>2
  <2>3. IsFiniteSet(Before(n)) /\ Rank(n) <= N - 1
    BY <2>1, <2>2, FS_Subset
  <2> QED BY <1>1, <2>3, FS_CardinalityType
<1>4. ASSUME NEW a \in S, NEW b \in S, At(a) < At(b) PROVE Rank(a) < Rank(b)
  <2>1. IsFiniteSet(Before(b)) /\ Rank(b) \in Nat /\ Rank(a) \in Nat
    BY <1>3
  <2>2. a \in Before(b)
    BY <1>4
  <2>3. IsFiniteSet(Before(b) \ {a}) /\ Cardinality(Before(b) \ {a}) = Rank(b) - 1
    BY <2>1, <2>2, FS_RemoveElement
  <2>4. Before(a) \in SUBSET (Before(b) \ {a})
    BY <1>2, <1>4
  <2>5. Rank(a) <= Rank(b) - 1
    BY <2>3, <2>4, FS_Subset
  <2> QED BY <2>1, <2>5
<1>20. \A n \in S : rank[n] \in Nat /\ rank[n] < N
  BY <1>3
<1>21. ASSUME NEW a \in S, NEW b \in S, At(a) < At(b) PROVE rank[a] < rank[b]
  BY <1>4, <1>21
<1> HIDE DEF Rank, rank
<1>5. \A a, b \in S : rank[a] = rank[b] => a = b
  <2>1. SUFFICES ASSUME NEW a \in S, NEW b \in S, rank[a] = rank[b], a # b PROVE FALSE
    OBVIOUS
  <2>2. At(a) # At(b)
    BY <2>1, AtIsOne
  <2>3. At(a) < At(b) \/ At(b) < At(a)
    BY <1>2, <2>2
  <2>4. rank[a] < rank[b] \/ rank[b] < rank[a]
    BY <1>21, <2>3
  <2> QED BY <1>20, <2>1, <2>4
<1>22. \A n \in S : rank[n] = Rank(n)
  BY DEF rank
<1> HIDE DEF N
<1>6. rows = [i \in 1 .. N |-> CHOOSE n \in S : Rank(n) = i - 1]
  BY DEF Sorted, At, Rank, N
<1> HIDE DEF rows
<1>7. ASSUME NEW i \in 1 .. N PROVE \E n \in S : rank[n] = i - 1
  <2> DEFINE r == [n \in S |-> rank[n] + 1]
             T == 1 .. N
  <2>1. r \in [S -> T]
    BY <1>1, <1>20
  <2>2. \A a, b \in S : r[a] = r[b] => a = b
    BY <1>20, <1>5
  <2>3. r \in Injection(S, T)
    <3> DOMAIN r = S
      OBVIOUS
    <3> HIDE DEF r, T
    <3> QED BY <2>1, <2>2 DEF Injection, IsInjective
  <2>4. IsFiniteSet(T) /\ Cardinality(T) = N
    BY <1>1, FS_Interval
  <2>5. i \in T
    OBVIOUS
  <2>6. \E n \in S : r[n] = i
    <3> HIDE DEF r, T
    <3>1. r \in Surjection(S, T)
      BY <2>3, <2>4, FS_Injection DEF N
    <3> QED BY <2>5, <3>1 DEF Surjection
  <2>7. PICK n \in S : r[n] = i
    BY <2>6
  <2>8. rank[n] + 1 = i /\ rank[n] \in Nat
    BY <1>20, <2>7
  <2> QED BY <2>8
<1>8. ASSUME NEW i \in 1 .. N PROVE rows[i] \in S /\ rank[rows[i]] = i - 1
  <2> DEFINE P(n) == n \in S /\ Rank(n) = i - 1
  <2>1. rows[i] = CHOOSE n : P(n)
    BY <1>6
  <2>2. \E n : P(n)
    BY <1>7, <1>22
  <2>3. P(rows[i])
    <3> HIDE DEF P
    <3> QED BY <2>1, <2>2
  <2> QED BY <1>22, <2>3
<1>9. ASSUME NEW n \in S PROVE \E i \in 1 .. N : rows[i] = n
  <2> DEFINE i == rank[n] + 1
  <2>1. i \in 1 .. N /\ rank[n] = i - 1
    BY <1>1, <1>20
  <2> QED BY <1>5, <1>8, <2>1
<1>10. ASSUME NEW i \in 1 .. N, NEW j \in 1 .. N, i < j PROVE At(rows[i]) < At(rows[j])
  <2>1. rows[i] \in S /\ rows[j] \in S /\ rank[rows[i]] = i - 1 /\ rank[rows[j]] = j - 1
    BY <1>8
  <2>2. rank[rows[i]] < rank[rows[j]]
    BY <1>1, <1>10, <2>1
  <2>3. At(rows[i]) \in Nat /\ At(rows[j]) \in Nat
    BY <1>2, <2>1
  <2>4. CASE At(rows[i]) = At(rows[j])
    BY <2>1, <2>2, <2>4, AtIsOne, <1>20
  <2>5. CASE At(rows[j]) < At(rows[i])
    <3>1. rank[rows[j]] < rank[rows[i]]
      BY <1>21, <2>1, <2>5
    <3> QED BY <1>20, <2>1, <2>2, <3>1
  <2> QED BY <2>3, <2>4, <2>5
<1>11. DOMAIN rows = 1 .. N /\ rows \in Seq(S)
  BY <1>1, <1>6, <1>8
<1>12. Len(rows) = N
  BY <1>1, <1>11
<1> HIDE DEF Before
<1> QED BY <1>1, <1>8, <1>9, <1>10, <1>11, <1>12 DEF Sorts, N, rows

\* The node of S next to n, on either side.
Follows(S, n, m) == m \in S /\ At(n) < At(m) /\ \A k \in S : At(n) < At(k) => At(m) <= At(k)
Precedes(S, n, m) == m \in S /\ At(m) < At(n) /\ \A k \in S : At(k) < At(n) => At(k) <= At(m)

LEMMA OneFollows ==
  ASSUME NEW S \in SUBSET Node, OnePer(S), NEW n \in Node, NEW a, NEW b
  PROVE  /\ Follows(S, n, a) /\ Follows(S, n, b) => a = b
         /\ Precedes(S, n, a) /\ Precedes(S, n, b) => a = b
<1>1. \A k \in S : At(k) \in Nat
  BY AtIs
<1>2. ASSUME Follows(S, n, a), Follows(S, n, b) PROVE a = b
  <2>1. a \in S /\ b \in S /\ At(a) <= At(b) /\ At(b) <= At(a)
    BY <1>2 DEF Follows
  <2>2. At(a) = At(b)
    BY <1>1, <2>1
  <2> QED BY <2>1, <2>2, AtIsOne
<1>3. ASSUME Precedes(S, n, a), Precedes(S, n, b) PROVE a = b
  <2>1. a \in S /\ b \in S /\ At(a) <= At(b) /\ At(b) <= At(a)
    BY <1>3 DEF Precedes
  <2>2. At(a) = At(b)
    BY <1>1, <2>1
  <2> QED BY <2>1, <2>2, AtIsOne
<1> QED BY <1>2, <1>3

LEMMA Neighbours ==
  ASSUME NEW S \in SUBSET Node, OnePer(S), NEW rows, Sorts(rows, S), NEW i \in 1 .. Cardinality(S)
  PROVE  /\ rows[i] \in S
         /\ i < Cardinality(S) => i + 1 \in DOMAIN rows /\ Follows(S, rows[i], rows[i + 1])
         /\ i = Cardinality(S) => i + 1 \notin DOMAIN rows /\ \A k \in S : At(k) <= At(rows[i])
         /\ i > 1 => i - 1 \in DOMAIN rows /\ Precedes(S, rows[i], rows[i - 1])
         /\ i = 1 => i - 1 \notin DOMAIN rows /\ \A k \in S : At(rows[i]) <= At(k)
<1> DEFINE N == Cardinality(S)
<1>1. N \in Nat /\ DOMAIN rows = 1 .. N /\ \A j \in 1 .. N : rows[j] \in S /\ At(rows[j]) \in Nat
  BY AtIs DEF Sorts
<1>2. \A j, k \in 1 .. N : (j < k => At(rows[j]) < At(rows[k])) /\ (j <= k => At(rows[j]) <= At(rows[k]))
  BY <1>1 DEF Sorts
<1>3. \A k \in S : \E j \in 1 .. N : rows[j] = k
  BY DEF Sorts
<1>4. \A j, k \in 1 .. N : At(rows[j]) < At(rows[k]) => j < k
  BY <1>1, <1>2
<1> HIDE DEF N
<1>5. ASSUME i < N PROVE i + 1 \in DOMAIN rows /\ Follows(S, rows[i], rows[i + 1])
  <2>1. i \in 1 .. N /\ i + 1 \in 1 .. N /\ i < i + 1
    BY <1>1, <1>5 DEF N
  <2>2. ASSUME NEW k \in S, At(rows[i]) < At(k) PROVE At(rows[i + 1]) <= At(k)
    <3>1. PICK j \in 1 .. N : rows[j] = k
      BY <1>3
    <3>2. i < j
      BY <1>4, <2>1, <2>2, <3>1
    <3>3. i + 1 <= j
      BY <1>1, <2>1, <3>2
    <3> QED BY <1>2, <2>1, <3>1, <3>3
  <2> QED BY <1>1, <1>2, <2>1, <2>2 DEF Follows
<1>6. ASSUME i > 1 PROVE i - 1 \in DOMAIN rows /\ Precedes(S, rows[i], rows[i - 1])
  <2>1. i \in 1 .. N /\ i - 1 \in 1 .. N /\ i - 1 < i
    BY <1>1, <1>6 DEF N
  <2>2. ASSUME NEW k \in S, At(k) < At(rows[i]) PROVE At(k) <= At(rows[i - 1])
    <3>1. PICK j \in 1 .. N : rows[j] = k
      BY <1>3
    <3>2. j < i
      BY <1>4, <2>1, <2>2, <3>1
    <3>3. j <= i - 1
      BY <1>1, <2>1, <3>2
    <3> QED BY <1>2, <2>1, <3>1, <3>3
  <2> QED BY <1>1, <1>2, <2>1, <2>2 DEF Precedes
<1>7. ASSUME i = N, NEW k \in S PROVE At(k) <= At(rows[i])
  <2>1. PICK j \in 1 .. N : rows[j] = k
    BY <1>3
  <2>2. j <= i /\ i \in 1 .. N
    BY <1>1, <1>7
  <2> QED BY <1>2, <2>1, <2>2
<1>8. ASSUME i = 1, NEW k \in S PROVE At(rows[i]) <= At(k)
  <2>1. PICK j \in 1 .. N : rows[j] = k
    BY <1>3
  <2>2. i <= j /\ i \in 1 .. N
    BY <1>1, <1>8 DEF N
  <2> QED BY <1>2, <2>1, <2>2
<1>9. (i = N => i + 1 \notin DOMAIN rows) /\ (i = 1 => i - 1 \notin DOMAIN rows) /\ rows[i] \in S
  BY <1>1 DEF N
<1> QED BY <1>5, <1>6, <1>7, <1>8, <1>9 DEF N

\* The ends of the rows.
LEMMA Ends ==
  ASSUME NEW S \in SUBSET Node, OnePer(S)
  PROVE  /\ Sorted(S) = << >> <=> S = {}
         /\ S # {} => /\ Head(Sorted(S)) \in S /\ \A k \in S : At(Head(Sorted(S))) <= At(k)
                      /\ Last(Sorted(S)) \in S /\ \A k \in S : At(k) <= At(Last(Sorted(S)))
<1> DEFINE rows == Sorted(S)
<1>1. Sorts(rows, S)
  BY SortedIs
<1>2. rows \in Seq(S)
  BY <1>1 DEF Sorts
<1> HIDE DEF rows
<1>3. CASE S = {}
  <2>1. Cardinality(S) = 0
    BY <1>3, FS_EmptySet
  <2>2. rows = << >>
    BY <1>1, <1>2, <2>1 DEF Sorts
  <2> QED BY <1>3, <2>2 DEF rows
<1>4. CASE S # {}
  <2>1. Cardinality(S) \in Nat /\ 1 \in 1 .. Cardinality(S) /\ Cardinality(S) \in 1 .. Cardinality(S)
        /\ Len(rows) = Cardinality(S)
    BY <1>1, <1>4 DEF Sorts
  <2>2. rows # << >> /\ Head(rows) = rows[1] /\ Last(rows) = rows[Cardinality(S)]
    BY <1>2, <2>1 DEF Last
  <2> QED BY <1>1, <1>4, <2>1, <2>2, Neighbours DEF rows
<1> QED BY <1>3, <1>4

\* What goes on from one node to the next until it stops, each lower than the one before.
Loop(stop, val, next, h) ==
  /\ DOMAIN val = Node
  /\ \A m \in Node : h[m] \in 0 .. Len(Order)
  /\ \A m \in Node : ~stop[m] => next[m] \in Node /\ h[next[m]] < h[m]

LEMMA LoopIs ==
  ASSUME NEW stop, NEW val, NEW next, NEW h, Loop(stop, val, next, h)
  PROVE  \E f : /\ f = [m \in Node |-> f[m]]
                /\ \A m \in Node : f[m] = IF stop[m] THEN val[m] ELSE f[next[m]]
<1> DEFINE bound == Len(Order) + 1
<1>20. bound \in Nat /\ \A m \in Node : h[m] \in Nat /\ h[m] < bound
  BY Length DEF Loop
<1>21. \A m \in Node : ~stop[m] => next[m] \in Node /\ h[next[m]] < h[m]
  BY DEF Loop
<1> HIDE DEF bound
<1> DEFINE Step(f, m) == IF stop[m] THEN val[m] ELSE f[next[m]]
           Upto(f, k) == \A m \in Node : h[m] < k => f[m] = Step(f, m)
           T == {k \in Nat : \A f : ~Upto(f, k)}
<1>1. ASSUME NEW k \in Nat, NEW f, Upto(f, k)
      PROVE  LET g == [m \in Node |-> Step(f, m)]
             IN  \A m \in Node : h[m] < k + 1 => g[m] = Step(g, m)
  <2> DEFINE g == [m \in Node |-> Step(f, m)]
  <2> SUFFICES ASSUME NEW m \in Node, h[m] < k + 1 PROVE g[m] = Step(g, m)
    OBVIOUS
  <2>1. CASE stop[m]
    BY <2>1
  <2>2. CASE ~stop[m]
    <3>1. next[m] \in Node /\ h[next[m]] \in Nat /\ h[m] \in Nat /\ h[next[m]] < h[m]
      BY <1>20, <1>21, <2>2
    <3>2. h[next[m]] < k
      BY <3>1
    <3>3. f[next[m]] = Step(f, next[m])
      BY <1>1, <3>1, <3>2
    <3>4. g[next[m]] = Step(f, next[m])
      BY <3>1
    <3>5. g[m] = f[next[m]] /\ Step(g, m) = g[next[m]]
      BY <2>2
    <3> QED BY <3>3, <3>4, <3>5
  <2> QED BY <2>1, <2>2
<1>2. T = {}
  <2> SUFFICES ASSUME T # {} PROVE FALSE
    OBVIOUS
  <2>1. T \in SUBSET Nat
    OBVIOUS
  <2>2. PICK k \in T : \A j \in T : k <= j
    BY <2>1, Least
  <2>3. k \in Nat /\ k # 0
    <3>1. Upto([m \in Node |-> 0], 0)
      BY <1>20
    <3> HIDE DEF Upto
    <3> QED BY <3>1
  <2>4. k - 1 \in Nat /\ k - 1 \notin T /\ (k - 1) + 1 = k
    BY <2>2, <2>3
  <2>5. PICK f : Upto(f, k - 1)
    BY <2>4
  <2>6. Upto([m \in Node |-> Step(f, m)], k)
    BY <1>1, <2>4, <2>5
  <2> HIDE DEF Upto
  <2> QED BY <2>6
<1>3. PICK f : Upto(f, bound)
  <2> HIDE DEF Upto
  <2> QED BY <1>2, <1>20
<1> DEFINE g == [m \in Node |-> Step(f, m)]
<1>4. \A m \in Node : g[m] = f[m]
  BY <1>3, <1>20
<1>5. ASSUME NEW m \in Node PROVE Step(g, m) = Step(f, m)
  <2>1. CASE stop[m]
    BY <2>1
  <2>2. CASE ~stop[m]
    BY <1>4, <1>21, <2>2
  <2> QED BY <2>1, <2>2
<1>6. \A m \in Node : g[m] = Step(g, m)
  BY <1>5
<1>7. g = [m \in Node |-> g[m]]
  OBVIOUS
<1> HIDE DEF g
<1> QED BY <1>6, <1>7

\* What comes next to n in S, or NoNode when nothing does.
Goes(S, n, m) == (m = NoNode /\ \A k \in S : At(k) <= At(n)) \/ Follows(S, n, m)
Comes(S, n, m) == (m = NoNode /\ \A k \in S : At(n) <= At(k)) \/ Precedes(S, n, m)

LEMMA SomeGoes ==
  ASSUME NEW S \in SUBSET Node, NEW n \in Node
  PROVE  (\E m : Goes(S, n, m)) /\ (\E m : Comes(S, n, m))
<1>1. \A k \in S : At(k) \in Nat
  BY AtIs
<1>2. At(n) \in Nat
  BY AtIs
<1>3. \E m : Goes(S, n, m)
  <2> DEFINE T == {k \in S : At(n) < At(k)}
  <2>1. CASE T = {}
    BY <1>1, <1>2, <2>1 DEF Goes
  <2>2. CASE T # {}
    <3>1. T \in SUBSET Node
      OBVIOUS
    <3>2. PICK m \in T : \A k \in T : Position(m.path) <= Position(k.path)
      BY <2>2, <3>1, Highest
    <3>3. Follows(S, n, m)
      BY <3>2 DEF Follows, At
    <3> QED BY <3>3 DEF Goes
  <2> QED BY <2>1, <2>2
<1>4. \E m : Comes(S, n, m)
  <2> DEFINE T == {k \in S : At(k) < At(n)}
  <2>1. CASE T = {}
    BY <1>1, <1>2, <2>1 DEF Comes
  <2>2. CASE T # {}
    <3>1. T \in SUBSET Node
      OBVIOUS
    <3>2. PICK m \in T : \A k \in T : Position(k.path) <= Position(m.path)
      BY <2>2, <3>1, Deepest
    <3>3. Precedes(S, n, m)
      BY <3>2 DEF Precedes, At
    <3> QED BY <3>3 DEF Comes
  <2> QED BY <2>1, <2>2
<1> QED BY <1>3, <1>4

LEMMA SiblingIs ==
  ASSUME NEW t, Formed(t.children), NEW n \in Node, t.parent[n] \in Node, n \in t.children[t.parent[n]]
  PROVE  /\ Goes(t.children[t.parent[n]], n, Sibling(t, n, "next"))
         /\ Comes(t.children[t.parent[n]], n, Sibling(t, n, "prev"))
<1> DEFINE K == t.children[t.parent[n]]
           row == Sorted(K)
           i == IndexOf(t, n)
<1>1. K \in SUBSET Node /\ OnePer(K)
  BY DEF Formed, OnePer
<1>2. Sorts(row, K)
  BY <1>1, SortedIs
<1>3. t.parent[n] # NoNode /\ n \in K
  BY NoNodeIs
<1>4. i = IF \E j \in DOMAIN row : row[j].path = n.path
          THEN CHOOSE j \in DOMAIN row : row[j].path = n.path ELSE 0
  BY DEF IndexOf
<1>5. /\ Sibling(t, n, "next") = IF i + 1 \in DOMAIN row THEN row[i + 1] ELSE NoNode
      /\ Sibling(t, n, "prev") = IF i - 1 \in DOMAIN row THEN row[i - 1] ELSE NoNode
  BY <1>3 DEF Sibling
<1> HIDE DEF K, row, i
<1>6. DOMAIN row = 1 .. Cardinality(K) /\ Cardinality(K) \in Nat
  BY <1>2 DEF Sorts
<1>7. i \in 1 .. Cardinality(K) /\ row[i] = n
  <2>1. \E j \in DOMAIN row : row[j].path = n.path
    BY <1>2, <1>3, <1>6 DEF Sorts
  <2>2. i \in DOMAIN row /\ row[i].path = n.path
    BY <1>4, <2>1
  <2>3. row[i] \in K
    BY <1>2, <1>6, <2>2 DEF Sorts
  <2> QED BY <1>1, <1>3, <1>6, <2>2, <2>3 DEF OnePer
<1>8. /\ i < Cardinality(K) => i + 1 \in DOMAIN row /\ Follows(K, row[i], row[i + 1])
      /\ i = Cardinality(K) => i + 1 \notin DOMAIN row /\ \A k \in K : At(k) <= At(row[i])
      /\ i > 1 => i - 1 \in DOMAIN row /\ Precedes(K, row[i], row[i - 1])
      /\ i = 1 => i - 1 \notin DOMAIN row /\ \A k \in K : At(row[i]) <= At(k)
  BY <1>1, <1>2, <1>7, Neighbours
<1>9. Goes(K, n, Sibling(t, n, "next"))
  <2>1. CASE i < Cardinality(K)
    BY <1>5, <1>7, <1>8, <2>1 DEF Goes
  <2>2. CASE i = Cardinality(K)
    BY <1>5, <1>7, <1>8, <2>2 DEF Goes
  <2> QED BY <1>6, <1>7, <2>1, <2>2
<1>10. Comes(K, n, Sibling(t, n, "prev"))
  <2>1. CASE i > 1
    BY <1>5, <1>7, <1>8, <2>1 DEF Comes
  <2>2. CASE i = 1
    BY <1>5, <1>7, <1>8, <2>2 DEF Comes
  <2> QED BY <1>6, <1>7, <2>1, <2>2
<1> QED BY <1>9, <1>10 DEF K

LEMMA RowIs ==
  ASSUME NEW t, Formed(t.children), NEW n \in Node
  PROVE  /\ Row(t, n) = << >> <=> (n \notin t.expanded \/ t.children[n] = {})
         /\ Row(t, n) # << >> =>
              /\ n \in t.expanded
              /\ Head(Row(t, n)) \in t.children[n] /\ \A k \in t.children[n] : At(Head(Row(t, n))) <= At(k)
              /\ Last(Row(t, n)) \in t.children[n] /\ \A k \in t.children[n] : At(k) <= At(Last(Row(t, n)))
<1> DEFINE K == t.children[n]
<1>1. K \in SUBSET Node /\ OnePer(K)
  BY DEF Formed, OnePer
<1>2. CASE n \notin t.expanded
  BY <1>2 DEF Row
<1>3. CASE n \in t.expanded
  <2>1. Row(t, n) = Sorted(K)
    BY <1>3 DEF Row
  <2> HIDE DEF K
  <2>2. /\ Row(t, n) = << >> <=> K = {}
        /\ K # {} => /\ Head(Row(t, n)) \in K /\ \A k \in K : At(Head(Row(t, n))) <= At(k)
                     /\ Last(Row(t, n)) \in K /\ \A k \in K : At(k) <= At(Last(Row(t, n)))
    BY <1>1, <2>1, Ends
  <2> QED BY <1>3, <2>2 DEF K
<1> QED BY <1>2, <1>3

LEMMA Above ==
  ASSUME NEW parent, Parented(parent), NEW m \in Node, parent[m] # NoNode
  PROVE  parent[m] \in Node /\ At(parent[m]) < At(m)
<1>1. parent[m] \in Node /\ m.path # Top /\ parent[m].path = ParentOf[m.path] /\ m.path \in Paths
  BY NodeIs DEF Parented
<1> QED BY <1>1, Upward DEF At

\* The iterations of the two iterators are functions.
UpFrom(t, g) ==
  \A m \in Node :
    g[m] = IF Sibling(t, m, "next") # NoNode \/ t.parent[m] = NoNode THEN Sibling(t, m, "next") ELSE g[t.parent[m]]

LEMMA NextNodeIs ==
  ASSUME NEW t, Parented(t.parent), NEW n \in Node
  PROVE  \E g : UpFrom(t, g) /\ NextNode(t, n) = IF Row(t, n) # << >> THEN Head(Row(t, n)) ELSE g[n]
<1> DEFINE Is(f) == f = [m \in Node |-> IF Sibling(t, m, "next") = NoNode /\ t.parent[m] # NoNode
                                         THEN f[t.parent[m]] ELSE Sibling(t, m, "next")]
           stop == [m \in Node |-> Sibling(t, m, "next") # NoNode \/ t.parent[m] = NoNode]
           val == [m \in Node |-> Sibling(t, m, "next")]
           next == [m \in Node |-> t.parent[m]]
           h == [m \in Node |-> At(m)]
<1>1. ASSUME NEW f, f = [m \in Node |-> f[m]], \A m \in Node : f[m] = IF stop[m] THEN val[m] ELSE f[next[m]]
      PROVE  Is(f)
  <2>1. \A m \in Node : f[m] = IF Sibling(t, m, "next") = NoNode /\ t.parent[m] # NoNode
                                THEN f[t.parent[m]] ELSE Sibling(t, m, "next")
    BY <1>1
  <2> HIDE DEF stop, val, next
  <2> QED BY <1>1, <2>1
<1>2. ASSUME NEW f, Is(f) PROVE UpFrom(t, f)
  BY <1>2 DEF UpFrom
<1>3. \E f : f = [m \in Node |-> f[m]] /\ \A m \in Node : f[m] = IF stop[m] THEN val[m] ELSE f[next[m]]
  <2>1. DOMAIN val = Node /\ \A m \in Node : h[m] \in 0 .. Len(Order)
    BY AtIs, Length
  <2>2. \A m \in Node : ~stop[m] => next[m] \in Node /\ h[next[m]] < h[m]
    BY Above
  <2> HIDE DEF stop, val, next, h
  <2>3. Loop(stop, val, next, h)
    BY <2>1, <2>2 DEF Loop
  <2> QED BY <2>3, LoopIs
<1>4. \E f : Is(f)
  <2> HIDE DEF Is, stop, val, next
  <2> QED BY <1>1, <1>3
<1>5. NextNode(t, n) = IF Row(t, n) # << >> THEN Head(Row(t, n)) ELSE (CHOOSE f : Is(f))[n]
  BY DEF NextNode
<1>6. Is(CHOOSE f : Is(f))
  <2> HIDE DEF Is
  <2> QED BY <1>4
<1> HIDE DEF Is
<1> QED BY <1>2, <1>5, <1>6

DownFrom(t, g) == \A m \in Node : g[m] = IF Row(t, m) = << >> THEN m ELSE g[Last(Row(t, m))]

LEMMA PrevNodeIs ==
  ASSUME NEW t, Formed(t.children), NEW n \in Node
  PROVE  \E g : /\ DownFrom(t, g)
                /\ PrevNode(t, n) = IF Sibling(t, n, "prev") # NoNode THEN g[Sibling(t, n, "prev")] ELSE t.parent[n]
<1> DEFINE Is(f) == f = [m \in Node |-> IF Row(t, m) = << >> THEN m ELSE f[Last(Row(t, m))]]
           stop == [m \in Node |-> Row(t, m) = << >>]
           val == [m \in Node |-> m]
           next == [m \in Node |-> Last(Row(t, m))]
           h == [m \in Node |-> Len(Order) - At(m)]
<1>1. ASSUME NEW f, f = [m \in Node |-> f[m]], \A m \in Node : f[m] = IF stop[m] THEN val[m] ELSE f[next[m]]
      PROVE  Is(f)
  <2>1. \A m \in Node : f[m] = IF Row(t, m) = << >> THEN m ELSE f[Last(Row(t, m))]
    BY <1>1
  <2> HIDE DEF stop, val, next
  <2> QED BY <1>1, <2>1
<1>2. ASSUME NEW f, Is(f) PROVE DownFrom(t, f)
  BY <1>2 DEF DownFrom
<1>3. \E f : f = [m \in Node |-> f[m]] /\ \A m \in Node : f[m] = IF stop[m] THEN val[m] ELSE f[next[m]]
  <2>1. DOMAIN val = Node /\ \A m \in Node : h[m] \in 0 .. Len(Order)
    BY AtIs, Length
  <2>2. ASSUME NEW m \in Node, ~stop[m] PROVE next[m] \in Node /\ h[next[m]] < h[m]
    <3>1. Last(Row(t, m)) \in t.children[m]
      BY <2>2, RowIs
    <3>2. Last(Row(t, m)) \in Node /\ At(m) < At(Last(Row(t, m)))
      BY <3>1, FormedIs DEF At
    <3>3. At(m) \in Nat /\ At(Last(Row(t, m))) \in Nat
      BY <3>2, AtIs
    <3> QED BY <3>2, <3>3, Length
  <2> HIDE DEF stop, val, next, h
  <2>3. Loop(stop, val, next, h)
    BY <2>1, <2>2 DEF Loop
  <2> QED BY <2>3, LoopIs
<1>4. \E f : Is(f)
  <2> HIDE DEF Is, stop, val, next
  <2> QED BY <1>1, <1>3
<1>5. PrevNode(t, n) = IF Sibling(t, n, "prev") # NoNode THEN (CHOOSE f : Is(f))[Sibling(t, n, "prev")] ELSE t.parent[n]
  BY DEF PrevNode
<1>6. Is(CHOOSE f : Is(f))
  <2> HIDE DEF Is
  <2> QED BY <1>4
<1> HIDE DEF Is
<1> QED BY <1>2, <1>5, <1>6

----------------------------------------------------------------------------
(* The arrow keys and the rows.                                           *)

\* The rows V of a tree t in which parents and children agree.
Board(t, V) ==
  /\ V \in SUBSET Node /\ OnePer(V)
  /\ Formed(t.children) /\ Parented(t.parent)
  /\ t.root \in V /\ t.parent[t.root] = NoNode
  /\ \A n \in V \ {t.root} :
       /\ t.parent[n] \in V /\ t.parent[n] \in t.expanded
       /\ n \in t.children[t.parent[n]]
  /\ \A n \in V \intersect t.expanded : \A c \in t.children[n] : c \in V /\ c # t.root /\ t.parent[c] = n

\* Rows do not lie across each other: what is between a parent and its child is below the parent.
LEMMA Nested ==
  ASSUME NEW t, NEW V, Board(t, V)
  PROVE  /\ \A n \in V : n \in Node /\ At(n) \in Nat
         /\ \A n \in V \ {t.root} : At(t.parent[n]) < At(n)
         /\ \A a, b \in V \ {t.root} :
              At(t.parent[a]) < At(b) /\ At(b) < At(a) => At(t.parent[a]) <= At(t.parent[b])
<1>1. \A n \in V : n \in Node /\ At(n) \in Nat /\ n.path \in Paths
  BY AtIs DEF Board
<1>2. ASSUME NEW n \in V \ {t.root}
      PROVE  n.path # Top /\ t.parent[n].path = ParentOf[n.path] /\ n.path \in DOMAIN ParentOf
  <2>1. t.parent[n] \in Node /\ t.parent[n] # NoNode
    BY <1>1, NoNodeIs DEF Board
  <2>2. n.path # Top /\ t.parent[n].path = ParentOf[n.path]
    BY <1>1, <2>1 DEF Board, Parented
  <2> QED BY <1>1, <2>2, TreeAssumption
<1>3. \A n \in V \ {t.root} : At(t.parent[n]) < At(n)
  BY <1>1, <1>2, Upward DEF At
<1>4. \A a, b \in V \ {t.root} :
        At(t.parent[a]) < At(b) /\ At(b) < At(a) => At(t.parent[a]) <= At(t.parent[b])
  BY <1>2, TreeAssumption DEF At
<1> QED BY <1>1, <1>3, <1>4

LEMMA RootFirst ==
  ASSUME NEW t, NEW V, Board(t, V)
  PROVE  \A n \in V : At(t.root) <= At(n)
<1>1. V \in SUBSET Node /\ t.root \in V /\ t.root \in Node
  BY DEF Board
<1>2. PICK n \in V : \A k \in V : Position(n.path) <= Position(k.path)
  BY <1>1, Highest
<1>3. n = t.root
  <2> SUFFICES ASSUME n # t.root PROVE FALSE
    OBVIOUS
  <2>1. t.parent[n] \in V /\ At(t.parent[n]) < At(n) /\ At(t.parent[n]) \in Nat /\ At(n) \in Nat
    BY Nested DEF Board
  <2> QED BY <1>2, <2>1 DEF At
<1> QED BY <1>2, <1>3 DEF At

\* Down: while the iteration goes up from n, all between where it is and n is below that, and nothing
\* after n is its child.
Passed(t, V, n, x) ==
  /\ x \in V /\ At(x) <= At(n)
  /\ \A y \in V \ {t.root} : At(x) < At(y) /\ At(y) <= At(n) => At(x) <= At(t.parent[y])
  /\ \A y \in V \ {t.root} : At(n) < At(y) => At(n) < At(t.parent[y]) \/ At(t.parent[y]) < At(x)

LEMMA UpIsNext ==
  ASSUME NEW t, NEW V, Board(t, V), NEW n \in V, NEW g, UpFrom(t, g), Passed(t, V, n, n)
  PROVE  Goes(V, n, g[n])
<1> DEFINE T == {x \in V : Passed(t, V, n, x) /\ ~Goes(V, n, g[x])}
<1>1. SUFFICES ASSUME T # {} PROVE FALSE
  OBVIOUS
<1>2. V \in SUBSET Node /\ OnePer(V) /\ t.root \in V /\ Formed(t.children) /\ t.parent[t.root] = NoNode
  BY DEF Board
<1>3. PICK x \in T : \A y \in T : Position(x.path) <= Position(y.path)
  <2>1. T \in SUBSET Node
    BY <1>2
  <2> HIDE DEF T
  <2> QED BY <1>1, <2>1, Highest
<1>4. x \in V /\ x \in Node /\ n \in Node /\ Passed(t, V, n, x) /\ ~Goes(V, n, g[x])
  BY <1>2
<1>5. \A k \in V : At(k) \in Nat
  BY Nested
<1>6. PICK m : Goes(V, n, m)
  BY <1>2, <1>4, SomeGoes
<1>7. CASE x = t.root
  <2>1. t.parent[x] = NoNode /\ Sibling(t, x, "next") = NoNode
    BY <1>2, <1>7 DEF Sibling
  <2>2. g[x] = NoNode
    BY <1>4, <2>1 DEF UpFrom
  <2>3. ~Follows(V, n, m)
    <3> SUFFICES ASSUME Follows(V, n, m) PROVE FALSE
      OBVIOUS
    <3>1. m \in V /\ At(n) < At(m) /\ \A k \in V : At(n) < At(k) => At(m) <= At(k)
      BY DEF Follows
    <3>2. m # t.root
      BY <1>4, <1>5, <3>1, RootFirst
    <3>3. t.parent[m] \in V /\ At(t.parent[m]) < At(m)
      BY <3>1, <3>2, Nested DEF Board
    <3>4. At(t.parent[m]) < At(x)
      BY <1>4, <1>5, <3>1, <3>2, <3>3 DEF Passed
    <3> QED BY <1>4, <1>5, <1>7, <3>3, <3>4, RootFirst
  <2> QED BY <1>4, <1>6, <2>2, <2>3 DEF Goes
<1>8. CASE x # t.root
  <2> DEFINE z == t.parent[x]
             K == t.children[z]
             s == Sibling(t, x, "next")
  <2>1. z \in V /\ z \in Node /\ x \in K /\ At(z) < At(x) /\ z # NoNode /\ z \in t.expanded
    BY <1>2, <1>4, <1>8, Nested, NoNodeIs DEF Board
  <2>2. \A c \in K : c \in V /\ c # t.root /\ t.parent[c] = z
    BY <2>1 DEF Board
  <2>3. Goes(K, x, s)
    BY <1>2, <1>4, <2>1, SiblingIs
  <2>4. g[x] = IF s # NoNode THEN s ELSE g[z]
    BY <1>4, <2>1 DEF UpFrom
  <2> HIDE DEF K, s, z
  <2>5. CASE Follows(K, x, s)
    <3>1. s \in K /\ At(x) < At(s) /\ (\A k \in K : At(x) < At(k) => At(s) <= At(k)) /\ s \in V /\ s # t.root
          /\ t.parent[s] = z
      BY <2>2, <2>5 DEF Follows
    <3>2. At(n) < At(s)
      <4> SUFFICES ASSUME ~(At(n) < At(s)) PROVE FALSE
        OBVIOUS
      <4>1. At(s) <= At(n)
        BY <1>5, <3>1
      <4>2. At(x) <= At(z)
        BY <1>4, <3>1, <4>1 DEF Passed
      <4> QED BY <1>4, <1>5, <2>1, <4>2
    <3>3. Follows(V, n, m)
      BY <1>5, <1>6, <3>1, <3>2 DEF Goes
    <3>4. m \in V /\ At(n) < At(m) /\ (\A k \in V : At(n) < At(k) => At(m) <= At(k)) /\ At(m) <= At(s)
      BY <3>1, <3>2, <3>3 DEF Follows
    <3>5. m # t.root
      BY <1>4, <1>5, <3>4, RootFirst
    <3> DEFINE p == t.parent[m]
    <3>6. p \in V /\ At(p) < At(m) /\ m \in t.children[p]
      BY <3>4, <3>5, Nested DEF Board
    <3>7. At(p) < At(x)
      <4>1. ~(At(n) < At(p))
        BY <1>5, <3>4, <3>6
      <4> QED BY <1>4, <3>4, <3>5, <4>1 DEF Passed
    <3> HIDE DEF p
    <3>8. m = s
      <4> SUFFICES ASSUME m # s PROVE FALSE
        OBVIOUS
      <4>1. At(m) < At(s)
        BY <1>2, <1>5, <3>1, <3>4, AtIsOne
      <4>2. At(x) <= At(n) /\ At(x) < At(m) /\ At(z) < At(m)
        BY <1>4, <1>5, <2>1, <3>4 DEF Passed
      <4>3. At(z) <= At(p)
        BY <3>1, <3>4, <3>5, <4>1, <4>2, Nested DEF p
      <4>4. CASE At(z) = At(p)
        <5>1. z = p
          BY <1>2, <2>1, <3>6, <4>4, AtIsOne
        <5>2. m \in K
          BY <3>6, <5>1 DEF K
        <5> QED BY <1>5, <3>1, <3>4, <4>1, <4>2, <5>2
      <4>5. CASE At(z) < At(p)
        <5>1. At(p) <= At(z)
          BY <1>4, <1>8, <3>4, <3>5, <3>7, <4>2, Nested DEF p, z
        <5> QED BY <1>5, <2>1, <3>6, <4>5, <5>1
      <4> QED BY <1>5, <2>1, <3>6, <4>3, <4>4, <4>5
    <3>9. g[x] = m
      BY <1>2, <2>4, <3>1, <3>8, NoNodeIs
    <3> QED BY <1>4, <1>6, <3>9
  <2>6. CASE s = NoNode /\ \A k \in K : At(k) <= At(x)
    <3>1. g[x] = g[z]
      BY <2>4, <2>6
    <3>2. ASSUME NEW y \in V \ {t.root}, At(z) < At(y), At(y) <= At(n) PROVE At(z) <= At(t.parent[y])
      <4>1. t.parent[y] \in V
        BY DEF Board
      <4>2. CASE At(x) < At(y)
        <5>1. At(x) <= At(t.parent[y])
          BY <1>4, <3>2, <4>2 DEF Passed
        <5> QED BY <1>4, <1>5, <2>1, <4>1, <5>1
      <4>3. CASE At(y) < At(x)
        BY <1>4, <1>8, <3>2, <4>3, Nested DEF z
      <4>4. CASE At(y) = At(x)
        <5>1. y = x
          BY <1>2, <1>4, <4>4, AtIsOne
        <5> QED BY <1>5, <2>1, <5>1 DEF z
      <4> QED BY <1>4, <1>5, <4>2, <4>3, <4>4
    <3>3. ASSUME NEW y \in V \ {t.root}, At(n) < At(y) PROVE At(n) < At(t.parent[y]) \/ At(t.parent[y]) < At(z)
      <4> DEFINE p == t.parent[y]
      <4>1. p \in V /\ y \in t.children[p]
        BY DEF Board
      <4>2. At(n) < At(p) \/ At(p) < At(x)
        BY <1>4, <3>3 DEF Passed
      <4>3. At(x) < At(y)
        BY <1>4, <1>5, <3>3 DEF Passed
      <4>4. CASE At(p) < At(x)
        <5>1. At(p) <= At(z)
          BY <1>4, <1>8, <4>3, <4>4, Nested DEF z
        <5>2. At(p) # At(z)
          <6> SUFFICES ASSUME At(p) = At(z) PROVE FALSE
            OBVIOUS
          <6>1. p = z
            BY <1>2, <2>1, <4>1, AtIsOne
          <6>2. y \in K
            BY <4>1, <6>1 DEF K
          <6> QED BY <1>4, <1>5, <2>6, <4>3, <6>2
        <5> QED BY <1>5, <2>1, <4>1, <5>1, <5>2
      <4> QED BY <4>2, <4>4
    <3>4. At(z) <= At(n)
      BY <1>4, <1>5, <2>1 DEF Passed
    <3>5. Passed(t, V, n, z)
      BY <2>1, <3>2, <3>3, <3>4 DEF Passed
    <3>6. z \notin T
      BY <1>3, <1>4, <1>5, <2>1 DEF At
    <3> QED BY <1>4, <2>1, <3>1, <3>5, <3>6
  <2> QED BY <2>3, <2>5, <2>6 DEF Goes
<1> QED BY <1>7, <1>8

LEMMA NextIsNext ==
  ASSUME NEW t, NEW V, Board(t, V), NEW n \in V
  PROVE  Goes(V, n, NextNode(t, n))
<1>1. V \in SUBSET Node /\ OnePer(V) /\ t.root \in V /\ Formed(t.children) /\ Parented(t.parent) /\ n \in Node
  BY DEF Board
<1>2. PICK g : UpFrom(t, g) /\ NextNode(t, n) = IF Row(t, n) # << >> THEN Head(Row(t, n)) ELSE g[n]
  BY <1>1, NextNodeIs
<1>3. \A k \in V : At(k) \in Nat
  BY Nested
<1> DEFINE K == t.children[n]
<1>4. CASE Row(t, n) = << >>
  <2>1. n \notin t.expanded \/ K = {}
    BY <1>1, <1>4, RowIs
  <2>2. ASSUME NEW y \in V \ {t.root}, At(n) < At(y) PROVE At(n) < At(t.parent[y]) \/ At(t.parent[y]) < At(n)
    <3>1. t.parent[y] \in V /\ t.parent[y] \in t.expanded /\ y \in t.children[t.parent[y]]
      BY DEF Board
    <3>2. t.parent[y] # n
      BY <2>1, <3>1
    <3>3. At(t.parent[y]) # At(n)
      BY <1>1, <3>1, <3>2, AtIsOne
    <3> QED BY <1>3, <3>1, <3>3
  <2>3. Passed(t, V, n, n)
    BY <1>3, <2>2 DEF Passed
  <2>4. Goes(V, n, g[n])
    BY <1>2, <2>3, UpIsNext
  <2> QED BY <1>2, <1>4, <2>4
<1>5. CASE Row(t, n) # << >>
  <2> DEFINE c == Head(Row(t, n))
  <2>1. n \in t.expanded /\ c \in K /\ \A k \in K : At(c) <= At(k)
    BY <1>1, <1>5, RowIs
  <2>2. \A k \in K : k \in V /\ k # t.root /\ t.parent[k] = n
    BY <2>1 DEF Board
  <2>3. c \in V /\ c # t.root /\ t.parent[c] = n /\ At(n) < At(c)
    BY <2>1, <2>2, Nested
  <2> HIDE DEF c, K
  <2>4. PICK m : Goes(V, n, m)
    BY <1>1, SomeGoes
  <2>5. Follows(V, n, m)
    BY <1>3, <2>3, <2>4 DEF Goes
  <2>6. m \in V /\ At(n) < At(m) /\ (\A k \in V : At(n) < At(k) => At(m) <= At(k)) /\ At(m) <= At(c)
    BY <2>3, <2>5 DEF Follows
  <2>7. m # t.root
    BY <1>3, <2>6, RootFirst
  <2> DEFINE p == t.parent[m]
  <2>8. p \in V /\ At(p) < At(m) /\ m \in t.children[p] /\ p \in t.expanded
    BY <2>6, <2>7, Nested DEF Board
  <2>9. m = c
    <3> SUFFICES ASSUME m # c PROVE FALSE
      OBVIOUS
    <3>1. At(m) < At(c)
      BY <1>1, <1>3, <2>3, <2>6, AtIsOne
    <3>2. At(n) <= At(p)
      BY <2>3, <2>6, <2>7, <3>1, Nested
    <3>3. ~(At(n) < At(p))
      BY <1>3, <2>6, <2>8
    <3>4. At(n) = At(p)
      BY <1>3, <2>8, <3>2, <3>3
    <3>5. n = p
      BY <1>1, <2>8, <3>4, AtIsOne
    <3>6. m \in K
      BY <2>8, <3>5 DEF K
    <3>7. At(c) <= At(m)
      BY <2>1, <3>6
    <3> QED BY <1>3, <2>3, <2>6, <3>1, <3>7
  <2> QED BY <1>2, <1>5, <2>4, <2>9 DEF c
<1> QED BY <1>4, <1>5

\* Up: while the iteration goes down below the sibling before n, all between where it is and n is below
\* that, and so are its children.
Nearing(t, V, n, x) ==
  /\ x \in V /\ At(t.parent[n]) < At(x) /\ At(x) < At(n)
  /\ \A y \in V \ {t.root} : At(x) < At(y) /\ At(y) < At(n) => At(x) <= At(t.parent[y])

LEMMA DownIsPrev ==
  ASSUME NEW t, NEW V, Board(t, V), NEW n \in V \ {t.root}, NEW g, DownFrom(t, g), NEW s, Nearing(t, V, n, s)
  PROVE  Comes(V, n, g[s])
<1> DEFINE T == {x \in V : Nearing(t, V, n, x) /\ ~Comes(V, n, g[x])}
           z == t.parent[n]
<1>1. SUFFICES ASSUME T # {} PROVE FALSE
  BY DEF Nearing
<1>2. V \in SUBSET Node /\ OnePer(V) /\ t.root \in V /\ Formed(t.children)
  BY DEF Board
<1>3. PICK x \in T : \A y \in T : Position(y.path) <= Position(x.path)
  <2>1. T \in SUBSET Node
    BY <1>2
  <2> HIDE DEF T
  <2> QED BY <1>1, <2>1, Deepest
<1>4. x \in V /\ x \in Node /\ n \in Node /\ Nearing(t, V, n, x) /\ ~Comes(V, n, g[x])
  BY <1>2
<1>5. \A k \in V : At(k) \in Nat
  BY Nested
<1>6. z \in V /\ At(z) < At(n)
  BY Nested DEF Board
<1> HIDE DEF z
<1>7. At(z) < At(x) /\ At(x) < At(n)
  BY <1>4 DEF Nearing, z
<1> DEFINE K == t.children[x]
<1>8. CASE Row(t, x) = << >>
  <2>1. x \notin t.expanded \/ K = {}
    BY <1>2, <1>4, <1>8, RowIs
  <2>2. PICK m : Comes(V, n, m)
    BY <1>2, <1>4, SomeGoes
  <2>3. Precedes(V, n, m)
    BY <1>4, <1>5, <1>7, <2>2 DEF Comes
  <2>4. m \in V /\ At(m) < At(n) /\ At(x) <= At(m)
    BY <1>4, <1>7, <2>3 DEF Precedes
  <2>5. m = x
    <3> SUFFICES ASSUME m # x PROVE FALSE
      OBVIOUS
    <3> DEFINE A == {y \in V : At(x) < At(y)}
    <3>1. At(x) < At(m)
      BY <1>2, <1>4, <1>5, <2>4, AtIsOne
    <3>2. A \in SUBSET Node /\ A # {}
      BY <1>2, <2>4, <3>1
    <3>3. PICK y \in A : \A k \in A : Position(y.path) <= Position(k.path)
      BY <3>2, Highest
    <3>4. y \in V /\ At(x) < At(y) /\ At(y) <= At(m)
      BY <2>4, <3>1, <3>3 DEF At
    <3>5. At(y) < At(n) /\ y # t.root
      BY <1>4, <1>5, <2>4, <3>4, RootFirst
    <3> DEFINE p == t.parent[y]
    <3>6. p \in V /\ At(p) < At(y) /\ y \in t.children[p] /\ p \in t.expanded
      BY <3>4, <3>5, Nested DEF Board
    <3>7. At(x) <= At(p)
      BY <1>4, <3>4, <3>5 DEF Nearing
    <3>8. ~(At(x) < At(p))
      <4> SUFFICES ASSUME At(x) < At(p) PROVE FALSE
        OBVIOUS
      <4>1. At(y) <= At(p)
        BY <3>3, <3>6 DEF At
      <4> QED BY <1>5, <3>4, <3>6, <4>1
    <3>9. p = x
      BY <1>2, <1>4, <1>5, <3>6, <3>7, <3>8, AtIsOne
    <3> QED BY <2>1, <3>6, <3>9
  <2>6. g[x] = x
    BY <1>4, <1>8 DEF DownFrom
  <2> QED BY <1>4, <2>2, <2>5, <2>6
<1>9. CASE Row(t, x) # << >>
  <2> DEFINE c == Last(Row(t, x))
  <2>1. x \in t.expanded /\ c \in K /\ \A k \in K : At(k) <= At(c)
    BY <1>2, <1>4, <1>9, RowIs
  <2>2. \A k \in K : k \in V /\ k # t.root /\ t.parent[k] = x
    BY <1>4, <2>1 DEF Board
  <2>3. c \in V /\ c # t.root /\ t.parent[c] = x /\ At(x) < At(c)
    BY <2>1, <2>2, Nested
  <2>4. g[x] = g[c]
    BY <1>4, <1>9 DEF DownFrom
  <2> HIDE DEF c, K
  <2>5. At(z) < At(c)
    BY <1>4, <1>5, <1>6, <1>7, <2>3
  <2>6. At(c) < At(n)
    <3>1. c # n
      BY <1>5, <1>6, <1>7, <2>3 DEF z
    <3>2. At(c) # At(n)
      BY <1>2, <2>3, <3>1, AtIsOne
    <3>3. ~(At(n) < At(c))
      <4> SUFFICES ASSUME At(n) < At(c) PROVE FALSE
        OBVIOUS
      <4>1. At(x) <= At(z)
        BY <1>7, <2>3, Nested DEF z
      <4> QED BY <1>4, <1>5, <1>6, <1>7, <4>1
    <3> QED BY <1>5, <2>3, <3>2, <3>3
  <2>7. ASSUME NEW y \in V \ {t.root}, At(c) < At(y), At(y) < At(n) PROVE At(c) <= At(t.parent[y])
    <3> DEFINE p == t.parent[y]
    <3>1. p \in V /\ y \in t.children[p] /\ At(p) < At(y)
      BY Nested DEF Board
    <3>2. At(x) <= At(p)
      BY <1>4, <1>5, <2>3, <2>7 DEF Nearing
    <3> SUFFICES ASSUME ~(At(c) <= At(p)) PROVE FALSE
      OBVIOUS
    <3>3. At(p) < At(c)
      BY <1>5, <2>3, <3>1
    <3>4. At(p) <= At(x)
      BY <2>3, <2>7, <3>3, Nested
    <3>5. p = x
      BY <1>2, <1>4, <1>5, <3>1, <3>2, <3>4, AtIsOne
    <3>6. At(y) <= At(c)
      BY <2>1, <3>1, <3>5 DEF K
    <3> QED BY <1>5, <2>3, <2>7, <3>6
  <2>8. Nearing(t, V, n, c)
    BY <2>3, <2>5, <2>6, <2>7 DEF Nearing, z
  <2>9. c \notin T
    BY <1>3, <1>4, <1>5, <2>3 DEF At
  <2> QED BY <1>4, <2>3, <2>4, <2>8, <2>9
<1> QED BY <1>8, <1>9

LEMMA PrevIsPrev ==
  ASSUME NEW t, NEW V, Board(t, V), NEW n \in V
  PROVE  Comes(V, n, PrevNode(t, n))
<1>1. V \in SUBSET Node /\ OnePer(V) /\ t.root \in V /\ Formed(t.children) /\ n \in Node /\ t.parent[t.root] = NoNode
  BY DEF Board
<1>2. PICK g : /\ DownFrom(t, g)
               /\ PrevNode(t, n) = IF Sibling(t, n, "prev") # NoNode THEN g[Sibling(t, n, "prev")] ELSE t.parent[n]
  BY <1>1, PrevNodeIs
<1>3. \A k \in V : At(k) \in Nat
  BY Nested
<1>4. CASE n = t.root
  <2>1. Sibling(t, n, "prev") = NoNode
    BY <1>1, <1>4 DEF Sibling
  <2>2. PrevNode(t, n) = NoNode
    BY <1>1, <1>2, <1>4, <2>1
  <2> QED BY <1>4, <2>2, RootFirst DEF Comes
<1>5. CASE n # t.root
  <2> DEFINE z == t.parent[n]
             K == t.children[z]
             s == Sibling(t, n, "prev")
  <2>1. z \in V /\ z \in Node /\ n \in K /\ At(z) < At(n) /\ z \in t.expanded
    BY <1>1, <1>5, Nested DEF Board
  <2>2. \A c \in K : c \in V /\ c # t.root /\ t.parent[c] = z
    BY <2>1 DEF Board
  <2>3. Comes(K, n, s)
    BY <1>1, <2>1, SiblingIs
  <2>4. PrevNode(t, n) = IF s # NoNode THEN g[s] ELSE z
    BY <1>2
  <2> HIDE DEF K, s, z
  <2>5. CASE Precedes(K, n, s)
    <3>1. s \in K /\ At(s) < At(n) /\ (\A k \in K : At(k) < At(n) => At(k) <= At(s)) /\ s \in V /\ s # t.root
          /\ t.parent[s] = z /\ At(z) < At(s)
      BY <2>2, <2>5, Nested DEF Precedes
    <3>2. ASSUME NEW y \in V \ {t.root}, At(s) < At(y), At(y) < At(n) PROVE At(s) <= At(t.parent[y])
      <4> DEFINE p == t.parent[y]
      <4>1. p \in V /\ y \in t.children[p] /\ At(p) < At(y)
        BY Nested DEF Board
      <4>2. At(z) <= At(p)
        <5>1. At(z) < At(y)
          BY <1>3, <2>1, <3>1, <3>2
        <5> QED BY <1>5, <3>2, <5>1, Nested DEF z
      <4> SUFFICES ASSUME ~(At(s) <= At(p)) PROVE FALSE
        OBVIOUS
      <4>3. At(p) < At(s)
        BY <1>3, <3>1, <4>1
      <4>4. At(p) <= At(z)
        BY <3>1, <3>2, <4>3, Nested
      <4>5. p = z
        BY <1>1, <1>3, <2>1, <4>1, <4>2, <4>4, AtIsOne
      <4>6. At(y) <= At(s)
        BY <3>1, <3>2, <4>1, <4>5 DEF K
      <4> QED BY <1>3, <3>1, <3>2, <4>6
    <3>3. Nearing(t, V, n, s)
      BY <3>1, <3>2 DEF Nearing, z
    <3>4. s # NoNode
      BY <1>1, <3>1, NoNodeIs
    <3> QED BY <1>2, <1>5, <2>4, <3>3, <3>4, DownIsPrev
  <2>6. CASE s = NoNode /\ \A k \in K : At(n) <= At(k)
    <3>1. PICK m : Comes(V, n, m)
      BY <1>1, SomeGoes
    <3>2. Precedes(V, n, m)
      BY <1>3, <2>1, <3>1 DEF Comes
    <3>3. m \in V /\ At(m) < At(n) /\ At(z) <= At(m)
      BY <2>1, <3>2 DEF Precedes
    <3>4. m = z
      <4> SUFFICES ASSUME m # z PROVE FALSE
        OBVIOUS
      <4> DEFINE A == {y \in V : At(z) < At(y)}
      <4>1. At(z) < At(m)
        BY <1>1, <1>3, <2>1, <3>3, AtIsOne
      <4>2. A \in SUBSET Node /\ A # {}
        BY <1>1, <3>3, <4>1
      <4>3. PICK y \in A : \A k \in A : Position(y.path) <= Position(k.path)
        BY <4>2, Highest
      <4>4. y \in V /\ At(z) < At(y) /\ At(y) <= At(m)
        BY <3>3, <4>1, <4>3 DEF At
      <4>5. At(y) < At(n) /\ y # t.root
        BY <1>3, <2>1, <3>3, <4>4, RootFirst
      <4> DEFINE p == t.parent[y]
      <4>6. p \in V /\ At(p) < At(y) /\ y \in t.children[p]
        BY <4>4, <4>5, Nested DEF Board
      <4>7. At(z) <= At(p)
        BY <1>5, <4>4, <4>5, Nested DEF z
      <4>8. ~(At(z) < At(p))
        <5> SUFFICES ASSUME At(z) < At(p) PROVE FALSE
          OBVIOUS
        <5>1. At(y) <= At(p)
          BY <4>3, <4>6 DEF At
        <5> QED BY <1>3, <4>4, <4>6, <5>1
      <4>9. p = z
        BY <1>1, <1>3, <2>1, <4>6, <4>7, <4>8, AtIsOne
      <4>10. At(n) <= At(y)
        BY <2>6, <4>6, <4>9 DEF K
      <4> QED BY <1>3, <4>4, <4>5, <4>10
    <3> QED BY <2>4, <2>6, <3>1, <3>4
  <2> QED BY <2>3, <2>5, <2>6 DEF Comes
<1> QED BY <1>4, <1>5

LEMMA RowsAreWalked ==
  ASSUME NEW t, NEW V, Board(t, V)
  PROVE  LET rows == Sorted(V)
         IN  \A i \in DOMAIN rows :
               /\ NextNode(t, rows[i]) = IF i < Len(rows) THEN rows[i + 1] ELSE NoNode
               /\ PrevNode(t, rows[i]) = IF i > 1 THEN rows[i - 1] ELSE NoNode
<1> DEFINE rows == Sorted(V)
           N == Cardinality(V)
<1>1. V \in SUBSET Node /\ OnePer(V)
  BY DEF Board
<1>2. Sorts(rows, V)
  BY <1>1, SortedIs
<1> HIDE DEF rows
<1>3. N \in Nat /\ DOMAIN rows = 1 .. N /\ Len(rows) = N
  BY <1>2 DEF Sorts
<1> SUFFICES ASSUME NEW i \in 1 .. N
             PROVE  /\ NextNode(t, rows[i]) = IF i < N THEN rows[i + 1] ELSE NoNode
                    /\ PrevNode(t, rows[i]) = IF i > 1 THEN rows[i - 1] ELSE NoNode
  BY <1>3 DEF rows
<1> DEFINE n == rows[i]
<1>4. /\ n \in V
      /\ i < N => Follows(V, n, rows[i + 1])
      /\ i = N => \A k \in V : At(k) <= At(n)
      /\ i > 1 => Precedes(V, n, rows[i - 1])
      /\ i = 1 => \A k \in V : At(n) <= At(k)
  BY <1>1, <1>2, Neighbours
<1>5. n \in Node /\ \A k \in V : At(k) \in Nat
  BY <1>1, <1>4, AtIs
<1>6. Goes(V, n, NextNode(t, n)) /\ Comes(V, n, PrevNode(t, n))
  BY <1>4, NextIsNext, PrevIsPrev
<1> HIDE DEF n, N
<1>7. NextNode(t, n) = IF i < N THEN rows[i + 1] ELSE NoNode
  <2>1. CASE i < N
    <3>1. Follows(V, n, rows[i + 1]) /\ rows[i + 1] \in V /\ At(n) < At(rows[i + 1])
      BY <1>4, <2>1 DEF Follows
    <3>2. Follows(V, n, NextNode(t, n))
      BY <1>4, <1>5, <1>6, <3>1 DEF Goes
    <3> QED BY <1>1, <1>5, <2>1, <3>1, <3>2, OneFollows
  <2>2. CASE i = N
    <3>1. ~Follows(V, n, NextNode(t, n))
      BY <1>4, <1>5, <2>2 DEF Follows
    <3>2. NextNode(t, n) = NoNode
      BY <1>6, <3>1 DEF Goes
    <3> QED BY <1>3, <2>2, <3>2
  <2> QED BY <1>3, <2>1, <2>2 DEF N
<1>8. PrevNode(t, n) = IF i > 1 THEN rows[i - 1] ELSE NoNode
  <2>1. CASE i > 1
    <3>1. Precedes(V, n, rows[i - 1]) /\ rows[i - 1] \in V /\ At(rows[i - 1]) < At(n)
      BY <1>4, <2>1 DEF Precedes
    <3>2. Precedes(V, n, PrevNode(t, n))
      BY <1>4, <1>5, <1>6, <3>1 DEF Comes
    <3> QED BY <1>1, <1>5, <2>1, <3>1, <3>2, OneFollows
  <2>2. CASE i = 1
    <3>1. ~Precedes(V, n, PrevNode(t, n))
      BY <1>4, <1>5, <2>2 DEF Precedes
    <3>2. PrevNode(t, n) = NoNode
      BY <1>6, <3>1 DEF Comes
    <3> QED BY <2>2, <3>2
  <2> QED BY <1>3, <2>1, <2>2 DEF N
<1> QED BY <1>7, <1>8 DEF n

\* The rows of a tree that is well formed are such rows.
LEMMA VisibleIsBoard ==
  ASSUME NEW t, Good(t), t.root # NoNode,
         \A n \in InTree(t) : \A c \in t.children[n] : t.parent[c] = n
  PROVE  Board(t, Visible(t))
<1> DEFINE r == t.root
           open == ShownChildren(t)
           V == Reached(open, r)
<1>1. Formed(t.children) /\ Parented(t.parent) /\ r.path = Top /\ r \in Node
  BY MadeIs DEF Good
<1>2. \A n \in Node : open[n] = IF n \in t.expanded THEN t.children[n] ELSE {}
  BY DEF ShownChildren
<1>3. Formed(open)
  <2>1. open \in [Node -> SUBSET Node]
    BY <1>1 DEF ShownChildren, Formed
  <2> HIDE DEF open
  <2> QED BY <1>1, <1>2, <2>1 DEF Formed
<1>4. Visible(t) = V
  BY <1>1, <1>3, VisitedIsReached DEF Visible
<1> HIDE DEF open
<1>5. open \in [Node -> SUBSET Node]
  BY <1>3 DEF Formed
<1>6. r \in V /\ V \in SUBSET Node /\ Closed(open, V)
  BY <1>1, <1>5, ReachedIs
<1>7. OnePer(V)
  BY <1>1, <1>3, OnePerPath DEF OnePer
<1>8. V \subseteq InTree(t)
  <2> DEFINE I == Subtree(t, r)
  <2>1. I \in SUBSET Node /\ r \in I /\ Closed(t.children, I) /\ InTree(t) = I
    BY <1>1, SubtreeIs DEF InTree
  <2> HIDE DEF I
  <2>2. Closed(open, I)
    BY <1>2, <2>1 DEF Closed
  <2> QED BY <1>1, <1>5, <2>1, <2>2, ReachedIs
<1>9. t.parent[r] = NoNode
  BY <1>1 DEF Parented
<1> HIDE DEF V
<1>10. ASSUME NEW n \in V, n # r
       PROVE  t.parent[n] \in V /\ t.parent[n] \in t.expanded /\ n \in t.children[t.parent[n]]
  <2>1. PICK k \in V : n \in open[k]
    BY <1>1, <1>3, <1>10, OverParent DEF V
  <2>2. k \in Node /\ k \in t.expanded /\ n \in t.children[k]
    BY <1>2, <1>6, <2>1
  <2>3. t.parent[n] = k
    BY <1>8, <2>1, <2>2
  <2> QED BY <2>1, <2>2, <2>3
<1>11. ASSUME NEW n \in V, n \in t.expanded, NEW c \in t.children[n]
       PROVE  c \in V /\ c # r /\ t.parent[c] = n
  <2>1. n \in Node /\ c \in open[n]
    BY <1>2, <1>6, <1>11
  <2>2. c \in V
    BY <1>6, <2>1 DEF Closed
  <2>3. t.parent[c] = n
    BY <1>8
  <2>4. c # r
    BY <1>9, <2>1, <2>3, NoNodeIs
  <2> QED BY <2>2, <2>3, <2>4
<1> QED BY <1>1, <1>4, <1>6, <1>7, <1>9, <1>10, <1>11 DEF Board

----------------------------------------------------------------------------
(* The theorems.                                                           *)

LEMMA MapKept ==
  ASSUME Stands, MapHasTree, [Next]_vars
  PROVE  MapHasTree'
<1>1. CASE ChangeFiles
  BY <1>1, ChangeFilesIs DEF MapHasTree
<1>2. CASE FilesChanged
  BY <1>2, FilesChangedIs DEF MapHasTree, Hears
<1>3. CASE RootPut
  BY <1>3 DEF MapHasTree, RootPut, Mapped
<1>4. CASE GetFileStat
  BY <1>4, GetFileStatIs DEF MapHasTree
<1>5. ASSUME NEW a \in DOMAIN answers, Received(a) PROVE MapHasTree'
  BY <1>5, ReceiveKeepsMap
<1>6. CASE Shown
  BY <1>6, ShownIs DEF MapHasTree
<1>7. CASE UNCHANGED vars
  BY <1>7 DEF vars, MapHasTree
<1> QED BY <1>1, <1>2, <1>3, <1>4, <1>5, <1>6, <1>7, NextIs

LEMMA InitIs == ASSUME Init PROVE IInv
<1>1. /\ tree.root = NoNode /\ tree.nodes = [p \in Paths |-> NoNode]
      /\ tree.children = [n \in Node |-> {}] /\ tree.parent = [n \in Node |-> NoNode]
      /\ tree.expanded = {} /\ tree.created = [p \in Paths |-> 0]
  BY DEF Init
<1>2. Good(tree)
  <2>1. tree \in Trees
    BY DEF Init, Trees
  <2>2. tree.root.path = Top /\ Parented(tree.parent)
    BY <1>1, NoNodeIs DEF Parented
  <2> QED BY <1>1, <2>1, <2>2 DEF Good, Formed
<1>3. inputs \in Inputs /\ Version = 1
  BY DEF Init, Inputs, Version
<1>4. IsABag(asked) /\ IsABag(answers) /\ DOMAIN asked = {} /\ DOMAIN answers = {}
  BY NoBag DEF Init
<1>5. Stands
  BY <1>2, <1>3, <1>4 DEF Stands, Init
<1> HIDE DEF Version
<1>6. Dated
  BY <1>3, <1>4 DEF Dated, Init
<1>7. NowIsNow
  BY <1>3, <1>4 DEF NowIsNow, Init
<1>8. Told
  <2> DEFINE d == [p \in Paths |-> 1]
  <2>1. d \in [Paths -> 1 .. Version]
    BY <1>3
  <2>2. \A n \in Node : newest[n] < d[n.path]
    BY NodeIs DEF Init
  <2>3. Exposed = {}
    BY <1>1 DEF Exposed
  <2> HIDE DEF d
  <2>4. Fact(d)
    BY <1>4, <2>2, <2>3 DEF Fact
  <2> QED BY <2>1, <2>4 DEF Told
<1>9. MapHasTree
  BY <1>1 DEF MapHasTree, InTree
<1> QED BY <1>5, <1>6, <1>7, <1>8, <1>9 DEF IInv

LEMMA StepKeeps == ASSUME IInv, [Next]_vars PROVE IInv'
BY StandsKept, DatedKept, NowIsNowKept, ToldKept, MapKept DEF IInv

\* When nothing is under way all the children that are shown are exposed.
LEMMA QuietIs == ASSUME IInv PROVE QuietTreeIsCurrent
<1> SUFFICES ASSUME asked = EmptyBag, answers = EmptyBag, changes = << >>,
                    NEW n \in Visible(tree) \intersect tree.expanded, n \notin outdated
             PROVE  {c.path : c \in tree.children[n]} = {p \in files \ {Top} : ParentOf[p] = n.path}
  BY DEF QuietTreeIsCurrent
<1>1. DOMAIN asked = {} /\ DOMAIN answers = {} /\ Good(tree)
  BY NoBag DEF IInv, Stands
<1>2. Open = ShownChildren(tree)
  BY <1>1 DEF Open, Pending, Asked, ShownChildren
<1>3. n \in Exposed /\ n \in Node
  <2>1. tree.root # NoNode /\ tree.root \in Node
    BY <1>1, MadeIs DEF Visible, Good
  <2>2. Formed(Open)
    BY <1>1, OpenIs
  <2> DEFINE children == Open
  <2>3. Visible(tree) = Visited(children, tree.root) /\ Exposed = Reached(children, tree.root) /\ Formed(children)
    BY <1>2, <2>1, <2>2 DEF Visible, Exposed
  <2> HIDE DEF children
  <2>4. Visible(tree) = Exposed
    BY <2>1, <2>3, VisitedIsReached
  <2> QED BY <1>1, <2>4, ExposedIs
<1>4. PICK d \in [Paths -> 1 .. Version] : Fact(d)
  BY DEF IInv, Told
<1>5. newest[n] >= d[n.path]
  BY <1>1, <1>3, <1>4 DEF Fact, KnowsOrWill, Asked
<1>6. ~Changed(n.path)
  BY DEF Changed
<1>7. ~(newest[n] < d[n.path])
  <2>1. newest[n] \in Nat /\ d[n.path] \in Nat
    BY <1>3, VersionIs, NodeIs DEF IInv, Dated
  <2> QED BY <1>5, <2>1
<1> QED BY <1>3, <1>4, <1>6, <1>7 DEF Fact, Names, Listing

LEMMA ArrowsAre == ASSUME IInv PROVE ArrowsFollowRows
<1> SUFFICES ASSUME ParentsAgree
             PROVE  LET rows == Sorted(Visible(tree))
                    IN  \A i \in DOMAIN rows :
                          /\ NextNode(tree, rows[i]) = IF i < Len(rows) THEN rows[i + 1] ELSE NoNode
                          /\ PrevNode(tree, rows[i]) = IF i > 1 THEN rows[i - 1] ELSE NoNode
  BY DEF ArrowsFollowRows
<1>1. CASE tree.root = NoNode
  <2>1. Visible(tree) = {} /\ Visible(tree) \in SUBSET Node /\ OnePer(Visible(tree))
    BY <1>1 DEF Visible, OnePer
  <2>2. Sorted(Visible(tree)) = << >>
    BY <2>1, Ends
  <2> QED BY <2>2
<1>2. CASE tree.root # NoNode
  <2>1. Board(tree, Visible(tree))
    BY <1>2, VisibleIsBoard DEF IInv, Stands, ParentsAgree
  <2> QED BY <2>1, RowsAreWalked
<1> QED BY <1>1, <1>2

LEMMA Invariance == Spec => []IInv
BY InitIs, StepKeeps, PTL DEF Spec

\* Whatever is deleted, set, expanded or answered in whichever order, the tree finds each of its nodes
\* by the path, but for the paths at which an object from outside of the tree was put into the map
\* (tree.ts: setChildren, removeNode and addNode; tree-model.ts: root).
THEOREM MapFindsTree == Spec => []MapHasTree
<1>1. IInv => MapHasTree
  BY DEF IInv
<1> QED BY <1>1, Invariance, PTL

\* When no call, answer or change is under way, each expanded directory that is shown has as children
\* what is on disk, unless an older answer came to it after a newer one, or the tree could not find it
\* when it was told of a change (file-tree-model.ts: onFilesChanged; tree.ts: refresh; file-tree.ts:
\* resolveChildren; tree-expansion.ts: the refresh of expanded children).
THEOREM QuietIsCurrent == Spec => []QuietTreeIsCurrent
BY QuietIs, Invariance, PTL

\* Where the children of every node of the tree have it as parent, the next and the previous node of a
\* row are the rows below and above it, of whatever the navigator shows (tree-iterator.ts: doNext of
\* the two iterators, by siblings and parents; tree-widget.ts: the rows, by depth first).
THEOREM ArrowsAreRows == Spec => []ArrowsFollowRows
BY ArrowsAre, Invariance, PTL
=============================================================================
