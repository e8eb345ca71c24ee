-------------------------- MODULE ChainTableProofs --------------------------
(***************************************************************************)
(* Proofs about ChainTable: an inductive invariant, for every set of keys, *)
(* hash function and memory size, the safety invariants that follow from   *)
(* it, and that each step of the table is one of the abstract map. First   *)
(* the lemmas about arrays of chains and what links, unlinks or rewrites a *)
(* node in one, then one lemma per action, then the theorems.              *)
(***************************************************************************)
EXTENDS ChainTable, SequenceTheorems, TableLemmas

-----------------------------------------------------------------------------
(* Arrays of chains. A place is a pair of a bucket and a position in it.   *)

Chains(n) == [0 .. n - 1 -> Seq(Node)]

NodeAt(array, p) == array[p[1]][p[2]]

\* Every node is in the bucket its hash selects.
WellPlaced(array, n) ==
  \A p \in Places(array) :
    /\ NodeAt(array, p).hash = Hash[NodeAt(array, p).key]
    /\ NodeAt(array, p).hash % n = p[1]

\* No key has two nodes.
DistinctKeys(array) ==
  \A p, q \in Places(array) : NodeAt(array, p).key = NodeAt(array, q).key => p = q

\* The key k has no node.
Absent(array, k) == \A p \in Places(array) : NodeAt(array, p).key # k

\* The place right behind the last node of bucket b.
Behind(array, b) == <<b, Len(array[b]) + 1>>

\* Places by bucket and position.
Paired(array, n) ==
  /\ \A p \in Places(array) :
       /\ p[1] \in 0 .. n - 1 /\ p[2] \in 1 .. Len(array[p[1]])
       /\ p = <<p[1], p[2]>>
       /\ NodeAt(array, p) \in Node
  /\ \A b \in 0 .. n - 1 : \A i \in 1 .. Len(array[b]) : <<b, i>> \in Places(array)
  /\ \A b \in 0 .. n - 1 : Len(array[b]) \in Nat

\* An array of chains has its places by bucket and position.
LEMMA PlacePairs ==
  ASSUME NEW n \in Nat, NEW array \in Chains(n)
  PROVE  Paired(array, n)
<1> USE DEF Chains
<1>1. \A b \in 0 .. n - 1 : /\ array[b] \in Seq(Node)
                            /\ Len(array[b]) \in Nat
                            /\ DOMAIN array[b] = 1 .. Len(array[b])
  BY LenProperties
<1>2. DOMAIN array = 0 .. n - 1
  OBVIOUS
<1>3. ASSUME NEW p \in Places(array)
      PROVE  /\ p[1] \in 0 .. n - 1 /\ p[2] \in 1 .. Len(array[p[1]])
             /\ p = <<p[1], p[2]>>
             /\ NodeAt(array, p) \in Node
  <2>1. PICK b \in 0 .. n - 1 : p \in {b} \X DOMAIN array[b]
    BY <1>2 DEF Places
  <2>2. /\ p[1] = b /\ p[2] \in 1 .. Len(array[b])
        /\ p = <<p[1], p[2]>>
    BY <2>1, <1>1
  <2>3. array[b][p[2]] \in Node
    BY <2>2, <1>1, ElementOfSeq
  <2>4. QED
    BY <2>2, <2>3 DEF NodeAt
<1>4. ASSUME NEW b \in 0 .. n - 1, NEW i \in 1 .. Len(array[b])
      PROVE  <<b, i>> \in Places(array)
  <2>1. <<b, i>> \in {b} \X DOMAIN array[b]
    BY <1>1
  <2>2. QED
    BY <2>1, <1>2 DEF Places
<1>5. QED
  BY <1>1, <1>3, <1>4 DEF Paired

\* The places of an array can be counted.
LEMMA PlacesFinite ==
  ASSUME NEW n \in Nat, NEW array \in Chains(n)
  PROVE  IsFiniteSet(Places(array)) /\ Cardinality(Places(array)) \in Nat
<1> USE DEF Chains
<1> DEFINE f == [b \in 0 .. n - 1 |-> {b} \X DOMAIN array[b]]
           S == {{b} \X DOMAIN array[b] : b \in 0 .. n - 1}
<1>1. f \in Surjection(0 .. n - 1, S)
  BY DEF Surjection
<1>2. IsFiniteSet(S)
  <2>1. IsFiniteSet(0 .. n - 1)
    BY FS_Interval
  <2>2. QED
    BY <1>1, <2>1, FS_Surjection
<1>3. ASSUME NEW b \in 0 .. n - 1
      PROVE  IsFiniteSet({b} \X DOMAIN array[b])
  <2>1. Len(array[b]) \in Nat /\ DOMAIN array[b] = 1 .. Len(array[b])
    BY LenProperties
  <2>2. IsFiniteSet(1 .. Len(array[b]))
    BY <2>1, FS_Interval
  <2>3. IsFiniteSet({b})
    BY FS_Singleton
  <2>4. QED
    BY <2>1, <2>2, <2>3, FS_Product
<1>4. Places(array) = UNION S
  BY DEF Places
<1>5. IsFiniteSet(Places(array))
  <2>1. \A T \in S : IsFiniteSet(T)
    BY <1>3
  <2> HIDE DEF S
  <2>2. QED
    BY <1>2, <1>4, <2>1, FS_UNION
<1>6. QED
  BY <1>5, FS_CardinalityType

\* A freshly allocated array has no nodes.
LEMMA CallocFacts ==
  ASSUME NEW n \in Nat
  PROVE  /\ Calloc(n) \in Chains(n)
         /\ Places(Calloc(n)) = {} /\ Nodes(Calloc(n)) = {}
         /\ Cardinality(Places(Calloc(n))) = 0
<1>1. Calloc(n) \in Chains(n)
  BY EmptySeq DEF Calloc, Chains
<1>2. Places(Calloc(n)) = {}
  <2>1. \A b \in 0 .. n - 1 : Len(Calloc(n)[b]) = 0
    BY EmptySeq DEF Calloc, Chains
  <2>2. QED
    BY <1>1, <2>1, PlacePairs DEF Paired
<1>3. QED
  BY <1>1, <1>2, FS_EmptySet DEF Nodes

\* new is array with the node linked in front of the chain of bucket b.
Pushed(new, array, n, b, node) ==
  /\ new \in Chains(n)
  /\ new[b] = <<node>> \o array[b]
  /\ \A c \in 0 .. n - 1 : c # b => new[c] = array[c]

\* Prepending to a chain pushes a node.
LEMMA PushType ==
  ASSUME NEW n \in Nat, NEW array \in Chains(n), NEW b \in 0 .. n - 1,
         NEW node \in Node
  PROVE  Pushed([array EXCEPT ![b] = <<node>> \o @], array, n, b, node)
<1>1. array[b] \in Seq(Node) /\ <<node>> \in Seq(Node)
  BY DEF Chains
<1>2. <<node>> \o array[b] \in Seq(Node)
  BY <1>1, ConcatProperties
<1>3. QED
  BY <1>2 DEF Pushed, Chains

\* Linking a node in front of a chain. Old(p) is where the node at p was.
LEMMA PushFront ==
  ASSUME NEW n \in Nat, NEW array \in Chains(n),
         NEW b \in 0 .. n - 1, NEW node \in Node,
         NEW new, Pushed(new, array, n, b, node)
  PROVE  /\ Cardinality(Places(new)) = Cardinality(Places(array)) + 1
         /\ Nodes(new) = Nodes(array) \cup {node}
         /\ node.hash = Hash[node.key] /\ node.hash % n = b /\ WellPlaced(array, n) =>
              WellPlaced(new, n)
         /\ Absent(array, node.key) /\ DistinctKeys(array) => DistinctKeys(new)
         /\ \A k : k # node.key /\ Absent(array, k) => Absent(new, k)
<1> DEFINE Old(p) == IF p[1] = b THEN <<b, p[2] - 1>> ELSE p
           len == Len(array[b])
<1>1. array[b] \in Seq(Node) /\ len \in Nat /\ <<node>> \in Seq(Node) /\ Len(<<node>>) = 1
  BY LenProperties DEF Chains
<1>2. /\ <<node>> \o array[b] \in Seq(Node)
      /\ Len(<<node>> \o array[b]) = len + 1
      /\ \A i \in 1 .. len + 1 :
           (<<node>> \o array[b])[i] = IF i <= 1 THEN <<node>>[i] ELSE array[b][i - 1]
  BY <1>1, ConcatProperties
<1>3. /\ new \in Chains(n)
      /\ \A c \in 0 .. n - 1 : c # b => new[c] = array[c]
      /\ Len(new[b]) = len + 1 /\ new[b][1] = node
      /\ \A i \in 2 .. len + 1 : new[b][i] = array[b][i - 1]
  BY <1>1, <1>2 DEF Pushed
<1>4. Paired(new, n) /\ Paired(array, n)
  BY <1>3, PlacePairs
<1>5. /\ <<b, 1>> \in Places(new) /\ NodeAt(new, <<b, 1>>) = node
      /\ Behind(array, b) \notin Places(array)
  <2>1. 1 \in 1 .. Len(new[b])
    BY <1>1, <1>3
  <2>2. <<b, 1>> \in Places(new)
    BY <2>1, <1>4 DEF Paired
  <2>3. Behind(array, b) \notin Places(array)
    <3>1. Behind(array, b)[1] = b /\ Behind(array, b)[2] = len + 1
      BY DEF Behind
    <3>2. QED
      BY <3>1, <1>1, <1>4 DEF Paired
  <2>4. QED
    BY <2>2, <2>3, <1>3 DEF NodeAt
<1>6. ASSUME NEW p \in Places(new), p # <<b, 1>>
      PROVE  /\ Old(p) \in Places(array) /\ Old(p)[1] = p[1]
             /\ NodeAt(new, p) = NodeAt(array, Old(p))
             /\ p = IF Old(p)[1] = b THEN <<b, Old(p)[2] + 1>> ELSE Old(p)
  <2>1. /\ p[1] \in 0 .. n - 1 /\ p[2] \in 1 .. Len(new[p[1]])
        /\ p = <<p[1], p[2]>>
    BY <1>3, <1>4 DEF Paired
  <2>2. CASE p[1] = b
    <3>1. p[2] \in 2 .. len + 1
      BY <1>6, <2>1, <2>2, <1>1, <1>3
    <3>2. Old(p) = <<b, p[2] - 1>> /\ p[2] - 1 \in 1 .. len
      BY <2>2, <3>1, <1>1
    <3>3. QED
      BY <2>1, <2>2, <3>1, <3>2, <1>3, <1>4 DEF Paired, NodeAt
  <2>3. CASE p[1] # b
    BY <2>1, <2>3, <1>3, <1>4 DEF Paired, NodeAt
  <2>4. QED
    BY <2>2, <2>3
<1>7. ASSUME NEW q \in Places(array)
      PROVE  \E p \in Places(new) : p # <<b, 1>> /\ Old(p) = q
  <2>1. /\ q[1] \in 0 .. n - 1 /\ q[2] \in 1 .. Len(array[q[1]])
        /\ q = <<q[1], q[2]>>
    BY <1>4 DEF Paired
  <2>2. CASE q[1] = b
    <3>1. <<b, q[2] + 1>> \in Places(new)
      <4>1. q[2] + 1 \in 1 .. Len(new[b])
        BY <2>1, <2>2, <1>1, <1>3
      <4>2. QED
        BY <4>1, <1>4 DEF Paired
    <3>2. Old(<<b, q[2] + 1>>) = q /\ <<b, q[2] + 1>> # <<b, 1>>
      BY <2>1, <2>2, <1>1
    <3>3. QED
      BY <3>1, <3>2
  <2>3. CASE q[1] # b
    BY <2>1, <2>3, <1>3, <1>4 DEF Paired
  <2>4. QED
    BY <2>2, <2>3
<1>8. Places(new) = Places(array) \cup {Behind(array, b)}
  <2>1. ASSUME NEW p \in Places(new)
        PROVE  p \in Places(array) \cup {Behind(array, b)}
    <3>1. /\ p[1] \in 0 .. n - 1 /\ p[2] \in 1 .. Len(new[p[1]])
          /\ p = <<p[1], p[2]>>
      BY <1>3, <1>4 DEF Paired
    <3>2. CASE p[1] = b
      <4>1. p[2] \in 1 .. len \/ p[2] = len + 1
        BY <3>1, <3>2, <1>1, <1>3
      <4>2. QED
        BY <4>1, <3>1, <3>2, <1>4 DEF Paired, Behind
    <3>3. CASE p[1] # b
      BY <3>1, <3>3, <1>3, <1>4 DEF Paired
    <3>4. QED
      BY <3>2, <3>3
  <2>2. Behind(array, b) \in Places(new)
    <3>1. len + 1 \in 1 .. Len(new[b])
      BY <1>1, <1>3
    <3>2. QED
      BY <3>1, <1>4 DEF Paired, Behind
  <2>3. ASSUME NEW q \in Places(array)
        PROVE  q \in Places(new)
    <3>1. /\ q[1] \in 0 .. n - 1 /\ q[2] \in 1 .. Len(array[q[1]])
          /\ q = <<q[1], q[2]>>
      BY <1>4 DEF Paired
    <3>2. q[2] \in 1 .. Len(new[q[1]])
      BY <3>1, <1>1, <1>3
    <3>3. <<q[1], q[2]>> \in Places(new)
      BY <3>1, <3>2, <1>4 DEF Paired
    <3>4. QED
      BY <3>1, <3>3
  <2>4. QED
    BY <2>1, <2>2, <2>3
<1>9. Cardinality(Places(new)) = Cardinality(Places(array)) + 1
  BY <1>5, <1>8, PlacesFinite, FS_AddElement
<1> HIDE DEF Old, len
<1>10. Nodes(new) = Nodes(array) \cup {node}
  <2>1. Nodes(new) = {NodeAt(new, p) : p \in Places(new)}
    BY DEF Nodes, NodeAt
  <2>2. Nodes(array) = {NodeAt(array, p) : p \in Places(array)}
    BY DEF Nodes, NodeAt
  <2>3. \A p \in Places(new) : NodeAt(new, p) \in Nodes(array) \cup {node}
    BY <2>2, <1>5, <1>6
  <2>4. node \in Nodes(new)
    BY <2>1, <1>5
  <2>5. ASSUME NEW q \in Places(array)
        PROVE  NodeAt(array, q) \in Nodes(new)
    <3>1. PICK p \in Places(new) : p # <<b, 1>> /\ Old(p) = q
      BY <1>7
    <3>2. QED
      BY <2>1, <3>1, <1>6
  <2>6. Nodes(new) \subseteq Nodes(array) \cup {node}
    BY <2>1, <2>3
  <2>7. Nodes(array) \subseteq Nodes(new)
    BY <2>2, <2>5
  <2>8. QED
    BY <2>4, <2>6, <2>7
<1>11. node.hash = Hash[node.key] /\ node.hash % n = b /\ WellPlaced(array, n) =>
         WellPlaced(new, n)
  <2> SUFFICES ASSUME node.hash = Hash[node.key], node.hash % n = b,
                      WellPlaced(array, n), NEW p \in Places(new)
               PROVE  /\ NodeAt(new, p).hash = Hash[NodeAt(new, p).key]
                      /\ NodeAt(new, p).hash % n = p[1]
    BY DEF WellPlaced
  <2>1. CASE p = <<b, 1>>
    BY <2>1, <1>5
  <2>2. CASE p # <<b, 1>>
    BY <2>2, <1>6 DEF WellPlaced
  <2>3. QED
    BY <2>1, <2>2
<1>12. Absent(array, node.key) /\ DistinctKeys(array) => DistinctKeys(new)
  <2> SUFFICES ASSUME Absent(array, node.key), DistinctKeys(array),
                      NEW p \in Places(new), NEW q \in Places(new),
                      NodeAt(new, p).key = NodeAt(new, q).key
               PROVE  p = q
    BY DEF DistinctKeys
  <2>1. CASE p = <<b, 1>> \/ q = <<b, 1>>
    BY <2>1, <1>5, <1>6 DEF Absent
  <2>2. CASE p # <<b, 1>> /\ q # <<b, 1>>
    <3>1. Old(p) = Old(q)
      BY <2>2, <1>6 DEF DistinctKeys
    <3>2. QED
      BY <3>1, <2>2, <1>6
  <2>3. QED
    BY <2>1, <2>2
<1>13. \A k : k # node.key /\ Absent(array, k) => Absent(new, k)
  BY <1>5, <1>6 DEF Absent
<1>14. QED
  BY <1>9, <1>10, <1>11, <1>12, <1>13

\* new is array without the node at <<b, j>>: those behind it move up.
Unlinked(new, array, n, b, j) ==
  /\ new \in Chains(n)
  /\ \A c \in 0 .. n - 1 : c # b => new[c] = array[c]
  /\ Len(new[b]) = Len(array[b]) - 1
  /\ \A i \in 1 .. Len(new[b]) :
       new[b][i] = IF i < j THEN array[b][i] ELSE array[b][i + 1]

\* Where the node at p was before the one at <<b, j>> was unlinked.
PlaceBefore(p, b, j) == IF p[1] = b /\ p[2] >= j THEN <<b, p[2] + 1>> ELSE p

\* The places after unlinking a node, and where the nodes at them were.
LEMMA UnlinkPlaces ==
  ASSUME NEW n \in Nat, NEW array \in Chains(n),
         NEW b \in 0 .. n - 1, NEW j \in 1 .. Len(array[b]),
         NEW new, Unlinked(new, array, n, b, j)
  PROVE  /\ \A p \in Places(new) :
              /\ PlaceBefore(p, b, j) \in Places(array)
              /\ PlaceBefore(p, b, j)[1] = p[1] /\ PlaceBefore(p, b, j) # <<b, j>>
              /\ NodeAt(new, p) = NodeAt(array, PlaceBefore(p, b, j))
              /\ p = IF PlaceBefore(p, b, j)[1] = b /\ PlaceBefore(p, b, j)[2] > j
                     THEN <<b, PlaceBefore(p, b, j)[2] - 1>>
                     ELSE PlaceBefore(p, b, j)
         /\ \A q \in Places(array) : q # <<b, j>> =>
              \E p \in Places(new) : PlaceBefore(p, b, j) = q
<1> DEFINE Old(p) == PlaceBefore(p, b, j)
           len == Len(array[b])
<1> USE DEF Unlinked, PlaceBefore
<1>1. Paired(new, n) /\ Paired(array, n)
  BY PlacePairs
<1>2. len \in Nat \ {0} /\ j \in 1 .. len /\ Len(new[b]) = len - 1
  BY <1>1 DEF Paired
<1>3. <<b, j>> \in Places(array) /\ <<b, len>> \in Places(array)
  <2>1. len \in 1 .. Len(array[b])
    BY <1>2
  <2>2. QED
    BY <2>1, <1>1 DEF Paired
<1>4. ASSUME NEW p \in Places(new)
      PROVE  /\ Old(p) \in Places(array) /\ Old(p)[1] = p[1]
             /\ Old(p) # <<b, j>>
             /\ NodeAt(new, p) = NodeAt(array, Old(p))
             /\ p = IF Old(p)[1] = b /\ Old(p)[2] > j THEN <<b, Old(p)[2] - 1>>
                    ELSE Old(p)
  <2>1. /\ p[1] \in 0 .. n - 1 /\ p[2] \in 1 .. Len(new[p[1]])
        /\ p = <<p[1], p[2]>>
    BY <1>1 DEF Paired
  <2>2. CASE p[1] = b /\ p[2] >= j
    <3>1. p[2] + 1 \in 1 .. Len(array[b])
      BY <2>1, <2>2, <1>2
    <3>2. Old(p) = <<b, p[2] + 1>> /\ Old(p) \in Places(array)
      BY <2>2, <3>1, <1>1 DEF Paired
    <3>3. new[b][p[2]] = array[b][p[2] + 1]
      BY <2>1, <2>2, <1>2
    <3>4. QED
      BY <2>1, <2>2, <3>2, <3>3, <1>2 DEF NodeAt
  <2>3. CASE p[1] = b /\ p[2] < j
    <3>1. p[2] \in 1 .. Len(array[b])
      BY <2>1, <2>3, <1>2
    <3>2. Old(p) = p /\ p \in Places(array)
      BY <2>1, <2>3, <3>1, <1>1, <1>2 DEF Paired
    <3>3. new[b][p[2]] = array[b][p[2]]
      BY <2>1, <2>3, <1>2
    <3>4. QED
      BY <2>1, <2>3, <3>2, <3>3, <1>2 DEF NodeAt
  <2>4. CASE p[1] # b
    <3>1. Old(p) = p /\ new[p[1]] = array[p[1]]
      BY <2>1, <2>4
    <3>2. p \in Places(array)
      BY <2>1, <3>1, <1>1 DEF Paired
    <3>3. QED
      BY <2>1, <2>4, <3>1, <3>2 DEF NodeAt
  <2>5. QED
    BY <2>1, <2>2, <2>3, <2>4, <1>2
<1>5. ASSUME NEW q \in Places(array), q # <<b, j>>
      PROVE  \E p \in Places(new) : Old(p) = q
  <2>1. /\ q[1] \in 0 .. n - 1 /\ q[2] \in 1 .. Len(array[q[1]])
        /\ q = <<q[1], q[2]>>
    BY <1>1 DEF Paired
  <2>2. CASE q[1] = b /\ q[2] > j
    <3>1. q[2] - 1 \in 1 .. Len(new[b])
      BY <2>1, <2>2, <1>2
    <3>2. <<b, q[2] - 1>> \in Places(new)
      BY <3>1, <1>1 DEF Paired
    <3>3. Old(<<b, q[2] - 1>>) = q
      BY <2>1, <2>2, <1>2
    <3>4. QED
      BY <3>2, <3>3
  <2>3. CASE q[1] = b /\ q[2] < j
    <3>1. q[2] \in 1 .. Len(new[b])
      BY <2>1, <2>3, <1>2
    <3>2. q \in Places(new)
      BY <2>1, <2>3, <3>1, <1>1 DEF Paired
    <3>3. Old(q) = q
      BY <2>1, <2>3, <1>2
    <3>4. QED
      BY <3>2, <3>3
  <2>4. CASE q[1] # b
    <3>1. Old(q) = q /\ new[q[1]] = array[q[1]]
      BY <2>1, <2>4
    <3>2. q \in Places(new)
      BY <2>1, <3>1, <1>1 DEF Paired
    <3>3. QED
      BY <3>1, <3>2
  <2>5. QED
    BY <1>5, <2>1, <2>2, <2>3, <2>4, <1>2
<1>6. QED
  BY <1>4, <1>5

\* Unlinking a node.
LEMMA Unlink ==
  ASSUME NEW n \in Nat, NEW array \in Chains(n),
         NEW b \in 0 .. n - 1, NEW j \in 1 .. Len(array[b]),
         NEW new, Unlinked(new, array, n, b, j)
  PROVE  /\ Places(new) \subseteq Places(array)
         /\ Cardinality(Places(new)) = Cardinality(Places(array)) - 1
         /\ Nodes(array) = Nodes(new) \cup {array[b][j]}
         /\ WellPlaced(array, n) => WellPlaced(new, n)
         /\ DistinctKeys(array) =>
              DistinctKeys(new) /\ Absent(new, array[b][j].key)
         /\ \A k : Absent(array, k) => Absent(new, k)
<1>1. \A p \in Places(new) :
        /\ PlaceBefore(p, b, j) \in Places(array)
        /\ PlaceBefore(p, b, j)[1] = p[1] /\ PlaceBefore(p, b, j) # <<b, j>>
        /\ NodeAt(new, p) = NodeAt(array, PlaceBefore(p, b, j))
        /\ p = IF PlaceBefore(p, b, j)[1] = b /\ PlaceBefore(p, b, j)[2] > j
               THEN <<b, PlaceBefore(p, b, j)[2] - 1>>
               ELSE PlaceBefore(p, b, j)
  BY UnlinkPlaces
<1>2. \A q \in Places(array) : q # <<b, j>> =>
        \E p \in Places(new) : PlaceBefore(p, b, j) = q
  BY UnlinkPlaces
<1> DEFINE len == Len(array[b])
<1> USE DEF Unlinked
<1>3. Paired(new, n) /\ Paired(array, n)
  BY PlacePairs
<1>4. len \in Nat \ {0} /\ j \in 1 .. len /\ Len(new[b]) = len - 1
  BY <1>3 DEF Paired
<1>5. <<b, j>> \in Places(array) /\ <<b, len>> \in Places(array)
  <2>1. len \in 1 .. Len(array[b])
    BY <1>4
  <2>2. QED
    BY <2>1, <1>3 DEF Paired
<1>6. Places(new) = Places(array) \ {<<b, len>>}
  <2>1. ASSUME NEW p \in Places(new)
        PROVE  p \in Places(array) /\ p # <<b, len>>
    <3>1. /\ p[1] \in 0 .. n - 1 /\ p[2] \in 1 .. Len(new[p[1]])
          /\ p = <<p[1], p[2]>>
      BY <1>3 DEF Paired
    <3>2. p[2] \in 1 .. Len(array[p[1]]) /\ (p[1] = b => p[2] # len)
      BY <3>1, <1>4
    <3>3. <<p[1], p[2]>> \in Places(array)
      BY <3>1, <3>2, <1>3 DEF Paired
    <3>4. p = <<b, len>> => p[1] = b /\ p[2] = len
      OBVIOUS
    <3>5. QED
      BY <3>1, <3>2, <3>3, <3>4
  <2>2. ASSUME NEW q \in Places(array), q # <<b, len>>
        PROVE  q \in Places(new)
    <3>1. /\ q[1] \in 0 .. n - 1 /\ q[2] \in 1 .. Len(array[q[1]])
          /\ q = <<q[1], q[2]>>
      BY <1>3 DEF Paired
    <3>2. q[2] \in 1 .. Len(new[q[1]])
      BY <2>2, <3>1, <1>4
    <3>3. <<q[1], q[2]>> \in Places(new)
      BY <3>1, <3>2, <1>3 DEF Paired
    <3>4. QED
      BY <3>1, <3>3
  <2>3. QED
    BY <2>1, <2>2
<1>7. /\ Places(new) \subseteq Places(array)
      /\ Cardinality(Places(new)) = Cardinality(Places(array)) - 1
  BY <1>5, <1>6, PlacesFinite, FS_RemoveElement
<1> HIDE DEF len, Unlinked
<1>8. /\ Nodes(new) = {NodeAt(new, p) : p \in Places(new)}
      /\ Nodes(array) = {NodeAt(array, p) : p \in Places(array)}
      /\ NodeAt(array, <<b, j>>) = array[b][j]
  BY DEF Nodes, NodeAt
<1>9. Nodes(array) = Nodes(new) \cup {array[b][j]}
  <2>1. \A p \in Places(new) : NodeAt(new, p) \in Nodes(array)
    BY <1>1, <1>8
  <2>2. array[b][j] \in Nodes(array)
    BY <1>5, <1>8
  <2>3. ASSUME NEW q \in Places(array)
        PROVE  NodeAt(array, q) \in Nodes(new) \cup {array[b][j]}
    <3>1. CASE q = <<b, j>>
      BY <3>1, <1>8
    <3>2. CASE q # <<b, j>>
      <4>1. PICK p \in Places(new) : PlaceBefore(p, b, j) = q
        BY <3>2, <1>2
      <4>2. QED
        BY <4>1, <1>1, <1>8
    <3>3. QED
      BY <3>1, <3>2
  <2>4. Nodes(new) \subseteq Nodes(array)
    BY <2>1, <1>8
  <2>5. Nodes(array) \subseteq Nodes(new) \cup {array[b][j]}
    BY <2>3, <1>8
  <2>6. QED
    BY <2>2, <2>4, <2>5
<1>10. WellPlaced(array, n) => WellPlaced(new, n)
  BY <1>1 DEF WellPlaced
<1>11. DistinctKeys(array) => DistinctKeys(new)
  <2> SUFFICES ASSUME DistinctKeys(array),
                      NEW p \in Places(new), NEW q \in Places(new),
                      NodeAt(new, p).key = NodeAt(new, q).key
               PROVE  p = q
    BY DEF DistinctKeys
  <2>1. PlaceBefore(p, b, j) = PlaceBefore(q, b, j)
    BY <1>1 DEF DistinctKeys
  <2>2. QED
    BY <2>1, <1>1
<1>12. DistinctKeys(array) => Absent(new, array[b][j].key)
  <2> SUFFICES ASSUME DistinctKeys(array), NEW p \in Places(new),
                      NodeAt(new, p).key = NodeAt(array, <<b, j>>).key
               PROVE  FALSE
    BY <1>8 DEF Absent
  <2>1. PlaceBefore(p, b, j) = <<b, j>>
    BY <1>5, <1>1 DEF DistinctKeys
  <2>2. QED
    BY <2>1, <1>1
<1>13. \A k : Absent(array, k) => Absent(new, k)
  BY <1>1 DEF Absent
<1>14. QED
  BY <1>7, <1>9, <1>10, <1>11, <1>12, <1>13

\* new is array with another node at <<b, j>>.
Rewritten(new, array, n, b, j, node) ==
  /\ new \in Chains(n)
  /\ new[b] = [array[b] EXCEPT ![j] = node]
  /\ \A c \in 0 .. n - 1 : c # b => new[c] = array[c]

\* Replacing the value of the node at <<b, j>>.
LEMMA Rewrite ==
  ASSUME NEW n \in Nat, NEW array \in Chains(n),
         NEW b \in 0 .. n - 1, NEW j \in 1 .. Len(array[b]),
         NEW node \in Node, node.key = array[b][j].key, node.hash = array[b][j].hash,
         NEW new, Rewritten(new, array, n, b, j, node)
  PROVE  /\ Places(new) = Places(array) /\ <<b, j>> \in Places(array)
         /\ NodeAt(new, <<b, j>>) = node
         /\ \A p \in Places(array) :
              /\ NodeAt(new, p).key = NodeAt(array, p).key
              /\ NodeAt(new, p).hash = NodeAt(array, p).hash
              /\ p # <<b, j>> => NodeAt(new, p) = NodeAt(array, p)
<1>1. Paired(array, n) /\ array[b] \in Seq(Node) /\ array[b][j] \in Node
  BY PlacePairs, ElementOfSeq DEF Chains
<1>2. /\ [array[b] EXCEPT ![j] = node] \in Seq(Node)
      /\ Len([array[b] EXCEPT ![j] = node]) = Len(array[b])
      /\ \A i \in 1 .. Len(array[b]) :
           [array[b] EXCEPT ![j] = node][i] = IF i = j THEN node ELSE array[b][i]
  BY <1>1, ExceptSeq
<1>3. Paired(new, n)
  BY PlacePairs DEF Rewritten
<1>4. \A c \in 0 .. n - 1 : Len(new[c]) = Len(array[c])
  BY <1>2 DEF Rewritten
<1>5. Places(new) = Places(array) /\ <<b, j>> \in Places(array)
  <2>1. ASSUME NEW p \in Places(new)
        PROVE  p \in Places(array)
    <3>1. /\ p[1] \in 0 .. n - 1 /\ p[2] \in 1 .. Len(array[p[1]])
          /\ p = <<p[1], p[2]>>
      BY <1>3, <1>4 DEF Paired
    <3>2. QED
      BY <3>1, <1>1 DEF Paired
  <2>2. ASSUME NEW p \in Places(array)
        PROVE  p \in Places(new)
    <3>1. /\ p[1] \in 0 .. n - 1 /\ p[2] \in 1 .. Len(new[p[1]])
          /\ p = <<p[1], p[2]>>
      BY <1>1, <1>4 DEF Paired
    <3>2. <<p[1], p[2]>> \in Places(new)
      BY <3>1, <1>3 DEF Paired
    <3>3. QED
      BY <3>1, <3>2
  <2>3. QED
    BY <2>1, <2>2, <1>1 DEF Paired
<1>6. NodeAt(new, <<b, j>>) = node
  BY <1>2 DEF NodeAt, Rewritten
<1>7. ASSUME NEW p \in Places(array)
       PROVE  /\ NodeAt(new, p).key = NodeAt(array, p).key
              /\ NodeAt(new, p).hash = NodeAt(array, p).hash
              /\ p # <<b, j>> => NodeAt(new, p) = NodeAt(array, p)
  <2>1. /\ p[1] \in 0 .. n - 1 /\ p[2] \in 1 .. Len(array[p[1]])
        /\ p = <<p[1], p[2]>>
    BY <1>1 DEF Paired
  <2>2. CASE p = <<b, j>>
    BY <2>2, <1>6 DEF NodeAt
  <2>3. CASE p # <<b, j>>
    <3>1. new[p[1]][p[2]] = array[p[1]][p[2]]
      BY <2>1, <2>3, <1>2 DEF Rewritten
    <3>2. QED
      BY <3>1 DEF NodeAt
  <2>4. QED
    BY <2>2, <2>3
<1>8. QED
  BY <1>5, <1>6, <1>7

-----------------------------------------------------------------------------
(* The inductive invariant.                                                *)

\* The load bound holds in the middle of a rehash too, the new array fits in
\* memory, and the key that is being inserted is in neither array.
IInv ==
  /\ TypeOK /\ SizeExact /\ KeysOwned /\ NodesWellPlaced /\ KeysUnique
  /\ size * 4 <= bucket_count * 3
  /\ pc = "rehashing" =>
       /\ bucket_count * 2 <= MaxBuckets
       /\ Absent(buckets, pending.key) /\ Absent(new_buckets, pending.key)

\* What RemoveAt of the community modules leaves of a sequence.
LEMMA RemoveAtFacts ==
  ASSUME NEW seq \in Seq(Node), NEW j \in 1 .. Len(seq)
  PROVE  /\ SeqExt!RemoveAt(seq, j) \in Seq(Node)
         /\ Len(SeqExt!RemoveAt(seq, j)) = Len(seq) - 1
         /\ \A i \in 1 .. Len(seq) - 1 :
              SeqExt!RemoveAt(seq, j)[i] = IF i < j THEN seq[i] ELSE seq[i + 1]
<1> DEFINE before == SubSeq(seq, 1, j - 1)
           behind == SubSeq(seq, j + 1, Len(seq))
<1>1. Len(seq) \in Nat /\ \A i \in 1 .. Len(seq) : seq[i] \in Node
  BY LenProperties, ElementOfSeq
<1>2. /\ before \in Seq(Node) /\ Len(before) = j - 1
      /\ \A i \in 1 .. j - 1 : before[i] = seq[i]
  <2>1. \A i \in 1 .. j - 1 : seq[i] \in Node
    BY <1>1
  <2>2. /\ before \in Seq(Node)
        /\ Len(before) = IF 1 <= j - 1 THEN j - 1 - 1 + 1 ELSE 0
        /\ \A i \in 1 .. j - 1 - 1 + 1 : before[i] = seq[1 + i - 1]
    BY <1>1, <2>1, SubSeqProperties
  <2> HIDE DEF before
  <2>3. QED
    BY <2>2, <1>1
<1>3. /\ behind \in Seq(Node) /\ Len(behind) = Len(seq) - j
      /\ \A i \in 1 .. Len(seq) - j : behind[i] = seq[j + i]
  <2>1. \A i \in j + 1 .. Len(seq) : seq[i] \in Node
    BY <1>1
  <2>2. /\ behind \in Seq(Node)
        /\ Len(behind) = IF j + 1 <= Len(seq) THEN Len(seq) - (j + 1) + 1 ELSE 0
        /\ \A i \in 1 .. Len(seq) - (j + 1) + 1 : behind[i] = seq[j + 1 + i - 1]
    BY <1>1, <2>1, SubSeqProperties
  <2> HIDE DEF behind
  <2>3. QED
    BY <2>2, <1>1
<1>4. SeqExt!RemoveAt(seq, j) = before \o behind
  BY DEF SeqExt!RemoveAt
<1> HIDE DEF before, behind
<1>5. /\ before \o behind \in Seq(Node)
      /\ Len(before \o behind) = Len(before) + Len(behind)
      /\ \A i \in 1 .. Len(before) + Len(behind) :
           (before \o behind)[i] =
             IF i <= Len(before) THEN before[i] ELSE behind[i - Len(before)]
  BY <1>2, <1>3, ConcatProperties
<1>6. ASSUME NEW i \in 1 .. Len(seq) - 1
      PROVE  (before \o behind)[i] = IF i < j THEN seq[i] ELSE seq[i + 1]
  <2>1. CASE i < j
    BY <2>1, <1>1, <1>2, <1>3, <1>5
  <2>2. CASE i >= j
    <3>1. (before \o behind)[i] = behind[i - (j - 1)]
      BY <2>2, <1>1, <1>2, <1>3, <1>5
    <3>2. i - (j - 1) \in 1 .. Len(seq) - j /\ j + (i - (j - 1)) = i + 1
      BY <2>2, <1>1
    <3>3. behind[i - (j - 1)] = seq[j + (i - (j - 1))]
      BY <3>2, <1>3
    <3>4. QED
      BY <2>2, <3>1, <3>2, <3>3
  <2>3. i < j \/ i >= j
    BY <1>1
  <2>4. QED
    BY <2>1, <2>2, <2>3
<1>7. Len(before \o behind) = Len(seq) - 1
  BY <1>1, <1>2, <1>3, <1>5
<1>8. QED
  BY <1>4, <1>5, <1>6, <1>7

\* The constants are numbers, and the hash function returns numbers.
LEMMA ConstantFacts ==
  /\ SizeMod \in Nat \ {0} /\ MaxBuckets \in Nat /\ Requests \subseteq Nat
  /\ \A k \in Keys : Hash[k] \in Nat /\ Hash[k] \in 0 .. SizeMod - 1
BY ConstantsAssumption, NoLoadOverflow

\* A remainder is the index of a bucket.
LEMMA ModIndex == \A h \in Nat, n \in Nat \ {0} : h % n \in 0 .. n - 1
OBVIOUS

\* A node for k and v.
LEMMA NodeOfFacts ==
  ASSUME NEW k \in Keys, NEW v \in Values
  PROVE  /\ NodeOf(k, v) \in Node
         /\ NodeOf(k, v).key = k /\ NodeOf(k, v).value = v
         /\ NodeOf(k, v).hash = Hash[k]
BY ConstantFacts DEF NodeOf, Node

\* Between calls.
LEMMA IdleFacts ==
  ASSUME IInv, pc = "idle"
  PROVE  /\ bucket_count \in 1 .. MaxBuckets /\ bucket_count \in Nat \ {0}
         /\ buckets \in Chains(bucket_count)
         /\ size \in Nat /\ key_copies = size
         /\ size = Cardinality(Places(buckets))
         /\ new_buckets = NoArray /\ cursor = 0 /\ pending = NULL
         /\ WellPlaced(buckets, bucket_count) /\ DistinctKeys(buckets)
         /\ size * 4 <= bucket_count * 3
<1>1. /\ bucket_count \in 1 .. MaxBuckets /\ bucket_count \in Nat \ {0}
      /\ buckets \in Chains(bucket_count)
      /\ size \in Nat /\ new_buckets = NoArray /\ cursor = 0 /\ pending = NULL
  BY ConstantFacts DEF IInv, TypeOK, Chains
<1>2. Cardinality(Places(new_buckets)) = 0
  BY <1>1, CallocFacts DEF NoArray
<1>3. Cardinality(Places(buckets)) \in Nat
  BY <1>1, PlacesFinite
<1>4. size = Cardinality(Places(buckets)) /\ key_copies = size
  BY <1>1, <1>2, <1>3 DEF IInv, SizeExact, KeysOwned, NodeCount
<1>5. WellPlaced(buckets, bucket_count) /\ DistinctKeys(buckets)
  BY DEF IInv, NodesWellPlaced, KeysUnique, WellPlaced, DistinctKeys, NodeAt
<1>6. QED
  BY <1>1, <1>4, <1>5 DEF IInv

\* What a step must establish to end between calls.
LEMMA IdleIInv ==
  ASSUME pc' = "idle", bucket_count' \in 1 .. MaxBuckets,
         buckets' \in Chains(bucket_count'),
         size' = Cardinality(Places(buckets')), key_copies' = size',
         new_buckets' = NoArray, cursor' = 0, pending' = NULL,
         WellPlaced(buckets', bucket_count'), DistinctKeys(buckets'),
         size' * 4 <= bucket_count' * 3, ret' \in Replies
  PROVE  IInv'
<1>1. bucket_count' \in Nat \ {0} /\ bucket_count' \in 0 .. MaxBuckets
  BY ConstantFacts
<1>2. size' \in Nat
  BY <1>1, PlacesFinite
<1>3. TypeOK'
  <2>1. /\ pc' \in {"none", "idle", "rehashing"}
        /\ bucket_count' \in 0 .. MaxBuckets
        /\ bucket_count' = 0 <=> pc' = "none"
        /\ size' \in Nat /\ key_copies' \in Nat
        /\ cursor' \in 0 .. bucket_count'
    BY <1>1, <1>2
  <2>2. IF pc' = "rehashing"
        THEN /\ new_buckets' \in Chains(bucket_count' * 2)
             /\ pending' \in [key : Keys, value : Values]
        ELSE new_buckets' = NoArray' /\ cursor' = 0 /\ pending' = NULL
    BY DEF NoArray, Calloc, Chains
  <2>3. QED
    BY <2>1, <2>2 DEF TypeOK, Chains
<1>4. Places(new_buckets') = {} /\ Cardinality(Places(new_buckets')) = 0
      /\ Nodes(new_buckets') = {}
  BY CallocFacts DEF NoArray
<1>5. SizeExact' /\ KeysOwned'
  BY <1>2, <1>4 DEF SizeExact, KeysOwned, NodeCount
<1>6. \A p \in Places(buckets') : p[1] >= cursor'
  BY <1>1, PlacePairs DEF Paired
<1>7. NodesWellPlaced'
  BY <1>4, <1>6 DEF NodesWellPlaced, WellPlaced, NodeAt
<1>8. KeysUnique'
  BY <1>4 DEF KeysUnique, DistinctKeys, NodeAt
<1>9. QED
  BY <1>3, <1>5, <1>7, <1>8 DEF IInv

\* In the middle of a rehash.
LEMMA RehashFacts ==
  ASSUME IInv, pc = "rehashing"
  PROVE  /\ bucket_count \in 1 .. MaxBuckets /\ bucket_count \in Nat \ {0}
         /\ buckets \in Chains(bucket_count)
         /\ new_buckets \in Chains(bucket_count * 2)
         /\ bucket_count * 2 \in Nat \ {0} /\ bucket_count * 2 <= MaxBuckets
         /\ cursor \in 0 .. bucket_count
         /\ pending \in [key : Keys, value : Values]
         /\ pending.key \in Keys /\ pending.value \in Values
         /\ Cardinality(Places(buckets)) \in Nat
         /\ Cardinality(Places(new_buckets)) \in Nat
         /\ size \in Nat /\ key_copies = size
         /\ size = Cardinality(Places(buckets)) + Cardinality(Places(new_buckets))
         /\ WellPlaced(buckets, bucket_count) /\ DistinctKeys(buckets)
         /\ WellPlaced(new_buckets, bucket_count * 2) /\ DistinctKeys(new_buckets)
         /\ \A p \in Places(buckets) : p[1] >= cursor
         /\ \A m \in Nodes(buckets), n \in Nodes(new_buckets) : m.key # n.key
         /\ size * 4 <= bucket_count * 3
         /\ Absent(buckets, pending.key) /\ Absent(new_buckets, pending.key)
<1>1. /\ bucket_count \in 1 .. MaxBuckets /\ bucket_count \in Nat \ {0}
      /\ buckets \in Chains(bucket_count)
      /\ new_buckets \in Chains(bucket_count * 2)
      /\ bucket_count * 2 \in Nat \ {0}
      /\ cursor \in 0 .. bucket_count
      /\ pending \in [key : Keys, value : Values]
      /\ pending.key \in Keys /\ pending.value \in Values
      /\ size \in Nat
  BY ConstantFacts DEF IInv, TypeOK, Chains
<1>2. /\ Cardinality(Places(buckets)) \in Nat
      /\ Cardinality(Places(new_buckets)) \in Nat
  BY <1>1, PlacesFinite
<1>3. /\ key_copies = size
      /\ size = Cardinality(Places(buckets)) + Cardinality(Places(new_buckets))
  BY DEF IInv, SizeExact, KeysOwned, NodeCount
<1>4. /\ WellPlaced(buckets, bucket_count)
      /\ WellPlaced(new_buckets, bucket_count * 2)
      /\ \A p \in Places(buckets) : p[1] >= cursor
  BY DEF IInv, NodesWellPlaced, WellPlaced, NodeAt
<1>5. /\ DistinctKeys(buckets) /\ DistinctKeys(new_buckets)
      /\ \A m \in Nodes(buckets), n \in Nodes(new_buckets) : m.key # n.key
  BY DEF IInv, KeysUnique, DistinctKeys, NodeAt
<1>6. QED
  BY <1>1, <1>2, <1>3, <1>4, <1>5 DEF IInv

\* What a step must establish to end in the middle of a rehash.
LEMMA RehashIInv ==
  ASSUME pc' = "rehashing", bucket_count' \in 1 .. MaxBuckets,
         buckets' \in Chains(bucket_count'),
         new_buckets' \in Chains(bucket_count' * 2),
         cursor' \in 0 .. bucket_count',
         pending' \in [key : Keys, value : Values],
         size' \in Nat, key_copies' = size',
         size' = Cardinality(Places(buckets')) + Cardinality(Places(new_buckets')),
         WellPlaced(buckets', bucket_count'), DistinctKeys(buckets'),
         WellPlaced(new_buckets', bucket_count' * 2), DistinctKeys(new_buckets'),
         \A p \in Places(buckets') : p[1] >= cursor',
         \A m \in Nodes(buckets'), n \in Nodes(new_buckets') : m.key # n.key,
         size' * 4 <= bucket_count' * 3, bucket_count' * 2 <= MaxBuckets,
         Absent(buckets', pending.key'), Absent(new_buckets', pending.key'),
         ret' \in Replies
  PROVE  IInv'
<1>1. TypeOK'
  <2>1. /\ pc' \in {"none", "idle", "rehashing"}
        /\ bucket_count' \in 0 .. MaxBuckets
        /\ bucket_count' = 0 <=> pc' = "none"
        /\ size' \in Nat /\ key_copies' \in Nat
    BY ConstantFacts
  <2>2. IF pc' = "rehashing"
        THEN /\ new_buckets' \in [0 .. bucket_count' * 2 - 1 -> Seq(Node)]
             /\ pending' \in [key : Keys, value : Values]
        ELSE new_buckets' = NoArray' /\ cursor' = 0 /\ pending' = NULL
    BY DEF Chains
  <2>3. QED
    BY <2>1, <2>2 DEF TypeOK, Chains
<1>2. SizeExact' /\ KeysOwned'
  BY DEF SizeExact, KeysOwned, NodeCount
<1>3. NodesWellPlaced'
  BY DEF NodesWellPlaced, WellPlaced, NodeAt
<1>4. KeysUnique'
  BY DEF KeysUnique, DistinctKeys, NodeAt
<1>5. QED
  BY <1>1, <1>2, <1>3, <1>4 DEF IInv

\* What the search finds: a node of the key, in the bucket it looked at; and
\* not to find the key means that it has no node anywhere.
LEMMA SearchResult ==
  ASSUME IInv, pc = "idle", NEW k
  PROVE  /\ k \in Keys => Index(k) \in 0 .. bucket_count - 1
         /\ Found(k) => /\ k \in Keys
                        /\ Position(k) \in 1 .. Len(buckets[Index(k)])
                        /\ buckets[Index(k)][Position(k)].key = k
         /\ ~Found(k) => Absent(buckets, k)
<1> DEFINE matches == {i \in DOMAIN buckets[Index(k)] : buckets[Index(k)][i].key = k}
<1>1. /\ bucket_count \in Nat \ {0}
      /\ buckets \in Chains(bucket_count)
      /\ WellPlaced(buckets, bucket_count) /\ Paired(buckets, bucket_count)
  BY IdleFacts, PlacePairs
<1>2. k \in Keys => Index(k) \in 0 .. bucket_count - 1
  BY <1>1, ConstantFacts, ModIndex DEF Index
<1>3. ASSUME k \in Keys
      PROVE  DOMAIN buckets[Index(k)] = 1 .. Len(buckets[Index(k)])
             /\ Len(buckets[Index(k)]) \in Nat
  BY <1>1, <1>2, <1>3, LenProperties DEF Chains
<1>4. k \in Keys => matches \in SUBSET Nat
  BY <1>3
<1>5. Position(k) = IF matches = {} THEN 0 ELSE Min(matches)
  BY DEF Position
<1>6. ASSUME Found(k)
      PROVE  /\ k \in Keys
             /\ Position(k) \in 1 .. Len(buckets[Index(k)])
             /\ buckets[Index(k)][Position(k)].key = k
  <2>1. k \in Keys /\ matches # {}
    BY <1>5, <1>6 DEF Found
  <2>2. Position(k) \in matches
    BY <2>1, <1>4, <1>5, MinOfNats
  <2>3. QED
    BY <2>1, <2>2, <1>3
<1>7. ASSUME ~Found(k), NEW p \in Places(buckets), NodeAt(buckets, p).key = k
      PROVE  FALSE
  <2>1. /\ p[1] \in 0 .. bucket_count - 1 /\ p[2] \in 1 .. Len(buckets[p[1]])
        /\ NodeAt(buckets, p) \in Node
    BY <1>1 DEF Paired
  <2>2. k \in Keys
    BY <1>7, <2>1 DEF Node
  <2>3. p[1] = Index(k)
    BY <1>1, <1>7 DEF WellPlaced, Index
  <2>4. p[2] \in matches
    BY <1>3, <1>7, <2>1, <2>2, <2>3 DEF NodeAt
  <2>5. Position(k) \in matches
    BY <2>4, <2>2, <1>4, <1>5, MinOfNats
  <2>6. Position(k) # 0
    BY <2>2, <2>5, <1>3
  <2>7. QED
    BY <2>2, <2>6, <1>7 DEF Found
<1>8. QED
  BY <1>2, <1>6, <1>7 DEF Absent

\* Where there is no array there are no nodes.
LEMMA NoArrayFacts ==
  /\ NoArray \in Chains(0)
  /\ Places(NoArray) = {} /\ Nodes(NoArray) = {}
  /\ Cardinality(Places(NoArray)) = 0
BY CallocFacts DEF NoArray

\* No key has two entries among all nodes, and between calls they are those
\* of the one array.
LEMMA AllNodesFacts ==
  ASSUME IInv
  PROVE  /\ OneEntryPerKey(AllNodes)
         /\ pc # "rehashing" => AllNodes = Nodes(buckets)
         /\ AllNodes \subseteq Node
<1>1. /\ bucket_count \in Nat /\ buckets \in Chains(bucket_count)
      /\ new_buckets = NoArray \/
         (bucket_count * 2 \in Nat /\ new_buckets \in Chains(bucket_count * 2))
      /\ pc # "rehashing" => new_buckets = NoArray
  BY DEF IInv, TypeOK, Chains
<1>2. NoArray \in Chains(0) /\ Nodes(NoArray) = {}
  BY CallocFacts DEF NoArray
<1>3. /\ Nodes(buckets) = {NodeAt(buckets, p) : p \in Places(buckets)}
      /\ Nodes(new_buckets) = {NodeAt(new_buckets, p) : p \in Places(new_buckets)}
  BY DEF Nodes, NodeAt
<1>4. DistinctKeys(buckets) /\ DistinctKeys(new_buckets)
  BY DEF IInv, KeysUnique, DistinctKeys, NodeAt
<1>5. \A d, e \in Nodes(buckets) : d.key = e.key => d = e
  BY <1>3, <1>4 DEF DistinctKeys
<1>6. \A d, e \in Nodes(new_buckets) : d.key = e.key => d = e
  BY <1>3, <1>4 DEF DistinctKeys
<1>7. \A d \in Nodes(buckets), e \in Nodes(new_buckets) : d.key # e.key
  BY DEF IInv, KeysUnique
<1>8. OneEntryPerKey(AllNodes)
  BY <1>5, <1>6, <1>7 DEF OneEntryPerKey, AllNodes
<1>9. Nodes(buckets) \subseteq Node
  BY <1>1, <1>3, PlacePairs DEF Paired
<1>10. Nodes(new_buckets) \subseteq Node
  BY <1>1, <1>2, <1>3, PlacePairs DEF Paired
<1>11. QED
  BY <1>1, <1>2, <1>8, <1>9, <1>10 DEF AllNodes

\* The array with a node for k and v linked into it.
Linked(array, n, k, v) == [array EXCEPT ![Hash[k] % n] = <<NodeOf(k, v)>> \o @]

\* Linking a new node keeps an array sound and adds the node.
LEMMA LinkNode ==
  ASSUME NEW n \in Nat \ {0}, NEW array \in Chains(n),
         WellPlaced(array, n), DistinctKeys(array),
         NEW k \in Keys, NEW v \in Values, Absent(array, k),
         NEW new, new = Linked(array, n, k, v)
  PROVE  /\ new \in Chains(n)
         /\ Cardinality(Places(new)) = Cardinality(Places(array)) + 1
         /\ Nodes(new) = Nodes(array) \cup {NodeOf(k, v)}
         /\ WellPlaced(new, n) /\ DistinctKeys(new)
         /\ \A x : x # k /\ Absent(array, x) => Absent(new, x)
<1> DEFINE b == Hash[k] % n
           node == NodeOf(k, v)
<1>1. b \in 0 .. n - 1
  BY ConstantFacts, ModIndex
<1>2. node \in Node /\ node.key = k /\ node.hash = Hash[k] /\ node.hash % n = b
  BY NodeOfFacts
<1>3. n \in Nat /\ Pushed(new, array, n, b, node)
  BY <1>1, <1>2, PushType DEF Linked
<1> HIDE DEF b, node
<1>4. new \in Chains(n)
  BY <1>3 DEF Pushed
<1>5. Cardinality(Places(new)) = Cardinality(Places(array)) + 1
  BY <1>1, <1>2, <1>3, PushFront
<1>6. Nodes(new) = Nodes(array) \cup {node}
  BY <1>1, <1>2, <1>3, PushFront
<1>7. WellPlaced(new, n)
  BY <1>1, <1>2, <1>3, PushFront
<1>8. DistinctKeys(new)
  <2>1. Absent(array, node.key)
    BY <1>2
  <2>2. QED
    BY <2>1, <1>1, <1>2, <1>3, PushFront
<1>9. \A x : x # k /\ Absent(array, x) => Absent(new, x)
  <2>1. \A x : x # node.key /\ Absent(array, x) => Absent(new, x)
    BY <1>1, <1>2, <1>3, PushFront
  <2>2. QED
    BY <2>1, <1>2
<1>10. QED
  BY <1>4, <1>5, <1>6, <1>7, <1>8, <1>9 DEF node

\* In the nodes of an array, k is absent.
LEMMA AbsentNodes ==
  ASSUME NEW array, NEW k
  PROVE  Absent(array, k) <=> \A e \in Nodes(array) : e.key # k
<1>1. Nodes(array) = {NodeAt(array, p) : p \in Places(array)}
  BY DEF Nodes, NodeAt
<1>2. QED
  BY <1>1 DEF Absent

-----------------------------------------------------------------------------
(* Each action preserves the invariant, and does to the nodes what it is   *)
(* for.                                                                    *)

\* A reply record.
LEMMA ReplyType ==
  ASSUME NEW op \in {"none", "create", "insert", "find", "remove", "clear", "destroy"},
         NEW k \in Keys \cup BadKeys \cup {NULL},
         NEW result \in Values \cup {NULL} \cup BOOLEAN, NEW oom \in BOOLEAN
  PROVE  Reply(op, k, result, oom) \in Replies
BY DEF Reply, Replies

\* A call that touches nothing but its reply.
LEMMA OnlyReplies ==
  ASSUME IInv, UNCHANGED <<pc, tableVars, rehashVars>>, ret' \in Replies
  PROVE  IInv' /\ AllNodes' = AllNodes
<1>1. AllNodes' = AllNodes
  BY DEF AllNodes, tableVars, rehashVars
<1>2. IInv'
  BY DEF IInv, tableVars, rehashVars, TypeOK, SizeExact, KeysOwned, NodeCount,
         NodesWellPlaced, KeysUnique
<1>3. QED
  BY <1>1, <1>2

\* There is no table yet.
LEMMA InitSound == Init => IInv /\ AllNodes = {}
<1> SUFFICES ASSUME Init PROVE IInv /\ AllNodes = {}
  OBVIOUS
<1>1. /\ NoArray \in Chains(0) /\ Nodes(NoArray) = {}
      /\ Places(NoArray) = {} /\ Cardinality(Places(NoArray)) = 0
  BY CallocFacts DEF NoArray
<1>2. NoReply \in Replies
  BY ReplyType DEF NoReply
<1>3. TypeOK
  BY <1>1, <1>2, ConstantFacts DEF Init, TypeOK, Chains
<1>4. SizeExact /\ KeysOwned
  BY <1>1 DEF Init, SizeExact, KeysOwned, NodeCount
<1>5. NodesWellPlaced /\ KeysUnique
  BY <1>1 DEF Init, NodesWellPlaced, KeysUnique
<1>6. QED
  BY <1>1, <1>3, <1>4, <1>5 DEF Init, IInv, AllNodes

\* A new table has no nodes.
LEMMA CreateSound ==
  ASSUME IInv, NEW n \in Requests, Create(n)
  PROVE  IInv' /\ AllNodes' = {}
<1>1. /\ n \in Nat \ {0} /\ n \in 1 .. MaxBuckets
      /\ pc = "none" /\ pc' = "idle" /\ buckets' = Calloc(n)
      /\ bucket_count' = n /\ size' = 0 /\ key_copies' = key_copies
      /\ new_buckets' = new_buckets /\ cursor' = cursor /\ pending' = pending
      /\ ret' = Reply("create", NULL, TRUE, FALSE)
  BY ConstantFacts DEF Create, rehashVars
<1>2. /\ bucket_count = 0 /\ new_buckets = NoArray /\ cursor = 0 /\ pending = NULL
      /\ buckets \in Chains(0)
  BY <1>1 DEF IInv, TypeOK, Chains
<1>3. key_copies = 0
  <2>1. Places(new_buckets) = {} /\ Places(buckets) = {}
    BY <1>2, CallocFacts, PlacePairs DEF NoArray, Paired
  <2>2. QED
    BY <2>1, FS_EmptySet DEF IInv, KeysOwned, NodeCount
<1>4. /\ Calloc(n) \in Chains(n)
      /\ Places(Calloc(n)) = {} /\ Nodes(Calloc(n)) = {}
      /\ Cardinality(Places(Calloc(n))) = 0
  BY <1>1, CallocFacts
<1>5. WellPlaced(buckets', bucket_count') /\ DistinctKeys(buckets')
  BY <1>1, <1>4 DEF WellPlaced, DistinctKeys
<1>6. ret' \in Replies
  BY <1>1, ReplyType
<1>7. IInv'
  BY <1>1, <1>2, <1>3, <1>4, <1>5, <1>6, IdleIInv
<1>8. AllNodes' = {}
  BY <1>1, <1>2, <1>4, CallocFacts DEF AllNodes, NoArray
<1>9. QED
  BY <1>7, <1>8

\* Two arrays with the same keys at the same places.
SameKeys(new, array) ==
  /\ Places(new) = Places(array)
  /\ \A p \in Places(array) : NodeAt(new, p).key = NodeAt(array, p).key

\* A new value for a key that is there.
LEMMA UpdateSound ==
  ASSUME IInv, NEW k \in Keys, NEW v \in Values, Update(k, v)
  PROVE  /\ IInv' /\ AllNodes' = {e \in AllNodes : e.key # k} \cup {NodeOf(k, v)}
         /\ SameKeys(buckets', buckets)
<1> DEFINE b == Index(k)
           j == Position(k)
           node == [buckets[b][j] EXCEPT !.value = v]
<1>1. /\ pc = "idle" /\ Found(k)
      /\ buckets' = [buckets EXCEPT ![b][j].value = v]
      /\ ret' = Reply("insert", k, TRUE, FALSE)
      /\ pc' = pc /\ bucket_count' = bucket_count /\ size' = size
      /\ key_copies' = key_copies /\ new_buckets' = new_buckets
      /\ cursor' = cursor /\ pending' = pending
  BY DEF Update, rehashVars
<1>2. /\ bucket_count \in 1 .. MaxBuckets /\ bucket_count \in Nat
      /\ buckets \in Chains(bucket_count)
      /\ key_copies = size /\ size = Cardinality(Places(buckets))
      /\ new_buckets = NoArray /\ cursor = 0 /\ pending = NULL
      /\ WellPlaced(buckets, bucket_count) /\ DistinctKeys(buckets)
      /\ size * 4 <= bucket_count * 3
  BY <1>1, IdleFacts
<1>3. b \in 0 .. bucket_count - 1 /\ j \in 1 .. Len(buckets[b]) /\ buckets[b][j].key = k
  BY <1>1, SearchResult
<1> HIDE DEF b, j
<1>4. buckets[b] \in Seq(Node) /\ buckets[b][j] \in Node
  BY <1>2, <1>3, ElementOfSeq DEF Chains
<1>5. /\ node \in Node /\ node.value = v
       /\ node.key = k /\ node.hash = buckets[b][j].hash
  BY <1>3, <1>4 DEF Node
<1>6. buckets' = [buckets EXCEPT ![b] = [buckets[b] EXCEPT ![j] = node]]
  BY <1>1 DEF b, j
<1> HIDE DEF node
<1>7. [buckets[b] EXCEPT ![j] = node] \in Seq(Node)
  BY <1>3, <1>4, <1>5, ExceptSeq
<1>8. /\ buckets' \in Chains(bucket_count)
       /\ Rewritten(buckets', buckets, bucket_count, b, j, node)
  BY <1>2, <1>3, <1>6, <1>7 DEF Chains, Rewritten
<1>9. /\ Places(buckets') = Places(buckets) /\ <<b, j>> \in Places(buckets)
      /\ NodeAt(buckets', <<b, j>>) = node
      /\ \A p \in Places(buckets) :
           /\ NodeAt(buckets', p).key = NodeAt(buckets, p).key
           /\ NodeAt(buckets', p).hash = NodeAt(buckets, p).hash
           /\ p # <<b, j>> => NodeAt(buckets', p) = NodeAt(buckets, p)
  <2>1. node.key = buckets[b][j].key /\ node.hash = buckets[b][j].hash
    BY <1>3, <1>5
  <2>2. QED
    BY <2>1, <1>2, <1>3, <1>5, <1>8, Rewrite
<1>10. WellPlaced(buckets', bucket_count') /\ DistinctKeys(buckets')
  BY <1>1, <1>2, <1>9 DEF WellPlaced, DistinctKeys
<1>11. ret' \in Replies
  BY <1>1, ReplyType
<1>12. IInv'
  BY <1>1, <1>2, <1>9, <1>10, <1>11, <1>8, IdleIInv
<1>13. NodeAt(buckets, <<b, j>>).key = k /\ NodeAt(buckets, <<b, j>>).hash = node.hash
  BY <1>3, <1>5 DEF NodeAt
<1>14. node = NodeOf(k, v)
  <2>1. node.hash = Hash[k]
    BY <1>2, <1>9, <1>13 DEF WellPlaced
  <2>2. QED
    BY <2>1, <1>5 DEF Node, NodeOf
<1>15. /\ AllNodes = {NodeAt(buckets, p) : p \in Places(buckets)}
       /\ AllNodes' = {NodeAt(buckets', p) : p \in Places(buckets)}
  <2>1. AllNodes = Nodes(buckets) /\ AllNodes' = Nodes(buckets')
    BY <1>1, <1>2, NoArrayFacts DEF AllNodes
  <2>2. QED
    BY <2>1, <1>9 DEF Nodes, NodeAt
<1>16. AllNodes' = {e \in AllNodes : e.key # k} \cup {node}
  <2>1. ASSUME NEW p \in Places(buckets)
        PROVE  NodeAt(buckets', p) \in {e \in AllNodes : e.key # k} \cup {node}
    <3>1. CASE p = <<b, j>>
      BY <3>1, <1>9
    <3>2. CASE p # <<b, j>>
      <4>1. NodeAt(buckets, p).key # k
        BY <3>2, <1>2, <1>9, <1>13 DEF DistinctKeys
      <4>2. QED
        BY <4>1, <3>2, <1>9, <1>15
    <3>3. QED
      BY <3>1, <3>2
  <2>2. node \in AllNodes'
    BY <1>9, <1>15
  <2>3. ASSUME NEW p \in Places(buckets), NodeAt(buckets, p).key # k
        PROVE  NodeAt(buckets, p) \in AllNodes'
    <3>1. p # <<b, j>>
      BY <2>3, <1>13
    <3>2. QED
      BY <3>1, <1>9, <1>15
  <2>4. AllNodes' \subseteq {e \in AllNodes : e.key # k} \cup {node}
    BY <2>1, <1>15
  <2>5. {e \in AllNodes : e.key # k} \subseteq AllNodes'
    BY <2>3, <1>15
  <2>6. QED
    BY <2>2, <2>4, <2>5
<1>17. SameKeys(buckets', buckets)
  BY <1>9 DEF SameKeys
<1>18. QED
  BY <1>12, <1>14, <1>16, <1>17

\* An insert that needs no larger array: a failed allocation changes nothing.
LEMMA InsertSound ==
  ASSUME IInv, NEW k \in Keys, NEW v \in Values, Insert(k, v)
  PROVE  /\ IInv' /\ pc' = "idle"
         /\ \A e \in AllNodes : e.key # k
         /\ \/ AllNodes' = AllNodes /\ ret' = Reply("insert", k, FALSE, TRUE)
            \/ /\ AllNodes' = AllNodes \cup {NodeOf(k, v)}
               /\ ret' = Reply("insert", k, TRUE, FALSE)
<1>1. /\ pc = "idle" /\ ~Found(k) /\ ~ShouldGrow
      /\ pc' = pc /\ bucket_count' = bucket_count /\ new_buckets' = new_buckets
      /\ cursor' = cursor /\ pending' = pending
  BY DEF Insert, rehashVars
<1>2. /\ bucket_count \in 1 .. MaxBuckets /\ bucket_count \in Nat \ {0}
      /\ buckets \in Chains(bucket_count)
      /\ size \in Nat /\ key_copies = size /\ size = Cardinality(Places(buckets))
      /\ new_buckets = NoArray /\ cursor = 0 /\ pending = NULL
      /\ WellPlaced(buckets, bucket_count) /\ DistinctKeys(buckets)
      /\ size * 4 <= bucket_count * 3
  BY <1>1, IdleFacts
<1>3. Absent(buckets, k)
  BY <1>1, SearchResult
<1>4. AllNodes = Nodes(buckets) /\ \A e \in AllNodes : e.key # k
  BY <1>1, <1>3, AllNodesFacts, AbsentNodes
<1>5. CASE (CopyKeyFails(k) \/ NodeAllocFails(k)) /\ UNCHANGED buckets
  <2>1. size' = size /\ key_copies' = key_copies /\ ret' = Reply("insert", k, FALSE, TRUE)
    <3>1. CASE CopyKeyFails(k)
      BY <3>1 DEF CopyKeyFails
    <3>2. CASE NodeAllocFails(k)
      BY <3>2, <1>2 DEF NodeAllocFails
    <3>3. QED
      BY <3>1, <3>2, <1>5
  <2>2. ret' \in Replies
    BY <2>1, ReplyType
  <2>3. UNCHANGED <<pc, tableVars, rehashVars>>
    BY <1>1, <1>5, <2>1 DEF tableVars, rehashVars
  <2>4. QED
    BY <1>1, <1>4, <2>1, <2>2, <2>3, OnlyReplies
<1>6. CASE Link(buckets, k, v, Index(k))
  <2>1. /\ key_copies' = key_copies + 1 /\ size' = size + 1
        /\ buckets' = Linked(buckets, bucket_count, k, v)
        /\ ret' = Reply("insert", k, TRUE, FALSE)
    BY <1>6 DEF Link, Index, Linked
  <2>2. /\ buckets' \in Chains(bucket_count)
        /\ Cardinality(Places(buckets')) = Cardinality(Places(buckets)) + 1
        /\ Nodes(buckets') = Nodes(buckets) \cup {NodeOf(k, v)}
        /\ WellPlaced(buckets', bucket_count) /\ DistinctKeys(buckets')
    <3>1. /\ bucket_count \in Nat \ {0} /\ buckets \in Chains(bucket_count)
          /\ WellPlaced(buckets, bucket_count) /\ DistinctKeys(buckets)
          /\ Absent(buckets, k)
      BY <1>2, <1>3
    <3>2. QED
      BY <3>1, <2>1, LinkNode
  <2>3. size' * 4 <= bucket_count' * 3
    BY <1>1, <1>2, <2>1 DEF ShouldGrow
  <2>4. ret' \in Replies
    BY <2>1, ReplyType
  <2>5. IInv'
    BY <1>1, <1>2, <2>1, <2>2, <2>3, <2>4, IdleIInv
  <2>6. AllNodes' = AllNodes \cup {NodeOf(k, v)}
    BY <1>1, <1>2, <1>4, <2>2, NoArrayFacts DEF AllNodes
  <2>7. QED
    BY <1>1, <1>4, <2>1, <2>5, <2>6
<1>7. QED
  BY <1>5, <1>6 DEF Insert

\* The loop starts with an empty new array.
LEMMA BeginRehashSound ==
  ASSUME IInv, NEW k \in Keys, NEW v \in Values, BeginRehash(k, v)
  PROVE  IInv' /\ AllNodes' = AllNodes
<1>1. /\ pc = "idle" /\ ~Found(k) /\ bucket_count * 2 <= MaxBuckets
      /\ pc' = "rehashing" /\ new_buckets' = Calloc(bucket_count * 2)
      /\ cursor' = 0 /\ pending' = [key |-> k, value |-> v]
      /\ buckets' = buckets /\ bucket_count' = bucket_count
      /\ size' = size /\ key_copies' = key_copies /\ ret' = ret
  BY DEF BeginRehash, tableVars
<1>2. /\ bucket_count \in 1 .. MaxBuckets /\ bucket_count \in Nat \ {0}
      /\ buckets \in Chains(bucket_count)
      /\ size \in Nat /\ key_copies = size /\ size = Cardinality(Places(buckets))
      /\ new_buckets = NoArray
      /\ WellPlaced(buckets, bucket_count) /\ DistinctKeys(buckets)
      /\ size * 4 <= bucket_count * 3
  BY <1>1, IdleFacts
<1>3. /\ bucket_count * 2 \in Nat
      /\ new_buckets' \in Chains(bucket_count * 2)
      /\ Places(new_buckets') = {} /\ Nodes(new_buckets') = {}
      /\ Cardinality(Places(new_buckets')) = 0
  BY <1>1, <1>2, CallocFacts
<1>4. WellPlaced(new_buckets', bucket_count' * 2) /\ DistinctKeys(new_buckets')
      /\ Absent(new_buckets', k)
  BY <1>3 DEF WellPlaced, DistinctKeys, Absent
<1>5. Absent(buckets, k)
  BY <1>1, SearchResult
<1>6. \A p \in Places(buckets) : p[1] >= 0
  BY <1>2, PlacePairs DEF Paired
<1>7. ret' \in Replies
  BY <1>1 DEF IInv, TypeOK
<1>8. pending' \in [key : Keys, value : Values] /\ pending.key' = k
  BY <1>1
<1>9. size' = Cardinality(Places(buckets')) + Cardinality(Places(new_buckets'))
  BY <1>1, <1>2, <1>3
<1>10. IInv'
  BY <1>1, <1>2, <1>3, <1>4, <1>5, <1>6, <1>7, <1>8, <1>9, RehashIInv
<1>11. AllNodes' = AllNodes
  BY <1>1, <1>2, <1>3, NoArrayFacts DEF AllNodes
<1>12. QED
  BY <1>10, <1>11

\* The tail of a chain is the chain without its first node.
LEMMA TailUnlinks ==
  ASSUME NEW n \in Nat, NEW array \in Chains(n), NEW b \in 0 .. n - 1,
         array[b] # <<>>
  PROVE  /\ 1 \in 1 .. Len(array[b]) /\ Head(array[b]) = array[b][1]
         /\ array[b][1] \in Node /\ <<b, 1>> \in Places(array)
         /\ Unlinked([array EXCEPT ![b] = Tail(@)], array, n, b, 1)
<1>1. array[b] \in Seq(Node)
  BY DEF Chains
<1>2. Len(array[b]) \in Nat \ {0}
  BY <1>1, EmptySeq
<1>3. /\ Tail(array[b]) \in Seq(Node) /\ Len(Tail(array[b])) = Len(array[b]) - 1
      /\ \A i \in 1 .. Len(Tail(array[b])) : Tail(array[b])[i] = array[b][i + 1]
  BY <1>1, HeadTailProperties
<1>4. 1 \in 1 .. Len(array[b])
  BY <1>2
<1>5. Head(array[b]) = array[b][1] /\ array[b][1] \in Node
  BY <1>1, <1>4, ElementOfSeq
<1>6. <<b, 1>> \in Places(array)
  BY <1>4, PlacePairs DEF Paired
<1>7. Unlinked([array EXCEPT ![b] = Tail(@)], array, n, b, 1)
  BY <1>2, <1>3 DEF Unlinked, Chains
<1>8. QED
  BY <1>4, <1>5, <1>6, <1>7

\* A node changes arrays.
LEMMA RelinkNodeSound ==
  ASSUME IInv, RelinkNode
  PROVE  IInv' /\ AllNodes' = AllNodes
<1> DEFINE head == buckets[cursor][1]
           m == bucket_count * 2
<1>1. /\ pc = "rehashing" /\ cursor < bucket_count /\ buckets[cursor] # <<>>
      /\ new_buckets' = [new_buckets EXCEPT
           ![NodeOf(Head(buckets[cursor]).key, Head(buckets[cursor]).value).hash % m] =
             <<NodeOf(Head(buckets[cursor]).key, Head(buckets[cursor]).value)>> \o @]
      /\ buckets' = [buckets EXCEPT ![cursor] = Tail(@)]
      /\ pc' = pc /\ bucket_count' = bucket_count /\ size' = size
      /\ cursor' = cursor /\ pending' = pending
      /\ key_copies' = key_copies /\ ret' = ret
  BY DEF RelinkNode
<1>2. /\ bucket_count \in 1 .. MaxBuckets /\ bucket_count \in Nat
      /\ buckets \in Chains(bucket_count)
      /\ new_buckets \in Chains(m) /\ m \in Nat \ {0} /\ m <= MaxBuckets
      /\ cursor \in 0 .. bucket_count
      /\ pending \in [key : Keys, value : Values]
      /\ Cardinality(Places(buckets)) \in Nat
      /\ Cardinality(Places(new_buckets)) \in Nat
      /\ size \in Nat /\ key_copies = size
      /\ size = Cardinality(Places(buckets)) + Cardinality(Places(new_buckets))
      /\ WellPlaced(buckets, bucket_count) /\ DistinctKeys(buckets)
      /\ WellPlaced(new_buckets, m) /\ DistinctKeys(new_buckets)
      /\ \A p \in Places(buckets) : p[1] >= cursor
      /\ \A a \in Nodes(buckets), b \in Nodes(new_buckets) : a.key # b.key
      /\ size * 4 <= bucket_count * 3
      /\ Absent(buckets, pending.key) /\ Absent(new_buckets, pending.key)
  BY <1>1, RehashFacts
<1>3. cursor \in 0 .. bucket_count - 1
  <2>1. bucket_count \in Nat /\ cursor \in 0 .. bucket_count /\ cursor < bucket_count
    BY <1>1, <1>2
  <2>2. QED
    BY <2>1
<1>4. /\ 1 \in 1 .. Len(buckets[cursor]) /\ Head(buckets[cursor]) = head
      /\ head \in Node /\ <<cursor, 1>> \in Places(buckets)
      /\ Unlinked(buckets', buckets, bucket_count, cursor, 1)
  BY <1>1, <1>2, <1>3, TailUnlinks
<1>5. NodeAt(buckets, <<cursor, 1>>) = head /\ head \in Nodes(buckets)
  BY <1>4 DEF NodeAt, Nodes
<1>6. head.hash = Hash[head.key] /\ head.key \in Keys /\ head.value \in Values
  BY <1>2, <1>4, <1>5 DEF WellPlaced, Node
<1>7. NodeOf(head.key, head.value) = head
  BY <1>4, <1>6 DEF NodeOf, Node
<1>8. new_buckets' = Linked(new_buckets, m, head.key, head.value)
  BY <1>1, <1>4, <1>6, <1>7 DEF Linked
<1>9. Absent(new_buckets, head.key)
  BY <1>2, <1>5, AbsentNodes
<1> HIDE DEF head, m
<1>10. /\ new_buckets' \in Chains(m)
       /\ Cardinality(Places(new_buckets')) = Cardinality(Places(new_buckets)) + 1
       /\ Nodes(new_buckets') = Nodes(new_buckets) \cup {head}
       /\ WellPlaced(new_buckets', m) /\ DistinctKeys(new_buckets')
       /\ \A x : x # head.key /\ Absent(new_buckets, x) => Absent(new_buckets', x)
  BY <1>2, <1>6, <1>7, <1>8, <1>9, LinkNode
<1>11. /\ Places(buckets') \subseteq Places(buckets)
       /\ Cardinality(Places(buckets')) = Cardinality(Places(buckets)) - 1
       /\ Nodes(buckets) = Nodes(buckets') \cup {head}
       /\ WellPlaced(buckets', bucket_count)
       /\ DistinctKeys(buckets') /\ Absent(buckets', head.key)
       /\ \A x : Absent(buckets, x) => Absent(buckets', x)
       /\ buckets' \in Chains(bucket_count)
  <2>1. /\ bucket_count \in Nat /\ buckets \in Chains(bucket_count)
        /\ Unlinked(buckets', buckets, bucket_count, cursor, 1)
        /\ 1 \in 1 .. Len(buckets[cursor])
    BY <1>2, <1>4
  <2>2. /\ Places(buckets') \subseteq Places(buckets)
        /\ Cardinality(Places(buckets')) = Cardinality(Places(buckets)) - 1
    BY <2>1, <1>3, Unlink
  <2>3. Nodes(buckets) = Nodes(buckets') \cup {head}
    BY <2>1, <1>3, Unlink DEF head
  <2>4. WellPlaced(buckets', bucket_count)
    BY <2>1, <1>2, <1>3, Unlink
  <2>5. DistinctKeys(buckets') /\ Absent(buckets', head.key)
    BY <2>1, <1>2, <1>3, Unlink DEF head
  <2>6. \A x : Absent(buckets, x) => Absent(buckets', x)
    BY <2>1, <1>3, Unlink
  <2>7. buckets' \in Chains(bucket_count)
    BY <2>1 DEF Unlinked
  <2>8. QED
    BY <2>2, <2>3, <2>4, <2>5, <2>6, <2>7
<1>12. \A a \in Nodes(buckets'), b \in Nodes(new_buckets') : a.key # b.key
  <2>1. \A a \in Nodes(buckets') : a.key # head.key
    BY <1>11, AbsentNodes
  <2>2. QED
    BY <2>1, <1>2, <1>10, <1>11
<1>13. pending.key # head.key
  BY <1>2, <1>4, <1>5 DEF Absent
<1>14. Absent(buckets', pending.key) /\ Absent(new_buckets', pending.key)
  BY <1>2, <1>10, <1>11, <1>13
<1>15. /\ size' = Cardinality(Places(buckets')) + Cardinality(Places(new_buckets'))
       /\ ret' \in Replies
  <2>1. /\ size = Cardinality(Places(buckets)) + Cardinality(Places(new_buckets))
        /\ Cardinality(Places(buckets)) \in Nat
        /\ Cardinality(Places(new_buckets)) \in Nat
        /\ Cardinality(Places(new_buckets')) = Cardinality(Places(new_buckets)) + 1
        /\ Cardinality(Places(buckets')) = Cardinality(Places(buckets)) - 1
        /\ size' = size
    BY <1>1, <1>2, <1>10, <1>11
  <2>2. size' = Cardinality(Places(buckets')) + Cardinality(Places(new_buckets'))
    BY <2>1
  <2>3. ret' \in Replies
    BY <1>1 DEF IInv, TypeOK
  <2>4. QED
    BY <2>2, <2>3
<1>16. \A p \in Places(buckets') : p[1] >= cursor
  BY <1>2, <1>11
<1>17. IInv'
  BY <1>1, <1>2, <1>10, <1>11, <1>12, <1>14, <1>15, <1>16, RehashIInv DEF m
<1>18. AllNodes' = AllNodes
  BY <1>10, <1>11 DEF AllNodes
<1>19. QED
  BY <1>17, <1>18

\* An empty bucket is left behind.
LEMMA NextBucketSound ==
  ASSUME IInv, NextBucket
  PROVE  IInv' /\ AllNodes' = AllNodes
<1>1. /\ pc = "rehashing" /\ cursor < bucket_count /\ buckets[cursor] = <<>>
      /\ cursor' = cursor + 1 /\ pc' = pc /\ bucket_count' = bucket_count
      /\ buckets' = buckets /\ new_buckets' = new_buckets
      /\ size' = size /\ key_copies' = key_copies
      /\ pending' = pending /\ ret' = ret
  BY DEF NextBucket, tableVars
<1>2. /\ bucket_count \in Nat /\ buckets \in Chains(bucket_count)
      /\ cursor \in 0 .. bucket_count
      /\ \A p \in Places(buckets) : p[1] >= cursor
  BY <1>1, RehashFacts
<1>3. ASSUME NEW p \in Places(buckets)
      PROVE  p[1] >= cursor + 1
  <2>1. /\ p[1] \in 0 .. bucket_count - 1 /\ p[2] \in 1 .. Len(buckets[p[1]])
    BY <1>2, PlacePairs DEF Paired
  <2>2. p[1] # cursor
    BY <2>1, <1>1, EmptySeq
  <2>3. QED
    BY <2>1, <2>2, <1>2
<1>4. cursor' \in 0 .. bucket_count
  BY <1>1, <1>2
<1>5. IInv'
  BY <1>1, <1>3, <1>4 DEF IInv, TypeOK, SizeExact, KeysOwned, NodeCount,
                          NodesWellPlaced, KeysUnique
<1>6. QED
  BY <1>1, <1>5 DEF AllNodes

\* The loop has ended: every node is in the new array, which takes the place
\* of the old one, with or without the new node.
LEMMA InsertAfterRehashSound ==
  ASSUME IInv, InsertAfterRehash
  PROVE  /\ IInv' /\ pc' = "idle" /\ pending.key \in Keys /\ pending.value \in Values
         /\ \A e \in AllNodes : e.key # pending.key
         /\ \/ AllNodes' = AllNodes /\ ret' = Reply("insert", pending.key, FALSE, TRUE)
            \/ /\ AllNodes' = AllNodes \cup {NodeOf(pending.key, pending.value)}
               /\ ret' = Reply("insert", pending.key, TRUE, FALSE)
<1> DEFINE m == bucket_count * 2
           k == pending.key
           v == pending.value
<1>1. /\ pc = "rehashing" /\ pc' = "idle" /\ cursor = bucket_count
      /\ bucket_count' = m
      /\ new_buckets' = NoArray /\ cursor' = 0 /\ pending' = NULL
      /\ \/ (CopyKeyFails(k) \/ NodeAllocFails(k)) /\ buckets' = new_buckets
         \/ Link(new_buckets, k, v, Hash[k] % m)
  BY DEF InsertAfterRehash
<1>2. /\ bucket_count \in Nat \ {0}
      /\ buckets \in Chains(bucket_count)
      /\ new_buckets \in Chains(m) /\ m \in Nat \ {0} /\ m <= MaxBuckets
      /\ k \in Keys /\ v \in Values
      /\ size \in Nat /\ key_copies = size
      /\ size = Cardinality(Places(buckets)) + Cardinality(Places(new_buckets))
      /\ WellPlaced(new_buckets, m) /\ DistinctKeys(new_buckets)
      /\ \A p \in Places(buckets) : p[1] >= cursor
      /\ size * 4 <= bucket_count * 3
      /\ Absent(new_buckets, k)
      /\ Cardinality(Places(new_buckets)) \in Nat
  BY <1>1, RehashFacts
<1>3. m \in 1 .. MaxBuckets
  BY <1>2, ConstantFacts
<1>4. Places(buckets) = {} /\ Nodes(buckets) = {}
  <2>1. \A p \in Places(buckets) : p[1] \in 0 .. bucket_count - 1
    BY <1>2, PlacePairs DEF Paired
  <2>2. Places(buckets) = {}
    BY <2>1, <1>1, <1>2
  <2>3. QED
    BY <2>2 DEF Nodes
<1> HIDE DEF m, k, v
<1>5. size = Cardinality(Places(new_buckets)) /\ AllNodes = Nodes(new_buckets)
  <2>1. Cardinality(Places(buckets)) = 0
    BY <1>4, FS_EmptySet
  <2>2. QED
    BY <2>1, <1>2, <1>4 DEF AllNodes
<1>6. \A e \in AllNodes : e.key # k
  BY <1>2, <1>5, AbsentNodes
<1>7. AllNodes' = Nodes(buckets')
  BY <1>1, NoArrayFacts DEF AllNodes
<1>8. CASE (CopyKeyFails(k) \/ NodeAllocFails(k)) /\ buckets' = new_buckets
  <2>1. size' = size /\ key_copies' = key_copies /\ ret' = Reply("insert", k, FALSE, TRUE)
    <3>1. CASE CopyKeyFails(k)
      BY <3>1 DEF CopyKeyFails
    <3>2. CASE NodeAllocFails(k)
      BY <3>2, <1>2 DEF NodeAllocFails
    <3>3. QED
      BY <3>1, <3>2, <1>8
  <2>2. ret' \in Replies
    BY <2>1, <1>2, ReplyType
  <2>3. size' * 4 <= bucket_count' * 3
    BY <2>1, <1>1, <1>2 DEF m
  <2>4. IInv'
    BY <1>1, <1>2, <1>3, <1>5, <1>8, <2>1, <2>2, <2>3, IdleIInv
  <2>5. QED
    BY <1>1, <1>2, <1>5, <1>6, <1>7, <1>8, <2>1, <2>4 DEF k, v
<1>9. CASE Link(new_buckets, k, v, Hash[k] % m)
  <2>1. /\ key_copies' = key_copies + 1 /\ size' = size + 1
        /\ buckets' = Linked(new_buckets, m, k, v)
        /\ ret' = Reply("insert", k, TRUE, FALSE)
    BY <1>9 DEF Link, Linked
  <2>2. /\ buckets' \in Chains(m)
        /\ Cardinality(Places(buckets')) = Cardinality(Places(new_buckets)) + 1
        /\ Nodes(buckets') = Nodes(new_buckets) \cup {NodeOf(k, v)}
        /\ WellPlaced(buckets', m) /\ DistinctKeys(buckets')
    BY <1>2, <2>1, LinkNode
  <2>3. size' * 4 <= bucket_count' * 3
    <3>1. /\ bucket_count \in Nat \ {0} /\ size \in Nat
          /\ size * 4 <= bucket_count * 3
          /\ size' = size + 1 /\ bucket_count' = bucket_count * 2
      BY <2>1, <1>1, <1>2 DEF m
    <3>2. QED
      BY <3>1
  <2>4. ret' \in Replies
    BY <2>1, <1>2, ReplyType
  <2>5. /\ buckets' \in Chains(bucket_count') /\ bucket_count' \in 1 .. MaxBuckets
        /\ WellPlaced(buckets', bucket_count')
        /\ size' = Cardinality(Places(buckets')) /\ key_copies' = size'
    BY <2>1, <2>2, <1>1, <1>2, <1>3, <1>5
  <2>6. IInv'
    BY <1>1, <2>2, <2>3, <2>4, <2>5, IdleIInv
  <2>7. AllNodes' = AllNodes \cup {NodeOf(k, v)}
    BY <1>5, <1>7, <2>2
  <2>8. QED
    BY <1>1, <1>2, <1>6, <2>1, <2>6, <2>7 DEF k, v
<1>10. QED
  BY <1>1, <1>8, <1>9

\* new is array without the node of k.
UnlinkedOne(new, array, n, k) ==
  \E b \in 0 .. n - 1 : \E j \in 1 .. Len(array[b]) :
    array[b][j].key = k /\ Unlinked(new, array, n, b, j)

\* A key and its node leave.
LEMMA RemoveSound ==
  ASSUME IInv, NEW k \in Keys \cup BadKeys, Remove(k)
  PROVE  /\ IInv' /\ AllNodes' = {e \in AllNodes : e.key # k}
         /\ \E e \in AllNodes : e.key = k
         /\ UnlinkedOne(buckets', buckets, bucket_count, k)
<1> DEFINE b == Index(k)
           j == Position(k)
<1>1. /\ pc = "idle" /\ Found(k)
      /\ buckets' = [buckets EXCEPT ![b] = SeqExt!RemoveAt(@, j)]
      /\ key_copies' = key_copies - 1 /\ size' = size - 1
      /\ ret' = Reply("remove", k, TRUE, FALSE)
      /\ pc' = pc /\ bucket_count' = bucket_count /\ new_buckets' = new_buckets
      /\ cursor' = cursor /\ pending' = pending
  BY DEF Remove, rehashVars
<1>2. /\ bucket_count \in 1 .. MaxBuckets /\ bucket_count \in Nat
      /\ buckets \in Chains(bucket_count)
      /\ size \in Nat /\ key_copies = size /\ size = Cardinality(Places(buckets))
      /\ new_buckets = NoArray /\ cursor = 0 /\ pending = NULL
      /\ WellPlaced(buckets, bucket_count) /\ DistinctKeys(buckets)
      /\ size * 4 <= bucket_count * 3
  BY <1>1, IdleFacts
<1>3. b \in 0 .. bucket_count - 1 /\ j \in 1 .. Len(buckets[b]) /\ buckets[b][j].key = k
  BY <1>1, SearchResult
<1> HIDE DEF b, j
<1>4. buckets[b] \in Seq(Node) /\ Len(buckets[b]) \in Nat
  BY <1>2, <1>3, LenProperties DEF Chains
<1>5. /\ SeqExt!RemoveAt(buckets[b], j) \in Seq(Node)
      /\ Len(SeqExt!RemoveAt(buckets[b], j)) = Len(buckets[b]) - 1
      /\ \A i \in 1 .. Len(buckets[b]) - 1 :
           SeqExt!RemoveAt(buckets[b], j)[i] =
             IF i < j THEN buckets[b][i] ELSE buckets[b][i + 1]
  BY <1>3, <1>4, RemoveAtFacts
<1>6. Unlinked(buckets', buckets, bucket_count, b, j)
  BY <1>1, <1>2, <1>3, <1>4, <1>5 DEF Unlinked, Chains
<1>7. buckets' \in Chains(bucket_count)
  BY <1>6 DEF Unlinked
<1>8. /\ Cardinality(Places(buckets')) = Cardinality(Places(buckets)) - 1
      /\ Nodes(buckets) = Nodes(buckets') \cup {buckets[b][j]}
  BY <1>2, <1>3, <1>6, Unlink
<1>9. WellPlaced(buckets', bucket_count)
  BY <1>2, <1>3, <1>6, Unlink
<1>10. DistinctKeys(buckets') /\ Absent(buckets', k)
  BY <1>2, <1>3, <1>6, Unlink
<1>11. Cardinality(Places(buckets)) \in Nat /\ Cardinality(Places(buckets')) \in Nat
  BY <1>2, <1>7, PlacesFinite
<1>12. /\ size' = Cardinality(Places(buckets')) /\ key_copies' = size'
       /\ size' * 4 <= bucket_count' * 3
  <2>1. /\ size' = size - 1 /\ key_copies' = size - 1 /\ size \in Nat
        /\ size = Cardinality(Places(buckets)) /\ size * 4 <= bucket_count * 3
        /\ bucket_count' = bucket_count /\ bucket_count \in Nat
    BY <1>1, <1>2
  <2>2. QED
    BY <2>1, <1>8
<1>13. ret' \in Replies
  BY <1>1, ReplyType
<1>14. /\ pc' = "idle" /\ bucket_count' \in 1 .. MaxBuckets
       /\ buckets' \in Chains(bucket_count')
       /\ WellPlaced(buckets', bucket_count')
       /\ new_buckets' = NoArray /\ cursor' = 0 /\ pending' = NULL
  BY <1>1, <1>2, <1>7, <1>9
<1>15. IInv'
  BY <1>10, <1>12, <1>13, <1>14, IdleIInv
<1>16. AllNodes = Nodes(buckets) /\ AllNodes' = Nodes(buckets')
  BY <1>2, <1>14, NoArrayFacts DEF AllNodes
<1>17. \A e \in Nodes(buckets') : e.key # k
  BY <1>10, AbsentNodes
<1>18. UnlinkedOne(buckets', buckets, bucket_count, k)
  BY <1>3, <1>6 DEF UnlinkedOne
<1>19. QED
  BY <1>3, <1>8, <1>15, <1>16, <1>17, <1>18

\* All nodes are freed; what is left is the array, or nothing.
LEMMA ClearSound ==
  ASSUME IInv, Clear
  PROVE  IInv' /\ AllNodes' = {}
<1>1. /\ pc = "idle" /\ buckets' = Calloc(bucket_count) /\ size' = 0
      /\ key_copies' = key_copies - Cardinality(Places(buckets))
      /\ ret' = Reply("clear", NULL, NULL, FALSE)
      /\ pc' = pc /\ bucket_count' = bucket_count /\ new_buckets' = new_buckets
      /\ cursor' = cursor /\ pending' = pending
  BY DEF Clear, rehashVars
<1>2. /\ bucket_count \in 1 .. MaxBuckets /\ bucket_count \in Nat
      /\ size \in Nat /\ key_copies = size /\ size = Cardinality(Places(buckets))
      /\ new_buckets = NoArray /\ cursor = 0 /\ pending = NULL
  BY <1>1, IdleFacts
<1>3. /\ buckets' \in Chains(bucket_count)
      /\ Places(buckets') = {} /\ Nodes(buckets') = {}
      /\ Cardinality(Places(buckets')) = 0
  BY <1>1, <1>2, CallocFacts
<1>4. WellPlaced(buckets', bucket_count') /\ DistinctKeys(buckets')
  BY <1>3 DEF WellPlaced, DistinctKeys
<1>5. ret' \in Replies
  BY <1>1, ReplyType
<1>6. IInv'
  BY <1>1, <1>2, <1>3, <1>4, <1>5, IdleIInv
<1>7. AllNodes' = {}
  BY <1>1, <1>2, <1>3, NoArrayFacts DEF AllNodes
<1>8. QED
  BY <1>6, <1>7

\* Destroying a table leaves no array and no key copy.
LEMMA DestroySound ==
  ASSUME IInv, Destroy
  PROVE  IInv' /\ AllNodes' = {}
<1>1. /\ pc = "idle" /\ pc' = "none" /\ buckets' = NoArray
      /\ bucket_count' = 0 /\ size' = 0
      /\ key_copies' = key_copies - Cardinality(Places(buckets))
      /\ ret' = Reply("destroy", NULL, NULL, FALSE)
      /\ new_buckets' = new_buckets /\ cursor' = cursor /\ pending' = pending
  BY DEF Destroy, rehashVars
<1>2. /\ size \in Nat /\ key_copies = size /\ size = Cardinality(Places(buckets))
      /\ new_buckets = NoArray /\ cursor = 0 /\ pending = NULL
  BY <1>1, IdleFacts
<1>3. key_copies' = 0
  BY <1>1, <1>2
<1>4. ret' \in Replies
  BY <1>1, ReplyType
<1>5. TypeOK'
  <2>1. /\ pc' \in {"none", "idle", "rehashing"}
        /\ bucket_count' \in 0 .. MaxBuckets
        /\ bucket_count' = 0 <=> pc' = "none"
        /\ size' \in Nat /\ key_copies' \in Nat
        /\ cursor' \in 0 .. bucket_count'
    BY <1>1, <1>2, <1>3, ConstantFacts
  <2>2. buckets' \in Chains(bucket_count')
    BY <1>1, NoArrayFacts
  <2>3. IF pc' = "rehashing"
        THEN /\ new_buckets' \in [0 .. bucket_count' * 2 - 1 -> Seq(Node)]
             /\ pending' \in [key : Keys, value : Values]
        ELSE new_buckets' = NoArray' /\ cursor' = 0 /\ pending' = NULL
    BY <1>1, <1>2 DEF NoArray, Calloc
  <2>4. QED
    BY <2>1, <2>2, <2>3, <1>4 DEF TypeOK, Chains
<1>6. SizeExact' /\ KeysOwned'
  BY <1>1, <1>2, <1>3, NoArrayFacts DEF SizeExact, KeysOwned, NodeCount
<1>7. NodesWellPlaced' /\ KeysUnique' /\ AllNodes' = {}
  BY <1>1, <1>2, NoArrayFacts DEF NodesWellPlaced, KeysUnique, AllNodes
<1>8. QED
  BY <1>1, <1>5, <1>6, <1>7 DEF IInv

\* The calls that only reply.
LEMMA RepliesSound ==
  ASSUME IInv, NEW k \in Keys \cup BadKeys,
         \/ k \in BadKeys /\ InsertBadKey(k)
         \/ k \in Keys /\ GrowFails(k)
         \/ Find(k) \/ RemoveMissing(k)
  PROVE  IInv' /\ AllNodes' = AllNodes
<1>1. UNCHANGED <<pc, tableVars, rehashVars>>
  BY DEF InsertBadKey, GrowFails, Find, RemoveMissing
<1>2. ret' \in Replies
  <2>1. CASE InsertBadKey(k) \/ GrowFails(k) \/ RemoveMissing(k)
    BY <2>1, ReplyType DEF InsertBadKey, GrowFails, RemoveMissing
  <2>2. CASE Find(k)
    <3>1. Lookup(k) \in Values \cup {NULL}
      <4>1. CASE Found(k)
        <5>1. pc = "idle"
          BY <2>2 DEF Find
        <5>2. /\ Index(k) \in 0 .. bucket_count - 1
              /\ Position(k) \in 1 .. Len(buckets[Index(k)])
          BY <4>1, <5>1, SearchResult
        <5>3. buckets[Index(k)] \in Seq(Node)
          BY <5>1, <5>2, IdleFacts DEF Chains
        <5>4. buckets[Index(k)][Position(k)] \in Node
          BY <5>2, <5>3, ElementOfSeq
        <5>5. QED
          BY <4>1, <5>4 DEF Lookup, Node
      <4>2. CASE ~Found(k)
        BY <4>2 DEF Lookup
      <4>3. QED
        BY <4>1, <4>2
    <3>2. QED
      BY <2>2, <3>1, ReplyType DEF Find
  <2>3. QED
    BY <2>1, <2>2
<1>3. QED
  BY <1>1, <1>2, OnlyReplies

\* A failed creation leaves no table.
LEMMA CreateFailsSound ==
  ASSUME IInv, NEW n \in Requests, NEW wellFormed \in BOOLEAN,
         CreateFails(n, wellFormed)
  PROVE  IInv' /\ AllNodes' = AllNodes
<1>1. (n # 0 /\ wellFormed) \in BOOLEAN
  OBVIOUS
<1>2. ret' \in Replies
  BY <1>1, ReplyType DEF CreateFails
<1>3. QED
  BY <1>2, OnlyReplies DEF CreateFails

-----------------------------------------------------------------------------
(* The invariant holds of every behaviour.                                 *)

\* Every step of the backend preserves the inductive invariant.
THEOREM IInvInductive == IInv /\ [Next]_vars => IInv'
<1> SUFFICES ASSUME IInv, [Next]_vars PROVE IInv'
  OBVIOUS
<1>1. CASE \E n \in Requests : Create(n)
  BY <1>1, CreateSound
<1>2. CASE \E n \in Requests, wellFormed \in BOOLEAN : CreateFails(n, wellFormed)
  BY <1>2, CreateFailsSound
<1>3. CASE \E k \in BadKeys : InsertBadKey(k)
  BY <1>3, RepliesSound
<1>4. CASE \E k \in Keys, v \in Values : Update(k, v)
  BY <1>4, UpdateSound
<1>5. CASE \E k \in Keys, v \in Values : Insert(k, v)
  BY <1>5, InsertSound
<1>6. CASE \E k \in Keys : GrowFails(k)
  BY <1>6, RepliesSound
<1>7. CASE \E k \in Keys, v \in Values : BeginRehash(k, v)
  BY <1>7, BeginRehashSound
<1>8. CASE RelinkNode
  BY <1>8, RelinkNodeSound
<1>9. CASE NextBucket
  BY <1>9, NextBucketSound
<1>10. CASE InsertAfterRehash
  BY <1>10, InsertAfterRehashSound
<1>11. CASE \E k \in Keys \cup BadKeys : Find(k) \/ RemoveMissing(k)
  BY <1>11, RepliesSound
<1>12. CASE \E k \in Keys \cup BadKeys : Remove(k)
  BY <1>12, RemoveSound
<1>13. CASE Clear
  BY <1>13, ClearSound
<1>14. CASE Destroy
  BY <1>14, DestroySound
<1>15. CASE UNCHANGED vars
  <2>1. UNCHANGED <<pc, tableVars, rehashVars>> /\ ret' = ret
    BY <1>15 DEF vars
  <2>2. QED
    BY <2>1, OnlyReplies DEF IInv, TypeOK
<1>16. QED
  BY <1>1, <1>2, <1>3, <1>4, <1>5, <1>6, <1>7, <1>8, <1>9, <1>10, <1>11,
     <1>12, <1>13, <1>14, <1>15 DEF Next, RehashStep

\* The inductive invariant holds in every state of every behaviour.
THEOREM SpecIInv == Spec => []IInv
<1>1. Init => IInv
  BY InitSound
<1>2. IInv /\ [Next]_vars => IInv'
  BY IInvInductive
<1>3. QED
  BY <1>1, <1>2, PTL DEF Spec

\* Every variable keeps its type, in and between calls.
THEOREM SpecTypeOK == Spec => []TypeOK
<1>1. IInv => TypeOK
  BY DEF IInv
<1>2. QED
  BY <1>1, SpecIInv, PTL

\* size, which the load test trusts, counts the nodes of the table, in the
\* middle of a rehash those of both arrays.
THEOREM SpecSizeExact == Spec => []SizeExact
<1>1. IInv => SizeExact
  BY DEF IInv
<1>2. QED
  BY <1>1, SpecIInv, PTL

\* No sequence of calls leaks a copy of a key or destroys one twice.
THEOREM SpecKeysOwned == Spec => []KeysOwned
<1>1. IInv => KeysOwned
  BY DEF IInv
<1>2. QED
  BY <1>1, SpecIInv, PTL

\* Every node is in the bucket its cached hash selects, of the array it is
\* in, and no bucket the rehash loop has left keeps one.
THEOREM SpecNodesWellPlaced == Spec => []NodesWellPlaced
<1>1. IInv => NodesWellPlaced
  BY DEF IInv
<1>2. QED
  BY <1>1, SpecIInv, PTL

\* No key ever has two nodes, in one array or across the two.
THEOREM SpecKeysUnique == Spec => []KeysUnique
<1>1. IInv => KeysUnique
  BY DEF IInv
<1>2. QED
  BY <1>1, SpecIInv, PTL

\* Between calls a table has at most three quarters as many entries as
\* buckets, from a table of one bucket on.
THEOREM SpecLoadBounded == Spec => []LoadBounded
<1>1. IInv => LoadBounded
  BY DEF IInv, LoadBounded
<1>2. QED
  BY <1>1, SpecIInv, PTL

-----------------------------------------------------------------------------
(* The backend implements the abstract map.                                *)

\* The map of a table is the map of its nodes.
LEMMA ContentsOfNodes == Contents = MapOf(AllNodes) /\ Contents' = MapOf(AllNodes')
BY DEF Contents, MapOf, KeysOf

\* The map of no nodes is the empty map.
LEMMA MapOfNothing == MapOf({}) = StrictMap!NoKeys
<1>1. KeysOf({}) = {}
  BY DEF KeysOf
<1>2. QED
  BY <1>1 DEF MapOf, StrictMap!NoKeys

\* A node for k, new or in the place of an older one, binds k.
LEMMA NodeBinds ==
  ASSUME NEW E, OneEntryPerKey(E), NEW k \in Keys, NEW v \in Values,
         NEW F, F = {e \in E : e.key # k} \cup {NodeOf(k, v)}
  PROVE  MapOf(F) = StrictMap!Bind(MapOf(E), k, v)
<1>1. NodeOf(k, v).key = k /\ NodeOf(k, v).value = v
  BY NodeOfFacts
<1>2. Rebound(F, E, NodeOf(k, v))
  BY <1>1 DEF Rebound
<1>3. MapOf(F) = WithKey(MapOf(E), NodeOf(k, v).key, NodeOf(k, v).value)
  BY <1>2, MapOfBind
<1>4. QED
  BY <1>1, <1>3 DEF WithKey, StrictMap!Bind

\* Taking the node for k out, if there is one, unbinds k.
LEMMA NodeUnbinds ==
  ASSUME NEW E, OneEntryPerKey(E), NEW k, NEW F, F = {e \in E : e.key # k}
  PROVE  MapOf(F) = StrictMap!Unbind(MapOf(E), k)
<1>1. MapOf(F) = [x \in DOMAIN MapOf(E) \ {k} |-> MapOf(E)[x]]
  BY MapOfUnbind
<1>2. QED
  BY <1>1 DEF StrictMap!Unbind, StrictMap!Restrict

\* The search finds what the map binds, and returns the value it binds it to.
LEMMA SearchMap ==
  ASSUME IInv, pc = "idle", NEW k
  PROVE  /\ Found(k) <=> k \in DOMAIN Contents
         /\ Lookup(k) = IF k \in DOMAIN Contents THEN Contents[k] ELSE NULL
<1>1. OneEntryPerKey(AllNodes) /\ AllNodes = Nodes(buckets)
  BY AllNodesFacts
<1>2. /\ DOMAIN Contents = KeysOf(AllNodes)
      /\ \A e \in AllNodes : e.key \in KeysOf(AllNodes) /\ Contents[e.key] = e.value
  BY <1>1, MapOfEntry, ContentsOfNodes
<1>3. CASE Found(k)
  <2> DEFINE e == buckets[Index(k)][Position(k)]
  <2>1. /\ k \in Keys /\ Index(k) \in 0 .. bucket_count - 1
        /\ Position(k) \in 1 .. Len(buckets[Index(k)]) /\ e.key = k
    BY <1>3, SearchResult
  <2>2. Paired(buckets, bucket_count)
    BY IdleFacts, PlacePairs
  <2>3. <<Index(k), Position(k)>> \in Places(buckets)
    BY <2>1, <2>2 DEF Paired
  <2>4. e \in AllNodes
    BY <2>3, <1>1 DEF Nodes
  <2>5. Lookup(k) = e.value
    BY <1>3 DEF Lookup
  <2>6. QED
    BY <1>2, <1>3, <2>1, <2>4, <2>5
<1>4. CASE ~Found(k)
  <2>1. Absent(buckets, k)
    BY <1>4, SearchResult
  <2>2. \A e \in AllNodes : e.key # k
    BY <2>1, <1>1, AbsentNodes
  <2>3. k \notin DOMAIN Contents
    BY <2>2, <1>2 DEF KeysOf
  <2>4. Lookup(k) = NULL
    BY <1>4 DEF Lookup
  <2>5. QED
    BY <1>4, <2>3, <2>4
<1>5. QED
  BY <1>3, <1>4

\* The two modules mean the same by a reply.
LEMMA SameReply ==
  \A op, k, result, oom : StrictMap!Reply(op, k, result, oom) = Reply(op, k, result, oom)
BY DEF StrictMap!Reply, Reply

\* Creating, and failing to create, a table.
LEMMA CreateMaps ==
  ASSUME IInv, NEW n \in Requests, NEW wellFormed \in BOOLEAN,
         Create(n) \/ CreateFails(n, wellFormed)
  PROVE  StrictMap!Create \/ \E oom \in BOOLEAN : StrictMap!CreateRefused(oom)
<1>1. CASE Create(n)
  <2>1. AllNodes' = {}
    BY <1>1, CreateSound
  <2>2. Contents' = StrictMap!NoKeys
    BY <2>1, MapOfNothing, ContentsOfNodes
  <2>3. StrictMap!Create
    BY <1>1, <2>2, SameReply DEF Create, StrictMap!Create
  <2>4. QED
    BY <2>3
<1>2. CASE CreateFails(n, wellFormed)
  <2>1. AllNodes' = AllNodes
    BY <1>2, CreateFailsSound
  <2>2. Contents' = Contents
    BY <2>1, ContentsOfNodes
  <2>3. StrictMap!CreateRefused(n # 0 /\ wellFormed)
    BY <1>2, <2>2, SameReply DEF CreateFails, StrictMap!CreateRefused
  <2>4. QED
    BY <2>3
<1>3. QED
  BY <1>1, <1>2

\* Binding a key: a new value for a key that is there, or a new node. A
\* failed allocation leaves the map alone, also after a rehash.
LEMMA InsertMaps ==
  ASSUME IInv, NEW k \in Keys, NEW v \in Values, pc # "none", pc' # "none",
         \/ /\ AllNodes' = {e \in AllNodes : e.key # k} \cup {NodeOf(k, v)}
            /\ ret' = Reply("insert", k, TRUE, FALSE)
         \/ AllNodes' = AllNodes /\ ret' = Reply("insert", k, FALSE, TRUE)
  PROVE  StrictMap!Insert(k, v) \/ StrictMap!InsertRefused(k, TRUE)
<1>1. CASE /\ AllNodes' = {e \in AllNodes : e.key # k} \cup {NodeOf(k, v)}
           /\ ret' = Reply("insert", k, TRUE, FALSE)
  <2>1. MapOf(AllNodes') = StrictMap!Bind(MapOf(AllNodes), k, v)
    BY <1>1, AllNodesFacts, NodeBinds
  <2>2. Contents' = StrictMap!Bind(Contents, k, v)
    BY <2>1, ContentsOfNodes
  <2>3. QED
    BY <1>1, <2>2, SameReply DEF StrictMap!Insert
<1>2. CASE AllNodes' = AllNodes /\ ret' = Reply("insert", k, FALSE, TRUE)
  <2>1. Contents' = Contents
    BY <1>2, ContentsOfNodes
  <2>2. QED
    BY <1>2, <2>1, SameReply DEF StrictMap!InsertRefused
<1>3. QED
  BY <1>1, <1>2

\* Finding a key, and removing one, whether it is there or not.
LEMMA FindMaps ==
  ASSUME IInv, NEW k \in Keys \cup BadKeys, Find(k)
  PROVE  StrictMap!Find(k)
<1>1. pc = "idle" /\ pc' = pc /\ ret' = Reply("find", k, Lookup(k), FALSE)
  BY DEF Find
<1>2. Contents' = Contents
  BY RepliesSound, ContentsOfNodes
<1>3. Lookup(k) = IF k \in DOMAIN Contents THEN Contents[k] ELSE NULL
  BY <1>1, SearchMap
<1>4. QED
  BY <1>1, <1>2, <1>3, SameReply DEF StrictMap!Find

\* A remove takes its key out of the map and says whether it was there.
LEMMA RemoveMaps ==
  ASSUME IInv, NEW k \in Keys \cup BadKeys, Remove(k) \/ RemoveMissing(k)
  PROVE  StrictMap!Remove(k)
<1>1. pc = "idle" /\ pc' = pc
  BY DEF Remove, RemoveMissing
<1>2. ret' = Reply("remove", k, k \in DOMAIN Contents, FALSE)
  <2>1. Found(k) <=> k \in DOMAIN Contents
    BY <1>1, SearchMap
  <2>2. CASE Remove(k)
    <3>1. Found(k) /\ ret' = Reply("remove", k, TRUE, FALSE)
      BY <2>2 DEF Remove
    <3>2. (k \in DOMAIN Contents) = TRUE
      BY <3>1, <2>1
    <3>3. QED
      BY <3>1, <3>2
  <2>3. CASE RemoveMissing(k)
    <3>1. ~Found(k) /\ ret' = Reply("remove", k, FALSE, FALSE)
      BY <2>3 DEF RemoveMissing
    <3>2. (k \in DOMAIN Contents) = FALSE
      BY <3>1, <2>1
    <3>3. QED
      BY <3>1, <3>2
  <2>4. QED
    BY <2>2, <2>3
<1>3. AllNodes' = {e \in AllNodes : e.key # k}
  <2>1. CASE Remove(k)
    BY <2>1, RemoveSound
  <2>2. CASE RemoveMissing(k)
    <3>1. AllNodes' = AllNodes
      BY <2>2, RepliesSound
    <3>2. ~Found(k)
      BY <2>2 DEF RemoveMissing
    <3>3. Absent(buckets, k) /\ AllNodes = Nodes(buckets)
      BY <1>1, <3>2, SearchResult, AllNodesFacts
    <3>4. \A e \in AllNodes : e.key # k
      BY <3>3, AbsentNodes
    <3>5. QED
      BY <3>1, <3>4
  <2>3. QED
    BY <2>1, <2>2
<1>4. Contents' = StrictMap!Unbind(Contents, k)
  BY <1>3, AllNodesFacts, NodeUnbinds, ContentsOfNodes
<1>5. QED
  BY <1>1, <1>2, <1>4, SameReply DEF StrictMap!Remove

\* Clearing and destroying the table.
LEMMA EmptyMaps ==
  ASSUME IInv, Clear \/ Destroy
  PROVE  StrictMap!Clear \/ StrictMap!Destroy
<1>1. Contents' = StrictMap!NoKeys
  BY ClearSound, DestroySound, MapOfNothing, ContentsOfNodes
<1>2. CASE Clear
  BY <1>1, <1>2, SameReply DEF Clear, StrictMap!Clear
<1>3. CASE Destroy
  BY <1>1, <1>3, SameReply DEF Destroy, StrictMap!Destroy
<1>4. QED
  BY <1>2, <1>3

\* A step of the backend is a step of the abstract map, or none: the steps
\* of a rehash are none until its last, which is the insert.
THEOREM StepImplementsMap == IInv /\ [Next]_vars => [StrictMap!Next]_StrictMap!vars
<1> SUFFICES ASSUME IInv, [Next]_vars PROVE [StrictMap!Next]_StrictMap!vars
  OBVIOUS
<1> USE DEF StrictMap!Next
<1>1. CASE \E n \in Requests : Create(n) \/ \E wellFormed \in BOOLEAN : CreateFails(n, wellFormed)
  BY <1>1, CreateMaps
<1>2. CASE \E k \in BadKeys : InsertBadKey(k)
  <2>1. PICK k \in BadKeys : InsertBadKey(k)
    BY <1>2
  <2>2. AllNodes' = AllNodes
    BY <2>1, RepliesSound
  <2>3. Contents' = Contents
    BY <2>2, ContentsOfNodes
  <2>4. StrictMap!InsertRefused(k, FALSE)
    BY <2>1, <2>3, SameReply DEF InsertBadKey, StrictMap!InsertRefused
  <2>5. QED
    BY <2>4
<1>3. CASE \E k \in Keys, v \in Values : Update(k, v) \/ Insert(k, v) \/ GrowFails(k)
  <2>1. PICK k \in Keys, v \in Values : Update(k, v) \/ Insert(k, v) \/ GrowFails(k)
    BY <1>3
  <2>2. pc # "none" /\ pc' # "none"
    BY <2>1 DEF Update, Insert, GrowFails
  <2>3. CASE Update(k, v)
    <3>1. ret' = Reply("insert", k, TRUE, FALSE)
      BY <2>3 DEF Update
    <3>2. StrictMap!Insert(k, v) \/ StrictMap!InsertRefused(k, TRUE)
      BY <2>2, <2>3, <3>1, UpdateSound, InsertMaps
    <3>3. QED
      BY <3>2
  <2>4. CASE Insert(k, v)
    <3>1. /\ \A e \in AllNodes : e.key # k
          /\ \/ AllNodes' = AllNodes /\ ret' = Reply("insert", k, FALSE, TRUE)
             \/ /\ AllNodes' = AllNodes \cup {NodeOf(k, v)}
                /\ ret' = Reply("insert", k, TRUE, FALSE)
      BY <2>4, InsertSound
    <3>2. AllNodes \cup {NodeOf(k, v)} = {e \in AllNodes : e.key # k} \cup {NodeOf(k, v)}
      BY <3>1
    <3>3. StrictMap!Insert(k, v) \/ StrictMap!InsertRefused(k, TRUE)
      BY <2>2, <3>1, <3>2, InsertMaps
    <3>4. QED
      BY <3>3
  <2>5. CASE GrowFails(k)
    <3>1. AllNodes' = AllNodes
      BY <2>5, RepliesSound
    <3>2. ret' = Reply("insert", k, FALSE, TRUE)
      BY <2>5 DEF GrowFails
    <3>3. StrictMap!Insert(k, v) \/ StrictMap!InsertRefused(k, TRUE)
      BY <2>2, <3>1, <3>2, InsertMaps
    <3>4. QED
      BY <3>3
  <2>6. QED
    BY <2>1, <2>3, <2>4, <2>5
<1>4. CASE \/ \E k \in Keys, v \in Values : BeginRehash(k, v)
           \/ RelinkNode \/ NextBucket
  <2>1. AllNodes' = AllNodes
    BY <1>4, BeginRehashSound, RelinkNodeSound, NextBucketSound
  <2>2. Contents' = Contents
    BY <2>1, ContentsOfNodes
  <2>3. pc # "none" /\ pc' # "none" /\ ret' = ret
    BY <1>4 DEF BeginRehash, RelinkNode, NextBucket
  <2>4. QED
    BY <2>2, <2>3 DEF StrictMap!vars
<1>5. CASE InsertAfterRehash
  <2> DEFINE k == pending.key
             v == pending.value
  <2>1. /\ pc' = "idle" /\ k \in Keys /\ v \in Values
        /\ \A e \in AllNodes : e.key # k
        /\ \/ AllNodes' = AllNodes /\ ret' = Reply("insert", k, FALSE, TRUE)
           \/ /\ AllNodes' = AllNodes \cup {NodeOf(k, v)}
              /\ ret' = Reply("insert", k, TRUE, FALSE)
    BY <1>5, InsertAfterRehashSound
  <2>2. pc # "none"
    BY <1>5 DEF InsertAfterRehash
  <2> HIDE DEF k, v
  <2>3. AllNodes \cup {NodeOf(k, v)} = {e \in AllNodes : e.key # k} \cup {NodeOf(k, v)}
    BY <2>1
  <2>4. pc' # "none"
    BY <2>1
  <2>5. StrictMap!Insert(k, v) \/ StrictMap!InsertRefused(k, TRUE)
    BY <2>1, <2>2, <2>3, <2>4, InsertMaps
  <2>6. QED
    BY <2>1, <2>5
<1>6. CASE \E k \in Keys \cup BadKeys : Find(k) \/ Remove(k) \/ RemoveMissing(k)
  BY <1>6, FindMaps, RemoveMaps
<1>7. CASE Clear \/ Destroy
  BY <1>7, EmptyMaps
<1>8. CASE UNCHANGED vars
  <2>1. AllNodes' = AllNodes /\ pc' = pc /\ ret' = ret
    BY <1>8 DEF vars, tableVars, rehashVars, AllNodes
  <2>2. Contents' = Contents
    BY <2>1, ContentsOfNodes
  <2>3. QED
    BY <2>1, <2>2 DEF StrictMap!vars
<1>9. QED
  BY <1>1, <1>2, <1>3, <1>4, <1>5, <1>6, <1>7, <1>8 DEF Next, RehashStep

\* The backend implements the abstract map, for every set of keys, hash
\* function and memory size: a find returns what was last inserted, a remove
\* and an insert report what they did, and an insert that fails, before or
\* after a rehash, leaves the contents alone.
THEOREM SpecImplementsMap == Spec => ImplementsMap
<1>1. Init => StrictMap!Init
  <2> SUFFICES ASSUME Init PROVE StrictMap!Init
    OBVIOUS
  <2>1. Contents = StrictMap!NoKeys
    BY InitSound, MapOfNothing, ContentsOfNodes
  <2>2. ret = StrictMap!NoReply /\ pc = "none"
    BY SameReply DEF Init, NoReply, StrictMap!NoReply
  <2>3. QED
    BY <2>1, <2>2 DEF StrictMap!Init
<1>2. IInv /\ [Next]_vars => [StrictMap!Next]_StrictMap!vars
  BY StepImplementsMap
<1>3. QED
  BY <1>1, <1>2, SpecIInv, PTL DEF Spec, ImplementsMap, StrictMap!Spec

=============================================================================
