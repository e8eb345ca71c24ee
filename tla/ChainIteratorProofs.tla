------------------------- MODULE ChainIteratorProofs ------------------------
(***************************************************************************)
(* Proofs about ChainIterator: the iterator's type invariant, that its     *)
(* pointer stays linked unless a callback frees the node, the promise that *)
(* foreach visits every entry once, and that it implements the abstract    *)
(* iteration, for every table and every careful callback.                  *)
(***************************************************************************)
EXTENDS ChainIterator, ChainTableProofs

-----------------------------------------------------------------------------
(* Places and the keys at them.                                            *)

\* The place of k in an array, and the keys at a position or behind it.
PlaceIn(array, k) == CHOOSE p \in Places(array) : NodeAt(array, p).key = k

From(array, b, i) ==
  {q \in Places(array) : q[1] > b \/ (q[1] = b /\ q[2] >= i)}

KeysFrom(array, b, i) == {NodeAt(array, q).key : q \in From(array, b, i)}

\* What the iterator's definitions say in those terms.
LEMMA Unfold ==
  /\ \A k : PlaceOf(k) = PlaceIn(buckets, k)
  /\ Ahead = IF current = NULL THEN {}
             ELSE KeysFrom(buckets, bucket_index, PlaceIn(buckets, current)[2])
  /\ StoredKeys = KeysOf(AllNodes)
BY DEF PlaceOf, PlaceIn, Ahead, KeysFrom, From, NodeAt, StoredKeys, KeysOf

\* A stored key has one place.
LEMMA PlaceFound ==
  ASSUME NEW array, DistinctKeys(array), NEW p \in Places(array)
  PROVE  PlaceIn(array, NodeAt(array, p).key) = p
BY DEF PlaceIn, DistinctKeys

\* Between calls the stored keys are those at the places of the one array.
LEMMA IdlePlaces ==
  ASSUME IInv, pc = "idle"
  PROVE  /\ bucket_count \in Nat \ {0} /\ buckets \in Chains(bucket_count)
         /\ Paired(buckets, bucket_count) /\ DistinctKeys(buckets)
         /\ StoredKeys = {NodeAt(buckets, p).key : p \in Places(buckets)}
         /\ StoredKeys \subseteq Keys
         /\ \A k \in StoredKeys :
              /\ PlaceIn(buckets, k) \in Places(buckets)
              /\ NodeAt(buckets, PlaceIn(buckets, k)).key = k
<1>1. /\ bucket_count \in Nat \ {0} /\ buckets \in Chains(bucket_count)
      /\ DistinctKeys(buckets)
  BY IdleFacts
<1>2. Paired(buckets, bucket_count)
  BY <1>1, PlacePairs
<1>3. StoredKeys = {NodeAt(buckets, p).key : p \in Places(buckets)}
  BY AllNodesFacts DEF StoredKeys, Nodes, NodeAt
<1>4. StoredKeys \subseteq Keys
  BY <1>2, <1>3 DEF Paired, Node
<1>5. ASSUME NEW k \in StoredKeys
      PROVE  /\ PlaceIn(buckets, k) \in Places(buckets)
             /\ NodeAt(buckets, PlaceIn(buckets, k)).key = k
  <2>1. PICK p \in Places(buckets) : NodeAt(buckets, p).key = k
    BY <1>3
  <2>2. QED
    BY <2>1 DEF PlaceIn
<1>6. QED
  BY <1>1, <1>2, <1>3, <1>4, <1>5

\* Stored keys are keys, in the middle of a rehash too.
LEMMA StoredAreKeys == /\ IInv => StoredKeys \subseteq Keys
                       /\ IInv' => StoredKeys' \subseteq Keys
<1>1. IInv => StoredKeys \subseteq Keys
  BY AllNodesFacts DEF StoredKeys, Node
<1>2. ASSUME IInv'
      PROVE  StoredKeys' \subseteq Keys
  <2>1. TypeOK'
    BY <1>2 DEF IInv
  <2>2. /\ bucket_count' \in Nat /\ bucket_count' * 2 \in Nat
        /\ buckets' \in Chains(bucket_count')
        /\ new_buckets' = NoArray \/ new_buckets' \in Chains(bucket_count' * 2)
    <3>1. bucket_count' \in Nat
      BY <2>1, ConstantFacts DEF TypeOK
    <3>2. buckets' \in Chains(bucket_count')
      BY <2>1 DEF TypeOK, Chains
    <3>3. new_buckets' = NoArray \/ new_buckets' \in Chains(bucket_count' * 2)
      BY <2>1 DEF TypeOK, Chains
    <3>4. bucket_count' * 2 \in Nat
      <4>1. \A n \in Nat : n * 2 \in Nat
        OBVIOUS
      <4>2. QED
        BY <3>1, <4>1
    <3>5. QED
      BY <3>1, <3>2, <3>3, <3>4, Zenon
  <2>3. \A n \in Nat : \A array \in Chains(n) : \A e \in Nodes(array) : e.key \in Keys
    <3> TAKE n \in Nat
    <3> TAKE array \in Chains(n)
    <3>1. \A p \in Places(array) : NodeAt(array, p) \in Node
      BY PlacePairs DEF Paired
    <3>2. QED
      BY <3>1 DEF Nodes, NodeAt, Node
  <2>4. \A e \in Nodes(new_buckets') : e.key \in Keys
    BY <2>2, <2>3, NoArrayFacts
  <2>5. QED
    BY <2>2, <2>3, <2>4 DEF StoredKeys, AllNodes
<1>3. QED
  BY <1>1, <1>2

\* Where the scan for the next bucket stops: at a bucket with a node in it,
\* behind only empty ones, or at the end.
LEMMA NextBucketResult ==
  ASSUME NEW n \in Nat \ {0}, n = bucket_count, buckets \in Chains(n), NEW b \in Nat
  PROVE  /\ NextBucketFrom(b) \in 0 .. n
         /\ NextBucketFrom(b) < n => <<NextBucketFrom(b), 1>> \in Places(buckets)
         /\ \A p \in Places(buckets) : p[1] >= b => p[1] >= NextBucketFrom(b)
         /\ NextBucketFrom(b) < n => NextBucketFrom(b) >= b
<1> DEFINE used == {c \in b .. n - 1 : buckets[c] # <<>>}
           r    == NextBucketFrom(b)
<1>1. used \in SUBSET Nat
  OBVIOUS
<1>2. r = IF used = {} THEN n ELSE Min(used)
  BY DEF NextBucketFrom
<1>3. used # {} => Min(used) \in used /\ \A c \in used : Min(used) <= c
  BY <1>1, MinOfNats
<1>4. Paired(buckets, n)
  BY PlacePairs
<1>5. \A c \in 0 .. n - 1 : buckets[c] # <<>> => <<c, 1>> \in Places(buckets)
  <2> TAKE c \in 0 .. n - 1
  <2> HAVE buckets[c] # <<>>
  <2>1. buckets[c] \in Seq(Node) /\ Len(buckets[c]) \in Nat
    BY LenProperties DEF Chains
  <2>2. 1 \in 1 .. Len(buckets[c])
    BY <2>1, EmptySeq
  <2>3. QED
    BY <2>2, <1>4 DEF Paired
<1>6. \A p \in Places(buckets) : p[1] >= b => p[1] \in used
  <2> TAKE p \in Places(buckets)
  <2>1. p[1] \in 0 .. n - 1 /\ p[2] \in 1 .. Len(buckets[p[1]])
    BY <1>4 DEF Paired
  <2>2. buckets[p[1]] # <<>>
    <3> SUFFICES ASSUME buckets[p[1]] = <<>> PROVE FALSE
      OBVIOUS
    <3>1. Len(buckets[p[1]]) = 0
      BY EmptySeq
    <3>2. QED
      BY <2>1, <3>1
  <2>3. QED
    BY <2>1, <2>2
<1>7. \A c \in used : c \in b .. n - 1 /\ <<c, 1>> \in Places(buckets)
  <2> TAKE c \in used
  <2>1. c \in b .. n - 1 /\ c \in 0 .. n - 1 /\ buckets[c] # <<>>
    OBVIOUS
  <2>2. QED
    BY <2>1, <1>5
<1> HIDE DEF used
<1>8. CASE used = {}
  BY <1>2, <1>6, <1>8
<1>9. CASE used # {}
  <2>1. r \in used
    BY <1>2, <1>3, <1>9
  <2>2. r \in b .. n - 1 /\ <<r, 1>> \in Places(buckets)
    BY <2>1, <1>7
  <2>3. \A p \in Places(buckets) : p[1] >= b => p[1] >= r
    BY <1>2, <1>3, <1>6, <1>9
  <2>4. QED
    BY <2>2, <2>3
<1>10. QED
  BY <1>8, <1>9

\* The keys ahead of the node of c, at or behind bucket b.
AheadOf(array, b, c) ==
  IF c = NULL THEN {} ELSE KeysFrom(array, b, PlaceIn(array, c)[2])

\* The scan stops at the first node of the buckets it looks at.
LEMMA HeadAhead ==
  ASSUME IInv, pc = "idle", NEW b \in Nat,
         NEW r, r = NextBucketFrom(b), NEW h, h = HeadKey(r)
  PROVE  /\ r \in 0 .. bucket_count
         /\ h = NULL \/ (h \in StoredKeys /\ PlaceIn(buckets, h)[1] = r)
         /\ AheadOf(buckets, r, h) = KeysFrom(buckets, b, 1)
<1> DEFINE n == bucket_count
<1>1. /\ n \in Nat \ {0} /\ buckets \in Chains(n) /\ Paired(buckets, n)
      /\ DistinctKeys(buckets) /\ StoredKeys \subseteq Keys
      /\ StoredKeys = {NodeAt(buckets, p).key : p \in Places(buckets)}
  BY IdlePlaces
<1>2. /\ r \in 0 .. n
      /\ r < n => <<r, 1>> \in Places(buckets) /\ r >= b
      /\ \A p \in Places(buckets) : p[1] >= b => p[1] >= r
  BY <1>1, NextBucketResult
<1>3. \A p \in Places(buckets) : p[1] \in 0 .. n - 1 /\ p[2] \in Nat /\ p[2] >= 1
  BY <1>1 DEF Paired
<1>4. CASE r < n
  <2>1. h = NodeAt(buckets, <<r, 1>>).key
    BY <1>4 DEF HeadKey, NodeAt
  <2>2. h \in StoredKeys /\ h # NULL
    BY <2>1, <1>1, <1>2, <1>4, KeyAssumption
  <2>3. PlaceIn(buckets, h) = <<r, 1>>
    BY <2>1, <1>1, <1>2, <1>4, PlaceFound
  <2>4. From(buckets, r, 1) = From(buckets, b, 1)
    <3>1. \A p \in Places(buckets) :
            (p[1] > r \/ (p[1] = r /\ p[2] >= 1)) <=>
            (p[1] > b \/ (p[1] = b /\ p[2] >= 1))
      BY <1>2, <1>3, <1>4
    <3>2. QED
      BY <3>1 DEF From
  <2>5. AheadOf(buckets, r, h) = KeysFrom(buckets, r, 1)
    BY <2>2, <2>3 DEF AheadOf
  <2>6. QED
    BY <2>2, <2>3, <2>4, <2>5, <1>2 DEF KeysFrom
<1>5. CASE ~(r < n)
  <2>1. h = NULL
    BY <1>5 DEF HeadKey
  <2>2. \A p \in Places(buckets) : ~(p[1] >= b)
    BY <1>1, <1>2, <1>3, <1>5
  <2>3. From(buckets, b, 1) = {}
    BY <2>2, <1>3 DEF From
  <2>4. KeysFrom(buckets, b, 1) = {}
    BY <2>3 DEF KeysFrom
  <2>5. QED
    BY <2>1, <2>4, <1>2 DEF AheadOf
<1>6. QED
  BY <1>4, <1>5

\* The iterator leaves the current node behind, and nothing else.
LEMMA AdvanceAhead ==
  ASSUME IInv, pc = "idle", current \in StoredKeys,
         bucket_index \in 0 .. bucket_count, Advance
  PROVE  /\ bucket_index' \in 0 .. bucket_count
         /\ current' \in StoredKeys \cup {NULL}
         /\ PlaceIn(buckets, current)[1] = bucket_index =>
              /\ current' # NULL => PlaceIn(buckets, current')[1] = bucket_index'
              /\ current \in AheadOf(buckets, bucket_index, current)
              /\ AheadOf(buckets, bucket_index', current') =
                   AheadOf(buckets, bucket_index, current) \ {current}
<1> DEFINE n == bucket_count
           c == PlaceIn(buckets, current)
           b == bucket_index
<1>1. /\ n \in Nat \ {0} /\ buckets \in Chains(n) /\ Paired(buckets, n)
      /\ DistinctKeys(buckets) /\ StoredKeys \subseteq Keys
      /\ StoredKeys = {NodeAt(buckets, p).key : p \in Places(buckets)}
      /\ c \in Places(buckets) /\ NodeAt(buckets, c).key = current
  BY IdlePlaces
<1>2. /\ c[1] \in 0 .. n - 1 /\ c[2] \in 1 .. Len(buckets[c[1]]) /\ c = <<c[1], c[2]>>
      /\ Len(buckets[c[1]]) \in Nat
      /\ \A p \in Places(buckets) :
           /\ p[1] \in 0 .. n - 1 /\ p[2] \in 1 .. Len(buckets[p[1]])
           /\ p = <<p[1], p[2]>>
  BY <1>1 DEF Paired
<1>3. current # NULL /\ b \in Nat
  BY <1>1, KeyAssumption
<1>4. SuccessorOf(current) = IF c[2] = Len(buckets[c[1]]) THEN NULL
                             ELSE buckets[c[1]][c[2] + 1].key
  BY Unfold DEF SuccessorOf
<1>5. AheadOf(buckets, b, current) = KeysFrom(buckets, b, c[2])
  BY <1>3 DEF AheadOf
<1>6. c[1] = b => c \in From(buckets, b, c[2])
  BY <1>1, <1>2 DEF From
<1>7. c[1] = b => current \in AheadOf(buckets, b, current)
  BY <1>1, <1>5, <1>6 DEF KeysFrom
<1>8. \A p \in Places(buckets) : NodeAt(buckets, p).key = current <=> p = c
  BY <1>1 DEF DistinctKeys
<1> HIDE DEF c
<1>9. ASSUME NEW S, S = From(buckets, b, c[2]) \ {c}, c[1] = b
      PROVE  {NodeAt(buckets, p).key : p \in S} =
               AheadOf(buckets, b, current) \ {current}
  <2>1. From(buckets, b, c[2]) \subseteq Places(buckets)
    BY DEF From
  <2>2. QED
    BY <1>5, <1>6, <1>8, <1>9, <2>1 DEF KeysFrom
<1>10. CASE SuccessorOf(current) # NULL
  <2> DEFINE d == <<c[1], c[2] + 1>>
  <2>1. c[2] # Len(buckets[c[1]]) /\ current' = NodeAt(buckets, d).key /\ b' = b
    BY <1>4, <1>10 DEF Advance, NodeAt
  <2>2. d \in Places(buckets)
    <3>1. c[2] + 1 \in 1 .. Len(buckets[c[1]])
      BY <1>2, <2>1
    <3>2. QED
      BY <1>1, <1>2, <3>1 DEF Paired
  <2>3. PlaceIn(buckets, current') = d /\ current' \in StoredKeys /\ current' # NULL
    BY <1>1, <2>1, <2>2, PlaceFound, KeyAssumption
  <2>4. ASSUME c[1] = b
        PROVE  AheadOf(buckets, b', current') = AheadOf(buckets, b, current) \ {current}
    <3>1. AheadOf(buckets, b', current') = KeysFrom(buckets, b, c[2] + 1)
      BY <2>1, <2>3 DEF AheadOf
    <3>2. From(buckets, b, c[2] + 1) = From(buckets, b, c[2]) \ {c}
      <4>1. \A p \in Places(buckets) :
              (p[1] > b \/ (p[1] = b /\ p[2] >= c[2] + 1)) <=>
              (p[1] > b \/ (p[1] = b /\ p[2] >= c[2])) /\ p # c
        BY <1>2, <1>3, <2>4
      <4>2. QED
        BY <4>1 DEF From
    <3>3. QED
      BY <3>1, <3>2, <2>4, <1>9 DEF KeysFrom
  <2>5. QED
    BY <1>7, <2>1, <2>3, <2>4 DEF c
<1>11. CASE SuccessorOf(current) = NULL
  <2>1. /\ b' = NextBucketFrom(b + 1) /\ current' = HeadKey(b')
    BY <1>11 DEF Advance
  <2>2. /\ b' \in 0 .. n
        /\ current' = NULL \/
           (current' \in StoredKeys /\ PlaceIn(buckets, current')[1] = b')
        /\ AheadOf(buckets, b', current') = KeysFrom(buckets, b + 1, 1)
    <3>1. b + 1 \in Nat
      BY <1>3
    <3>2. QED
      BY <2>1, <3>1, HeadAhead
  <2>3. c[2] = Len(buckets[c[1]])
    <3> SUFFICES ASSUME c[2] # Len(buckets[c[1]]) PROVE FALSE
      OBVIOUS
    <3> DEFINE d == <<c[1], c[2] + 1>>
    <3>1. c[2] + 1 \in 1 .. Len(buckets[c[1]])
      BY <1>2
    <3>2. d \in Places(buckets)
      BY <1>1, <1>2, <3>1 DEF Paired
    <3>3. SuccessorOf(current) = NodeAt(buckets, d).key
      BY <1>4 DEF NodeAt
    <3>4. QED
      BY <1>1, <1>11, <3>2, <3>3, KeyAssumption
  <2>4. ASSUME c[1] = b
        PROVE  AheadOf(buckets, b', current') = AheadOf(buckets, b, current) \ {current}
    <3>1. From(buckets, b + 1, 1) = From(buckets, b, c[2]) \ {c}
      <4>1. \A p \in Places(buckets) :
              (p[1] > b + 1 \/ (p[1] = b + 1 /\ p[2] >= 1)) <=>
              (p[1] > b \/ (p[1] = b /\ p[2] >= c[2])) /\ p # c
        BY <1>2, <1>3, <2>3, <2>4
      <4>2. QED
        BY <4>1 DEF From
    <3>2. QED
      BY <3>1, <2>2, <2>4, <1>9 DEF KeysFrom
  <2>5. QED
    BY <1>7, <2>2, <2>4 DEF c
<1>12. QED
  BY <1>10, <1>11

-----------------------------------------------------------------------------
(* The inductive invariant.                                                *)

\* Under a careful callback the position splits the table: of the entries that
\* were there throughout, those ahead have not been visited and the others
\* have been, once. The entry the callback may remove is not ahead.
PositionSplits ==
  callback = "careful" /\ phase # "none" =>
    /\ pc = "idle"
    /\ current # NULL => PlaceIn(buckets, current)[1] = bucket_index
    /\ phase = "callback" => returned \notin AheadOf(buckets, bucket_index, current)
    /\ \A k \in stable : visits[k] =
         IF k \in AheadOf(buckets, bucket_index, current) THEN 0 ELSE 1

\* The current node is linked as long as no callback frees it, and between
\* two calls of foreach there is no position.
PositionOK ==
  /\ phase = "none" => bucket_index = 0 /\ current = NULL /\ returned = NULL
  /\ phase = "loop" => pc = "idle"
  /\ current \in StoredKeys \/ current = NULL
       \/ (callback = "free" /\ current = "freed")

IterIInv == /\ IInv /\ IterTypeOK
            /\ PositionOK /\ PositionSplits /\ EachEntryOnce

\* Every step of the iteration is one of the table, or leaves it alone.
LEMMA TableStep ==
  ASSUME IterIInv, [IterNext]_allVars
  PROVE  [Next]_vars
<1>1. CASE Call
  BY <1>1 DEF Call
<1>2. CASE CallbackCall
  <2>1. Removable \subseteq Keys /\ Insertable \subseteq Keys
    <3>1. callback \in {"careful", "inserting", "free"} /\ returned \in Keys
      BY <1>2, CallbackAssumption DEF CallbackCall, IterIInv, IterTypeOK
    <3>2. StoredKeys \subseteq Keys
      BY StoredAreKeys DEF IterIInv
    <3>3. QED
      BY <3>1, <3>2 DEF Removable, Insertable
  <2>2. QED
    BY <1>2, <2>1 DEF CallbackCall, Next
<1>3. CASE CallbackRehashes
  BY <1>3 DEF CallbackRehashes, Next
<1>4. CASE Begin \/ Visit \/ CallbackContinues \/ CallbackStops \/ End
             \/ UNCHANGED allVars
  BY <1>4 DEF Begin, Visit, CallbackContinues, CallbackStops, End, Return, allVars
<1>5. QED
  BY <1>1, <1>2, <1>3, <1>4 DEF IterNext

\* The split of the table is what makes foreach visit each entry once.
LEMMA SplitCounts ==
  ASSUME IterTypeOK', PositionSplits', phase' # "none"
  PROVE  EachEntryOnce'
<1> SUFFICES ASSUME callback' = "careful"
             PROVE  \A k \in stable' : visits'[k] <= 1
  BY CallbackAssumption DEF EachEntryOnce, IterTypeOK
<1>1. \A k \in stable' : visits'[k] \in {0, 1}
  BY DEF PositionSplits
<1>2. QED
  BY <1>1

-----------------------------------------------------------------------------
(* One lemma per action.                                                   *)

\* A call outside an iteration.
LEMMA CallSound ==
  ASSUME IterIInv, IInv', Call
  PROVE  IterIInv'
<1>1. /\ phase = "none" /\ phase' = "none"
      /\ bucket_index = 0 /\ bucket_index' = 0
      /\ current = NULL /\ current' = NULL
      /\ returned = NULL /\ returned' = NULL /\ callback' = NULL
      /\ outcome' = NULL /\ visits' = NoVisits /\ stable' = {}
  BY DEF Call, IterIInv, PositionOK
<1>2. bucket_count' \in Nat
  BY ConstantsAssumption DEF IInv, TypeOK
<1>3. IterTypeOK'
  BY <1>1, <1>2 DEF IterTypeOK, NoVisits
<1>4. PositionOK'
  BY <1>1 DEF PositionOK
<1>5. PositionSplits' /\ EachEntryOnce'
  BY <1>1 DEF PositionSplits, EachEntryOnce
<1>6. QED
  BY <1>3, <1>4, <1>5 DEF IterIInv

\* The beginning of an iteration: nothing has been visited.
LEMMA BeginSound ==
  ASSUME IterIInv, IInv', Begin
  PROVE  /\ IterIInv'
         /\ StoredKeys' = StoredKeys
         /\ AheadOf(buckets, bucket_index', current') = StoredKeys
<1>1. /\ pc = "idle" /\ pc' = pc /\ buckets' = buckets /\ new_buckets' = new_buckets
      /\ bucket_count' = bucket_count
      /\ phase = "none" /\ phase' = "loop" /\ callback' \in Callbacks
      /\ bucket_index' = NextBucketFrom(0) /\ current' = HeadKey(bucket_index')
      /\ returned = NULL /\ returned' = NULL
      /\ outcome' = NULL /\ visits' = NoVisits /\ stable' = StoredKeys
  BY DEF Begin, vars, tableVars, rehashVars, IterIInv, PositionOK
<1>2. /\ bucket_index' \in 0 .. bucket_count
      /\ current' = NULL \/
         (current' \in StoredKeys /\ PlaceIn(buckets, current')[1] = bucket_index')
      /\ AheadOf(buckets, bucket_index', current') = KeysFrom(buckets, 0, 1)
  BY <1>1, HeadAhead DEF IterIInv
<1>3. StoredKeys' = StoredKeys /\ StoredKeys \subseteq Keys
  BY <1>1, StoredAreKeys DEF StoredKeys, AllNodes, IterIInv
<1>4. KeysFrom(buckets, 0, 1) = StoredKeys
  <2>1. /\ Paired(buckets, bucket_count)
        /\ StoredKeys = {NodeAt(buckets, p).key : p \in Places(buckets)}
        /\ bucket_count \in Nat
    BY <1>1, IdlePlaces DEF IterIInv
  <2>2. \A p \in Places(buckets) : p[1] > 0 \/ (p[1] = 0 /\ p[2] >= 1)
    BY <2>1 DEF Paired
  <2>3. From(buckets, 0, 1) = Places(buckets)
    BY <2>2 DEF From
  <2>4. QED
    BY <2>1, <2>3 DEF KeysFrom
<1>5. IterTypeOK'
  BY <1>1, <1>2, <1>3, CallbackAssumption DEF IterTypeOK, NoVisits
<1>6. PositionOK'
  BY <1>1, <1>2, <1>3 DEF PositionOK
<1>7. PositionSplits'
  <2>1. \A k \in stable' : visits'[k] = 0
    BY <1>1, <1>3 DEF NoVisits
  <2>2. QED
    BY <1>1, <1>2, <1>4, <2>1 DEF PositionSplits
<1>8. QED
  BY <1>1, <1>2, <1>3, <1>4, <1>5, <1>6, <1>7, SplitCounts DEF IterIInv

\* A visit moves one entry from the part still to come to the part done.
LEMMA VisitSound ==
  ASSUME IterIInv, IInv', Visit
  PROVE  /\ IterIInv'
         /\ callback = "careful" =>
              /\ current \in AheadOf(buckets, bucket_index, current)
              /\ AheadOf(buckets, bucket_index', current') =
                   AheadOf(buckets, bucket_index, current) \ {current}
<1>1. /\ pc' = pc /\ pc = "idle" /\ buckets' = buckets /\ new_buckets' = new_buckets
      /\ bucket_count' = bucket_count
      /\ phase = "loop" /\ phase' = "callback" /\ callback' = callback
      /\ current # NULL /\ current # "freed" /\ returned' = current /\ Advance
      /\ visits' = [visits EXCEPT ![current] = IF @ = 0 THEN 1 ELSE 2]
      /\ outcome' = outcome /\ stable' = stable
  BY DEF Visit, HasNext, CountVisit, vars, tableVars, rehashVars, IterIInv, PositionOK
<1>2. /\ IInv /\ bucket_index \in 0 .. bucket_count
      /\ current \in StoredKeys /\ visits \in [Keys -> 0 .. 2]
  BY <1>1 DEF IterIInv, IterTypeOK, PositionOK
<1>3. StoredKeys' = StoredKeys /\ StoredKeys \subseteq Keys
  BY <1>1, <1>2, StoredAreKeys DEF StoredKeys, AllNodes
<1>4. /\ bucket_index' \in 0 .. bucket_count
      /\ current' \in StoredKeys \cup {NULL}
      /\ PlaceIn(buckets, current)[1] = bucket_index =>
           /\ current' # NULL => PlaceIn(buckets, current')[1] = bucket_index'
           /\ current \in AheadOf(buckets, bucket_index, current)
           /\ AheadOf(buckets, bucket_index', current') =
                AheadOf(buckets, bucket_index, current) \ {current}
  BY <1>1, <1>2, AdvanceAhead
<1>5. callback = "careful" => PlaceIn(buckets, current)[1] = bucket_index
  BY <1>1 DEF IterIInv, PositionSplits
<1>6. visits' \in [Keys -> 0 .. 2]
  BY <1>1, <1>2, <1>3
<1>7. IterTypeOK'
  BY <1>1, <1>2, <1>3, <1>4, <1>6 DEF IterTypeOK, IterIInv
<1>8. PositionOK'
  BY <1>1, <1>3, <1>4 DEF PositionOK
<1>9. PositionSplits'
  <2> SUFFICES ASSUME callback = "careful"
               PROVE  PositionSplits'
    BY <1>1 DEF PositionSplits
  <2> DEFINE ahead == AheadOf(buckets, bucket_index, current)
             then  == AheadOf(buckets, bucket_index', current')
  <2>1. current \in ahead /\ then = ahead \ {current}
    BY <1>4, <1>5
  <2>2. \A k \in stable : visits[k] = IF k \in ahead THEN 0 ELSE 1
    BY <1>1 DEF IterIInv, PositionSplits
  <2> HIDE DEF ahead, then
  <2>3. ASSUME NEW k \in stable
        PROVE  visits'[k] = IF k \in then THEN 0 ELSE 1
    <3>1. k \in Keys
      BY <1>3 DEF IterIInv, IterTypeOK
    <3>2. CASE k = current
      BY <3>1, <3>2, <2>1, <2>2, <1>1, <1>2
    <3>3. CASE k # current
      <4>1. visits'[k] = visits[k]
        BY <3>1, <3>3, <1>1, <1>2
      <4>2. QED
        BY <4>1, <3>3, <2>1, <2>2
    <3>4. QED
      BY <3>2, <3>3
  <2>4. /\ current' # NULL => PlaceIn(buckets, current')[1] = bucket_index'
        /\ returned' \notin then
    BY <1>1, <1>4, <1>5, <2>1
  <2>5. QED
    BY <1>1, <2>3, <2>4 DEF PositionSplits, then
<1>10. QED
  BY <1>1, <1>4, <1>5, <1>7, <1>8, <1>9, SplitCounts DEF IterIInv

\* What is ahead of a node does not change when a value is replaced ...
LEMMA AheadUnderUpdate ==
  ASSUME NEW array, NEW new, SameKeys(new, array), DistinctKeys(new),
         NEW c \in Places(array), NEW k, k = NodeAt(array, c).key
  PROVE  /\ PlaceIn(new, k) = c
         /\ KeysFrom(new, c[1], c[2]) = KeysFrom(array, c[1], c[2])
<1>1. /\ c \in Places(new) /\ NodeAt(new, c).key = k
      /\ Places(new) = Places(array)
      /\ \A p \in Places(array) : NodeAt(new, p).key = NodeAt(array, p).key
  BY DEF SameKeys
<1>2. PlaceIn(new, k) = c
  BY <1>1, PlaceFound
<1>3. From(new, c[1], c[2]) = From(array, c[1], c[2])
  BY <1>1 DEF From
<1>4. From(array, c[1], c[2]) \subseteq Places(array)
  BY DEF From
<1>5. QED
  BY <1>1, <1>2, <1>3, <1>4 DEF KeysFrom

\* ... nor when a node is unlinked that is not ahead of it, although the nodes
\* behind that one move up.
LEMMA AheadUnderRemove ==
  ASSUME NEW n \in Nat \ {0}, NEW array \in Chains(n), NEW new, NEW x,
         UnlinkedOne(new, array, n, x), DistinctKeys(new),
         NEW c \in Places(array), NEW k, k = NodeAt(array, c).key,
         x \notin KeysFrom(array, c[1], c[2])
  PROVE  /\ PlaceIn(new, k)[1] = c[1]
         /\ KeysFrom(new, c[1], PlaceIn(new, k)[2]) = KeysFrom(array, c[1], c[2])
<1>1. PICK b \in 0 .. n - 1 : \E j \in 1 .. Len(array[b]) :
         array[b][j].key = x /\ Unlinked(new, array, n, b, j)
  BY DEF UnlinkedOne
<1>2. PICK j \in 1 .. Len(array[b]) :
         array[b][j].key = x /\ Unlinked(new, array, n, b, j)
  BY <1>1
<1>3. Paired(array, n) /\ Paired(new, n)
  BY <1>2, PlacePairs DEF Unlinked
<1>4. <<b, j>> \in Places(array) /\ NodeAt(array, <<b, j>>).key = x
  BY <1>2, <1>3 DEF Paired, NodeAt
<1>5. /\ \A p \in Places(new) :
           /\ PlaceBefore(p, b, j) \in Places(array)
           /\ NodeAt(new, p) = NodeAt(array, PlaceBefore(p, b, j))
      /\ \A q \in Places(array) : q # <<b, j>> =>
           \E p \in Places(new) : PlaceBefore(p, b, j) = q
  BY <1>2, UnlinkPlaces
<1>6. <<b, j>> \notin From(array, c[1], c[2])
  BY <1>4 DEF KeysFrom
<1>7. /\ c[1] \in 0 .. n - 1 /\ c[2] \in Nat /\ b \in Nat /\ j \in Nat
      /\ \A p \in Places(array) \cup Places(new) :
           p[1] \in Nat /\ p[2] \in Nat /\ p = <<p[1], p[2]>>
  <2>1. \A p \in Places(array) \cup Places(new) :
          p[1] \in Nat /\ p[2] \in Nat /\ p = <<p[1], p[2]>>
    BY <1>3 DEF Paired
  <2>2. c[1] \in 0 .. n - 1 /\ c[2] \in Nat
    BY <1>3 DEF Paired
  <2>3. QED
    BY <2>1, <2>2
<1>8. /\ c \in From(array, c[1], c[2])
      /\ ~(b > c[1]) /\ ~(b = c[1] /\ j >= c[2])
  <2>1. <<b, j>>[1] = b /\ <<b, j>>[2] = j
    OBVIOUS
  <2>2. QED
    BY <1>4, <1>6, <1>7, <2>1 DEF From
<1>9. PICK d \in Places(new) : PlaceBefore(d, b, j) = c
  BY <1>5, <1>6, <1>8
<1>10. PlaceIn(new, k) = d
  <2>1. NodeAt(new, d).key = k
    BY <1>5, <1>9
  <2>2. QED
    BY <2>1, PlaceFound
<1>11. d[1] = c[1] /\ c[2] = IF d[1] = b THEN d[2] + 1 ELSE d[2]
  BY <1>7, <1>8, <1>9 DEF PlaceBefore
<1>12. ASSUME NEW p \in Places(new)
       PROVE  p \in From(new, c[1], d[2]) <=>
                PlaceBefore(p, b, j) \in From(array, c[1], c[2])
  <2> DEFINE q == PlaceBefore(p, b, j)
  <2>1. q \in Places(array)
    BY <1>5
  <2>2. q[1] = p[1] /\ q[2] = IF p[1] = b /\ p[2] >= j THEN p[2] + 1 ELSE p[2]
    BY <1>7 DEF PlaceBefore
  <2>3. (p[1] > c[1] \/ (p[1] = c[1] /\ p[2] >= d[2])) <=>
        (q[1] > c[1] \/ (q[1] = c[1] /\ q[2] >= c[2]))
    BY <1>7, <1>8, <1>11, <2>2
  <2>4. QED
    BY <2>1, <2>3 DEF From
<1>13. KeysFrom(new, c[1], d[2]) \subseteq KeysFrom(array, c[1], c[2])
  <2>1. From(new, c[1], d[2]) \subseteq Places(new)
    BY DEF From
  <2>2. QED
    BY <1>5, <1>12, <2>1 DEF KeysFrom
<1>14. KeysFrom(array, c[1], c[2]) \subseteq KeysFrom(new, c[1], d[2])
  <2> SUFFICES ASSUME NEW q \in From(array, c[1], c[2])
               PROVE  NodeAt(array, q).key \in KeysFrom(new, c[1], d[2])
    BY DEF KeysFrom
  <2>1. q \in Places(array) /\ q # <<b, j>>
    BY <1>6 DEF From
  <2>2. PICK p \in Places(new) : PlaceBefore(p, b, j) = q
    BY <1>5, <2>1
  <2>3. p \in From(new, c[1], d[2]) /\ NodeAt(new, p) = NodeAt(array, q)
    BY <1>5, <1>12, <2>2
  <2>4. QED
    BY <2>3 DEF KeysFrom
<1>15. QED
  BY <1>10, <1>11, <1>13, <1>14

\* A call in a callback keeps the array's size, and unless it is free only
\* the entry that was given to the callback can leave.
LEMMA CallbackTable ==
  ASSUME IterIInv, CallbackCall
  PROVE  /\ pc = "idle" /\ pc' # "none" /\ bucket_count' = bucket_count
         /\ callback = "inserting" => StoredKeys \subseteq StoredKeys'
         /\ callback = "careful" =>
              \/ /\ pc' = "idle" /\ StoredKeys' = StoredKeys
                 /\ SameKeys(buckets', buckets)
              \/ /\ pc' = "idle" /\ StoredKeys' = StoredKeys \ {returned}
                 /\ UnlinkedOne(buckets', buckets, bucket_count, returned)
<1>1. IInv /\ returned \in Keys /\ StoredKeys \subseteq Keys
  BY StoredAreKeys DEF IterIInv, IterTypeOK, CallbackCall
<1>2. CASE \E k \in Removable : Remove(k)
  <2>1. PICK k \in Removable : Remove(k)
    BY <1>2
  <2>2. pc = "idle" /\ pc' = pc /\ bucket_count' = bucket_count /\ k \in Keys
    BY <2>1 DEF Remove, Found
  <2>3. /\ AllNodes' = {e \in AllNodes : e.key # k}
        /\ UnlinkedOne(buckets', buckets, bucket_count, k)
    BY <1>1, <2>1, <2>2, RemoveSound
  <2>4. StoredKeys' = StoredKeys \ {k}
    BY <2>3 DEF StoredKeys
  <2>5. callback = "careful" => k = returned
    BY <2>1 DEF Removable
  <2>6. callback # "inserting"
    BY <2>1 DEF Removable
  <2>7. QED
    BY <2>2, <2>3, <2>4, <2>5, <2>6
<1>3. CASE \E k \in Insertable, v \in Values : Update(k, v)
  <2>1. PICK k \in Insertable, v \in Values : Update(k, v)
    BY <1>3
  <2>2. /\ pc = "idle" /\ pc' = pc /\ bucket_count' = bucket_count
        /\ Found(k) /\ k \in Keys
    BY <2>1 DEF Update, Found
  <2>3. /\ AllNodes' = {e \in AllNodes : e.key # k} \cup {NodeOf(k, v)}
        /\ SameKeys(buckets', buckets)
    BY <1>1, <2>1, <2>2, UpdateSound
  <2>4. k \in StoredKeys
    <3>1. k \in DOMAIN Contents
      BY <1>1, <2>2, SearchMap
    <3>2. QED
      BY <3>1 DEF Contents, StoredKeys
  <2>5. NodeOf(k, v).key = k
    BY DEF NodeOf
  <2>6. StoredKeys' = StoredKeys
    BY <2>3, <2>4, <2>5 DEF StoredKeys
  <2>7. QED
    BY <2>2, <2>3, <2>6
<1>4. CASE \E k \in Insertable, v \in Values : Insert(k, v) \/ BeginRehash(k, v)
  <2>1. PICK k \in Insertable, v \in Values : Insert(k, v) \/ BeginRehash(k, v)
    BY <1>4
  <2>2. /\ pc = "idle" /\ pc' \in {"idle", "rehashing"}
        /\ bucket_count' = bucket_count /\ ~Found(k)
    BY <2>1 DEF Insert, BeginRehash, tableVars
  <2>3. k \in Keys
    BY <1>1, <2>1 DEF Insertable
  <2>4. AllNodes \subseteq AllNodes'
    BY <1>1, <2>1, <2>3, InsertSound, BeginRehashSound
  <2>5. StoredKeys \subseteq StoredKeys'
    BY <2>4 DEF StoredKeys
  <2>6. k \notin StoredKeys
    <3>1. k \notin DOMAIN Contents
      BY <1>1, <2>2, SearchMap
    <3>2. QED
      BY <3>1 DEF Contents, StoredKeys
  <2>7. callback # "careful"
    BY <2>1, <2>6 DEF Insertable
  <2>8. QED
    BY <2>2, <2>5, <2>7
<1>5. CASE callback = "free" /\ Clear
  BY <1>5 DEF Clear
<1>6. QED
  BY <1>2, <1>3, <1>4, <1>5 DEF CallbackCall

\* A careful call leaves the current node linked, in its bucket, and what is
\* ahead of it as it was.
LEMMA CarefulAhead ==
  ASSUME IterIInv, IInv', CallbackCall, callback = "careful"
  PROVE  /\ pc' = "idle"
         /\ current # NULL =>
              /\ current \in StoredKeys'
              /\ PlaceIn(buckets', current)[1] = bucket_index
         /\ AheadOf(buckets', bucket_index, current) =
              AheadOf(buckets, bucket_index, current)
         /\ AheadOf(buckets, bucket_index, current) \subseteq StoredKeys'
         /\ StoredKeys' \subseteq StoredKeys
<1> DEFINE n == bucket_count
           c == PlaceIn(buckets, current)
           ahead == AheadOf(buckets, bucket_index, current)
<1>1. /\ pc = "idle" /\ IInv /\ phase = "callback"
      /\ current \in StoredKeys \/ current = NULL
      /\ current # NULL => c[1] = bucket_index
      /\ returned \notin ahead
  BY DEF CallbackCall, IterIInv, PositionOK, PositionSplits
<1>2. /\ n \in Nat \ {0} /\ buckets \in Chains(n)
      /\ Paired(buckets, n) /\ StoredKeys \subseteq Keys
      /\ StoredKeys = {NodeAt(buckets, p).key : p \in Places(buckets)}
      /\ \A k \in StoredKeys :
           /\ PlaceIn(buckets, k) \in Places(buckets)
           /\ NodeAt(buckets, PlaceIn(buckets, k)).key = k
  BY <1>1, IdlePlaces
<1>3. DistinctKeys(buckets')
  BY DEF IInv, KeysUnique, DistinctKeys, NodeAt
<1>4. ahead \subseteq StoredKeys
  <2>1. \A b, i : From(buckets, b, i) \subseteq Places(buckets)
    BY DEF From
  <2>2. \A b, i : KeysFrom(buckets, b, i) \subseteq StoredKeys
    BY <1>2, <2>1 DEF KeysFrom
  <2>3. QED
    BY <2>2 DEF AheadOf
<1>5. \/ /\ pc' = "idle" /\ StoredKeys' = StoredKeys
         /\ SameKeys(buckets', buckets)
      \/ /\ pc' = "idle" /\ StoredKeys' = StoredKeys \ {returned}
         /\ UnlinkedOne(buckets', buckets, n, returned)
  BY CallbackTable
<1>6. ahead \subseteq StoredKeys' /\ StoredKeys' \subseteq StoredKeys
  BY <1>1, <1>4, <1>5
<1>7. CASE current = NULL
  BY <1>5, <1>6, <1>7 DEF AheadOf
<1>8. CASE current # NULL
  <2>1. /\ current \in StoredKeys /\ c \in Places(buckets)
        /\ current = NodeAt(buckets, c).key
        /\ c[1] = bucket_index /\ c[2] \in Nat
    BY <1>1, <1>2, <1>8 DEF Paired
  <2>2. ahead = KeysFrom(buckets, c[1], c[2])
    BY <1>8, <2>1 DEF AheadOf
  <2>3. current \in ahead
    <3>1. c \in From(buckets, c[1], c[2])
      BY <2>1 DEF From
    <3>2. QED
      BY <2>1, <2>2, <3>1 DEF KeysFrom
  <2>4. AheadOf(buckets', bucket_index, current) =
          KeysFrom(buckets', c[1], PlaceIn(buckets', current)[2])
    BY <1>8, <2>1 DEF AheadOf
  <2>5. CASE SameKeys(buckets', buckets)
    <3>1. /\ PlaceIn(buckets', current) = c
          /\ KeysFrom(buckets', c[1], c[2]) = KeysFrom(buckets, c[1], c[2])
      BY <1>3, <2>1, <2>5, AheadUnderUpdate
    <3>2. QED
      BY <1>5, <1>6, <2>1, <2>2, <2>3, <2>4, <3>1
  <2>6. CASE UnlinkedOne(buckets', buckets, n, returned)
    <3> HIDE DEF c
    <3>1. returned \notin KeysFrom(buckets, c[1], c[2])
      BY <1>1, <2>2
    <3>2. /\ PlaceIn(buckets', current)[1] = c[1]
          /\ KeysFrom(buckets', c[1], PlaceIn(buckets', current)[2]) =
               KeysFrom(buckets, c[1], c[2])
      BY <1>2, <1>3, <2>1, <2>6, <3>1, AheadUnderRemove
    <3>3. QED
      BY <1>5, <1>6, <2>1, <2>2, <2>3, <2>4, <3>2
  <2>7. QED
    BY <1>5, <2>5, <2>6
<1>9. QED
  BY <1>7, <1>8

\* A call in the callback.
LEMMA CallbackCallSound ==
  ASSUME IterIInv, IInv', CallbackCall
  PROVE  IterIInv'
<1>1. /\ phase = "callback" /\ phase' = phase /\ callback' = callback
      /\ bucket_index' = bucket_index /\ returned' = returned
      /\ outcome' = outcome /\ visits' = visits
      /\ stable' = stable \cap StoredKeys'
      /\ current' = IF current \in Keys \ StoredKeys' THEN "freed" ELSE current
  BY DEF CallbackCall
<1>2. /\ pc = "idle" /\ pc' # "none" /\ bucket_count' = bucket_count
      /\ callback = "inserting" => StoredKeys \subseteq StoredKeys'
  BY CallbackTable
<1>3. StoredKeys \subseteq Keys /\ current \in Keys \cup {NULL, "freed"}
  BY StoredAreKeys DEF IterIInv, IterTypeOK
<1>4. IterTypeOK'
  <2>1. current' \in Keys \cup {NULL, "freed"}
    BY <1>1, <1>3
  <2>2. QED
    BY <1>1, <1>2, <2>1 DEF IterIInv, IterTypeOK
<1>5. callback = "careful" => current' = current
  <2>1. callback = "careful" =>
          /\ current \in StoredKeys \/ current = NULL
          /\ current # NULL => current \in StoredKeys'
    BY CarefulAhead DEF IterIInv, PositionOK
  <2>2. QED
    BY <1>1, <2>1, KeyAssumption
<1>6. PositionOK'
  <2>1. callback \in {"careful", "inserting", "free"}
    BY <1>1, CallbackAssumption DEF IterIInv, IterTypeOK
  <2>2. current \in StoredKeys \/ current = NULL
          \/ (callback = "free" /\ current = "freed")
    BY DEF IterIInv, PositionOK
  <2>3. CASE callback = "careful"
    <3>1. current # NULL => current \in StoredKeys'
      BY <2>3, CarefulAhead
    <3>2. QED
      BY <1>1, <1>5, <2>3, <3>1 DEF PositionOK
  <2>4. CASE callback = "inserting"
    <3>1. current' = current /\ (current \in StoredKeys' \/ current = NULL)
      BY <1>1, <1>2, <2>2, <2>4, KeyAssumption
    <3>2. QED
      BY <1>1, <3>1 DEF PositionOK
  <2>5. CASE callback = "free"
    <3>1. current' \in StoredKeys' \/ current' = NULL \/ current' = "freed"
      BY <1>1, <1>3, <2>2
    <3>2. QED
      BY <1>1, <2>5, <3>1 DEF PositionOK
  <2>6. QED
    BY <2>1, <2>3, <2>4, <2>5
<1>7. PositionSplits'
  <2> SUFFICES ASSUME callback = "careful"
               PROVE  PositionSplits'
    BY <1>1 DEF PositionSplits
  <2>1. /\ pc' = "idle"
        /\ current # NULL => PlaceIn(buckets', current)[1] = bucket_index
        /\ AheadOf(buckets', bucket_index, current) =
             AheadOf(buckets, bucket_index, current)
    BY CarefulAhead
  <2>2. /\ returned \notin AheadOf(buckets, bucket_index, current)
        /\ \A k \in stable : visits[k] =
             IF k \in AheadOf(buckets, bucket_index, current) THEN 0 ELSE 1
    BY <1>1 DEF IterIInv, PositionSplits
  <2>3. AheadOf(buckets', bucket_index', current') =
          AheadOf(buckets, bucket_index, current)
    BY <1>1, <1>5, <2>1
  <2>4. QED
    BY <1>1, <1>5, <2>1, <2>2, <2>3 DEF PositionSplits
<1>8. QED
  BY <1>1, <1>4, <1>6, <1>7, SplitCounts DEF IterIInv

\* A step of a rehash in the callback; a careful callback starts none. The
\* nodes keep their addresses, so that the iterator's pointer stays good.
LEMMA CallbackRehashesSound ==
  ASSUME IterIInv, IInv', CallbackRehashes
  PROVE  IterIInv'
<1>1. /\ phase = "callback" /\ phase' = phase /\ callback' = callback
      /\ bucket_index' = bucket_index /\ current' = current
      /\ returned' = returned /\ outcome' = outcome
      /\ visits' = visits /\ stable' = stable /\ RehashStep
  BY DEF CallbackRehashes, iterVars
<1>2. pc = "rehashing" /\ IInv
  BY <1>1 DEF RehashStep, RelinkNode, NextBucket, InsertAfterRehash, IterIInv
<1>3. AllNodes \subseteq AllNodes'
  BY <1>1, <1>2, RelinkNodeSound, NextBucketSound, InsertAfterRehashSound
     DEF RehashStep
<1>4. StoredKeys \subseteq StoredKeys'
  BY <1>3 DEF StoredKeys
<1>5. bucket_index \in 0 .. bucket_count' /\ pc' # "none"
  <2>1. bucket_count \in Nat /\ bucket_index \in 0 .. bucket_count
    BY <1>2, RehashFacts DEF IterIInv, IterTypeOK
  <2>2. CASE RelinkNode \/ NextBucket
    <3>1. pc' = pc /\ bucket_count' = bucket_count
      BY <2>2 DEF RelinkNode, NextBucket, tableVars
    <3>2. QED
      BY <1>2, <2>1, <3>1
  <2>3. CASE InsertAfterRehash
    <3>1. pc' = "idle" /\ bucket_count' = bucket_count * 2
      BY <2>3 DEF InsertAfterRehash
    <3>2. QED
      BY <2>1, <3>1
  <2>4. QED
    BY <1>1, <2>2, <2>3 DEF RehashStep
<1>6. callback # "careful"
  BY <1>1, <1>2 DEF IterIInv, PositionSplits
<1>7. IterTypeOK' /\ PositionOK'
  BY <1>1, <1>4, <1>5 DEF IterIInv, IterTypeOK, PositionOK
<1>8. PositionSplits' /\ EachEntryOnce'
  BY <1>1, <1>6 DEF PositionSplits, EachEntryOnce
<1>9. QED
  BY <1>7, <1>8 DEF IterIInv

\* The callback lets the loop go on.
LEMMA CallbackContinuesSound ==
  ASSUME IterIInv, IInv', CallbackContinues
  PROVE  IterIInv'
<1>1. /\ phase = "callback" /\ phase' = "loop" /\ pc = "idle" /\ pc' = pc
      /\ callback' = callback /\ buckets' = buckets /\ new_buckets' = new_buckets
      /\ bucket_count' = bucket_count /\ current' = current
      /\ bucket_index' = bucket_index /\ returned' = returned
      /\ outcome' = outcome /\ visits' = visits /\ stable' = stable
  BY DEF CallbackContinues, vars, tableVars, rehashVars
<1>2. StoredKeys' = StoredKeys
  BY <1>1 DEF StoredKeys, AllNodes
<1>3. IterTypeOK' /\ PositionOK'
  BY <1>1, <1>2 DEF IterIInv, IterTypeOK, PositionOK
<1>4. PositionSplits'
  BY <1>1 DEF IterIInv, PositionSplits
<1>5. QED
  BY <1>1, <1>3, <1>4, SplitCounts DEF IterIInv

\* The loop ends, at the last entry or because the callback stops it.
LEMMA ReturnSound ==
  ASSUME IterIInv, IInv', CallbackStops \/ End
  PROVE  IterIInv'
<1>1. /\ phase # "none" /\ phase' = "none"
      /\ bucket_index' = 0 /\ current' = NULL /\ returned' = NULL
      /\ callback' = callback /\ visits' = visits /\ stable' = stable
      /\ pc' = pc /\ pc = "idle" /\ buckets' = buckets
      /\ new_buckets' = new_buckets /\ bucket_count' = bucket_count
      /\ \/ outcome' = FALSE
         \/ outcome' = TRUE /\ ~HasNext
  BY DEF CallbackStops, End, Return, vars, tableVars, rehashVars, IterIInv,
         PositionOK
<1>2. StoredKeys' = StoredKeys
  BY <1>1 DEF StoredKeys, AllNodes
<1>3. bucket_count \in Nat
  BY ConstantsAssumption DEF IterIInv, IInv, TypeOK
<1>4. IterTypeOK' /\ PositionOK' /\ PositionSplits'
  <2>1. /\ visits \in [Keys -> 0 .. 2] /\ stable \subseteq StoredKeys
        /\ callback \in Callbacks \cup {NULL}
    BY DEF IterIInv, IterTypeOK
  <2>2. outcome' \in BOOLEAN
    BY <1>1, Zenon
  <2>3. bucket_index' \in 0 .. bucket_count'
    BY <1>1, <1>3
  <2>4. IterTypeOK'
    BY <1>1, <1>2, <2>1, <2>2, <2>3 DEF IterTypeOK
  <2>5. QED
    BY <1>1, <2>4 DEF PositionOK, PositionSplits
<1>5. EachEntryOnce'
  <2> SUFFICES ASSUME callback = "careful"
               PROVE  /\ \A k \in stable : visits[k] <= 1
                      /\ ~HasNext => \A k \in stable : visits[k] = 1
    BY <1>1 DEF EachEntryOnce
  <2>1. \A k \in stable : visits[k] <= 1
    BY DEF IterIInv, EachEntryOnce
  <2>2. ~HasNext => \A k \in stable : visits[k] = 1
    BY <1>1 DEF IterIInv, PositionSplits, AheadOf, HasNext
  <2>3. QED
    BY <2>1, <2>2
<1>6. QED
  BY <1>4, <1>5 DEF IterIInv

-----------------------------------------------------------------------------
(* The invariant and what follows from it.                                 *)

\* Nothing has been visited before the first call.
LEMMA IterInitSound == IterInit => IterIInv
<1> SUFFICES ASSUME IterInit PROVE IterIInv
  OBVIOUS
<1>1. IInv /\ StoredKeys = {}
  BY InitSound DEF IterInit, StoredKeys
<1>2. IterTypeOK /\ PositionOK
  BY DEF IterInit, Init, IterTypeOK, PositionOK, NoVisits
<1>3. PositionSplits /\ EachEntryOnce
  BY DEF IterInit, PositionSplits, EachEntryOnce
<1>4. QED
  BY <1>1, <1>2, <1>3 DEF IterIInv

\* Every step of foreach, of its callback and of the calls between keeps the
\* invariant.
THEOREM IterIInvInductive == IterIInv /\ [IterNext]_allVars => IterIInv'
<1> SUFFICES ASSUME IterIInv, [IterNext]_allVars PROVE IterIInv'
  OBVIOUS
<1>1. IInv'
  BY TableStep, IInvInductive DEF IterIInv
<1>2. CASE UNCHANGED allVars
  <2>1. UNCHANGED <<vars, iterVars>>
    BY <1>2 DEF allVars
  <2>2. StoredKeys' = StoredKeys
    BY <2>1 DEF vars, tableVars, rehashVars, StoredKeys, AllNodes
  <2>3. IterTypeOK' /\ PositionOK'
    BY <2>1, <2>2 DEF vars, tableVars, iterVars, IterIInv, IterTypeOK, PositionOK
  <2>4. PositionSplits' /\ EachEntryOnce'
    BY <2>1 DEF vars, tableVars, iterVars, IterIInv, PositionSplits, EachEntryOnce
  <2>5. QED
    BY <1>1, <2>3, <2>4 DEF IterIInv
<1>3. QED
  BY <1>1, <1>2, CallSound, BeginSound, VisitSound, CallbackCallSound,
     CallbackRehashesSound, CallbackContinuesSound, ReturnSound DEF IterNext

\* The invariant holds in every reachable state.
THEOREM SpecIterIInv == IterSpec => []IterIInv
<1>1. QED
  BY IterInitSound, IterIInvInductive, PTL DEF IterSpec

\* The iterator's bucket index never leaves the array, whatever a callback
\* inserts, removes or rehashes.
THEOREM SpecIterTypeOK == IterSpec => []IterTypeOK
<1>1. IterIInv => IterTypeOK
  BY DEF IterIInv
<1>2. QED
  BY <1>1, SpecIterIInv, PTL

\* foreach calls a careful callback once for each entry that stays in the
\* table, and returns TRUE only when it has visited them all.
THEOREM SpecEachEntryOnce == IterSpec => []EachEntryOnce
<1>1. IterIInv => EachEntryOnce
  BY DEF IterIInv
<1>2. QED
  BY <1>1, SpecIterIInv, PTL

\* The iterator never points to a freed node, also when an insert in the
\* callback rehashes the table, unless a callback removes what it should not.
THEOREM SpecCurrentLinked ==
  ASSUME "free" \notin Callbacks
  PROVE  IterSpec => []CurrentLinked
<1>1. IterIInv => CurrentLinked
  <2> SUFFICES ASSUME IterIInv, current # NULL
               PROVE  current \in StoredKeys
    BY DEF CurrentLinked
  <2>1. phase # "none" /\ callback \in Callbacks
    BY DEF IterIInv, IterTypeOK, PositionOK
  <2>2. QED
    BY <2>1 DEF IterIInv, PositionOK
<1>2. QED
  BY <1>1, SpecIterIInv, PTL

-----------------------------------------------------------------------------
(* foreach implements the abstract iteration.                              *)

\* The state of the abstract iteration.
Active    == Careful /\ phase # "none"
Unvisited == IF Careful THEN Ahead ELSE {}
Last      == IF Careful THEN returned ELSE NULL
Outcome   == IF Careful THEN outcome ELSE NULL

\* A step that the abstract iteration does not see.
LEMMA Stutters ==
  ASSUME StoredKeys' = StoredKeys, Active' <=> Active, Unvisited' = Unvisited,
         Last' = Last, Outcome' = Outcome
  PROVE  UNCHANGED Iteration!vars
<1>1. Active' = Active
  BY DEF Active
<1>2. QED
  BY <1>1 DEF Iteration!vars, Active, Unvisited, Last, Outcome

\* A change of the keys outside an iteration.
LEMMA Changes ==
  ASSUME ~Active, ~Active', StoredKeys' \subseteq Keys, Unvisited' = Unvisited,
         Last' = Last, Outcome' = NULL
  PROVE  Iteration!Change
<1>1. Active' = Active
  BY DEF Active
<1>2. QED
  BY <1>1 DEF Iteration!Change, Active, Unvisited, Last, Outcome

\* The beginning of an iteration over all stored keys.
LEMMA Begins ==
  ASSUME ~Active, Active', StoredKeys' = StoredKeys, Unvisited' = StoredKeys,
         Last' = Last, Outcome' = NULL
  PROVE  Iteration!Begin
<1>1. Active' = TRUE
  BY DEF Active
<1>2. QED
  BY <1>1 DEF Iteration!Begin, Active, Unvisited, Last, Outcome

\* A visit of a key that is still to be visited.
LEMMA Visits ==
  ASSUME NEW k, Active, Active', StoredKeys' = StoredKeys,
         k \in Unvisited, Unvisited' = Unvisited \ {k}, Last' = k,
         Outcome' = Outcome
  PROVE  Iteration!Visit(k)
<1>1. Active' = Active
  BY DEF Active
<1>2. QED
  BY <1>1 DEF Iteration!Visit, Active, Unvisited, Last, Outcome

\* A removal by the callback, from what is stored and what is to be visited.
LEMMA Removes ==
  ASSUME Active, Active', StoredKeys' \subseteq StoredKeys,
         Unvisited' = Unvisited \cap StoredKeys', Last' = Last,
         Outcome' = Outcome
  PROVE  Iteration!CallbackRemoves
<1>1. Active' = Active
  BY DEF Active
<1>2. QED
  BY <1>1 DEF Iteration!CallbackRemoves, Active, Unvisited, Last, Outcome

\* The end of an iteration, complete or not.
LEMMA Ends ==
  ASSUME NEW all \in BOOLEAN, Active, ~Active', StoredKeys' = StoredKeys,
         all => Unvisited = {}, Unvisited' = {}, Last' = NULL, Outcome' = all
  PROVE  Iteration!End(all)
<1>1. Active' = FALSE
  BY DEF Active
<1>2. QED
  BY <1>1 DEF Iteration!End, Active, Unvisited, Last, Outcome

\* Outside an iteration, and under a callback that is not careful, there is
\* nothing to visit.
LEMMA Inactive ==
  /\ IterIInv /\ ~Active => Unvisited = {} /\ Last = NULL
  /\ IterIInv' /\ ~Active' => Unvisited' = {} /\ Last' = NULL
<1>1. IterIInv /\ ~Active => Unvisited = {} /\ Last = NULL
  BY DEF Active, Unvisited, Last, Ahead, IterIInv, PositionOK
<1>2. IterIInv' /\ ~Active' => Unvisited' = {} /\ Last' = NULL
  BY DEF Active, Unvisited, Last, Ahead, IterIInv, PositionOK
<1>3. QED
  BY <1>1, <1>2

\* Ahead in terms of places, before and after a step.
LEMMA AheadIs ==
  /\ Ahead = AheadOf(buckets, bucket_index, current)
  /\ Ahead' = AheadOf(buckets', bucket_index', current')
BY DEF PlaceOf, PlaceIn, Ahead, AheadOf, KeysFrom, From, NodeAt

\* A step of the table under no iteration, or one with a callback that is not
\* careful.
LEMMA FreeStepMaps ==
  ASSUME IterIInv, IterIInv', ~Active, ~Active', Outcome' = NULL
  PROVE  Iteration!Change
<1>1. StoredKeys' \subseteq Keys
  BY StoredAreKeys DEF IterIInv
<1>2. QED
  BY <1>1, Inactive, Changes

\* The beginning of an iteration.
LEMMA BeginMaps ==
  ASSUME IterIInv, IterIInv', Begin
  PROVE  Iteration!Begin \/ Iteration!Change
<1>1. /\ pc = "idle" /\ pc' = pc /\ buckets' = buckets
      /\ phase = "none" /\ phase' = "loop"
      /\ outcome' = NULL /\ returned' = returned
  BY DEF Begin, vars, tableVars
<1>2. ~Active /\ Outcome' = NULL
  BY <1>1 DEF Active, Outcome
<1>3. CASE ~Active'
  BY <1>2, <1>3, FreeStepMaps
<1>4. CASE Active'
  <2>1. /\ StoredKeys' = StoredKeys
        /\ AheadOf(buckets, bucket_index', current') = StoredKeys
    BY BeginSound DEF IterIInv
  <2>2. Unvisited' = StoredKeys
    BY <1>1, <1>4, <2>1, AheadIs DEF Unvisited, Active
  <2>3. Last' = Last
    BY <1>1, <1>2, <1>4, Inactive DEF IterIInv, PositionOK, Last, Active
  <2>4. QED
    BY <1>2, <1>4, <2>1, <2>2, <2>3, Begins
<1>5. QED
  BY <1>3, <1>4

\* A visit takes the key of the current node, which has not been visited.
LEMMA VisitMaps ==
  ASSUME IterIInv, IterIInv', Visit
  PROVE  (\E k \in Keys : Iteration!Visit(k)) \/ UNCHANGED Iteration!vars
<1>1. /\ buckets' = buckets /\ new_buckets' = new_buckets
      /\ phase = "loop" /\ phase' = "callback" /\ callback' = callback
      /\ returned' = current /\ outcome' = outcome
  BY DEF Visit, vars, tableVars, rehashVars
<1>2. StoredKeys' = StoredKeys
  BY <1>1 DEF StoredKeys, AllNodes
<1>3. CASE ~Careful
  BY <1>1, <1>2, <1>3, Stutters
     DEF Active, Unvisited, Last, Outcome, Careful
<1>4. CASE Careful
  <2>1. Active /\ Active' /\ Outcome' = Outcome /\ Last' = current
    BY <1>1, <1>4 DEF Active, Careful, Outcome, Last
  <2>2. /\ current \in AheadOf(buckets, bucket_index, current)
        /\ AheadOf(buckets, bucket_index', current') =
             AheadOf(buckets, bucket_index, current) \ {current}
    BY <1>4, VisitSound DEF IterIInv, Careful
  <2>3. current \in Unvisited /\ Unvisited' = Unvisited \ {current}
    BY <1>1, <1>4, <2>1, <2>2, AheadIs DEF Unvisited, Active
  <2>4. current \in Keys
    BY <1>1 DEF IterIInv, IterTypeOK
  <2>5. QED
    BY <1>2, <2>1, <2>3, <2>4, Visits
<1>5. QED
  BY <1>3, <1>4

\* What a careful callback removes is no longer to be visited, and nothing
\* else is left out.
LEMMA CallbackCallMaps ==
  ASSUME IterIInv, IterIInv', CallbackCall
  PROVE  Iteration!CallbackRemoves \/ Iteration!Change
<1>1. /\ phase = "callback" /\ phase' = phase /\ callback' = callback
      /\ bucket_index' = bucket_index /\ returned' = returned
      /\ outcome' = outcome
      /\ current' = IF current \in Keys \ StoredKeys' THEN "freed" ELSE current
  BY DEF CallbackCall
<1>2. CASE ~Careful
  BY <1>1, <1>2, FreeStepMaps DEF Active, Careful, Outcome
<1>3. CASE Careful
  <2>1. Active /\ Active' /\ Outcome' = Outcome /\ Last' = Last
    BY <1>1, <1>3 DEF Active, Careful, Outcome, Last
  <2>2. /\ current # NULL => current \in StoredKeys'
        /\ AheadOf(buckets', bucket_index, current) =
             AheadOf(buckets, bucket_index, current)
        /\ AheadOf(buckets, bucket_index, current) \subseteq StoredKeys'
        /\ StoredKeys' \subseteq StoredKeys
    BY <1>3, CarefulAhead DEF IterIInv, Careful
  <2>3. current' = current
    BY <1>1, <2>2, KeyAssumption
  <2>4. Unvisited' = Unvisited /\ Unvisited \subseteq StoredKeys'
    BY <1>1, <1>3, <2>1, <2>2, <2>3, AheadIs DEF Unvisited, Active
  <2>5. Unvisited' = Unvisited \cap StoredKeys'
    BY <2>4
  <2>6. QED
    BY <2>1, <2>2, <2>5, Removes
<1>4. QED
  BY <1>2, <1>3

\* The end of foreach: it returns TRUE only with nothing left to visit.
LEMMA ReturnMaps ==
  ASSUME IterIInv, IterIInv', CallbackStops \/ End
  PROVE  (\E all \in BOOLEAN : Iteration!End(all)) \/ UNCHANGED Iteration!vars
<1>1. /\ phase # "none" /\ phase' = "none" /\ returned' = NULL
      /\ callback' = callback /\ buckets' = buckets
      /\ new_buckets' = new_buckets
  BY DEF CallbackStops, End, Return, vars, tableVars, rehashVars
<1>2. PICK all \in BOOLEAN : outcome' = all /\ (all => ~HasNext)
  <2>1. CASE CallbackStops
    BY <2>1 DEF CallbackStops, Return
  <2>2. CASE End
    BY <2>2 DEF End, Return
  <2>3. QED
    BY <2>1, <2>2
<1>3. StoredKeys' = StoredKeys
  BY <1>1 DEF StoredKeys, AllNodes
<1>4. ~Active' /\ Unvisited' = {} /\ Last' = NULL
  BY <1>1, Inactive DEF Active
<1>5. CASE ~Careful
  <2>1. ~Active /\ Unvisited = {} /\ Last = NULL /\ Outcome = NULL /\ Outcome' = NULL
    BY <1>1, <1>5, Inactive DEF Active, Outcome, Careful
  <2>2. QED
    BY <1>3, <1>4, <2>1, Stutters
<1>6. CASE Careful
  <2>1. Active /\ Outcome' = all
    BY <1>1, <1>2, <1>6 DEF Active, Outcome, Careful
  <2>2. all => Unvisited = {}
    BY <1>2 DEF Unvisited, Ahead, HasNext
  <2>3. QED
    BY <1>3, <1>4, <2>1, <2>2, Ends
<1>7. QED
  BY <1>5, <1>6

\* A step of foreach is a step of the abstract iteration, or none.
THEOREM StepImplementsIteration ==
  IterIInv /\ [IterNext]_allVars => [Iteration!Next]_Iteration!vars
<1> SUFFICES ASSUME IterIInv, [IterNext]_allVars
             PROVE  [Iteration!Next]_Iteration!vars
  OBVIOUS
<1> USE DEF Iteration!Next
<1>1. IterIInv'
  BY IterIInvInductive
<1>2. CASE Call
  <2>1. phase = "none" /\ phase' = "none" /\ outcome' = NULL
    BY <1>2 DEF Call
  <2>2. QED
    BY <1>1, <2>1, FreeStepMaps DEF Active, Outcome
<1>3. CASE Begin
  BY <1>1, <1>3, BeginMaps
<1>4. CASE Visit
  BY <1>1, <1>4, VisitMaps
<1>5. CASE CallbackCall
  BY <1>1, <1>5, CallbackCallMaps
<1>6. CASE CallbackRehashes
  <2>1. /\ callback' = callback /\ outcome' = outcome /\ phase = "callback"
        /\ pc = "rehashing"
    BY <1>6 DEF CallbackRehashes, iterVars, RehashStep, RelinkNode, NextBucket,
                InsertAfterRehash
  <2>2. ~Careful
    BY <2>1 DEF IterIInv, PositionSplits, Careful
  <2>3. QED
    BY <1>1, <2>1, <2>2, FreeStepMaps DEF Active, Outcome, Careful
<1>7. CASE CallbackContinues
  <2>1. /\ phase = "callback" /\ phase' = "loop" /\ callback' = callback
        /\ buckets' = buckets /\ new_buckets' = new_buckets
        /\ bucket_index' = bucket_index /\ current' = current
        /\ returned' = returned /\ outcome' = outcome
    BY <1>7 DEF CallbackContinues, vars, tableVars, rehashVars
  <2>2. StoredKeys' = StoredKeys
    BY <2>1 DEF StoredKeys, AllNodes
  <2>3. Ahead' = Ahead
    BY <2>1, AheadIs
  <2>4. QED
    BY <2>1, <2>2, <2>3, Stutters DEF Active, Unvisited, Last, Outcome, Careful
<1>8. CASE CallbackStops \/ End
  BY <1>1, <1>8, ReturnMaps
<1>9. CASE UNCHANGED allVars
  <2>1. UNCHANGED <<vars, iterVars>>
    BY <1>9 DEF allVars
  <2>2. StoredKeys' = StoredKeys
    BY <2>1 DEF vars, tableVars, rehashVars, StoredKeys, AllNodes
  <2>3. Ahead' = Ahead
    BY <2>1, AheadIs DEF vars, tableVars, iterVars
  <2>4. QED
    BY <2>1, <2>2, <2>3, Stutters
       DEF iterVars, Active, Unvisited, Last, Outcome, Careful
<1> HIDE DEF Iteration!Next
<1>10. QED
  BY <1>2, <1>3, <1>4, <1>5, <1>6, <1>7, <1>8, <1>9 DEF IterNext

\* foreach implements the abstract iteration, for every table and every
\* careful callback: each visit takes a key that is stored and not visited,
\* and TRUE is returned only when none is left.
THEOREM SpecImplementsIteration == IterSpec => ImplementsIteration
<1>1. IterInit => Iteration!Init
  <2> SUFFICES ASSUME IterInit PROVE Iteration!Init
    OBVIOUS
  <2>1. StoredKeys = {}
    BY InitSound DEF IterInit, StoredKeys
  <2>2. QED
    BY <2>1 DEF IterInit, Iteration!Init, Careful, Ahead
<1>2. QED
  BY <1>1, StepImplementsIteration, SpecIterIInv, PTL
     DEF IterSpec, ImplementsIteration, Iteration!Spec

=============================================================================
