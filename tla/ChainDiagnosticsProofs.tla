----------------------- MODULE ChainDiagnosticsProofs -----------------------
(***************************************************************************)
(* Proofs about ChainDiagnostics, for every heap: validate accepts exactly *)
(* the sound tables and reports the first error, and the statistics of an  *)
(* accepted table are exact. First the lemmas about what following next    *)
(* pointers leads to, then the inductive invariant, one lemma per step,    *)
(* and the theorems.                                                       *)
(***************************************************************************)
EXTENDS ChainDiagnostics, TableLemmas

-----------------------------------------------------------------------------
(* Following pointers. A path goes on for ever: from NULL to NULL.         *)

Follow(nx, p) == IF p = NULL THEN NULL ELSE nx[p]

IsPath(w, nx) ==
  /\ w \in [Nat -> Pointers]
  /\ \A n \in Nat : w[n + 1] = Follow(nx, w[n])

\* A set that has 0 and with each number the next one has them all.
LEMMA AllNaturals ==
  ASSUME NEW S, 0 \in S, \A n \in Nat : n \in S => n + 1 \in S
  PROVE  \A n \in Nat : n \in S
<1> DEFINE D == {n \in Nat : n \notin S}
<1>1. SUFFICES ASSUME D # {} PROVE FALSE
  OBVIOUS
<1>2. Min(D) \in D /\ \A n \in D : Min(D) <= n
  BY <1>1, MinOfNats
<1>3. PICK d \in D : \A n \in D : d <= n
  BY <1>2
<1>4. d # 0 /\ d - 1 \in Nat
  BY <1>3
<1>5. d - 1 \notin D
  BY <1>3, <1>4
<1>6. QED
  BY <1>3, <1>4, <1>5

\* The first n + 1 pointers of a path.
IsStretch(f, n, first, nx) ==
  /\ f \in [0 .. n -> Pointers] /\ f[0] = first
  /\ \A m \in 0 .. n - 1 : f[m + 1] = Follow(nx, f[m])

\* There is one of every length.
LEMMA StretchExists ==
  ASSUME NEW first \in Pointers, NEW nx \in [Nodes -> Pointers]
  PROVE  \A n \in Nat : \E f : IsStretch(f, n, first, nx)
<1> DEFINE S == {n \in Nat : \E f : IsStretch(f, n, first, nx)}
<1>1. 0 \in S
  <2>1. IsStretch([m \in 0 .. 0 |-> first], 0, first, nx)
    BY DEF IsStretch
  <2>2. QED
    BY <2>1
<1>2. ASSUME NEW n \in Nat, n \in S
      PROVE  n + 1 \in S
  <2>1. PICK f : IsStretch(f, n, first, nx)
    BY <1>2
  <2> DEFINE g == [m \in 0 .. n + 1 |-> IF m = n + 1 THEN Follow(nx, f[n]) ELSE f[m]]
  <2>2. Follow(nx, f[n]) \in Pointers
    BY <2>1 DEF IsStretch, Follow, Pointers
  <2>3. g \in [0 .. n + 1 -> Pointers] /\ g[0] = first
    BY <2>1, <2>2 DEF IsStretch
  <2>4. ASSUME NEW m \in 0 .. (n + 1) - 1
        PROVE  g[m + 1] = Follow(nx, g[m])
    <3>1. CASE m = n
      BY <3>1
    <3>2. CASE m # n
      <4>1. m \in 0 .. n - 1 /\ m + 1 \in 0 .. n + 1 /\ m \in 0 .. n + 1
        BY <3>2
      <4>2. QED
        BY <2>1, <4>1 DEF IsStretch
    <3>3. QED
      BY <3>1, <3>2
  <2>5. IsStretch(g, n + 1, first, nx)
    BY <2>3, <2>4 DEF IsStretch
  <2>6. QED
    BY <2>5
<1>3. \A n \in Nat : n \in S
  <2> HIDE DEF S
  <2>1. QED
    BY <1>1, <1>2, AllNaturals
<1>4. QED
  BY <1>3

\* Two of them agree where both are defined.
LEMMA StretchUnique ==
  ASSUME NEW first, NEW nx, NEW n \in Nat, NEW k \in Nat,
         NEW f, IsStretch(f, n, first, nx), NEW g, IsStretch(g, k, first, nx)
  PROVE  \A m \in Nat : m <= n /\ m <= k => f[m] = g[m]
<1> DEFINE S == {m \in Nat : m <= n /\ m <= k => f[m] = g[m]}
<1>1. 0 \in S
  BY DEF IsStretch
<1>2. ASSUME NEW m \in Nat, m \in S
      PROVE  m + 1 \in S
  BY <1>2 DEF IsStretch
<1>3. \A m \in Nat : m \in S
  <2> HIDE DEF S
  <2>1. QED
    BY <1>1, <1>2, AllNaturals
<1>4. QED
  BY <1>3

\* Every pointer begins a path.
LEMMA PathExists ==
  ASSUME NEW first \in Pointers, NEW nx \in [Nodes -> Pointers]
  PROVE  \E w : IsPath(w, nx) /\ w[0] = first
<1> DEFINE F(n) == CHOOSE f : IsStretch(f, n, first, nx)
           w == [n \in Nat |-> F(n)[n]]
<1>1. \A n \in Nat : IsStretch(F(n), n, first, nx)
  BY StretchExists
<1> HIDE DEF F
<1>2. w \in [Nat -> Pointers] /\ w[0] = first
  BY <1>1 DEF IsStretch
<1>3. ASSUME NEW n \in Nat
      PROVE  w[n + 1] = Follow(nx, w[n])
  <2>1. F(n + 1)[n] = F(n)[n]
    BY <1>1, StretchUnique
  <2>2. F(n + 1)[n + 1] = Follow(nx, F(n + 1)[n])
    BY <1>1 DEF IsStretch
  <2>3. QED
    BY <2>1, <2>2
<1>4. QED
  BY <1>2, <1>3 DEF IsPath

\* After NULL a path stays there.
LEMMA NullStays ==
  ASSUME NEW w, NEW nx, IsPath(w, nx), NEW m \in Nat, w[m] = NULL
  PROVE  \A n \in Nat : n >= m => w[n] = NULL
<1> DEFINE S == {t \in Nat : w[m + t] = NULL}
<1>1. 0 \in S
  OBVIOUS
<1>2. ASSUME NEW t \in Nat, t \in S
      PROVE  t + 1 \in S
  <2>1. w[(m + t) + 1] = NULL
    BY <1>2 DEF IsPath, Follow
  <2>2. QED
    BY <2>1
<1>3. \A t \in Nat : t \in S
  <2> HIDE DEF S
  <2>1. QED
    BY <1>1, <1>2, AllNaturals
<1>4. ASSUME NEW n \in Nat, n >= m
      PROVE  w[n] = NULL
  <2>1. n - m \in Nat /\ m + (n - m) = n
    BY <1>4
  <2>2. QED
    BY <1>3, <2>1
<1>5. QED
  BY <1>4

\* From two places with the same pointer a path goes on in the same way.
LEMMA SameTail ==
  ASSUME NEW w, NEW nx, IsPath(w, nx), NEW i0 \in Nat, NEW j0 \in Nat, w[i0] = w[j0]
  PROVE  \A t \in Nat : w[i0 + t] = w[j0 + t]
<1> DEFINE S == {t \in Nat : w[i0 + t] = w[j0 + t]}
<1>1. 0 \in S
  OBVIOUS
<1>2. ASSUME NEW t \in Nat, t \in S
      PROVE  t + 1 \in S
  <2>1. w[(i0 + t) + 1] = w[(j0 + t) + 1]
    BY <1>2 DEF IsPath
  <2>2. QED
    BY <2>1
<1>3. \A t \in Nat : t \in S
  <2> HIDE DEF S
  <2>1. QED
    BY <1>1, <1>2, AllNaturals
<1>4. QED
  BY <1>3

\* A path that ends passes no node twice.
LEMMA NoNodeTwice ==
  ASSUME NEW w, NEW nx, IsPath(w, nx), NEW m \in Nat, w[m] = NULL,
         NEW i0 \in Nat, NEW j0 \in Nat, i0 < j0, w[i0] = w[j0]
  PROVE  w[i0] = NULL
<1> DEFINE S == {n \in Nat : w[n] = NULL}
<1>1. Min(S) \in S /\ \A n \in S : Min(S) <= n
  BY MinOfNats
<1>2. PICK l \in Nat : w[l] = NULL /\ \A n \in Nat : w[n] = NULL => l <= n
  BY <1>1
<1>3. SUFFICES ASSUME w[i0] # NULL PROVE FALSE
  OBVIOUS
<1>4. j0 < l
  <2>1. \A n \in Nat : n >= l => w[n] = NULL
    BY <1>2, NullStays
  <2>2. QED
    BY <1>2, <1>3, <2>1
<1>5. l - j0 \in Nat /\ j0 + (l - j0) = l /\ i0 + (l - j0) \in Nat /\ i0 + (l - j0) < l
  BY <1>2, <1>4
<1>6. w[i0 + (l - j0)] = w[j0 + (l - j0)]
  BY <1>5, SameTail
<1>7. QED
  BY <1>2, <1>5, <1>6

\* A path that ends does so within as many steps as there are nodes.
LEMMA EndsInTime ==
  ASSUME NEW w, NEW nx, IsPath(w, nx), NEW m \in Nat, w[m] = NULL
  PROVE  w[Cardinality(Nodes)] = NULL
<1> DEFINE N == Cardinality(Nodes)
           f == [n \in 0 .. N |-> w[n]]
<1>1. N \in Nat /\ IsFiniteSet(Nodes)
  BY ConstantsAssumption, FS_CardinalityType
<1> HIDE DEF N
<1>2. SUFFICES ASSUME w[N] # NULL PROVE FALSE
  BY DEF N
<1>3. \A n \in 0 .. N : w[n] # NULL
  BY <1>1, <1>2, NullStays
<1>4. f \in [0 .. N -> Nodes]
  BY <1>1, <1>3 DEF IsPath, Pointers
<1>5. IsFiniteSet(0 .. N) /\ Cardinality(0 .. N) = N + 1
  BY <1>1, FS_Interval
<1> HIDE DEF f
<1>6. \E x, y \in 0 .. N : x # y /\ f[x] = f[y]
  BY <1>1, <1>4, <1>5, FS_PigeonHole DEF N
<1>7. PICK x, y \in 0 .. N : x < y /\ w[x] = w[y]
  BY <1>1, <1>6 DEF f
<1>8. w[x] = NULL
  BY <1>1, <1>7, NoNodeTwice
<1>9. QED
  BY <1>3, <1>8

-----------------------------------------------------------------------------
(* The chains of a heap.                                                   *)

HeapOK ==
  /\ buckets \in [Buckets -> Pointers]
  /\ next \in [Nodes -> Pointers]
  /\ flaw \in [Nodes -> Flaws]
  /\ size \in Nat

PathFrom(first, nx) == CHOOSE w : IsPath(w, nx) /\ w[0] = first

\* The pointers from the head of bucket b on.
Path(b) == PathFrom(buckets[b], next)

\* The path of a bucket begins at its head and follows the links.
LEMMA PathFacts ==
  ASSUME HeapOK, NEW b \in Buckets
  PROVE  /\ IsPath(Path(b), next) /\ Path(b)[0] = buckets[b]
         /\ \A n \in Nat : /\ Path(b)[n] \in Pointers
                           /\ Path(b)[n + 1] = Follow(next, Path(b)[n])
<1>1. buckets[b] \in Pointers /\ next \in [Nodes -> Pointers]
  BY DEF HeapOK
<1>2. \E w : IsPath(w, next) /\ w[0] = buckets[b]
  BY <1>1, PathExists
<1>3. IsPath(Path(b), next) /\ Path(b)[0] = buckets[b]
  BY <1>2 DEF Path, PathFrom
<1>4. QED
  BY <1>3 DEF IsPath

\* A heap has finitely many nodes, and NULL is none of them.
LEMMA NodeCount ==
  /\ IsFiniteSet(Nodes) /\ Cardinality(Nodes) \in Nat
  /\ BucketCount \in Nat \ {0} /\ NULL \notin Nodes
BY ConstantsAssumption, FS_CardinalityType

\* The reference definition walks along the path.
LEMMA WalkIsPath ==
  ASSUME HeapOK, NEW b \in Buckets
  PROVE  Walk(b) = [n \in 0 .. Cardinality(Nodes) |-> Path(b)[n]]
<1> DEFINE N == Cardinality(Nodes)
           Step(at) == [n \in 0 .. N |->
                          IF n = 0 THEN buckets[b]
                          ELSE IF at[n - 1] = NULL THEN NULL ELSE next[at[n - 1]]]
           g == [n \in 0 .. N |-> Path(b)[n]]
           w == Walk(b)
<1>0. N \in Nat
  BY NodeCount
<1>1. Walk(b) = CHOOSE at : at = Step(at)
  BY DEF Walk
<1>2. g = Step(g)
  <2>1. ASSUME NEW n \in 0 .. N
        PROVE  g[n] = Step(g)[n]
    <3>1. CASE n = 0
      BY <3>1, PathFacts
    <3>2. CASE n # 0
      <4>1. n - 1 \in 0 .. N /\ n - 1 \in Nat /\ (n - 1) + 1 = n
        BY <1>0, <3>2
      <4>2. Path(b)[(n - 1) + 1] = Follow(next, Path(b)[n - 1])
        BY <4>1, PathFacts
      <4>3. QED
        BY <3>2, <4>1, <4>2 DEF Follow
    <3>3. QED
      BY <3>1, <3>2
  <2>2. QED
    BY <2>1
<1>3. w = Step(w)
  <2>1. \E at : at = Step(at)
    BY <1>2
  <2>2. w = CHOOSE at : at = Step(at)
    BY <1>1
  <2> HIDE DEF g, w
  <2>3. QED
    BY <2>1, <2>2, Zenon
<1> HIDE DEF w
<1>4. DOMAIN w = 0 .. N /\ w = [n \in 0 .. N |-> w[n]]
  BY <1>3
<1>5. \A n \in Nat : n <= N => w[n] = Path(b)[n]
  <2> DEFINE S == {n \in Nat : n <= N => w[n] = Path(b)[n]}
  <2>1. 0 \in S
    <3>1. Step(w)[0] = buckets[b]
      BY <1>0
    <3>2. QED
      BY <1>3, <3>1, PathFacts
  <2>2. ASSUME NEW n \in Nat, n \in S
        PROVE  n + 1 \in S
    <3>1. SUFFICES ASSUME n + 1 <= N PROVE w[n + 1] = Path(b)[n + 1]
      OBVIOUS
    <3>2. w[n] = Path(b)[n]
      BY <1>0, <2>2, <3>1
    <3>3. n + 1 \in 0 .. N /\ n + 1 # 0 /\ (n + 1) - 1 = n
      BY <1>0, <3>1
    <3>4. Step(w)[n + 1] = Follow(next, w[n])
      BY <3>3 DEF Follow
    <3>5. QED
      BY <1>3, <3>2, <3>4, PathFacts
  <2>3. \A n \in Nat : n \in S
    <3> HIDE DEF S
    <3>1. QED
      BY <2>1, <2>2, AllNaturals
  <2>4. QED
    BY <2>3
<1>6. QED
  BY <1>0, <1>4, <1>5 DEF w

\* A chain that has ended after n links has n nodes.
LEMMA ChainLength ==
  ASSUME HeapOK, NEW b \in Buckets, NEW n \in Nat, Path(b)[n] = NULL,
         \A m \in 0 .. n - 1 : Path(b)[m] # NULL
  PROVE  /\ Acyclic(b)
         /\ ChainOf(b) = {Path(b)[m] : m \in 0 .. n - 1}
         /\ IsFiniteSet(ChainOf(b)) /\ Cardinality(ChainOf(b)) = n
         /\ n <= Cardinality(Nodes)
<1> DEFINE N == Cardinality(Nodes)
           T == {Path(b)[m] : m \in 0 .. n - 1}
           f == [m \in 1 .. n |-> Path(b)[m - 1]]
<1>0. N \in Nat
  BY NodeCount
<1>1. IsPath(Path(b), next) /\ \A m \in Nat : Path(b)[m] \in Pointers
  BY PathFacts
<1>2. Path(b)[N] = NULL
  BY <1>1, EndsInTime
<1>3. n <= N
  BY <1>0, <1>2
<1>4. \A m \in Nat : m >= n => Path(b)[m] = NULL
  BY <1>1, NullStays
<1>5. Acyclic(b)
  BY <1>0, <1>2, WalkIsPath DEF Acyclic
<1>6. DOMAIN Walk(b) = 0 .. N /\ \A m \in 0 .. N : Walk(b)[m] = Path(b)[m]
  BY WalkIsPath
<1>7. ChainOf(b) = T
  <2>1. ASSUME NEW p \in ChainOf(b)
        PROVE  p \in T
    <3>1. PICK m \in 0 .. N : p = Path(b)[m] /\ p # NULL
      BY <1>6 DEF ChainOf
    <3>2. m < n
      BY <1>0, <1>4, <3>1
    <3>3. QED
      BY <3>1, <3>2
  <2>2. ASSUME NEW m \in 0 .. n - 1
        PROVE  Path(b)[m] \in ChainOf(b)
    <3>1. m \in 0 .. N
      BY <1>0, <1>3
    <3>2. QED
      BY <1>6, <3>1 DEF ChainOf
  <2>3. QED
    BY <2>1, <2>2
<1>8. f \in Bijection(1 .. n, T)
  <2>1. f \in [1 .. n -> T]
    OBVIOUS
  <2>2. ASSUME NEW x \in 1 .. n, NEW y \in 1 .. n, f[x] = f[y]
        PROVE  x = y
    <3>1. x - 1 \in 0 .. n - 1 /\ y - 1 \in 0 .. n - 1 /\ x - 1 \in Nat /\ y - 1 \in Nat
      OBVIOUS
    <3>2. Path(b)[x - 1] = Path(b)[y - 1]
      BY <2>2
    <3>3. ~(x - 1 < y - 1) /\ ~(y - 1 < x - 1)
      BY <1>1, <3>1, <3>2, NoNodeTwice
    <3>4. QED
      BY <3>3
  <2>3. ASSUME NEW t \in T
        PROVE  \E x \in 1 .. n : f[x] = t
    <3>1. PICK m \in 0 .. n - 1 : t = Path(b)[m]
      OBVIOUS
    <3>2. m + 1 \in 1 .. n /\ f[m + 1] = t
      BY <3>1
    <3>3. QED
      BY <3>2
  <2> HIDE DEF f, T
  <2>4. QED
    BY <2>1, <2>2, <2>3 DEF Bijection, Injection, Surjection, IsInjective
<1> HIDE DEF f, T
<1>9. IsFiniteSet(T) /\ Cardinality(T) = n
  <2>1. IsFiniteSet(1 .. n) /\ Cardinality(1 .. n) = n
    BY FS_Interval
  <2>2. ExistsBijection(1 .. n, T)
    BY <1>8 DEF ExistsBijection
  <2>3. QED
    BY <2>1, <2>2, FS_Bijection
<1>10. QED
  BY <1>3, <1>5, <1>7, <1>9 DEF T

\* A chain is acyclic just when its path ends, and then it has a length.
LEMMA AcyclicPath ==
  ASSUME HeapOK, NEW b \in Buckets
  PROVE  /\ Acyclic(b) <=> \E n \in Nat : Path(b)[n] = NULL
         /\ Acyclic(b) => \E n \in Nat : /\ Path(b)[n] = NULL
                                         /\ \A m \in 0 .. n - 1 : Path(b)[m] # NULL
<1>1. IsPath(Path(b), next) /\ Cardinality(Nodes) \in Nat
  BY PathFacts, NodeCount
<1>2. Acyclic(b) <=> Path(b)[Cardinality(Nodes)] = NULL
  BY <1>1, WalkIsPath DEF Acyclic
<1>3. ASSUME NEW n \in Nat, Path(b)[n] = NULL
      PROVE  Acyclic(b)
  BY <1>1, <1>2, <1>3, EndsInTime
<1>4. ASSUME Acyclic(b)
      PROVE  \E n \in Nat : /\ Path(b)[n] = NULL
                            /\ \A m \in 0 .. n - 1 : Path(b)[m] # NULL
  <2> DEFINE S == {n \in Nat : Path(b)[n] = NULL}
  <2>1. S # {}
    BY <1>1, <1>2, <1>4
  <2>2. Min(S) \in S /\ \A n \in S : Min(S) <= n
    BY <2>1, MinOfNats
  <2>3. PICK n \in S : \A m \in S : n <= m
    BY <2>2
  <2>4. QED
    BY <2>3
<1>5. QED
  BY <1>1, <1>2, <1>3, <1>4

\* The nodes of a chain are finitely many nodes of the heap.
LEMMA ChainNodes ==
  ASSUME HeapOK, NEW b \in Buckets
  PROVE  /\ ChainOf(b) \subseteq Nodes
         /\ IsFiniteSet(ChainOf(b)) /\ Cardinality(ChainOf(b)) \in Nat
<1>1. DOMAIN Walk(b) = 0 .. Cardinality(Nodes)
      /\ \A m \in 0 .. Cardinality(Nodes) : Walk(b)[m] = Path(b)[m]
  BY WalkIsPath
<1>2. \A m \in 0 .. Cardinality(Nodes) : Path(b)[m] \in Pointers
  BY PathFacts, NodeCount
<1>3. ChainOf(b) \subseteq Nodes
  BY <1>1, <1>2 DEF ChainOf, Pointers
<1>4. QED
  BY <1>3, NodeCount, FS_Subset, FS_CardinalityType

-----------------------------------------------------------------------------
(* The first chains of the table.                                          *)

SoundUpTo(k) == \A c \in Buckets : c < k => ChainSound(c)

Chained(k) == UNION {ChainOf(c) : c \in 0 .. k - 1}

\* The nodes of the first chains are nodes of the heap.
LEMMA ChainedFacts ==
  ASSUME HeapOK, NEW k \in 0 .. BucketCount
  PROVE  /\ Chained(k) \subseteq Nodes /\ IsFiniteSet(Chained(k))
         /\ Cardinality(Chained(k)) \in Nat
<1>1. \A c \in 0 .. k - 1 : c \in Buckets
  BY NodeCount DEF Buckets
<1>2. Chained(k) \subseteq Nodes
  BY <1>1, ChainNodes DEF Chained
<1>3. QED
  BY <1>2, NodeCount, FS_Subset, FS_CardinalityType

\* No chain has no node; all chains have the nodes of the table.
LEMMA ChainedBounds ==
  /\ Chained(0) = {} /\ Cardinality(Chained(0)) = 0
  /\ Chained(BucketCount) = UNION {ChainOf(b) : b \in Buckets}
<1>1. Chained(0) = {}
  BY DEF Chained
<1>2. QED
  BY <1>1, FS_EmptySet DEF Chained, Buckets

\* Sound chains share no node: it would have to be in two buckets.
LEMMA ChainedNext ==
  ASSUME HeapOK, NEW k \in Buckets, SoundUpTo(k + 1)
  PROVE  Cardinality(Chained(k + 1)) = Cardinality(Chained(k)) + Cardinality(ChainOf(k))
<1>1. /\ k \in 0 .. BucketCount /\ k + 1 \in 0 .. BucketCount /\ k \in Nat
      /\ \A c \in 0 .. k : c \in Buckets /\ c < k + 1
  BY NodeCount DEF Buckets
<1>2. Chained(k + 1) = Chained(k) \cup ChainOf(k)
  <2>1. 0 .. (k + 1) - 1 = (0 .. k - 1) \cup {k}
    BY <1>1
  <2>2. QED
    BY <2>1 DEF Chained
<1>3. Chained(k) \cap ChainOf(k) = {}
  <2>1. SUFFICES ASSUME NEW n \in Chained(k), n \in ChainOf(k) PROVE FALSE
    OBVIOUS
  <2>2. PICK c \in 0 .. k - 1 : n \in ChainOf(c)
    BY DEF Chained
  <2>3. Sound(n, c) /\ Sound(n, k)
    BY <1>1, <2>1, <2>2 DEF SoundUpTo, ChainSound
  <2>4. QED
    BY <1>1, <2>3 DEF Sound
<1>4. IsFiniteSet(Chained(k)) /\ IsFiniteSet(ChainOf(k))
      /\ Cardinality(Chained(k)) \in Nat /\ Cardinality(ChainOf(k)) \in Nat
  BY <1>1, ChainNodes, ChainedFacts
<1>5. Cardinality(Chained(k) \cup ChainOf(k))
        = Cardinality(Chained(k)) + Cardinality(ChainOf(k)) - Cardinality({})
  BY <1>3, <1>4, FS_Union
<1>6. Cardinality({}) = 0
  BY FS_EmptySet
<1>7. Cardinality(Chained(k + 1)) =
        Cardinality(Chained(k)) + Cardinality(ChainOf(k)) - 0
  BY <1>2, <1>5, <1>6, Zenon
<1>8. QED
  BY <1>4, <1>7

-----------------------------------------------------------------------------
(* No step changes the heap.                                               *)

\* The definition of Walk, with the heap as its arguments.
WalkOf(bs, nx, b) ==
  LET at[n \in 0 .. Cardinality(Nodes)] ==
        IF n = 0 THEN bs[b]
        ELSE IF at[n - 1] = NULL THEN NULL ELSE nx[at[n - 1]]
  IN  at

\* What is defined of the heap stays what it is while the heap does.
LEMMA SameHeap ==
  ASSUME UNCHANGED heapVars
  PROVE  /\ HeapOK => HeapOK'
         /\ \A b : /\ Path(b)' = Path(b) /\ Walk(b)' = Walk(b)
                   /\ ChainOf(b)' = ChainOf(b) /\ Acyclic(b)' = Acyclic(b)
                   /\ ChainSound(b)' = ChainSound(b)
         /\ \A n, b : Sound(n, b)' = Sound(n, b)
         /\ \A k : Chained(k)' = Chained(k) /\ SoundUpTo(k)' = SoundUpTo(k)
<1>1. buckets' = buckets /\ next' = next /\ flaw' = flaw /\ size' = size
  BY DEF heapVars
<1>2. HeapOK => HeapOK'
  BY <1>1 DEF HeapOK
<1>3. ASSUME NEW b
      PROVE  /\ Path(b)' = Path(b) /\ Walk(b)' = Walk(b)
             /\ ChainOf(b)' = ChainOf(b) /\ Acyclic(b)' = Acyclic(b)
  <2>1. Path(b)' = Path(b)
    BY <1>1 DEF Path
  <2>2. Walk(b) = WalkOf(buckets, next, b)
    BY DEF Walk, WalkOf
  <2>3. Walk(b)' = WalkOf(buckets', next', b)
    BY DEF Walk, WalkOf
  <2>4. Walk(b)' = Walk(b)
    BY <1>1, <2>2, <2>3
  <2>5. QED
    BY <2>1, <2>4 DEF ChainOf, Acyclic
<1>4. \A n, b : Sound(n, b)' = Sound(n, b)
  BY <1>1 DEF Sound
<1>5. \A b : ChainSound(b)' = ChainSound(b)
  BY <1>3, <1>4 DEF ChainSound
<1>6. \A k : Chained(k)' = Chained(k)
  BY <1>3 DEF Chained
<1>7. \A k : SoundUpTo(k)' = SoundUpTo(k)
  BY <1>5 DEF SoundUpTo
<1>8. QED
  BY <1>2, <1>3, <1>4, <1>5, <1>6, <1>7

-----------------------------------------------------------------------------
(* The inductive invariant.                                                *)

\* The types of what the loops count with.
StateOK ==
  /\ pc \in {"next_bucket", "cycle_check", "walk", "validated",
             "stats_bucket", "measure", "collected"}
  /\ i \in 0 .. BucketCount
  /\ chain_index \in Nat /\ counted_entries \in Nat
  /\ stats \in [entries : Nat, capacity : Nat, used_buckets : Nat,
                empty_buckets : Nat, longest_chain : Nat, collisions : Nat]

\* The chains before bucket i are sound, and before the walk along chain i
\* their nodes have been counted.
Passed ==
  pc \in {"next_bucket", "cycle_check", "walk"} =>
    /\ pc # "next_bucket" => i < BucketCount
    /\ SoundUpTo(i)
    /\ pc # "walk" => counted_entries = Cardinality(Chained(i))

\* The fast pointer is twice as many links away from the head as the slow one.
Racing ==
  pc = "cycle_check" =>
    \E k \in Nat : slow = Path(i)[k] /\ fast = Path(i)[2 * k]

\* Both walks are chain_index links away from the head and have met nodes
\* only; validate's, sound ones, on a chain that ends.
Walking ==
  pc \in {"walk", "measure"} =>
    /\ i < BucketCount
    /\ node = Path(i)[chain_index]
    /\ \A m \in 0 .. chain_index - 1 : Path(i)[m] # NULL
    /\ pc = "walk" =>
         /\ Acyclic(i)
         /\ \A m \in 0 .. chain_index - 1 : Sound(Path(i)[m], i)
         /\ counted_entries = Cardinality(Chained(i)) + chain_index

\* Statistics are collected of sound tables.
Judged ==
  pc \in {"stats_bucket", "measure", "collected"} =>
    SoundUpTo(BucketCount) /\ size = Cardinality(Chained(BucketCount))

Used(k) == {c \in 0 .. k - 1 : ChainOf(c) # {}}

LongestOf(length, k) ==
  /\ \A c \in 0 .. k - 1 : Cardinality(ChainOf(c)) <= length
  /\ length = 0 \/ \E c \in 0 .. k - 1 : Cardinality(ChainOf(c)) = length

\* The statistics are those of the chains before bucket i.
Measured ==
  pc \in {"stats_bucket", "measure"} =>
    /\ stats.entries = size /\ stats.capacity = BucketCount
    /\ stats.used_buckets = Cardinality(Used(i))
    /\ stats.empty_buckets = i - stats.used_buckets
    /\ stats.collisions = Cardinality(Chained(i)) - stats.used_buckets
    /\ LongestOf(stats.longest_chain, i)

IInv == /\ HeapOK /\ StateOK /\ Passed /\ Racing /\ Walking /\ Judged /\ Measured
        /\ AcceptsExactlySoundTables /\ FirstErrorReported /\ StatsExact

\* Nothing has been counted or found before the first step.
LEMMA InitSound == Init => IInv
<1> SUFFICES ASSUME Init PROVE IInv
  OBVIOUS
<1>1. HeapOK
  BY NodeCount, ConstantsAssumption DEF Init, HeapOK
<1>2. StateOK
  BY NodeCount DEF Init, StateOK, ZeroStats
<1>3. Passed
  BY ChainedBounds, NodeCount DEF Init, Passed, SoundUpTo, Buckets
<1>4. QED
  BY <1>1, <1>2, <1>3
     DEF Init, IInv, Racing, Walking, Judged, Measured,
         AcceptsExactlySoundTables, FirstErrorReported, StatsExact

\* The places of a path.
LEMMA InBucket ==
  ASSUME IInv, i < BucketCount
  PROVE  /\ i \in Buckets /\ i \in Nat /\ i + 1 \in 0 .. BucketCount
         /\ IsPath(Path(i), next) /\ Path(i)[0] = buckets[i]
         /\ \A n \in Nat : /\ Path(i)[n] \in Pointers
                           /\ Path(i)[n] # NULL => Path(i)[n + 1] = next[Path(i)[n]]
<1>1. i \in Buckets /\ i \in Nat /\ i + 1 \in 0 .. BucketCount
  BY NodeCount DEF IInv, StateOK, Buckets
<1>2. QED
  BY <1>1, PathFacts DEF IInv, Follow

\* Both pointers start at the head of the bucket.
LEMMA BeginBucketSound ==
  ASSUME IInv, BeginBucket
  PROVE  IInv'
<1>1. /\ i < BucketCount /\ pc = "next_bucket" /\ pc' = "cycle_check"
      /\ slow' = buckets[i] /\ fast' = buckets[i]
      /\ UNCHANGED heapVars
      /\ UNCHANGED <<i, node, chain_index, counted_entries, result, stats>>
  BY DEF BeginBucket
<1>2. HeapOK' /\ StateOK'
  BY <1>1, SameHeap DEF IInv, StateOK
<1>3. Passed'
  BY <1>1, SameHeap DEF IInv, Passed
<1>4. Racing'
  <2>1. slow' = Path(i)[0] /\ fast' = Path(i)[2 * 0]
    BY <1>1, InBucket
  <2>2. QED
    BY <1>1, <2>1, SameHeap DEF Racing
<1>5. QED
  BY <1>1, <1>2, <1>3, <1>4
     DEF IInv, Walking, Judged, Measured,
         AcceptsExactlySoundTables, FirstErrorReported, StatsExact

\* One step of the race: when it goes on the fast pointer is at twice the
\* distance still, and when the pointers meet, the chain has no end.
LEMMA RaceFacts ==
  ASSUME IInv, pc = "cycle_check", CanRace
  PROVE  /\ i < BucketCount
         /\ \E k \in Nat : /\ slow = Path(i)[k] /\ fast = Path(i)[2 * k]
                           /\ next[slow] = Path(i)[k + 1]
                           /\ next[next[fast]] = Path(i)[2 * (k + 1)]
         /\ next[slow] = next[next[fast]] => ~Acyclic(i)
<1>1. i < BucketCount
  BY DEF IInv, Passed
<1>2. PICK k \in Nat : slow = Path(i)[k] /\ fast = Path(i)[2 * k]
  BY DEF IInv, Racing
<1>3. /\ IsPath(Path(i), next) /\ i \in Buckets
      /\ \A n \in Nat : Path(i)[n] # NULL => Path(i)[n + 1] = next[Path(i)[n]]
  BY <1>1, InBucket
<1>4. Path(i)[2 * k] # NULL /\ Path(i)[2 * k + 1] # NULL
      /\ Path(i)[2 * k + 2] = next[next[fast]]
  <2>1. 2 * k \in Nat /\ 2 * k + 1 \in Nat /\ (2 * k + 1) + 1 = 2 * k + 2
    OBVIOUS
  <2>2. Path(i)[2 * k] # NULL /\ Path(i)[2 * k + 1] = next[fast]
    BY <1>2, <1>3, <2>1 DEF CanRace
  <2>3. Path(i)[2 * k + 1] # NULL
    BY <2>2 DEF CanRace
  <2>4. Path(i)[(2 * k + 1) + 1] = next[next[fast]]
    BY <1>3, <2>1, <2>2, <2>3
  <2>5. QED
    BY <2>1, <2>2, <2>3, <2>4
<1>5. \A n \in Nat : n <= 2 * k + 1 => Path(i)[n] # NULL
  BY <1>3, <1>4, NullStays
<1>6. next[slow] = Path(i)[k + 1] /\ Path(i)[k + 1] # NULL
  BY <1>2, <1>3, <1>5
<1>7. 2 * (k + 1) = 2 * k + 2 /\ k + 1 \in Nat /\ 2 * k + 2 \in Nat /\ k + 1 < 2 * k + 2
  OBVIOUS
<1>8. ASSUME next[slow] = next[next[fast]], Acyclic(i)
      PROVE  FALSE
  <2>1. PICK m \in Nat : Path(i)[m] = NULL
    BY <1>3, <1>8, AcyclicPath DEF IInv
  <2>2. Path(i)[k + 1] = Path(i)[2 * k + 2]
    BY <1>4, <1>6, <1>8
  <2>3. QED
    BY <1>3, <1>6, <1>7, <2>1, <2>2, NoNodeTwice
<1>9. QED
  BY <1>1, <1>2, <1>4, <1>6, <1>7, <1>8

\* The race goes on, or it has found a cycle in the first chain that is not
\* sound.
LEMMA RaceSound ==
  ASSUME IInv, Race
  PROVE  IInv'
<1>1. /\ pc = "cycle_check" /\ CanRace
      /\ slow' = next[slow] /\ fast' = next[next[fast]]
      /\ UNCHANGED heapVars
      /\ UNCHANGED <<i, node, chain_index, counted_entries, stats>>
      /\ \/ slow' # fast' /\ pc' = pc /\ result' = result
         \/ /\ slow' = fast' /\ pc' = "validated"
            /\ result' = Result(FALSE, "CYCLE_DETECTED", i, counted_entries)
  BY DEF Race
<1>2. /\ i < BucketCount /\ i \in Buckets /\ SoundUpTo(i)
      /\ slow' = fast' => ~Acyclic(i)
  BY <1>1, RaceFacts, InBucket DEF IInv, Passed
<1>3. HeapOK' /\ StateOK'
  BY <1>1, SameHeap DEF IInv, StateOK
<1>4. CASE slow' # fast'
  <2>1. pc' = "cycle_check"
    BY <1>1, <1>4
  <2>2. Racing'
    <3>1. PICK k \in Nat : slow' = Path(i)[k + 1] /\ fast' = Path(i)[2 * (k + 1)]
      BY <1>1, RaceFacts
    <3>2. QED
      BY <1>1, <3>1, SameHeap DEF Racing
  <2>3. Passed'
    BY <1>1, <2>1, SameHeap DEF IInv, Passed
  <2>4. QED
    BY <1>3, <2>1, <2>2, <2>3
       DEF IInv, Walking, Judged, Measured,
           AcceptsExactlySoundTables, FirstErrorReported, StatsExact
<1>5. CASE slow' = fast'
  <2>1. /\ pc' = "validated" /\ ~result'.valid
        /\ result'.error = "CYCLE_DETECTED" /\ result'.bucket_index = i
    BY <1>1, <1>5 DEF Result
  <2>2. ~(\A b \in Buckets : ChainSound(b))'
    BY <1>1, <1>2, <1>5, SameHeap DEF ChainSound
  <2>3. AcceptsExactlySoundTables'
    BY <1>2, <2>1, <2>2 DEF AcceptsExactlySoundTables
  <2>4. FirstErrorReported'
    BY <1>1, <1>2, <1>5, <2>1, SameHeap DEF FirstErrorReported, SoundUpTo
  <2>5. QED
    BY <1>3, <2>1, <2>3, <2>4
       DEF IInv, Passed, Racing, Walking, Judged, Measured, StatsExact
<1>6. QED
  BY <1>4, <1>5

\* A race that is over has seen the end of the chain.
LEMMA BeginWalkSound ==
  ASSUME IInv, BeginWalk
  PROVE  IInv'
<1>1. /\ pc = "cycle_check" /\ ~CanRace /\ pc' = "walk"
      /\ node' = buckets[i] /\ chain_index' = 0
      /\ UNCHANGED heapVars
      /\ UNCHANGED <<i, slow, fast, counted_entries, result, stats>>
  BY DEF BeginWalk
<1>2. /\ i < BucketCount /\ i \in Buckets /\ SoundUpTo(i)
      /\ counted_entries = Cardinality(Chained(i))
      /\ IsPath(Path(i), next) /\ Path(i)[0] = buckets[i]
      /\ \A n \in Nat : Path(i)[n] # NULL => Path(i)[n + 1] = next[Path(i)[n]]
  BY <1>1, InBucket DEF IInv, Passed
<1>3. Acyclic(i)
  <2>1. PICK k \in Nat : fast = Path(i)[2 * k]
    BY <1>1 DEF IInv, Racing
  <2>2. 2 * k \in Nat /\ 2 * k + 1 \in Nat
    OBVIOUS
  <2>3. Path(i)[2 * k] = NULL \/ Path(i)[2 * k + 1] = NULL
    BY <1>1, <1>2, <2>1, <2>2 DEF CanRace
  <2>4. QED
    BY <1>2, <2>2, <2>3, AcyclicPath DEF IInv
<1>4. HeapOK' /\ StateOK'
  BY <1>1, SameHeap DEF IInv, StateOK
<1>5. Passed'
  BY <1>1, <1>2, SameHeap DEF Passed
<1>6. Walking'
  <2>1. Cardinality(Chained(i)) \in Nat
    BY <1>2, ChainedFacts DEF IInv, StateOK
  <2>2. QED
    BY <1>1, <1>2, <1>3, <2>1, SameHeap DEF Walking
<1>7. QED
  BY <1>1, <1>4, <1>5, <1>6
     DEF IInv, Racing, Judged, Measured,
         AcceptsExactlySoundTables, FirstErrorReported, StatsExact

\* The walk finds a problem just with the nodes that are not sound.
LEMMA ProblemFound ==
  ASSUME HeapOK, node \in Nodes
  PROVE  /\ Problem = "OK" <=> Sound(node, i)
         /\ Problem \in {"OK", "INVALID_ENTRY", "HASH_MISMATCH", "BUCKET_MISMATCH"}
<1>1. flaw[node] \in {"none", "no_key", "wrong_hash"} /\ Hash[node] \in Nat
  BY ConstantsAssumption DEF HeapOK
<1>2. Hash[node] # CachedHash(node) <=> flaw[node] = "wrong_hash"
  BY <1>1 DEF CachedHash
<1>3. QED
  BY <1>1, <1>2 DEF Problem, Sound

\* Where the walk is.
LEMMA WalkFacts ==
  ASSUME IInv, pc \in {"walk", "measure"}
  PROVE  /\ i < BucketCount /\ i \in Buckets /\ i \in Nat /\ i + 1 \in 0 .. BucketCount
         /\ chain_index \in Nat /\ node = Path(i)[chain_index] /\ node \in Pointers
         /\ \A m \in 0 .. chain_index - 1 : Path(i)[m] # NULL
         /\ node # NULL => /\ node \in Nodes /\ next[node] = Path(i)[chain_index + 1]
                           /\ next[node] \in Pointers
         /\ node = NULL => /\ ChainOf(i) = {Path(i)[m] : m \in 0 .. chain_index - 1}
                           /\ Cardinality(ChainOf(i)) = chain_index
                           /\ Acyclic(i)
<1>1. /\ i < BucketCount /\ chain_index \in Nat /\ node = Path(i)[chain_index]
      /\ \A m \in 0 .. chain_index - 1 : Path(i)[m] # NULL
  BY DEF IInv, Walking, StateOK
<1>2. /\ i \in Buckets /\ i \in Nat /\ i + 1 \in 0 .. BucketCount
      /\ \A n \in Nat : /\ Path(i)[n] \in Pointers
                        /\ Path(i)[n] # NULL => Path(i)[n + 1] = next[Path(i)[n]]
  BY <1>1, InBucket
<1>3. chain_index + 1 \in Nat
  BY <1>1
<1>4. node # NULL => /\ node \in Nodes /\ next[node] = Path(i)[chain_index + 1]
                     /\ next[node] \in Pointers
  BY <1>1, <1>2, <1>3 DEF Pointers
<1>5. node = NULL => /\ ChainOf(i) = {Path(i)[m] : m \in 0 .. chain_index - 1}
                     /\ Cardinality(ChainOf(i)) = chain_index
                     /\ Acyclic(i)
  BY <1>1, <1>2, ChainLength DEF IInv
<1>6. QED
  BY <1>1, <1>2, <1>4, <1>5

\* A node at a place of an acyclic chain.
LEMMA NodeInChain ==
  ASSUME HeapOK, NEW b \in Buckets, Acyclic(b), NEW n \in Nat, Path(b)[n] # NULL
  PROVE  /\ n \in 0 .. Cardinality(Nodes) /\ DOMAIN Walk(b) = 0 .. Cardinality(Nodes)
         /\ \A m \in 0 .. n : Walk(b)[m] = Path(b)[m]
         /\ Path(b)[n] \in ChainOf(b)
<1>1. Cardinality(Nodes) \in Nat /\ IsPath(Path(b), next)
  BY NodeCount, PathFacts
<1>2. Path(b)[Cardinality(Nodes)] = NULL
  BY <1>1, WalkIsPath DEF Acyclic
<1>3. n \in 0 .. Cardinality(Nodes)
  BY <1>1, <1>2, NullStays
<1>4. DOMAIN Walk(b) = 0 .. Cardinality(Nodes)
      /\ \A m \in 0 .. Cardinality(Nodes) : Walk(b)[m] = Path(b)[m]
  BY WalkIsPath
<1>5. Path(b)[n] \in ChainOf(b)
  BY <1>3, <1>4 DEF ChainOf
<1>6. QED
  BY <1>1, <1>3, <1>4, <1>5

\* The node at the walk is the first that is not sound.
LEMMA RejectNodeSound ==
  ASSUME IInv, RejectNode
  PROVE  IInv'
<1>1. /\ pc = "walk" /\ node # NULL /\ Problem # "OK" /\ pc' = "validated"
      /\ result' = Result(FALSE, Problem, i, chain_index)
      /\ UNCHANGED heapVars
      /\ UNCHANGED <<i, slow, fast, node, chain_index, counted_entries, stats>>
  BY DEF RejectNode, Report, loopVars
<1>2. /\ i \in Buckets /\ chain_index \in Nat /\ node \in Nodes
      /\ node = Path(i)[chain_index] /\ Acyclic(i) /\ SoundUpTo(i)
      /\ \A m \in 0 .. chain_index - 1 : Sound(Path(i)[m], i)
  BY <1>1, WalkFacts DEF IInv, Walking, Passed
<1>3. ~Sound(node, i) /\ Problem # "CYCLE_DETECTED" /\ Problem # "SIZE_MISMATCH"
  BY <1>1, <1>2, ProblemFound DEF IInv
<1>4. /\ chain_index \in DOMAIN Walk(i) /\ node \in ChainOf(i)
      /\ \A m \in 0 .. chain_index : Walk(i)[m] = Path(i)[m]
  BY <1>1, <1>2, NodeInChain DEF IInv
<1>5. HeapOK' /\ StateOK'
  BY <1>1, SameHeap DEF IInv, StateOK
<1>6. /\ ~result'.valid /\ result'.error = Problem
      /\ result'.bucket_index = i /\ result'.entry_index = chain_index
  BY <1>1 DEF Result
<1>7. AcceptsExactlySoundTables'
  <2>1. ~(\A b \in Buckets : ChainSound(b))'
    BY <1>1, <1>2, <1>3, <1>4, SameHeap DEF ChainSound
  <2>2. QED
    BY <1>6, <2>1 DEF AcceptsExactlySoundTables
<1>8. FirstErrorReported'
  <2>1. PICK b, at : b = i /\ at = chain_index
    OBVIOUS
  <2>2. \A c \in Buckets : c < b => ChainSound(c)'
    BY <1>1, <1>2, <2>1, SameHeap DEF SoundUpTo
  <2>3. /\ Acyclic(b) /\ at \in DOMAIN Walk(b) /\ Walk(b)[at] \in Nodes
        /\ ~Sound(Walk(b)[at], b)
        /\ \A m \in 0 .. at - 1 : Sound(Walk(b)[m], b)
    BY <1>2, <1>3, <1>4, <2>1
  <2>4. /\ Acyclic(b)' /\ at \in DOMAIN Walk(b)' /\ Walk(b)'[at] \in Nodes
        /\ ~Sound(Walk(b)[at], b)'
        /\ \A m \in 0 .. at - 1 : Sound(Walk(b)[m], b)'
    BY <1>1, <2>3, SameHeap
  <2>5. /\ result'.bucket_index = b /\ result'.entry_index = at
        /\ result'.error # "CYCLE_DETECTED" /\ result'.error # "SIZE_MISMATCH"
    BY <1>3, <1>6, <2>1
  <2>6. QED
    BY <2>2, <2>4, <2>5 DEF FirstErrorReported
<1>9. QED
  BY <1>1, <1>5, <1>7, <1>8
     DEF IInv, Passed, Racing, Walking, Judged, Measured, StatsExact

\* One more sound node has been counted.
LEMMA AcceptNodeSound ==
  ASSUME IInv, AcceptNode
  PROVE  IInv'
<1>1. /\ pc = "walk" /\ pc' = pc /\ node # NULL /\ Problem = "OK"
      /\ node' = next[node] /\ chain_index' = chain_index + 1
      /\ counted_entries' = counted_entries + 1
      /\ UNCHANGED heapVars
      /\ UNCHANGED <<i, slow, fast, result, stats>>
  BY DEF AcceptNode
<1>2. /\ i < BucketCount /\ i \in Buckets /\ chain_index \in Nat /\ node \in Nodes
      /\ node = Path(i)[chain_index] /\ next[node] = Path(i)[chain_index + 1]
      /\ Acyclic(i) /\ SoundUpTo(i)
      /\ counted_entries \in Nat /\ counted_entries = Cardinality(Chained(i)) + chain_index
      /\ \A m \in 0 .. chain_index - 1 : Path(i)[m] # NULL /\ Sound(Path(i)[m], i)
  BY <1>1, WalkFacts DEF IInv, Walking, Passed, StateOK
<1>3. Sound(node, i)
  BY <1>1, <1>2, ProblemFound DEF IInv
<1>4. HeapOK' /\ StateOK'
  BY <1>1, <1>2, SameHeap DEF IInv, StateOK
<1>5. Passed'
  BY <1>1, <1>2, SameHeap DEF Passed
<1>6. Walking'
  <2>1. Cardinality(Chained(i)) \in Nat
    BY <1>2, ChainedFacts DEF IInv, StateOK
  <2>2. counted_entries' = Cardinality(Chained(i)) + chain_index'
    BY <1>1, <1>2, <2>1
  <2>3. \A m \in 0 .. chain_index' - 1 : m \in 0 .. chain_index - 1 \/ m = chain_index
    BY <1>1, <1>2
  <2>4. \A m \in 0 .. chain_index' - 1 : Path(i)[m] # NULL /\ Sound(Path(i)[m], i)
    BY <1>1, <1>2, <1>3, <2>3
  <2>5. QED
    BY <1>1, <1>2, <2>2, <2>4, SameHeap DEF Walking
<1>7. QED
  BY <1>1, <1>4, <1>5, <1>6
     DEF IInv, Racing, Judged, Measured,
         AcceptsExactlySoundTables, FirstErrorReported, StatsExact

\* A chain whose walk has ended is sound, and all its nodes are counted.
LEMMA EndWalkSound ==
  ASSUME IInv, EndWalk
  PROVE  IInv'
<1>1. /\ pc = "walk" /\ node = NULL /\ pc' = "next_bucket" /\ i' = i + 1
      /\ UNCHANGED heapVars
      /\ UNCHANGED <<slow, fast, node, chain_index, counted_entries, result, stats>>
  BY DEF EndWalk
<1>2. /\ i \in Buckets /\ i \in Nat /\ i + 1 \in 0 .. BucketCount
      /\ Acyclic(i) /\ SoundUpTo(i)
      /\ Cardinality(ChainOf(i)) = chain_index
      /\ counted_entries = Cardinality(Chained(i)) + chain_index
      /\ \A n \in ChainOf(i) : Sound(n, i)
  BY <1>1, WalkFacts DEF IInv, Walking, Passed
<1>3. SoundUpTo(i + 1)
  BY <1>2 DEF SoundUpTo, ChainSound, Buckets
<1>4. counted_entries = Cardinality(Chained(i + 1))
  BY <1>2, <1>3, ChainedNext DEF IInv
<1>5. HeapOK' /\ StateOK'
  BY <1>1, <1>2, SameHeap DEF IInv, StateOK
<1>6. Passed'
  BY <1>1, <1>3, <1>4, SameHeap DEF Passed
<1>7. QED
  BY <1>1, <1>5, <1>6
     DEF IInv, Racing, Walking, Judged, Measured,
         AcceptsExactlySoundTables, FirstErrorReported, StatsExact

\* All chains are sound, so that the number of nodes decides.
LEMMA CheckSizeSound ==
  ASSUME IInv, CheckSize
  PROVE  IInv'
<1>1. /\ pc = "next_bucket" /\ i = BucketCount /\ pc' = "validated"
      /\ UNCHANGED heapVars
      /\ UNCHANGED <<i, slow, fast, node, chain_index, counted_entries, stats>>
      /\ \/ counted_entries # size
              /\ result' = Result(FALSE, "SIZE_MISMATCH", 0, counted_entries)
         \/ counted_entries = size /\ result' = Result(TRUE, "OK", 0, 0)
  BY DEF CheckSize, Report, loopVars
<1>2. SoundUpTo(BucketCount) /\ counted_entries = Cardinality(Chained(BucketCount))
  BY <1>1 DEF IInv, Passed
<1>3. \A b \in Buckets : ChainSound(b)
  BY <1>2, NodeCount DEF SoundUpTo, Buckets
<1>4. counted_entries = Cardinality(UNION {ChainOf(b) : b \in Buckets})
  BY <1>2, ChainedBounds
<1>5. HeapOK' /\ StateOK'
  BY <1>1, SameHeap DEF IInv, StateOK
<1>6. /\ (\A b \in Buckets : ChainSound(b))'
      /\ (UNION {ChainOf(b) : b \in Buckets})' = UNION {ChainOf(b) : b \in Buckets}
      /\ size' = size
  BY <1>1, <1>3, SameHeap DEF heapVars
<1>7. /\ result'.valid <=> counted_entries = size
      /\ ~result'.valid => result'.error = "SIZE_MISMATCH"
  BY <1>1 DEF Result
<1>8. AcceptsExactlySoundTables'
  BY <1>4, <1>6, <1>7 DEF AcceptsExactlySoundTables
<1>9. FirstErrorReported'
  BY <1>6, <1>7 DEF FirstErrorReported
<1>10. QED
  BY <1>1, <1>5, <1>8, <1>9
     DEF IInv, Passed, Racing, Walking, Judged, Measured, StatsExact

-----------------------------------------------------------------------------
(* The steps of stats.                                                     *)

\* stats starts with an accepted table and nothing measured.
LEMMA BeginStatsSound ==
  ASSUME IInv, BeginStats
  PROVE  IInv'
<1>1. /\ pc = "validated" /\ result.valid /\ pc' = "stats_bucket" /\ i' = 0
      /\ stats' = [ZeroStats EXCEPT !.entries = size, !.capacity = BucketCount]
      /\ UNCHANGED heapVars
      /\ UNCHANGED <<slow, fast, node, chain_index, counted_entries, result>>
  BY DEF BeginStats
<1>2. stats' = [entries |-> size, capacity |-> BucketCount, used_buckets |-> 0,
                empty_buckets |-> 0, longest_chain |-> 0, collisions |-> 0]
  BY <1>1 DEF ZeroStats
<1>3. HeapOK' /\ StateOK'
  BY <1>1, <1>2, NodeCount, SameHeap DEF IInv, HeapOK, StateOK
<1>4. SoundUpTo(BucketCount) /\ size = Cardinality(Chained(BucketCount))
  BY <1>1, ChainedBounds DEF IInv, AcceptsExactlySoundTables, SoundUpTo
<1>5. Judged'
  BY <1>1, <1>4, SameHeap DEF Judged, heapVars
<1>6. Measured'
  <2>1. Used(0)' = {} /\ Cardinality({}) = 0
    BY FS_EmptySet DEF Used
  <2>2. Cardinality(Chained(0)') = 0
    BY <1>1, ChainedBounds, SameHeap
  <2>3. LongestOf(0, 0)'
    BY DEF LongestOf
  <2>4. /\ Cardinality(Used(i)') = 0 /\ Cardinality(Chained(i)') = 0
        /\ LongestOf(0, i)'
    BY <1>1, <2>1, <2>2, <2>3
  <2>5. /\ stats'.entries = size' /\ stats'.capacity = BucketCount
        /\ stats'.used_buckets = 0 /\ stats'.empty_buckets = 0
        /\ stats'.collisions = 0 /\ stats'.longest_chain = 0
    <3>1. size' = size
      BY <1>1 DEF heapVars
    <3>2. QED
      BY <1>2, <3>1
  <2>6. 0 = i' - 0 /\ 0 = 0 - 0
    BY <1>1
  <2>7. QED
    BY <2>4, <2>5, <2>6 DEF Measured
<1>7. QED
  BY <1>1, <1>3, <1>5, <1>6
     DEF IInv, Passed, Racing, Walking,
         AcceptsExactlySoundTables, FirstErrorReported, StatsExact

\* The measures of the first chains stay what they are while the heap does.
LEMMA SameMeasures ==
  ASSUME UNCHANGED heapVars
  PROVE  /\ \A k : Used(k)' = Used(k)
         /\ \A length, k : LongestOf(length, k)' = LongestOf(length, k)
BY SameHeap DEF Used, LongestOf

\* The walk that measures a chain starts at its head.
LEMMA BeginChainSound ==
  ASSUME IInv, BeginChain
  PROVE  IInv'
<1>1. /\ pc = "stats_bucket" /\ i < BucketCount /\ pc' = "measure"
      /\ node' = buckets[i] /\ chain_index' = 0
      /\ UNCHANGED heapVars
      /\ UNCHANGED <<i, slow, fast, counted_entries, result, stats>>
  BY DEF BeginChain
<1>2. HeapOK' /\ StateOK'
  BY <1>1, SameHeap DEF IInv, StateOK
<1>3. Walking'
  BY <1>1, InBucket, SameHeap DEF Walking
<1>4. Judged' /\ Measured'
  BY <1>1, SameHeap, SameMeasures DEF IInv, Judged, Measured, heapVars
<1>5. QED
  BY <1>1, <1>2, <1>3, <1>4
     DEF IInv, Passed, Racing,
         AcceptsExactlySoundTables, FirstErrorReported, StatsExact

\* The walk has passed one more node.
LEMMA MeasureSound ==
  ASSUME IInv, Measure
  PROVE  IInv'
<1>1. /\ pc = "measure" /\ pc' = pc /\ node # NULL
      /\ node' = next[node] /\ chain_index' = chain_index + 1
      /\ UNCHANGED heapVars
      /\ UNCHANGED <<i, slow, fast, counted_entries, result, stats>>
  BY DEF Measure
<1>2. /\ i < BucketCount /\ chain_index \in Nat
      /\ node = Path(i)[chain_index] /\ next[node] = Path(i)[chain_index + 1]
      /\ \A m \in 0 .. chain_index - 1 : Path(i)[m] # NULL
  BY <1>1, WalkFacts
<1>3. HeapOK' /\ StateOK'
  BY <1>1, <1>2, SameHeap DEF IInv, StateOK
<1>4. Walking'
  <2>1. \A m \in 0 .. chain_index' - 1 : m \in 0 .. chain_index - 1 \/ m = chain_index
    BY <1>1, <1>2
  <2>2. \A m \in 0 .. chain_index' - 1 : Path(i)[m] # NULL
    BY <1>1, <1>2, <2>1
  <2>3. QED
    BY <1>1, <1>2, <2>2, SameHeap DEF Walking
<1>5. Judged' /\ Measured'
  BY <1>1, SameHeap, SameMeasures DEF IInv, Judged, Measured, heapVars
<1>6. QED
  BY <1>1, <1>3, <1>4, <1>5
     DEF IInv, Passed, Racing,
         AcceptsExactlySoundTables, FirstErrorReported, StatsExact

\* What one more chain adds to the measures.
LEMMA OneMoreChain ==
  ASSUME HeapOK, NEW k \in Buckets, SoundUpTo(k + 1),
         NEW length \in Nat, length = Cardinality(ChainOf(k)),
         NEW longest \in Nat, LongestOf(longest, k)
  PROVE  /\ Cardinality(Used(k)) \in Nat /\ Cardinality(Used(k)) <= k
         /\ Cardinality(Chained(k)) \in Nat
         /\ Cardinality(Chained(k + 1)) = Cardinality(Chained(k)) + length
         /\ Cardinality(Used(k + 1)) =
              IF length = 0 THEN Cardinality(Used(k)) ELSE Cardinality(Used(k)) + 1
         /\ LongestOf(IF length > longest THEN length ELSE longest, k + 1)
<1>1. /\ k \in Nat /\ k \in 0 .. BucketCount
      /\ 0 .. (k + 1) - 1 = (0 .. k - 1) \cup {k} /\ k \notin 0 .. k - 1
      /\ \A c \in 0 .. k : c \in Buckets
  BY NodeCount DEF Buckets
<1>2. IsFiniteSet(Used(k)) /\ Cardinality(Used(k)) \in Nat /\ Cardinality(Used(k)) <= k
  <2>1. IsFiniteSet(0 .. k - 1) /\ Cardinality(0 .. k - 1) = k
    <3>1. 0 \in Int /\ k - 1 \in Int
      BY <1>1
    <3>2. /\ IsFiniteSet(0 .. k - 1)
          /\ Cardinality(0 .. k - 1) = IF 0 > k - 1 THEN 0 ELSE (k - 1) - 0 + 1
      BY <3>1, FS_Interval
    <3>3. QED
      BY <1>1, <3>2
  <2>2. Used(k) \in SUBSET (0 .. k - 1)
    BY DEF Used
  <2>3. QED
    BY <2>1, <2>2, FS_Subset, FS_CardinalityType
<1>3. Cardinality(Chained(k)) \in Nat
  BY <1>1, ChainedFacts
<1>4. Cardinality(Chained(k + 1)) = Cardinality(Chained(k)) + length
  BY ChainedNext
<1>5. length = 0 <=> ChainOf(k) = {}
  BY ChainNodes, FS_EmptySet
<1>6. Cardinality(Used(k + 1)) =
        IF length = 0 THEN Cardinality(Used(k)) ELSE Cardinality(Used(k)) + 1
  <2>1. CASE length = 0
    <3>1. Used(k + 1) = Used(k)
      BY <1>1, <1>5, <2>1 DEF Used
    <3>2. QED
      BY <2>1, <3>1
  <2>2. CASE length # 0
    <3>1. Used(k + 1) = Used(k) \cup {k} /\ k \notin Used(k)
      BY <1>1, <1>5, <2>2 DEF Used
    <3>2. QED
      BY <1>2, <2>2, <3>1, FS_AddElement
  <2>3. QED
    BY <2>1, <2>2
<1>7. LongestOf(IF length > longest THEN length ELSE longest, k + 1)
  <2>1. \A c \in 0 .. k - 1 : Cardinality(ChainOf(c)) \in Nat
    BY <1>1, ChainNodes
  <2>2. QED
    BY <1>1, <2>1 DEF LongestOf
<1>8. QED
  BY <1>2, <1>3, <1>4, <1>6, <1>7

\* A chain walked to its end adds its length to the statistics.
LEMMA EndChainSound ==
  ASSUME IInv, EndChain
  PROVE  IInv'
<1>1. /\ pc = "measure" /\ node = NULL /\ pc' = "stats_bucket" /\ i' = i + 1
      /\ stats' = WithChain(stats, chain_index)
      /\ UNCHANGED heapVars
      /\ UNCHANGED <<slow, fast, node, chain_index, counted_entries, result>>
  BY DEF EndChain
<1> DEFINE s == stats
           n == chain_index
           longest == IF n > s.longest_chain THEN n ELSE s.longest_chain
<1>2. /\ i \in Buckets /\ i \in Nat /\ i + 1 \in 0 .. BucketCount
      /\ n \in Nat /\ n = Cardinality(ChainOf(i))
      /\ SoundUpTo(BucketCount)
      /\ s \in [entries : Nat, capacity : Nat, used_buckets : Nat,
                empty_buckets : Nat, longest_chain : Nat, collisions : Nat]
      /\ Measured
  BY <1>1, WalkFacts DEF IInv, Judged, StateOK
<1>3. SoundUpTo(i + 1)
  BY <1>2, NodeCount DEF SoundUpTo, Buckets
<1>4. /\ s.entries = size /\ s.capacity = BucketCount
      /\ s.used_buckets = Cardinality(Used(i))
      /\ s.empty_buckets = i - s.used_buckets
      /\ s.collisions = Cardinality(Chained(i)) - s.used_buckets
      /\ LongestOf(s.longest_chain, i)
  BY <1>1, <1>2 DEF Measured
<1>5. /\ Cardinality(Used(i)) \in Nat /\ Cardinality(Chained(i)) \in Nat
      /\ Cardinality(Chained(i + 1)) = Cardinality(Chained(i)) + n
      /\ Cardinality(Used(i + 1)) =
           IF n = 0 THEN Cardinality(Used(i)) ELSE Cardinality(Used(i)) + 1
      /\ LongestOf(longest, i + 1)
  BY <1>2, <1>3, <1>4, OneMoreChain DEF IInv
<1>6. stats' = [entries |-> s.entries, capacity |-> s.capacity,
                used_buckets |-> IF n = 0 THEN s.used_buckets ELSE s.used_buckets + 1,
                empty_buckets |-> IF n = 0 THEN s.empty_buckets + 1 ELSE s.empty_buckets,
                longest_chain |-> longest,
                collisions |-> IF n > 1 THEN s.collisions + (n - 1) ELSE s.collisions]
  <2>1. CASE n = 0
    BY <1>1, <1>2, <2>1 DEF WithChain
  <2>2. CASE n # 0
    BY <1>1, <1>2, <2>2 DEF WithChain
  <2>3. QED
    BY <2>1, <2>2
<1>7. HeapOK' /\ StateOK'
  BY <1>1, <1>2, <1>6, SameHeap DEF IInv, StateOK
<1>8. Judged'
  BY <1>1, SameHeap DEF IInv, Judged, heapVars
<1>9. Measured'
  <2>1. /\ stats'.entries = size /\ stats'.capacity = BucketCount
        /\ stats'.used_buckets = Cardinality(Used(i + 1))
        /\ stats'.longest_chain = longest
    BY <1>4, <1>5, <1>6
  <2>2. stats'.empty_buckets = (i + 1) - stats'.used_buckets
    BY <1>2, <1>4, <1>5, <1>6
  <2>3. stats'.collisions = Cardinality(Chained(i + 1)) - stats'.used_buckets
    BY <1>2, <1>4, <1>5, <1>6
  <2> HIDE DEF longest
  <2>4. PICK k, l : k = i + 1 /\ l = longest
    OBVIOUS
  <2>5. /\ Used(k)' = Used(k) /\ Chained(k)' = Chained(k) /\ LongestOf(l, k)'
        /\ size' = size /\ i' = k
    <3>1. size' = size
      BY <1>1 DEF heapVars
    <3>2. QED
      BY <1>1, <1>5, <2>4, <3>1, SameHeap, SameMeasures
  <2>6. /\ stats'.used_buckets = Cardinality(Used(k)')
        /\ stats'.longest_chain = l
        /\ stats'.empty_buckets = k - stats'.used_buckets
        /\ stats'.collisions = Cardinality(Chained(k)') - stats'.used_buckets
    BY <2>1, <2>2, <2>3, <2>4, <2>5
  <2>7. QED
    BY <2>1, <2>5, <2>6 DEF Measured
<1>10. QED
  BY <1>1, <1>7, <1>8, <1>9
     DEF IInv, Passed, Racing, Walking,
         AcceptsExactlySoundTables, FirstErrorReported, StatsExact

\* The last bucket has been measured.
LEMMA EndStatsSound ==
  ASSUME IInv, EndStats
  PROVE  IInv'
<1>1. /\ pc = "stats_bucket" /\ i = BucketCount /\ pc' = "collected"
      /\ UNCHANGED heapVars
      /\ UNCHANGED <<i, slow, fast, node, chain_index, counted_entries, result, stats>>
  BY DEF EndStats, loopVars
<1>2. HeapOK' /\ StateOK'
  BY <1>1, SameHeap DEF IInv, StateOK
<1>3. Judged'
  BY <1>1, SameHeap DEF IInv, Judged, heapVars
<1>4. /\ stats.entries = size /\ stats.capacity = BucketCount
      /\ stats.used_buckets = Cardinality(Used(BucketCount))
      /\ stats.empty_buckets = BucketCount - stats.used_buckets
      /\ stats.collisions = size - stats.used_buckets
      /\ LongestOf(stats.longest_chain, BucketCount)
      /\ stats.longest_chain \in Nat
  BY <1>1 DEF IInv, Judged, Measured, StateOK
<1>5. Used(BucketCount) = {b \in Buckets : ChainOf(b) # {}}
  BY DEF Used, Buckets
<1>6. stats.longest_chain = Max({Cardinality(ChainOf(b)) : b \in Buckets})
  <2> DEFINE L == {Cardinality(ChainOf(b)) : b \in Buckets}
             l == stats.longest_chain
  <2>1. 0 \in Buckets /\ \A b \in Buckets : b \in 0 .. BucketCount - 1
    BY NodeCount DEF Buckets
  <2>2. \A b \in Buckets : Cardinality(ChainOf(b)) \in Nat /\ Cardinality(ChainOf(b)) <= l
    BY <1>4, <2>1, ChainNodes DEF LongestOf, IInv
  <2>3. l \in L
    BY <1>4, <2>1, <2>2 DEF LongestOf, Buckets
  <2>4. \A x \in L : x \in Nat /\ x <= l
    BY <2>2
  <2> HIDE DEF L, l
  <2>5. \A x \in L : (\A y \in L : x >= y) => x = l
    BY <2>3, <2>4
  <2>6. Max(L) = l
    BY <2>3, <2>4, <2>5 DEF Max
  <2>7. QED
    BY <2>6 DEF L, l
<1>7. StatsExact'
  <2>1. /\ stats' = stats
        /\ {b \in Buckets : ChainOf(b) # {}}' = {b \in Buckets : ChainOf(b) # {}}
        /\ {Cardinality(ChainOf(b)) : b \in Buckets}'
             = {Cardinality(ChainOf(b)) : b \in Buckets}
    <3>1. \A b : ChainOf(b)' = ChainOf(b)
      BY <1>1, SameHeap
    <3>2. QED
      BY <1>1, <3>1
  <2>2. QED
    BY <1>4, <1>5, <1>6, <2>1 DEF StatsExact
<1>8. QED
  BY <1>1, <1>2, <1>3, <1>7
     DEF IInv, Passed, Racing, Walking, Measured,
         AcceptsExactlySoundTables, FirstErrorReported

-----------------------------------------------------------------------------
(* The theorems.                                                           *)

\* Every step of validate and of stats preserves the inductive invariant.
THEOREM IInvInductive == IInv /\ [Next]_vars => IInv'
<1> SUFFICES ASSUME IInv, [Next]_vars PROVE IInv'
  OBVIOUS
<1>1. CASE ValidateStep
  BY <1>1, BeginBucketSound, RaceSound, BeginWalkSound, RejectNodeSound,
     AcceptNodeSound, EndWalkSound, CheckSizeSound DEF ValidateStep
<1>2. CASE StatsStep
  BY <1>2, BeginStatsSound, BeginChainSound, MeasureSound, EndChainSound,
     EndStatsSound DEF StatsStep
<1>3. CASE UNCHANGED vars
  <2>1. UNCHANGED heapVars
    BY <1>3 DEF vars
  <2>2. HeapOK' /\ StateOK' /\ Passed' /\ Racing' /\ Walking'
    BY <1>3, <2>1, SameHeap
       DEF vars, loopVars, IInv, StateOK, Passed, Racing, Walking
  <2>3. Judged' /\ Measured'
    BY <1>3, <2>1, SameHeap, SameMeasures
       DEF vars, heapVars, loopVars, IInv, Judged, Measured
  <2>4. pc' = pc /\ result' = result /\ stats' = stats /\ size' = size
    BY <1>3 DEF vars, heapVars
  <2>5. AcceptsExactlySoundTables'
    BY <2>1, <2>4, SameHeap DEF IInv, AcceptsExactlySoundTables
  <2>6. FirstErrorReported'
    BY <2>1, <2>4, SameHeap DEF IInv, FirstErrorReported
  <2>7. StatsExact'
    <3>1. \A b : ChainOf(b)' = ChainOf(b)
      BY <2>1, SameHeap
    <3>2. QED
      BY <2>4, <3>1 DEF IInv, StatsExact
  <2>8. QED
    BY <2>2, <2>3, <2>5, <2>6, <2>7 DEF IInv
<1>4. QED
  BY <1>1, <1>2, <1>3 DEF Next

\* The inductive invariant holds in every state of the specification.
THEOREM SpecIInv == Spec => []IInv
<1>1. QED
  BY InitSound, IInvInductive, PTL DEF Spec

\* validate accepts exactly the tables whose chains end, hold sound nodes of
\* their own bucket only and together have size nodes, whatever the heap.
THEOREM SpecAcceptsExactlySoundTables == Spec => []AcceptsExactlySoundTables
<1>1. IInv => AcceptsExactlySoundTables
  BY DEF IInv
<1>2. QED
  BY <1>1, SpecIInv, PTL

\* The error that validate reports is the first there is, in bucket and chain
\* order, and the indices lead to it.
THEOREM SpecFirstErrorReported == Spec => []FirstErrorReported
<1>1. IInv => FirstErrorReported
  BY DEF IInv
<1>2. QED
  BY <1>1, SpecIInv, PTL

\* The statistics collected of a table that validate has accepted are exact.
THEOREM SpecStatsExact == Spec => []StatsExact
<1>1. IInv => StatsExact
  BY DEF IInv
<1>2. QED
  BY <1>1, SpecIInv, PTL
-----------------------------------------------------------------------------
(* Both calls end. A step brings a call nearer to its end: to a later one, *)
(* to a later bucket, to a later loop of the bucket, or, inside the loop,  *)
(* nearer to where the race or the walk is over.                           *)

\* The race of a slow path s and a fast path f is over after n steps.
Decided(s, f, n) ==
  f[2 * n] = NULL \/ f[2 * n + 1] = NULL \/ (n > 0 /\ s[n] = f[2 * n])

RaceLeft(first, second, nx) ==
  Min({n \in Nat : Decided(PathFrom(first, nx), PathFrom(second, nx), n)})

Stage == CASE pc \in {"next_bucket", "cycle_check", "walk"} -> 3
           [] pc = "validated"                              -> 2
           [] pc \in {"stats_bucket", "measure"}            -> 1
           [] OTHER                                         -> 0

Phase == CASE pc \in {"next_bucket", "stats_bucket"} -> 2
           [] pc = "cycle_check"                     -> 1
           [] OTHER                                  -> 0

Left == CASE pc = "cycle_check"         -> RaceLeft(slow, fast, next)
          [] pc \in {"walk", "measure"} -> Cardinality(ChainOf(i)) - chain_index
          [] OTHER                      -> 0

\* How far the calls are from their end, most significant first.
Rank == [c \in 1 .. 4 |-> IF c = 1 THEN Stage
                          ELSE IF c = 2 THEN BucketCount - i
                          ELSE IF c = 3 THEN Phase ELSE Left]

Ranks  == [1 .. 4 -> Nat]
Nearer == LexProductOrdering(OpToRel(<, Nat), Nat, 4)

RankFalls == <<Rank', Rank>> \in Nearer

\* There is no endless descent.
LEMMA NearerWellFounded == IsWellFoundedOn(Nearer, Ranks)
BY NatLessThanWellFounded, WFLexProductOrdering DEF Nearer, Ranks

\* Two paths with a pointer in common go on in the same way from there.
LEMMA OnePath ==
  ASSUME NEW nx, NEW v, IsPath(v, nx), NEW w, IsPath(w, nx),
         NEW m \in Nat, w[m] = v[0]
  PROVE  \A n \in Nat : v[n] = w[m + n]
<1> DEFINE S == {n \in Nat : v[n] = w[m + n]}
<1>1. 0 \in S
  OBVIOUS
<1>2. ASSUME NEW n \in Nat, n \in S
      PROVE  n + 1 \in S
  <2>1. v[n + 1] = w[(m + n) + 1]
    BY <1>2 DEF IsPath
  <2>2. QED
    BY <2>1
<1>3. \A n \in Nat : n \in S
  <2> HIDE DEF S
  <2>1. QED
    BY <1>1, <1>2, AllNaturals
<1>4. QED
  BY <1>3

\* The path from a pointer on a path is the rest of that path.
LEMMA RestOfPath ==
  ASSUME NEW nx \in [Nodes -> Pointers], NEW w, IsPath(w, nx), NEW m \in Nat
  PROVE  /\ IsPath(PathFrom(w[m], nx), nx)
         /\ \A n \in Nat : PathFrom(w[m], nx)[n] = w[m + n]
<1>1. w[m] \in Pointers
  BY DEF IsPath
<1>2. \E v : IsPath(v, nx) /\ v[0] = w[m]
  BY <1>1, PathExists
<1>3. IsPath(PathFrom(w[m], nx), nx) /\ PathFrom(w[m], nx)[0] = w[m]
  BY <1>2 DEF PathFrom
<1>4. QED
  BY <1>3, OnePath

\* A path without an end has a pointer at some place n that it has at 2n too:
\* once it has come back to a node it goes round and round.
LEMMA MeetingPoint ==
  ASSUME NEW nx, NEW w, IsPath(w, nx), \A n \in Nat : w[n] # NULL, NEW k \in Nat
  PROVE  \E n \in Nat : n > k /\ w[n] = w[2 * n]
<1> DEFINE N == Cardinality(Nodes)
           f == [n \in 0 .. N |-> w[n]]
<1>1. N \in Nat /\ IsFiniteSet(Nodes)
  BY NodeCount
<1> HIDE DEF N
<1>2. f \in [0 .. N -> Nodes]
  BY <1>1 DEF IsPath, Pointers
<1>3. IsFiniteSet(0 .. N) /\ Cardinality(0 .. N) = N + 1
  BY <1>1, FS_Interval
<1> HIDE DEF f
<1>4. \E x, y \in 0 .. N : x # y /\ f[x] = f[y]
  BY <1>1, <1>2, <1>3, FS_PigeonHole DEF N
<1>5. PICK x, y \in Nat : x < y /\ w[x] = w[y]
  BY <1>1, <1>4 DEF f
<1> DEFINE d == y - x
<1>6. d \in Nat \ {0} /\ x + d = y
  BY <1>5
<1>7. \A n \in Nat : n >= x => w[n + d] = w[n]
  <2> TAKE n \in Nat
  <2> HAVE n >= x
  <2>1. n - x \in Nat /\ x + (n - x) = n /\ y + (n - x) = n + d
    BY <1>6
  <2>2. w[x + (n - x)] = w[y + (n - x)]
    BY <1>5, <2>1, SameTail
  <2>3. QED
    BY <2>1, <2>2
<1> HIDE DEF d
<1>8. ASSUME NEW n \in Nat, n >= x
      PROVE  \A q \in Nat : w[n + d * q] = w[n]
  <2> DEFINE S == {q \in Nat : w[n + d * q] = w[n]}
  <2>1. 0 \in S
    BY <1>6
  <2>2. ASSUME NEW q \in Nat, q \in S
        PROVE  q + 1 \in S
    <3>1. d * q \in Nat /\ n + d * (q + 1) = (n + d * q) + d
      BY <1>6
    <3>2. w[(n + d * q) + d] = w[n + d * q]
      BY <1>7, <1>8, <3>1
    <3>3. QED
      BY <2>2, <3>1, <3>2
  <2>3. \A q \in Nat : q \in S
    <3> HIDE DEF S
    <3>1. QED
      BY <2>1, <2>2, AllNaturals
  <2>4. QED
    BY <2>3
<1> DEFINE q == k + 1 + x
           n == d * q
<1>9. q \in Nat /\ n \in Nat /\ n >= q
  <2>1. q \in Nat
    OBVIOUS
  <2> HIDE DEF q
  <2>2. n = q + (d - 1) * q /\ (d - 1) * q \in Nat
    BY <1>6, <2>1
  <2>3. QED
    BY <2>1, <2>2
<1>10. n >= x /\ n > k
  <2>1. q >= x /\ q > k
    OBVIOUS
  <2> HIDE DEF n, q
  <2>2. QED
    BY <1>9, <2>1
<1>11. w[n + d * q] = w[n] /\ n + d * q = 2 * n
  <2>1. n + d * q = 2 * n
    BY <1>9
  <2> HIDE DEF q
  <2>2. w[n + d * q] = w[n]
    BY <1>8, <1>9, <1>10
  <2>3. QED
    BY <2>1, <2>2
<1> HIDE DEF n, q
<1>12. QED
  BY <1>9, <1>10, <1>11
\* The race is over when the fast pointer, n steps from place 2k of the path,
\* is at its end, or is where the slow one is, n steps from place k.
Over(w, k, n) ==
  \/ w[2 * (k + n)] = NULL \/ w[2 * (k + n) + 1] = NULL
  \/ n > 0 /\ w[k + n] = w[2 * (k + n)]

\* Every race is over after a number of steps, and RaceLeft is the least.
LEMMA RaceLeftFacts ==
  ASSUME NEW nx \in [Nodes -> Pointers], NEW w, IsPath(w, nx), NEW k \in Nat,
         NEW left, left = RaceLeft(w[k], w[2 * k], nx)
  PROVE  /\ left \in Nat /\ Over(w, k, left)
         /\ \A n \in Nat : Over(w, k, n) => left <= n
<1> DEFINE s == PathFrom(w[k], nx)
           f == PathFrom(w[2 * k], nx)
           D == {n \in Nat : Decided(s, f, n)}
<1>1. \A n \in Nat : s[n] = w[k + n] /\ f[n] = w[2 * k + n]
  <2>1. 2 * k \in Nat
    OBVIOUS
  <2>2. QED
    BY <2>1, RestOfPath
<1>2. \A n \in Nat : Decided(s, f, n) <=> Over(w, k, n)
  <2> TAKE n \in Nat
  <2>1. /\ 2 * n \in Nat /\ 2 * n + 1 \in Nat
        /\ 2 * k + 2 * n = 2 * (k + n) /\ 2 * k + (2 * n + 1) = 2 * (k + n) + 1
    OBVIOUS
  <2>2. /\ s[n] = w[k + n] /\ f[2 * n] = w[2 * (k + n)]
        /\ f[2 * n + 1] = w[2 * (k + n) + 1]
    BY <1>1, <2>1
  <2>3. QED
    BY <2>2 DEF Decided, Over
<1>3. \E n \in Nat : Over(w, k, n)
  <2>1. CASE \A n \in Nat : w[n] # NULL
    <3>1. PICK n \in Nat : n > k /\ w[n] = w[2 * n]
      BY <2>1, MeetingPoint
    <3>2. n - k \in Nat /\ n - k > 0 /\ k + (n - k) = n
      BY <3>1
    <3>3. QED
      BY <3>1, <3>2 DEF Over
  <2>2. CASE \E n \in Nat : w[n] = NULL
    <3>1. PICK n \in Nat : w[n] = NULL
      BY <2>2
    <3>2. 2 * (k + n) \in Nat /\ 2 * (k + n) >= n
      OBVIOUS
    <3>3. w[2 * (k + n)] = NULL
      BY <3>1, <3>2, NullStays
    <3>4. QED
      BY <3>3 DEF Over
  <2>3. QED
    BY <2>1, <2>2
<1>4. D # {} /\ left = Min(D)
  BY <1>2, <1>3 DEF RaceLeft
<1>5. left \in D /\ \A n \in D : left <= n
  <2> HIDE DEF D
  <2>1. D \in SUBSET Nat
    BY DEF D
  <2>2. QED
    BY <1>4, <2>1, MinOfNats
<1>6. QED
  BY <1>2, <1>5

\* One step of a race that goes on.
LEMMA RaceNearer ==
  ASSUME NEW nx \in [Nodes -> Pointers], NEW w, IsPath(w, nx), NEW k \in Nat,
         w[2 * k] # NULL, w[2 * k + 1] # NULL, w[k + 1] # w[2 * (k + 1)]
  PROVE  RaceLeft(w[k + 1], w[2 * (k + 1)], nx) < RaceLeft(w[k], w[2 * k], nx)
<1> DEFINE l == RaceLeft(w[k], w[2 * k], nx)
           m == RaceLeft(w[k + 1], w[2 * (k + 1)], nx)
<1>1. l \in Nat /\ Over(w, k, l)
  BY RaceLeftFacts
<1>2. m \in Nat /\ \A n \in Nat : Over(w, k + 1, n) => m <= n
  <2>1. k + 1 \in Nat
    OBVIOUS
  <2>2. QED
    BY <2>1, RaceLeftFacts
<1> HIDE DEF l, m
<1>3. l # 0
  <2>1. ~Over(w, k, 0)
    <3>1. k + 0 = k
      OBVIOUS
    <3>2. QED
      BY <3>1 DEF Over
  <2>2. QED
    BY <1>1, <2>1
<1>4. l - 1 \in Nat /\ (k + 1) + (l - 1) = k + l
  BY <1>1, <1>3
<1>5. Over(w, k + 1, l - 1)
  <2>1. CASE l - 1 > 0
    BY <1>1, <1>4, <2>1 DEF Over
  <2>2. CASE l = 1
    BY <1>1, <1>4, <2>2 DEF Over
  <2>3. QED
    BY <1>1, <1>4, <2>1, <2>2
<1>6. m <= l - 1
  BY <1>2, <1>4, <1>5
<1>7. QED
  BY <1>1, <1>2, <1>6 DEF l, m

\* The place of the walk is not past the end of the chain.
LEMMA WalkLeft ==
  ASSUME IInv, pc \in {"walk", "measure"}
  PROVE  /\ Cardinality(ChainOf(i)) \in Nat /\ chain_index \in Nat
         /\ chain_index <= Cardinality(ChainOf(i))
         /\ node # NULL => chain_index < Cardinality(ChainOf(i))
<1>1. /\ i \in Buckets /\ i < BucketCount /\ chain_index \in Nat
      /\ node = Path(i)[chain_index]
      /\ \A m \in 0 .. chain_index - 1 : Path(i)[m] # NULL
  BY WalkFacts
<1>2. Acyclic(i)
  BY <1>1 DEF IInv, Walking, Judged, SoundUpTo, ChainSound
<1>3. PICK n \in Nat : /\ Path(i)[n] = NULL
                       /\ \A m \in 0 .. n - 1 : Path(i)[m] # NULL
  BY <1>1, <1>2, AcyclicPath DEF IInv
<1>4. Cardinality(ChainOf(i)) = n
  BY <1>1, <1>3, ChainLength DEF IInv
<1>5. chain_index <= n
  BY <1>1, <1>3
<1>6. node # NULL => chain_index # n
  BY <1>1, <1>3
<1>7. QED
  BY <1>1, <1>4, <1>5, <1>6

\* The rank is a rank.
LEMMA RankType ==
  ASSUME IInv
  PROVE  /\ Stage \in Nat /\ BucketCount - i \in Nat /\ Phase \in Nat /\ Left \in Nat
         /\ Rank \in Ranks
<1>1. Stage \in Nat /\ Phase \in Nat
  BY DEF Stage, Phase
<1>2. BucketCount - i \in Nat
  BY NodeCount DEF IInv, StateOK
<1>3. Left \in Nat
  <2>1. CASE pc = "cycle_check"
    <3>1. PICK k \in Nat : slow = Path(i)[k] /\ fast = Path(i)[2 * k]
      BY <2>1 DEF IInv, Racing
    <3>2. IsPath(Path(i), next) /\ next \in [Nodes -> Pointers]
      BY <2>1, InBucket DEF IInv, Passed, HeapOK
    <3>3. RaceLeft(slow, fast, next) \in Nat
      BY <3>1, <3>2, RaceLeftFacts
    <3>4. QED
      BY <2>1, <3>3 DEF Left
  <2>2. CASE pc \in {"walk", "measure"}
    <3>1. Cardinality(ChainOf(i)) - chain_index \in Nat
      BY <2>2, WalkLeft
    <3>2. QED
      BY <2>2, <3>1 DEF Left
  <2>3. CASE pc \notin {"cycle_check", "walk", "measure"}
    BY <2>3 DEF Left
  <2>4. QED
    BY <2>1, <2>2, <2>3
<1>4. QED
  BY <1>1, <1>2, <1>3 DEF Rank, Ranks
\* The ways of getting nearer to the end.
LEMMA GetsNearer ==
  ASSUME IInv, Rank \in Ranks, Rank' \in Ranks,
         \/ Stage' < Stage
         \/ Stage' = Stage /\ i' = i + 1
         \/ Stage' = Stage /\ i' = i /\ Phase' < Phase
         \/ Stage' = Stage /\ i' = i /\ Phase' = Phase /\ Left' < Left
  PROVE  <<Rank', Rank>> \in Nearer
<1> DEFINE r == Rank
           s == Rank'
<1>1. /\ r[1] = Stage /\ r[2] = BucketCount - i /\ r[3] = Phase /\ r[4] = Left
      /\ s[1] = Stage' /\ s[2] = BucketCount - i' /\ s[3] = Phase' /\ s[4] = Left'
  BY DEF Rank
<1>2. r \in Ranks /\ s \in Ranks
  OBVIOUS
<1>3. i' = i + 1 => s[2] < r[2]
  BY <1>1, NodeCount DEF IInv, StateOK
<1>4. i' = i => s[2] = r[2]
  BY <1>1
<1> HIDE DEF r, s
<1>5. \E j \in 1 .. 4 : s[j] < r[j] /\ \A l \in 1 .. j - 1 : s[l] = r[l]
  <2>1. CASE Stage' < Stage
    BY <1>1, <2>1
  <2>2. CASE Stage' = Stage /\ i' = i + 1
    BY <1>1, <1>3, <2>2
  <2>3. CASE Stage' = Stage /\ i' = i /\ Phase' < Phase
    BY <1>1, <1>4, <2>3
  <2>4. CASE Stage' = Stage /\ i' = i /\ Phase' = Phase /\ Left' < Left
    BY <1>1, <1>4, <2>4
  <2>5. QED
    BY <2>1, <2>2, <2>3, <2>4
<1>6. <<s, r>> \in Nearer
  <2>1. \A j \in 1 .. 4 : <<s[j], r[j]>> \in OpToRel(<, Nat) <=> s[j] < r[j]
    BY <1>2 DEF OpToRel, Ranks
  <2>2. QED
    BY <1>2, <1>5, <2>1 DEF Nearer, LexProductOrdering, Ranks
<1>7. QED
  BY <1>6 DEF r, s

\* A step inside one of the loops.
LEMMA LoopStepNearer ==
  ASSUME IInv, Rank \in Ranks, Rank' \in Ranks, Race \/ AcceptNode \/ Measure, pc' = pc
  PROVE  <<Rank', Rank>> \in Nearer
<1>1. Stage' = Stage /\ Phase' = Phase
  BY DEF Stage, Phase
<1>2. i' = i /\ UNCHANGED heapVars
  BY DEF Race, AcceptNode, Measure
<1>3. CASE Race
  <2>1. PICK k \in Nat : /\ slow = Path(i)[k] /\ fast = Path(i)[2 * k]
                         /\ next[slow] = Path(i)[k + 1]
                         /\ next[next[fast]] = Path(i)[2 * (k + 1)]
    BY <1>3, RaceFacts DEF Race
  <2>2. /\ pc = "cycle_check" /\ CanRace
        /\ slow' = next[slow] /\ fast' = next[next[fast]] /\ slow' # fast'
    BY <1>3 DEF Race
  <2>3. /\ IsPath(Path(i), next) /\ next \in [Nodes -> Pointers] /\ 2 * k \in Nat
        /\ \A n \in Nat : Path(i)[n] # NULL => Path(i)[n + 1] = next[Path(i)[n]]
    BY <2>2, InBucket DEF IInv, Passed, HeapOK
  <2>4. Path(i)[2 * k] # NULL /\ Path(i)[2 * k + 1] # NULL
    BY <2>1, <2>2, <2>3 DEF CanRace
  <2>5. RaceLeft(slow', fast', next) < RaceLeft(slow, fast, next)
    <3>1. Path(i)[k + 1] # Path(i)[2 * (k + 1)]
      BY <2>1, <2>2
    <3>2. RaceLeft(Path(i)[k + 1], Path(i)[2 * (k + 1)], next)
            < RaceLeft(Path(i)[k], Path(i)[2 * k], next)
      BY <2>3, <2>4, <3>1, RaceNearer
    <3>3. QED
      BY <2>1, <2>2, <3>2
  <2>6. Left = RaceLeft(slow, fast, next) /\ Left' = RaceLeft(slow', fast', next')
    BY <2>2 DEF Left
  <2>7. next' = next
    BY <1>2 DEF heapVars
  <2>8. QED
    BY <1>1, <1>2, <2>5, <2>6, <2>7, GetsNearer
<1>4. CASE AcceptNode \/ Measure
  <2>1. pc \in {"walk", "measure"} /\ node # NULL /\ chain_index' = chain_index + 1
    BY <1>4 DEF AcceptNode, Measure
  <2>2. /\ Left = Cardinality(ChainOf(i)) - chain_index
        /\ Left' = Cardinality(ChainOf(i)') - chain_index'
    BY <2>1 DEF Left
  <2>3. ChainOf(i)' = ChainOf(i)
    <3>1. PICK b : b = i
      OBVIOUS
    <3>2. ChainOf(b)' = ChainOf(b)
      BY <1>2, SameHeap
    <3>3. QED
      BY <1>2, <3>1, <3>2
  <2>4. QED
    BY <1>1, <1>2, <2>1, <2>2, <2>3, WalkLeft, GetsNearer
<1>5. QED
  BY <1>3, <1>4

\* A step from one loop to another.
LEMMA NextLoopNearer ==
  ASSUME IInv, Rank \in Ranks, Rank' \in Ranks,
         \/ BeginBucket \/ BeginWalk \/ RejectNode \/ EndWalk \/ CheckSize
         \/ Race /\ pc' # pc
         \/ BeginStats \/ BeginChain \/ EndChain \/ EndStats
  PROVE  <<Rank', Rank>> \in Nearer
<1>1. CASE RejectNode \/ CheckSize \/ (Race /\ pc' # pc) \/ BeginStats \/ EndStats
  <2>1. \/ pc \in {"next_bucket", "cycle_check", "walk"} /\ pc' = "validated"
        \/ pc = "validated" /\ pc' = "stats_bucket"
        \/ pc = "stats_bucket" /\ pc' = "collected"
    BY <1>1 DEF RejectNode, CheckSize, Report, Race, BeginStats, EndStats
  <2>2. Stage' < Stage
    BY <2>1 DEF Stage
  <2>3. QED
    BY <2>2, GetsNearer
<1>2. CASE EndWalk \/ EndChain
  <2>1. i' = i + 1 /\ (\/ pc = "walk" /\ pc' = "next_bucket"
                       \/ pc = "measure" /\ pc' = "stats_bucket")
    BY <1>2 DEF EndWalk, EndChain
  <2>2. Stage' = Stage
    BY <2>1 DEF Stage
  <2>3. QED
    BY <2>1, <2>2, GetsNearer
<1>3. CASE BeginBucket \/ BeginWalk \/ BeginChain
  <2>1. i' = i /\ (\/ pc = "next_bucket" /\ pc' = "cycle_check"
                   \/ pc = "cycle_check" /\ pc' = "walk"
                   \/ pc = "stats_bucket" /\ pc' = "measure")
    BY <1>3 DEF BeginBucket, BeginWalk, BeginChain
  <2>2. Stage' = Stage /\ Phase' < Phase
    BY <2>1 DEF Stage, Phase
  <2>3. QED
    BY <2>1, <2>2, GetsNearer
<1>4. QED
  BY <1>1, <1>2, <1>3

\* The calls end, on every heap: each step brings them nearer to their end in
\* an order that has no endless descent. That they return, as CallsReturn
\* says, then is left to the thread that runs them.
THEOREM SpecCallsEnd ==
  /\ IsWellFoundedOn(Nearer, Ranks)
  /\ Spec => [](Rank \in Ranks) /\ [][RankFalls]_vars
<1>1. IInv => Rank \in Ranks
  BY RankType
<1>2. IInv /\ Rank \in Ranks /\ (Rank \in Ranks)' /\ [Next]_vars
        => [RankFalls]_vars
  <2>1. SUFFICES ASSUME IInv, Rank \in Ranks, Rank' \in Ranks, Next
                 PROVE  <<Rank', Rank>> \in Nearer
    BY DEF Ranks, RankFalls
  <2>2. AcceptNode \/ Measure => pc' = pc
    BY DEF AcceptNode, Measure
  <2>3. QED
    BY <2>1, <2>2, LoopStepNearer, NextLoopNearer
       DEF Next, ValidateStep, StatsStep
<1>3. QED
  BY <1>1, <1>2, SpecIInv, NearerWellFounded, PTL DEF Spec
=============================================================================
