----------------------------- MODULE ChainTable -----------------------------
(***************************************************************************)
(* The separate-chaining backend (src/cashash_chain.c) of a cashash table, *)
(* with its creation functions (src/cashash.c).                            *)
(*                                                                         *)
(* A public call is one step, except an insert that has to grow the table: *)
(* its rehash loop relinks the nodes one by one into a new bucket array,   *)
(* and each relinking is a step. The caller is suspended inside the insert *)
(* meanwhile (pc = "rehashing"), so no other call starts.                  *)
(***************************************************************************)
EXTENDS CashashTypes, Sequences, FiniteSets, FiniteSetsExt

SeqExt == INSTANCE SequencesExt

CONSTANTS
  Hash,        \* the configured hash function, key by key
  EmptyKeys,   \* the keys of length zero among Keys
  SizeMod,     \* size_t arithmetic is modulo SizeMod
  MaxBuckets,  \* the largest bucket array calloc can provide
  Requests     \* the bucket counts a caller asks for

ASSUME ConstantsAssumption ==
  /\ SizeMod \in Nat /\ MaxBuckets \in Nat
  /\ Requests \subseteq Nat
  /\ Hash \in [Keys -> 0 .. SizeMod - 1]
  /\ EmptyKeys \subseteq Keys

(***************************************************************************)
(* An array that fits in memory is too short for its doubled length or for *)
(* the products of the load test (lines 47-48) to wrap around: a bucket is *)
(* 8 bytes wide on a 64-bit machine.                                       *)
(***************************************************************************)
ASSUME NoLoadOverflow == (MaxBuckets + 1) * 4 < SizeMod

VARIABLES
  pc,            \* "none": no table, "idle": between calls, "rehashing"
  buckets,       \* chain->buckets: the list of nodes of each bucket
  bucket_count,  \* chain->bucket_count
  size,          \* chain->size
  new_buckets,   \* cashash_chain_insert: the array being filled
  cursor,        \* cashash_chain_insert: the index i of its loop
  pending,       \* the arguments of the insert that is rehashing
  key_copies,    \* history: key copies made and not yet destroyed
  ret            \* history: the reply to the last call

tableVars  == <<buckets, bucket_count, size, key_copies>>
rehashVars == <<new_buckets, cursor, pending>>
vars == <<pc, tableVars, rehashVars, ret>>

Node == [key : Keys, hash : 0 .. SizeMod - 1, value : Values]

NodeOf(k, v) == [key |-> k, hash |-> Hash[k], value |-> v]

Calloc(n) == [b \in 0 .. n - 1 |-> <<>>]
NoArray   == Calloc(0)

\* The places of an array at which there is a node, and the nodes.
Places(array) == UNION {{b} \X DOMAIN array[b] : b \in DOMAIN array}
Nodes(array)  == {array[p[1]][p[2]] : p \in Places(array)}

\* The bucket of k, and where in its chain k is: 0 if it is not there.
Index(k) == Hash[k] % bucket_count

\* Mutant: the search looks at the head of the chain only.
PositionHeadOnly(k) ==
  IF buckets[Index(k)] # <<>> /\ buckets[Index(k)][1].key = k THEN 1 ELSE 0

Position(k) ==
  LET matches == {i \in DOMAIN buckets[Index(k)] : buckets[Index(k)][i].key = k}
  IN  IF matches = {} THEN 0 ELSE Min(matches)

Found(k) == k \in Keys /\ Position(k) # 0

-----------------------------------------------------------------------------
(* Creating a table.                                                       *)

Init ==
  /\ pc = "none"
  /\ buckets = NoArray /\ bucket_count = 0 /\ size = 0 /\ key_copies = 0
  /\ new_buckets = NoArray /\ cursor = 0 /\ pending = NULL
  /\ ret = NoReply

Create(n) ==
  /\ pc = "none"
  /\ n # 0 /\ n <= MaxBuckets
  /\ pc' = "idle"
  /\ buckets' = Calloc(n) /\ bucket_count' = n /\ size' = 0
  /\ ret' = Reply("create", NULL, TRUE, FALSE)
  /\ UNCHANGED <<key_copies, rehashVars>>

\* wellFormed: are the callbacks complete? A well-formed request fails when
\* malloc or calloc does.
CreateFails(n, wellFormed) ==
  /\ pc = "none"
  /\ ret' = Reply("create", NULL, FALSE, n # 0 /\ wellFormed)
  /\ UNCHANGED <<pc, tableVars, rehashVars>>

-----------------------------------------------------------------------------
(* Inserting.                                                              *)

\* Mutant: the entry about to be added is not counted.
ShouldGrowLate == size * 4 > bucket_count * 3

ShouldGrow == (size + 1) * 4 > bucket_count * 3

InsertBadKey(k) ==
  /\ pc = "idle"
  /\ k \in BadKeys
  /\ ret' = Reply("insert", k, FALSE, FALSE)
  /\ UNCHANGED <<pc, tableVars, rehashVars>>

\* Mutant: replacing a value counts as a new entry.
UpdateCounts(k, v) ==
  /\ pc = "idle"
  /\ Found(k)
  /\ buckets' = [buckets EXCEPT ![Index(k)][Position(k)].value = v]
  /\ size' = size + 1
  /\ ret' = Reply("insert", k, TRUE, FALSE)
  /\ UNCHANGED <<pc, bucket_count, key_copies, rehashVars>>

Update(k, v) ==
  /\ pc = "idle"
  /\ Found(k)
  /\ buckets' = [buckets EXCEPT ![Index(k)][Position(k)].value = v]
  /\ ret' = Reply("insert", k, TRUE, FALSE)
  /\ UNCHANGED <<pc, bucket_count, size, key_copies, rehashVars>>

GrowFails(k) ==
  /\ pc = "idle"
  /\ ~Found(k) /\ ShouldGrow
  /\ ret' = Reply("insert", k, FALSE, TRUE)
  /\ UNCHANGED <<pc, tableVars, rehashVars>>

CopyKeyFails(k) ==
  /\ ret' = Reply("insert", k, FALSE, TRUE)
  /\ UNCHANGED <<size, key_copies>>

\* Mutant: the key copy is not destroyed when the node cannot be allocated.
NodeAllocLeaks(k) ==
  /\ key_copies' = key_copies + 1
  /\ ret' = Reply("insert", k, FALSE, TRUE)
  /\ UNCHANGED size

\* The key has been copied when the node cannot be allocated.
NodeAllocFails(k) ==
  /\ key_copies' = (key_copies + 1) - 1
  /\ ret' = Reply("insert", k, FALSE, TRUE)
  /\ UNCHANGED size

Link(array, k, v, index) ==
  /\ key_copies' = key_copies + 1
  /\ buckets' = [array EXCEPT ![index] = <<NodeOf(k, v)>> \o @]
  /\ size' = size + 1
  /\ ret' = Reply("insert", k, TRUE, FALSE)

Insert(k, v) ==
  /\ pc = "idle"
  /\ ~Found(k) /\ ~ShouldGrow
  /\ \/ CopyKeyFails(k) /\ UNCHANGED buckets
     \/ NodeAllocFails(k) /\ UNCHANGED buckets
     \/ Link(buckets, k, v, Index(k))
  /\ UNCHANGED <<pc, bucket_count, rehashVars>>

BeginRehash(k, v) ==
  /\ pc = "idle"
  /\ ~Found(k) /\ ShouldGrow
  /\ bucket_count * 2 <= MaxBuckets
  /\ pc' = "rehashing"
  /\ new_buckets' = Calloc(bucket_count * 2)
  /\ cursor' = 0
  /\ pending' = [key |-> k, value |-> v]
  /\ UNCHANGED <<tableVars, ret>>

\* Mutant: a relinked node does not point to the nodes already in its bucket.
RelinkNodeAlone ==
  /\ pc = "rehashing"
  /\ cursor < bucket_count
  /\ buckets[cursor] # <<>>
  /\ LET node == NodeOf(Head(buckets[cursor]).key, Head(buckets[cursor]).value)
     IN  new_buckets' = [new_buckets EXCEPT
           ![node.hash % (bucket_count * 2)] = <<node>>]
  /\ buckets' = [buckets EXCEPT ![cursor] = Tail(@)]
  /\ UNCHANGED <<pc, bucket_count, size, cursor, pending, key_copies, ret>>

\* buckets[cursor] holds the nodes the loop has still to visit: the nodes it
\* has relinked are reachable from new_buckets only.
RelinkNode ==
  /\ pc = "rehashing"
  /\ cursor < bucket_count
  /\ buckets[cursor] # <<>>
  /\ LET node == NodeOf(Head(buckets[cursor]).key, Head(buckets[cursor]).value)
     IN  new_buckets' = [new_buckets EXCEPT
           ![node.hash % (bucket_count * 2)] = <<node>> \o @]
  /\ buckets' = [buckets EXCEPT ![cursor] = Tail(@)]
  /\ UNCHANGED <<pc, bucket_count, size, cursor, pending, key_copies, ret>>

\* Mutant: the loop does not advance past an empty bucket.
NextBucketStays ==
  /\ pc = "rehashing"
  /\ cursor < bucket_count
  /\ buckets[cursor] = <<>>
  /\ UNCHANGED vars

NextBucket ==
  /\ pc = "rehashing"
  /\ cursor < bucket_count
  /\ buckets[cursor] = <<>>
  /\ cursor' = cursor + 1
  /\ UNCHANGED <<pc, tableVars, new_buckets, pending, ret>>

\* Mutant: the bucket index is not computed anew after the rehash.
InsertAtStaleIndex ==
  /\ pc = "rehashing"
  /\ cursor = bucket_count
  /\ bucket_count' = bucket_count * 2
  /\ Link(new_buckets, pending.key, pending.value, Index(pending.key))
  /\ pc' = "idle"
  /\ new_buckets' = NoArray /\ cursor' = 0 /\ pending' = NULL

\* The old array is freed, whether or not the new node can be allocated.
InsertAfterRehash ==
  /\ pc = "rehashing"
  /\ cursor = bucket_count
  /\ bucket_count' = bucket_count * 2
  /\ \/ CopyKeyFails(pending.key) /\ buckets' = new_buckets
     \/ NodeAllocFails(pending.key) /\ buckets' = new_buckets
     \/ Link(new_buckets, pending.key, pending.value,
             Hash[pending.key] % (bucket_count * 2))
  /\ pc' = "idle"
  /\ new_buckets' = NoArray /\ cursor' = 0 /\ pending' = NULL

-----------------------------------------------------------------------------
(* Finding, removing, clearing, destroying.                                *)

Lookup(k) == IF Found(k) THEN buckets[Index(k)][Position(k)].value ELSE NULL

Find(k) ==
  /\ pc = "idle"
  /\ ret' = Reply("find", k, Lookup(k), FALSE)
  /\ UNCHANGED <<pc, tableVars, rehashVars>>

Remove(k) ==
  /\ pc = "idle"
  /\ Found(k)
  /\ buckets' = [buckets EXCEPT ![Index(k)] = SeqExt!RemoveAt(@, Position(k))]
  /\ key_copies' = key_copies - 1
  /\ size' = size - 1
  /\ ret' = Reply("remove", k, TRUE, FALSE)
  /\ UNCHANGED <<pc, bucket_count, rehashVars>>

\* Mutant: a remove that finds nothing is counted.
RemoveMissingCounts(k) ==
  /\ pc = "idle"
  /\ ~Found(k)
  /\ size' = size - 1
  /\ ret' = Reply("remove", k, FALSE, FALSE)
  /\ UNCHANGED <<pc, buckets, bucket_count, key_copies, rehashVars>>

RemoveMissing(k) ==
  /\ pc = "idle"
  /\ ~Found(k)
  /\ ret' = Reply("remove", k, FALSE, FALSE)
  /\ UNCHANGED <<pc, tableVars, rehashVars>>

Clear ==
  /\ pc = "idle"
  /\ buckets' = Calloc(bucket_count)
  /\ key_copies' = key_copies - Cardinality(Places(buckets))
  /\ size' = 0
  /\ ret' = Reply("clear", NULL, NULL, FALSE)
  /\ UNCHANGED <<pc, bucket_count, rehashVars>>

Destroy ==
  /\ pc = "idle"
  /\ pc' = "none"
  /\ buckets' = NoArray /\ bucket_count' = 0 /\ size' = 0
  /\ key_copies' = key_copies - Cardinality(Places(buckets))
  /\ ret' = Reply("destroy", NULL, NULL, FALSE)
  /\ UNCHANGED rehashVars

RehashStep == RelinkNode \/ NextBucket \/ InsertAfterRehash

Next ==
  \/ \E n \in Requests : Create(n)
  \/ \E n \in Requests, wellFormed \in BOOLEAN : CreateFails(n, wellFormed)
  \/ \E k \in BadKeys : InsertBadKey(k)
  \/ \E k \in Keys, v \in Values :
       Update(k, v) \/ Insert(k, v) \/ GrowFails(k) \/ BeginRehash(k, v)
  \/ RehashStep
  \/ \E k \in Keys \cup BadKeys : Find(k) \/ Remove(k) \/ RemoveMissing(k)
  \/ Clear
  \/ Destroy

\* The calling thread runs the rehash loop to its end.
Spec == Init /\ [][Next]_vars /\ WF_vars(RehashStep)

-----------------------------------------------------------------------------
(* Properties.                                                             *)

\* Every variable has its type; outside a rehash nothing is left of one.
TypeOK ==
  /\ pc \in {"none", "idle", "rehashing"}
  /\ bucket_count \in 0 .. MaxBuckets
  /\ bucket_count = 0 <=> pc = "none"
  /\ buckets \in [0 .. bucket_count - 1 -> Seq(Node)]
  /\ size \in Nat /\ key_copies \in Nat
  /\ cursor \in 0 .. bucket_count
  /\ IF pc = "rehashing"
     THEN /\ new_buckets \in [0 .. bucket_count * 2 - 1 -> Seq(Node)]
          /\ pending \in [key : Keys, value : Values]
     ELSE new_buckets = NoArray /\ cursor = 0 /\ pending = NULL
  /\ ret \in Replies

NodeCount == Cardinality(Places(buckets)) + Cardinality(Places(new_buckets))

\* size counts the nodes, in the middle of a rehash those of both arrays, and
\* a failed allocation after a rehash does not change it
\* (cashash_chain.c:104-132, 169).
SizeExact == size = NodeCount

\* Each node owns one key copy: neither an insert that fails after copying
\* the key nor a remove or clear leaks a copy (cashash_chain.c:109-121).
KeysOwned == key_copies = NodeCount

\* Every node is in the bucket its hash selects, before, during and after a
\* rehash, and nothing is left behind the loop (cashash_chain.c:65-107).
NodesWellPlaced ==
  /\ \A p \in Places(buckets) : LET node == buckets[p[1]][p[2]] IN
       /\ node.hash = Hash[node.key] /\ node.hash % bucket_count = p[1]
       /\ p[1] >= cursor
  /\ \A p \in Places(new_buckets) : LET node == new_buckets[p[1]][p[2]] IN
       /\ node.hash = Hash[node.key] /\ node.hash % (bucket_count * 2) = p[1]

\* No key has two nodes, although the new node is linked by the bucket index
\* computed after the search, in an array the search did not look at
\* (cashash_chain.c:31-45, 106, 123-131).
KeysUnique ==
  /\ \A p, q \in Places(buckets) :
       buckets[p[1]][p[2]].key = buckets[q[1]][q[2]].key => p = q
  /\ \A p, q \in Places(new_buckets) :
       new_buckets[p[1]][p[2]].key = new_buckets[q[1]][q[2]].key => p = q
  /\ \A m \in Nodes(buckets), n \in Nodes(new_buckets) : m.key # n.key

\* Between calls at most three quarters as many entries as buckets: one
\* doubling is enough for the insert that triggers it, from one bucket on
\* (cashash_chain.c:47-58).
LoadBounded == pc = "idle" => size * 4 <= bucket_count * 3

\* An insert that starts to rehash returns to its caller.
RehashReturns == pc = "rehashing" ~> pc = "idle"

\* cashash.h:203-205: an insert with a key of length zero returns false.
EmptyKeyRefused ==
  ret.op = "insert" /\ ret.key \in EmptyKeys => ret.result = FALSE

\* The map a table represents: its key-value pairs, wherever they are linked.
AllNodes == Nodes(buckets) \cup Nodes(new_buckets)
Contents ==
  [k \in {n.key : n \in AllNodes} |-> (CHOOSE n \in AllNodes : n.key = k).value]

\* The backend implements the abstract map: a find returns what was last
\* inserted, a remove and an insert report what they did, and an insert that
\* fails, before or after a rehash, leaves the contents alone.
StrictMap == INSTANCE KeyMap
  WITH live <- pc # "none", map <- Contents, MayRefuse <- FALSE
ImplementsMap == StrictMap!Spec
=============================================================================
