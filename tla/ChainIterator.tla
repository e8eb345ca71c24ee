---------------------------- MODULE ChainIterator ---------------------------
(***************************************************************************)
(* cashash_foreach and cashash_foreach_key over a chaining table           *)
(* (src/cashash_iter.c), composed with the table. While the callback runs  *)
(* the iterator keeps a bucket index and a pointer to the node it will     *)
(* return next. The callback may call the table: the constants say which   *)
(* calls it makes.                                                         *)
(***************************************************************************)
EXTENDS ChainTable

CONSTANT Callbacks  \* the callbacks that callers pass to foreach

(***************************************************************************)
(* A careful callback removes no entry but the one it was given, and       *)
(* replaces values; an inserting one removes nothing; a free one makes any *)
(* call, except that it neither destroys the table nor starts a foreach of *)
(* its own.                                                                *)
(***************************************************************************)
ASSUME CallbackAssumption ==
  /\ Callbacks \subseteq {"careful", "inserting", "free"}
  /\ NULL \notin Callbacks /\ NULL \notin BOOLEAN

VARIABLES
  phase,         \* "none": no foreach; "loop": before has_next; "callback"
  callback,      \* the callback of the foreach, until the next call
  bucket_index,  \* iter.bucket_index
  current,       \* iter.current: its node's key, NULL, or "freed"
  returned,      \* the key of the pair the callback was given
  outcome,       \* what the last foreach returned, until the next call
  visits,        \* history: visits of each key, 0, 1 or (more) 2
  stable         \* history: the keys in the table throughout the foreach

iterVars == <<phase, callback, bucket_index, current, returned, outcome, visits, stable>>
allVars  == <<vars, iterVars>>

NoVisits == [k \in Keys |-> 0]

CountVisit(k) == [visits EXCEPT ![k] = IF @ = 0 THEN 1 ELSE 2]

StoredKeys == {n.key : n \in AllNodes}

\* Mutant: the scan runs past the end.
NextBucketFromRunsOver(b) ==
  LET used == {c \in b .. bucket_count - 1 : buckets[c] # <<>>}
  IN  IF used = {} THEN bucket_count + 1 ELSE Min(used)

\* The first bucket from b on with a node in it, and that node.
NextBucketFrom(b) ==
  LET used == {c \in b .. bucket_count - 1 : buckets[c] # <<>>}
  IN  IF used = {} THEN bucket_count ELSE Min(used)

HeadKey(b) == IF b < bucket_count THEN buckets[b][1].key ELSE NULL

\* Where the node of k is linked now, and the key of its successor.
PlaceOf(k) == CHOOSE p \in Places(buckets) : buckets[p[1]][p[2]].key = k

SuccessorOf(k) ==
  LET p == PlaceOf(k)
  IN  IF p[2] = Len(buckets[p[1]]) THEN NULL ELSE buckets[p[1]][p[2] + 1].key

HasNext == current # NULL

IterInit ==
  /\ Init
  /\ phase = "none" /\ callback = NULL
  /\ bucket_index = 0 /\ current = NULL
  /\ returned = NULL /\ outcome = NULL
  /\ visits = NoVisits /\ stable = {}

\* A call outside an iteration; the history of the last one is forgotten.
Call ==
  /\ phase = "none"
  /\ Next
  /\ callback' = NULL /\ outcome' = NULL /\ visits' = NoVisits /\ stable' = {}
  /\ UNCHANGED <<phase, bucket_index, current, returned>>

\* Mutant: an empty first bucket is taken for an empty table.
BeginAtFirstBucket ==
  /\ phase = "none" /\ pc = "idle"
  /\ phase' = "loop"
  /\ callback' \in Callbacks
  /\ bucket_index' = 0
  /\ current' = IF buckets[0] = <<>> THEN NULL ELSE buckets[0][1].key
  /\ outcome' = NULL /\ visits' = NoVisits /\ stable' = StoredKeys
  /\ UNCHANGED <<vars, returned>>

Begin ==
  /\ phase = "none" /\ pc = "idle"
  /\ phase' = "loop"
  /\ callback' \in Callbacks
  /\ bucket_index' = NextBucketFrom(0)
  /\ current' = HeadKey(bucket_index')
  /\ outcome' = NULL /\ visits' = NoVisits /\ stable' = StoredKeys
  /\ UNCHANGED <<vars, returned>>

\* Mutants: the rest of the chain is skipped; the scan for the next bucket
\* starts at the current one.
AdvanceByBucket ==
  /\ bucket_index' = NextBucketFrom(bucket_index + 1)
  /\ current' = HeadKey(bucket_index')

AdvanceStays ==
  IF SuccessorOf(current) # NULL
  THEN current' = SuccessorOf(current) /\ UNCHANGED bucket_index
  ELSE /\ bucket_index' = NextBucketFrom(bucket_index)
       /\ current' = HeadKey(bucket_index')

Advance ==
  IF SuccessorOf(current) # NULL
  THEN current' = SuccessorOf(current) /\ UNCHANGED bucket_index
  ELSE /\ bucket_index' = NextBucketFrom(bucket_index + 1)
       /\ current' = HeadKey(bucket_index')

\* cashash_iter_next reads the node and advances before the callback runs. A
\* freed node has no defined successor: the model ends there.
Visit ==
  /\ phase = "loop" /\ HasNext /\ current # "freed"
  /\ returned' = current
  /\ Advance
  /\ visits' = CountVisit(current)
  /\ phase' = "callback"
  /\ UNCHANGED <<vars, callback, outcome, stable>>

\* The keys the callback may remove, or insert.
Removable  == CASE callback = "careful"   -> {returned}
                [] callback = "inserting" -> {}
                [] callback = "free"      -> Keys
Insertable == IF callback = "careful" THEN StoredKeys ELSE Keys

\* A call in the callback, as far as it changes the table. The pointer in the
\* iterator does not change; the node it points to may be freed.
CallbackCall ==
  /\ phase = "callback"
  /\ \/ \E k \in Removable : Remove(k)
     \/ \E k \in Insertable, v \in Values :
          Update(k, v) \/ Insert(k, v) \/ BeginRehash(k, v)
     \/ callback = "free" /\ Clear
  /\ stable' = stable \cap StoredKeys'
  /\ current' = IF current \in Keys \ StoredKeys' THEN "freed" ELSE current
  /\ UNCHANGED <<phase, callback, bucket_index, returned, outcome, visits>>

\* The rehash loop of an insert that the callback made.
CallbackRehashes ==
  /\ phase = "callback"
  /\ RehashStep
  /\ UNCHANGED iterVars

CallbackContinues ==
  /\ phase = "callback" /\ pc = "idle"
  /\ phase' = "loop"
  /\ UNCHANGED <<vars, callback, bucket_index, current, returned, outcome,
                 visits, stable>>

Return(result) ==
  /\ phase' = "none"
  /\ outcome' = result
  /\ bucket_index' = 0 /\ current' = NULL /\ returned' = NULL
  /\ UNCHANGED <<vars, callback, visits, stable>>

CallbackStops == phase = "callback" /\ pc = "idle" /\ Return(FALSE)

End == phase = "loop" /\ ~HasNext /\ Return(TRUE)

IterNext ==
  \/ Call
  \/ Begin
  \/ Visit
  \/ CallbackCall
  \/ CallbackRehashes
  \/ CallbackContinues
  \/ CallbackStops
  \/ End

(***************************************************************************)
(* The calling thread runs the loops of foreach and of a rehash, and a     *)
(* callback returns in the end, however many calls it makes.               *)
(***************************************************************************)
IterSpec ==
  /\ IterInit /\ [][IterNext]_allVars
  /\ WF_allVars(Visit \/ End)
  /\ WF_allVars(pc = "rehashing" /\ (Call \/ CallbackRehashes))
  /\ SF_allVars(CallbackContinues \/ CallbackStops)

-----------------------------------------------------------------------------
(* Properties.                                                             *)

\* Every variable of the iteration has its type.
IterTypeOK ==
  /\ phase \in {"none", "loop", "callback"}
  /\ bucket_index \in 0 .. bucket_count
  /\ current \in Keys \cup {NULL, "freed"}
  /\ returned \in IF phase = "callback" THEN Keys ELSE Keys \cup {NULL}
  /\ outcome \in BOOLEAN \cup {NULL}
  /\ visits \in [Keys -> 0 .. 2]
  /\ stable \subseteq StoredKeys
  /\ callback \in Callbacks \cup {NULL}
  /\ phase # "none" => pc # "none" /\ callback # NULL /\ outcome = NULL

\* cashash_iter.h:29: current points to a node in the table's chains, although
\* a careful callback may free the node it was given and an inserting one has
\* nodes relinked. A free callback can free the current node itself.
CurrentLinked == current # NULL => current \in StoredKeys

\* cashash_iter.h:111, 124 and 131: the callback is called once for each
\* entry that is in the table throughout, and TRUE means all were visited.
\* Other callbacks may have entries visited twice or never.
EachEntryOnce ==
  callback = "careful" =>
    /\ \A k \in stable : visits[k] <= 1
    /\ outcome = TRUE => \A k \in stable : visits[k] = 1

\* Nodes may move to other buckets under the iterator: foreach still returns,
\* once its callback does (cashash_iter.c:181-191).
ForeachReturns == phase # "none" ~> phase = "none"

\* The keys of the current node, of those behind it in its chain and of those
\* in the later buckets.
Ahead ==
  IF current = NULL THEN {}
  ELSE {buckets[p[1]][p[2]].key : p \in {q \in Places(buckets) :
          \/ q[1] > bucket_index
          \/ q[1] = bucket_index /\ q[2] >= PlaceOf(current)[2]}}

Careful == callback = "careful"

Iteration == INSTANCE KeyIteration
  WITH keys <- StoredKeys,
       iterating <- Careful /\ phase # "none",
       unvisited <- IF Careful THEN Ahead ELSE {},
       last <- IF Careful THEN returned ELSE NULL,
       outcome <- IF Careful THEN outcome ELSE NULL

\* The position splits the table into what was visited and what will be, and
\* the removal of a visited node or a new value leaves that split intact:
\* foreach implements the abstract iteration (cashash_iter.c:3-25, 126-136).
ImplementsIteration == Iteration!Spec
=============================================================================
