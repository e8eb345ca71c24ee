-------------------------- MODULE OAIteratorProofs --------------------------
(***************************************************************************)
(* Proofs about OAIterator: the iterator's type invariant, the promise     *)
(* that foreach visits every entry once, and that it implements the        *)
(* abstract iteration, for every table and every careful callback.         *)
(***************************************************************************)
EXTENDS OAIterator, OATableProofs

-----------------------------------------------------------------------------
(* The table under the iterator.                                           *)

\* The keys the table stores are those of the entries of its array.
LEMMA StoredKeysOf == StoredKeys = KeysOf(Stored(Owner))
BY DEF StoredKeys, KeysOf, Stored

\* Stored keys are keys, and different slots store different ones.
LEMMA StoredFacts ==
  ASSUME IInv
  PROVE  /\ StoredKeys \subseteq Keys
         /\ \A s \in SlotsIn(entries, "OCCUPIED") :
              /\ s \in 0 .. bucket_count - 1
              /\ entries[s].key \in Keys
         /\ \A s, t \in SlotsIn(entries, "OCCUPIED") :
              entries[s].key = entries[t].key => s = t
<1>1. /\ entries \in [0 .. bucket_count - 1 -> Entry]
      /\ old_entries \in [0 .. old_bucket_count - 1 -> Entry]
  BY DEF IInv, TypeOK
<1>2. \A s \in SlotsIn(entries, "OCCUPIED") :
        s \in 0 .. bucket_count - 1 /\ entries[s].key \in Keys
  BY <1>1, EntryFacts DEF SlotsIn
<1>3. \A s \in SlotsIn(old_entries, "OCCUPIED") : old_entries[s].key \in Keys
  BY <1>1, EntryFacts DEF SlotsIn
<1>4. StoredKeys \subseteq Keys
  BY <1>2, <1>3 DEF StoredKeys, Owner
<1>5. QED
  BY <1>2, <1>4 DEF IInv, KeysUnique, DistinctKeys

\* No step of a resize loses a key, whether it completes or rolls back.
LEMMA ResizeKeepsKeys ==
  ASSUME IInv, pc = "resizing", ResizeStep
  PROVE  StoredKeys \subseteq StoredKeys'
<1>1. CASE SkipEntry \/ MoveEntry
  <2>1. pc' = pc /\ old_entries' = old_entries
    BY <1>1 DEF SkipEntry, MoveEntry
  <2>2. QED
    BY <2>1 DEF StoredKeys, Owner
<1>2. CASE RollBack
  <2>1. pc' = "idle" /\ entries' = old_entries
    BY <1>2 DEF RollBack, ReleaseResize
  <2>2. QED
    BY <2>1 DEF StoredKeys, Owner
<1>3. CASE InsertAfterResize
  <2> DEFINE k == pending.key
             v == pending.value
  <2>1. pc' = "idle" /\ cursor = old_bucket_count /\ Place(k, v)
    BY <1>3 DEF InsertAfterResize, ReleaseResize
  <2>2. /\ k \in Keys /\ v \in Values /\ old_bucket_count \in Nat
        /\ old_entries \in [0 .. old_bucket_count - 1 -> Entry]
    BY ResizeFacts
  <2>3. Stored(entries) = Stored(Owner)
    <3>1. \A s \in SlotsIn(old_entries, "OCCUPIED") : s < old_bucket_count
      BY <2>2 DEF SlotsIn
    <3>2. Moved = SlotsIn(old_entries, "OCCUPIED")
      BY <2>1, <3>1 DEF Moved
    <3>3. QED
      BY <3>2 DEF IInv, ResizeConsistent, Stored, Owner
  <2> HIDE DEF k, v
  <2>4. \/ Stored(entries') =
             {e \in Stored(entries) : e.key # k} \cup {OccupiedEntry(k, v)}
        \/ entries' = entries
    BY <2>1, <2>2, PlaceMaps DEF IInv
  <2>5. OccupiedEntry(k, v).key = k
    BY DEF OccupiedEntry
  <2>6. KeysOf(Stored(Owner)) \subseteq KeysOf(Stored(entries'))
    BY <2>3, <2>4, <2>5 DEF KeysOf
  <2>7. Owner' = entries'
    BY <2>1 DEF Owner
  <2>8. StoredKeys' = KeysOf(Stored(entries'))
    BY <2>7, StoredKeysOf DEF StoredKeys, KeysOf, Stored
  <2>9. QED
    BY <2>6, <2>8, StoredKeysOf
<1>4. QED
  BY <1>1, <1>2, <1>3 DEF ResizeStep

\* Where the scan for the next entry stops: nothing is stored between its
\* start and there.
LEMMA NextOccupiedResult ==
  ASSUME IInv, NEW i \in 0 .. bucket_count
  PROVE  /\ NextOccupied(i) \in i .. bucket_count
         /\ NextOccupied(i) < bucket_count =>
              entries[NextOccupied(i)].state = "OCCUPIED"
         /\ \A s \in SlotsIn(entries, "OCCUPIED") :
              s >= i => s >= NextOccupied(i)
<1> DEFINE later == {s \in SlotsIn(entries, "OCCUPIED") : s >= i}
<1>1. bucket_count \in Nat /\ DOMAIN entries = 0 .. bucket_count - 1
  BY ConstantsAssumption DEF IInv, TypeOK
<1>2. later \in SUBSET Nat
  BY <1>1 DEF SlotsIn
<1>3. NextOccupied(i) = IF later = {} THEN bucket_count ELSE Min(later)
  BY DEF NextOccupied
<1>4. later # {} => Min(later) \in later /\ \A s \in later : Min(later) <= s
  BY <1>2, MinOfNats
<1>5. \A s \in later : /\ s \in i .. bucket_count - 1
                       /\ entries[s].state = "OCCUPIED"
  BY <1>1 DEF SlotsIn
<1>6. \A s \in SlotsIn(entries, "OCCUPIED") : s >= i => s \in later
  OBVIOUS
<1> HIDE DEF later
<1>7. CASE later = {}
  BY <1>1, <1>3, <1>6, <1>7
<1>8. CASE later # {}
  BY <1>1, <1>3, <1>4, <1>5, <1>6, <1>8
<1>9. QED
  BY <1>7, <1>8

-----------------------------------------------------------------------------
(* The inductive invariant.                                                *)

\* Under a careful callback the index splits the array: of the entries that
\* were there throughout, those before it have been visited once and those
\* from it on have not been. The scan has stopped at an entry, or there is
\* none left, and the entry the callback may remove lies before the index.
IndexSplits ==
  callback = "careful" /\ phase # "none" =>
    /\ pc = "idle"
    /\ \A s \in SlotsIn(entries, "OCCUPIED") :
         /\ s >= iter_index => HasNext
         /\ phase = "callback" /\ entries[s].key = returned => s < iter_index
         /\ entries[s].key \in stable =>
              visits[entries[s].key] = IF s < iter_index THEN 1 ELSE 0

\* The index stays inside the array also when a resize is rolled back, and
\* between two calls of foreach there is no position.
PositionOK ==
  /\ phase = "none" => iter_index = 0 /\ returned = NULL
  /\ phase = "loop" => pc = "idle"
  /\ pc = "resizing" => iter_index <= old_bucket_count

IterIInv == /\ IInv /\ IterTypeOK
            /\ PositionOK /\ IndexSplits /\ EachEntryOnce

\* Every step of the iteration is one of the table, or leaves it alone.
LEMMA TableStep ==
  ASSUME IterIInv, [IterNext]_allVars
  PROVE  [Next]_vars
<1>1. CASE Call
  BY <1>1 DEF Call
<1>2. CASE CallbackCall
  <2>1. Removable \subseteq Keys /\ Insertable \subseteq Keys
    BY <1>2 DEF CallbackCall, IterIInv, IterTypeOK, Removable, Insertable
  <2>2. QED
    BY <1>2, <2>1 DEF CallbackCall, Next
<1>3. CASE CallbackResizes
  BY <1>3 DEF CallbackResizes, Next
<1>4. CASE Begin \/ Visit \/ CallbackContinues \/ CallbackStops \/ End
             \/ UNCHANGED allVars
  BY <1>4 DEF Begin, Visit, CallbackContinues, CallbackStops, End, Return, allVars
<1>5. QED
  BY <1>1, <1>2, <1>3, <1>4 DEF IterNext

\* The split of the array is what makes foreach visit each entry once.
LEMMA SplitCounts ==
  ASSUME IterTypeOK', IndexSplits', phase' # "none"
  PROVE  EachEntryOnce'
<1> SUFFICES ASSUME callback' = "careful"
             PROVE  \A k \in stable' : visits'[k] <= 1
  BY CallbackAssumption DEF EachEntryOnce, IterTypeOK
<1>1. pc' = "idle" /\ stable' \subseteq StoredKeys'
  BY DEF IndexSplits, IterTypeOK
<1>2. \A k \in stable' :
        \E s \in SlotsIn(entries', "OCCUPIED") : entries'[s].key = k
  BY <1>1 DEF StoredKeys, Owner
<1>3. \A s \in SlotsIn(entries', "OCCUPIED") :
        entries'[s].key \in stable' => visits'[entries'[s].key] \in {0, 1}
  BY DEF IndexSplits
<1>4. QED
  BY <1>2, <1>3

-----------------------------------------------------------------------------
(* One lemma per action.                                                   *)

\* A call outside an iteration.
LEMMA CallSound ==
  ASSUME IterIInv, IInv', Call
  PROVE  IterIInv'
<1>1. /\ phase = "none" /\ phase' = "none" /\ iter_index = 0 /\ iter_index' = 0
      /\ returned = NULL /\ returned' = NULL /\ callback' = NULL
      /\ outcome' = NULL /\ visits' = NoVisits /\ stable' = {}
  BY DEF Call, IterIInv, PositionOK
<1>2. bucket_count' \in Nat /\ old_bucket_count' \in Nat
  BY ConstantsAssumption DEF IInv, TypeOK
<1>3. IterTypeOK'
  BY <1>1, <1>2 DEF IterTypeOK, NoVisits
<1>4. PositionOK'
  BY <1>1, <1>2 DEF PositionOK
<1>5. IndexSplits' /\ EachEntryOnce'
  BY <1>1 DEF IndexSplits, EachEntryOnce
<1>6. QED
  BY <1>3, <1>4, <1>5 DEF IterIInv

\* The beginning of an iteration: nothing has been visited.
LEMMA BeginSound ==
  ASSUME IterIInv, IInv', Begin
  PROVE  IterIInv'
<1>1. /\ pc = "idle" /\ pc' = pc /\ entries' = entries
      /\ bucket_count' = bucket_count
      /\ phase = "none" /\ phase' = "loop" /\ callback' \in Callbacks
      /\ iter_index' = NextOccupied(0) /\ returned = NULL /\ returned' = NULL
      /\ outcome' = NULL /\ visits' = NoVisits /\ stable' = StoredKeys
  BY DEF Begin, vars, tableVars, IterIInv, PositionOK
<1>2. IInv /\ bucket_count \in Nat
  BY ConstantsAssumption DEF IterIInv, IInv, TypeOK
<1>3. /\ iter_index' \in 0 .. bucket_count
      /\ iter_index' < bucket_count => entries[iter_index'].state = "OCCUPIED"
      /\ \A s \in SlotsIn(entries, "OCCUPIED") : s >= 0 => s >= iter_index'
  BY <1>1, <1>2, NextOccupiedResult
<1>4. /\ StoredKeys' = StoredKeys /\ StoredKeys \subseteq Keys
      /\ \A s \in SlotsIn(entries, "OCCUPIED") :
           s \in 0 .. bucket_count - 1 /\ entries[s].key \in Keys
  BY <1>1, <1>2, StoredFacts DEF StoredKeys, Owner
<1>5. IterTypeOK'
  BY <1>1, <1>2, <1>3, <1>4, CallbackAssumption DEF IterTypeOK, NoVisits
<1>6. PositionOK'
  BY <1>1 DEF PositionOK
<1>7. IndexSplits'
  <2>1. ASSUME NEW s \in SlotsIn(entries, "OCCUPIED")
        PROVE  /\ ~(s < iter_index')
               /\ iter_index' < bucket_count
               /\ entries[iter_index'].state = "OCCUPIED"
               /\ visits'[entries[s].key] = 0
    BY <1>1, <1>2, <1>3, <1>4 DEF NoVisits
  <2>2. QED
    BY <1>1, <2>1 DEF IndexSplits, HasNext
<1>8. QED
  BY <1>1, <1>5, <1>6, <1>7, SplitCounts DEF IterIInv

\* A visit moves one entry from the part still to come to the part done.
LEMMA VisitSound ==
  ASSUME IterIInv, IInv', Visit
  PROVE  IterIInv'
<1> DEFINE i == iter_index
           k == entries[i].key
<1>1. /\ pc' = pc /\ pc = "idle" /\ entries' = entries
      /\ bucket_count' = bucket_count
      /\ phase = "loop" /\ phase' = "callback" /\ callback' = callback
      /\ i < bucket_count /\ entries[i].state = "OCCUPIED"
      /\ returned' = k /\ visits' = [visits EXCEPT ![k] = IF @ = 0 THEN 1 ELSE 2]
      /\ iter_index' = NextOccupied(i + 1)
      /\ outcome' = outcome /\ stable' = stable
  BY DEF Visit, HasNext, CountVisit, vars, tableVars, IterIInv, PositionOK
<1>2. /\ IInv /\ bucket_count \in Nat /\ i \in 0 .. bucket_count
      /\ DOMAIN entries = 0 .. bucket_count - 1
      /\ visits \in [Keys -> 0 .. 2]
  BY ConstantsAssumption DEF IterIInv, IterTypeOK, IInv, TypeOK
<1>3. /\ iter_index' \in i + 1 .. bucket_count
      /\ iter_index' < bucket_count => entries[iter_index'].state = "OCCUPIED"
      /\ \A s \in SlotsIn(entries, "OCCUPIED") : s >= i + 1 => s >= iter_index'
  BY <1>1, <1>2, NextOccupiedResult
<1>4. /\ StoredKeys' = StoredKeys
      /\ \A s \in SlotsIn(entries, "OCCUPIED") :
           s \in 0 .. bucket_count - 1 /\ entries[s].key \in Keys
      /\ \A s, t \in SlotsIn(entries, "OCCUPIED") :
           entries[s].key = entries[t].key => s = t
      /\ i \in SlotsIn(entries, "OCCUPIED")
  BY <1>1, <1>2, StoredFacts DEF StoredKeys, Owner, SlotsIn
<1>5. IterTypeOK'
  <2>1. visits' \in [Keys -> 0 .. 2] /\ k \in Keys
    BY <1>1, <1>2, <1>4
  <2>2. QED
    BY <1>1, <1>2, <1>3, <1>4, <2>1 DEF IterTypeOK, IterIInv
<1>6. PositionOK'
  BY <1>1 DEF PositionOK
<1>7. IndexSplits'
  <2>1. ASSUME callback = "careful", NEW s \in SlotsIn(entries, "OCCUPIED")
        PROVE  /\ s >= iter_index' => /\ iter_index' < bucket_count
                                      /\ entries[iter_index'].state = "OCCUPIED"
               /\ entries[s].key = k => s < iter_index'
               /\ entries[s].key \in stable =>
                    visits'[entries[s].key] = IF s < iter_index' THEN 1 ELSE 0
    <3>1. s \in 0 .. bucket_count - 1 /\ (entries[s].key = k => s = i)
      BY <1>4
    <3>2. s >= iter_index' => iter_index' < bucket_count
      BY <1>2, <1>3, <3>1
    <3>3. entries[s].key \in stable =>
            visits[entries[s].key] = IF s < i THEN 1 ELSE 0
      BY <1>1, <2>1 DEF IterIInv, IndexSplits
    <3>4. CASE s = i
      <4>1. entries[s].key \in stable => visits[k] = 0
        BY <3>3, <3>4, <1>2
      <4>2. entries[s].key \in stable => visits'[k] = 1
        BY <4>1, <1>1, <1>2, <1>4
      <4>3. s < iter_index'
        BY <3>4, <1>2, <1>3
      <4>4. QED
        BY <3>2, <3>4, <4>2, <4>3, <1>3
    <3>5. CASE s # i
      <4>1. entries[s].key # k /\ entries[s].key \in Keys
        BY <3>1, <3>5, <1>4
      <4>2. visits'[entries[s].key] = visits[entries[s].key]
        BY <4>1, <1>1, <1>2
      <4>3. s < i <=> s < iter_index'
        BY <3>1, <3>5, <1>2, <1>3
      <4>4. QED
        BY <3>2, <3>3, <4>1, <4>2, <4>3, <1>3
    <3>6. QED
      BY <3>4, <3>5
  <2>2. QED
    BY <1>1, <2>1 DEF IndexSplits, HasNext
<1>8. QED
  BY <1>1, <1>5, <1>6, <1>7, SplitCounts DEF IterIInv

\* What a careful callback does to the array: it empties it, or buries the
\* entry it was given.
LEMMA CarefulCall ==
  ASSUME IterIInv, CallbackCall, callback = "careful"
  PROVE  /\ pc' = "idle" /\ bucket_count' = bucket_count
         /\ \A s \in SlotsIn(entries', "OCCUPIED") :
              /\ s \in SlotsIn(entries, "OCCUPIED")
              /\ entries'[s] = entries[s]
         /\ \/ SlotsIn(entries', "OCCUPIED") = {}
            \/ \A s \in SlotsIn(entries, "OCCUPIED") :
                 entries[s].key # returned => s \in SlotsIn(entries', "OCCUPIED")
<1>1. /\ IInv /\ pc = "idle" /\ returned \in Keys /\ phase = "callback"
      /\ Remove(returned) \/ Clear
  BY DEF IterIInv, IndexSplits, IterTypeOK, CallbackCall, Removable, Insertable
<1>2. /\ bucket_count \in Nat /\ entries \in [0 .. bucket_count - 1 -> Entry]
  BY <1>1, IdleFacts
<1>3. CASE Clear
  <2>1. pc' = "idle" /\ bucket_count' = bucket_count /\ entries' = Calloc(bucket_count)
    BY <1>3 DEF Clear
  <2>2. SlotsIn(entries', "OCCUPIED") = {}
    BY <1>2, <2>1, CallocFacts
  <2>3. QED
    BY <2>1, <2>2
<1>4. CASE Remove(returned)
  <2> DEFINE f == FindSlot(returned, Hash[returned], FALSE).index
  <2>1. /\ pc' = "idle" /\ bucket_count' = bucket_count
        /\ entries' = [entries EXCEPT ![f] = DeletedEntry]
        /\ FindSlot(returned, Hash[returned], FALSE).found
    BY <1>4 DEF Remove, Found
  <2>2. f \in 0 .. bucket_count - 1 /\ entries[f].key = returned
    BY <1>1, <2>1, FindSlotResult DEF IInv
  <2> HIDE DEF f
  <2>3. /\ entries'[f].state # "OCCUPIED"
        /\ DOMAIN entries' = DOMAIN entries
        /\ \A s \in DOMAIN entries : s # f => entries'[s] = entries[s]
    BY <1>2, <2>1, <2>2, EntryFacts
  <2>4. QED
    BY <2>1, <2>2, <2>3 DEF SlotsIn
<1>5. QED
  BY <1>1, <1>3, <1>4

\* What any call in a callback does to the size of the array: nothing, until
\* a resize begins.
LEMMA CallbackBounds ==
  ASSUME IterIInv, IInv', CallbackCall
  PROVE  /\ pc = "idle" /\ pc' # "none"
         /\ iter_index \in 0 .. bucket_count'
         /\ pc' = "resizing" => iter_index <= old_bucket_count'
<1>1. /\ IInv /\ iter_index \in 0 .. bucket_count
      /\ bucket_count \in Nat /\ bucket_count' \in Nat /\ old_bucket_count' \in Nat
  BY ConstantsAssumption DEF IterIInv, IterTypeOK, IInv, TypeOK
<1>2. CASE \/ \E k \in Removable : Remove(k)
           \/ \E k \in Insertable, v \in Values : Insert(k, v)
           \/ Clear
  <2>1. pc = "idle" /\ pc' = "idle" /\ bucket_count' = bucket_count
    BY <1>2 DEF Remove, Insert, Clear
  <2>2. QED
    BY <1>1, <2>1
<1>3. CASE \E k \in Insertable, v \in Values : BeginResize(k, v)
  <2>1. pc = "idle" /\ pc' = "resizing" /\ old_bucket_count' = bucket_count
    BY <1>3 DEF BeginResize
  <2>2. bucket_count' = old_bucket_count' * 2
    BY <2>1 DEF IInv, ResizeConsistent
  <2>3. QED
    BY <1>1, <2>1, <2>2
<1>4. QED
  BY <1>2, <1>3 DEF CallbackCall

\* A call in the callback.
LEMMA CallbackCallSound ==
  ASSUME IterIInv, IInv', CallbackCall
  PROVE  IterIInv'
<1>1. /\ phase = "callback" /\ phase' = phase /\ callback' = callback
      /\ iter_index' = iter_index /\ returned' = returned /\ outcome' = outcome
      /\ visits' = visits /\ stable' = stable \cap StoredKeys'
  BY DEF CallbackCall
<1>2. /\ pc = "idle" /\ pc' # "none"
      /\ iter_index \in 0 .. bucket_count'
      /\ pc' = "resizing" => iter_index <= old_bucket_count'
  BY CallbackBounds
<1>3. IterTypeOK' /\ PositionOK'
  BY <1>1, <1>2 DEF IterIInv, IterTypeOK, PositionOK
<1>4. IndexSplits'
  <2> SUFFICES ASSUME callback = "careful"
               PROVE  IndexSplits'
    BY <1>1 DEF IndexSplits
  <2>1. /\ pc' = "idle" /\ bucket_count' = bucket_count
        /\ \A s \in SlotsIn(entries', "OCCUPIED") :
             s \in SlotsIn(entries, "OCCUPIED") /\ entries'[s] = entries[s]
        /\ \/ SlotsIn(entries', "OCCUPIED") = {}
           \/ \A s \in SlotsIn(entries, "OCCUPIED") :
                entries[s].key # returned => s \in SlotsIn(entries', "OCCUPIED")
    BY CarefulCall
  <2>2. \A s \in SlotsIn(entries, "OCCUPIED") :
          /\ s >= iter_index => HasNext
          /\ entries[s].key = returned => s < iter_index
          /\ entries[s].key \in stable =>
               visits[entries[s].key] = IF s < iter_index THEN 1 ELSE 0
    BY <1>1 DEF IterIInv, IndexSplits
  <2>3. ASSUME NEW s \in SlotsIn(entries', "OCCUPIED"), s >= iter_index
        PROVE  iter_index < bucket_count' /\ entries'[iter_index].state = "OCCUPIED"
    <3>1. s \in SlotsIn(entries, "OCCUPIED") /\ HasNext
      BY <2>1, <2>2, <2>3
    <3>2. iter_index < bucket_count /\ iter_index \in SlotsIn(entries, "OCCUPIED")
      <4>1. iter_index < bucket_count /\ entries[iter_index].state = "OCCUPIED"
        BY <3>1 DEF HasNext
      <4>2. /\ DOMAIN entries = 0 .. bucket_count - 1 /\ bucket_count \in Nat
            /\ iter_index \in 0 .. bucket_count
        BY ConstantsAssumption DEF IterIInv, IterTypeOK, IInv, TypeOK
      <4>3. QED
        BY <4>1, <4>2 DEF SlotsIn
    <3>3. entries[iter_index].key # returned
      BY <2>2, <3>2, <1>2
    <3>4. iter_index \in SlotsIn(entries', "OCCUPIED")
      BY <2>1, <3>2, <3>3
    <3>5. QED
      BY <2>1, <3>2, <3>4 DEF SlotsIn
  <2>4. QED
    BY <1>1, <2>1, <2>2, <2>3 DEF IndexSplits, HasNext
<1>5. QED
  BY <1>1, <1>3, <1>4, SplitCounts DEF IterIInv

\* A step of a resize in the callback; a careful callback starts none.
LEMMA CallbackResizesSound ==
  ASSUME IterIInv, IInv', CallbackResizes
  PROVE  IterIInv'
<1>1. /\ phase = "callback" /\ phase' = phase /\ callback' = callback
      /\ iter_index' = iter_index /\ returned' = returned /\ outcome' = outcome
      /\ visits' = visits /\ stable' = stable /\ ResizeStep
  BY DEF CallbackResizes, iterVars
<1>2. pc = "resizing" /\ IInv
  BY <1>1 DEF ResizeStep, SkipEntry, MoveEntry, RollBack, InsertAfterResize,
              IterIInv
<1>3. stable' \subseteq StoredKeys'
  BY <1>1, <1>2, ResizeKeepsKeys DEF IterIInv, IterTypeOK
<1>4. /\ iter_index \in 0 .. bucket_count' /\ pc' # "none"
      /\ pc' = "resizing" => iter_index <= old_bucket_count'
  <2>1. /\ iter_index \in 0 .. bucket_count /\ iter_index <= old_bucket_count
        /\ bucket_count \in Nat /\ old_bucket_count \in Nat
    BY <1>2, ResizeFacts DEF IterIInv, IterTypeOK, PositionOK
  <2>2. CASE SkipEntry \/ MoveEntry
    <3>1. /\ pc' = pc /\ bucket_count' = bucket_count
          /\ old_bucket_count' = old_bucket_count
      BY <2>2 DEF SkipEntry, MoveEntry, tableVars
    <3>2. QED
      BY <1>2, <2>1, <3>1
  <2>3. CASE RollBack
    <3>1. pc' = "idle" /\ bucket_count' = old_bucket_count
      BY <2>3 DEF RollBack, ReleaseResize
    <3>2. QED
      BY <2>1, <3>1
  <2>4. CASE InsertAfterResize
    <3>1. pc' = "idle" /\ bucket_count' = bucket_count
      BY <2>4 DEF InsertAfterResize, ReleaseResize
    <3>2. QED
      BY <2>1, <3>1
  <2>5. QED
    BY <1>1, <2>2, <2>3, <2>4 DEF ResizeStep
<1>5. callback # "careful"
  BY <1>1, <1>2 DEF IterIInv, IndexSplits
<1>6. IterTypeOK' /\ PositionOK'
  BY <1>1, <1>3, <1>4 DEF IterIInv, IterTypeOK, PositionOK
<1>7. IndexSplits' /\ EachEntryOnce'
  BY <1>1, <1>5 DEF IndexSplits, EachEntryOnce
<1>8. QED
  BY <1>6, <1>7 DEF IterIInv

\* The callback lets the loop go on.
LEMMA CallbackContinuesSound ==
  ASSUME IterIInv, IInv', CallbackContinues
  PROVE  IterIInv'
<1>1. /\ phase = "callback" /\ phase' = "loop" /\ pc = "idle" /\ pc' = pc
      /\ callback' = callback /\ entries' = entries
      /\ bucket_count' = bucket_count
      /\ iter_index' = iter_index /\ returned' = returned /\ outcome' = outcome
      /\ visits' = visits /\ stable' = stable
  BY DEF CallbackContinues, vars, tableVars
<1>2. StoredKeys' = StoredKeys
  BY <1>1 DEF StoredKeys, Owner
<1>3. IterTypeOK' /\ PositionOK'
  BY <1>1, <1>2 DEF IterIInv, IterTypeOK, PositionOK
<1>4. IndexSplits'
  BY <1>1 DEF IterIInv, IndexSplits, HasNext
<1>5. QED
  BY <1>1, <1>3, <1>4, SplitCounts DEF IterIInv

\* The loop ends, at the last entry or because the callback stops it.
LEMMA ReturnSound ==
  ASSUME IterIInv, IInv', CallbackStops \/ End
  PROVE  IterIInv'
<1>1. /\ phase # "none" /\ phase' = "none" /\ iter_index' = 0 /\ returned' = NULL
      /\ callback' = callback /\ visits' = visits /\ stable' = stable
      /\ pc' = pc /\ pc = "idle" /\ entries' = entries
      /\ bucket_count' = bucket_count
      /\ \/ outcome' = FALSE
         \/ outcome' = TRUE /\ ~HasNext
  BY DEF CallbackStops, End, Return, vars, tableVars, IterIInv, PositionOK
<1>2. StoredKeys' = StoredKeys
  BY <1>1 DEF StoredKeys, Owner
<1>3. bucket_count \in Nat
  BY ConstantsAssumption DEF IterIInv, IInv, TypeOK
<1>4. IterTypeOK' /\ PositionOK' /\ IndexSplits'
  <2>1. /\ visits \in [Keys -> 0 .. 2] /\ stable \subseteq StoredKeys
        /\ callback \in Callbacks \cup {NULL}
    BY DEF IterIInv, IterTypeOK
  <2>2. outcome' \in BOOLEAN
    BY <1>1, Zenon
  <2>3. iter_index' \in 0 .. bucket_count'
    BY <1>1, <1>3
  <2>4. IterTypeOK'
    BY <1>1, <1>2, <2>1, <2>2, <2>3 DEF IterTypeOK
  <2>5. QED
    BY <1>1, <2>4 DEF PositionOK, IndexSplits
<1>5. EachEntryOnce'
  <2> SUFFICES ASSUME callback = "careful"
               PROVE  /\ \A k \in stable : visits[k] <= 1
                      /\ ~HasNext => \A k \in stable : visits[k] = 1
    BY <1>1 DEF EachEntryOnce
  <2>1. \A k \in stable : visits[k] <= 1
    BY DEF IterIInv, EachEntryOnce
  <2>2. ASSUME ~HasNext, NEW k \in stable
        PROVE  visits[k] = 1
    <3>1. PICK s \in SlotsIn(entries, "OCCUPIED") : entries[s].key = k
      BY <1>1 DEF IterIInv, IterTypeOK, StoredKeys, Owner
    <3>2. /\ s >= iter_index => HasNext
          /\ visits[k] = IF s < iter_index THEN 1 ELSE 0
      BY <1>1, <3>1 DEF IterIInv, IndexSplits
    <3>3. s \in Int /\ iter_index \in Int
      BY StoredFacts DEF IterIInv, IterTypeOK
    <3>4. QED
      BY <2>2, <3>2, <3>3
  <2>3. QED
    BY <2>1, <2>2
<1>6. QED
  BY <1>4, <1>5 DEF IterIInv

-----------------------------------------------------------------------------
(* The invariant and what follows from it.                                 *)

\* Nothing has been visited before the first call.
LEMMA IterInitSound == IterInit => IterIInv
<1> SUFFICES ASSUME IterInit PROVE IterIInv
  OBVIOUS
<1>1. IInv
  BY InitSound DEF IterInit
<1>2. IterTypeOK /\ PositionOK
  BY DEF IterInit, Init, IterTypeOK, PositionOK, NoVisits
<1>3. IndexSplits /\ EachEntryOnce
  BY DEF IterInit, IndexSplits, EachEntryOnce
<1>4. QED
  BY <1>1, <1>2, <1>3 DEF IterIInv

\* Every step of foreach, of its callback and of the calls between keeps the
\* invariant.
THEOREM IterIInvInductive == IterIInv /\ [IterNext]_allVars => IterIInv'
<1> SUFFICES ASSUME IterIInv, [IterNext]_allVars PROVE IterIInv'
  OBVIOUS
<1>1. IInv'
  BY TableStep, IInvInductive DEF IterIInv
<1>2. CASE UNCHANGED allVars
  BY <1>1, <1>2 DEF allVars, iterVars, vars, tableVars, resizeVars, IterIInv,
       IterTypeOK, PositionOK, IndexSplits, EachEntryOnce, HasNext, StoredKeys,
       Owner
<1>3. QED
  BY <1>1, <1>2, CallSound, BeginSound, VisitSound, CallbackCallSound,
     CallbackResizesSound, CallbackContinuesSound, ReturnSound DEF IterNext

\* The invariant holds in every reachable state.
THEOREM SpecIterIInv == IterSpec => []IterIInv
<1>1. QED
  BY IterInitSound, IterIInvInductive, PTL DEF IterSpec

\* The iterator's index never leaves the array, whatever a callback inserts,
\* removes, resizes or rolls back.
THEOREM SpecIterTypeOK == IterSpec => []IterTypeOK
<1>1. IterIInv => IterTypeOK
  BY DEF IterIInv
<1>2. QED
  BY <1>1, SpecIterIInv, PTL

\* foreach calls a careful callback once for each entry that stays in the
\* table, and returns TRUE only when it has visited them all.
THEOREM SpecEachEntryOnce == IterSpec => []EachEntryOnce
<1>1. IterIInv => EachEntryOnce
  BY DEF IterIInv
<1>2. QED
  BY <1>1, SpecIterIInv, PTL

-----------------------------------------------------------------------------
(* foreach implements the abstract iteration.                              *)

\* The state of the abstract iteration.
Active    == Careful /\ phase # "none"
Unvisited == IF Careful THEN Ahead ELSE {}
Last      == IF Careful THEN returned ELSE NULL
Outcome   == IF Careful THEN outcome ELSE NULL

\* A step that the abstract iteration does not see.
LEMMA Stutters ==
  ASSUME StoredKeys' = StoredKeys, Active' <=> Active, Unvisited' = Unvisited,
         Last' = Last, Outcome' = Outcome
  PROVE  UNCHANGED Iteration!vars
<1>1. Active' = Active
  BY DEF Active
<1>2. QED
  BY <1>1 DEF Iteration!vars, Active, Unvisited, Last, Outcome

\* A change of the keys outside an iteration.
LEMMA Changes ==
  ASSUME ~Active, ~Active', StoredKeys' \subseteq Keys, Unvisited' = Unvisited,
         Last' = Last, Outcome' = NULL
  PROVE  Iteration!Change
<1>1. Active' = Active
  BY DEF Active
<1>2. QED
  BY <1>1 DEF Iteration!Change, Active, Unvisited, Last, Outcome

\* The beginning of an iteration over all stored keys.
LEMMA Begins ==
  ASSUME ~Active, Active', StoredKeys' = StoredKeys, Unvisited' = StoredKeys,
         Last' = Last, Outcome' = NULL
  PROVE  Iteration!Begin
<1>1. Active' = TRUE
  BY DEF Active
<1>2. QED
  BY <1>1 DEF Iteration!Begin, Active, Unvisited, Last, Outcome

\* A visit of a key that is still to be visited.
LEMMA Visits ==
  ASSUME NEW k, Active, Active', StoredKeys' = StoredKeys,
         k \in Unvisited, Unvisited' = Unvisited \ {k}, Last' = k,
         Outcome' = Outcome
  PROVE  Iteration!Visit(k)
<1>1. Active' = Active
  BY DEF Active
<1>2. QED
  BY <1>1 DEF Iteration!Visit, Active, Unvisited, Last, Outcome

\* A removal by the callback, from what is stored and what is to be visited.
LEMMA Removes ==
  ASSUME Active, Active', StoredKeys' \subseteq StoredKeys,
         Unvisited' = Unvisited \cap StoredKeys', Last' = Last,
         Outcome' = Outcome
  PROVE  Iteration!CallbackRemoves
<1>1. Active' = Active
  BY DEF Active
<1>2. QED
  BY <1>1 DEF Iteration!CallbackRemoves, Active, Unvisited, Last, Outcome

\* The end of an iteration, complete or not.
LEMMA Ends ==
  ASSUME NEW all \in BOOLEAN, Active, ~Active', StoredKeys' = StoredKeys,
         all => Unvisited = {}, Unvisited' = {}, Last' = NULL, Outcome' = all
  PROVE  Iteration!End(all)
<1>1. Active' = FALSE
  BY DEF Active
<1>2. QED
  BY <1>1 DEF Iteration!End, Active, Unvisited, Last, Outcome

\* Outside an iteration, and under a callback that is not careful, there is
\* nothing to visit.
LEMMA Inactive ==
  /\ ~Active => Unvisited = {}
  /\ ~Active' => Unvisited' = {}
  /\ IterIInv /\ ~Active => Last = NULL
  /\ IterIInv' /\ ~Active' => Last' = NULL
<1>1. phase = "none" \/ ~Careful => Unvisited = {}
  BY DEF Unvisited, Ahead
<1>2. phase' = "none" \/ ~Careful' => Unvisited' = {}
  BY DEF Unvisited, Ahead
<1>3. QED
  BY <1>1, <1>2 DEF Active, Last, IterIInv, PositionOK

\* A step of the table under no iteration, or one with a callback that is not
\* careful.
LEMMA FreeStepMaps ==
  ASSUME IterIInv, IterIInv', ~Active, ~Active', Outcome' = NULL
  PROVE  Iteration!Change
<1>1. StoredKeys' \subseteq Keys
  <2>1. /\ entries' \in [0 .. bucket_count' - 1 -> Entry]
        /\ old_entries' \in [0 .. old_bucket_count' - 1 -> Entry]
    BY DEF IterIInv, IInv, TypeOK
  <2>2. \A s \in SlotsIn(entries', "OCCUPIED") : entries'[s].key \in Keys
    BY <2>1, EntryFacts DEF SlotsIn
  <2>3. \A s \in SlotsIn(old_entries', "OCCUPIED") : old_entries'[s].key \in Keys
    BY <2>1, EntryFacts DEF SlotsIn
  <2>4. QED
    BY <2>2, <2>3 DEF StoredKeys, Owner
<1>2. QED
  BY <1>1, Inactive, Changes

\* The beginning of an iteration.
LEMMA BeginMaps ==
  ASSUME IterIInv, IterIInv', Begin
  PROVE  Iteration!Begin \/ Iteration!Change
<1>1. /\ pc = "idle" /\ pc' = pc /\ entries' = entries
      /\ phase = "none" /\ phase' = "loop"
      /\ iter_index' = NextOccupied(0) /\ outcome' = NULL /\ returned' = returned
  BY DEF Begin, vars, tableVars
<1>2. ~Active /\ Outcome' = NULL
  BY <1>1 DEF Active, Outcome
<1>3. CASE ~Active'
  BY <1>2, <1>3, FreeStepMaps
<1>4. CASE Active'
  <2>1. StoredKeys' = StoredKeys
    BY <1>1 DEF StoredKeys, Owner
  <2>2. \A s \in SlotsIn(entries, "OCCUPIED") : s >= iter_index'
    <3>1. IInv /\ bucket_count \in Nat
      BY ConstantsAssumption DEF IterIInv, IInv, TypeOK
    <3>2. \A s \in SlotsIn(entries, "OCCUPIED") : s >= 0 => s >= NextOccupied(0)
      BY <3>1, NextOccupiedResult
    <3>3. QED
      BY <1>1, <3>1, <3>2, StoredFacts
  <2>3. Unvisited' = {entries[s].key : s \in {t \in SlotsIn(entries, "OCCUPIED") :
                                               t >= iter_index'}}
    BY <1>1, <1>4 DEF Unvisited, Active, Ahead
  <2>4. Unvisited' = StoredKeys
    BY <1>1, <2>2, <2>3 DEF StoredKeys, Owner
  <2>5. Last' = Last
    BY <1>1, <1>2, <1>4, Inactive DEF IterIInv, PositionOK, Last, Active
  <2>6. QED
    BY <1>2, <1>4, <2>1, <2>4, <2>5, Begins
<1>5. QED
  BY <1>3, <1>4

\* A visit takes the key at the index, which has not been visited.
LEMMA VisitMaps ==
  ASSUME IterIInv, IterIInv', Visit
  PROVE  (\E k \in Keys : Iteration!Visit(k)) \/ UNCHANGED Iteration!vars
<1> DEFINE i == iter_index
           k == entries[i].key
<1>1. /\ pc' = pc /\ entries' = entries /\ bucket_count' = bucket_count
      /\ phase = "loop" /\ phase' = "callback" /\ callback' = callback
      /\ i < bucket_count /\ entries[i].state = "OCCUPIED"
      /\ returned' = k /\ iter_index' = NextOccupied(i + 1) /\ outcome' = outcome
      /\ old_entries' = old_entries
  BY DEF Visit, HasNext, vars, tableVars, resizeVars
<1>2. StoredKeys' = StoredKeys
  BY <1>1 DEF StoredKeys, Owner
<1>3. CASE ~Careful
  BY <1>1, <1>2, <1>3, Stutters
     DEF Active, Unvisited, Last, Outcome, Careful
<1>4. CASE Careful
  <2>1. Active /\ Active' /\ Outcome' = Outcome /\ Last' = k
    BY <1>1, <1>4 DEF Active, Careful, Outcome, Last
  <2>2. /\ IInv /\ bucket_count \in Nat /\ i \in 0 .. bucket_count
        /\ i \in SlotsIn(entries, "OCCUPIED")
    <3>1. /\ IInv /\ bucket_count \in Nat
          /\ DOMAIN entries = 0 .. bucket_count - 1
      BY ConstantsAssumption DEF IterIInv, IInv, TypeOK
    <3>2. i \in 0 .. bucket_count
      BY DEF IterIInv, IterTypeOK
    <3>3. QED
      BY <1>1, <3>1, <3>2 DEF SlotsIn
  <2>3. /\ iter_index' \in i + 1 .. bucket_count
        /\ \A s \in SlotsIn(entries, "OCCUPIED") : s >= i + 1 => s >= iter_index'
    BY <1>1, <2>2, NextOccupiedResult
  <2>4. /\ \A s \in SlotsIn(entries, "OCCUPIED") : s \in 0 .. bucket_count - 1
        /\ \A s, t \in SlotsIn(entries, "OCCUPIED") :
             entries[s].key = entries[t].key => s = t
        /\ k \in Keys
    BY <2>2, StoredFacts
  <2> DEFINE Later(j) == {t \in SlotsIn(entries, "OCCUPIED") : t >= j}
  <2>5. /\ Unvisited = {entries[s].key : s \in Later(i)}
        /\ Unvisited' = {entries[s].key : s \in Later(iter_index')}
    BY <1>1, <1>4, <2>1 DEF Unvisited, Active, Ahead
  <2>6. Later(iter_index') = Later(i) \ {i}
    <3>1. \A s \in SlotsIn(entries, "OCCUPIED") :
            s >= iter_index' <=> s >= i /\ s # i
      BY <2>2, <2>3, <2>4
    <3>2. QED
      BY <3>1
  <2>7. i \in Later(i) /\ Later(i) \subseteq SlotsIn(entries, "OCCUPIED")
    BY <2>2
  <2> HIDE DEF Later
  <2>8. k \in Unvisited /\ Unvisited' = Unvisited \ {k}
    <3>1. k \in Unvisited
      BY <2>5, <2>7
    <3>2. \A s \in Later(i) : entries[s].key = k <=> s = i
      BY <2>4, <2>7
    <3>3. QED
      BY <2>5, <2>6, <3>1, <3>2
  <2>9. QED
    BY <1>2, <2>1, <2>4, <2>8, Visits
<1>5. QED
  BY <1>3, <1>4

\* What a careful callback removes is no longer to be visited, and nothing
\* else is left out.
LEMMA CallbackCallMaps ==
  ASSUME IterIInv, IterIInv', CallbackCall
  PROVE  Iteration!CallbackRemoves \/ Iteration!Change
<1>1. /\ phase = "callback" /\ phase' = phase /\ callback' = callback
      /\ iter_index' = iter_index /\ returned' = returned /\ outcome' = outcome
  BY DEF CallbackCall
<1>2. CASE ~Careful
  BY <1>1, <1>2, FreeStepMaps DEF Active, Careful, Outcome
<1>3. CASE Careful
  <2>1. Active /\ Active' /\ Outcome' = Outcome /\ Last' = Last
    BY <1>1, <1>3 DEF Active, Careful, Outcome, Last
  <2>2. /\ pc' = "idle"
        /\ \A s \in SlotsIn(entries', "OCCUPIED") :
             s \in SlotsIn(entries, "OCCUPIED") /\ entries'[s] = entries[s]
    BY <1>3, CarefulCall DEF Careful
  <2>3. pc = "idle"
    BY <1>1, <1>3 DEF IterIInv, IndexSplits, Careful
  <2>4. /\ StoredKeys = {entries[s].key : s \in SlotsIn(entries, "OCCUPIED")}
        /\ StoredKeys' = {entries'[s].key : s \in SlotsIn(entries', "OCCUPIED")}
    BY <2>2, <2>3 DEF StoredKeys, Owner
  <2>5. StoredKeys' \subseteq StoredKeys
    BY <2>2, <2>4
  <2>6. \A s, t \in SlotsIn(entries, "OCCUPIED") :
          entries[s].key = entries[t].key => s = t
    BY StoredFacts DEF IterIInv
  <2> DEFINE Before == {t \in SlotsIn(entries, "OCCUPIED") : t >= iter_index}
             After  == {t \in SlotsIn(entries', "OCCUPIED") : t >= iter_index}
  <2>7. /\ Unvisited = {entries[s].key : s \in Before}
        /\ Unvisited' = {entries'[s].key : s \in After}
    BY <1>1, <1>3, <2>1 DEF Unvisited, Active, Ahead
  <2>8. \A s : s \in After <=> s \in Before /\ s \in SlotsIn(entries', "OCCUPIED")
    BY <2>2
  <2>9. Before \subseteq SlotsIn(entries, "OCCUPIED")
    OBVIOUS
  <2> HIDE DEF Before, After
  <2>10. Unvisited' \subseteq Unvisited \cap StoredKeys'
    BY <2>2, <2>4, <2>7, <2>8
  <2>11. ASSUME NEW x \in Unvisited, x \in StoredKeys'
         PROVE  x \in Unvisited'
    <3>1. PICK s \in Before : x = entries[s].key
      BY <2>7
    <3>2. PICK t \in SlotsIn(entries', "OCCUPIED") : x = entries'[t].key
      BY <2>4, <2>11
    <3>3. s = t
      BY <2>2, <2>6, <2>9, <3>1, <3>2
    <3>4. QED
      BY <2>7, <2>8, <3>1, <3>2, <3>3
  <2>12. QED
    BY <2>1, <2>5, <2>10, <2>11, Removes
<1>4. QED
  BY <1>2, <1>3

\* The end of foreach: it returns TRUE only with nothing left to visit.
LEMMA ReturnMaps ==
  ASSUME IterIInv, IterIInv', CallbackStops \/ End
  PROVE  (\E all \in BOOLEAN : Iteration!End(all)) \/ UNCHANGED Iteration!vars
<1>1. /\ phase # "none" /\ phase' = "none" /\ returned' = NULL
      /\ callback' = callback /\ pc' = pc /\ entries' = entries
      /\ old_entries' = old_entries
  BY DEF CallbackStops, End, Return, vars, tableVars, resizeVars
<1>2. PICK all \in BOOLEAN : outcome' = all /\ (all => ~HasNext)
  <2>1. CASE CallbackStops
    BY <2>1 DEF CallbackStops, Return
  <2>2. CASE End
    BY <2>2 DEF End, Return
  <2>3. QED
    BY <2>1, <2>2
<1>3. StoredKeys' = StoredKeys
  BY <1>1 DEF StoredKeys, Owner
<1>4. ~Active' /\ Unvisited' = {} /\ Last' = NULL
  BY <1>1, Inactive DEF Active
<1>5. CASE ~Careful
  <2>1. ~Active /\ Unvisited = {} /\ Last = NULL /\ Outcome = NULL /\ Outcome' = NULL
    BY <1>1, <1>5, Inactive DEF Active, Outcome, Careful
  <2>2. QED
    BY <1>3, <1>4, <2>1, Stutters
<1>6. CASE Careful
  <2>1. Active /\ Outcome' = all
    BY <1>1, <1>2, <1>6 DEF Active, Outcome, Careful
  <2>2. all => Unvisited = {}
    <3> SUFFICES ASSUME ~HasNext PROVE Unvisited = {}
      BY <1>2
    <3>1. \A s \in SlotsIn(entries, "OCCUPIED") : ~(s >= iter_index)
      BY <1>1, <1>6 DEF IterIInv, IndexSplits, Careful
    <3>2. QED
      BY <1>1, <1>6, <3>1 DEF Unvisited, Ahead
  <2>3. QED
    BY <1>3, <1>4, <2>1, <2>2, Ends
<1>7. QED
  BY <1>5, <1>6

\* A step of foreach is a step of the abstract iteration, or none.
THEOREM StepImplementsIteration ==
  IterIInv /\ [IterNext]_allVars => [Iteration!Next]_Iteration!vars
<1> SUFFICES ASSUME IterIInv, [IterNext]_allVars
             PROVE  [Iteration!Next]_Iteration!vars
  OBVIOUS
<1> USE DEF Iteration!Next
<1>1. IterIInv'
  BY IterIInvInductive
<1>2. CASE Call
  <2>1. phase = "none" /\ phase' = "none" /\ outcome' = NULL
    BY <1>2 DEF Call
  <2>2. QED
    BY <1>1, <2>1, FreeStepMaps DEF Active, Outcome
<1>3. CASE Begin
  BY <1>1, <1>3, BeginMaps
<1>4. CASE Visit
  BY <1>1, <1>4, VisitMaps
<1>5. CASE CallbackCall
  BY <1>1, <1>5, CallbackCallMaps
<1>6. CASE CallbackResizes
  <2>1. /\ callback' = callback /\ outcome' = outcome /\ phase = "callback"
        /\ pc = "resizing"
    BY <1>6 DEF CallbackResizes, iterVars, ResizeStep, SkipEntry, MoveEntry,
                RollBack, InsertAfterResize
  <2>2. ~Careful
    BY <2>1 DEF IterIInv, IndexSplits, Careful
  <2>3. QED
    BY <1>1, <2>1, <2>2, FreeStepMaps DEF Active, Outcome, Careful
<1>7. CASE CallbackContinues
  <2>1. /\ phase = "callback" /\ phase' = "loop" /\ callback' = callback
        /\ pc' = pc /\ entries' = entries /\ old_entries' = old_entries
        /\ iter_index' = iter_index /\ returned' = returned /\ outcome' = outcome
    BY <1>7 DEF CallbackContinues, vars, tableVars, resizeVars
  <2>2. StoredKeys' = StoredKeys
    BY <2>1 DEF StoredKeys, Owner
  <2>3. Ahead' = Ahead
    BY <2>1 DEF Ahead
  <2>4. QED
    BY <2>1, <2>2, <2>3, Stutters DEF Active, Unvisited, Last, Outcome, Careful
<1>8. CASE CallbackStops \/ End
  BY <1>1, <1>8, ReturnMaps
<1>9. CASE UNCHANGED allVars
  BY <1>9, Stutters DEF allVars, iterVars, vars, tableVars, resizeVars,
     StoredKeys, Owner, Active, Unvisited, Last, Outcome, Careful, Ahead
<1> HIDE DEF Iteration!Next
<1>10. QED
  BY <1>2, <1>3, <1>4, <1>5, <1>6, <1>7, <1>8, <1>9 DEF IterNext

\* foreach implements the abstract iteration, for every table and every
\* careful callback: each visit takes a key that is stored and not visited,
\* and TRUE is returned only when none is left.
THEOREM SpecImplementsIteration == IterSpec => ImplementsIteration
<1>1. IterInit => Iteration!Init
  <2> SUFFICES ASSUME IterInit PROVE Iteration!Init
    OBVIOUS
  <2>1. SlotsIn(NoArray, "OCCUPIED") = {}
    BY CallocFacts DEF NoArray
  <2>2. StoredKeys = {}
    BY <2>1 DEF IterInit, Init, StoredKeys, Owner
  <2>3. QED
    BY <2>2 DEF IterInit, Iteration!Init, Careful, Ahead
<1>2. QED
  BY <1>1, StepImplementsIteration, SpecIterIInv, PTL
     DEF IterSpec, ImplementsIteration, Iteration!Spec

=============================================================================
