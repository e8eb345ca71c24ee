--------------------------- MODULE OATableProofs ----------------------------
(***************************************************************************)
(* Proofs about OATable: an inductive invariant, for every set of keys,    *)
(* hash function, probing strategy and capacity, the safety invariants     *)
(* that follow from it, and that each step of the table is one of the      *)
(* abstract map, which with linear probing refuses an insert only for      *)
(* want of memory; with double hashing an array of prime length does so    *)
(* too. First the lemmas about the probe loop and about arrays of entries, *)
(* then one lemma per action, then the theorems.                           *)
(***************************************************************************)
EXTENDS OATable, TableLemmas

-----------------------------------------------------------------------------
(* Probing.                                                                *)

\* The step of a probe sequence is a number.
LEMMA ProbeStepType ==
  ASSUME NEW k \in Keys, NEW h \in Nat, NEW n \in Nat \ {0}
  PROVE  ProbeStep(k, h, n) \in Nat
<1>1. SizeMod \in Nat \ {0}
  BY ConstantsAssumption, NoLoadOverflow
<1>2. \A x \in Nat, m \in Nat \ {0} : x % m \in 0 .. m - 1
  OBVIOUS
<1>3. DefaultSecondHash(h, n) \in Nat
  BY <1>2 DEF DefaultSecondHash
<1>4. ASSUME SecondHash # NULL
      PROVE  SecondHash[k] % n \in Nat
  <2>1. SecondHash[k] \in Nat
    BY <1>1, <1>4, ConstantsAssumption DEF SIZE_MAX
  <2>2. QED
    BY <1>2, <2>1
<1>5. QED
  BY <1>3, <1>4 DEF ProbeStep

\* The probe sequence stays inside the array.
LEMMA ProbeIndexType ==
  ASSUME NEW k \in Keys, NEW h \in Nat, NEW a \in Nat, NEW n \in Nat \ {0}
  PROVE  ProbeIndex(k, h, a, n) \in 0 .. n - 1
<1>1. SizeMod \in Nat \ {0}
  BY ConstantsAssumption, NoLoadOverflow
<1>2. \A x \in Nat, m \in Nat \ {0} : x % m \in 0 .. m - 1
  OBVIOUS
<1>3. Offset(ProbeStep(k, h, n), a) \in Nat
  BY ProbeStepType, ConstantsAssumption DEF Offset
<1>4. h + Offset(ProbeStep(k, h, n), a) \in Nat
  BY <1>3
<1>5. QED
  BY <1>1, <1>2, <1>4 DEF ProbeIndex

\* The configured hash function returns a number.
LEMMA HashType == \A k \in Keys : Hash[k] \in Nat
BY ConstantsAssumption, NoLoadOverflow DEF SIZE_MAX

\* The slot s is on the probe path of k, with no empty slot before it.
OnPath(array, n, k, s) ==
  \E a \in 0 .. n - 1 :
    /\ ProbeIndex(k, Hash[k], a, n) = s
    /\ \A b \in 0 .. a - 1 :
         array[ProbeIndex(k, Hash[k], b, n)].state # "EMPTY"

\* What the probe loop returns: the key's own entry, or a free slot on the
\* key's path, or SIZE_MAX, when no slot of the path is empty; and not to find
\* the key means that it is absent.
LEMMA FindSlotResult ==
  ASSUME TypeOK, pc # "none", NEW k \in Keys, NEW forInsert \in BOOLEAN,
         NEW slot, slot = FindSlot(k, Hash[k], forInsert)
  PROVE  /\ slot.found \in BOOLEAN
         /\ slot.index \in 0 .. bucket_count - 1 \/ slot.index = SIZE_MAX
         /\ SIZE_MAX \notin 0 .. bucket_count - 1
         /\ slot.found =>
              /\ slot.index \in 0 .. bucket_count - 1
              /\ entries[slot.index].state = "OCCUPIED"
              /\ entries[slot.index].key = k
         /\ ~slot.found /\ slot.index # SIZE_MAX /\ forInsert =>
              /\ entries[slot.index].state # "OCCUPIED"
              /\ OnPath(entries, bucket_count, k, slot.index)
         /\ ~slot.found /\ ProbePathsIntact =>
              \A s \in SlotsIn(entries, "OCCUPIED") : entries[s].key # k
         /\ slot.index = SIZE_MAX => \A a \in 0 .. bucket_count - 1 :
              entries[ProbeIndex(k, Hash[k], a, bucket_count)].state # "EMPTY"
<1> DEFINE P(a)  == ProbeIndex(k, Hash[k], a, bucket_count)
           stops == {a \in 0 .. bucket_count - 1 :
                       \/ entries[P(a)].state = "EMPTY"
                       \/ KeyEquals(entries[P(a)], k, Hash[k])}
           last  == IF stops = {} THEN bucket_count ELSE Min(stops)
           tombs == {a \in 0 .. last - 1 : entries[P(a)].state = "DELETED"}
           found == stops # {} /\ entries[P(last)].state = "OCCUPIED"
<1>1. /\ bucket_count \in Nat \ {0} /\ SIZE_MAX \notin 0 .. bucket_count - 1
      /\ entries \in [0 .. bucket_count - 1 -> Entry]
  BY ConstantsAssumption, NoLoadOverflow DEF TypeOK, SIZE_MAX
<1>2. \A a \in Nat : P(a) \in 0 .. bucket_count - 1
  BY <1>1, ProbeIndexType, HashType
<1>3. slot = [found |-> found,
              index |-> IF ~found /\ forInsert /\ tombs # {} THEN P(Min(tombs))
                        ELSE IF stops # {} THEN P(last) ELSE SIZE_MAX]
  BY DEF FindSlot
<1> HIDE DEF P
<1> stops \in SUBSET Nat
  BY <1>1
<1>4. last \in 0 .. bucket_count /\ (stops # {} => last \in stops)
  <2>1. CASE stops = {}
    BY <2>1, <1>1
  <2>2. CASE stops # {}
    <3>1. Min(stops) \in stops
      BY <2>2, MinOfNats
    <3>2. QED
      BY <2>2, <3>1, <1>1
  <2>3. QED
    BY <2>1, <2>2
<1>5. \A b \in 0 .. last - 1 : b \notin stops
  <2>1. CASE stops = {}
    BY <2>1
  <2>2. CASE stops # {}
    <3>1. \A b \in stops : Min(stops) <= b
      BY <2>2, MinOfNats
    <3>2. QED
      BY <2>2, <3>1, <1>4, <1>1
  <2>3. QED
    BY <2>1, <2>2
<1>6. tombs # {} => Min(tombs) \in tombs
  BY <1>4, MinOfNats
<1>7. \A b \in 0 .. last - 1 : /\ b \in 0 .. bucket_count - 1
                              /\ entries[P(b)].state # "EMPTY"
                              /\ ~KeyEquals(entries[P(b)], k, Hash[k])
  BY <1>4, <1>5, <1>1
<1>8. found \in BOOLEAN
  OBVIOUS
<1>9. found => stops # {} /\ entries[P(last)].state = "OCCUPIED"
  OBVIOUS
<1>10. ~found /\ stops # {} => entries[P(last)].state # "OCCUPIED"
  OBVIOUS
<1> HIDE DEF stops, last, tombs, found
<1>11. slot.found = found
  BY <1>3
<1>12. slot.index = IF ~found /\ forInsert /\ tombs # {} THEN P(Min(tombs))
                    ELSE IF stops # {} THEN P(last) ELSE SIZE_MAX
  BY <1>3
<1>13. stops # {} => last \in 0 .. bucket_count - 1
  BY <1>4 DEF stops
<1>14. tombs # {} => /\ Min(tombs) \in 0 .. last - 1
                     /\ Min(tombs) \in 0 .. bucket_count - 1
                     /\ entries[P(Min(tombs))].state = "DELETED"
  BY <1>6, <1>7 DEF tombs
<1>15. found => entries[P(last)].key = k
  BY <1>4, <1>9 DEF stops, KeyEquals
<1>16. slot.index \in 0 .. bucket_count - 1 \/ slot.index = SIZE_MAX
  BY <1>2, <1>12, <1>13, <1>14
<1>17. ASSUME slot.found
       PROVE  /\ slot.index \in 0 .. bucket_count - 1
              /\ entries[slot.index].state = "OCCUPIED"
              /\ entries[slot.index].key = k
  <2>1. slot.index = P(last) /\ last \in Nat
    BY <1>17, <1>12, <1>11, <1>9, <1>13
  <2>2. QED
    BY <2>1, <1>17, <1>11, <1>9, <1>15, <1>2
<1>18. ASSUME ~slot.found, slot.index # SIZE_MAX, forInsert
       PROVE  /\ entries[slot.index].state # "OCCUPIED"
              /\ OnPath(entries, bucket_count, k, slot.index)
  <2>1. CASE tombs # {}
    <3>1. slot.index = P(Min(tombs))
      BY <1>18, <2>1, <1>12, <1>11
    <3>2. \A b \in 0 .. Min(tombs) - 1 : entries[P(b)].state # "EMPTY"
      BY <2>1, <1>14, <1>7, <1>4
    <3>3. QED
      BY <3>1, <3>2, <2>1, <1>14 DEF OnPath, P
  <2>2. CASE tombs = {}
    <3>1. stops # {} /\ slot.index = P(last)
      BY <1>18, <2>2, <1>12, <1>11
    <3>2. entries[P(last)].state # "OCCUPIED"
      BY <3>1, <1>18, <1>11, <1>10
    <3>3. QED
      BY <3>1, <3>2, <1>13, <1>7 DEF OnPath, P
  <2>3. QED
    BY <2>1, <2>2
<1>19. ASSUME ~slot.found, ProbePathsIntact,
              NEW s \in SlotsIn(entries, "OCCUPIED"), entries[s].key = k
       PROVE  FALSE
  <2>1. /\ entries[s].hash = Hash[k] /\ entries[s].state = "OCCUPIED"
        /\ s \in 0 .. bucket_count - 1
    BY <1>19, <1>1 DEF ProbePathsIntact, HashesCached, SlotsIn
  <2>2. PICK a \in 0 .. bucket_count - 1 :
           /\ P(a) = s
           /\ \A b \in 0 .. a - 1 : entries[P(b)].state # "EMPTY"
    BY <1>19, <2>1 DEF ProbePathsIntact, Reachable, P
  <2>3. a \in stops
    BY <2>1, <2>2, <1>19 DEF stops, KeyEquals
  <2>4. last \in stops /\ last <= a
    BY <2>3, <1>4, <1>5, <1>1
  <2>5. entries[P(last)].state = "OCCUPIED"
    <3>1. CASE last = a
      BY <3>1, <2>1, <2>2
    <3>2. CASE last # a
      <4>1. entries[P(last)].state # "EMPTY"
        BY <3>2, <2>4, <2>2, <1>4
      <4>2. QED
        BY <4>1, <2>4 DEF stops, KeyEquals
    <3>3. QED
      BY <3>1, <3>2
  <2>6. QED
    BY <2>3, <2>5, <1>19, <1>11, <1>10
<1>20. ASSUME slot.index = SIZE_MAX, NEW a \in 0 .. bucket_count - 1
       PROVE  entries[P(a)].state # "EMPTY"
  <2>1. last \in Nat /\ (tombs # {} => Min(tombs) \in Nat)
    BY <1>1, <1>4, <1>14
  <2>2. stops = {}
    BY <1>20, <2>1, <1>1, <1>2, <1>12
  <2>3. QED
    BY <2>2 DEF stops
<1>21. QED
  BY <1>1, <1>8, <1>11, <1>16, <1>17, <1>18, <1>19, <1>20 DEF P

-----------------------------------------------------------------------------
(* Arrays of entries: counting and changing them.                          *)

\* The three kinds of entry.
LEMMA EntryFacts ==
  /\ EmptyEntry \in Entry /\ EmptyEntry.state = "EMPTY"
  /\ DeletedEntry \in Entry /\ DeletedEntry.state = "DELETED"
  /\ \A k \in Keys, v \in Values :
       /\ OccupiedEntry(k, v) \in Entry
       /\ OccupiedEntry(k, v).state = "OCCUPIED"
       /\ OccupiedEntry(k, v).key = k
       /\ OccupiedEntry(k, v).hash = Hash[k]
  /\ \A e \in Entry : e.state = "OCCUPIED" => e.key \in Keys /\ e.value \in Values
<1>1. \A k \in Keys : Hash[k] \in 0 .. SIZE_MAX
  BY ConstantsAssumption
<1>2. QED
  BY <1>1 DEF EmptyEntry, DeletedEntry, OccupiedEntry, Entry

\* The slots of an array in a given state can be counted.
LEMMA SlotsFinite ==
  ASSUME NEW n \in Nat, NEW array \in [0 .. n - 1 -> Entry], NEW st
  PROVE  /\ SlotsIn(array, st) \subseteq 0 .. n - 1
         /\ IsFiniteSet(SlotsIn(array, st))
         /\ Cardinality(SlotsIn(array, st)) \in Nat
<1>1. SlotsIn(array, st) \in SUBSET (0 .. n - 1)
  BY DEF SlotsIn
<1>2. IsFiniteSet(0 .. n - 1)
  BY FS_Interval
<1>3. IsFiniteSet(SlotsIn(array, st))
  BY <1>1, <1>2, FS_Subset
<1>4. QED
  BY <1>1, <1>3, FS_CardinalityType

\* A freshly allocated array has empty entries only.
LEMMA CallocFacts ==
  ASSUME NEW n \in Nat
  PROVE  /\ Calloc(n) \in [0 .. n - 1 -> Entry]
         /\ \A st \in {"OCCUPIED", "DELETED"} :
              /\ SlotsIn(Calloc(n), st) = {}
              /\ Cardinality(SlotsIn(Calloc(n), st)) = 0
         /\ HashesCached(Calloc(n)) /\ DistinctKeys(Calloc(n))
         /\ Reachable(Calloc(n), n)
<1>1. Calloc(n) \in [0 .. n - 1 -> Entry]
  BY EntryFacts DEF Calloc
<1>2. \A st \in {"OCCUPIED", "DELETED"} : SlotsIn(Calloc(n), st) = {}
  BY EntryFacts DEF Calloc, SlotsIn
<1>3. QED
  BY <1>1, <1>2, FS_EmptySet DEF HashesCached, DistinctKeys, Reachable

\* Writing one entry changes the counters by what that entry adds or removes.
LEMMA WriteSlot ==
  ASSUME NEW n \in Nat, NEW array \in [0 .. n - 1 -> Entry],
         NEW s \in 0 .. n - 1, NEW new \in [0 .. n - 1 -> Entry],
         \A t \in 0 .. n - 1 : t # s => new[t] = array[t], NEW st
  PROVE  /\ new[s].state = st /\ array[s].state # st =>
              Cardinality(SlotsIn(new, st)) = Cardinality(SlotsIn(array, st)) + 1
         /\ new[s].state # st /\ array[s].state = st =>
              Cardinality(SlotsIn(new, st)) = Cardinality(SlotsIn(array, st)) - 1
         /\ new[s].state # st /\ array[s].state # st =>
              SlotsIn(new, st) = SlotsIn(array, st)
<1>1. IsFiniteSet(SlotsIn(array, st))
  BY SlotsFinite
<1>2. ASSUME new[s].state = st, array[s].state # st
      PROVE  Cardinality(SlotsIn(new, st)) = Cardinality(SlotsIn(array, st)) + 1
  <2>1. /\ SlotsIn(new, st) = SlotsIn(array, st) \cup {s}
        /\ s \notin SlotsIn(array, st)
    BY <1>2 DEF SlotsIn
  <2>2. QED
    BY <2>1, <1>1, FS_AddElement
<1>3. ASSUME new[s].state # st, array[s].state = st
      PROVE  Cardinality(SlotsIn(new, st)) = Cardinality(SlotsIn(array, st)) - 1
  <2>1. /\ SlotsIn(new, st) = SlotsIn(array, st) \ {s}
        /\ s \in SlotsIn(array, st)
    BY <1>3 DEF SlotsIn
  <2>2. QED
    BY <2>1, <1>1, FS_RemoveElement
<1>4. ASSUME new[s].state # st, array[s].state # st
      PROVE  SlotsIn(new, st) = SlotsIn(array, st)
  BY <1>4 DEF SlotsIn
<1>5. QED
  BY <1>2, <1>3, <1>4

\* As long as no entry becomes empty, the entries that stay remain reachable.
LEMMA ReachableKept ==
  ASSUME NEW n \in Nat \ {0},
         NEW array \in [0 .. n - 1 -> Entry], NEW new \in [0 .. n - 1 -> Entry],
         Reachable(array, n), HashesCached(new),
         \A t \in 0 .. n - 1 : array[t].state # "EMPTY" => new[t].state # "EMPTY",
         \A t \in SlotsIn(new, "OCCUPIED") :
           \/ /\ t \in SlotsIn(array, "OCCUPIED")
              /\ new[t].key = array[t].key /\ new[t].hash = array[t].hash
           \/ OnPath(array, n, new[t].key, t)
  PROVE  Reachable(new, n)
<1> SUFFICES ASSUME NEW t \in SlotsIn(new, "OCCUPIED")
             PROVE  \E a \in 0 .. n - 1 :
                      /\ ProbeIndex(new[t].key, new[t].hash, a, n) = t
                      /\ \A b \in 0 .. a - 1 :
                           new[ProbeIndex(new[t].key, new[t].hash, b, n)].state
                             # "EMPTY"
  BY DEF Reachable
<1>1. t \in 0 .. n - 1 /\ new[t].state = "OCCUPIED" /\ new[t] \in Entry
  BY DEF SlotsIn
<1>2. new[t].key \in Keys /\ new[t].hash = Hash[new[t].key]
  BY <1>1, EntryFacts DEF HashesCached
<1> DEFINE P(b) == ProbeIndex(new[t].key, new[t].hash, b, n)
<1>3. \A b \in Nat : P(b) \in 0 .. n - 1
  BY <1>2, HashType, ProbeIndexType
<1>4. \E a \in 0 .. n - 1 : /\ P(a) = t
                            /\ \A b \in 0 .. a - 1 : array[P(b)].state # "EMPTY"
  <2>1. CASE /\ t \in SlotsIn(array, "OCCUPIED")
             /\ new[t].key = array[t].key /\ new[t].hash = array[t].hash
    BY <2>1 DEF Reachable
  <2>2. CASE OnPath(array, n, new[t].key, t)
    BY <2>2, <1>2 DEF OnPath
  <2>3. QED
    BY <2>1, <2>2
<1> HIDE DEF P
<1>5. \E a \in 0 .. n - 1 : /\ P(a) = t
                            /\ \A b \in 0 .. a - 1 : new[P(b)].state # "EMPTY"
  <2>1. PICK a \in 0 .. n - 1 :
           P(a) = t /\ \A b \in 0 .. a - 1 : array[P(b)].state # "EMPTY"
    BY <1>4
  <2>2. ASSUME NEW b \in 0 .. a - 1
        PROVE  new[P(b)].state # "EMPTY"
    <3>1. b \in Nat /\ array[P(b)].state # "EMPTY"
      BY <2>1
    <3>2. P(b) \in 0 .. n - 1
      BY <3>1, <1>3
    <3>3. QED
      BY <3>1, <3>2
  <2>3. QED
    BY <2>1, <2>2
<1>6. QED
  BY <1>5 DEF P

\* Filling a free slot of the key's path with a key that is not stored yet.
LEMMA FillSlot ==
  ASSUME NEW n \in Nat \ {0}, NEW array \in [0 .. n - 1 -> Entry],
         HashesCached(array), DistinctKeys(array), Reachable(array, n),
         NEW k \in Keys, NEW v \in Values, NEW s \in 0 .. n - 1,
         array[s].state # "OCCUPIED", OnPath(array, n, k, s),
         \A t \in SlotsIn(array, "OCCUPIED") : array[t].key # k,
         NEW new, new = [array EXCEPT ![s] = OccupiedEntry(k, v)]
  PROVE  HashesCached(new) /\ DistinctKeys(new) /\ Reachable(new, n)
<1>1. /\ OccupiedEntry(k, v) \in Entry /\ OccupiedEntry(k, v).key = k
      /\ OccupiedEntry(k, v).hash = Hash[k]
      /\ OccupiedEntry(k, v).state = "OCCUPIED"
  BY EntryFacts
<1>2. /\ new \in [0 .. n - 1 -> Entry] /\ new[s] = OccupiedEntry(k, v)
      /\ \A t \in 0 .. n - 1 : t # s => new[t] = array[t]
      /\ SlotsIn(new, "OCCUPIED") = SlotsIn(array, "OCCUPIED") \cup {s}
  <2>1. /\ new \in [0 .. n - 1 -> Entry] /\ new[s].state = "OCCUPIED"
        /\ \A t \in 0 .. n - 1 : t # s => new[t] = array[t]
    BY <1>1
  <2>2. SlotsIn(new, "OCCUPIED") = SlotsIn(array, "OCCUPIED") \cup {s}
    BY <2>1 DEF SlotsIn
  <2>3. QED
    BY <2>1, <2>2
<1>3. SlotsIn(array, "OCCUPIED") \subseteq 0 .. n - 1 /\ s \notin SlotsIn(array, "OCCUPIED")
  BY DEF SlotsIn
<1>4. HashesCached(new)
  BY <1>1, <1>2, <1>3 DEF HashesCached
<1>5. DistinctKeys(new)
  BY <1>1, <1>2, <1>3 DEF DistinctKeys
<1>6. \A t \in 0 .. n - 1 : array[t].state # "EMPTY" => new[t].state # "EMPTY"
  BY <1>1, <1>2
<1>7. \A t \in SlotsIn(new, "OCCUPIED") :
        \/ /\ t \in SlotsIn(array, "OCCUPIED")
           /\ new[t].key = array[t].key /\ new[t].hash = array[t].hash
        \/ OnPath(array, n, new[t].key, t)
  BY <1>1, <1>2, <1>3
<1>8. Reachable(new, n)
  BY <1>2, <1>4, <1>6, <1>7, ReachableKept
<1>9. QED
  BY <1>4, <1>5, <1>8

\* Replacing the value of a stored entry changes nothing else.
LEMMA ReplaceValue ==
  ASSUME NEW n \in Nat, NEW array \in [0 .. n - 1 -> Entry],
         NEW v \in Values, NEW s \in 0 .. n - 1, array[s].state = "OCCUPIED"
  PROVE  LET new == [array EXCEPT ![s].value = v]
         IN  /\ new \in [0 .. n - 1 -> Entry]
             /\ \A t \in 0 .. n - 1 : /\ new[t].state = array[t].state
                                      /\ new[t].key = array[t].key
                                      /\ new[t].hash = array[t].hash
<1> DEFINE e   == [array[s] EXCEPT !.value = v]
           new == [array EXCEPT ![s].value = v]
<1>1. array[s] \in [state : {"OCCUPIED"}, hash : 0 .. SIZE_MAX,
                    key : Keys, value : Values]
  <2>1. array[s] \in Entry
    OBVIOUS
  <2>2. QED
    BY <2>1 DEF Entry, EmptyEntry, DeletedEntry
<1>2. /\ e \in Entry /\ e.state = array[s].state
      /\ e.key = array[s].key /\ e.hash = array[s].hash
  BY <1>1 DEF Entry
<1>3. new = [array EXCEPT ![s] = e]
  OBVIOUS
<1> HIDE DEF e, new
<1>4. /\ new \in [0 .. n - 1 -> Entry] /\ new[s] = e
      /\ \A t \in 0 .. n - 1 : t # s => new[t] = array[t]
  BY <1>2, <1>3
<1>5. \A t \in 0 .. n - 1 : /\ new[t].state = array[t].state
                            /\ new[t].key = array[t].key
                            /\ new[t].hash = array[t].hash
  BY <1>2, <1>4
<1>6. QED
  BY <1>4, <1>5 DEF new

\* An array that keeps the states, keys and hashes of another is as sound.
LEMMA SameKeys ==
  ASSUME NEW n \in Nat \ {0}, NEW array \in [0 .. n - 1 -> Entry],
         HashesCached(array), DistinctKeys(array), Reachable(array, n),
         NEW new \in [0 .. n - 1 -> Entry],
         \A t \in 0 .. n - 1 : /\ new[t].state = array[t].state
                               /\ new[t].key = array[t].key
                               /\ new[t].hash = array[t].hash
  PROVE  /\ \A st : SlotsIn(new, st) = SlotsIn(array, st)
         /\ HashesCached(new) /\ DistinctKeys(new) /\ Reachable(new, n)
<1>1. \A st : SlotsIn(new, st) = SlotsIn(array, st)
  BY DEF SlotsIn
<1>2. \A t \in SlotsIn(new, "OCCUPIED") :
         /\ t \in SlotsIn(array, "OCCUPIED")
         /\ new[t].key = array[t].key /\ new[t].hash = array[t].hash
  BY <1>1 DEF SlotsIn
<1>3. HashesCached(new) /\ DistinctKeys(new)
  BY <1>2 DEF HashesCached, DistinctKeys
<1>4. Reachable(new, n)
  BY <1>2, <1>3, ReachableKept
<1>5. QED
  BY <1>1, <1>3, <1>4

\* Leaving a tombstone where there was an entry.
LEMMA BurySlot ==
  ASSUME NEW n \in Nat \ {0}, NEW array \in [0 .. n - 1 -> Entry],
         HashesCached(array), DistinctKeys(array), Reachable(array, n),
         NEW s \in 0 .. n - 1,
         NEW new, new = [array EXCEPT ![s] = DeletedEntry]
  PROVE  HashesCached(new) /\ DistinctKeys(new) /\ Reachable(new, n)
<1>1. DeletedEntry \in Entry /\ DeletedEntry.state = "DELETED"
  BY EntryFacts
<1>2. /\ new \in [0 .. n - 1 -> Entry] /\ new[s] = DeletedEntry
      /\ \A t \in 0 .. n - 1 : t # s => new[t] = array[t]
      /\ SlotsIn(new, "OCCUPIED") = SlotsIn(array, "OCCUPIED") \ {s}
  <2>1. /\ new \in [0 .. n - 1 -> Entry] /\ new[s].state = "DELETED"
        /\ \A t \in 0 .. n - 1 : t # s => new[t] = array[t]
    BY <1>1
  <2>2. SlotsIn(new, "OCCUPIED") = SlotsIn(array, "OCCUPIED") \ {s}
    BY <2>1 DEF SlotsIn
  <2>3. QED
    BY <2>1, <2>2
<1>3. SlotsIn(array, "OCCUPIED") \subseteq 0 .. n - 1
  BY DEF SlotsIn
<1>4. HashesCached(new) /\ DistinctKeys(new)
  BY <1>2, <1>3 DEF HashesCached, DistinctKeys
<1>5. \A t \in 0 .. n - 1 : array[t].state # "EMPTY" => new[t].state # "EMPTY"
  BY <1>1, <1>2
<1>6. Reachable(new, n)
  BY <1>2, <1>3, <1>4, <1>5, ReachableKept
<1>7. QED
  BY <1>4, <1>6

-----------------------------------------------------------------------------
(* The inductive invariant.                                                *)

\* None of its parts is inductive alone. The counters stay exact in a resize
\* because no moved key meets itself, hence uniqueness; uniqueness needs that
\* a search which finds nothing means absence, hence intact probe paths; and
\* a roll-back needs all of that of the array it brings back.
IInv == /\ TypeOK
        /\ CountsExact /\ KeysOwned /\ LoadBounded
        /\ KeysUnique /\ ProbePathsIntact
        /\ ResizeConsistent

\* A reply is well typed.
LEMMA ReplyType ==
  ASSUME NEW op \in {"none", "create", "insert", "find", "remove", "clear", "destroy"},
         NEW k \in Keys \cup BadKeys \cup {NULL},
         NEW result \in Values \cup {NULL} \cup BOOLEAN, NEW oom \in BOOLEAN
  PROVE  Reply(op, k, result, oom) \in Replies
BY DEF Reply, Replies

\* A call that touches nothing but its reply.
LEMMA OnlyReplies ==
  ASSUME IInv, UNCHANGED <<pc, tableVars, resizeVars>>, ret' \in Replies
  PROVE  IInv'
BY DEF IInv, tableVars, resizeVars, TypeOK, CountsExact, KeysOwned, Owner,
       LoadBounded, KeysUnique, ProbePathsIntact, ResizeConsistent, Moved

\* The part of an insert after the growth check keeps the array sound, adds
\* at most one entry, and makes a key copy exactly when it adds one.
LEMMA PlaceSound ==
  ASSUME TypeOK, pc # "none", CountsExact, KeysUnique, ProbePathsIntact,
         NEW k \in Keys, NEW v \in Values, Place(k, v),
         bucket_count' = bucket_count
  PROVE  /\ entries' \in [0 .. bucket_count - 1 -> Entry]
         /\ size' \in Nat /\ deleted_count' \in Nat
         /\ CountsExact' /\ KeysUnique' /\ ProbePathsIntact'
         /\ key_copies' = key_copies + (size' - size)
         /\ size' - size \in {0, 1}
         /\ size' + deleted_count' <= size + deleted_count + 1
         /\ ret' \in Replies
<1> DEFINE slot == FindSlot(k, Hash[k], TRUE)
<1>1. /\ bucket_count \in Nat \ {0}
      /\ entries \in [0 .. bucket_count - 1 -> Entry]
      /\ size \in Nat /\ deleted_count \in Nat /\ key_copies \in Nat
  BY NoLoadOverflow, ConstantsAssumption DEF TypeOK
<1>2. /\ HashesCached(entries) /\ DistinctKeys(entries)
      /\ Reachable(entries, bucket_count)
  BY DEF KeysUnique, ProbePathsIntact
<1>3. /\ slot.found \in BOOLEAN
      /\ slot.index \in 0 .. bucket_count - 1 \/ slot.index = SIZE_MAX
      /\ SIZE_MAX \notin 0 .. bucket_count - 1
      /\ slot.found =>
           /\ slot.index \in 0 .. bucket_count - 1
           /\ entries[slot.index].state = "OCCUPIED"
      /\ ~slot.found /\ slot.index # SIZE_MAX =>
           /\ entries[slot.index].state # "OCCUPIED"
           /\ OnPath(entries, bucket_count, k, slot.index)
      /\ ~slot.found =>
           \A s \in SlotsIn(entries, "OCCUPIED") : entries[s].key # k
  BY FindSlotResult
<1>4. \A result, oom \in BOOLEAN : Reply("insert", k, result, oom) \in Replies
  BY ReplyType
<1>5. Overwrite(slot, k, v) \/ NoSlot(slot, k) \/ CopyKeyFails(slot, k)
        \/ Occupy(slot, k, v)
  BY DEF Place
<1> HIDE DEF slot
<1>6. CASE NoSlot(slot, k) \/ CopyKeyFails(slot, k)
  <2>1. UNCHANGED <<entries, size, deleted_count, key_copies>> /\ ret' \in Replies
    BY <1>6, <1>4 DEF NoSlot, CopyKeyFails
  <2>2. QED
    BY <2>1, <1>1 DEF CountsExact, KeysUnique, ProbePathsIntact
<1>7. CASE Overwrite(slot, k, v)
  <2>1. /\ slot.found /\ UNCHANGED <<size, deleted_count, key_copies>>
        /\ entries' = [entries EXCEPT ![slot.index].value = v] /\ ret' \in Replies
    BY <1>7, <1>4 DEF Overwrite
  <2>2. slot.index \in 0 .. bucket_count - 1 /\ entries[slot.index].state = "OCCUPIED"
    BY <2>1, <1>3
  <2>3. /\ entries' \in [0 .. bucket_count - 1 -> Entry]
        /\ \A t \in 0 .. bucket_count - 1 :
             /\ entries'[t].state = entries[t].state
             /\ entries'[t].key = entries[t].key
             /\ entries'[t].hash = entries[t].hash
    BY <2>1, <2>2, <1>1, ReplaceValue
  <2>4. /\ \A st : SlotsIn(entries', st) = SlotsIn(entries, st)
        /\ HashesCached(entries') /\ DistinctKeys(entries')
        /\ Reachable(entries', bucket_count)
    BY <2>3, <1>1, <1>2, SameKeys
  <2>5. CountsExact'
    BY <2>1, <2>4 DEF CountsExact
  <2>6. KeysUnique' /\ ProbePathsIntact'
    BY <2>4 DEF KeysUnique, ProbePathsIntact
  <2>7. QED
    BY <2>1, <2>3, <2>5, <2>6, <1>1
<1>8. CASE Occupy(slot, k, v)
  <2>1. /\ slot.index # SIZE_MAX /\ ~slot.found
        /\ key_copies' = key_copies + 1 /\ size' = size + 1
        /\ deleted_count' = IF entries[slot.index].state = "DELETED"
                            THEN deleted_count - 1 ELSE deleted_count
        /\ entries' = [entries EXCEPT ![slot.index] = OccupiedEntry(k, v)]
        /\ ret' \in Replies
    BY <1>8, <1>4 DEF Occupy
  <2>2. /\ slot.index \in 0 .. bucket_count - 1
        /\ entries[slot.index].state # "OCCUPIED"
        /\ OnPath(entries, bucket_count, k, slot.index)
        /\ \A s \in SlotsIn(entries, "OCCUPIED") : entries[s].key # k
    BY <2>1, <1>3
  <2> DEFINE e == OccupiedEntry(k, v)
  <2>3. e \in Entry /\ e.state = "OCCUPIED"
    BY EntryFacts
  <2> HIDE DEF e
  <2>4. /\ entries' \in [0 .. bucket_count - 1 -> Entry]
        /\ entries'[slot.index] = e
        /\ \A t \in 0 .. bucket_count - 1 : t # slot.index => entries'[t] = entries[t]
    BY <2>1, <2>2, <2>3, <1>1 DEF e
  <2>5. /\ entries' \in [0 .. bucket_count - 1 -> Entry]
        /\ Cardinality(SlotsIn(entries', "OCCUPIED")) = size'
    <3>1. Cardinality(SlotsIn(entries', "OCCUPIED")) =
            Cardinality(SlotsIn(entries, "OCCUPIED")) + 1
      BY <2>2, <2>3, <2>4, <1>1, WriteSlot
    <3>2. QED
      BY <3>1, <2>1, <2>3, <2>4, <1>1 DEF CountsExact
  <2>6. Cardinality(SlotsIn(entries', "DELETED")) = deleted_count'
    <3>1. CASE entries[slot.index].state = "DELETED"
      <4>1. Cardinality(SlotsIn(entries', "DELETED")) =
              Cardinality(SlotsIn(entries, "DELETED")) - 1
        BY <3>1, <2>2, <2>3, <2>4, <1>1, WriteSlot
      <4>2. QED
        BY <4>1, <3>1, <2>1 DEF CountsExact
    <3>2. CASE entries[slot.index].state # "DELETED"
      <4>1. SlotsIn(entries', "DELETED") = SlotsIn(entries, "DELETED")
        BY <3>2, <2>2, <2>3, <2>4, <1>1, WriteSlot
      <4>2. QED
        BY <4>1, <3>2, <2>1 DEF CountsExact
    <3>3. QED
      BY <3>1, <3>2
  <2>7. deleted_count' \in Nat
    BY <2>5, <2>6, <1>1, SlotsFinite
  <2>8. /\ HashesCached(entries') /\ DistinctKeys(entries')
        /\ Reachable(entries', bucket_count)
    BY <2>1, <2>2, <1>1, <1>2, FillSlot
  <2>9. CountsExact' /\ KeysUnique' /\ ProbePathsIntact'
    BY <2>5, <2>6, <2>8 DEF CountsExact, KeysUnique, ProbePathsIntact
  <2>10. QED
    BY <2>1, <2>5, <2>7, <2>9, <1>1
<1>9. QED
  BY <1>5, <1>6, <1>7, <1>8

-----------------------------------------------------------------------------
(* Every action preserves it. Outside a resize the part about a resize is  *)
(* void, and the owner of the keys is the array itself.                    *)

\* Between calls the array and the counters decide the whole invariant.
LEMMA IdleIInv ==
  ASSUME pc' = "idle", bucket_count' \in 1 .. MaxBuckets,
         entries' \in [0 .. bucket_count' - 1 -> Entry],
         size' \in Nat, deleted_count' \in Nat,
         old_entries' = NoArray, old_bucket_count' = 0, cursor' = 0,
         pending' = NULL, ret' \in Replies,
         CountsExact', KeysUnique', ProbePathsIntact', key_copies' = size',
         (size' + deleted_count') * 100 < bucket_count' * 70
  PROVE  IInv'
<1>1. NoArray \in [0 .. 0 - 1 -> Entry]
  BY CallocFacts DEF NoArray
<1>2. TypeOK'
  BY <1>1, ConstantsAssumption DEF TypeOK
<1>3. KeysOwned'
  BY DEF KeysOwned, Owner, CountsExact
<1>4. QED
  BY <1>2, <1>3 DEF IInv, LoadBounded, ResizeConsistent

\* What the invariant says between calls.
LEMMA IdleFacts ==
  ASSUME IInv, pc = "idle"
  PROVE  /\ bucket_count \in 1 .. MaxBuckets /\ bucket_count \in Nat \ {0}
         /\ entries \in [0 .. bucket_count - 1 -> Entry]
         /\ size \in Nat /\ deleted_count \in Nat
         /\ old_bucket_count = 0 /\ cursor = 0 /\ pending = NULL
         /\ old_entries = NoArray
         /\ key_copies = size
         /\ size = Cardinality(SlotsIn(entries, "OCCUPIED"))
         /\ (size + deleted_count) * 100 < bucket_count * 70
<1>1. /\ bucket_count \in 1 .. MaxBuckets /\ MaxBuckets \in Nat
      /\ old_bucket_count = 0 /\ cursor = 0
  BY ConstantsAssumption DEF IInv, TypeOK
<1>2. old_entries \in [0 .. 0 - 1 -> Entry] /\ NoArray \in [0 .. 0 - 1 -> Entry]
  BY <1>1, CallocFacts DEF IInv, TypeOK, NoArray
<1>3. old_entries = NoArray
  BY <1>2
<1>4. QED
  BY <1>1, <1>3 DEF IInv, TypeOK, CountsExact, KeysOwned, Owner, LoadBounded

\* Before a table is created there is nothing to be wrong.
LEMMA InitSound == Init => IInv
<1> SUFFICES ASSUME Init PROVE IInv
  OBVIOUS
<1>1. /\ NoArray \in [0 .. 0 - 1 -> Entry]
      /\ Cardinality(SlotsIn(NoArray, "OCCUPIED")) = 0
      /\ Cardinality(SlotsIn(NoArray, "DELETED")) = 0
      /\ HashesCached(NoArray) /\ DistinctKeys(NoArray) /\ Reachable(NoArray, 0)
  BY CallocFacts DEF NoArray
<1>2. NoReply \in Replies
  BY ReplyType DEF NoReply
<1>3. TypeOK
  BY <1>1, <1>2, ConstantsAssumption DEF Init, TypeOK
<1>4. CountsExact /\ KeysOwned /\ KeysUnique /\ ProbePathsIntact
  BY <1>1 DEF Init, CountsExact, KeysOwned, Owner, KeysUnique, ProbePathsIntact
<1>5. LoadBounded /\ ResizeConsistent
  BY DEF Init, LoadBounded, ResizeConsistent
<1>6. QED
  BY <1>3, <1>4, <1>5 DEF IInv

\* A table whose array is freshly allocated or reset.
LEMMA FreshArray ==
  ASSUME NEW n \in 1 .. MaxBuckets,
         pc' = "idle", bucket_count' = n, entries' = Calloc(n),
         size' = 0, deleted_count' = 0, key_copies' = 0,
         old_entries' = NoArray, old_bucket_count' = 0, cursor' = 0,
         pending' = NULL, ret' \in Replies
  PROVE  IInv'
<1>1. n \in Nat \ {0}
  BY ConstantsAssumption
<1>2. /\ Calloc(n) \in [0 .. n - 1 -> Entry]
      /\ Cardinality(SlotsIn(Calloc(n), "OCCUPIED")) = 0
      /\ Cardinality(SlotsIn(Calloc(n), "DELETED")) = 0
      /\ HashesCached(Calloc(n)) /\ DistinctKeys(Calloc(n))
      /\ Reachable(Calloc(n), n)
  BY <1>1, CallocFacts
<1>3. CountsExact' /\ KeysUnique' /\ ProbePathsIntact'
  BY <1>2 DEF CountsExact, KeysUnique, ProbePathsIntact
<1>4. QED
  BY <1>1, <1>2, <1>3, IdleIInv

\* cashash_create and its variants.
LEMMA CreateSound ==
  ASSUME IInv, NEW n \in Requests, Create(n)
  PROVE  IInv'
<1>1. n \in 1 .. MaxBuckets
  BY ConstantsAssumption DEF Create
<1>2. ret' \in Replies
  BY ReplyType DEF Create
<1>3. /\ old_entries = NoArray /\ old_bucket_count = 0 /\ cursor = 0
      /\ pending = NULL /\ key_copies = 0
  <2>1. /\ pc = "none" /\ bucket_count = 0 /\ old_bucket_count = 0 /\ cursor = 0
        /\ pending = NULL /\ entries \in [0 .. 0 - 1 -> Entry]
        /\ old_entries \in [0 .. 0 - 1 -> Entry]
    BY DEF Create, IInv, TypeOK
  <2>2. /\ NoArray \in [0 .. 0 - 1 -> Entry]
        /\ Cardinality(SlotsIn(NoArray, "OCCUPIED")) = 0
    BY CallocFacts DEF NoArray
  <2>3. entries = NoArray /\ old_entries = NoArray
    BY <2>1, <2>2
  <2>4. QED
    BY <2>1, <2>2, <2>3 DEF IInv, KeysOwned, Owner
<1>4. QED
  BY <1>1, <1>2, <1>3, FreshArray DEF Create, resizeVars

\* The counters stay below the limit that the load test leaves room for.
LEMMA StillBelow ==
  ASSUME NEW n \in Nat, NEW a \in Nat, NEW b \in Nat, NEW c \in Nat, NEW d \in Nat,
         (a + b + 1) * 100 < n * 70, c + d <= a + b + 1
  PROVE  (c + d) * 100 < n * 70
OBVIOUS

\* An insert that need not grow the table, with all its outcomes.
LEMMA InsertSound ==
  ASSUME IInv, NEW k \in Keys, NEW v \in Values, Insert(k, v)
  PROVE  IInv'
<1>1. pc = "idle" /\ pc' = "idle" /\ bucket_count' = bucket_count
  BY DEF Insert
<1>2. /\ entries' \in [0 .. bucket_count - 1 -> Entry]
      /\ size' \in Nat /\ deleted_count' \in Nat
      /\ CountsExact' /\ KeysUnique' /\ ProbePathsIntact'
      /\ key_copies' = key_copies + (size' - size)
      /\ size' + deleted_count' <= size + deleted_count + 1
      /\ ret' \in Replies
  BY <1>1, PlaceSound DEF Insert, IInv
<1>3. (size' + deleted_count') * 100 < bucket_count * 70
  <2>1. (size + deleted_count + 1) * 100 < bucket_count * 70
    BY <1>1, IdleFacts DEF Insert, ShouldGrow
  <2>2. /\ size \in Nat /\ deleted_count \in Nat /\ bucket_count \in Nat
        /\ size' \in Nat /\ deleted_count' \in Nat
        /\ size' + deleted_count' <= size + deleted_count + 1
    BY <1>1, <1>2, IdleFacts
  <2>3. QED
    BY <2>1, <2>2, StillBelow
<1>4. key_copies' = size'
  BY <1>1, <1>2, IdleFacts
<1>5. UNCHANGED resizeVars
  BY DEF Insert
<1>6. QED
  BY <1>1, <1>2, <1>3, <1>4, <1>5, IdleFacts, IdleIInv DEF resizeVars

\* A removal leaves a tombstone, and the counters follow.
LEMMA RemoveSound ==
  ASSUME IInv, NEW k \in Keys \cup BadKeys, Remove(k)
  PROVE  IInv'
<1> DEFINE s == FindSlot(k, Hash[k], FALSE).index
<1>1. /\ pc = "idle" /\ pc' = "idle" /\ bucket_count' = bucket_count
      /\ k \in Keys /\ FindSlot(k, Hash[k], FALSE).found
      /\ entries' = [entries EXCEPT ![s] = DeletedEntry]
      /\ size' = size - 1 /\ deleted_count' = deleted_count + 1
      /\ key_copies' = key_copies - 1 /\ ret' \in Replies
      /\ UNCHANGED resizeVars
  BY ReplyType DEF Remove, Found
<1>2. s \in 0 .. bucket_count - 1 /\ entries[s].state = "OCCUPIED"
  BY <1>1, FindSlotResult DEF IInv
<1> HIDE DEF s
<1>3. /\ bucket_count \in Nat \ {0}
      /\ entries \in [0 .. bucket_count - 1 -> Entry]
  BY <1>1, IdleFacts
<1>4. /\ entries' \in [0 .. bucket_count - 1 -> Entry]
      /\ entries'[s].state = "DELETED"
      /\ \A t \in 0 .. bucket_count - 1 : t # s => entries'[t] = entries[t]
  BY <1>1, <1>2, <1>3, EntryFacts
<1>5. Cardinality(SlotsIn(entries', "OCCUPIED")) =
        Cardinality(SlotsIn(entries, "OCCUPIED")) - 1
  BY <1>2, <1>3, <1>4, WriteSlot
<1>6. Cardinality(SlotsIn(entries', "DELETED")) =
        Cardinality(SlotsIn(entries, "DELETED")) + 1
  BY <1>2, <1>3, <1>4, WriteSlot
<1>7. CountsExact'
  BY <1>1, <1>5, <1>6 DEF IInv, CountsExact
<1>8. /\ HashesCached(entries') /\ DistinctKeys(entries')
      /\ Reachable(entries', bucket_count)
  BY <1>1, <1>2, <1>3, BurySlot DEF IInv, KeysUnique, ProbePathsIntact
<1>9. KeysUnique' /\ ProbePathsIntact'
  BY <1>1, <1>8 DEF KeysUnique, ProbePathsIntact
<1>10. size' \in Nat /\ deleted_count' \in Nat
  <2>1. /\ Cardinality(SlotsIn(entries', "OCCUPIED")) \in Nat
        /\ Cardinality(SlotsIn(entries', "DELETED")) \in Nat
    BY <1>3, <1>4, SlotsFinite
  <2>2. QED
    BY <2>1, <1>7 DEF CountsExact
<1>11. (size' + deleted_count') * 100 < bucket_count * 70 /\ key_copies' = size'
  BY <1>1, IdleFacts
<1>12. QED
  BY <1>1, <1>4, <1>7, <1>9, <1>10, <1>11, IdleFacts, IdleIInv DEF resizeVars

\* A clear resets every entry.
LEMMA ClearSound ==
  ASSUME IInv, Clear
  PROVE  IInv'
<1>1. pc = "idle" /\ ret' \in Replies
  BY ReplyType DEF Clear
<1>2. key_copies' = 0
  BY <1>1, IdleFacts DEF Clear
<1>3. QED
  BY <1>1, <1>2, IdleFacts, FreshArray DEF Clear, resizeVars

\* A destroy releases the array and the keys.
LEMMA DestroySound ==
  ASSUME IInv, Destroy
  PROVE  IInv'
<1>1. pc = "idle" /\ ret' \in Replies
  BY ReplyType DEF Destroy
<1>2. /\ key_copies' = 0 /\ old_entries' = NoArray /\ old_bucket_count' = 0
      /\ cursor' = 0 /\ pending' = NULL /\ pc' = "none" /\ entries' = NoArray
      /\ bucket_count' = 0 /\ size' = 0 /\ deleted_count' = 0
  BY <1>1, IdleFacts DEF Destroy, resizeVars
<1>3. /\ NoArray \in [0 .. 0 - 1 -> Entry]
      /\ Cardinality(SlotsIn(NoArray, "OCCUPIED")) = 0
      /\ Cardinality(SlotsIn(NoArray, "DELETED")) = 0
      /\ HashesCached(NoArray) /\ DistinctKeys(NoArray) /\ Reachable(NoArray, 0)
  BY CallocFacts DEF NoArray
<1>4. TypeOK'
  BY <1>1, <1>2, <1>3, ConstantsAssumption DEF TypeOK
<1>5. CountsExact' /\ KeysOwned' /\ KeysUnique' /\ ProbePathsIntact'
  BY <1>2, <1>3 DEF CountsExact, KeysOwned, Owner, KeysUnique,
                    ProbePathsIntact
<1>6. LoadBounded' /\ ResizeConsistent'
  BY <1>2 DEF LoadBounded, ResizeConsistent
<1>7. QED
  BY <1>4, <1>5, <1>6 DEF IInv

-----------------------------------------------------------------------------
(* The steps of a resize.                                                  *)

\* What the invariant says while an insert resizes.
LEMMA ResizeFacts ==
  ASSUME IInv, pc = "resizing"
  PROVE  /\ bucket_count \in 1 .. MaxBuckets /\ bucket_count \in Nat \ {0}
         /\ entries \in [0 .. bucket_count - 1 -> Entry]
         /\ size \in Nat /\ deleted_count \in Nat /\ deleted_count = 0
         /\ old_bucket_count \in 1 .. MaxBuckets
         /\ old_bucket_count \in Nat \ {0}
         /\ bucket_count = old_bucket_count * 2
         /\ old_entries \in [0 .. old_bucket_count - 1 -> Entry]
         /\ cursor \in 0 .. old_bucket_count
         /\ pending.key \in Keys /\ pending.value \in Values
         /\ key_copies = Cardinality(SlotsIn(old_entries, "OCCUPIED"))
         /\ size = Cardinality(SlotsIn(entries, "OCCUPIED"))
<1>1. /\ bucket_count \in 1 .. MaxBuckets /\ bucket_count \in Nat \ {0}
      /\ old_bucket_count \in 0 .. MaxBuckets
      /\ bucket_count = old_bucket_count * 2
  BY ConstantsAssumption DEF IInv, TypeOK, ResizeConsistent
<1>2. /\ old_bucket_count \in 1 .. MaxBuckets
      /\ old_bucket_count \in Nat \ {0}
  BY <1>1, ConstantsAssumption
<1>3. QED
  BY <1>1, <1>2 DEF IInv, TypeOK, CountsExact, KeysOwned, Owner,
                    ResizeConsistent

\* The growing insert swaps in a new, empty array.
LEMMA BeginResizeSound ==
  ASSUME IInv, NEW k \in Keys, NEW v \in Values, BeginResize(k, v)
  PROVE  IInv'
<1>1. pc = "idle" /\ pc' = "resizing"
  BY DEF BeginResize
<1>2. bucket_count \in Nat \ {0} /\ GrownCount = bucket_count * 2
  BY <1>1, IdleFacts DEF GrownCount
<1>3. /\ old_entries' = entries /\ old_bucket_count' = bucket_count
      /\ bucket_count' = bucket_count * 2 /\ entries' = Calloc(bucket_count * 2)
      /\ size' = 0 /\ deleted_count' = 0 /\ cursor' = 0
      /\ pending' = [key |-> k, value |-> v] /\ UNCHANGED <<key_copies, ret>>
      /\ bucket_count * 2 <= MaxBuckets /\ bucket_count * 2 \in Nat
  BY <1>2 DEF BeginResize
<1>4. /\ Calloc(bucket_count * 2) \in [0 .. bucket_count * 2 - 1 -> Entry]
      /\ SlotsIn(Calloc(bucket_count * 2), "OCCUPIED") = {}
      /\ Cardinality(SlotsIn(Calloc(bucket_count * 2), "OCCUPIED")) = 0
      /\ Cardinality(SlotsIn(Calloc(bucket_count * 2), "DELETED")) = 0
      /\ HashesCached(Calloc(bucket_count * 2))
      /\ DistinctKeys(Calloc(bucket_count * 2))
      /\ Reachable(Calloc(bucket_count * 2), bucket_count * 2)
  BY <1>3, CallocFacts
<1>5. TypeOK'
  <2>1. bucket_count \in 0 .. MaxBuckets /\ bucket_count * 2 \in 1 .. MaxBuckets
    BY <1>1, <1>2, <1>3, IdleFacts, ConstantsAssumption
  <2>2. pending' \in [key : Keys, value : Values]
    BY <1>3
  <2>3. /\ entries' \in [0 .. bucket_count' - 1 -> Entry]
        /\ old_entries' \in [0 .. old_bucket_count' - 1 -> Entry]
        /\ key_copies \in Nat /\ ret \in Replies
    BY <1>1, <1>3, <1>4, IdleFacts DEF IInv, TypeOK
  <2>4. QED
    BY <1>1, <1>2, <1>3, <2>1, <2>2, <2>3 DEF TypeOK
<1>6. CountsExact' /\ KeysUnique' /\ ProbePathsIntact'
  BY <1>3, <1>4 DEF CountsExact, KeysUnique, ProbePathsIntact
<1>7. KeysOwned' /\ LoadBounded'
  BY <1>1, <1>3, IdleFacts DEF KeysOwned, Owner, LoadBounded
<1>8. ResizeConsistent'
  <2>1. Moved' = {}
    <3>1. \A s \in SlotsIn(entries, "OCCUPIED") : s \in Nat
      BY <1>1, IdleFacts DEF SlotsIn
    <3>2. QED
      BY <1>3, <3>1 DEF Moved
  <2>2. /\ HashesCached(entries) /\ DistinctKeys(entries)
        /\ Reachable(entries, bucket_count)
    BY DEF IInv, KeysUnique, ProbePathsIntact
  <2>3. (Cardinality(SlotsIn(entries, "OCCUPIED")) +
         Cardinality(SlotsIn(entries, "DELETED"))) * 100 < bucket_count * 70
    BY <1>1 DEF IInv, CountsExact, LoadBounded
  <2>4. {entries'[s] : s \in SlotsIn(entries', "OCCUPIED")} =
          {old_entries'[s] : s \in Moved'}
    BY <1>3, <1>4, <2>1
  <2>5. size' = Cardinality(Moved')
    BY <1>3, <2>1, FS_EmptySet
  <2>6. QED
    BY <1>3, <2>2, <2>3, <2>4, <2>5 DEF ResizeConsistent
<1>9. QED
  BY <1>5, <1>6, <1>7, <1>8 DEF IInv

\* The loop passes an empty or deleted entry.
LEMMA SkipEntrySound ==
  ASSUME IInv, SkipEntry
  PROVE  IInv'
<1>1. /\ pc = "resizing" /\ cursor < old_bucket_count
      /\ old_entries[cursor].state # "OCCUPIED" /\ cursor' = cursor + 1
      /\ UNCHANGED <<pc, entries, bucket_count, size, deleted_count, key_copies,
                     old_entries, old_bucket_count, pending, ret>>
  BY DEF SkipEntry, tableVars
<1>2. cursor' \in 0 .. old_bucket_count
  BY <1>1, ResizeFacts
<1>3. Moved' = Moved
  <2>1. \A s \in SlotsIn(old_entries, "OCCUPIED") : s \in Nat /\ s # cursor
    BY <1>1, ResizeFacts DEF SlotsIn
  <2>2. cursor \in Nat
    BY <1>1, ResizeFacts
  <2>3. \A s \in SlotsIn(old_entries, "OCCUPIED") : s < cursor + 1 <=> s < cursor
    BY <2>1, <2>2
  <2>4. QED
    BY <1>1, <2>3 DEF Moved
<1>4. TypeOK'
  BY <1>1, <1>2 DEF IInv, TypeOK
<1>5. /\ CountsExact' /\ KeysOwned' /\ LoadBounded' /\ KeysUnique'
      /\ ProbePathsIntact'
  BY <1>1 DEF IInv, CountsExact, KeysOwned, Owner, LoadBounded, KeysUnique,
              ProbePathsIntact
<1>6. ResizeConsistent'
  BY <1>1, <1>3 DEF IInv, ResizeConsistent
<1>7. QED
  BY <1>4, <1>5, <1>6 DEF IInv

\* The loop does not meet the key it moves: the new array holds the entries
\* before the cursor, and the keys of the old array are distinct.
LEMMA MovedKeyIsNew ==
  ASSUME IInv, pc = "resizing", cursor < old_bucket_count,
         old_entries[cursor].state = "OCCUPIED"
  PROVE  /\ cursor \in SlotsIn(old_entries, "OCCUPIED")
         /\ old_entries[cursor].key \in Keys
         /\ old_entries[cursor].value \in Values
         /\ old_entries[cursor] =
              OccupiedEntry(old_entries[cursor].key, old_entries[cursor].value)
         /\ \A s \in SlotsIn(entries, "OCCUPIED") :
              entries[s].key # old_entries[cursor].key
         /\ ~RehashSlot.found
         /\ RehashSlot.index # SIZE_MAX =>
              /\ RehashSlot.index \in 0 .. bucket_count - 1
              /\ entries[RehashSlot.index].state # "OCCUPIED"
              /\ OnPath(entries, bucket_count, old_entries[cursor].key,
                        RehashSlot.index)
<1> DEFINE e == old_entries[cursor]
<1>1. /\ cursor \in 0 .. old_bucket_count - 1
      /\ old_entries \in [0 .. old_bucket_count - 1 -> Entry]
  BY ResizeFacts
<1>2. cursor \in SlotsIn(old_entries, "OCCUPIED")
  BY <1>1 DEF SlotsIn
<1>3. /\ e \in [state : {"OCCUPIED"}, hash : 0 .. SIZE_MAX,
                key : Keys, value : Values]
  <2>1. e \in Entry
    BY <1>1
  <2>2. QED
    BY <2>1 DEF Entry, EmptyEntry, DeletedEntry
<1>4. e.hash = Hash[e.key]
  BY <1>2 DEF IInv, ResizeConsistent, HashesCached
<1>5. e = OccupiedEntry(e.key, e.value)
  BY <1>3, <1>4 DEF OccupiedEntry
<1>6. ASSUME NEW s \in SlotsIn(entries, "OCCUPIED"), entries[s].key = e.key
      PROVE  FALSE
  <2>1. entries[s] \in {old_entries[t] : t \in Moved}
    BY <1>6 DEF IInv, ResizeConsistent
  <2>2. PICK t \in Moved : entries[s] = old_entries[t]
    BY <2>1
  <2>3. t = cursor
    BY <1>2, <1>6, <2>2 DEF IInv, ResizeConsistent, DistinctKeys, Moved
  <2>4. t < cursor /\ cursor \in Nat
    BY <1>1, <2>2 DEF Moved
  <2>5. QED
    BY <2>3, <2>4
<1>7. e.key \in Keys /\ e.value \in Values
  BY <1>3
<1>8. RehashSlot = FindSlot(e.key, Hash[e.key], TRUE)
  BY <1>4 DEF RehashSlot
<1> HIDE DEF e
<1> DEFINE slot == RehashSlot
<1>9. /\ slot.found \in BOOLEAN
      /\ slot.index \in 0 .. bucket_count - 1 \/ slot.index = SIZE_MAX
      /\ slot.found =>
           /\ slot.index \in 0 .. bucket_count - 1
           /\ entries[slot.index].state = "OCCUPIED"
           /\ entries[slot.index].key = e.key
      /\ ~slot.found /\ slot.index # SIZE_MAX =>
           /\ entries[slot.index].state # "OCCUPIED"
           /\ OnPath(entries, bucket_count, e.key, slot.index)
  BY <1>7, <1>8, FindSlotResult DEF IInv
<1> HIDE DEF slot
<1>10. ~slot.found
  <2>1. SUFFICES ASSUME slot.found PROVE FALSE
    BY <1>9
  <2>2. /\ slot.index \in 0 .. bucket_count - 1
        /\ entries[slot.index].state = "OCCUPIED"
        /\ entries[slot.index].key = e.key
    BY <2>1, <1>9
  <2>3. slot.index \in SlotsIn(entries, "OCCUPIED")
    BY <2>2, ResizeFacts DEF SlotsIn
  <2>4. QED
    BY <2>2, <2>3, <1>6
<1>11. QED
  BY <1>2, <1>5, <1>6, <1>7, <1>9, <1>10 DEF e, slot

\* The loop moves an entry to the new array.
LEMMA MoveEntrySound ==
  ASSUME IInv, MoveEntry
  PROVE  IInv'
<1> DEFINE e == old_entries[cursor]
           i == RehashSlot.index
<1>1. /\ pc = "resizing" /\ cursor < old_bucket_count /\ e.state = "OCCUPIED"
      /\ i # SIZE_MAX /\ entries' = [entries EXCEPT ![i] = e]
      /\ size' = size + 1 /\ cursor' = cursor + 1
      /\ UNCHANGED <<pc, bucket_count, deleted_count, key_copies, old_entries,
                     old_bucket_count, pending, ret>>
  BY DEF MoveEntry
<1>2. /\ cursor \in SlotsIn(old_entries, "OCCUPIED")
      /\ e.key \in Keys /\ e.value \in Values
      /\ e = OccupiedEntry(e.key, e.value)
      /\ \A s \in SlotsIn(entries, "OCCUPIED") : entries[s].key # e.key
      /\ i \in 0 .. bucket_count - 1
      /\ entries[i].state # "OCCUPIED"
      /\ OnPath(entries, bucket_count, e.key, i)
  BY <1>1, MovedKeyIsNew
<1>3. e \in Entry /\ e.state = "OCCUPIED"
  BY <1>2, EntryFacts
<1> HIDE DEF e, i
<1>4. /\ bucket_count \in Nat \ {0}
      /\ entries \in [0 .. bucket_count - 1 -> Entry]
      /\ cursor \in 0 .. old_bucket_count /\ old_bucket_count \in Nat
      /\ size \in Nat /\ deleted_count = 0
      /\ size = Cardinality(SlotsIn(entries, "OCCUPIED"))
      /\ old_entries \in [0 .. old_bucket_count - 1 -> Entry]
  BY <1>1, ResizeFacts
<1>5. /\ entries' \in [0 .. bucket_count - 1 -> Entry] /\ entries'[i] = e
      /\ \A t \in 0 .. bucket_count - 1 : t # i => entries'[t] = entries[t]
  BY <1>1, <1>2, <1>3, <1>4
<1>6. CountsExact'
  <2>1. Cardinality(SlotsIn(entries', "OCCUPIED")) =
          Cardinality(SlotsIn(entries, "OCCUPIED")) + 1
    <3>1. entries'[i].state = "OCCUPIED"
      BY <1>3, <1>5
    <3>2. entries[i].state # "OCCUPIED" /\ i \in 0 .. bucket_count - 1
      BY <1>2
    <3>3. bucket_count \in Nat /\ entries \in [0 .. bucket_count - 1 -> Entry]
      BY <1>4
    <3>4. QED
      BY <3>1, <3>2, <3>3, <1>5, WriteSlot
  <2>2. SlotsIn(entries, "DELETED") = {}
    <3>1. Cardinality(SlotsIn(entries, "DELETED")) = 0
      BY <1>4 DEF IInv, CountsExact
    <3>2. IsFiniteSet(SlotsIn(entries, "DELETED"))
      BY <1>4, SlotsFinite
    <3>3. QED
      BY <3>1, <3>2, FS_EmptySet
  <2>3. entries[i].state # "DELETED"
    BY <2>2, <1>2, <1>4 DEF SlotsIn
  <2>4. SlotsIn(entries', "DELETED") = SlotsIn(entries, "DELETED")
    BY <2>3, <1>2, <1>3, <1>4, <1>5, WriteSlot
  <2>5. QED
    BY <2>1, <2>4, <1>1, <1>4 DEF IInv, CountsExact
<1>7. KeysUnique' /\ ProbePathsIntact'
  <2>1. /\ HashesCached(entries) /\ DistinctKeys(entries)
        /\ Reachable(entries, bucket_count)
    BY DEF IInv, KeysUnique, ProbePathsIntact
  <2>2. /\ HashesCached(entries') /\ DistinctKeys(entries')
        /\ Reachable(entries', bucket_count)
    BY <2>1, <1>1, <1>2, <1>4, FillSlot
  <2>3. QED
    BY <2>2, <1>1 DEF KeysUnique, ProbePathsIntact
<1>8. cursor' \in 0 .. old_bucket_count /\ size' \in Nat
  BY <1>1, <1>4
<1>9. TypeOK'
  BY <1>1, <1>5, <1>8 DEF IInv, TypeOK
<1>10. KeysOwned' /\ LoadBounded'
  BY <1>1 DEF IInv, KeysOwned, Owner, LoadBounded
<1>11. Moved' = Moved \cup {cursor} /\ cursor \notin Moved
  <2>1. \A s \in SlotsIn(old_entries, "OCCUPIED") :
          s < cursor + 1 <=> s < cursor \/ s = cursor
    BY <1>4 DEF SlotsIn
  <2>2. ~(cursor < cursor)
    BY <1>4
  <2>3. QED
    BY <2>1, <2>2, <1>1, <1>2 DEF Moved
<1>12. size' = Cardinality(Moved')
  <2>1. IsFiniteSet(SlotsIn(old_entries, "OCCUPIED"))
    BY <1>4, SlotsFinite
  <2>2. IsFiniteSet(Moved)
    BY <2>1, FS_Subset DEF Moved
  <2>3. Cardinality(Moved') = Cardinality(Moved) + 1
    BY <2>2, <1>11, FS_AddElement
  <2>4. QED
    BY <2>3, <1>1 DEF IInv, ResizeConsistent
<1>13. {entries'[s] : s \in SlotsIn(entries', "OCCUPIED")} =
         {old_entries'[s] : s \in Moved'}
  <2>1. /\ SlotsIn(entries', "OCCUPIED") = SlotsIn(entries, "OCCUPIED") \cup {i}
        /\ \A s \in SlotsIn(entries, "OCCUPIED") : entries'[s] = entries[s]
    BY <1>2, <1>3, <1>4, <1>5 DEF SlotsIn
  <2>2. {entries'[s] : s \in SlotsIn(entries', "OCCUPIED")} =
          {entries[s] : s \in SlotsIn(entries, "OCCUPIED")} \cup {e}
    BY <2>1, <1>5
  <2>3. {old_entries'[s] : s \in Moved'} = {old_entries[s] : s \in Moved} \cup {e}
    BY <1>1, <1>11 DEF e
  <2>4. QED
    BY <2>2, <2>3, <1>1 DEF IInv, ResizeConsistent
<1>14. ResizeConsistent'
  BY <1>1, <1>12, <1>13 DEF IInv, ResizeConsistent
<1>15. QED
  BY <1>6, <1>7, <1>9, <1>10, <1>14 DEF IInv

\* The loop finds no slot and brings the old array back.
LEMMA RollBackSound ==
  ASSUME IInv, RollBack
  PROVE  IInv'
<1> DEFINE occupied == Cardinality(SlotsIn(old_entries, "OCCUPIED"))
           deleted  == Cardinality(SlotsIn(old_entries, "DELETED"))
<1>1. /\ pc = "resizing" /\ pc' = "idle" /\ entries' = old_entries
      /\ bucket_count' = old_bucket_count
      /\ size' = occupied /\ deleted_count' = deleted
      /\ ret' = Reply("insert", pending.key, FALSE, FALSE)
      /\ old_entries' = NoArray /\ old_bucket_count' = 0 /\ cursor' = 0
      /\ pending' = NULL /\ key_copies' = key_copies
  BY DEF RollBack, ReleaseResize
<1>2. /\ old_bucket_count \in 1 .. MaxBuckets /\ old_bucket_count \in Nat
      /\ old_entries \in [0 .. old_bucket_count - 1 -> Entry]
      /\ key_copies = occupied /\ pending.key \in Keys
  BY <1>1, ResizeFacts
<1>3. ret' \in Replies
  BY <1>1, <1>2, ReplyType
<1>4. size' \in Nat /\ deleted_count' \in Nat
  BY <1>1, <1>2, SlotsFinite
<1>5. CountsExact' /\ KeysUnique' /\ ProbePathsIntact'
  BY <1>1 DEF IInv, ResizeConsistent, CountsExact, KeysUnique, ProbePathsIntact
<1>6. (size' + deleted_count') * 100 < bucket_count' * 70
  BY <1>1 DEF IInv, ResizeConsistent
<1>7. QED
  BY <1>1, <1>2, <1>3, <1>4, <1>5, <1>6, IdleIInv

\* Twice the length leaves room for one more entry.
LEMMA RoomAfterResize ==
  ASSUME NEW a \in Nat, NEW b \in Nat, NEW n \in Nat \ {0},
         (a + b) * 100 < n * 70
  PROVE  (a + 0 + 1) * 100 < (n * 2) * 70
<1>1. a * 100 < n * 70
  OBVIOUS
<1>2. CASE n = 1
  <2>1. a = 0
    BY <1>1, <1>2
  <2>2. QED
    BY <1>2, <2>1
<1>3. CASE n >= 2
  BY <1>1, <1>3
<1>4. QED
  BY <1>2, <1>3

\* The loop has ended and the insert goes on in the new array.
LEMMA InsertAfterResizeSound ==
  ASSUME IInv, InsertAfterResize
  PROVE  IInv'
<1>1. /\ pc = "resizing" /\ pc' = "idle" /\ bucket_count' = bucket_count
      /\ cursor = old_bucket_count
      /\ Place(pending.key, pending.value)
      /\ old_entries' = NoArray /\ old_bucket_count' = 0 /\ cursor' = 0
      /\ pending' = NULL
  BY DEF InsertAfterResize, ReleaseResize
<1>2. /\ bucket_count \in 1 .. MaxBuckets /\ size \in Nat
      /\ deleted_count = 0 /\ old_bucket_count \in Nat \ {0}
      /\ bucket_count = old_bucket_count * 2
      /\ old_entries \in [0 .. old_bucket_count - 1 -> Entry]
      /\ pending.key \in Keys /\ pending.value \in Values
      /\ key_copies = Cardinality(SlotsIn(old_entries, "OCCUPIED"))
  BY <1>1, ResizeFacts
<1>3. /\ entries' \in [0 .. bucket_count - 1 -> Entry]
      /\ size' \in Nat /\ deleted_count' \in Nat
      /\ CountsExact' /\ KeysUnique' /\ ProbePathsIntact'
      /\ key_copies' = key_copies + (size' - size)
      /\ size' + deleted_count' <= size + deleted_count + 1
      /\ ret' \in Replies
  BY <1>1, <1>2, PlaceSound DEF IInv
<1>4. Moved = SlotsIn(old_entries, "OCCUPIED")
  <2>1. \A s \in SlotsIn(old_entries, "OCCUPIED") : s < old_bucket_count
    BY <1>2 DEF SlotsIn
  <2>2. QED
    BY <1>1, <2>1 DEF Moved
<1>5. size = Cardinality(SlotsIn(old_entries, "OCCUPIED"))
  BY <1>1, <1>4 DEF IInv, ResizeConsistent
<1>6. key_copies' = size'
  BY <1>2, <1>3, <1>5
<1>7. (size' + deleted_count') * 100 < bucket_count * 70
  <2>1. Cardinality(SlotsIn(old_entries, "DELETED")) \in Nat
    BY <1>2, SlotsFinite
  <2>2. (size + Cardinality(SlotsIn(old_entries, "DELETED"))) * 100
           < old_bucket_count * 70
    BY <1>1, <1>5 DEF IInv, ResizeConsistent
  <2>3. (size + deleted_count + 1) * 100 < bucket_count * 70
    BY <2>1, <2>2, <1>2, RoomAfterResize
  <2>4. /\ size \in Nat /\ deleted_count \in Nat /\ bucket_count \in Nat
        /\ size' \in Nat /\ deleted_count' \in Nat
        /\ size' + deleted_count' <= size + deleted_count + 1
    <3>1. size \in Nat /\ deleted_count \in Nat /\ bucket_count \in Nat
      BY <1>1, ResizeFacts
    <3>2. QED
      BY <3>1, <1>3
  <2>5. QED
    BY <2>3, <2>4, StillBelow
<1>8. QED
  BY <1>1, <1>2, <1>3, <1>6, <1>7, IdleIInv

\* The calls that leave the table alone and only reply.
LEMMA RepliesSound ==
  ASSUME IInv, NEW k \in Keys \cup BadKeys,
         \/ k \in BadKeys /\ InsertBadKey(k)
         \/ k \in Keys /\ ResizeFails(k)
         \/ Find(k) \/ RemoveMissing(k)
  PROVE  IInv'
<1>1. UNCHANGED <<pc, tableVars, resizeVars>>
  BY DEF InsertBadKey, ResizeFails, Find, RemoveMissing
<1>2. ret' \in Replies
  <2>1. CASE InsertBadKey(k) \/ ResizeFails(k) \/ RemoveMissing(k)
    BY <2>1, ReplyType DEF InsertBadKey, ResizeFails, RemoveMissing
  <2>2. CASE Find(k)
    <3>1. Lookup(k) \in Values \cup {NULL}
      <4>1. CASE Found(k)
        <5> DEFINE slot == FindSlot(k, Hash[k], FALSE)
        <5>1. k \in Keys /\ slot.found /\ pc = "idle"
          BY <4>1, <2>2 DEF Found, Find
        <5>2. slot.index \in 0 .. bucket_count - 1
              /\ entries[slot.index].state = "OCCUPIED"
          BY <5>1, FindSlotResult DEF IInv
        <5>3. entries[slot.index] \in Entry
          BY <5>1, <5>2, IdleFacts
        <5>4. QED
          BY <5>2, <5>3, <4>1, EntryFacts DEF Lookup
      <4>2. CASE ~Found(k)
        BY <4>2 DEF Lookup
      <4>3. QED
        BY <4>1, <4>2
    <3>2. QED
      BY <2>2, <3>1, ReplyType DEF Find
  <2>3. QED
    BY <2>1, <2>2
<1>3. QED
  BY <1>1, <1>2, OnlyReplies

\* A failed creation leaves no table.
LEMMA CreateFailsSound ==
  ASSUME IInv, NEW n \in Requests, NEW wellFormed \in BOOLEAN,
         CreateFails(n, wellFormed)
  PROVE  IInv'
<1>1. (n # 0 /\ wellFormed) \in BOOLEAN
  OBVIOUS
<1>2. ret' \in Replies
  BY <1>1, ReplyType DEF CreateFails
<1>3. QED
  BY <1>2, OnlyReplies DEF CreateFails

-----------------------------------------------------------------------------
(* The invariant holds of every behaviour.                                 *)

\* Every step of the backend preserves the inductive invariant.
THEOREM IInvInductive == IInv /\ [Next]_vars => IInv'
<1> SUFFICES ASSUME IInv, [Next]_vars PROVE IInv'
  OBVIOUS
<1>1. CASE \E n \in Requests : Create(n)
  BY <1>1, CreateSound
<1>2. CASE \E n \in Requests, wellFormed \in BOOLEAN : CreateFails(n, wellFormed)
  BY <1>2, CreateFailsSound
<1>3. CASE \E k \in BadKeys : InsertBadKey(k)
  BY <1>3, RepliesSound
<1>4. CASE \E k \in Keys, v \in Values : Insert(k, v)
  BY <1>4, InsertSound
<1>5. CASE \E k \in Keys : ResizeFails(k)
  BY <1>5, RepliesSound
<1>6. CASE \E k \in Keys, v \in Values : BeginResize(k, v)
  BY <1>6, BeginResizeSound
<1>7. CASE SkipEntry
  BY <1>7, SkipEntrySound
<1>8. CASE MoveEntry
  BY <1>8, MoveEntrySound
<1>9. CASE RollBack
  BY <1>9, RollBackSound
<1>10. CASE InsertAfterResize
  BY <1>10, InsertAfterResizeSound
<1>11. CASE \E k \in Keys \cup BadKeys : Find(k) \/ RemoveMissing(k)
  BY <1>11, RepliesSound
<1>12. CASE \E k \in Keys \cup BadKeys : Remove(k)
  BY <1>12, RemoveSound
<1>13. CASE Clear
  BY <1>13, ClearSound
<1>14. CASE Destroy
  BY <1>14, DestroySound
<1>15. CASE UNCHANGED vars
  <2>1. UNCHANGED <<pc, tableVars, resizeVars>> /\ ret' = ret
    BY <1>15 DEF vars
  <2>2. QED
    BY <2>1, OnlyReplies DEF IInv, TypeOK
<1>16. QED
  BY <1>1, <1>2, <1>3, <1>4, <1>5, <1>6, <1>7, <1>8, <1>9, <1>10, <1>11,
     <1>12, <1>13, <1>14, <1>15 DEF Next, ResizeStep

\* The inductive invariant holds in every state of every behaviour.
THEOREM SpecIInv == Spec => []IInv
<1>1. Init => IInv
  BY InitSound
<1>2. IInv /\ [Next]_vars => IInv'
  BY IInvInductive
<1>3. QED
  BY <1>1, <1>2, PTL DEF Spec

\* Every variable keeps its type, in and between calls.
THEOREM SpecTypeOK == Spec => []TypeOK
<1>1. IInv => TypeOK
  BY DEF IInv
<1>2. QED
  BY <1>1, SpecIInv, PTL

\* size and deleted_count, which cashash_oa_should_grow trusts, count the
\* occupied and the deleted entries in every state, whatever the probing
\* strategy, the hash functions and the moment a resize fails.
THEOREM SpecCountsExact == Spec => []CountsExact
<1>1. IInv => CountsExact
  BY DEF IInv
<1>2. QED
  BY <1>1, SpecIInv, PTL

\* No sequence of calls leaks a copy of a key or destroys one twice: a failed
\* or rolled back insert, a clear and a destroy included.
THEOREM SpecKeysOwned == Spec => []KeysOwned
<1>1. IInv => KeysOwned
  BY DEF IInv
<1>2. QED
  BY <1>1, SpecIInv, PTL

\* Between calls fewer than 70% of the entries are occupied or deleted: every
\* probing loop of the next call has an empty slot that could stop it.
THEOREM SpecLoadBounded == Spec => []LoadBounded
<1>1. IInv => LoadBounded
  BY DEF IInv
<1>2. QED
  BY <1>1, SpecIInv, PTL

\* No key is stored twice, although cashash_oa_find_slot hands out tombstones.
THEOREM SpecKeysUnique == Spec => []KeysUnique
<1>1. IInv => KeysUnique
  BY DEF IInv
<1>2. QED
  BY <1>1, SpecIInv, PTL

\* A stored entry stays reachable from its key's hash: no removal, reuse of a
\* tombstone, growth or roll-back hides one.
THEOREM SpecProbePathsIntact == Spec => []ProbePathsIntact
<1>1. IInv => ProbePathsIntact
  BY DEF IInv
<1>2. QED
  BY <1>1, SpecIInv, PTL

\* In the middle of cashash_oa_resize the new array holds exactly the entries
\* the loop has passed, and the old one is fit to be brought back.
THEOREM SpecResizeConsistent == Spec => []ResizeConsistent
<1>1. IInv => ResizeConsistent
  BY DEF IInv
<1>2. QED
  BY <1>1, SpecIInv, PTL

-----------------------------------------------------------------------------
(* The backend implements the abstract map.                                *)

\* The entries stored in an array.
Stored(array) == {array[s] : s \in SlotsIn(array, "OCCUPIED")}

\* The map of an array is the map of the entries stored in it.
LEMMA ContentsOfEntries ==
  ASSUME NEW array, DistinctKeys(array)
  PROVE  OneEntryPerKey(Stored(array)) /\ Contents(array) = MapOf(Stored(array))
<1>1. OneEntryPerKey(Stored(array))
  BY DEF OneEntryPerKey, Stored, DistinctKeys
<1>2. {array[s].key : s \in SlotsIn(array, "OCCUPIED")} = KeysOf(Stored(array))
  BY DEF KeysOf, Stored
<1>3. ASSUME NEW k \in KeysOf(Stored(array))
      PROVE  array[CHOOSE s \in SlotsIn(array, "OCCUPIED") : array[s].key = k] =
               CHOOSE e \in Stored(array) : e.key = k
  <2> DEFINE s == CHOOSE s \in SlotsIn(array, "OCCUPIED") : array[s].key = k
             e == CHOOSE e \in Stored(array) : e.key = k
  <2>1. \E t \in SlotsIn(array, "OCCUPIED") : array[t].key = k
    BY <1>2
  <2>2. s \in SlotsIn(array, "OCCUPIED") /\ array[s].key = k
    BY <2>1
  <2>3. e \in Stored(array) /\ e.key = k
    BY <2>1 DEF Stored
  <2>4. array[s] \in Stored(array)
    BY <2>2 DEF Stored
  <2>5. QED
    BY <2>2, <2>3, <2>4, <1>1 DEF OneEntryPerKey
<1> DEFINE f(k) == array[CHOOSE s \in SlotsIn(array, "OCCUPIED") : array[s].key = k].value
           g(k) == (CHOOSE e \in Stored(array) : e.key = k).value
<1>4. \A k \in KeysOf(Stored(array)) : f(k) = g(k)
  BY <1>3
<1>5. Contents(array) = [k \in KeysOf(Stored(array)) |-> f(k)]
  BY <1>2 DEF Contents
<1>6. MapOf(Stored(array)) = [k \in KeysOf(Stored(array)) |-> g(k)]
  BY DEF MapOf
<1> HIDE DEF f, g
<1>7. QED
  BY <1>1, <1>4, <1>5, <1>6

\* The array that owns the keys has no key twice, before and after a step.
LEMMA OwnerKeys ==
  /\ IInv => DistinctKeys(Owner)
  /\ IInv' => DistinctKeys(Owner')
BY DEF IInv, KeysUnique, ResizeConsistent, Owner

\* Only the slot s is written: that of k, or one that is free when k is not
\* stored.
WrittenFor(k, new, array, n, s) ==
  /\ \A t \in 0 .. n - 1 : t # s => new[t] = array[t]
  /\ \A t \in SlotsIn(array, "OCCUPIED") : array[t].key = k <=> t = s

\* What such a write does to the stored entries.
LEMMA StoredAfterWrite ==
  ASSUME NEW n \in Nat, NEW array \in [0 .. n - 1 -> Entry],
         NEW new \in [0 .. n - 1 -> Entry], NEW s \in 0 .. n - 1, NEW k,
         WrittenFor(k, new, array, n, s)
  PROVE  /\ new[s].state = "OCCUPIED" =>
              Stored(new) = {e \in Stored(array) : e.key # k} \cup {new[s]}
         /\ new[s].state # "OCCUPIED" =>
              Stored(new) = {e \in Stored(array) : e.key # k}
<1>1. \A t \in 0 .. n - 1 : t # s =>
        (t \in SlotsIn(new, "OCCUPIED") <=>
           t \in SlotsIn(array, "OCCUPIED") /\ array[t].key # k)
  BY DEF SlotsIn, WrittenFor
<1>2. /\ SlotsIn(new, "OCCUPIED") \subseteq 0 .. n - 1
      /\ SlotsIn(array, "OCCUPIED") \subseteq 0 .. n - 1
      /\ s \in SlotsIn(new, "OCCUPIED") <=> new[s].state = "OCCUPIED"
  BY DEF SlotsIn
<1>3. ASSUME NEW e \in Stored(new), e # new[s]
      PROVE  e \in {d \in Stored(array) : d.key # k}
  BY <1>1, <1>2, <1>3 DEF Stored, WrittenFor
<1>4. ASSUME NEW e \in Stored(array), e.key # k
      PROVE  e \in Stored(new)
  BY <1>1, <1>2, <1>4 DEF Stored, WrittenFor
<1>5. new[s].state = "OCCUPIED" => new[s] \in Stored(new)
  BY <1>2 DEF Stored
<1>6. new[s].state # "OCCUPIED" => new[s] \notin Stored(new)
  BY DEF Stored, SlotsIn
<1>7. QED
  BY <1>3, <1>4, <1>5, <1>6

\* The search finds what the map binds, and returns the value it binds it to.
LEMMA SearchMap ==
  ASSUME IInv, pc = "idle", NEW k \in Keys \cup BadKeys
  PROVE  /\ Found(k) <=> k \in DOMAIN Contents(Owner)
         /\ Lookup(k) = IF k \in DOMAIN Contents(Owner)
                        THEN Contents(Owner)[k] ELSE NULL
<1> DEFINE slot == FindSlot(k, Hash[k], FALSE)
<1>1. Owner = entries
  BY DEF Owner
<1>2. DistinctKeys(entries)
  BY <1>1, OwnerKeys
<1>3. /\ DOMAIN Contents(entries) = KeysOf(Stored(entries))
      /\ \A e \in Stored(entries) : /\ e.key \in KeysOf(Stored(entries))
                                    /\ Contents(entries)[e.key] = e.value
  BY <1>2, ContentsOfEntries, MapOfEntry
<1>4. entries \in [0 .. bucket_count - 1 -> Entry]
  BY IdleFacts
<1>5. CASE Found(k)
  <2>1. k \in Keys /\ slot.found
    BY <1>5 DEF Found
  <2>2. /\ slot.index \in 0 .. bucket_count - 1
        /\ entries[slot.index].state = "OCCUPIED"
        /\ entries[slot.index].key = k
    BY <2>1, FindSlotResult DEF IInv
  <2>3. Lookup(k) = entries[slot.index].value
    BY <1>5 DEF Lookup
  <2> HIDE DEF slot
  <2>4. slot.index \in SlotsIn(entries, "OCCUPIED")
    BY <2>2, <1>4 DEF SlotsIn
  <2>5. entries[slot.index] \in Stored(entries)
    BY <2>4 DEF Stored
  <2>6. QED
    BY <1>1, <1>3, <1>5, <2>2, <2>3, <2>5
<1>6. CASE ~Found(k)
  <2>1. \A s \in SlotsIn(entries, "OCCUPIED") : entries[s].key # k
    <3>1. CASE k \in Keys
      <4>1. ~slot.found
        BY <1>6, <3>1 DEF Found
      <4>2. QED
        BY <3>1, <4>1, FindSlotResult DEF IInv
    <3>2. CASE k \in BadKeys
      <4>1. \A s \in SlotsIn(entries, "OCCUPIED") : entries[s].key \in Keys
        BY <1>4, EntryFacts DEF SlotsIn
      <4>2. QED
        BY <3>2, <4>1, KeyAssumption
    <3>3. QED
      BY <3>1, <3>2
  <2>2. k \notin KeysOf(Stored(entries))
    BY <2>1 DEF KeysOf, Stored
  <2>3. Lookup(k) = NULL
    BY <1>6 DEF Lookup
  <2>4. QED
    BY <1>1, <1>3, <1>6, <2>2, <2>3
<1>7. QED
  BY <1>5, <1>6

\* The two modules mean the same by a reply.
LEMMA SameReply ==
  \A op, k, result, oom : LaxMap!Reply(op, k, result, oom) = Reply(op, k, result, oom)
BY DEF LaxMap!Reply, Reply

\* The map of no entries is the empty map.
LEMMA EmptyArrayMap ==
  ASSUME NEW n \in Nat
  PROVE  Contents(Calloc(n)) = LaxMap!NoKeys
<1>1. SlotsIn(Calloc(n), "OCCUPIED") = {}
  BY CallocFacts
<1>2. {Calloc(n)[s].key : s \in SlotsIn(Calloc(n), "OCCUPIED")} = {}
  BY <1>1
<1>3. QED
  BY <1>2 DEF Contents, LaxMap!NoKeys

\* An entry for k, in a free slot or in the place of an older one, binds k.
LEMMA EntryBinds ==
  ASSUME NEW old, NEW new, DistinctKeys(old), DistinctKeys(new),
         NEW k \in Keys, NEW v \in Values,
         Stored(new) = {e \in Stored(old) : e.key # k} \cup {OccupiedEntry(k, v)}
  PROVE  Contents(new) = LaxMap!Bind(Contents(old), k, v)
<1>1. OccupiedEntry(k, v).key = k /\ OccupiedEntry(k, v).value = v
  BY DEF OccupiedEntry
<1>2. Rebound(Stored(new), Stored(old), OccupiedEntry(k, v))
  BY <1>1 DEF Rebound
<1>3. MapOf(Stored(new)) = WithKey(MapOf(Stored(old)), OccupiedEntry(k, v).key,
                                   OccupiedEntry(k, v).value)
  BY <1>2, ContentsOfEntries, MapOfBind
<1>4. QED
  BY <1>1, <1>3, ContentsOfEntries DEF WithKey, LaxMap!Bind

\* Burying the entry of k, if there is one, unbinds k.
LEMMA EntryUnbinds ==
  ASSUME NEW old, NEW new, DistinctKeys(old), DistinctKeys(new), NEW k,
         Stored(new) = {e \in Stored(old) : e.key # k}
  PROVE  Contents(new) = LaxMap!Unbind(Contents(old), k)
<1>1. MapOf(Stored(new)) = [x \in DOMAIN MapOf(Stored(old)) \ {k} |-> MapOf(Stored(old))[x]]
  BY ContentsOfEntries, MapOfUnbind
<1>2. QED
  BY <1>1, ContentsOfEntries DEF LaxMap!Unbind, LaxMap!Restrict

\* The part of an insert after the growth check binds the key, or fails and
\* leaves the array alone.
LEMMA PlaceMaps ==
  ASSUME TypeOK, pc # "none", KeysUnique, ProbePathsIntact,
         NEW k \in Keys, NEW v \in Values, Place(k, v)
  PROVE  \/ /\ Stored(entries') =
                 {e \in Stored(entries) : e.key # k} \cup {OccupiedEntry(k, v)}
            /\ ret' = Reply("insert", k, TRUE, FALSE)
         \/ entries' = entries /\ \E oom \in BOOLEAN : ret' = Reply("insert", k, FALSE, oom)
<1> DEFINE slot == FindSlot(k, Hash[k], TRUE)
           n == bucket_count
<1>1. n \in Nat /\ entries \in [0 .. n - 1 -> Entry]
  BY NoLoadOverflow, ConstantsAssumption DEF TypeOK
<1>2. /\ slot.found \in BOOLEAN
      /\ slot.index \in 0 .. n - 1 \/ slot.index = SIZE_MAX
      /\ slot.found =>
           /\ slot.index \in 0 .. n - 1
           /\ entries[slot.index].state = "OCCUPIED"
           /\ entries[slot.index].key = k
      /\ ~slot.found /\ slot.index # SIZE_MAX =>
           entries[slot.index].state # "OCCUPIED"
      /\ ~slot.found =>
           \A s \in SlotsIn(entries, "OCCUPIED") : entries[s].key # k
  BY FindSlotResult
<1>3. Overwrite(slot, k, v) \/ NoSlot(slot, k) \/ CopyKeyFails(slot, k)
        \/ Occupy(slot, k, v)
  BY DEF Place
<1> HIDE DEF slot
<1>4. CASE NoSlot(slot, k) \/ CopyKeyFails(slot, k)
  BY <1>4 DEF NoSlot, CopyKeyFails
<1>5. CASE Overwrite(slot, k, v) \/ Occupy(slot, k, v)
  <2> DEFINE s == slot.index
  <2>1. s \in 0 .. n - 1 /\ ret' = Reply("insert", k, TRUE, FALSE)
    BY <1>2, <1>5 DEF Overwrite, Occupy
  <2>2. entries' = [entries EXCEPT ![s] = OccupiedEntry(k, v)]
    <3>1. CASE Occupy(slot, k, v)
      BY <3>1 DEF Occupy
    <3>2. CASE Overwrite(slot, k, v)
      <4>1. slot.found /\ entries' = [entries EXCEPT ![s].value = v]
        BY <3>2 DEF Overwrite
      <4>2. s \in SlotsIn(entries, "OCCUPIED") /\ entries[s].key = k
        BY <4>1, <1>1, <1>2 DEF SlotsIn
      <4>3. entries[s].hash = Hash[k]
        BY <4>2 DEF ProbePathsIntact, HashesCached
      <4>4. entries[s] \in [state : {"OCCUPIED"}, hash : 0 .. SIZE_MAX,
                            key : Keys, value : Values]
        <5>1. entries[s] \in Entry /\ entries[s].state = "OCCUPIED"
          BY <2>1, <4>2, <1>1 DEF SlotsIn
        <5>2. QED
          BY <5>1 DEF Entry, EmptyEntry, DeletedEntry
      <4>5. [entries[s] EXCEPT !.value = v] = OccupiedEntry(k, v)
        BY <4>2, <4>3, <4>4 DEF OccupiedEntry
      <4>6. QED
        BY <4>1, <4>5, <2>1, <1>1
    <3>3. QED
      BY <1>5, <3>1, <3>2
  <2>3. OccupiedEntry(k, v) \in Entry /\ OccupiedEntry(k, v).state = "OCCUPIED"
    BY EntryFacts
  <2> HIDE DEF s
  <2>4. /\ entries' \in [0 .. n - 1 -> Entry] /\ entries'[s] = OccupiedEntry(k, v)
        /\ \A t \in 0 .. n - 1 : t # s => entries'[t] = entries[t]
    BY <2>1, <2>2, <2>3, <1>1
  <2>5. \A t \in SlotsIn(entries, "OCCUPIED") : entries[t].key = k <=> t = s
    BY <2>1, <1>1, <1>2, <1>5 DEF SlotsIn, KeysUnique, DistinctKeys, s, Overwrite, Occupy
  <2>6. Stored(entries') = {e \in Stored(entries) : e.key # k} \cup {entries'[s]}
    <3>1. entries'[s].state = "OCCUPIED"
      BY <2>3, <2>4
    <3>2. WrittenFor(k, entries', entries, n, s)
      BY <2>4, <2>5 DEF WrittenFor
    <3>3. QED
      BY <3>1, <3>2, <2>1, <2>4, <1>1, StoredAfterWrite
  <2>7. QED
    BY <2>1, <2>4, <2>6
<1>6. QED
  BY <1>3, <1>4, <1>5

\* Creating a table, and failing to create one.
LEMMA CreateMaps ==
  ASSUME IInv, NEW n \in Requests, NEW wellFormed \in BOOLEAN,
         Create(n) \/ CreateFails(n, wellFormed)
  PROVE  LaxMap!Create \/ \E oom \in BOOLEAN : LaxMap!CreateRefused(oom)
<1>1. CASE Create(n)
  <2>1. Contents(Owner)' = LaxMap!NoKeys
    <3>1. n \in Nat /\ Owner' = Calloc(n)
      BY <1>1, ConstantsAssumption DEF Create, Owner
    <3>2. QED
      BY <3>1, EmptyArrayMap
  <2>2. LaxMap!Create
    BY <1>1, <2>1, SameReply DEF Create, LaxMap!Create
  <2>3. QED
    BY <2>2
<1>2. CASE CreateFails(n, wellFormed)
  <2>1. Contents(Owner)' = Contents(Owner)
    BY <1>2 DEF CreateFails, Owner, tableVars, resizeVars
  <2>2. LaxMap!CreateRefused(n # 0 /\ wellFormed)
    BY <1>2, <2>1, SameReply DEF CreateFails, LaxMap!CreateRefused
  <2>3. QED
    BY <2>2
<1>3. QED
  BY <1>1, <1>2

\* Inserting, with or without a resize before it.
LEMMA InsertMaps ==
  ASSUME IInv, IInv', NEW k \in Keys, NEW v \in Values,
         pc # "none", pc' = "idle", Place(k, v),
         Stored(entries) = Stored(Owner), DistinctKeys(entries)
  PROVE  LaxMap!Insert(k, v) \/ \E oom \in BOOLEAN : LaxMap!InsertRefused(k, oom)
<1>1. Owner' = entries' /\ DistinctKeys(Owner') /\ DistinctKeys(Owner)
  BY OwnerKeys DEF Owner
<1>2. Contents(entries) = Contents(Owner)
  BY <1>1, ContentsOfEntries
<1>3. CASE /\ Stored(entries') =
                {e \in Stored(entries) : e.key # k} \cup {OccupiedEntry(k, v)}
           /\ ret' = Reply("insert", k, TRUE, FALSE)
  <2>1. Contents(Owner)' = LaxMap!Bind(Contents(Owner), k, v)
    BY <1>1, <1>2, <1>3, EntryBinds
  <2>2. QED
    BY <1>3, <2>1, SameReply DEF LaxMap!Insert
<1>4. CASE entries' = entries /\ \E oom \in BOOLEAN : ret' = Reply("insert", k, FALSE, oom)
  <2>1. PICK oom \in BOOLEAN : ret' = Reply("insert", k, FALSE, oom)
    BY <1>4
  <2>2. Contents(Owner)' = Contents(Owner)
    BY <1>1, <1>2, <1>4
  <2>3. LaxMap!InsertRefused(k, oom)
    BY <2>1, <2>2, SameReply DEF LaxMap!InsertRefused
  <2>4. QED
    BY <2>3
<1>5. QED
  BY <1>3, <1>4, PlaceMaps DEF IInv

\* Finding a key.
LEMMA FindMaps ==
  ASSUME IInv, NEW k \in Keys \cup BadKeys, Find(k)
  PROVE  LaxMap!Find(k)
<1>1. pc = "idle" /\ pc' = pc /\ ret' = Reply("find", k, Lookup(k), FALSE)
  BY DEF Find
<1>2. Contents(Owner)' = Contents(Owner)
  BY DEF Find, Owner, tableVars, resizeVars
<1>3. QED
  BY <1>1, <1>2, SearchMap, SameReply DEF LaxMap!Find

\* Removing a key, whether it is there or not.
LEMMA RemoveMaps ==
  ASSUME IInv, IInv', NEW k \in Keys \cup BadKeys, Remove(k) \/ RemoveMissing(k)
  PROVE  LaxMap!Remove(k)
<1>1. pc = "idle" /\ pc' = pc /\ Owner = entries /\ Owner' = entries'
  BY DEF Remove, RemoveMissing, Owner
<1>2. Found(k) <=> k \in DOMAIN Contents(Owner)
  BY <1>1, SearchMap
<1>3. DistinctKeys(entries) /\ DistinctKeys(entries')
  BY <1>1, OwnerKeys
<1>4. /\ ret' = Reply("remove", k, k \in DOMAIN Contents(Owner), FALSE)
      /\ Stored(entries') = {e \in Stored(entries) : e.key # k}
  <2>1. CASE Remove(k)
    <3> DEFINE s == FindSlot(k, Hash[k], FALSE).index
               n == bucket_count
    <3>1. /\ k \in Keys /\ FindSlot(k, Hash[k], FALSE).found
          /\ entries' = [entries EXCEPT ![s] = DeletedEntry]
          /\ ret' = Reply("remove", k, TRUE, FALSE) /\ Found(k)
      BY <2>1 DEF Remove, Found
    <3>2. /\ s \in 0 .. n - 1 /\ entries[s].state = "OCCUPIED"
          /\ entries[s].key = k
      BY <1>1, <3>1, FindSlotResult DEF IInv
    <3> HIDE DEF s
    <3>3. n \in Nat /\ entries \in [0 .. n - 1 -> Entry]
      BY <1>1, IdleFacts
    <3>4. /\ entries' \in [0 .. n - 1 -> Entry] /\ entries'[s].state # "OCCUPIED"
          /\ \A t \in 0 .. n - 1 : t # s => entries'[t] = entries[t]
      BY <3>1, <3>2, <3>3, EntryFacts
    <3>5. \A t \in SlotsIn(entries, "OCCUPIED") : entries[t].key = k <=> t = s
      BY <3>2, <3>3, <1>3 DEF SlotsIn, DistinctKeys
    <3>6. WrittenFor(k, entries', entries, n, s)
      BY <3>4, <3>5 DEF WrittenFor
    <3>7. Stored(entries') = {e \in Stored(entries) : e.key # k}
      BY <3>2, <3>3, <3>4, <3>6, StoredAfterWrite
    <3>8. (k \in DOMAIN Contents(Owner)) = TRUE
      BY <1>2, <3>1
    <3>9. QED
      BY <3>1, <3>7, <3>8
  <2>2. CASE RemoveMissing(k)
    <3>1. ~Found(k) /\ entries' = entries /\ ret' = Reply("remove", k, FALSE, FALSE)
      BY <2>2 DEF RemoveMissing, tableVars
    <3>2. (k \in DOMAIN Contents(Owner)) = FALSE
      BY <1>2, <3>1
    <3>3. k \notin KeysOf(Stored(entries))
      BY <3>2, <1>1, <1>3, ContentsOfEntries, MapOfEntry
    <3>4. {e \in Stored(entries) : e.key # k} = Stored(entries)
      BY <3>3 DEF KeysOf
    <3>5. QED
      BY <3>1, <3>2, <3>4
  <2>3. QED
    BY <2>1, <2>2
<1>5. Contents(Owner)' = LaxMap!Unbind(Contents(Owner), k)
  BY <1>1, <1>3, <1>4, EntryUnbinds
<1>6. QED
  BY <1>1, <1>4, <1>5, SameReply DEF LaxMap!Remove

\* A step of the backend is a step of the abstract map, or none: those of a
\* resize are none until the last, which is the insert or its refusal.
THEOREM StepImplementsLaxMap == IInv /\ [Next]_vars => [LaxMap!Next]_LaxMap!vars
<1> SUFFICES ASSUME IInv, [Next]_vars PROVE [LaxMap!Next]_LaxMap!vars
  OBVIOUS
<1> USE DEF LaxMap!Next
<1>1. IInv'
  BY IInvInductive
<1>2. CASE \/ \E n \in Requests : Create(n)
           \/ \E n \in Requests, wellFormed \in BOOLEAN : CreateFails(n, wellFormed)
  BY <1>2, CreateMaps
<1>3. CASE \E k \in Keys \cup BadKeys :
             (k \in BadKeys /\ InsertBadKey(k)) \/ (k \in Keys /\ ResizeFails(k))
  <2>1. PICK k \in Keys \cup BadKeys :
               (k \in BadKeys /\ InsertBadKey(k)) \/ (k \in Keys /\ ResizeFails(k))
    BY <1>3
  <2>2. PICK oom \in BOOLEAN : ret' = Reply("insert", k, FALSE, oom)
    BY <2>1 DEF InsertBadKey, ResizeFails
  <2>3. pc = "idle" /\ pc' = pc /\ Contents(Owner)' = Contents(Owner)
    BY <2>1 DEF InsertBadKey, ResizeFails, tableVars, resizeVars, Owner
  <2>4. LaxMap!InsertRefused(k, oom)
    BY <2>1, <2>2, <2>3, SameReply DEF LaxMap!InsertRefused
  <2>5. QED
    BY <2>4
<1>4. CASE \E k \in Keys, v \in Values : Insert(k, v)
  <2>1. PICK k \in Keys, v \in Values : Insert(k, v)
    BY <1>4
  <2>2. pc # "none" /\ pc' = "idle" /\ Place(k, v) /\ Owner = entries
    BY <2>1 DEF Insert, Owner
  <2>3. LaxMap!Insert(k, v) \/ \E oom \in BOOLEAN : LaxMap!InsertRefused(k, oom)
    BY <1>1, <2>2, OwnerKeys, InsertMaps
  <2>4. QED
    BY <2>3
<1>5. CASE \E k \in Keys, v \in Values : BeginResize(k, v)
  <2>1. pc = "idle" /\ pc' = "resizing" /\ ret' = ret /\ old_entries' = entries
    BY <1>5 DEF BeginResize
  <2>2. Contents(Owner)' = Contents(Owner)
    BY <2>1 DEF Owner
  <2>3. QED
    BY <2>1, <2>2 DEF LaxMap!vars
<1>6. CASE SkipEntry \/ MoveEntry
  <2>1. pc = "resizing" /\ pc' = pc /\ ret' = ret /\ old_entries' = old_entries
    BY <1>6 DEF SkipEntry, MoveEntry
  <2>2. Contents(Owner)' = Contents(Owner)
    BY <2>1 DEF Owner
  <2>3. QED
    BY <2>1, <2>2 DEF LaxMap!vars
<1>7. CASE RollBack
  <2>1. /\ pc = "resizing" /\ pc' = "idle" /\ entries' = old_entries
        /\ ret' = Reply("insert", pending.key, FALSE, FALSE)
    BY <1>7 DEF RollBack, ReleaseResize
  <2>2. Contents(Owner)' = Contents(Owner)
    BY <2>1 DEF Owner
  <2>3. pending.key \in Keys
    BY <2>1, ResizeFacts
  <2>4. LaxMap!InsertRefused(pending.key, FALSE)
    BY <2>1, <2>2, SameReply DEF LaxMap!InsertRefused
  <2>5. QED
    BY <2>3, <2>4
<1>8. CASE InsertAfterResize
  <2> DEFINE k == pending.key
             v == pending.value
  <2>1. /\ pc = "resizing" /\ pc' = "idle" /\ cursor = old_bucket_count
        /\ Place(k, v)
    BY <1>8 DEF InsertAfterResize, ReleaseResize
  <2>2. /\ k \in Keys /\ v \in Values /\ old_bucket_count \in Nat
        /\ old_entries \in [0 .. old_bucket_count - 1 -> Entry]
    BY <2>1, ResizeFacts
  <2>3. Stored(entries) = Stored(Owner)
    <3>1. \A s \in SlotsIn(old_entries, "OCCUPIED") : s < old_bucket_count
      BY <2>2 DEF SlotsIn
    <3>2. Moved = SlotsIn(old_entries, "OCCUPIED")
      BY <2>1, <3>1 DEF Moved
    <3>3. QED
      BY <2>1, <3>2 DEF IInv, ResizeConsistent, Stored, Owner
  <2>4. DistinctKeys(entries)
    BY DEF IInv, KeysUnique
  <2> HIDE DEF k, v
  <2>5. LaxMap!Insert(k, v) \/ \E oom \in BOOLEAN : LaxMap!InsertRefused(k, oom)
    BY <1>1, <2>1, <2>2, <2>3, <2>4, InsertMaps
  <2>6. QED
    BY <2>2, <2>5
<1>9. CASE \E k \in Keys \cup BadKeys : Find(k) \/ Remove(k) \/ RemoveMissing(k)
  BY <1>1, <1>9, FindMaps, RemoveMaps
<1>10. CASE Clear \/ Destroy
  <2>1. Contents(Owner)' = LaxMap!NoKeys
    <3>1. CASE Clear
      <4>1. bucket_count \in Nat /\ Owner' = Calloc(bucket_count)
        BY <3>1, IdleFacts DEF Clear, Owner
      <4>2. QED
        BY <4>1, EmptyArrayMap
    <3>2. CASE Destroy
      BY <3>2, EmptyArrayMap DEF Destroy, Owner, NoArray
    <3>3. QED
      BY <1>10, <3>1, <3>2
  <2>2. LaxMap!Clear \/ LaxMap!Destroy
    BY <1>10, <2>1, SameReply DEF Clear, Destroy, LaxMap!Clear, LaxMap!Destroy
  <2>3. QED
    BY <2>2
<1>11. CASE UNCHANGED vars
  BY <1>11 DEF vars, tableVars, resizeVars, Owner, LaxMap!vars
<1> HIDE DEF LaxMap!Next
<1>12. QED
  BY <1>2, <1>3, <1>4, <1>5, <1>6, <1>7, <1>8, <1>9, <1>10, <1>11
     DEF Next, ResizeStep

\* The backend implements the abstract map that may refuse an insert, for
\* every probing strategy, set of keys, hash functions and memory size: a find
\* returns what was last inserted, and a failed insert, even one that rolled
\* back a resize, leaves the contents alone.
THEOREM SpecImplementsLaxMap == Spec => ImplementsLaxMap
<1>1. Init => LaxMap!Init
  <2> SUFFICES ASSUME Init PROVE LaxMap!Init
    OBVIOUS
  <2>1. Contents(Owner) = LaxMap!NoKeys
    BY EmptyArrayMap DEF Init, Owner, NoArray
  <2>2. ret = LaxMap!NoReply /\ pc = "none"
    BY SameReply DEF Init, NoReply, LaxMap!NoReply
  <2>3. QED
    BY <2>1, <2>2 DEF LaxMap!Init
<1>2. IInv /\ [Next]_vars => [LaxMap!Next]_LaxMap!vars
  BY StepImplementsLaxMap
<1>3. QED
  BY <1>1, <1>2, SpecIInv, PTL DEF Spec, ImplementsLaxMap, LaxMap!Spec

-----------------------------------------------------------------------------
(* Linear probing. When no probe sequence jumps it visits every slot, so   *)
(* an insert is refused only for a cause and the abstract map is the       *)
(* strict one.                                                             *)

\* C holds the capacities a table can have: those that are requested, and
\* their doublings. In none of them a probe sequence jumps: either size_t
\* wraps around at a multiple of the capacity (a power of two), or no hash
\* comes close enough to SIZE_MAX to wrap around at all.
LinearCapacities(C) ==
  /\ ProbeStrategy = "LINEAR"
  /\ \A n \in Requests : n # 0 /\ n <= MaxBuckets => n \in C
  /\ \A n \in C : n * 2 <= MaxBuckets => n * 2 \in C
  /\ \A n \in C : \/ SizeMod % n = 0
                  \/ \A k \in Keys : Hash[k] + n <= SizeMod

\* The capacity of the table, and that of the array a resize replaces.
CapacityIn(C) ==
  /\ pc # "none" => bucket_count \in C
  /\ pc = "resizing" => old_bucket_count \in C

\* A linear probe sequence that does not jump: the attempt is the number of
\* slots passed since the key's own.
LEMMA LinearProbe ==
  ASSUME ProbeStrategy = "LINEAR", NEW n \in Nat \ {0}, NEW k \in Keys,
         SizeMod % n = 0 \/ Hash[k] + n <= SizeMod, NEW a \in 0 .. n - 1
  PROVE  ProbeIndex(k, Hash[k], a, n) = (Hash[k] + a) % n
<1> DEFINE x == Hash[k] + a
<1>1. Hash[k] \in Nat /\ SizeMod \in Nat \ {0} /\ x \in Nat
  BY HashType, ConstantsAssumption, NoLoadOverflow
<1>2. ProbeIndex(k, Hash[k], a, n) = (x % SizeMod) % n
  BY DEF ProbeIndex, Offset
<1>3. Hash[k] + n <= SizeMod => x \in 0 .. SizeMod - 1
  BY <1>1
<1> HIDE DEF x
<1>4. CASE Hash[k] + n <= SizeMod
  <2>1. x \in 0 .. SizeMod - 1
    BY <1>3, <1>4
  <2>2. (SizeMod * 0 + x) % SizeMod = x
    BY <1>1, <2>1, ModUnique
  <2>3. SizeMod * 0 + x = x
    BY <1>1
  <2>4. x % SizeMod = x
    BY <2>2, <2>3
  <2>5. QED
    BY <1>2, <2>4 DEF x
<1>5. CASE SizeMod % n = 0
  <2> DEFINE y == x % SizeMod
  <2>1. PICK c \in Nat : x = SizeMod * c + y
    BY <1>1, DivMod
  <2>2. y \in Nat
    BY <1>1, DivMod
  <2> HIDE DEF y
  <2>3. PICK d \in Nat : y = n * d + (y % n)
    BY <2>2, DivMod
  <2>4. y % n \in 0 .. n - 1
    BY <2>2, DivMod
  <2>5. PICK m \in Nat : SizeMod = n * m
    <3>1. PICK m \in Nat : SizeMod = n * m + (SizeMod % n)
      BY <1>1, DivMod
    <3>2. n * m \in Nat
      BY <1>1
    <3>3. SizeMod = n * m
      BY <3>1, <3>2, <1>5
    <3>4. QED
      BY <3>3
  <2>6. x = n * (m * c + d) + (y % n)
    <3>1. SizeMod * c = n * (m * c)
      BY <2>5
    <3>2. n * (m * c + d) = n * (m * c) + n * d
      OBVIOUS
    <3>3. n * (m * c) \in Nat /\ n * d \in Nat /\ y % n \in Nat
      BY <2>4
    <3>4. QED
      BY <3>1, <3>2, <3>3, <2>1, <2>3
  <2>7. m * c + d \in Nat
    OBVIOUS
  <2>8. x % n = y % n
    BY <2>4, <2>6, <2>7, ModUnique
  <2>9. QED
    BY <1>2, <2>8 DEF x, y
<1>6. QED
  BY <1>4, <1>5

\* How far to is behind from in an array of n slots, going around its end.
Distance(from, to, n) == IF to >= from THEN to - from ELSE n - from + to

\* There is one distance from a hash value's own slot to each slot of the
\* array.
LEMMA OneDistance ==
  ASSUME NEW n \in Nat \ {0}, NEW h \in Nat, NEW s \in 0 .. n - 1
  PROVE  /\ Distance(h % n, s, n) \in 0 .. n - 1
         /\ (h + Distance(h % n, s, n)) % n = s
         /\ \A a \in 0 .. n - 1 : (h + a) % n = s => a = Distance(h % n, s, n)
<1> DEFINE r == h % n
           d == Distance(r, s, n)
<1>1. r \in 0 .. n - 1 /\ \E q \in Nat : h = n * q + r
  BY DivMod
<1> HIDE DEF r
<1>2. PICK q \in Nat : h = n * q + r
  BY <1>1
<1>3. d \in 0 .. n - 1 /\ (r + d = s \/ r + d = s + n)
  BY <1>1 DEF Distance
<1> HIDE DEF d
<1>4. PICK p \in Nat : h + d = n * p + s
  <2>1. CASE r + d = s
    <3>1. n * q \in Nat
      OBVIOUS
    <3>2. h + d = n * q + s
      BY <1>1, <1>2, <1>3, <2>1, <3>1
    <3>3. QED
      BY <3>2
  <2>2. CASE r + d = s + n
    <3>1. n * (q + 1) = n * q + n /\ n * q \in Nat /\ q + 1 \in Nat
      OBVIOUS
    <3>2. h + d = n * (q + 1) + s
      BY <1>1, <1>2, <1>3, <2>2, <3>1
    <3>3. QED
      BY <3>1, <3>2
  <2>3. QED
    BY <1>3, <2>1, <2>2
<1>5. (h + d) % n = s
  BY <1>4, ModUnique
<1>6. ASSUME NEW a \in 0 .. n - 1, (h + a) % n = s
      PROVE  a = d
  <2>1. PICK c \in Nat : h + a = n * c + s
    <3>1. h + a \in Nat
      OBVIOUS
    <3>2. QED
      BY <3>1, <1>6, DivMod
  <2>2. c - p \in Int /\ n * (c - p) = n * c - n * p /\ n * c \in Nat /\ n * p \in Nat
    OBVIOUS
  <2>3. n * (c - p) = a - d
    BY <1>3, <1>4, <2>1, <2>2
  <2>4. c - p = 0
    <3> DEFINE e == c - p
    <3>1. e \in Int /\ n * e < n /\ 0 - n < n * e
      BY <1>3, <2>2, <2>3
    <3> HIDE DEF e
    <3>2. e = 0
      BY <3>1, Multiple
    <3>3. QED
      BY <3>2 DEF e
  <2>5. c = p
    BY <2>4
  <2>6. QED
    BY <1>3, <1>4, <2>1, <2>5
<1>7. QED
  BY <1>3, <1>5, <1>6 DEF d, r

\* The probe sequence of linear probing visits every slot.
LEMMA LinearVisitsAll ==
  ASSUME ProbeStrategy = "LINEAR", NEW n \in Nat \ {0}, NEW k \in Keys,
         SizeMod % n = 0 \/ Hash[k] + n <= SizeMod, NEW s \in 0 .. n - 1
  PROVE  \E a \in 0 .. n - 1 : ProbeIndex(k, Hash[k], a, n) = s
<1> DEFINE d == Distance(Hash[k] % n, s, n)
<1>1. Hash[k] \in Nat
  BY HashType
<1>2. d \in 0 .. n - 1 /\ (Hash[k] + d) % n = s
  BY <1>1, OneDistance
<1> HIDE DEF d
<1>3. QED
  BY <1>2, LinearProbe

\* Fewer occupied and deleted entries than slots leave one empty.
LEMMA EmptySlot ==
  ASSUME NEW n \in Nat \ {0}, NEW array \in [0 .. n - 1 -> Entry],
         Cardinality(SlotsIn(array, "OCCUPIED")) +
           Cardinality(SlotsIn(array, "DELETED")) < n
  PROVE  \E s \in 0 .. n - 1 : array[s].state = "EMPTY"
<1> DEFINE O == SlotsIn(array, "OCCUPIED")
           D == SlotsIn(array, "DELETED")
<1>1. /\ IsFiniteSet(O) /\ IsFiniteSet(D)
      /\ O \subseteq 0 .. n - 1 /\ D \subseteq 0 .. n - 1
      /\ Cardinality(O) \in Nat /\ Cardinality(D) \in Nat
  BY SlotsFinite
<1>2. Cardinality(0 .. n - 1) = n
  BY FS_Interval
<1>3. Cardinality(O \cup D) <= Cardinality(O) + Cardinality(D)
  <2>1. Cardinality(O \cap D) \in Nat
    BY <1>1, FS_Intersection, FS_CardinalityType
  <2>2. Cardinality(O \cup D) = Cardinality(O) + Cardinality(D) - Cardinality(O \cap D)
    BY <1>1, FS_Union
  <2>3. QED
    BY <2>1, <2>2, <1>1
<1>4. O \cup D # 0 .. n - 1
  <2>1. SUFFICES ASSUME O \cup D = 0 .. n - 1 PROVE FALSE
    OBVIOUS
  <2>2. n <= Cardinality(O) + Cardinality(D)
    BY <2>1, <1>2, <1>3
  <2>3. QED
    BY <2>2, <1>1
<1>5. PICK s \in 0 .. n - 1 : s \notin O \cup D
  BY <1>1, <1>4
<1>6. array[s].state # "OCCUPIED" /\ array[s].state # "DELETED"
  BY <1>5 DEF SlotsIn
<1>7. array[s] \in Entry
  OBVIOUS
<1>8. array[s].state = "EMPTY"
  BY <1>6, <1>7 DEF Entry, EmptyEntry, DeletedEntry
<1>9. QED
  BY <1>8

\* So the probe loop of an insert ends at a slot.
LEMMA LinearFindsSlot ==
  ASSUME NEW C, LinearCapacities(C), TypeOK, CountsExact, bucket_count \in C,
         pc # "none", size + deleted_count < bucket_count, NEW k \in Keys
  PROVE  FindSlot(k, Hash[k], TRUE).index # SIZE_MAX
<1>1. /\ bucket_count \in Nat \ {0} /\ entries \in [0 .. bucket_count - 1 -> Entry]
  BY ConstantsAssumption, NoLoadOverflow DEF TypeOK
<1>2. PICK s \in 0 .. bucket_count - 1 : entries[s].state = "EMPTY"
  BY <1>1, EmptySlot DEF CountsExact
<1>3. \E a \in 0 .. bucket_count - 1 : ProbeIndex(k, Hash[k], a, bucket_count) = s
  BY <1>1, LinearVisitsAll DEF LinearCapacities
<1>4. QED
  BY <1>2, <1>3, FindSlotResult

\* There is such a slot whenever an insert looks for one.
LEMMA RoomForInsert ==
  ASSUME IInv
  PROVE  /\ pc = "idle" => size + deleted_count < bucket_count
         /\ pc = "resizing" => size + deleted_count < bucket_count
<1>1. CASE pc = "idle"
  <2>1. /\ size \in Nat /\ deleted_count \in Nat /\ bucket_count \in Nat
        /\ (size + deleted_count) * 100 < bucket_count * 70
    BY <1>1, IdleFacts
  <2>2. QED
    BY <1>1, <2>1
<1>2. CASE pc = "resizing"
  <2> DEFINE o == Cardinality(SlotsIn(old_entries, "OCCUPIED"))
             d == Cardinality(SlotsIn(old_entries, "DELETED"))
  <2>1. /\ old_bucket_count \in Nat \ {0} /\ bucket_count = old_bucket_count * 2
        /\ old_entries \in [0 .. old_bucket_count - 1 -> Entry]
        /\ deleted_count = 0 /\ size \in Nat
    BY <1>2, ResizeFacts
  <2>2. (o + d) * 100 < old_bucket_count * 70 /\ size = Cardinality(Moved)
    BY <1>2 DEF IInv, ResizeConsistent
  <2>3. o \in Nat /\ d \in Nat /\ IsFiniteSet(SlotsIn(old_entries, "OCCUPIED"))
    BY <2>1, SlotsFinite
  <2>4. size <= o
    BY <2>2, <2>3, FS_Subset DEF Moved
  <2> HIDE DEF o, d
  <2>5. QED
    BY <1>2, <2>1, <2>2, <2>3, <2>4
<1>3. QED
  BY <1>1, <1>2

\* The capacities are those that are allowed for.
LEMMA CapacityKept ==
  ASSUME NEW C, LinearCapacities(C), IInv, CapacityIn(C), [Next]_vars
  PROVE  CapacityIn(C)'
<1>1. CASE \E n \in Requests : Create(n)
  BY <1>1 DEF Create, LinearCapacities, CapacityIn
<1>2. CASE \E k \in Keys, v \in Values : BeginResize(k, v)
  <2>1. /\ pc = "idle" /\ pc' = "resizing" /\ GrownCount <= MaxBuckets
        /\ bucket_count' = GrownCount /\ old_bucket_count' = bucket_count
    BY <1>2 DEF BeginResize
  <2>2. GrownCount = bucket_count * 2
    <3>1. bucket_count \in Nat \ {0}
      BY <2>1, IdleFacts
    <3>2. bucket_count * 2 # 0
      BY <3>1
    <3>3. QED
      BY <3>2 DEF GrownCount
  <2>3. QED
    BY <2>1, <2>2 DEF LinearCapacities, CapacityIn
<1>3. CASE RollBack
  BY <1>3 DEF RollBack, ReleaseResize, CapacityIn
<1>4. CASE Destroy
  BY <1>4 DEF Destroy, CapacityIn
<1>5. CASE InsertAfterResize
  BY <1>5 DEF InsertAfterResize, ReleaseResize, CapacityIn
<1>6. CASE \/ \E n \in Requests, wellFormed \in BOOLEAN : CreateFails(n, wellFormed)
           \/ \E k \in BadKeys : InsertBadKey(k)
           \/ \E k \in Keys, v \in Values : Insert(k, v) \/ ResizeFails(k)
           \/ SkipEntry \/ MoveEntry
           \/ \E k \in Keys \cup BadKeys : Find(k) \/ Remove(k) \/ RemoveMissing(k)
           \/ Clear \/ UNCHANGED vars
  <2>1. pc' = pc /\ bucket_count' = bucket_count
    BY <1>6 DEF CreateFails, InsertBadKey, Insert, ResizeFails, SkipEntry, MoveEntry,
                Find, Remove, RemoveMissing, Clear, vars, tableVars
  <2>2. old_bucket_count' = old_bucket_count
    BY <1>6 DEF CreateFails, InsertBadKey, Insert, ResizeFails, SkipEntry, MoveEntry,
                Find, Remove, RemoveMissing, Clear, vars, resizeVars
  <2>3. QED
    BY <2>1, <2>2 DEF CapacityIn
<1>7. QED
  BY <1>1, <1>2, <1>3, <1>4, <1>5, <1>6 DEF Next, ResizeStep

\* Placing a key finds a slot, so it fails for want of memory only.
LEMMA LinearPlace ==
  ASSUME NEW C, LinearCapacities(C), IInv, CapacityIn(C),
         pc = "idle" \/ pc = "resizing",
         NEW k \in Keys, NEW v \in Values, Place(k, v)
  PROVE  InsertFailsOnlyForCause'
<1>1. size + deleted_count < bucket_count /\ pc # "none"
  BY RoomForInsert
<1>2. FindSlot(k, Hash[k], TRUE).index # SIZE_MAX
  BY <1>1, LinearFindsSlot DEF IInv, CapacityIn
<1>3. \/ ret' = Reply("insert", k, TRUE, FALSE)
      \/ ret' = Reply("insert", k, FALSE, TRUE)
  BY <1>2 DEF Place, Overwrite, NoSlot, CopyKeyFails, Occupy
<1>4. QED
  BY <1>3 DEF InsertFailsOnlyForCause, Reply

\* No step leaves an insert refused without a cause behind: there is no
\* roll-back, and no search for a slot that fails.
LEMMA LinearStep ==
  ASSUME NEW C, LinearCapacities(C), IInv, CapacityIn(C),
         InsertFailsOnlyForCause, [Next]_vars
  PROVE  InsertFailsOnlyForCause'
<1>1. CASE \E k \in Keys, v \in Values : Insert(k, v)
  BY <1>1, LinearPlace DEF Insert
<1>2. CASE InsertAfterResize
  <2>1. pc = "resizing" /\ Place(pending.key, pending.value)
    BY <1>2 DEF InsertAfterResize
  <2>2. pending.key \in Keys /\ pending.value \in Values
    BY <2>1, ResizeFacts
  <2>3. QED
    BY <2>1, <2>2, LinearPlace
<1>3. CASE RollBack
  <2>1. /\ pc = "resizing" /\ cursor < old_bucket_count
        /\ old_entries[cursor].state = "OCCUPIED" /\ RehashSlot.index = SIZE_MAX
    BY <1>3 DEF RollBack
  <2> DEFINE k == old_entries[cursor].key
  <2>2. k \in Keys /\ RehashSlot = FindSlot(k, Hash[k], TRUE)
    <3>1. /\ k \in Keys /\ old_entries[cursor] =
               OccupiedEntry(k, old_entries[cursor].value)
      BY <2>1, MovedKeyIsNew
    <3>2. old_entries[cursor].hash = Hash[k]
      BY <3>1 DEF OccupiedEntry
    <3>3. QED
      BY <3>1, <3>2 DEF RehashSlot
  <2> HIDE DEF k
  <2>3. size + deleted_count < bucket_count
    BY <2>1, RoomForInsert
  <2>4. FindSlot(k, Hash[k], TRUE).index # SIZE_MAX
    BY <2>1, <2>2, <2>3, LinearFindsSlot DEF IInv, CapacityIn
  <2>5. QED
    BY <2>1, <2>2, <2>4
<1>4. CASE \E n \in Requests : Create(n)
  BY <1>4 DEF Create, InsertFailsOnlyForCause, Reply
<1>5. CASE \E n \in Requests, wellFormed \in BOOLEAN : CreateFails(n, wellFormed)
  BY <1>5 DEF CreateFails, InsertFailsOnlyForCause, Reply
<1>6. CASE \E k \in BadKeys : InsertBadKey(k)
  BY <1>6 DEF InsertBadKey, InsertFailsOnlyForCause, Reply
<1>7. CASE \E k \in Keys : ResizeFails(k)
  BY <1>7 DEF ResizeFails, InsertFailsOnlyForCause, Reply
<1>8. CASE \E k \in Keys \cup BadKeys : Find(k) \/ Remove(k) \/ RemoveMissing(k)
  <2> PICK k \in Keys \cup BadKeys : Find(k) \/ Remove(k) \/ RemoveMissing(k)
    BY <1>8
  <2>1. CASE Find(k)
    <3>1. ret'.op = "find"
      BY <2>1 DEF Find, Reply
    <3>2. QED
      BY <3>1 DEF InsertFailsOnlyForCause
  <2>2. CASE Remove(k) \/ RemoveMissing(k)
    <3>1. \/ ret' = Reply("remove", k, TRUE, FALSE)
          \/ ret' = Reply("remove", k, FALSE, FALSE)
      BY <2>2 DEF Remove, RemoveMissing
    <3>2. ret'.op = "remove"
      BY <3>1 DEF Reply
    <3>3. QED
      BY <3>2 DEF InsertFailsOnlyForCause
  <2>3. QED
    BY <2>1, <2>2
<1>9. CASE Clear \/ Destroy
  BY <1>9 DEF Clear, Destroy, InsertFailsOnlyForCause, Reply
<1>10. CASE \/ \E k \in Keys, v \in Values : BeginResize(k, v)
            \/ SkipEntry \/ MoveEntry \/ UNCHANGED vars
  <2>1. ret' = ret
    BY <1>10 DEF BeginResize, SkipEntry, MoveEntry, vars
  <2>2. QED
    BY <2>1 DEF InsertFailsOnlyForCause
<1>11. QED
  BY <1>1, <1>2, <1>3, <1>4, <1>5, <1>6, <1>7, <1>8, <1>9, <1>10
     DEF Next, ResizeStep

\* With linear probing whose sequences do not jump, an insert is refused only
\* for a bad key or a failed allocation, as cashash.h promises.
THEOREM LinearFailsOnlyForCause ==
  ASSUME NEW CONSTANT C, LinearCapacities(C)
  PROVE  Spec => []InsertFailsOnlyForCause
<1>1. Init => CapacityIn(C) /\ InsertFailsOnlyForCause
  BY DEF Init, CapacityIn, InsertFailsOnlyForCause, NoReply, Reply
<1>2. IInv /\ CapacityIn(C) /\ InsertFailsOnlyForCause /\ [Next]_vars =>
        CapacityIn(C)' /\ InsertFailsOnlyForCause'
  BY CapacityKept, LinearStep
<1>3. QED
  BY <1>1, <1>2, SpecIInv, PTL DEF Spec

\* A step of the lax map after which no insert has been refused without a
\* cause is one of the strict map.
LEMMA CausedRefusals ==
  ASSUME [LaxMap!Next]_LaxMap!vars, InsertFailsOnlyForCause'
  PROVE  [StrictMap!Next]_StrictMap!vars
<1>1. CASE \E k \in Keys \cup BadKeys, oom \in BOOLEAN : LaxMap!InsertRefused(k, oom)
  <2>1. PICK k \in Keys \cup BadKeys, oom \in BOOLEAN : LaxMap!InsertRefused(k, oom)
    BY <1>1
  <2>2. ret' = Reply("insert", k, FALSE, oom)
    BY <2>1, SameReply DEF LaxMap!InsertRefused
  <2>3. k \in BadKeys \/ oom
    BY <2>2 DEF InsertFailsOnlyForCause, Reply
  <2>4. StrictMap!InsertRefused(k, oom)
    BY <2>1, <2>3 DEF LaxMap!InsertRefused, StrictMap!InsertRefused,
                      LaxMap!Reply, StrictMap!Reply
  <2>5. QED
    BY <2>4 DEF StrictMap!Next
<1>2. CASE LaxMap!Create \/ \E oom \in BOOLEAN : LaxMap!CreateRefused(oom)
  BY <1>2 DEF LaxMap!Create, StrictMap!Create, LaxMap!CreateRefused,
     StrictMap!CreateRefused, LaxMap!Reply, StrictMap!Reply, LaxMap!NoKeys,
     StrictMap!NoKeys, StrictMap!Next
<1>3. CASE \E k \in Keys, v \in Values : LaxMap!Insert(k, v)
  BY <1>3 DEF LaxMap!Insert, StrictMap!Insert, LaxMap!Bind, StrictMap!Bind,
     LaxMap!Reply, StrictMap!Reply, StrictMap!Next
<1>4. CASE \E k \in Keys \cup BadKeys : LaxMap!Find(k) \/ LaxMap!Remove(k)
  BY <1>4 DEF LaxMap!Find, StrictMap!Find, LaxMap!Remove, StrictMap!Remove,
     LaxMap!Unbind, StrictMap!Unbind, LaxMap!Restrict, StrictMap!Restrict,
     LaxMap!Reply, StrictMap!Reply, StrictMap!Next
<1>5. CASE LaxMap!Clear \/ LaxMap!Destroy
  BY <1>5 DEF LaxMap!Clear, StrictMap!Clear, LaxMap!Destroy, StrictMap!Destroy,
     LaxMap!Reply, StrictMap!Reply, LaxMap!NoKeys, StrictMap!NoKeys, StrictMap!Next
<1>6. CASE UNCHANGED LaxMap!vars
  BY <1>6 DEF LaxMap!vars, StrictMap!vars
<1>7. QED
  BY <1>1, <1>2, <1>3, <1>4, <1>5, <1>6 DEF LaxMap!Next

\* With linear probing whose sequences do not jump, the backend implements
\* the same abstract map as the chaining backend does.
THEOREM LinearImplementsMap ==
  ASSUME NEW CONSTANT C, LinearCapacities(C)
  PROVE  Spec => ImplementsMap
<1>1. Init => StrictMap!Init
  <2> SUFFICES ASSUME Init PROVE StrictMap!Init
    OBVIOUS
  <2>1. Contents(Owner) = StrictMap!NoKeys
    BY EmptyArrayMap DEF Init, Owner, NoArray, LaxMap!NoKeys, StrictMap!NoKeys
  <2>2. QED
    BY <2>1 DEF Init, NoReply, StrictMap!Init, StrictMap!NoReply,
                StrictMap!Reply, Reply
<1>2. IInv /\ [Next]_vars /\ InsertFailsOnlyForCause' =>
        [StrictMap!Next]_StrictMap!vars
  BY StepImplementsLaxMap, CausedRefusals
<1>3. Spec => []InsertFailsOnlyForCause
  BY LinearFailsOnlyForCause
<1>4. QED
  BY <1>1, <1>2, <1>3, SpecIInv, PTL DEF Spec, ImplementsMap, StrictMap!Spec

-----------------------------------------------------------------------------
(* Double hashing. In an array of prime length every step is a unit, so    *)
(* the probe sequence visits every slot, whatever the second hash.         *)

\* No probe of the largest array comes close enough to SIZE_MAX to wrap around.
DoubleHashingInRange ==
  /\ ProbeStrategy = "DOUBLE_HASHING"
  /\ \A k \in Keys : Hash[k] + MaxBuckets * MaxBuckets <= SizeMod

\* A prime divides no product of two numbers smaller than it is: the least
\* number whose product with t it divided would be 1, or leave a remainder
\* that is less still.
LEMMA PrimeDividesNoProduct ==
  ASSUME NEW n \in Nat, IsPrime(n), NEW m \in 1 .. n - 1, NEW t \in 1 .. n - 1,
         NEW c \in Nat
  PROVE  m * t # n * c
<1> DEFINE S == {x \in 1 .. n - 1 : \E d \in Nat : x * t = n * d}
<1>1. SUFFICES ASSUME S # {} PROVE FALSE
  OBVIOUS
<1>2. PICK x \in S : \A y \in S : x <= y
  <2>1. S \in SUBSET Nat
    OBVIOUS
  <2> HIDE DEF S
  <2>2. QED
    BY <1>1, <2>1, MinOfNats
<1>3. PICK d \in Nat : x * t = n * d
  OBVIOUS
<1>4. x \in 1 .. n - 1
  OBVIOUS
<1> HIDE DEF S
<1> DEFINE r == n % x
<1>5. r \in 0 .. x - 1 /\ \E q \in Nat : n = x * q + r
  <2>1. x \in Nat \ {0}
    BY <1>4
  <2>2. QED
    BY <2>1, DivMod
<1>6. r = n % x
  OBVIOUS
<1> HIDE DEF r
<1>7. PICK q \in Nat : n = x * q + r
  BY <1>5
<1>8. CASE r = 0
  <2>1. n % x = 0
    BY <1>6, <1>8
  <2>2. x = 1
    BY <1>4, <2>1 DEF IsPrime
  <2>3. n * d = t
    BY <1>3, <2>2
  <2>4. n * d < n /\ 0 - n < n * d
    BY <2>3
  <2>5. d = 0
    BY <2>4, Multiple
  <2>6. QED
    BY <2>3, <2>5
<1>9. CASE r # 0
  <2> DEFINE e == t - q * d
  <2>1. r \in 1 .. n - 1
    BY <1>4, <1>5, <1>9
  <2>2. e \in Int
    OBVIOUS
  <2>3. r * t = n * e
    <3>1. n * t = (x * q + r) * t
      BY <1>7
    <3>2. (x * q + r) * t = (x * t) * q + r * t
      BY <1>4, <1>5
    <3>3. (x * t) * q = n * (q * d)
      BY <1>3, <1>4
    <3>4. n * e = n * t - n * (q * d)
      OBVIOUS
    <3>5. r * t \in Int /\ n * t \in Int /\ n * (q * d) \in Int
      BY <1>5
    <3> HIDE DEF e
    <3>6. QED
      BY <3>1, <3>2, <3>3, <3>4, <3>5
  <2> HIDE DEF e
  <2>4. r * t > 0
    BY <2>1
  <2>5. e \in Nat
    <3>1. SUFFICES ASSUME e < 0 PROVE FALSE
      BY <2>2
    <3>2. n * (0 - e) \in Nat /\ n * (0 - e) = 0 - n * e /\ n * e \in Int
      BY <2>2, <3>1
    <3>3. QED
      BY <2>3, <2>4, <3>2
  <2>6. r \in S
    BY <2>1, <2>3, <2>5 DEF S
  <2>7. QED
    BY <1>2, <1>4, <1>5, <2>6
<1>10. QED
  BY <1>8, <1>9

\* In an array of prime length no probe sequence stands still.
LEMMA PrimeStep ==
  ASSUME ProbeStrategy = "DOUBLE_HASHING", NEW n \in Nat, IsPrime(n),
         NEW k \in Keys
  PROVE  ProbeStep(k, Hash[k], n) \in 1 .. n - 1
<1>1. n > 1
  BY DEF IsPrime
<1>2. \A x \in Nat, m \in Nat \ {0} : x % m \in 0 .. m - 1
  OBVIOUS
<1>3. DefaultSecondHash(Hash[k], n) \in 1 .. n - 1
  <2>1. Hash[k] \in Nat /\ n - 1 \in Nat \ {0}
    BY <1>1, HashType
  <2>2. Hash[k] % (n - 1) \in 0 .. (n - 1) - 1
    BY <1>2, <2>1
  <2>3. QED
    BY <1>1, <2>2 DEF DefaultSecondHash
<1>4. ASSUME SecondHash # NULL
      PROVE  SecondHash[k] % n \in 0 .. n - 1
  <2>1. SecondHash[k] \in Nat
    BY <1>4, ConstantsAssumption, NoLoadOverflow DEF SIZE_MAX
  <2>2. n \in Nat \ {0}
    BY <1>1
  <2>3. QED
    BY <1>2, <2>1, <2>2
<1>5. QED
  BY <1>1, <1>3, <1>4 DEF ProbeStep

\* The index that an attempt looks at, when size_t does not wrap around.
LEMMA DoubleProbe ==
  ASSUME DoubleHashingInRange, NEW n \in 1 .. MaxBuckets, NEW k \in Keys,
         NEW a \in 0 .. n - 1, NEW t \in 0 .. n - 1, t = ProbeStep(k, Hash[k], n)
  PROVE  ProbeIndex(k, Hash[k], a, n) = (Hash[k] + a * t) % n
<1> DEFINE x == Hash[k] + a * t
<1>1. /\ Hash[k] \in Nat /\ SizeMod \in Nat \ {0} /\ MaxBuckets \in Nat
      /\ a * t \in Nat /\ x \in Nat
  BY HashType, ConstantsAssumption, NoLoadOverflow
<1>2. a * t < MaxBuckets * MaxBuckets
  <2>1. a * t <= a * MaxBuckets
    BY <1>1
  <2>2. a * MaxBuckets < MaxBuckets * MaxBuckets
    BY <1>1
  <2>3. a * MaxBuckets \in Nat /\ MaxBuckets * MaxBuckets \in Nat
    BY <1>1
  <2>4. QED
    BY <1>1, <2>1, <2>2, <2>3
<1>3. x \in 0 .. SizeMod - 1
  <2>1. Hash[k] + MaxBuckets * MaxBuckets <= SizeMod
    BY DEF DoubleHashingInRange
  <2>2. MaxBuckets * MaxBuckets \in Nat
    BY <1>1
  <2>3. QED
    BY <1>1, <1>2, <2>1, <2>2
<1>4. ProbeIndex(k, Hash[k], a, n) = (x % SizeMod) % n
  BY DEF ProbeIndex, Offset, DoubleHashingInRange
<1> HIDE DEF x
<1>5. (SizeMod * 0 + x) % SizeMod = x
  BY <1>1, <1>3, ModUnique
<1>6. SizeMod * 0 + x = x
  BY <1>1
<1>7. x % SizeMod = x
  BY <1>5, <1>6
<1>8. QED
  BY <1>4, <1>7 DEF x

\* In an array of prime length two attempts look at two slots.
LEMMA PrimeProbesDiffer ==
  ASSUME DoubleHashingInRange, NEW n \in 1 .. MaxBuckets, IsPrime(n),
         NEW k \in Keys, NEW a \in 0 .. n - 1, NEW b \in 0 .. n - 1, a < b
  PROVE  ProbeIndex(k, Hash[k], a, n) # ProbeIndex(k, Hash[k], b, n)
<1> DEFINE h == Hash[k]
           t == ProbeStep(k, Hash[k], n)
<1>1. h \in Nat /\ t \in 1 .. n - 1
  BY HashType, PrimeStep DEF DoubleHashingInRange
<1>2. /\ ProbeIndex(k, Hash[k], a, n) = (h + a * t) % n
      /\ ProbeIndex(k, Hash[k], b, n) = (h + b * t) % n
  <2>1. t \in 0 .. n - 1
    BY <1>1
  <2>2. QED
    BY <2>1, DoubleProbe
<1> HIDE DEF h, t
<1>3. SUFFICES ASSUME (h + a * t) % n = (h + b * t) % n
               PROVE  FALSE
  BY <1>2
<1> DEFINE s == (h + a * t) % n
<1>4. h + a * t \in Nat /\ h + b * t \in Nat /\ n \in Nat \ {0}
  BY <1>1
<1> HIDE DEF s
<1>5. PICK p \in Nat : h + a * t = n * p + s
  BY <1>4, DivMod DEF s
<1>6. PICK q \in Nat : h + b * t = n * q + s
  BY <1>3, <1>4, DivMod DEF s
<1>7. s \in Nat
  <2>1. s \in 0 .. n - 1
    BY <1>4, DivMod DEF s
  <2>2. QED
    BY <2>1
<1>8. (b - a) * t = n * (q - p)
  <2>1. (b - a) * t = b * t - a * t /\ n * (q - p) = n * q - n * p
    BY <1>1
  <2>2. /\ a * t \in Nat /\ b * t \in Nat /\ n * q \in Nat /\ n * p \in Nat
    BY <1>1
  <2>3. b * t - a * t = n * q - n * p
    BY <1>1, <1>5, <1>6, <1>7, <2>2
  <2>4. QED
    BY <2>1, <2>3
<1>9. b - a \in 1 .. n - 1
  OBVIOUS
<1>10. q - p \in Nat
  <2>1. (b - a) * t > 0
    BY <1>1, <1>9
  <2>2. SUFFICES ASSUME q - p < 0 PROVE FALSE
    OBVIOUS
  <2>3. /\ n * (p - q) \in Nat /\ n * (p - q) = 0 - n * (q - p)
        /\ n * (q - p) \in Int
    BY <2>2
  <2>4. QED
    BY <1>8, <2>1, <2>3
<1>11. QED
  <2> DEFINE m == b - a
             c == q - p
  <2>1. /\ m * t = n * c /\ m \in 1 .. n - 1 /\ c \in Nat
        /\ n \in Nat /\ t \in 1 .. n - 1
    BY <1>1, <1>4, <1>8, <1>9, <1>10
  <2> HIDE DEF m, c
  <2>2. QED
    BY <2>1, PrimeDividesNoProduct

\* So as many attempts as there are slots look at all of them.
LEMMA DoubleVisitsAll ==
  ASSUME DoubleHashingInRange, NEW n \in 1 .. MaxBuckets, IsPrime(n),
         NEW k \in Keys, NEW s \in 0 .. n - 1
  PROVE  \E a \in 0 .. n - 1 : ProbeIndex(k, Hash[k], a, n) = s
<1> DEFINE I == 0 .. n - 1
           f == [a \in I |-> ProbeIndex(k, Hash[k], a, n)]
<1>1. f \in [I -> I]
  <2>1. Hash[k] \in Nat /\ n \in Nat \ {0}
    BY HashType
  <2>2. ASSUME NEW a \in I PROVE ProbeIndex(k, Hash[k], a, n) \in I
    <3>1. a \in Nat
      OBVIOUS
    <3>2. QED
      BY <2>1, <3>1, ProbeIndexType
  <2>3. QED
    BY <2>2
<1>2. ASSUME NEW a \in I, NEW b \in I, f[a] = f[b]
      PROVE  a = b
  <2>1. ~(a < b) /\ ~(b < a)
    BY <1>2, PrimeProbesDiffer
  <2>2. QED
    BY <2>1
<1>3. IsFiniteSet(I)
  BY FS_Interval
<1> HIDE DEF f, I
<1>4. f \in Injection(I, I)
  BY <1>1, <1>2 DEF Injection, IsInjective
<1>5. f \in Surjection(I, I)
  BY <1>3, <1>4, FS_Injection
<1>6. s \in I
  BY DEF I
<1>7. PICK a \in I : f[a] = s
  BY <1>5, <1>6 DEF Surjection
<1>8. QED
  BY <1>7 DEF f, I

\* The probe loop of an insert ends at a slot.
LEMMA DoubleFindsSlot ==
  ASSUME DoubleHashingInRange, IInv, pc \in {"idle", "resizing"},
         IsPrime(bucket_count), NEW k \in Keys
  PROVE  FindSlot(k, Hash[k], TRUE).index # SIZE_MAX
<1>1. TypeOK /\ CountsExact /\ size + deleted_count < bucket_count
  BY RoomForInsert DEF IInv
<1>2. /\ bucket_count \in 1 .. MaxBuckets
      /\ entries \in [0 .. bucket_count - 1 -> Entry]
  BY <1>1, ConstantsAssumption, NoLoadOverflow DEF TypeOK
<1>3. PICK s \in 0 .. bucket_count - 1 : entries[s].state = "EMPTY"
  BY <1>1, <1>2, EmptySlot DEF CountsExact
<1>4. \E a \in 0 .. bucket_count - 1 : ProbeIndex(k, Hash[k], a, bucket_count) = s
  BY <1>2, DoubleVisitsAll
<1>5. QED
  BY <1>1, <1>3, <1>4, FindSlotResult

\* Placing a key in an array of prime length fails for want of memory only.
LEMMA DoublePlace ==
  ASSUME DoubleHashingInRange, IInv, pc \in {"idle", "resizing"},
         IsPrime(bucket_count), NEW k \in Keys, NEW v \in Values, Place(k, v)
  PROVE  InsertFailsOnlyForCause'
<1>1. FindSlot(k, Hash[k], TRUE).index # SIZE_MAX
  BY DoubleFindsSlot
<1>2. \/ ret' = Reply("insert", k, TRUE, FALSE)
      \/ ret' = Reply("insert", k, FALSE, TRUE)
  BY <1>1 DEF Place, Overwrite, NoSlot, CopyKeyFails, Occupy
<1>3. QED
  BY <1>2 DEF InsertFailsOnlyForCause, Reply

\* No step away from an array of prime length refuses an insert without a
\* cause. A step that leaves the reply alone does not end a call.
LEMMA DoubleHashingStep ==
  ASSUME DoubleHashingInRange, IInv, IsPrime(bucket_count), Next, pc' = "idle"
  PROVE  InsertFailsOnlyForCause'
<1>1. CASE \E k \in Keys, v \in Values : Insert(k, v)
  BY <1>1, DoublePlace DEF Insert
<1>2. CASE InsertAfterResize
  <2>1. pc = "resizing" /\ Place(pending.key, pending.value)
    BY <1>2 DEF InsertAfterResize
  <2>2. pending.key \in Keys /\ pending.value \in Values
    BY <2>1, ResizeFacts
  <2>3. QED
    BY <2>1, <2>2, DoublePlace
<1>3. CASE RollBack
  <2>1. /\ pc = "resizing" /\ cursor < old_bucket_count
        /\ old_entries[cursor].state = "OCCUPIED" /\ RehashSlot.index = SIZE_MAX
    BY <1>3 DEF RollBack
  <2> DEFINE k == old_entries[cursor].key
  <2>2. k \in Keys /\ RehashSlot = FindSlot(k, Hash[k], TRUE)
    <3>1. /\ k \in Keys /\ old_entries[cursor] =
               OccupiedEntry(k, old_entries[cursor].value)
      BY <2>1, MovedKeyIsNew
    <3>2. old_entries[cursor].hash = Hash[k]
      BY <3>1 DEF OccupiedEntry
    <3>3. QED
      BY <3>1, <3>2 DEF RehashSlot
  <2> HIDE DEF k
  <2>3. QED
    BY <2>1, <2>2, DoubleFindsSlot
<1>4. CASE \/ \E n \in Requests, wellFormed \in BOOLEAN : CreateFails(n, wellFormed)
           \/ \E k \in Keys, v \in Values : BeginResize(k, v)
           \/ SkipEntry \/ MoveEntry \/ Destroy
  <2>1. pc' # "idle"
    BY <1>4 DEF CreateFails, BeginResize, SkipEntry, MoveEntry, Destroy
  <2>2. QED
    BY <2>1
<1>5. CASE \E n \in Requests : Create(n)
  BY <1>5 DEF Create, InsertFailsOnlyForCause, Reply
<1>6. CASE \E k \in BadKeys : InsertBadKey(k)
  BY <1>6 DEF InsertBadKey, InsertFailsOnlyForCause, Reply
<1>7. CASE \E k \in Keys : ResizeFails(k)
  BY <1>7 DEF ResizeFails, InsertFailsOnlyForCause, Reply
<1>8. CASE Clear \/ \E k \in Keys \cup BadKeys :
                      Find(k) \/ Remove(k) \/ RemoveMissing(k)
  <2>1. ASSUME NEW k, Find(k) \/ Remove(k) \/ RemoveMissing(k)
        PROVE  ret'.op # "insert"
    <3>1. CASE Find(k)
      BY <3>1 DEF Find, Reply
    <3>2. CASE Remove(k) \/ RemoveMissing(k)
      <4>1. \/ ret' = Reply("remove", k, TRUE, FALSE)
            \/ ret' = Reply("remove", k, FALSE, FALSE)
        BY <3>2 DEF Remove, RemoveMissing
      <4>2. QED
        BY <4>1 DEF Reply
    <3>3. QED
      BY <2>1, <3>1, <3>2
  <2>2. CASE Clear
    BY <2>2 DEF Clear, InsertFailsOnlyForCause, Reply
  <2>3. QED
    BY <1>8, <2>1, <2>2 DEF InsertFailsOnlyForCause
<1>9. QED
  BY <1>1, <1>2, <1>3, <1>4, <1>5, <1>6, <1>7, <1>8 DEF Next, ResizeStep

\* With double hashing an array of prime length refuses no insert, and fails
\* no resize, but for a bad key or a failed allocation.
THEOREM DoubleHashingFailsOnlyForCause ==
  ASSUME DoubleHashingInRange
  PROVE  Spec => PrimeNeverRefuses
<1>1. IInv /\ [Next]_vars =>
        [pc' = "idle" /\ ~InsertFailsOnlyForCause' => ~IsPrime(bucket_count)]_vars
  BY DoubleHashingStep
<1>2. QED
  BY <1>1, SpecIInv, PTL DEF Spec, PrimeNeverRefuses
=============================================================================
