------------------------ MODULE OADiagnosticsProofs -------------------------
(***************************************************************************)
(* What validate and the statistics make of an open-addressing table, for  *)
(* every set of keys, hash function without a seed, probing strategy and   *)
(* capacity: validate accepts every table that calls lead to, and rejects  *)
(* it when one field has been overwritten; the statistics of such a table  *)
(* are exact. All follow from the inductive invariant of OATableProofs.    *)
(***************************************************************************)
EXTENDS OADiagnostics, OATableProofs

\* What the loop of validate tells of one entry, case by case.
LEMMA ProblemCases ==
  ASSUME NEW e
  PROVE  /\ e.state \notin {"EMPTY", "DELETED", "OCCUPIED"} =>
              Problem(e) = "INVALID_ENTRY"
         /\ e.state \in {"EMPTY", "DELETED"} => Problem(e) = "OK"
         /\ e.state = "OCCUPIED" /\ e.key = NULL =>
              Problem(e) = "INVALID_ENTRY"
         /\ e.state = "OCCUPIED" /\ e.key # NULL /\ Hash[e.key] # e.hash =>
              Problem(e) = "HASH_MISMATCH"
         /\ e.state = "OCCUPIED" /\ e.key # NULL /\ Hash[e.key] = e.hash =>
              Problem(e) = "OK"
  BY DEF Problem

\* The loop finds nothing wrong with an entry of a sound array.
LEMMA NoProblem ==
  ASSUME NEW n \in Nat, NEW array \in [0 .. n - 1 -> Entry], HashesCached(array),
         NEW s \in 0 .. n - 1
  PROVE  Problem(array[s]) = "OK"
<1>1. array[s] \in Entry /\ s \in DOMAIN array
  OBVIOUS
<1>2. CASE array[s].state # "OCCUPIED"
  <2>1. array[s].state \in {"EMPTY", "DELETED"}
    BY <1>1, <1>2, EntryFacts DEF Entry
  <2>2. QED
    BY <2>1, ProblemCases
<1>3. CASE array[s].state = "OCCUPIED"
  <2>1. array[s].key \in Keys /\ array[s].key # NULL
    BY <1>1, <1>3, EntryFacts, KeyAssumption
  <2>2. array[s].hash = Hash[array[s].key]
    BY <1>1, <1>3 DEF HashesCached, SlotsIn
  <2>3. QED
    BY <1>3, <2>1, <2>2, ProblemCases
<1>4. QED
  BY <1>2, <1>3

\* What the invariant says of the table between two calls.
LEMMA TableFacts ==
  ASSUME IInv, pc = "idle"
  PROVE  /\ bucket_count \in Nat /\ entries \in [0 .. bucket_count - 1 -> Entry]
         /\ Table.entries = entries /\ Table.bucket_count = bucket_count
         /\ Table.size = size /\ Table.deleted_count = deleted_count
         /\ size = Cardinality(SlotsIn(entries, "OCCUPIED"))
         /\ deleted_count = Cardinality(SlotsIn(entries, "DELETED"))
         /\ \A s \in 0 .. bucket_count - 1 : Problem(entries[s]) = "OK"
<1>1. bucket_count \in Nat /\ entries \in [0 .. bucket_count - 1 -> Entry]
  BY ConstantsAssumption DEF IInv, TypeOK
<1>2. \A s \in 0 .. bucket_count - 1 : Problem(entries[s]) = "OK"
  BY <1>1, NoProblem DEF IInv, ProbePathsIntact
<1>3. QED
  BY <1>1, <1>2 DEF IInv, CountsExact, Table

\* A table without a wrong entry is judged by its counters.
LEMMA JudgedByCounters ==
  ASSUME NEW t, NEW n \in Nat, t.bucket_count = n, Slots(t) = 0 .. n - 1,
         \A s \in 0 .. n - 1 : Problem(t.entries[s]) = "OK"
  PROVE  /\ /\ t.size = Cardinality(SlotsIn(t.entries, "OCCUPIED"))
            /\ t.deleted_count = Cardinality(SlotsIn(t.entries, "DELETED"))
            => Validate(t).valid
         /\ \/ t.size # Cardinality(SlotsIn(t.entries, "OCCUPIED"))
            \/ t.deleted_count # Cardinality(SlotsIn(t.entries, "DELETED"))
            => Validate(t).error = "SIZE_MISMATCH"
<1>1. {s \in Slots(t) : Problem(t.entries[s]) # "OK"} = {}
  OBVIOUS
<1>2. {s \in SlotsIn(t.entries, "OCCUPIED") : s < t.bucket_count}
        = SlotsIn(t.entries, "OCCUPIED")
  BY DEF SlotsIn, Slots
<1>3. QED
  BY <1>1, <1>2 DEF Validate, Result

\* A table with one wrong entry is rejected, with that entry's error and index.
LEMMA JudgedByEntry ==
  ASSUME NEW t, NEW n \in Nat, Slots(t) = 0 .. n - 1, NEW s \in 0 .. n - 1,
         \A r \in 0 .. n - 1 : r # s => Problem(t.entries[r]) = "OK",
         Problem(t.entries[s]) # "OK"
  PROVE  /\ ~Validate(t).valid
         /\ Validate(t).error = Problem(t.entries[s])
         /\ Validate(t).bucket_index = s
<1>1. {r \in Slots(t) : Problem(t.entries[r]) # "OK"} = {s}
  OBVIOUS
<1>2. Min({s}) = s
  BY MinOfNats
<1>3. QED
  BY <1>1, <1>2 DEF Validate, Result

\* The table after a stray write to one entry.
LEMMA WithEntryFacts ==
  ASSUME IInv, pc = "idle", NEW s \in 0 .. bucket_count - 1, NEW e
  PROVE  /\ WithEntry(Table, s, e).entries = [entries EXCEPT ![s] = e]
         /\ WithEntry(Table, s, e).bucket_count = bucket_count
         /\ WithEntry(Table, s, e).size = size
         /\ WithEntry(Table, s, e).deleted_count = deleted_count
         /\ Slots(WithEntry(Table, s, e)) = 0 .. bucket_count - 1
<1>1. WithEntry(Table, s, e).entries = [entries EXCEPT ![s] = e]
  BY DEF WithEntry, Table
<1>2. QED
  BY <1>1, TableFacts DEF WithEntry, Table, Slots

\* A stray write that makes an entry wrong is reported with its place.
LEMMA WrongEntryReported ==
  ASSUME IInv, pc = "idle", NEW s \in 0 .. bucket_count - 1, NEW e,
         Problem(e) # "OK"
  PROVE  LET r == Validate(WithEntry(Table, s, e))
         IN  ~r.valid /\ r.error = Problem(e) /\ r.bucket_index = s
<1> DEFINE t == WithEntry(Table, s, e)
<1>1. bucket_count \in Nat /\ Slots(t) = 0 .. bucket_count - 1
  BY TableFacts, WithEntryFacts
<1>2. t.entries = [entries EXCEPT ![s] = e]
  BY WithEntryFacts
<1>3. /\ t.entries[s] = e
      /\ \A r \in 0 .. bucket_count - 1 : r # s => t.entries[r] = entries[r]
  BY <1>2, TableFacts
<1> HIDE DEF t
<1>4. ~Validate(t).valid /\ Validate(t).error = Problem(e)
        /\ Validate(t).bucket_index = s
  BY <1>1, <1>3, TableFacts, JudgedByEntry
<1>5. QED
  BY <1>4 DEF t

\* A stray write to an entry's state makes the counters of the table wrong.
LEMMA WrongStateMiscounts ==
  ASSUME IInv, pc = "idle", NEW s \in 0 .. bucket_count - 1,
         NEW st \in {"EMPTY", "DELETED"}, entries[s].state # st
  PROVE  Validate(InState(Table, s, st)).error = "SIZE_MISMATCH"
<1> DEFINE e   == [entries[s] EXCEPT !.state = st]
           new == [entries EXCEPT ![s] = e]
           t   == InState(Table, s, st)
<1> SUFFICES Validate(t).error = "SIZE_MISMATCH"
  OBVIOUS
<1>1. /\ bucket_count \in Nat /\ entries \in [0 .. bucket_count - 1 -> Entry]
      /\ entries[s] \in Entry
  BY TableFacts
<1>2. e.state = st
  BY <1>1 DEF Entry, EmptyEntry, DeletedEntry
<1>3. /\ t.entries = new /\ t.bucket_count = bucket_count
      /\ t.size = size /\ t.deleted_count = deleted_count
      /\ Slots(t) = 0 .. bucket_count - 1
  BY WithEntryFacts, TableFacts DEF InState
<1>4. \A r \in 0 .. bucket_count - 1 : Problem(new[r]) = "OK"
  <2>1. Problem(e) = "OK"
    BY <1>2, ProblemCases
  <2>2. QED
    BY <2>1, <1>1, TableFacts
<1>5. \A x \in {"OCCUPIED", "DELETED"} :
        /\ IsFiniteSet(SlotsIn(entries, x))
        /\ Cardinality(SlotsIn(entries, x)) \in Nat
  BY <1>1, SlotsFinite
<1>6. entries[s].state \in {"EMPTY", "DELETED", "OCCUPIED"}
  BY <1>1, EntryFacts DEF Entry
<1>7. CASE entries[s].state # "EMPTY"
  <2> DEFINE x == entries[s].state
  <2>1. /\ SlotsIn(new, x) = SlotsIn(entries, x) \ {s}
        /\ s \in SlotsIn(entries, x)
    BY <1>1, <1>2 DEF SlotsIn
  <2>2. IsFiniteSet(SlotsIn(entries, x))
    BY <1>5, <1>6, <1>7
  <2>3. Cardinality(SlotsIn(new, x)) = Cardinality(SlotsIn(entries, x)) - 1
    BY <2>1, <2>2, FS_RemoveElement
  <2>4. \/ Cardinality(SlotsIn(new, "OCCUPIED")) # size
        \/ Cardinality(SlotsIn(new, "DELETED")) # deleted_count
    BY <2>3, <1>5, <1>6, <1>7, TableFacts
  <2> HIDE DEF t, new
  <2>5. QED
    BY <1>1, <1>3, <1>4, <2>4, JudgedByCounters
<1>8. CASE entries[s].state = "EMPTY"
  <2>1. /\ SlotsIn(new, "DELETED") = SlotsIn(entries, "DELETED") \cup {s}
        /\ s \notin SlotsIn(entries, "DELETED")
    BY <1>1, <1>2, <1>8 DEF SlotsIn
  <2>2. Cardinality(SlotsIn(new, "DELETED"))
          = Cardinality(SlotsIn(entries, "DELETED")) + 1
    BY <2>1, <1>5, FS_AddElement
  <2>3. Cardinality(SlotsIn(new, "DELETED")) # deleted_count
    BY <2>2, <1>5, TableFacts
  <2> HIDE DEF t, new
  <2>4. QED
    BY <1>1, <1>3, <1>4, <2>3, JudgedByCounters
<1>9. QED
  BY <1>7, <1>8

-----------------------------------------------------------------------------
(* The statistics.                                                         *)

\* An array has occupied, empty and deleted entries only.
LEMMA ThreeKinds ==
  ASSUME NEW n \in Nat, NEW array \in [0 .. n - 1 -> Entry]
  PROVE  Cardinality(SlotsIn(array, "OCCUPIED")) + Cardinality(SlotsIn(array, "EMPTY"))
           + Cardinality(SlotsIn(array, "DELETED")) = n
<1> DEFINE O == SlotsIn(array, "OCCUPIED")
           E == SlotsIn(array, "EMPTY")
           D == SlotsIn(array, "DELETED")
<1> SUFFICES Cardinality(O) + Cardinality(E) + Cardinality(D) = n
  OBVIOUS
<1>1. /\ IsFiniteSet(O) /\ IsFiniteSet(E) /\ IsFiniteSet(D)
      /\ Cardinality(O) \in Nat /\ Cardinality(E) \in Nat /\ Cardinality(D) \in Nat
  BY SlotsFinite
<1>2. /\ O \cap E = {} /\ (O \cup E) \cap D = {}
  BY DEF SlotsIn
<1>3. (O \cup E) \cup D = 0 .. n - 1
  <2>1. \A s \in 0 .. n - 1 : array[s].state \in {"OCCUPIED", "EMPTY", "DELETED"}
    BY DEF Entry, EmptyEntry, DeletedEntry
  <2>2. QED
    BY <2>1 DEF SlotsIn
<1>4. Cardinality(0 .. n - 1) = n
  BY FS_Interval
<1>5. Cardinality({}) = 0
  BY FS_EmptySet
<1> HIDE DEF O, E, D
<1>6. Cardinality(O \cup E) = Cardinality(O) + Cardinality(E) - Cardinality(O \cap E)
      /\ IsFiniteSet(O \cup E)
  BY <1>1, FS_Union
<1>7. Cardinality((O \cup E) \cup D)
        = Cardinality(O \cup E) + Cardinality(D) - Cardinality((O \cup E) \cap D)
  BY <1>1, <1>6, FS_Union
<1>8. Cardinality(O \cap E) = 0 /\ Cardinality((O \cup E) \cap D) = 0
      /\ Cardinality((O \cup E) \cup D) = n
  BY <1>2, <1>3, <1>4, <1>5, Zenon
<1>9. QED
  BY <1>1, <1>6, <1>7, <1>8

\* The search for a stored key has attempts, and ends at the first of them
\* that looks at its slot.
LEMMA AttemptsFound ==
  ASSUME IInv, pc = "idle", NEW s \in SlotsIn(entries, "OCCUPIED")
  PROVE  LET k == entries[s].key
         IN  /\ k \in Keys /\ entries[s].hash = Hash[k] /\ s \in 0 .. bucket_count - 1
             /\ bucket_count \in Nat \ {0}
             /\ Attempts(s) \in 0 .. bucket_count - 1
             /\ ProbeIndex(k, Hash[k], Attempts(s), bucket_count) = s
             /\ \A a \in 0 .. bucket_count - 1 :
                  ProbeIndex(k, Hash[k], a, bucket_count) = s => Attempts(s) <= a
<1> DEFINE k == entries[s].key
           A == {a \in 0 .. bucket_count - 1 :
                   ProbeIndex(k, Hash[k], a, bucket_count) = s}
<1>1. /\ bucket_count \in Nat \ {0} /\ entries \in [0 .. bucket_count - 1 -> Entry]
  BY ConstantsAssumption DEF IInv, TypeOK
<1>2. s \in 0 .. bucket_count - 1 /\ k \in Keys
  BY <1>1, EntryFacts DEF SlotsIn
<1>3. entries[s].hash = Hash[k]
  BY DEF IInv, ProbePathsIntact, HashesCached
<1>4. A # {}
  BY <1>3 DEF IInv, ProbePathsIntact, Reachable
<1>5. Min(A) \in A /\ \A a \in A : Min(A) <= a
  BY <1>4, MinOfNats
<1>6. Attempts(s) = Min(A)
  BY <1>3 DEF Attempts
<1>7. QED
  BY <1>1, <1>2, <1>3, <1>5, <1>6

\* An entry lies away from its own slot just when a search does not find it
\* at once, whatever the strategy: the first attempt looks at that slot.
LEMMA CollisionMeansProbing ==
  ASSUME IInv, pc = "idle", NEW s \in SlotsIn(entries, "OCCUPIED")
  PROVE  ProbeLength(Table, s) > 0 <=> Attempts(s) > 0
<1> DEFINE k == entries[s].key
           n == bucket_count
<1>1. /\ k \in Keys /\ entries[s].hash = Hash[k] /\ s \in 0 .. n - 1
      /\ n \in Nat \ {0} /\ Attempts(s) \in 0 .. n - 1
      /\ ProbeIndex(k, Hash[k], Attempts(s), n) = s
      /\ \A a \in 0 .. n - 1 : ProbeIndex(k, Hash[k], a, n) = s => Attempts(s) <= a
  BY AttemptsFound
<1>2. Hash[k] \in 0 .. SizeMod - 1 /\ SizeMod \in Nat \ {0}
  BY <1>1, ConstantsAssumption, NoLoadOverflow DEF SIZE_MAX
<1>3. ProbeLength(Table, s) = LinearDistance(Hash[k] % n, s, n)
  BY <1>1 DEF ProbeLength, Table
<1>4. ProbeIndex(k, Hash[k], 0, n) = Hash[k] % n
  <2>1. Offset(ProbeStep(k, Hash[k], n), 0) = 0
    <3>1. ProbeStep(k, Hash[k], n) \in Nat
      BY <1>1, <1>2, ProbeStepType
    <3>2. QED
      BY <3>1, ConstantsAssumption DEF Offset
  <2>2. Hash[k] % SizeMod = Hash[k]
    <3>1. (SizeMod * 0 + Hash[k]) % SizeMod = Hash[k]
      BY <1>2, ModUnique
    <3>2. SizeMod * 0 + Hash[k] = Hash[k]
      BY <1>2
    <3>3. QED
      BY <3>1, <3>2
  <2>3. Hash[k] + 0 = Hash[k]
    BY <1>2
  <2>4. QED
    BY <2>1, <2>2, <2>3 DEF ProbeIndex
<1>5. Hash[k] % n \in 0 .. n - 1
  BY <1>1, <1>2
<1> HIDE DEF k, n
<1>6. LinearDistance(Hash[k] % n, s, n) > 0 <=> Hash[k] % n # s
  BY <1>1, <1>5 DEF LinearDistance
<1>7. Attempts(s) = 0 <=> Hash[k] % n = s
  BY <1>1, <1>4
<1>8. QED
  BY <1>1, <1>3, <1>6, <1>7

\* With linear probing that does not jump the displacement of an entry is the
\* number of slots its search passes.
LEMMA LengthMeansAttempts ==
  ASSUME NEW C, LinearCapacities(C), IInv, bucket_count \in C, pc = "idle",
         NEW s \in SlotsIn(entries, "OCCUPIED")
  PROVE  ProbeLength(Table, s) = Attempts(s)
<1> DEFINE k == entries[s].key
           n == bucket_count
<1>1. /\ k \in Keys /\ entries[s].hash = Hash[k] /\ s \in 0 .. n - 1
      /\ n \in Nat \ {0} /\ Attempts(s) \in 0 .. n - 1
      /\ ProbeIndex(k, Hash[k], Attempts(s), n) = s
  BY AttemptsFound
<1>2. Hash[k] \in Nat
  BY <1>1, HashType
<1>3. ProbeLength(Table, s) = Distance(Hash[k] % n, s, n)
  BY <1>1 DEF ProbeLength, LinearDistance, Distance, Table
<1> HIDE DEF k
<1>4. ProbeIndex(k, Hash[k], Attempts(s), n) = (Hash[k] + Attempts(s)) % n
  BY <1>1, LinearProbe DEF LinearCapacities
<1>5. QED
  BY <1>1, <1>2, <1>3, <1>4, OneDistance

\* The sums that StatsExact compares.
TotalLength(t, U) == MapThenSumSet(LAMBDA s : ProbeLength(t, s), U)
TotalAttempts(U)  == MapThenSumSet(Attempts, U)

\* Sums over the same set of equal terms are equal.
LEMMA SumOfLengths ==
  ASSUME NEW t, NEW U, \A s \in U : ProbeLength(t, s) = Attempts(s)
  PROVE  TotalLength(t, U) = TotalAttempts(U)
<1> DEFINE Some(s) == CHOOSE x \in s : TRUE
           F(iter) == [s \in SUBSET U |-> IF s = {} THEN 0
                        ELSE ProbeLength(t, Some(s)) + iter[s \ {Some(s)}]]
           G(iter) == [s \in SUBSET U |-> IF s = {} THEN 0
                        ELSE Attempts(Some(s)) + iter[s \ {Some(s)}]]
<1>1. ASSUME NEW s \in SUBSET U, s # {}
      PROVE  ProbeLength(t, Some(s)) = Attempts(Some(s))
  BY <1>1
<1>2. TotalLength(t, U) = (CHOOSE iter : iter = F(iter))[U]
  BY DEF TotalLength, MapThenSumSet, MapThenFoldSet
<1>3. TotalAttempts(U) = (CHOOSE iter : iter = G(iter))[U]
  BY DEF TotalAttempts, MapThenSumSet, MapThenFoldSet
<1> HIDE DEF Some
<1>4. ASSUME NEW iter
      PROVE  F(iter) = G(iter)
  BY <1>1
<1> HIDE DEF F, G
<1>5. (CHOOSE iter : iter = F(iter)) = (CHOOSE iter : iter = G(iter))
  BY <1>4, Zenon
<1>6. QED
  BY <1>2, <1>3, <1>5

\* What the invariant says of the statistics; the capacity matters for linear
\* probing only.
LEMMA StatsFollow ==
  ASSUME NEW C, IInv,
         ProbeStrategy = "LINEAR" => LinearCapacities(C) /\ CapacityIn(C)
  PROVE  StatsExact
<1> DEFINE used == SlotsIn(entries, "OCCUPIED")
<1> SUFFICES ASSUME pc = "idle" PROVE StatsExact
  BY DEF StatsExact
<1>1. /\ bucket_count \in Nat /\ entries \in [0 .. bucket_count - 1 -> Entry]
      /\ Table.entries = entries /\ Table.bucket_count = bucket_count
      /\ Table.size = size /\ size = Cardinality(used)
      /\ deleted_count = Cardinality(SlotsIn(entries, "DELETED"))
  BY TableFacts
<1>2. Cardinality(used) + Cardinality(SlotsIn(entries, "EMPTY"))
        + Cardinality(SlotsIn(entries, "DELETED")) = bucket_count
  BY <1>1, ThreeKinds
<1>3. {s \in used : ProbeLength(Table, s) > 0} = {s \in used : Attempts(s) > 0}
  BY CollisionMeansProbing
<1>4. ASSUME ProbeStrategy = "LINEAR"
      PROVE  /\ {ProbeLength(Table, s) : s \in used} = {Attempts(s) : s \in used}
             /\ TotalLength(Table, used) = TotalAttempts(used)
  <2>1. \A s \in used : ProbeLength(Table, s) = Attempts(s)
    BY <1>4, LengthMeansAttempts DEF CapacityIn
  <2>2. {ProbeLength(Table, s) : s \in used} = {Attempts(s) : s \in used}
    BY <2>1
  <2>3. TotalLength(Table, used) = TotalAttempts(used)
    BY <2>1, SumOfLengths
  <2>4. QED
    BY <2>2, <2>3
<1> DEFINE stats == Stats(Table)
<1>5. /\ stats.entries = size /\ stats.capacity = bucket_count
      /\ stats.used_buckets = Cardinality(used)
      /\ stats.empty_buckets = Cardinality(SlotsIn(entries, "EMPTY"))
      /\ stats.tombstones = Cardinality(SlotsIn(entries, "DELETED"))
      /\ stats.collisions = Cardinality({s \in used : ProbeLength(Table, s) > 0})
      /\ stats.max_probe_length = Max({ProbeLength(Table, s) : s \in used} \cup {0})
      /\ stats.total_probe_length = TotalLength(Table, used)
  BY <1>1 DEF Stats, TotalLength
<1> HIDE DEF stats
<1>6. /\ stats.used_buckets = stats.entries
      /\ stats.tombstones = deleted_count
      /\ stats.used_buckets + stats.empty_buckets + stats.tombstones = stats.capacity
      /\ stats.collisions = Cardinality({s \in used : Attempts(s) > 0})
  BY <1>1, <1>2, <1>3, <1>5
<1>7. ASSUME ProbeStrategy = "LINEAR"
      PROVE  /\ stats.max_probe_length = Max({Attempts(s) : s \in used} \cup {0})
             /\ stats.total_probe_length = TotalAttempts(used)
  BY <1>4, <1>5, <1>7
<1>8. QED
  BY <1>6, <1>7 DEF StatsExact, TotalAttempts, stats

-----------------------------------------------------------------------------
(* The theorems.                                                           *)

\* validate accepts every table between two calls (cashash_diagnostics.h:255),
\* whatever hash function without a seed it was built with.
THEOREM SpecValidateAccepts == Spec => []ValidateAccepts
<1>1. IInv => ValidateAccepts
  <2>1. SUFFICES ASSUME IInv, pc = "idle"
                 PROVE  Validate(Table).valid
    BY DEF ValidateAccepts
  <2>2. Slots(Table) = 0 .. bucket_count - 1
    BY <2>1, TableFacts DEF Slots
  <2>3. QED
    BY <2>1, <2>2, TableFacts, JudgedByCounters
<1>2. QED
  BY <1>1, SpecIInv, PTL

\* validate rejects every table that one stray write makes of a sound one,
\* and says which entry is wrong (cashash_diagnostics.h:107-118, 243-249).
THEOREM SpecSingleFaultsDetected == Spec => []SingleFaultsDetected
<1>1. ASSUME IInv, pc = "idle", NEW fault \in EntryFaults(Table)
      PROVE  LET r == Validate(fault.table)
             IN  ~r.valid /\ r.error = fault.error /\ r.bucket_index = fault.slot
  <2>1. /\ bucket_count \in Nat /\ entries \in [0 .. bucket_count - 1 -> Entry]
        /\ Table.entries = entries /\ Slots(Table) = 0 .. bucket_count - 1
        /\ SlotsIn(entries, "OCCUPIED") \subseteq 0 .. bucket_count - 1
    BY <1>1, TableFacts DEF Slots, SlotsIn
  <2>2. ASSUME NEW s \in SlotsIn(entries, "OCCUPIED"),
               fault = [table |-> WrongHash(Table, s), slot |-> s,
                        error |-> "HASH_MISMATCH"]
        PROVE  LET r == Validate(fault.table)
               IN  /\ ~r.valid /\ r.error = fault.error
                   /\ r.bucket_index = fault.slot
    <3> DEFINE e == [entries[s] EXCEPT !.hash = @ + 1]
    <3>1. entries[s] \in Entry /\ entries[s].state = "OCCUPIED"
      BY <2>1 DEF SlotsIn
    <3>2. /\ entries[s].key \in Keys /\ entries[s].key # NULL
          /\ entries[s].hash = Hash[entries[s].key]
          /\ Hash[entries[s].key] \in Nat
      BY <1>1, <2>1, <3>1, EntryFacts, KeyAssumption, HashType
         DEF IInv, ProbePathsIntact, HashesCached
    <3>3. /\ e.state = "OCCUPIED" /\ e.key = entries[s].key
          /\ e.hash = entries[s].hash + 1
      BY <3>1 DEF Entry, EmptyEntry, DeletedEntry
    <3> HIDE DEF e
    <3>4. Problem(e) = "HASH_MISMATCH"
      BY <3>2, <3>3, ProblemCases
    <3>5. fault.table = WithEntry(Table, s, e)
      BY <2>1, <2>2 DEF WrongHash, e
    <3>6. QED
      BY <1>1, <2>1, <2>2, <3>4, <3>5, WrongEntryReported
  <2>3. ASSUME NEW s \in SlotsIn(entries, "OCCUPIED"),
               fault = [table |-> LostKey(Table, s), slot |-> s,
                        error |-> "INVALID_ENTRY"]
        PROVE  LET r == Validate(fault.table)
               IN  /\ ~r.valid /\ r.error = fault.error
                   /\ r.bucket_index = fault.slot
    <3> DEFINE e == [entries[s] EXCEPT !.key = NULL]
    <3>1. entries[s] \in Entry /\ entries[s].state = "OCCUPIED"
      BY <2>1 DEF SlotsIn
    <3>2. e.state = "OCCUPIED" /\ e.key = NULL
      BY <3>1 DEF Entry, EmptyEntry, DeletedEntry
    <3> HIDE DEF e
    <3>3. Problem(e) = "INVALID_ENTRY"
      BY <3>2, ProblemCases
    <3>4. fault.table = WithEntry(Table, s, e)
      BY <2>1, <2>3 DEF LostKey, e
    <3>5. QED
      BY <1>1, <2>1, <2>3, <3>3, <3>4, WrongEntryReported
  <2>4. ASSUME NEW s \in Slots(Table),
               fault = [table |-> InState(Table, s, "garbage"), slot |-> s,
                        error |-> "INVALID_ENTRY"]
        PROVE  LET r == Validate(fault.table)
               IN  /\ ~r.valid /\ r.error = fault.error
                   /\ r.bucket_index = fault.slot
    <3> DEFINE e == [entries[s] EXCEPT !.state = "garbage"]
    <3>1. entries[s] \in Entry
      BY <2>1
    <3>2. e.state = "garbage"
      BY <3>1 DEF Entry, EmptyEntry, DeletedEntry
    <3> HIDE DEF e
    <3>3. Problem(e) = "INVALID_ENTRY"
      BY <3>2, ProblemCases
    <3>4. fault.table = WithEntry(Table, s, e)
      BY <2>1, <2>4 DEF InState, e
    <3>5. QED
      BY <1>1, <2>1, <2>4, <3>3, <3>4, WrongEntryReported
  <2>5. ASSUME NEW s \in Slots(Table) \ SlotsIn(entries, "OCCUPIED"),
               fault = [table |-> InState(Table, s, "OCCUPIED"), slot |-> s,
                        error |-> "INVALID_ENTRY"]
        PROVE  LET r == Validate(fault.table)
               IN  /\ ~r.valid /\ r.error = fault.error
                   /\ r.bucket_index = fault.slot
    <3> DEFINE e == [entries[s] EXCEPT !.state = "OCCUPIED"]
    <3>1. entries[s] \in Entry /\ entries[s].state # "OCCUPIED"
      BY <2>1 DEF SlotsIn
    <3>2. entries[s] \in {EmptyEntry, DeletedEntry}
      BY <3>1 DEF Entry
    <3>3. e.state = "OCCUPIED" /\ e.key = NULL
      BY <3>2 DEF EmptyEntry, DeletedEntry
    <3> HIDE DEF e
    <3>4. Problem(e) = "INVALID_ENTRY"
      BY <3>3, ProblemCases
    <3>5. fault.table = WithEntry(Table, s, e)
      BY <2>1, <2>5 DEF InState, e
    <3>6. QED
      BY <1>1, <2>1, <2>5, <3>4, <3>5, WrongEntryReported
  <2>6. QED
    BY <1>1, <2>1, <2>2, <2>3, <2>4, <2>5 DEF EntryFaults
<1>2. ASSUME IInv, pc = "idle", NEW table \in CountFaults(Table)
      PROVE  Validate(table).error = "SIZE_MISMATCH"
  <2>1. /\ bucket_count \in Nat /\ Table.entries = entries
        /\ Table.size = size /\ Table.deleted_count = deleted_count
        /\ Table.bucket_count = bucket_count
        /\ Slots(Table) = 0 .. bucket_count - 1
    BY <1>2, TableFacts DEF Slots
  <2>2. ASSUME NEW n \in (0 .. bucket_count) \ {size},
               table = [Table EXCEPT !.size = n]
        PROVE  Validate(table).error = "SIZE_MISMATCH"
    <3>1. /\ table.entries = entries /\ table.bucket_count = bucket_count
          /\ table.size # size
      BY <2>2 DEF Table
    <3>2. Slots(table) = 0 .. bucket_count - 1
      BY <3>1, <2>1 DEF Slots
    <3>3. QED
      BY <1>2, <2>1, <3>1, <3>2, TableFacts, JudgedByCounters
  <2>3. ASSUME NEW n \in (0 .. bucket_count) \ {deleted_count},
               table = [Table EXCEPT !.deleted_count = n]
        PROVE  Validate(table).error = "SIZE_MISMATCH"
    <3>1. /\ table.entries = entries /\ table.bucket_count = bucket_count
          /\ table.deleted_count # deleted_count
      BY <2>3 DEF Table
    <3>2. Slots(table) = 0 .. bucket_count - 1
      BY <3>1, <2>1 DEF Slots
    <3>3. QED
      BY <1>2, <2>1, <3>1, <3>2, TableFacts, JudgedByCounters
  <2>4. ASSUME NEW st \in {"EMPTY", "DELETED"},
               NEW s \in Slots(Table) \ SlotsIn(entries, st),
               table = InState(Table, s, st)
        PROVE  Validate(table).error = "SIZE_MISMATCH"
    <3>1. s \in 0 .. bucket_count - 1 /\ entries[s].state # st
      BY <2>1, <2>4 DEF SlotsIn, Slots
    <3>2. QED
      BY <1>2, <2>4, <3>1, WrongStateMiscounts
  <2>5. QED
    BY <1>2, <2>1, <2>2, <2>3, <2>4 DEF CountFaults
<1>3. IInv => SingleFaultsDetected
  BY <1>1, <1>2 DEF SingleFaultsDetected
<1>4. QED
  BY <1>3, SpecIInv, PTL

\* The statistics are exact, with linear probing when no probe sequence jumps:
\* the property is about the number of attempts, and across a jump the
\* displacement that stats reports is another number.
THEOREM SpecStatsExact ==
  ASSUME NEW CONSTANT C, ProbeStrategy = "LINEAR" => LinearCapacities(C)
  PROVE  Spec => []StatsExact
<1> DEFINE InC == ProbeStrategy = "LINEAR" => CapacityIn(C)
<1>1. Init => InC
  BY DEF Init, CapacityIn
<1>2. IInv /\ InC /\ [Next]_vars => InC'
  BY CapacityKept
<1>3. IInv /\ InC => StatsExact
  BY StatsFollow
<1>4. QED
  BY <1>1, <1>2, <1>3, SpecIInv, PTL DEF Spec
=============================================================================
