--------------------------- MODULE OADiagnostics ----------------------------
(***************************************************************************)
(* cashash_validate and cashash_stats over an open-addressing table        *)
(* (src/cashash_diagnostics.c), as functions of the table: they only read  *)
(* it, in loops bounded by the array. They are evaluated in every state of *)
(* OATable between two calls, and on every table that one stray write      *)
(* makes of such a state. The configured hash function takes no seed here, *)
(* so that validate recomputes what the insert cached; XXH64, which gets a *)
(* different argument from each of the two, is the subject of HashConfig.  *)
(***************************************************************************)
EXTENDS OATable

\* The table between two calls; t stands for such a record below.
Table == [entries |-> entries, bucket_count |-> bucket_count, size |-> size,
          deleted_count |-> deleted_count]

Slots(t) == DOMAIN t.entries

-----------------------------------------------------------------------------
(* validate.                                                               *)

Result(valid, error, bucket_index, entry_index) ==
  [valid |-> valid, error |-> error,
   bucket_index |-> bucket_index, entry_index |-> entry_index]

\* Mutant: the hash is not recomputed.
ProblemTrustsCache(entry) ==
  IF entry.state = "OCCUPIED"
  THEN IF entry.key = NULL THEN "INVALID_ENTRY" ELSE "OK"
  ELSE IF entry.state \in {"EMPTY", "DELETED"} THEN "OK" ELSE "INVALID_ENTRY"

\* What the loop finds wrong with one entry. Its test of the ideal bucket,
\* hash % bucket_count < bucket_count, cannot fail.
Problem(entry) ==
  IF entry.state = "OCCUPIED"
  THEN IF entry.key = NULL THEN "INVALID_ENTRY"
       ELSE IF Hash[entry.key] # entry.hash THEN "HASH_MISMATCH" ELSE "OK"
  ELSE IF entry.state \in {"EMPTY", "DELETED"} THEN "OK" ELSE "INVALID_ENTRY"

\* The loop stops at the first entry that is wrong; counted(n) is the number
\* of occupied entries before slot n.
Validate(t) ==
  LET wrong == {s \in Slots(t) : Problem(t.entries[s]) # "OK"}
      counted(n) == Cardinality({s \in SlotsIn(t.entries, "OCCUPIED") : s < n})
  IN  IF wrong # {}
      THEN LET s == Min(wrong)
           IN  Result(FALSE, Problem(t.entries[s]), s, counted(s))
      ELSE IF \/ counted(t.bucket_count) # t.size
              \/ Cardinality(SlotsIn(t.entries, "DELETED")) # t.deleted_count
      THEN Result(FALSE, "SIZE_MISMATCH", 0, counted(t.bucket_count))
      ELSE Result(TRUE, "OK", 0, 0)

-----------------------------------------------------------------------------
(* stats.                                                                  *)

\* Mutant: a displacement across the end of the array is one too short.
LinearDistanceShort(from, to, capacity) ==
  IF to >= from THEN to - from ELSE capacity - from + to - 1

LinearDistance(from, to, capacity) ==
  IF to >= from THEN to - from ELSE capacity - from + to

ProbeLength(t, s) ==
  LinearDistance(t.entries[s].hash % t.bucket_count, s, t.bucket_count)

Stats(t) ==
  LET used    == SlotsIn(t.entries, "OCCUPIED")
      lengths == {ProbeLength(t, s) : s \in used}
  IN  [entries            |-> t.size,
       capacity           |-> t.bucket_count,
       used_buckets       |-> Cardinality(used),
       empty_buckets      |-> Cardinality(SlotsIn(t.entries, "EMPTY")),
       tombstones         |-> Cardinality(SlotsIn(t.entries, "DELETED")),
       collisions         |-> Cardinality({s \in used : ProbeLength(t, s) > 0}),
       max_probe_length   |-> Max(lengths \cup {0}),
       total_probe_length |-> MapThenSumSet(LAMBDA s : ProbeLength(t, s), used)]

-----------------------------------------------------------------------------
(* Stray writes.                                                           *)

WithEntry(t, s, entry) == [t EXCEPT !.entries[s] = entry]

\* One field of one entry overwritten, with the error that tells of it.
WrongHash(t, s)  == WithEntry(t, s, [t.entries[s] EXCEPT !.hash = @ + 1])
LostKey(t, s)    == WithEntry(t, s, [t.entries[s] EXCEPT !.key = NULL])
InState(t, s, x) == WithEntry(t, s, [t.entries[s] EXCEPT !.state = x])

EntryFaults(t) ==
  {[table |-> WrongHash(t, s), slot |-> s, error |-> "HASH_MISMATCH"]
     : s \in SlotsIn(t.entries, "OCCUPIED")}
  \cup
  {[table |-> LostKey(t, s), slot |-> s, error |-> "INVALID_ENTRY"]
     : s \in SlotsIn(t.entries, "OCCUPIED")}
  \cup
  {[table |-> InState(t, s, "garbage"), slot |-> s, error |-> "INVALID_ENTRY"]
     : s \in Slots(t)}
  \cup
  {[table |-> InState(t, s, "OCCUPIED"), slot |-> s, error |-> "INVALID_ENTRY"]
     : s \in Slots(t) \ SlotsIn(t.entries, "OCCUPIED")}

\* A counter overwritten, or a state that makes the counters wrong.
CountFaults(t) ==
  {[t EXCEPT !.size = n] : n \in (0 .. t.bucket_count) \ {t.size}} \cup
  {[t EXCEPT !.deleted_count = n]
     : n \in (0 .. t.bucket_count) \ {t.deleted_count}} \cup
  {InState(t, s, "EMPTY") : s \in Slots(t) \ SlotsIn(t.entries, "EMPTY")} \cup
  {InState(t, s, "DELETED") : s \in Slots(t) \ SlotsIn(t.entries, "DELETED")}

-----------------------------------------------------------------------------
(* Properties.                                                             *)

\* validate accepts every table the library's own calls lead to, whatever
\* was removed, resized or rolled back, when the hash function takes no seed
\* (cashash_diagnostics.h:255).
ValidateAccepts == pc = "idle" => Validate(Table).valid

\* A single stray write to a state, a key, a cached hash or a counter does not
\* pass, and a wrong entry is reported with its error and its index
\* (cashash_diagnostics.h:107-118, 243-249).
SingleFaultsDetected ==
  pc = "idle" =>
    /\ \A fault \in EntryFaults(Table) :
         LET r == Validate(fault.table)
         IN  ~r.valid /\ r.error = fault.error /\ r.bucket_index = fault.slot
    /\ \A table \in CountFaults(Table) : Validate(table).error = "SIZE_MISMATCH"

\* How many slots a search for the key in slot s looks at before that one.
Attempts(s) ==
  Min({a \in 0 .. bucket_count - 1 :
         ProbeIndex(entries[s].key, entries[s].hash, a, bucket_count) = s})

\* The statistics are those of the table's history and of its searches: the
\* slots are those the counters tell of, an entry is a collision when a search
\* does not find it at once, and with linear probing the displacement of an
\* entry is the number of slots its search passes
\* (cashash_diagnostics.h:165-166, 200-218; cashash_diagnostics.c:297).
StatsExact ==
  pc = "idle" =>
    LET stats == Stats(Table)
        used  == SlotsIn(entries, "OCCUPIED")
    IN  /\ stats.used_buckets = stats.entries
        /\ stats.tombstones = deleted_count
        /\ stats.used_buckets + stats.empty_buckets + stats.tombstones
             = stats.capacity
        /\ stats.collisions = Cardinality({s \in used : Attempts(s) > 0})
        /\ ProbeStrategy = "LINEAR" =>
             /\ stats.max_probe_length = Max({Attempts(s) : s \in used} \cup {0})
             /\ stats.total_probe_length = MapThenSumSet(Attempts, used)
=============================================================================
