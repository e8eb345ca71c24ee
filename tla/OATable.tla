------------------------------ MODULE OATable -------------------------------
(***************************************************************************)
(* The open-addressing backend (src/cashash_oa.c) of a cashash table, with *)
(* its creation functions (src/cashash.c).                                 *)
(*                                                                         *)
(* A public call is one step, except an insert that has to grow the table: *)
(* cashash_oa_resize re-inserts the old entries one by one into the new    *)
(* array and may fail half way, so each iteration of its loop is a step.   *)
(* The caller is suspended inside the insert meanwhile (pc = "resizing"),  *)
(* so no other call starts.                                                *)
(***************************************************************************)
EXTENDS CashashTypes, FiniteSets, FiniteSetsExt

CONSTANTS
  Hash,           \* the configured hash function, key by key
  SecondHash,     \* the custom second hash, or NULL
  ProbeStrategy,  \* "LINEAR", "QUADRATIC" or "DOUBLE_HASHING"
  SizeMod,        \* size_t arithmetic is modulo SizeMod
  MaxBuckets,     \* the largest entry array calloc can provide
  Requests        \* the bucket counts a caller asks for

SIZE_MAX == SizeMod - 1

ASSUME ConstantsAssumption ==
  /\ ProbeStrategy \in {"LINEAR", "QUADRATIC", "DOUBLE_HASHING"}
  /\ SizeMod \in Nat /\ MaxBuckets \in Nat
  /\ Requests \subseteq Nat
  /\ Hash \in [Keys -> 0 .. SIZE_MAX]
  /\ SecondHash # NULL => SecondHash \in [Keys -> 0 .. SIZE_MAX]

(***************************************************************************)
(* An array that fits in memory is too short for the products of the load  *)
(* test (lines 217-218) or for twice its length to wrap around: an entry   *)
(* is 40 bytes wide on a 64-bit machine.                                   *)
(***************************************************************************)
ASSUME NoLoadOverflow == (MaxBuckets + 2) * 100 < SizeMod

VARIABLES
  pc,             \* "none": no table, "idle": between calls, "resizing"
  entries,        \* oa->entries
  bucket_count,   \* oa->bucket_count
  size,           \* oa->size
  deleted_count,  \* oa->deleted_count
  old_entries,    \* cashash_oa_resize: the array being replaced
  old_bucket_count,
  cursor,         \* cashash_oa_resize: the index i of its loop
  pending,        \* the arguments of the insert that is resizing
  key_copies,     \* history: key copies made and not yet destroyed
  ret             \* history: the reply to the last call

tableVars  == <<entries, bucket_count, size, deleted_count, key_copies>>
resizeVars == <<old_entries, old_bucket_count, cursor, pending>>
vars == <<pc, tableVars, resizeVars, ret>>

EmptyEntry   == [state |-> "EMPTY",   hash |-> 0, key |-> NULL, value |-> NULL]
DeletedEntry == [state |-> "DELETED", hash |-> 0, key |-> NULL, value |-> NULL]
OccupiedEntry(k, v) ==
  [state |-> "OCCUPIED", hash |-> Hash[k], key |-> k, value |-> v]

Entry ==
  {EmptyEntry, DeletedEntry} \cup
  [state : {"OCCUPIED"}, hash : 0 .. SIZE_MAX, key : Keys, value : Values]

Calloc(n) == [s \in 0 .. n - 1 |-> EmptyEntry]
NoArray   == Calloc(0)

SlotsIn(array, st) == {s \in DOMAIN array : array[s].state = st}

-----------------------------------------------------------------------------
(* Probing.                                                                *)

DefaultSecondHash(h, n) == IF n <= 1 THEN 1 ELSE 1 + (h % (n - 1))

\* Mutant: a step of zero is let through.
ProbeStepUnguarded(k, h, n) ==
  IF ProbeStrategy # "DOUBLE_HASHING" THEN 1
  ELSE IF SecondHash = NULL THEN DefaultSecondHash(h, n)
  ELSE SecondHash[k] % n

ProbeStep(k, h, n) ==
  IF ProbeStrategy # "DOUBLE_HASHING" THEN 1
  ELSE IF SecondHash = NULL THEN DefaultSecondHash(h, n)
  ELSE IF SecondHash[k] % n = 0 THEN 1
  ELSE SecondHash[k] % n

Offset(step, attempt) ==
  CASE ProbeStrategy = "LINEAR"         -> attempt
    [] ProbeStrategy = "QUADRATIC"      -> attempt * attempt
    [] ProbeStrategy = "DOUBLE_HASHING" -> attempt * step

\* The slot of an array of n entries that the given attempt for k looks at.
ProbeIndex(k, h, attempt, n) ==
  ((h + Offset(ProbeStep(k, h, n), attempt)) % SizeMod) % n

KeyEquals(entry, k, h) ==
  entry.state = "OCCUPIED" /\ entry.hash = h /\ entry.key = k

\* Mutant: an insert takes the first tombstone without looking further.
FindSlotEagerReuse(k, h, forInsert) ==
  LET at(a) == entries[ProbeIndex(k, h, a, bucket_count)]
      stops == {a \in 0 .. bucket_count - 1 :
                  \/ at(a).state = "EMPTY" \/ KeyEquals(at(a), k, h)
                  \/ forInsert /\ at(a).state = "DELETED"}
      last  == IF stops = {} THEN bucket_count ELSE Min(stops)
  IN  [found |-> stops # {} /\ at(last).state = "OCCUPIED",
       index |-> IF stops # {} THEN ProbeIndex(k, h, last, bucket_count)
                 ELSE SIZE_MAX]

(***************************************************************************)
(* The probe loop stops at the first attempt that meets an empty slot or   *)
(* the key; an insert prefers the first tombstone it has passed.           *)
(***************************************************************************)
FindSlot(k, h, forInsert) ==
  LET at(a) == entries[ProbeIndex(k, h, a, bucket_count)]
      stops == {a \in 0 .. bucket_count - 1 :
                  at(a).state = "EMPTY" \/ KeyEquals(at(a), k, h)}
      last  == IF stops = {} THEN bucket_count ELSE Min(stops)
      tombs == {a \in 0 .. last - 1 : at(a).state = "DELETED"}
      found == stops # {} /\ at(last).state = "OCCUPIED"
  IN  [found |-> found,
       index |-> IF ~found /\ forInsert /\ tombs # {}
                 THEN ProbeIndex(k, h, Min(tombs), bucket_count)
                 ELSE IF stops # {} THEN ProbeIndex(k, h, last, bucket_count)
                 ELSE SIZE_MAX]

-----------------------------------------------------------------------------
(* Creating a table.                                                       *)

Init ==
  /\ pc = "none"
  /\ entries = NoArray /\ bucket_count = 0
  /\ size = 0 /\ deleted_count = 0 /\ key_copies = 0
  /\ old_entries = NoArray /\ old_bucket_count = 0
  /\ cursor = 0 /\ pending = NULL
  /\ ret = NoReply

Create(n) ==
  /\ pc = "none"
  /\ n # 0 /\ n <= MaxBuckets
  /\ pc' = "idle"
  /\ entries' = Calloc(n) /\ bucket_count' = n
  /\ size' = 0 /\ deleted_count' = 0
  /\ ret' = Reply("create", NULL, TRUE, FALSE)
  /\ UNCHANGED <<key_copies, resizeVars>>

\* wellFormed: are the callbacks complete and the probe strategy a known one?
\* A well-formed request fails when malloc or calloc does.
CreateFails(n, wellFormed) ==
  /\ pc = "none"
  /\ ret' = Reply("create", NULL, FALSE, n # 0 /\ wellFormed)
  /\ UNCHANGED <<pc, tableVars, resizeVars>>

-----------------------------------------------------------------------------
(* Inserting.                                                              *)

\* Mutant: the load test overlooks tombstones.
ShouldGrowIgnoresTombstones == (size + 1) * 100 >= bucket_count * 70

ShouldGrow ==
  (size + deleted_count + 1) * 100 >= bucket_count * 70

GrownCount == IF bucket_count * 2 = 0 THEN 8 ELSE bucket_count * 2

InsertBadKey(k) ==
  /\ pc = "idle"
  /\ k \in BadKeys
  /\ ret' = Reply("insert", k, FALSE, FALSE)
  /\ UNCHANGED <<pc, tableVars, resizeVars>>

Overwrite(slot, k, v) ==
  /\ slot.found
  /\ entries' = [entries EXCEPT ![slot.index].value = v]
  /\ ret' = Reply("insert", k, TRUE, FALSE)
  /\ UNCHANGED <<size, deleted_count, key_copies>>

NoSlot(slot, k) ==
  /\ slot.index = SIZE_MAX
  /\ ret' = Reply("insert", k, FALSE, FALSE)
  /\ UNCHANGED <<entries, size, deleted_count, key_copies>>

CopyKeyFails(slot, k) ==
  /\ slot.index # SIZE_MAX /\ ~slot.found
  /\ ret' = Reply("insert", k, FALSE, TRUE)
  /\ UNCHANGED <<entries, size, deleted_count, key_copies>>

\* Mutants: the tombstone counter is decremented for every slot, for none.
OccupyAlwaysReuses(slot, k, v) ==
  /\ slot.index # SIZE_MAX /\ ~slot.found
  /\ key_copies' = key_copies + 1
  /\ deleted_count' = deleted_count - 1
  /\ entries' = [entries EXCEPT ![slot.index] = OccupiedEntry(k, v)]
  /\ size' = size + 1
  /\ ret' = Reply("insert", k, TRUE, FALSE)

OccupyNeverReuses(slot, k, v) ==
  /\ slot.index # SIZE_MAX /\ ~slot.found
  /\ key_copies' = key_copies + 1
  /\ deleted_count' = deleted_count
  /\ entries' = [entries EXCEPT ![slot.index] = OccupiedEntry(k, v)]
  /\ size' = size + 1
  /\ ret' = Reply("insert", k, TRUE, FALSE)

Occupy(slot, k, v) ==
  /\ slot.index # SIZE_MAX /\ ~slot.found
  /\ key_copies' = key_copies + 1
  /\ deleted_count' = IF entries[slot.index].state = "DELETED"
                      THEN deleted_count - 1 ELSE deleted_count
  /\ entries' = [entries EXCEPT ![slot.index] = OccupiedEntry(k, v)]
  /\ size' = size + 1
  /\ ret' = Reply("insert", k, TRUE, FALSE)

\* The part of cashash_oa_insert after the growth check.
Place(k, v) ==
  LET slot == FindSlot(k, Hash[k], TRUE)
  IN  \/ Overwrite(slot, k, v)
      \/ NoSlot(slot, k)
      \/ CopyKeyFails(slot, k)
      \/ Occupy(slot, k, v)

Insert(k, v) ==
  /\ pc = "idle"
  /\ ~ShouldGrow
  /\ Place(k, v)
  /\ UNCHANGED <<pc, bucket_count, resizeVars>>

ResizeFails(k) ==
  /\ pc = "idle"
  /\ ShouldGrow
  /\ ret' = Reply("insert", k, FALSE, TRUE)
  /\ UNCHANGED <<pc, tableVars, resizeVars>>

\* Mutant: the tombstone counter is not reset for the new array.
BeginResizeKeepsCounter(k, v) ==
  /\ pc = "idle"
  /\ ShouldGrow
  /\ GrownCount <= MaxBuckets
  /\ pc' = "resizing"
  /\ old_entries' = entries /\ old_bucket_count' = bucket_count
  /\ entries' = Calloc(GrownCount) /\ bucket_count' = GrownCount
  /\ size' = 0
  /\ cursor' = 0
  /\ pending' = [key |-> k, value |-> v]
  /\ UNCHANGED <<deleted_count, key_copies, ret>>

BeginResize(k, v) ==
  /\ pc = "idle"
  /\ ShouldGrow
  /\ GrownCount <= MaxBuckets
  /\ pc' = "resizing"
  /\ old_entries' = entries /\ old_bucket_count' = bucket_count
  /\ entries' = Calloc(GrownCount) /\ bucket_count' = GrownCount
  /\ size' = 0 /\ deleted_count' = 0
  /\ cursor' = 0
  /\ pending' = [key |-> k, value |-> v]
  /\ UNCHANGED <<key_copies, ret>>

SkipEntry ==
  /\ pc = "resizing"
  /\ cursor < old_bucket_count
  /\ old_entries[cursor].state # "OCCUPIED"
  /\ cursor' = cursor + 1
  /\ UNCHANGED <<pc, tableVars, old_entries, old_bucket_count, pending, ret>>

\* The slot cashash_oa_insert_existing_entry gives the entry at the cursor.
RehashSlot == FindSlot(old_entries[cursor].key, old_entries[cursor].hash, TRUE)

MoveEntry ==
  /\ pc = "resizing"
  /\ cursor < old_bucket_count
  /\ old_entries[cursor].state = "OCCUPIED"
  /\ RehashSlot.index # SIZE_MAX
  /\ entries' = [entries EXCEPT ![RehashSlot.index] = old_entries[cursor]]
  /\ size' = size + 1
  /\ cursor' = cursor + 1
  /\ UNCHANGED <<pc, bucket_count, deleted_count, key_copies,
                 old_entries, old_bucket_count, pending, ret>>

ReleaseResize ==
  /\ pc' = "idle"
  /\ old_entries' = NoArray /\ old_bucket_count' = 0
  /\ cursor' = 0 /\ pending' = NULL

\* Mutants: a roll-back leaves the tombstone counter of the new array behind;
\* a roll-back keeps the new array.
RollBackKeepsCounter ==
  /\ pc = "resizing"
  /\ cursor < old_bucket_count
  /\ old_entries[cursor].state = "OCCUPIED"
  /\ RehashSlot.index = SIZE_MAX
  /\ entries' = old_entries /\ bucket_count' = old_bucket_count
  /\ size' = Cardinality(SlotsIn(old_entries, "OCCUPIED"))
  /\ ret' = Reply("insert", pending.key, FALSE, FALSE)
  /\ ReleaseResize
  /\ UNCHANGED <<deleted_count, key_copies>>

RollBackKeepsNewArray ==
  /\ pc = "resizing"
  /\ cursor < old_bucket_count
  /\ old_entries[cursor].state = "OCCUPIED"
  /\ RehashSlot.index = SIZE_MAX
  /\ ret' = Reply("insert", pending.key, FALSE, FALSE)
  /\ ReleaseResize
  /\ UNCHANGED tableVars

RollBack ==
  /\ pc = "resizing"
  /\ cursor < old_bucket_count
  /\ old_entries[cursor].state = "OCCUPIED"
  /\ RehashSlot.index = SIZE_MAX
  /\ entries' = old_entries /\ bucket_count' = old_bucket_count
  /\ size' = Cardinality(SlotsIn(old_entries, "OCCUPIED"))
  /\ deleted_count' = Cardinality(SlotsIn(old_entries, "DELETED"))
  /\ ret' = Reply("insert", pending.key, FALSE, FALSE)
  /\ ReleaseResize
  /\ UNCHANGED key_copies

\* Mutant: the loop ends one entry early.
InsertAfterShortResize ==
  /\ pc = "resizing"
  /\ cursor >= old_bucket_count - 1
  /\ Place(pending.key, pending.value)
  /\ ReleaseResize
  /\ UNCHANGED bucket_count

InsertAfterResize ==
  /\ pc = "resizing"
  /\ cursor = old_bucket_count
  /\ Place(pending.key, pending.value)
  /\ ReleaseResize
  /\ UNCHANGED bucket_count

-----------------------------------------------------------------------------
(* Finding, removing, clearing, destroying.                                *)

Found(k) == k \in Keys /\ FindSlot(k, Hash[k], FALSE).found

Lookup(k) ==
  IF Found(k) THEN entries[FindSlot(k, Hash[k], FALSE).index].value ELSE NULL

Find(k) ==
  /\ pc = "idle"
  /\ ret' = Reply("find", k, Lookup(k), FALSE)
  /\ UNCHANGED <<pc, tableVars, resizeVars>>

\* Mutant: the stored copy of the key is not destroyed.
RemoveLeaks(k) ==
  /\ pc = "idle"
  /\ Found(k)
  /\ entries' = [entries EXCEPT
                   ![FindSlot(k, Hash[k], FALSE).index] = DeletedEntry]
  /\ size' = size - 1
  /\ deleted_count' = deleted_count + 1
  /\ ret' = Reply("remove", k, TRUE, FALSE)
  /\ UNCHANGED <<pc, bucket_count, key_copies, resizeVars>>

Remove(k) ==
  /\ pc = "idle"
  /\ Found(k)
  /\ entries' = [entries EXCEPT
                   ![FindSlot(k, Hash[k], FALSE).index] = DeletedEntry]
  /\ size' = size - 1
  /\ deleted_count' = deleted_count + 1
  /\ key_copies' = key_copies - 1
  /\ ret' = Reply("remove", k, TRUE, FALSE)
  /\ UNCHANGED <<pc, bucket_count, resizeVars>>

RemoveMissing(k) ==
  /\ pc = "idle"
  /\ ~Found(k)
  /\ ret' = Reply("remove", k, FALSE, FALSE)
  /\ UNCHANGED <<pc, tableVars, resizeVars>>

Clear ==
  /\ pc = "idle"
  /\ entries' = Calloc(bucket_count)
  /\ size' = 0 /\ deleted_count' = 0
  /\ key_copies' = key_copies - Cardinality(SlotsIn(entries, "OCCUPIED"))
  /\ ret' = Reply("clear", NULL, NULL, FALSE)
  /\ UNCHANGED <<pc, bucket_count, resizeVars>>

Destroy ==
  /\ pc = "idle"
  /\ pc' = "none"
  /\ entries' = NoArray /\ bucket_count' = 0
  /\ size' = 0 /\ deleted_count' = 0
  /\ key_copies' = key_copies - Cardinality(SlotsIn(entries, "OCCUPIED"))
  /\ ret' = Reply("destroy", NULL, NULL, FALSE)
  /\ UNCHANGED resizeVars

ResizeStep == SkipEntry \/ MoveEntry \/ RollBack \/ InsertAfterResize

Next ==
  \/ \E n \in Requests : Create(n)
  \/ \E n \in Requests, wellFormed \in BOOLEAN : CreateFails(n, wellFormed)
  \/ \E k \in BadKeys : InsertBadKey(k)
  \/ \E k \in Keys, v \in Values :
       Insert(k, v) \/ ResizeFails(k) \/ BeginResize(k, v)
  \/ ResizeStep
  \/ \E k \in Keys \cup BadKeys : Find(k) \/ Remove(k) \/ RemoveMissing(k)
  \/ Clear
  \/ Destroy

Spec == Init /\ [][Next]_vars

-----------------------------------------------------------------------------
(* Properties.                                                             *)

\* Every variable has its type; outside a resize nothing is left of one.
TypeOK ==
  /\ pc \in {"none", "idle", "resizing"}
  /\ bucket_count \in 0 .. MaxBuckets
  /\ bucket_count = 0 <=> pc = "none"
  /\ entries \in [0 .. bucket_count - 1 -> Entry]
  /\ size \in Nat /\ deleted_count \in Nat /\ key_copies \in Nat
  /\ old_bucket_count \in 0 .. MaxBuckets
  /\ old_entries \in [0 .. old_bucket_count - 1 -> Entry]
  /\ cursor \in 0 .. old_bucket_count
  /\ IF pc = "resizing" THEN pending \in [key : Keys, value : Values]
     ELSE pending = NULL /\ old_bucket_count = 0
  /\ ret \in Replies

\* What the entries of an array must be like for the probe loop to find each
\* of them: stored under its key's hash, under a key of its own, and on that
\* key's probe path with no empty slot before it.
HashesCached(array) ==
  \A s \in SlotsIn(array, "OCCUPIED") : array[s].hash = Hash[array[s].key]

DistinctKeys(array) ==
  \A s, t \in SlotsIn(array, "OCCUPIED") :
    array[s].key = array[t].key => s = t

Reachable(array, n) ==
  \A s \in SlotsIn(array, "OCCUPIED") :
    \E a \in 0 .. n - 1 :
      /\ ProbeIndex(array[s].key, array[s].hash, a, n) = s
      /\ \A b \in 0 .. a - 1 :
           array[ProbeIndex(array[s].key, array[s].hash, b, n)].state # "EMPTY"

\* The array that owns the keys: during a resize the old one still does.
Owner == IF pc = "resizing" THEN old_entries ELSE entries

\* The counters the load test relies on agree with the array in every state,
\* also in the middle of a resize and after one is rolled back
\* (cashash_oa.c:172-199, 266-278, 341-342).
CountsExact ==
  /\ size = Cardinality(SlotsIn(entries, "OCCUPIED"))
  /\ deleted_count = Cardinality(SlotsIn(entries, "DELETED"))

\* Each key copy is owned by exactly one entry: no call, a failed or rolled
\* back insert included, leaks a copy or destroys one twice.
KeysOwned ==
  key_copies = Cardinality(SlotsIn(Owner, "OCCUPIED"))

\* The load test, made before every insert, counts tombstones: between calls
\* occupied and deleted entries together stay below 70% of the array, so there
\* is an empty slot for every probe loop that visits them all to stop at
\* (cashash_oa.c:217-218).
LoadBounded ==
  pc = "idle" => (size + deleted_count) * 100 < bucket_count * 70

\* No key is stored twice, although an insert may fill a tombstone that lies
\* before the key's own slot (cashash_oa.c:110-124).
KeysUnique == DistinctKeys(entries)

\* Every stored entry carries its key's hash and lies on its key's probe path
\* with no empty slot before it, whatever was removed, refilled or rehashed
\* since (cashash_oa.c:92-124).
ProbePathsIntact == HashesCached(entries) /\ Reachable(entries, bucket_count)

\* While an insert resizes, the old array is one that a roll-back may bring
\* back, and the new one holds exactly the entries the loop has passed, so a
\* resize loses no entry and moves none twice (cashash_oa.c:175-202).
Moved == {s \in SlotsIn(old_entries, "OCCUPIED") : s < cursor}

ResizeConsistent ==
  pc = "resizing" =>
    /\ bucket_count = old_bucket_count * 2
    /\ HashesCached(old_entries) /\ DistinctKeys(old_entries)
    /\ Reachable(old_entries, old_bucket_count)
    /\ (Cardinality(SlotsIn(old_entries, "OCCUPIED")) +
        Cardinality(SlotsIn(old_entries, "DELETED"))) * 100
         < old_bucket_count * 70
    /\ {entries[s] : s \in SlotsIn(entries, "OCCUPIED")} =
       {old_entries[s] : s \in Moved}
    /\ size = Cardinality(Moved)
    /\ deleted_count = 0

\* cashash.h:203-205: an insert fails only for a bad argument or a failed
\* allocation.
InsertFailsOnlyForCause ==
  ret.op = "insert" /\ ret.result = FALSE => ret.key \in BadKeys \/ ret.oom

IsPrime(n) == n > 1 /\ \A d \in 2 .. n - 1 : n % d # 0

\* Double hashing never steps by zero modulo the capacity
\* (cashash_oa.c:35-62). In an array of prime length its probe loop therefore
\* visits every slot, so neither an insert nor the re-insertion of an entry in
\* a resize is refused there without a bad argument or a failed allocation.
PrimeNeverRefuses ==
  [][pc' = "idle" /\ ~InsertFailsOnlyForCause' => ~IsPrime(bucket_count)]_vars

\* The map a table represents: its key-value pairs.
Contents(array) ==
  [k \in {array[s].key : s \in SlotsIn(array, "OCCUPIED")} |->
     array[CHOOSE s \in SlotsIn(array, "OCCUPIED") : array[s].key = k].value]

\* The backend implements the abstract map: a find returns what was last
\* inserted, a remove and an insert report what they did, and a failed insert,
\* even one that rolled back a resize, leaves the contents alone.
StrictMap == INSTANCE KeyMap
  WITH live <- pc # "none", map <- Contents(Owner), MayRefuse <- FALSE
ImplementsMap == StrictMap!Spec

\* The same with inserts that may be refused without a cause.
LaxMap == INSTANCE KeyMap
  WITH live <- pc # "none", map <- Contents(Owner), MayRefuse <- TRUE
ImplementsLaxMap == LaxMap!Spec
=============================================================================
