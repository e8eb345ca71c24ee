# cashash.c: TLA+ models, model checking and proofs

cashash.c is a C hash-table library with two storage backends, separate
chaining and open addressing, behind one API, with iterators over both and
functions that validate and measure a table. This directory models them as
state machines and checks them with TLC against an abstract map and an abstract
iteration. With TLAPS it proves the safety invariants of both backends, that
both implement the abstract map, that foreach over either visits every entry
once and implements the abstract iteration, that `validate` accepts the
sound tables of both kinds and tells what is wrong with the others, that the
statistics are exact, and that a key keeps its hash when seeds are announced.

Source files are named relative to the repository, e.g. `src/cashash_oa.c`.

## 1. Inventory

The library is single-threaded. A table is a heap object owned by its caller,
and there is no I/O and no persistence. What is hard is the *history* of a
table (which entry was removed, refilled, moved and in which order), and the
calls that fail half way (an allocation inside an insert, a rehash that finds
no slot).

| Component | State | Operations | Correct when |
|---|---|---|---|
| Open-addressing backend, `src/cashash_oa.c` | entry array (empty / occupied / deleted, with the cached hash), `bucket_count`, `size`, `deleted_count` | insert (growth check, resize with roll-back, slot search, key copy), find, remove (leaves a tombstone), clear, destroy | counters agree with the array; every stored entry is on its key's probe path; no key twice; key copies owned once; a failed insert keeps the contents |
| Chaining backend, `src/cashash_chain.c` | bucket array of linked nodes, `bucket_count`, `size` | insert (search, growth with in-place relinking, key copy, node allocation), find, remove, clear, destroy | every node is in its hash's bucket; no key twice; `size` and key copies count the nodes; a failed allocation keeps the contents |
| Table API, `src/cashash.c` | `kind`, configuration (callbacks, strategy, seed) | eight creation functions, dispatch to a backend, `destroy` | both backends keep the same contract |
| Iterators, foreach, `src/cashash_iter.c` | table pointer, bucket index, node pointer | init, has_next, next, next_key, foreach and foreach_key with a callback | every entry that stays is visited once, as long as the callback respects the table; the loop ends whatever it does |
| Diagnostics, `src/cashash_diagnostics.c` | none (reads a table) | validate, stats, print | validate accepts every table the API leads to, rejects damaged ones, says where the damage is, and returns on cyclic chains; the statistics are those of the table |
| Hash functions, `src/cashash_hash.c` | none | FNV-1a, xxHash wrappers (variadic: XXH64 reads a seed), copy, compare | every call site gets the same hash for the same key |

**Interaction.** The API validates arguments and calls exactly one backend
function per public call. A backend calls the configured hash, compare, copy
and destroy functions. The iterator and the diagnostics read the backend's
arrays directly; an iterator keeps an index (and a node pointer) *between*
calls, and a foreach callback may call back into the API.

**Hard behaviours** (the full list, with lines, is `hazards` in PROJECT.json):
probe sequences that do not reach every slot; tombstones that must neither
break a probe path nor admit a duplicate key; `deleted_count` as the second
half of the load test; the roll-back of a resize that is half done; an insert
that fails *after* it has grown the table; relinking lists while walking them;
a bucket index computed before the array is replaced; arithmetic in `size_t`;
iterators across removals and growth; a seed passed on one path and not on
another.

## 2. Modules

| Module | Content |
|---|---|
| `CashashTypes` | keys, values, and `Reply`, what a call returns to its caller |
| `KeyMap` | the contract of the table: a map, each call is one step, a failed call changes nothing |
| `OATable` | the open-addressing backend |
| `OATableProofs` | its inductive invariant, its refinement of `KeyMap`, what linear probing adds |
| `ChainTable` | the chaining backend |
| `ChainTableProofs` | the same for it |
| `TableLemmas` | what both proofs need: least elements, remainders, and the map that a set of entries stands for |
| `KeyIteration` | the contract of foreach: each visit takes a key not yet visited, TRUE means none is left |
| `OAIterator`, `ChainIterator` | foreach over each backend, composed with its module (EXTENDS), calls of the callback included |
| `OAIteratorProofs`, `ChainIteratorProofs` | their inductive invariants, theorems and refinement of `KeyIteration` |
| `OADiagnostics` | validate and stats over `OATable`'s states, and over those states with one field overwritten |
| `OADiagnosticsProofs` | theorems about both |
| `ChainDiagnostics` | validate and stats over a heap of list nodes in any state |
| `ChainDiagnosticsProofs` | paths through a heap, the inductive invariant of both loops, theorems, and that the calls end |
| `HashConfig` | which argument each call site passes to the configured hash function |
| `HashConfigProofs` | theorems about tables whose seeds are announced |
| `MCOATable`, `MCOADouble`, `MCChainTable`, `MCOAIterator`, `MCChainIterator`, `MCChainDiagnostics`, `MCHashConfig` | the hash functions and requests of the instances TLC checks |

### How the models correspond to the code

A public call is one atomic step, because the library is single-threaded and
the callbacks a backend calls do not touch the table. The one exception is the
growth loop inside an insert. It may take many iterations, leaves the table in
intermediate states and (open addressing) can fail in the middle, so each
iteration is a step, and `pc` says that the caller is suspended in it:
`"none"` (no table), `"idle"` (between calls), `"resizing"` / `"rehashing"`.

`OATable`. `entries` is the array `oa->entries` as a function from indices to
entries; `bucket_count`, `size`, `deleted_count` are the fields of the same
name. `old_entries`, `old_bucket_count` and `cursor` are the locals of
`cashash_oa_resize`, `pending` the arguments of the insert that called it.
`key_copies` and `ret` are history: copies made by `key_copy` and not yet
given to `key_destroy`, and the last reply.

| Action | Code |
|---|---|
| `Create`, `CreateFails` | creation functions; failure by zero buckets, missing callbacks, an unknown probing strategy or a failed allocation |
| `InsertBadKey` | the early returns of `cashash_oa_insert` |
| `Insert` = `Overwrite` / `NoSlot` / `CopyKeyFails` / `Occupy` | an insert that need not grow, by outcome |
| `ResizeFails` | the new array cannot be allocated |
| `BeginResize`, `SkipEntry`, `MoveEntry`, `RollBack` | `cashash_oa_resize`, and `cashash_oa_insert_existing_entry` |
| `InsertAfterResize` | the rest of the insert, with the same four outcomes |
| `Find`, `Remove`, `RemoveMissing`, `Clear`, `Destroy` | the functions of these names |

`FindSlot` is `cashash_oa_find_slot`: the loop over the attempts becomes the
least attempt at which the loop stops and the least tombstone before it.
`ProbeIndex` keeps `size_t` arithmetic (modulo `SizeMod`, then modulo the
capacity), because that is where the linear sequence goes wrong. The quadratic
offset is a product that may wrap; reducing the sum modulo `SizeMod` once gives
the same value as reducing every operation.

`ChainTable`. `buckets[b]` is the list hanging off bucket `b`. During a rehash
`buckets[cursor]` holds the nodes the loop still has to visit (the code keeps
that in its `node` and `next` locals) and `new_buckets` the array being filled.
The actions follow the code in the same way: `Update`, `Insert`, `GrowFails`,
`BeginRehash`, `RelinkNode`, `NextBucket`, `InsertAfterRehash`. A failed node
allocation (`NodeAllocFails`) comes after the key has been copied.

`OAIterator`, `ChainIterator`. `cashash_foreach` is a loop over `has_next` and
`next` with a callback as its body; a loop that a caller writes with the same
two functions has the same steps. `phase` says where the loop is, `iter_index`,
or `bucket_index` and `current`, are the fields of the iterator, `returned` is
the pair the callback holds. `visits` and `stable` (the keys that were in the
table throughout) are history.

| Action | Code |
|---|---|
| `Call` | any call outside an iteration: the whole `Next` of the backend |
| `Begin` | `cashash_iter_init`, with its scan for the first entry |
| `Visit` | `has_next`, and `next`, which advances *before* the callback runs |
| `CallbackCall`, `CallbackResizes` / `CallbackRehashes` | calls that change the table, made by the callback; the growth loop of such an insert |
| `CallbackContinues`, `CallbackStops`, `End` | the callback returns true or false; `has_next` says no |

Calls in a callback that leave the table as it is (a find, a failed insert) are
left out: they change nothing an iterator reads. The constant `Callbacks` says
what callbacks do: a `"careful"` one removes only the entry it was given,
replaces values (chaining) or clears the table (open addressing); an
`"inserting"` one inserts and replaces but removes nothing; a `"free"` one makes
any call, except that it does not destroy the table nor start a foreach of its
own. `current` in a chaining table is `"freed"` when its node is; reading
such a node is undefined, and the model ends there.

`ChainDiagnostics`. Validate exists for tables something has gone wrong with, so
its input is not a state of `ChainTable` but a heap: bucket heads and next
pointers are arbitrary, up to `MaxFlawed` nodes lack a key or cache a wrong hash,
and `size` is any number of the constant `Sizes` (0 to 4 in the run, any set of
naturals in the theorems). The race of the slow and fast pointers, the walk
along a chain and the measuring loop of stats are steps, because whether they
end is in question. A caller asks for statistics of a table that validate has
accepted; on a cyclic one they would not end.

`OADiagnostics`. In open addressing both functions are loops bounded by the
array, so they are operators: `Validate(t)` and `Stats(t)`, evaluated in every
state between two calls and, for `SingleFaultsDetected`, on every table that one
overwritten state, key, cached hash or counter makes of it. What validate does
not look for, by its code: entries off their probe path and duplicate keys in
an open-addressing array, duplicate keys in a chain.

`HashConfig`. The hash functions are variadic. XXH64 reads one extra argument;
the chaining backend passes the seed or nothing, depending on
`config.strategy`; the open-addressing backend passes `&table->option`;
validate decides as the chaining backend does. An argument that was not passed
reads as any word; `config.strategy`, which the functions that create a table by
strategy never set, is any strategy. The table is reduced to its configuration
and its entries with their cached hashes; failing allocations are `ChainTable`'s.

**Abstractions.** Keys are model values: two keys are equal when their bytes
are, and the compare callback decides exactly that. Except in `HashConfig`, a
hash function is a constant function of the key. Values are pointers and are
only copied; `NULL` is a legal value. malloc and calloc may fail at every call.
Index arithmetic and the load test of a table that fits in memory do not
overflow a 64-bit `size_t`: assumption `NoLoadOverflow`; a 32-bit build is not
covered.

**Deliberate faults.** Next to some definitions stands a variant marked
`Mutant:`, the definition with a plausible bug. No specification uses them.
PROJECT.json pairs each with the property that must fail when the variant takes
the definition's place; together they show that the properties can tell the
code from a wrong version of it.

## 3. Runs

| Run | Instance | Shows |
|---|---|---|
| `oa_linear` | linear probing, 4 keys of which 3 collide, 2 values (one `NULL`), capacities 1, 2, 3 and their doublings to 8 | the invariants that no roll-back is needed to break; every call implements the *strict* map: an insert is refused only for a bad key or a failed allocation; validate rejects every single fault, the statistics agree with the searches |
| `oa_quadratic` | quadratic probing, 5 keys whose path is exhausted in 16 slots | half-done resizes are rolled back exactly, and no key copy is lost or destroyed twice by one; the lax map (inserts may be refused). No array rolled back to holds a tombstone here |
| `oa_double` | double hashing: default second hash, capacities 3, 6 and 12, where in 12 the step 6 reaches two slots; or a custom one with residue 0, a common divisor and coprime steps, capacities 3, 5 and 6 | probe paths and contents survive refusals and roll-backs; validate accepts what a roll-back that brings tombstones back leaves; in arrays of prime length nothing is refused without a cause |
| `chain` | 4 keys, 3 of which collide up to 4 buckets, 1 to 8 buckets | all invariants, termination of the rehash, the strict map |
| `oa_iter` | 3 keys in 2 to 8 slots that change their order as the table grows; careful and free callbacks | careful callbacks: every entry that stays is visited once, foreach implements `KeyIteration`; all callbacks: foreach returns |
| `chain_iter` | 4 keys, 3 of which share a bucket until 8 buckets part them; careful and inserting callbacks | the same; the iterator never holds a freed node while the callback inserts |
| `chain_diag` | every heap of 3 nodes, up to 2 of them flawed, in 2 buckets; `size` 0 to 4 | validate returns, accepts exactly the sound tables, reports the first error; statistics are exact |
| `hash` | 3 keys, 2 seeds, an address; 1 to 4 buckets; the creation calls that are sound | every call site agrees on a key's hash, through rehashes; XXH64 gets the caller's seed |
| `oa_quadratic_spurious`, `oa_linear_wrap`, `oa_iter_free`, `hash_by_strategy` | | the disagreements of section 6 |

Properties of a kind that only one instance could violate are checked in that
instance only; the invariants that are theorems hold in all of them.

**Why these bounds are enough to be interesting.** Every action fires. The
capacities start at the smallest legal one and pass through at least one
growth, and the largest one is where a further growth fails for want of memory,
so inserts with and without growth, failing and not, are interleaved with
removals in all orders. With three colliding keys a probe path can hold a
tombstone between two entries, be refilled, and be rehashed. The quadratic and
double-hashing instances were chosen so that the larger array cannot take all
entries of the smaller: that is the only way into the roll-back. There is no
counter that has to be capped: all state is bounded by the array sizes.

The heaps of `chain_diag` include a loop that does not contain its head, two
chains that share a tail, and lost nodes that make up for nodes counted twice.
A deadlock there is the end of the one call; it is the only run that does not
check for deadlock.

**Fairness.** `WF_vars(RehashStep)`: a thread inside a growth loop keeps running,
nothing it waits for exists, and no other call can start meanwhile. The
environment is under no obligation to call anything. The liveness property
`RehashReturns` says that an insert into a chaining table returns to its caller;
the resize of an open-addressing table is a loop over an index. In `ChainDiagnostics` weak fairness of the steps says the
same, and `CallsReturn` that validate and stats return. The iterator modules
assume the same of the loops of foreach and of a resize. In addition a callback
that may return again and again does return (strong fairness, because it is not
ready to return while an insert it called is resizing): foreach cannot be
expected to return when its callback does not. `ForeachReturns` is then about
the iterator: however the table is changed under it, the scan comes to an end.

**Refinement.** `ImplementsMap` maps the table to `Contents`, the pairs stored
in the array that owns the keys: during an open-addressing resize that is still
the old array, in a chaining rehash both. So the loop's steps are stutters and
a growth changes nothing a caller can see, whether it ends or is rolled back.

`ImplementsIteration` maps an iteration with a careful callback to
`KeyIteration`: the keys still to be visited are those at the iterator's
position or behind it, in array order or in bucket and chain order. That is the
argument for such callbacks being safe: what they remove lies in front.

## 4. Proofs

The theorems hold for every set of keys and values, hash function, second hash,
probing strategy, capacity and width of `size_t` that satisfy the named
assumptions of the modules:

- `KeyAssumption`, `ConstantsAssumption`: the kinds of the constants, e.g. a hash
  is a `size_t`, `NULL` is no key, and the nodes of a heap are finitely many;
- `NoLoadOverflow`: the largest array is so small that the products of the load
  test do not wrap;
- `CallbackAssumption`: the kinds of callbacks are those of section 2, and `NULL`,
  which stands for "no callback" and "no outcome yet", is none of them and no
  truth value.

Four premises are those of a few theorems. `LinearCapacities(C)`: probing is
linear, and in every capacity of `C`, the ones requested and their doublings, the
sequence does not jump, because the capacity divides `SizeMod` (a power of two)
or no hash is within a capacity of `SIZE_MAX`. `DoubleHashingInRange`: probing is
by double hashing, and no hash is within the square of the largest capacity of
`SIZE_MAX`. `"free" \notin Callbacks`: no
callback removes whatever it likes. `SeedsAnnounced`: XXH64 in a chaining table
is asked for with a configuration that names the strategy and a seed; any other
request is allowed. Section 6 says what happens without each.

| Module | Theorem | Statement |
|---|---|---|
| `OATableProofs` | `IInvInductive` | `IInv /\ [Next]_vars => IInv'` |
| | `SpecTypeOK`, `SpecCountsExact`, `SpecKeysOwned`, `SpecLoadBounded`, `SpecKeysUnique`, `SpecProbePathsIntact`, `SpecResizeConsistent` | `Spec => []` the invariant of that name |
| | `SpecImplementsLaxMap` | the backend implements the map that may refuse inserts, whatever the probing |
| | `LinearFailsOnlyForCause`, `LinearImplementsMap` | under `LinearCapacities(C)` nothing is refused without a cause, so it implements the strict map |
| | `DoubleHashingFailsOnlyForCause` | under `DoubleHashingInRange` nothing is refused without a cause in an array of prime length |
| `OADiagnosticsProofs` | `SpecValidateAccepts` | validate accepts every table between two calls whose hash function takes no seed |
| | `SpecSingleFaultsDetected` | validate rejects what one stray write makes of such a table, with the right error and index |
| | `SpecStatsExact` | the statistics are exact; when probing is linear, under `LinearCapacities(C)` |
| `ChainDiagnosticsProofs` | `IInvInductive` | `IInv /\ [Next]_vars => IInv'` |
| | `SpecAcceptsExactlySoundTables`, `SpecFirstErrorReported`, `SpecStatsExact` | `Spec => []` the invariant of that name, whatever the heap |
| | `SpecCallsEnd` | each step lowers a rank in an order without endless descent |
| `ChainTableProofs` | `IInvInductive` | `IInv /\ [Next]_vars => IInv'` |
| | `SpecTypeOK`, `SpecSizeExact`, `SpecKeysOwned`, `SpecNodesWellPlaced`, `SpecKeysUnique`, `SpecLoadBounded` | `Spec => []` the invariant of that name |
| | `SpecImplementsMap` | the backend implements the strict map |
| `OAIteratorProofs`, `ChainIteratorProofs` | `IterIInvInductive` | `IterIInv /\ [IterNext]_allVars => IterIInv'` |
| | `SpecIterTypeOK`, `SpecEachEntryOnce` | the iterator stays within the array; every entry that stays is visited once |
| | `SpecImplementsIteration` | foreach implements `KeyIteration` |
| `ChainIteratorProofs` | `SpecCurrentLinked` | unless callbacks are free, the iterator's node is in the table |
| `HashConfigProofs` | `HInvInductive` and `SpecFindsWhatIsPresent`, `SpecOneEntryPerKey`, `SpecValidateAccepts`, `SpecSeedUsed` | under `SeedsAnnounced`, the properties of the run `hash` |

**Open addressing.** `IInv` is the conjunction of the seven invariants of
`OATable`; no safety part is inductive alone.

- `KeysUnique` needs that a search which finds nothing means absence
  (`FindSlotResult`), and that needs `ProbePathsIntact`: if the key were stored,
  its path would be free of empty slots up to it, so the loop would have met it.
- `ProbePathsIntact` is kept because no action turns an entry empty
  (`ReachableKept`), and a filled slot lies on the new key's path (`FillSlot`).
- A moved entry must not meet its own key in the new array (`MovedKeyIsNew`):
  the new array holds exactly the entries before the cursor, and the keys of
  the old one are distinct. Without that `size` would drift.
- `RollBack` reinstates the old array, so `ResizeConsistent` carries the whole
  invariant of that array along, its load bound included.
- `InsertAfterResize` needs that the loop moved *all* entries, to give the key
  copies a new owner, and that twice the capacity leaves room (`RoomAfterResize`).

**Linear probing.** The invariants do not depend on the probe sequence visiting
every slot. That an insert is never refused without a cause *does*, and is false
in general (section 6). Where the sequence does not jump it visits every slot
(`LinearVisitsAll`), and the load bound leaves one of them empty whenever a
search for a free slot begins, in the larger array of a resize too
(`RoomForInsert`). So neither `NoSlot` nor `RollBack` can happen, and the lax map
turns into the strict one.

**Double hashing.** A step that shares a divisor with the capacity misses slots, and
a step of zero all but one; the code guards against the second only. What this
comes to is `PrimeNeverRefuses`: in an array of prime length the guard is all
that is needed. Its step is between 1 and the length (`PrimeStep`), a prime
divides no product of two numbers below it (`PrimeDividesNoProduct`, by the
least counterexample), so two attempts never look at the same slot
(`PrimeProbesDiffer`), and as many attempts as there are slots look at all of
them (`DoubleVisitsAll`, an injection of a finite set into itself).

**Chaining.** `IInv` is the six invariants, with the load bound also in the
middle of a rehash and two facts about one: the capacity it doubles to is
within bounds, and the key to be inserted is in neither array. The second is
needed because the insert that follows does not search again. A failed search
of one bucket means absence because every node is in its bucket
(`SearchResult`). What the actions do to an array is one of three things:
putting a node in front of a chain, unlinking one, rewriting a value in place
(`PushFront`, `Unlink`, `Rewrite`). Relinking a node is an `Unlink` in one array
and a `PushFront` in the other; it keeps the node's cached hash, which selects
the bucket in both.

**Refinement of `KeyMap`.** Both proofs go step by step: what each action makes of
the set of entries that owns the keys (one lemma per action), what that means
for the map this set stands for (`MapOfBind`, `MapOfUnbind` in `TableLemmas`,
which need that no key occurs twice), then one case per action. The steps of a
growth loop leave the set alone, hence stutter. An open-addressing insert that
ends a resize must find the same entries in the new array as in the old one,
which is `ResizeConsistent`.

**Iteration.** `EachEntryOnce` speaks of what foreach has visited; inductive is
what it has *not*. In open addressing, of the entries that were there throughout,
those before the index have been visited once and those from it on never
(`IndexSplits`); the entry a careful callback may remove lies before it. In
chaining the position is a pair: ahead lie the nodes from the current one on in
its chain, and the chains of the later buckets. `PositionSplits` says that
exactly these are unvisited. A removal moves places (`UnlinkPlaces`), so
`AheadUnderRemove` shows that unlinking a node that is not ahead, in the current
chain or not, leaves the keys ahead as they were. `PositionOK` holds for every
callback: the index is within the *old* array as well while a resize in the
callback may still be rolled back, and a chaining iterator's node is linked
unless a free callback freed it. The refinement maps the keys ahead to those the
abstract iteration has not yet visited.

**Hash configuration.** With `SeedsAnnounced` a table has one hash per key
(`TheHash`), which all call sites compute (`OneHash`): XXH64 is either passed the
seed everywhere, or (validate apart) the address everywhere, or not in use. Every stored entry
caches it, so a search finds the key if and only if it is present
(`SearchFinds`), after a rehash too.

**Validate, open addressing.** The two theorems rest on `CountsExact` and
`ProbePathsIntact`: an occupied entry caches its key's hash and is not without a
key, so the loop finds nothing wrong (`NoProblem`); then the counters decide
(`JudgedByCounters`). One wrong entry is the least one, hence the one reported
(`JudgedByEntry`), and a changed state that is legal by itself changes one of the
two cardinalities (`WrongStateMiscounts`).

**Statistics, open addressing.** The three kinds of entries partition the array
(`ThreeKinds`). Every strategy looks at the key's own slot first, so an entry is
displaced just when a search needs more than one attempt
(`CollisionMeansProbing`). A linear sequence that does not jump is at distance `a`
from that slot at attempt `a` (`LinearProbe`), and one distance only leads to the
entry's slot (`OneDistance`), so that displacement and attempts are the same
number (`LengthMeansAttempts`). The two sums fold equal terms in the same order;
no induction is needed to see that they are equal (`SumOfLengths`).

**Validate and stats, chaining.** What a loop over next pointers computes seems to
ask for induction over the heap, which the provers do not offer. Instead, a *path*
is a function on all naturals with `w[n + 1]` the link of `w[n]`, `NULL` once it
has ended (`PathExists`), and induction over its places is the principle of the
least counterexample (`AllNaturals`). The recursive definition the properties are
stated with is shown to be the path (`WalkIsPath`). Two facts carry the rest:

- a path that ends passes no node twice (`NoNodeTwice`), hence ends within as many
  links as there are nodes (`EndsInTime`), and the number of its nodes is its
  length (`ChainLength`);
- a path without an end has equal pointers at some places `n` and `2n`
  (`MeetingPoint`, from the pigeonhole principle).

The invariant says of the race that the pointers are at `k` and `2k` links from
the head (`Racing`). If they meet, a node occurs twice, so the chain has no end; if
the fast one finds `NULL`, it has (`RaceFacts`, `BeginWalkSound`). The walk then
counts the nodes of a chain known to end, all of them sound so far (`Walking`).
Sound chains are disjoint, because a node's hash puts it in one bucket
(`ChainedNext`); that is why the number counted is the cardinality of the union
and equal to `size` just when no node is lost (`Passed`). stats measures what
validate has accepted (`Judged`) and has, at each bucket, the statistics of the
chains before it (`Measured`).

`SpecCallsEnd` is the part of `CallsReturn` that needs no fairness. The rank is
the call, the buckets left, the loop, and the steps left in it: for a walk, the
rest of the chain; for a race, the least number of steps after which the fast
pointer is at the end or the slow one is met, which exists on every heap
(`RaceLeftFacts`). So even on a table whose chains are tied into loops no
execution of validate is infinite.

**Only model-checked:**

- the liveness properties `RehashReturns`, `ForeachReturns` and `CallsReturn`,
  which rest on fairness and `ENABLED`;
- `EveryProbePathIntact` of `MCOADouble`, which states `ProbePathsIntact` in terms
  of that instance, for two second hashes; `SpecProbePathsIntact` is the theorem.

## 5. Not modelled, and what is left to prove

Not modelled:

- what FNV-1a and xxHash compute from the bytes of a key: 64-bit arithmetic on
  byte strings, which no property here tells apart;
- `cashash_stats_print` and the text of errors (I/O, formatting);
- `load_factor` and `avg_probe_length`, quotients in `double` of numbers that are
  modelled;
- the early returns of every function for a `NULL` table, which change nothing,
  and the dispatch on `table->kind`, which selects a module;
- a strategy value outside the enumeration, which leaves `config.hash` unset;
- builds with a 32-bit `size_t`, where the products of the load test may wrap;
- examples, tests, build files.

Every safety property that a passing run checks is a theorem, apart from the one
stated in terms of an instance. Left to TLC are the three liveness properties.

## 6. Disagreements between the code and its documentation

The first four have a run that ends in a counterexample.

- `oa_quadratic_spurious`: with quadratic probing the offsets `attempt^2` reach
  only some residues of the capacity. An insert then returns false with slots
  empty, a good key and no failed allocation; `cashash.h` lists only bad
  arguments and failed allocations as reasons.
- `oa_linear_wrap`: with a capacity that is no power of two, `hash + attempt`
  wrapping around `SIZE_MAX` makes the linear sequence jump; some slots are
  visited twice, others never, and an insert is refused with slots empty.
- `oa_iter_free`: the callback of a foreach over an open-addressing table removes
  the entry that comes next, where the iterator already stands. `has_next` then
  finds a tombstone there and says no, and foreach returns true, of which
  `cashash_iter.h` says that all entries were visited.
- `hash_by_strategy`: `cashash_create_chain_with_strategy` leaves
  `config.strategy` unset (`cashash.c:28`). Insert and find branch on it; when it
  is not XXH64 no seed is passed, the function reads an argument that is not
  there, and a stored key is not found. (`SeedUsed` fails as well.)

The following have no run of their own. All but the last two are a premise or a
request that a passing run keeps apart, and the run fails without it.

- *Empty keys* (`chain` with `EmptyKeys = {k4}`, violates `EmptyKeyRefused`): the
  chaining backend stores a key of length zero, which `cashash.h` says is refused
  (and the open-addressing backend does refuse).
- *Open addressing with XXH64* (`hash` without `~KeyedByPointer` in
  `ValidateAccepts` and in `SeedUsed`): `cashash_oa.c` passes the address of
  `table->option` where a seed is read. All its call sites pass the same address,
  so the table works, but its seed has no effect (`cashash_type.h:154`, `168`), and
  validate, which passes the seed or nothing, rejects a sound table. What
  `OADiagnostics` shows of validate is therefore about the other hash functions.
- *Growing the table in foreach* (`oa_iter`, `chain_iter` without the premise of
  `EachEntryOnce`): an insert in the callback, even of a key that is present, may
  resize an open-addressing array under the iterator's index, or relink the nodes
  of a chaining table, so that entries are visited twice or never. `cashash_iter.h`
  does not restrict the callback.
- *A freed node in a chaining iterator* (`chain_iter` with
  `Callbacks = {"free"}`, violates `CurrentLinked`): a callback that removes the next
  entry, or the entry it was given after an insert has moved the iterator's node,
  leaves `iter.current` dangling.
- *Probe lengths after wrapping* (`oa_linear_wrap.cfg` with `StatsExact`): when
  `hash + attempt` passes `SIZE_MAX` and the capacity is no power of two, the
  displacement is not the number of slots a search walks.
- *User data of the second hash*: `cashash_oa.c:54` passes `&table->option` to the
  second hash function, whose argument `cashash.h:114` documents as user data. The
  pointer given at creation is stored and never read. The model's second hash is
  a function of the key, so no property can tell.
- *Growth with few entries*: the load test counts tombstones
  (`cashash_oa.c:217`), so a table with few entries doubles as well; the project's
  README says that a table grows when its load factor is high, not that it grows
  only then.

## 7. Running

    tlc -config oa_linear.cfg MCOATable.tla        # also oa_quadratic, oa_*_...
    tlc -config oa_double.cfg MCOADouble.tla
    tlc -config chain.cfg MCChainTable.tla
    tlc -config oa_iter.cfg MCOAIterator.tla       # also oa_iter_free
    tlc -config chain_iter.cfg MCChainIterator.tla
    tlc -config chain_diag.cfg MCChainDiagnostics.tla
    tlc -config hash.cfg MCHashConfig.tla          # also hash_by_strategy
    tlapm OATableProofs.tla                         # also ChainTableProofs, TableLemmas
    tlapm OAIteratorProofs.tla                      # also ChainIteratorProofs
    tlapm OADiagnosticsProofs.tla                   # also ChainDiagnosticsProofs
    tlapm HashConfigProofs.tla
