-------------------------- MODULE ChainDiagnostics --------------------------
(***************************************************************************)
(* cashash_validate and cashash_stats over a chaining table                *)
(* (src/cashash_diagnostics.c). The table is a heap of nodes joined by     *)
(* next pointers, in any state a stray write may have left it in: validate *)
(* exists to tell such a table from a sound one, and has to terminate on   *)
(* both. Its loops are steps, because whether they end is in question. A   *)
(* caller collects statistics of a table that validate has accepted.       *)
(***************************************************************************)
EXTENDS Integers, FiniteSets, FiniteSetsExt

CONSTANTS
  Nodes,        \* the nodes of the heap
  NULL,         \* the null pointer
  BucketCount,  \* chain->bucket_count
  Hash,         \* what the configured function returns for a node's key
  Sizes,        \* the values chain->size may have
  Flaws,        \* the flaws a node may have: "none", "no_key", "wrong_hash"
  MaxFlawed     \* the number of nodes that may have one

ASSUME ConstantsAssumption ==
  /\ IsFiniteSet(Nodes) /\ NULL \notin Nodes
  /\ BucketCount \in Nat \ {0}
  /\ Hash \in [Nodes -> Nat]
  /\ Sizes \subseteq Nat
  /\ Flaws \subseteq {"none", "no_key", "wrong_hash"}
  /\ MaxFlawed \in Nat

Buckets  == 0 .. BucketCount - 1
Pointers == Nodes \cup {NULL}

VARIABLES
  buckets, next, flaw, size,  \* the table: its lists, its nodes, chain->size
  pc,                         \* the loop the call is in
  i,                          \* its bucket
  slow, fast,                 \* the two pointers of the cycle check
  node, chain_index,          \* the walk along a chain
  counted_entries,
  result,                     \* validate's result object
  stats                       \* what stats has collected

heapVars == <<buckets, next, flaw, size>>
loopVars == <<i, slow, fast, node, chain_index, counted_entries>>
vars == <<heapVars, pc, loopVars, result, stats>>

Result(valid, error, bucket_index, entry_index) ==
  [valid |-> valid, error |-> error,
   bucket_index |-> bucket_index, entry_index |-> entry_index]

NoResult == Result(FALSE, "OK", 0, 0)

ZeroStats == [entries |-> 0, capacity |-> 0, used_buckets |-> 0,
              empty_buckets |-> 0, longest_chain |-> 0, collisions |-> 0]

\* A hash that a node caches: off by one when it is wrong.
CachedHash(n) == IF flaw[n] = "wrong_hash" THEN Hash[n] + 1 ELSE Hash[n]

\* Some nodes may be flawed; the pointers and the size may be anything.
Init ==
  /\ buckets \in [Buckets -> Pointers]
  /\ next \in [Nodes -> Pointers]
  /\ flaw \in {f \in [Nodes -> Flaws] :
                 Cardinality({n \in Nodes : f[n] # "none"}) <= MaxFlawed}
  /\ size \in Sizes
  /\ pc = "next_bucket"
  /\ i = 0 /\ slow = NULL /\ fast = NULL
  /\ node = NULL /\ chain_index = 0 /\ counted_entries = 0
  /\ result = NoResult
  /\ stats = ZeroStats

-----------------------------------------------------------------------------
(* validate.                                                               *)

Report(r) ==
  /\ pc' = "validated"
  /\ result' = r
  /\ UNCHANGED <<heapVars, loopVars, stats>>

BeginBucket ==
  /\ pc = "next_bucket"
  /\ i < BucketCount
  /\ pc' = "cycle_check"
  /\ slow' = buckets[i] /\ fast' = buckets[i]
  /\ UNCHANGED <<heapVars, i, node, chain_index, counted_entries, result,
                 stats>>

CanRace == fast # NULL /\ next[fast] # NULL

\* Mutant: only a cycle through the head of the chain is noticed.
RaceAgainstHead ==
  /\ pc = "cycle_check" /\ CanRace
  /\ slow' = slow
  /\ fast' = next[fast]
  /\ IF slow' = fast'
     THEN /\ pc' = "validated"
          /\ result' = Result(FALSE, "CYCLE_DETECTED", i, counted_entries)
     ELSE UNCHANGED <<pc, result>>
  /\ UNCHANGED <<heapVars, i, node, chain_index, counted_entries, stats>>

Race ==
  /\ pc = "cycle_check" /\ CanRace
  /\ slow' = next[slow]
  /\ fast' = next[next[fast]]
  /\ IF slow' = fast'
     THEN /\ pc' = "validated"
          /\ result' = Result(FALSE, "CYCLE_DETECTED", i, counted_entries)
     ELSE UNCHANGED <<pc, result>>
  /\ UNCHANGED <<heapVars, i, node, chain_index, counted_entries, stats>>

\* Mutant: the position is not reset for the next chain.
BeginWalkKeepsIndex ==
  /\ pc = "cycle_check" /\ ~CanRace
  /\ pc' = "walk"
  /\ node' = buckets[i]
  /\ UNCHANGED <<heapVars, i, slow, fast, chain_index, counted_entries, result,
                 stats>>

BeginWalk ==
  /\ pc = "cycle_check" /\ ~CanRace
  /\ pc' = "walk"
  /\ node' = buckets[i] /\ chain_index' = 0
  /\ UNCHANGED <<heapVars, i, slow, fast, counted_entries, result, stats>>

\* Mutant: the bucket is not compared.
ProblemIgnoresBucket ==
  IF flaw[node] = "no_key" THEN "INVALID_ENTRY"
  ELSE IF Hash[node] # CachedHash(node) THEN "HASH_MISMATCH"
  ELSE "OK"

\* What the walk finds wrong with the node it is at.
Problem ==
  IF flaw[node] = "no_key" THEN "INVALID_ENTRY"
  ELSE IF Hash[node] # CachedHash(node) THEN "HASH_MISMATCH"
  ELSE IF Hash[node] % BucketCount # i THEN "BUCKET_MISMATCH"
  ELSE "OK"

RejectNode ==
  /\ pc = "walk" /\ node # NULL
  /\ Problem # "OK"
  /\ Report(Result(FALSE, Problem, i, chain_index))

AcceptNode ==
  /\ pc = "walk" /\ node # NULL
  /\ Problem = "OK"
  /\ node' = next[node]
  /\ chain_index' = chain_index + 1
  /\ counted_entries' = counted_entries + 1
  /\ UNCHANGED <<heapVars, pc, i, slow, fast, result, stats>>

EndWalk ==
  /\ pc = "walk" /\ node = NULL
  /\ pc' = "next_bucket"
  /\ i' = i + 1
  /\ UNCHANGED <<heapVars, slow, fast, node, chain_index, counted_entries,
                 result, stats>>

CheckSize ==
  /\ pc = "next_bucket" /\ i = BucketCount
  /\ IF counted_entries # size
     THEN Report(Result(FALSE, "SIZE_MISMATCH", 0, counted_entries))
     ELSE Report(Result(TRUE, "OK", 0, 0))

ValidateStep ==
  BeginBucket \/ Race \/ BeginWalk \/ RejectNode \/ AcceptNode \/ EndWalk
    \/ CheckSize

-----------------------------------------------------------------------------
(* stats. chain_index is its local chain_length.                           *)

BeginStats ==
  /\ pc = "validated"
  /\ result.valid
  /\ pc' = "stats_bucket"
  /\ i' = 0
  /\ stats' = [ZeroStats EXCEPT !.entries = size, !.capacity = BucketCount]
  /\ UNCHANGED <<heapVars, slow, fast, node, chain_index, counted_entries,
                 result>>

BeginChain ==
  /\ pc = "stats_bucket"
  /\ i < BucketCount
  /\ pc' = "measure"
  /\ node' = buckets[i] /\ chain_index' = 0
  /\ UNCHANGED <<heapVars, i, slow, fast, counted_entries, result, stats>>

Measure ==
  /\ pc = "measure" /\ node # NULL
  /\ node' = next[node]
  /\ chain_index' = chain_index + 1
  /\ UNCHANGED <<heapVars, pc, i, slow, fast, counted_entries, result, stats>>

\* Mutant: every entry of a chain counts as a collision.
WithChainCollidesAlways(s, length) ==
  IF length = 0 THEN [s EXCEPT !.empty_buckets = @ + 1]
  ELSE [s EXCEPT !.used_buckets = @ + 1,
                 !.longest_chain = IF length > @ THEN length ELSE @,
                 !.collisions = @ + length]

\* The statistics s after a chain of the given length.
WithChain(s, length) ==
  IF length = 0 THEN [s EXCEPT !.empty_buckets = @ + 1]
  ELSE [s EXCEPT !.used_buckets = @ + 1,
                 !.longest_chain = IF length > @ THEN length ELSE @,
                 !.collisions = IF length > 1 THEN @ + (length - 1) ELSE @]

EndChain ==
  /\ pc = "measure" /\ node = NULL
  /\ stats' = WithChain(stats, chain_index)
  /\ pc' = "stats_bucket"
  /\ i' = i + 1
  /\ UNCHANGED <<heapVars, slow, fast, node, chain_index, counted_entries,
                 result>>

EndStats ==
  /\ pc = "stats_bucket" /\ i = BucketCount
  /\ pc' = "collected"
  /\ UNCHANGED <<heapVars, loopVars, result, stats>>

StatsStep == BeginStats \/ BeginChain \/ Measure \/ EndChain \/ EndStats

Next == ValidateStep \/ StatsStep

\* The calling thread runs the loops of the two calls.
Spec == Init /\ [][Next]_vars /\ WF_vars(ValidateStep) /\ WF_vars(StatsStep)

-----------------------------------------------------------------------------
(* Properties.                                                             *)

\* The pointer reached from the head of bucket b after 0, 1, 2, ... links.
Walk(b) ==
  LET at[n \in 0 .. Cardinality(Nodes)] ==
        IF n = 0 THEN buckets[b]
        ELSE IF at[n - 1] = NULL THEN NULL ELSE next[at[n - 1]]
  IN  at

ChainOf(b) == {Walk(b)[n] : n \in DOMAIN Walk(b)} \ {NULL}

\* A chain ends within as many links as there are nodes, or never.
Acyclic(b) == Walk(b)[Cardinality(Nodes)] = NULL

Sound(n, b) == flaw[n] = "none" /\ Hash[n] % BucketCount = b

ChainSound(b) == Acyclic(b) /\ \A n \in ChainOf(b) : Sound(n, b)

\* validate accepts exactly the tables whose chains end, hold sound nodes of
\* their own bucket only, and together have size nodes: no cycle, tail shared
\* by two chains or lost node passes (cashash_diagnostics.c:97-162).
AcceptsExactlySoundTables ==
  pc = "validated" =>
    (result.valid <=>
       /\ \A b \in Buckets : ChainSound(b)
       /\ size = Cardinality(UNION {ChainOf(b) : b \in Buckets}))

\* cashash_diagnostics.h:13-14 and 83-84: the error reported is the first one
\* there is, and the indices lead to it.
FirstErrorReported ==
  pc = "validated" /\ ~result.valid =>
    LET b  == result.bucket_index
        at == result.entry_index
    IN  IF result.error = "SIZE_MISMATCH"
        THEN \A c \in Buckets : ChainSound(c)
        ELSE /\ \A c \in Buckets : c < b => ChainSound(c)
             /\ Acyclic(b) <=> result.error # "CYCLE_DETECTED"
             /\ Acyclic(b) =>
                  /\ at \in DOMAIN Walk(b) /\ Walk(b)[at] \in Nodes
                  /\ ~Sound(Walk(b)[at], b)
                  /\ \A m \in 0 .. at - 1 : Sound(Walk(b)[m], b)

\* The statistics of an accepted table are those of its chains
\* (cashash_diagnostics.h:159-168, 200-226).
StatsExact ==
  pc = "collected" =>
    /\ stats.used_buckets = Cardinality({b \in Buckets : ChainOf(b) # {}})
    /\ stats.empty_buckets = stats.capacity - stats.used_buckets
    /\ stats.collisions = stats.entries - stats.used_buckets
    /\ stats.longest_chain = Max({Cardinality(ChainOf(b)) : b \in Buckets})

\* validate returns on every heap, however its pointers are tied into loops, and
\* stats, which follows the chains with no check of its own, on every table
\* that validate has accepted (cashash_diagnostics.c:104-116, 171-174).
CallsReturn == <>(pc = "collected" \/ (pc = "validated" /\ ~result.valid))
=============================================================================
