----------------------------- MODULE HashConfig -----------------------------
(***************************************************************************)
(* Which extra argument the configured hash function gets, call site by    *)
(* call site: the hash functions of src/cashash_hash.c are variadic, XXH64 *)
(* reads a seed from the extra argument, and the backends, the rehash and  *)
(* validate each decide for themselves what they pass. The table is        *)
(* reduced to its configuration and its entries with their cached hashes;  *)
(* how entries are linked or probed for is in ChainTable and OATable,      *)
(* where a key has one hash once and for all.                              *)
(***************************************************************************)
EXTENDS Integers, FiniteSets

CONSTANTS
  Keys,
  NULL,        \* no table
  Arguments,   \* the 64-bit words XXH64 may read as its seed
  Pointer,     \* the word that &table->option is
  Plain,       \* the FNV-1a or XXH3 hash of a key
  Xxh64,       \* the XXH64 hash of a key under a seed
  Requests,    \* the creation calls made
  MaxBuckets   \* the largest bucket array calloc can provide

Strategies    == {"NONE", "FNV1A", "XXH3", "XXH64"}
HashFunctions == {"FNV1A", "XXH3", "XXH64"}
Kinds         == {"CHAINING", "OPEN_ADDRESSING"}

\* A creation call: by strategy, or with a configuration of the caller's.
Request ==
  [kind : Kinds, by : {"strategy"}, strategy : Strategies,
   used : BOOLEAN, seed : Arguments, bucket_count : Nat]
  \cup
  [kind : Kinds, by : {"config"}, strategy : Strategies, hash : HashFunctions,
   used : BOOLEAN, seed : Arguments, bucket_count : Nat]

ASSUME ConstantsAssumption ==
  /\ Pointer \in Arguments
  /\ Plain \in [Keys -> Nat]
  /\ Xxh64 \in [Keys -> [Arguments -> Nat]]
  /\ Requests \subseteq Request
  /\ MaxBuckets \in Nat

VARIABLES
  table,         \* kind, config.hash, config.strategy, option; or NULL
  bucket_count,  \* of a chaining table
  stored,        \* the entries: keys with their cached hashes
  present,       \* history: the keys inserted and not removed since
  ret            \* history: the last call and its result

vars == <<table, bucket_count, stored, present, ret>>

Reply(op, key, result) == [op |-> op, key |-> key, result |-> result]

-----------------------------------------------------------------------------
(* Hashing.                                                                *)

Entry(k, h) == [key |-> k, hash |-> h]

\* The hash values a call may return whose extra argument is one of args.
Hashes(k, args) ==
  IF table.hash = "XXH64" THEN {Xxh64[k][a] : a \in args} ELSE {Plain[k]}

\* No argument passed: va_arg reads whatever the register holds.
Unspecified == Arguments

\* Mutants: the seed is not passed; a constant is.
ChainArgumentNone == Unspecified
ChainArgumentZero == {0}

\* What the chaining backend passes when it inserts, finds and removes.
ChainArgument ==
  IF table.used /\ table.strategy = "XXH64" THEN {table.seed} ELSE Unspecified

\* The rehash decides again, and so does validate, for both kinds of table.
RehashArgument == ChainArgument

ValidateArgument == ChainArgument

\* Mutant: the open-addressing backend passes nothing.
OAArgumentNone == Unspecified

\* What the open-addressing backend passes; a resize uses the cached hashes.
OAArgument == {Pointer}

Argument == IF table.kind = "CHAINING" THEN ChainArgument ELSE OAArgument

\* The entries a search for k under hash h comes upon: those in the bucket, or
\* those with the very hash.
Matches(k, h) ==
  {e \in stored :
     /\ e.key = k
     /\ IF table.kind = "CHAINING" THEN e.hash % bucket_count = h % bucket_count
        ELSE e.hash = h}

-----------------------------------------------------------------------------
(* The calls.                                                              *)

Init ==
  /\ table = NULL /\ bucket_count = 0 /\ stored = {}
  /\ present = {} /\ ret = Reply("none", NULL, FALSE)

StrategyHash(strategy) == IF strategy = "NONE" THEN "FNV1A" ELSE strategy

\* The functions that create by strategy do not set config.strategy: it is
\* whatever the stack held.
Create(r) ==
  /\ table = NULL
  /\ \E strategy \in IF r.by = "strategy" THEN Strategies ELSE {r.strategy} :
       table' = [kind |-> r.kind, strategy |-> strategy,
                 hash |-> IF r.by = "strategy" THEN StrategyHash(r.strategy)
                          ELSE r.hash,
                 used |-> r.used, seed |-> r.seed]
  /\ bucket_count' = r.bucket_count
  /\ ret' = Reply("create", NULL, TRUE)
  /\ UNCHANGED <<stored, present>>

Update(k) ==
  /\ table # NULL
  /\ \E h \in Hashes(k, Argument) : Matches(k, h) # {}
  /\ present' = present \cup {k}
  /\ ret' = Reply("insert", k, TRUE)
  /\ UNCHANGED <<table, bucket_count, stored>>

ShouldGrow ==
  /\ table.kind = "CHAINING"
  /\ (Cardinality(stored) + 1) * 4 > bucket_count * 3

Insert(k) ==
  /\ table # NULL
  /\ ~ShouldGrow
  /\ \E h \in Hashes(k, Argument) :
       /\ Matches(k, h) = {}
       /\ stored' = stored \cup {Entry(k, h)}
  /\ present' = present \cup {k}
  /\ ret' = Reply("insert", k, TRUE)
  /\ UNCHANGED <<table, bucket_count>>

\* A growing chain hashes all its keys anew.
InsertAndRehash(k) ==
  /\ table # NULL
  /\ ShouldGrow
  /\ bucket_count * 2 <= MaxBuckets
  /\ \E h \in Hashes(k, Argument) :
       /\ Matches(k, h) = {}
       /\ \E rehashed \in
            [stored -> UNION {Hashes(e.key, RehashArgument) : e \in stored}] :
            /\ \A e \in stored : rehashed[e] \in Hashes(e.key, RehashArgument)
            /\ stored' = {Entry(e.key, rehashed[e]) : e \in stored}
                           \cup {Entry(k, h)}
  /\ bucket_count' = bucket_count * 2
  /\ present' = present \cup {k}
  /\ ret' = Reply("insert", k, TRUE)
  /\ UNCHANGED table

Find(k) ==
  /\ table # NULL
  /\ \E h \in Hashes(k, Argument) : ret' = Reply("find", k, Matches(k, h) # {})
  /\ UNCHANGED <<table, bucket_count, stored, present>>

Remove(k) ==
  /\ table # NULL
  /\ \E h \in Hashes(k, Argument) :
       \E gone \in {{e} : e \in Matches(k, h)} \cup
                   IF Matches(k, h) = {} THEN {{}} ELSE {} :
         /\ stored' = stored \ gone
         /\ ret' = Reply("remove", k, gone # {})
  /\ present' = present \ {k}
  /\ UNCHANGED <<table, bucket_count>>

\* Can the hash validate computes for entry e agree with the cached one, and
\* can it differ?
MayAgree(e)  == e.hash \in Hashes(e.key, ValidateArgument)
MayDiffer(e) == Hashes(e.key, ValidateArgument) # {e.hash}

Validate ==
  /\ table # NULL
  /\ \/ /\ \A e \in stored : MayAgree(e)
        /\ ret' = Reply("validate", NULL, TRUE)
     \/ /\ \E e \in stored : MayDiffer(e)
        /\ ret' = Reply("validate", NULL, FALSE)
  /\ UNCHANGED <<table, bucket_count, stored, present>>

Next ==
  \/ \E r \in Requests : Create(r)
  \/ \E k \in Keys :
       Update(k) \/ Insert(k) \/ InsertAndRehash(k) \/ Find(k) \/ Remove(k)
  \/ Validate

Spec == Init /\ [][Next]_vars

-----------------------------------------------------------------------------
(* Properties.                                                             *)

\* cashash.h:216-222: a key that was inserted and not removed is found, and no
\* other, whatever the seed and however often the table was rehashed.
FindsWhatIsPresent ==
  ret.op = "find" => (ret.result <=> ret.key \in present)

\* cashash.h:194-195: inserting a key that exists replaces its value, it does
\* not store the key again under another hash.
OneEntryPerKey == \A d, e \in stored : d.key = e.key => d = e

\* XXH64 in an open-addressing table: the hashes are keyed with an address.
KeyedByPointer == table.kind = "OPEN_ADDRESSING" /\ table.hash = "XXH64"

\* cashash_diagnostics.h:57-58 and 255: the hash that validate recomputes is
\* the one the table was built with, so a sound table is accepted; not so a
\* table that is keyed by a pointer.
ValidateAccepts == ret.op = "validate" /\ ~KeyedByPointer => ret.result

\* cashash_type.h:154 and 168: with the options in use, XXH64 gets the seed
\* that the caller set; not so in a table that is keyed by a pointer.
SeedUsed ==
  \A e \in stored :
    table.hash = "XXH64" /\ table.used /\ ~KeyedByPointer =>
      e.hash = Xxh64[e.key][table.seed]
=============================================================================
