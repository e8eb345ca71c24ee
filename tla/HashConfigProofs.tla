-------------------------- MODULE HashConfigProofs --------------------------
(***************************************************************************)
(* Proofs about HashConfig: when every creation call settles which seed    *)
(* XXH64 gets, a key has one hash for the life of its table, so that it is *)
(* found, stored once and accepted by validate. For every set of keys,     *)
(* every hash function and every memory size.                              *)
(***************************************************************************)
EXTENDS HashConfig, TLAPS

\* The hash function that a creation call configures.
RequestedHash(r) == IF r.by = "strategy" THEN StrategyHash(r.strategy) ELSE r.hash

(***************************************************************************)
(* A caller who wants XXH64 in a chaining table announces it, with a seed, *)
(* in the configuration: the chaining backend passes a seed only then. Any *)
(* other request is allowed.                                               *)
(***************************************************************************)
SeedsAnnounced ==
  \A r \in Requests :
    r.kind = "CHAINING" /\ RequestedHash(r) = "XXH64" =>
      r.by = "config" /\ r.strategy = "XXH64" /\ r.used

-----------------------------------------------------------------------------
(* The inductive invariant.                                                *)

\* The one hash of k: under the seed, or in an open-addressing table under
\* the address of the options.
TheHash(k) ==
  IF table.hash = "XXH64"
  THEN Xxh64[k][IF table.kind = "CHAINING" THEN table.seed ELSE Pointer]
  ELSE Plain[k]

\* The chaining backend passes a seed to XXH64.
SeedPassed ==
  table # NULL =>
    /\ table.kind \in Kinds
    /\ table.kind = "CHAINING" /\ table.hash = "XXH64" =>
         table.used /\ table.strategy = "XXH64"

\* Every entry caches the hash of its key, and the keys are those present.
EntriesHashed ==
  /\ table = NULL => stored = {}
  /\ \A e \in stored : e.key \in Keys /\ e = Entry(e.key, TheHash(e.key))
  /\ present = {e.key : e \in stored}

HInv == /\ SeedPassed /\ EntriesHashed
        /\ FindsWhatIsPresent /\ ValidateAccepts

\* What every call of the hash function returns for k.
LEMMA OneHash ==
  ASSUME HInv, table # NULL, NEW k
  PROVE  /\ Hashes(k, Argument) = {TheHash(k)}
         /\ table.kind = "CHAINING" => Hashes(k, RehashArgument) = {TheHash(k)}
         /\ ~KeyedByPointer => Hashes(k, ValidateArgument) = {TheHash(k)}
<1>1. table.kind \in {"CHAINING", "OPEN_ADDRESSING"}
  BY DEF HInv, SeedPassed, Kinds
<1>2. CASE table.hash # "XXH64"
  BY <1>2 DEF Hashes, TheHash
<1>3. CASE table.hash = "XXH64" /\ table.kind = "CHAINING"
  <2>1. ChainArgument = {table.seed}
    BY <1>3 DEF HInv, SeedPassed, ChainArgument
  <2>2. Hashes(k, {table.seed}) = {TheHash(k)}
    BY <1>3 DEF Hashes, TheHash
  <2>3. QED
    BY <1>3, <2>1, <2>2 DEF Argument, RehashArgument, ValidateArgument
<1>4. CASE table.hash = "XXH64" /\ table.kind = "OPEN_ADDRESSING"
  <2>1. Argument = {Pointer}
    BY <1>4 DEF Argument, OAArgument
  <2>2. Hashes(k, {Pointer}) = {TheHash(k)}
    BY <1>4 DEF Hashes, TheHash
  <2>3. QED
    BY <1>4, <2>1, <2>2 DEF KeyedByPointer
<1>5. QED
  BY <1>1, <1>2, <1>3, <1>4

\* A search comes upon the entry of its key, whichever bucket that is in.
LEMMA SearchFinds ==
  ASSUME HInv, table # NULL, NEW k, NEW h \in Hashes(k, Argument)
  PROVE  /\ h = TheHash(k)
         /\ Matches(k, h) = {e \in stored : e.key = k}
         /\ Matches(k, h) # {} <=> k \in present
<1>1. h = TheHash(k)
  BY OneHash
<1>2. \A e \in stored : e.key = k => e.hash = h
  BY <1>1 DEF HInv, EntriesHashed, Entry
<1>3. Matches(k, h) = {e \in stored : e.key = k}
  BY <1>2 DEF Matches
<1>4. QED
  BY <1>1, <1>3 DEF HInv, EntriesHashed

\* No entry for a key differs from another one.
LEMMA OneEntry == HInv => OneEntryPerKey
BY DEF HInv, EntriesHashed, OneEntryPerKey

\* A call that keeps the configuration.
LEMMA SameTable ==
  ASSUME HInv, table # NULL, table' = table
  PROVE  /\ SeedPassed'
         /\ \A k : TheHash(k)' = TheHash(k)
  BY DEF HInv, SeedPassed, TheHash

-----------------------------------------------------------------------------
(* One lemma per call.                                                     *)

\* Creating a table settles what its hash function gets.
LEMMA CreateSound ==
  ASSUME SeedsAnnounced, HInv, NEW r \in Requests, Create(r)
  PROVE  HInv'
<1>1. /\ stored = {} /\ stored' = {} /\ present' = present
      /\ ret' = Reply("create", NULL, TRUE)
  BY DEF Create, HInv, EntriesHashed
<1>2. PICK strategy \in IF r.by = "strategy" THEN Strategies ELSE {r.strategy} :
        table' = [kind |-> r.kind, strategy |-> strategy,
                  hash |-> RequestedHash(r), used |-> r.used, seed |-> r.seed]
  BY DEF Create, RequestedHash
<1>3. r.kind \in Kinds
  BY ConstantsAssumption DEF Request
<1>4. SeedPassed'
  BY <1>2, <1>3 DEF SeedPassed, SeedsAnnounced
<1>5. EntriesHashed'
  BY <1>1 DEF HInv, EntriesHashed
<1>6. FindsWhatIsPresent' /\ ValidateAccepts'
  BY <1>1 DEF FindsWhatIsPresent, ValidateAccepts, Reply
<1>7. QED
  BY <1>4, <1>5, <1>6 DEF HInv

\* Inserting, into an existing entry, a new one, or a rehashed table.
LEMMA InsertSound ==
  ASSUME HInv, NEW k \in Keys, Update(k) \/ Insert(k) \/ InsertAndRehash(k)
  PROVE  HInv'
<1>1. /\ table # NULL /\ table' = table /\ present' = present \cup {k}
      /\ ret' = Reply("insert", k, TRUE)
  BY DEF Update, Insert, InsertAndRehash
<1>2. \/ stored' = stored /\ k \in present
      \/ stored' = stored \cup {Entry(k, TheHash(k))}
  <2>1. CASE Update(k)
    BY <1>1, <2>1, SearchFinds DEF Update
  <2>2. CASE Insert(k)
    BY <1>1, <2>2, SearchFinds DEF Insert
  <2>3. CASE InsertAndRehash(k)
    <3>1. PICK h \in Hashes(k, Argument) :
            \E rehashed \in
              [stored -> UNION {Hashes(e.key, RehashArgument) : e \in stored}] :
              /\ \A e \in stored : rehashed[e] \in Hashes(e.key, RehashArgument)
              /\ stored' = {Entry(e.key, rehashed[e]) : e \in stored}
                             \cup {Entry(k, h)}
      BY <2>3 DEF InsertAndRehash
    <3>2. PICK rehashed :
            /\ \A e \in stored : rehashed[e] \in Hashes(e.key, RehashArgument)
            /\ stored' = {Entry(e.key, rehashed[e]) : e \in stored}
                           \cup {Entry(k, h)}
      BY <3>1
    <3>3. table.kind = "CHAINING"
      BY <2>3 DEF InsertAndRehash, ShouldGrow
    <3>4. \A e \in stored : Entry(e.key, rehashed[e]) = e
      BY <1>1, <3>2, <3>3, OneHash DEF HInv, EntriesHashed
    <3>5. h = TheHash(k)
      BY <1>1, SearchFinds
    <3>6. QED
      BY <3>2, <3>4, <3>5
  <2>4. QED
    BY <2>1, <2>2, <2>3
<1>3. SeedPassed' /\ \A x : TheHash(x)' = TheHash(x)
  BY <1>1, SameTable
<1>4. Entry(k, TheHash(k)).key = k
  BY DEF Entry
<1>5. EntriesHashed'
  BY <1>1, <1>2, <1>3, <1>4 DEF HInv, EntriesHashed
<1>6. FindsWhatIsPresent' /\ ValidateAccepts'
  BY <1>1 DEF FindsWhatIsPresent, ValidateAccepts, Reply
<1>7. QED
  BY <1>3, <1>5, <1>6 DEF HInv

\* Finding a key tells whether it is present.
LEMMA FindSound ==
  ASSUME HInv, NEW k \in Keys, Find(k)
  PROVE  HInv'
<1>1. table # NULL /\ table' = table /\ stored' = stored /\ present' = present
  BY DEF Find
<1>2. PICK h \in Hashes(k, Argument) : ret' = Reply("find", k, Matches(k, h) # {})
  BY DEF Find
<1>3. Matches(k, h) # {} <=> k \in present
  BY <1>1, SearchFinds
<1>4. SeedPassed' /\ EntriesHashed'
  BY <1>1, SameTable DEF HInv, EntriesHashed
<1>5. FindsWhatIsPresent' /\ ValidateAccepts'
  BY <1>1, <1>2, <1>3 DEF FindsWhatIsPresent, ValidateAccepts, Reply
<1>6. QED
  BY <1>4, <1>5 DEF HInv

\* Removing a key takes its one entry out.
LEMMA RemoveSound ==
  ASSUME HInv, NEW k \in Keys, Remove(k)
  PROVE  HInv'
<1>1. table # NULL /\ table' = table /\ present' = present \ {k}
  BY DEF Remove
<1>2. PICK h \in Hashes(k, Argument) :
        \E gone \in {{e} : e \in Matches(k, h)} \cup
                    IF Matches(k, h) = {} THEN {{}} ELSE {} :
          /\ stored' = stored \ gone
          /\ ret' = Reply("remove", k, gone # {})
  BY DEF Remove
<1>3. PICK gone \in {{e} : e \in Matches(k, h)} \cup
                    IF Matches(k, h) = {} THEN {{}} ELSE {} :
        /\ stored' = stored \ gone
        /\ ret' = Reply("remove", k, gone # {})
  BY <1>2
<1>4. Matches(k, h) = {e \in stored : e.key = k}
  BY <1>1, SearchFinds
<1>5. gone = {e \in stored : e.key = k}
  BY <1>3, <1>4, OneEntry DEF OneEntryPerKey
<1>6. SeedPassed' /\ \A x : TheHash(x)' = TheHash(x)
  BY <1>1, SameTable
<1>7. EntriesHashed'
  BY <1>1, <1>3, <1>5, <1>6 DEF HInv, EntriesHashed
<1>8. FindsWhatIsPresent' /\ ValidateAccepts'
  BY <1>3 DEF FindsWhatIsPresent, ValidateAccepts, Reply
<1>9. QED
  BY <1>6, <1>7, <1>8 DEF HInv

\* validate computes the hashes that the entries cache.
LEMMA ValidateSound ==
  ASSUME HInv, Validate
  PROVE  HInv'
<1>1. table # NULL /\ table' = table /\ stored' = stored /\ present' = present
  BY DEF Validate
<1>2. SeedPassed' /\ EntriesHashed'
  BY <1>1, SameTable DEF HInv, EntriesHashed
<1>3. ~KeyedByPointer => ~ \E e \in stored : MayDiffer(e)
  BY <1>1, OneHash DEF HInv, EntriesHashed, Entry, MayDiffer
<1>4. KeyedByPointer' <=> KeyedByPointer
  BY <1>1 DEF KeyedByPointer
<1>5. FindsWhatIsPresent' /\ ValidateAccepts'
  BY <1>3, <1>4 DEF Validate, FindsWhatIsPresent, ValidateAccepts, Reply
<1>6. QED
  BY <1>2, <1>5 DEF HInv

-----------------------------------------------------------------------------
(* The theorems.                                                           *)

\* Every call keeps the invariant.
THEOREM HInvInductive ==
  ASSUME SeedsAnnounced
  PROVE  HInv /\ [Next]_vars => HInv'
<1> SUFFICES ASSUME HInv, [Next]_vars PROVE HInv'
  OBVIOUS
<1>1. CASE UNCHANGED vars
  BY <1>1 DEF vars, HInv, SeedPassed, EntriesHashed, TheHash,
     FindsWhatIsPresent, ValidateAccepts, KeyedByPointer
<1>2. QED
  BY <1>1, CreateSound, InsertSound, FindSound, RemoveSound, ValidateSound
     DEF Next

\* The invariant holds in every reachable state.
THEOREM SpecHInv ==
  ASSUME SeedsAnnounced
  PROVE  Spec => []HInv
<1>1. Init => HInv
  BY DEF Init, HInv, SeedPassed, EntriesHashed, FindsWhatIsPresent,
     ValidateAccepts, Reply
<1>2. HInv /\ [Next]_vars => HInv'
  BY HInvInductive
<1>3. QED
  BY <1>1, <1>2, PTL DEF Spec

\* A key that was inserted and not removed is found, whichever hash function
\* the table has and however often it was rehashed (cashash.h:216-222).
THEOREM SpecFindsWhatIsPresent ==
  ASSUME SeedsAnnounced
  PROVE  Spec => []FindsWhatIsPresent
<1>1. HInv => FindsWhatIsPresent
  BY DEF HInv
<1>2. QED
  BY <1>1, SpecHInv, PTL

\* No key is stored a second time under another hash (cashash.h:194-195).
THEOREM SpecOneEntryPerKey ==
  ASSUME SeedsAnnounced
  PROVE  Spec => []OneEntryPerKey
<1>1. QED
  BY OneEntry, SpecHInv, PTL

\* validate accepts every table that is not keyed by an address
\* (cashash_diagnostics.h:57-58 and 255).
THEOREM SpecValidateAccepts ==
  ASSUME SeedsAnnounced
  PROVE  Spec => []ValidateAccepts
<1>1. HInv => ValidateAccepts
  BY DEF HInv
<1>2. QED
  BY <1>1, SpecHInv, PTL

\* XXH64 gets the seed that the caller set (cashash_type.h:154 and 168).
THEOREM SpecSeedUsed ==
  ASSUME SeedsAnnounced
  PROVE  Spec => []SeedUsed
<1>1. HInv => SeedUsed
  <2> SUFFICES ASSUME HInv, NEW e \in stored, table.hash = "XXH64",
                      ~KeyedByPointer
               PROVE  e.hash = Xxh64[e.key][table.seed]
    BY DEF SeedUsed
  <2>1. table.kind = "CHAINING"
    BY DEF HInv, SeedPassed, EntriesHashed, Kinds, KeyedByPointer
  <2>2. QED
    BY <2>1 DEF HInv, EntriesHashed, TheHash, Entry
<1>2. QED
  BY <1>1, SpecHInv, PTL

=============================================================================
