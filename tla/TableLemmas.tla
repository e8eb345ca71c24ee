---------------------------- MODULE TableLemmas -----------------------------
(***************************************************************************)
(* Lemmas that the proofs about both backends use: the least element of a  *)
(* set of naturals, remainders, and the map that a set of key-value        *)
(* entries stands for.                                                     *)
(***************************************************************************)
EXTENDS Integers, FiniteSetsExt, FiniteSetTheorems, WellFoundedInduction, TLAPS

\* A nonempty set of naturals has a least element, and Min returns it.
LEMMA MinOfNats ==
  ASSUME NEW S \in SUBSET Nat, S # {}
  PROVE  Min(S) \in S /\ \A y \in S : Min(S) <= y
<1>1. IsWellFoundedOn(OpToRel(<, Nat), Nat)
  BY NatLessThanWellFounded
<1>2. \E x \in S : \A y \in S : <<y, x>> \notin OpToRel(<, Nat)
  BY <1>1, WFMin
<1>3. PICK x \in S : \A y \in S : <<y, x>> \notin OpToRel(<, Nat)
  BY <1>2
<1>4. ASSUME NEW y \in S, y < x
      PROVE  FALSE
  <2>1. <<y, x>> \in {ss \in Nat \X Nat : ss[1] < ss[2]}
    BY <1>4
  <2>2. <<y, x>> \in OpToRel(<, Nat)
    BY <2>1 DEF OpToRel
  <2>3. QED
    BY <2>2, <1>3
<1>5. \A y \in S : x <= y
  BY <1>4
<1>6. QED
  BY <1>5 DEF Min

-----------------------------------------------------------------------------
(* Remainders.                                                             *)

\* Division with remainder.
LEMMA DivMod ==
  ASSUME NEW x \in Nat, NEW n \in Nat \ {0}
  PROVE  x % n \in 0 .. n - 1 /\ \E q \in Nat : x = n * q + (x % n)
<1>1. x % n \in 0 .. n - 1
  OBVIOUS
<1>2. x = n * (x \div n) + (x % n)
  OBVIOUS
<1>3. x \div n \in Nat
  OBVIOUS
<1>4. QED
  BY <1>1, <1>2, <1>3

\* The only multiple of n strictly between -n and n is 0.
LEMMA Multiple ==
  ASSUME NEW n \in Nat \ {0}, NEW d \in Int, n * d < n, 0 - n < n * d
  PROVE  d = 0
<1>1. CASE d >= 1
  <2>1. n * (d - 1) >= 0
    BY <1>1
  <2>2. n * d = n * (d - 1) + n
    OBVIOUS
  <2>3. QED
    BY <2>1, <2>2
<1>2. CASE d <= 0 - 1
  <2>1. n * (0 - d - 1) >= 0
    BY <1>2
  <2>2. n * d = 0 - n * (0 - d - 1) - n
    OBVIOUS
  <2>3. QED
    BY <2>1, <2>2
<1>3. QED
  BY <1>1, <1>2

\* The remainder is what is left of a multiple.
LEMMA ModUnique ==
  ASSUME NEW n \in Nat \ {0}, NEW q \in Nat, NEW t \in 0 .. n - 1
  PROVE  (n * q + t) % n = t
<1> DEFINE x == n * q + t
<1>1. x \in Nat
  OBVIOUS
<1>2. PICK p \in Nat : x = n * p + (x % n)
  BY <1>1, DivMod
<1>3. x % n \in 0 .. n - 1
  BY <1>1, DivMod
<1> HIDE DEF x
<1>4. n * (q - p) = (x % n) - t
  <2>1. n * (q - p) = n * q - n * p
    OBVIOUS
  <2>2. n * q + t = n * p + (x % n)
    BY <1>2 DEF x
  <2>3. n * q \in Int /\ n * p \in Int /\ x % n \in Int /\ t \in Int
    BY <1>3
  <2>4. n * q - n * p = (x % n) - t
    BY <2>2, <2>3
  <2>5. QED
    BY <2>1, <2>4
<1>5. q - p = 0
  <2>1. (x % n) - t < n /\ 0 - n < (x % n) - t
    BY <1>3
  <2>2. q - p \in Int
    OBVIOUS
  <2>3. QED
    BY <1>4, <2>1, <2>2, Multiple
<1>6. x % n = t
  BY <1>3, <1>4, <1>5
<1>7. QED
  BY <1>6 DEF x

-----------------------------------------------------------------------------
(* Entries and the map they stand for. An entry is a record with at least  *)
(* the fields key and value; E is the set of entries of a table.           *)

KeysOf(E) == {e.key : e \in E}

OneEntryPerKey(E) == \A d, e \in E : d.key = e.key => d = e

MapOf(E) == [k \in KeysOf(E) |-> (CHOOSE e \in E : e.key = k).value]

\* The map is defined on the keys and returns the values of the entries.
LEMMA MapOfEntry ==
  ASSUME NEW E, OneEntryPerKey(E)
  PROVE  /\ DOMAIN MapOf(E) = KeysOf(E)
         /\ \A e \in E : e.key \in KeysOf(E) /\ MapOf(E)[e.key] = e.value
<1>1. ASSUME NEW e \in E
      PROVE  e.key \in KeysOf(E) /\ MapOf(E)[e.key] = e.value
  <2>1. e.key \in KeysOf(E)
    BY DEF KeysOf
  <2>2. (CHOOSE d \in E : d.key = e.key) = e
    BY DEF OneEntryPerKey
  <2>3. QED
    BY <2>1, <2>2 DEF MapOf
<1>2. QED
  BY <1>1 DEF MapOf

\* F has the entry new, and otherwise the entries of E for other keys.
Rebound(F, E, new) == F = {e \in E : e.key # new.key} \cup {new}

\* The map m with k bound to v.
WithKey(m, k, v) == [x \in DOMAIN m \cup {k} |-> IF x = k THEN v ELSE m[x]]

\* An entry for k comes in, and the one for k that there may have been leaves.
LEMMA MapOfBind ==
  ASSUME NEW E, OneEntryPerKey(E), NEW new, NEW F, Rebound(F, E, new)
  PROVE  /\ OneEntryPerKey(F)
         /\ MapOf(F) = WithKey(MapOf(E), new.key, new.value)
<1> DEFINE f == [x \in KeysOf(E) \cup {new.key} |->
                   IF x = new.key THEN new.value ELSE MapOf(E)[x]]
<1>1. OneEntryPerKey(F)
  BY DEF OneEntryPerKey, Rebound
<1>2. KeysOf(F) = KeysOf(E) \cup {new.key}
  BY DEF KeysOf, Rebound
<1>3. \A e \in F : f[e.key] = e.value
  BY MapOfEntry DEF KeysOf, Rebound
<1>4. MapOf(F) = f
  <2>1. ASSUME NEW k \in KeysOf(F)
        PROVE  MapOf(F)[k] = f[k]
    <3>1. PICK e \in F : e.key = k
      BY DEF KeysOf
    <3>2. QED
      BY <3>1, <1>1, <1>3, MapOfEntry
  <2>2. QED
    BY <2>1, <1>2 DEF MapOf
<1>5. QED
  BY <1>1, <1>4 DEF MapOf, WithKey

\* The entry for k, if there is one, leaves.
LEMMA MapOfUnbind ==
  ASSUME NEW E, OneEntryPerKey(E), NEW k,
         NEW F, F = {e \in E : e.key # k}
  PROVE  /\ OneEntryPerKey(F)
         /\ MapOf(F) = [x \in DOMAIN MapOf(E) \ {k} |-> MapOf(E)[x]]
<1> DEFINE f == [x \in KeysOf(E) \ {k} |-> MapOf(E)[x]]
<1>1. OneEntryPerKey(F)
  BY DEF OneEntryPerKey
<1>2. KeysOf(F) = KeysOf(E) \ {k}
  BY DEF KeysOf
<1>3. \A e \in F : f[e.key] = e.value
  BY MapOfEntry DEF KeysOf
<1>4. MapOf(F) = f
  <2>1. ASSUME NEW x \in KeysOf(F)
        PROVE  MapOf(F)[x] = f[x]
    <3>1. PICK e \in F : e.key = x
      BY DEF KeysOf
    <3>2. QED
      BY <3>1, <1>1, <1>3, MapOfEntry
  <2>2. QED
    BY <2>1, <1>2 DEF MapOf
<1>5. QED
  BY <1>1, <1>4 DEF MapOf

=============================================================================
