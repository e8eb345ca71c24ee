---------------------------- MODULE KeyIteration ----------------------------
(***************************************************************************)
(* The contract of cashash_foreach (cashash_iter.h) as an abstract         *)
(* iteration over the set of stored keys: each visit takes a key that has  *)
(* not been visited, in any order, and foreach returns TRUE only when no   *)
(* key is left. Between two visits a callback may remove keys. The         *)
(* iterators of both backends are shown to implement it for callbacks that *)
(* respect their restrictions.                                             *)
(***************************************************************************)
CONSTANTS Keys, NULL

VARIABLES keys,       \* the keys in the table
          iterating,  \* is a foreach running?
          unvisited,  \* the keys it has still to visit
          last,       \* the key it visited last
          outcome     \* what the last foreach returned

vars == <<keys, iterating, unvisited, last, outcome>>

Init ==
  /\ keys = {} /\ ~iterating
  /\ unvisited = {} /\ last = NULL /\ outcome = NULL

\* Calls outside an iteration change the keys at will.
Change ==
  /\ ~iterating
  /\ keys' \in SUBSET Keys
  /\ outcome' = NULL
  /\ UNCHANGED <<iterating, unvisited, last>>

Begin ==
  /\ ~iterating
  /\ iterating' = TRUE
  /\ unvisited' = keys
  /\ outcome' = NULL
  /\ UNCHANGED <<keys, last>>

Visit(k) ==
  /\ iterating
  /\ k \in unvisited
  /\ unvisited' = unvisited \ {k}
  /\ last' = k
  /\ UNCHANGED <<keys, iterating, outcome>>

CallbackRemoves ==
  /\ iterating
  /\ keys' \in SUBSET keys
  /\ unvisited' = unvisited \cap keys'
  /\ UNCHANGED <<iterating, last, outcome>>

End(all) ==
  /\ iterating
  /\ all => unvisited = {}
  /\ iterating' = FALSE
  /\ unvisited' = {} /\ last' = NULL
  /\ outcome' = all
  /\ UNCHANGED keys

Next ==
  \/ Change
  \/ Begin
  \/ \E k \in Keys : Visit(k)
  \/ CallbackRemoves
  \/ \E all \in BOOLEAN : End(all)

Spec == Init /\ [][Next]_vars
=============================================================================
