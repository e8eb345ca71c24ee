----------------------------- MODULE OAIterator -----------------------------
(***************************************************************************)
(* cashash_foreach over an open-addressing table (src/cashash_iter.c),     *)
(* composed with the table. The iterator keeps an index into the entry     *)
(* array while the callback runs, and the callback may call the table: the *)
(* constants say which calls it makes. The loop a caller writes with       *)
(* has_next and next has the same steps, its body being the callback.      *)
(***************************************************************************)
EXTENDS OATable

CONSTANT Callbacks  \* the callbacks that callers pass to foreach

(***************************************************************************)
(* A careful callback removes no entry but the one it was given, or clears *)
(* the table. A free one makes any call, except that it neither destroys   *)
(* the table nor starts a foreach of its own.                              *)
(***************************************************************************)
ASSUME CallbackAssumption ==
  /\ Callbacks \subseteq {"careful", "free"}
  /\ NULL \notin Callbacks /\ NULL \notin BOOLEAN

VARIABLES
  phase,       \* "none": no foreach; "loop": before has_next; "callback"
  callback,    \* the callback of the foreach, until the next call
  iter_index,  \* iter.bucket_index
  returned,    \* the key of the pair the callback was given
  outcome,     \* what the last foreach returned, until the next call
  visits,      \* history: visits of each key, 0, 1 or (more) 2
  stable       \* history: the keys in the table throughout the foreach

iterVars == <<phase, callback, iter_index, returned, outcome, visits, stable>>
allVars  == <<vars, iterVars>>

NoVisits == [k \in Keys |-> 0]

CountVisit(k) == [visits EXCEPT ![k] = IF @ = 0 THEN 1 ELSE 2]

StoredKeys == {Owner[s].key : s \in SlotsIn(Owner, "OCCUPIED")}

\* Mutants: the scan takes every slot that was ever used for an entry; it
\* runs past the end.
NextOccupiedTakesTombstones(i) ==
  LET later == {s \in DOMAIN entries : s >= i /\ entries[s].state # "EMPTY"}
  IN  IF later = {} THEN bucket_count ELSE Min(later)

NextOccupiedRunsOver(i) ==
  LET later == {s \in SlotsIn(entries, "OCCUPIED") : s >= i}
  IN  IF later = {} THEN bucket_count + 1 ELSE Min(later)

\* The first occupied slot from i on.
NextOccupied(i) ==
  LET later == {s \in SlotsIn(entries, "OCCUPIED") : s >= i}
  IN  IF later = {} THEN bucket_count ELSE Min(later)

HasNext ==
  iter_index < bucket_count /\ entries[iter_index].state = "OCCUPIED"

IterInit ==
  /\ Init
  /\ phase = "none" /\ callback = NULL /\ iter_index = 0
  /\ returned = NULL /\ outcome = NULL
  /\ visits = NoVisits /\ stable = {}

\* A call outside an iteration; the history of the last one is forgotten.
Call ==
  /\ phase = "none"
  /\ Next
  /\ callback' = NULL /\ outcome' = NULL /\ visits' = NoVisits /\ stable' = {}
  /\ UNCHANGED <<phase, iter_index, returned>>

\* Mutant: the first slot is taken for granted.
BeginAtSecondSlot ==
  /\ phase = "none" /\ pc = "idle"
  /\ phase' = "loop"
  /\ callback' \in Callbacks
  /\ iter_index' = NextOccupied(1)
  /\ outcome' = NULL /\ visits' = NoVisits /\ stable' = StoredKeys
  /\ UNCHANGED <<vars, returned>>

Begin ==
  /\ phase = "none" /\ pc = "idle"
  /\ phase' = "loop"
  /\ callback' \in Callbacks
  /\ iter_index' = NextOccupied(0)
  /\ outcome' = NULL /\ visits' = NoVisits /\ stable' = StoredKeys
  /\ UNCHANGED <<vars, returned>>

\* Mutant: the scan for the next entry starts at the current one.
VisitAgain ==
  /\ phase = "loop" /\ HasNext
  /\ returned' = entries[iter_index].key
  /\ visits' = CountVisit(returned')
  /\ iter_index' = NextOccupied(iter_index)
  /\ phase' = "callback"
  /\ UNCHANGED <<vars, callback, outcome, stable>>

\* cashash_iter_next reads the entry and advances before the callback runs.
Visit ==
  /\ phase = "loop" /\ HasNext
  /\ returned' = entries[iter_index].key
  /\ visits' = CountVisit(returned')
  /\ iter_index' = NextOccupied(iter_index + 1)
  /\ phase' = "callback"
  /\ UNCHANGED <<vars, callback, outcome, stable>>

\* The keys the callback may remove, or insert.
Removable  == IF callback = "careful" THEN {returned} ELSE Keys
Insertable == IF callback = "careful" THEN {} ELSE Keys

\* A call in the callback, as far as it changes the table.
CallbackCall ==
  /\ phase = "callback"
  /\ \/ \E k \in Removable : Remove(k)
     \/ \E k \in Insertable, v \in Values : Insert(k, v) \/ BeginResize(k, v)
     \/ Clear
  /\ stable' = stable \cap StoredKeys'
  /\ UNCHANGED <<phase, callback, iter_index, returned, outcome, visits>>

\* The loop of cashash_oa_resize, in an insert that the callback made.
CallbackResizes ==
  /\ phase = "callback"
  /\ ResizeStep
  /\ UNCHANGED iterVars

CallbackContinues ==
  /\ phase = "callback" /\ pc = "idle"
  /\ phase' = "loop"
  /\ UNCHANGED <<vars, callback, iter_index, returned, outcome, visits, stable>>

Return(result) ==
  /\ phase' = "none"
  /\ outcome' = result
  /\ iter_index' = 0 /\ returned' = NULL
  /\ UNCHANGED <<vars, callback, visits, stable>>

CallbackStops == phase = "callback" /\ pc = "idle" /\ Return(FALSE)

End == phase = "loop" /\ ~HasNext /\ Return(TRUE)

IterNext ==
  \/ Call
  \/ Begin
  \/ Visit
  \/ CallbackCall
  \/ CallbackResizes
  \/ CallbackContinues
  \/ CallbackStops
  \/ End

(***************************************************************************)
(* The calling thread runs the loops of foreach and of a resize, and a     *)
(* callback returns in the end, however many calls it makes.               *)
(***************************************************************************)
IterSpec ==
  /\ IterInit /\ [][IterNext]_allVars
  /\ WF_allVars(Visit \/ End)
  /\ WF_allVars(pc = "resizing" /\ (Call \/ CallbackResizes))
  /\ SF_allVars(CallbackContinues \/ CallbackStops)

-----------------------------------------------------------------------------
(* Properties.                                                             *)

\* Every variable of the iteration has its type.
IterTypeOK ==
  /\ phase \in {"none", "loop", "callback"}
  /\ iter_index \in 0 .. bucket_count
  /\ returned \in IF phase = "callback" THEN Keys ELSE Keys \cup {NULL}
  /\ outcome \in BOOLEAN \cup {NULL}
  /\ visits \in [Keys -> 0 .. 2]
  /\ stable \subseteq StoredKeys
  /\ callback \in Callbacks \cup {NULL}
  /\ phase # "none" => pc # "none" /\ callback # NULL /\ outcome = NULL

\* cashash_iter.h:111, 124 and 131: the callback is called once for each
\* entry that is in the table throughout, and TRUE means all were visited.
\* Other callbacks may have entries visited twice or never.
EachEntryOnce ==
  callback = "careful" =>
    /\ \A k \in stable : visits[k] <= 1
    /\ outcome = TRUE => \A k \in stable : visits[k] = 1

\* cashash_iter.h:131: foreach returns TRUE if all entries were visited, here
\* those that were in the table throughout, whatever the callback removed.
TrueMeansAllVisited == outcome = TRUE => \A k \in stable : visits[k] > 0

\* The table may grow, shrink and be refilled under the iterator: foreach
\* still returns, once its callback does (cashash_iter.c:181-191).
ForeachReturns == phase # "none" ~> phase = "none"

\* The keys at the iterator's index or behind it.
Ahead ==
  IF phase = "none" THEN {}
  ELSE {entries[s].key : s \in {t \in SlotsIn(entries, "OCCUPIED") :
                                  t >= iter_index}}

Careful == callback = "careful"

Iteration == INSTANCE KeyIteration
  WITH keys <- StoredKeys,
       iterating <- Careful /\ phase # "none",
       unvisited <- IF Careful THEN Ahead ELSE {},
       last <- IF Careful THEN returned ELSE NULL,
       outcome <- IF Careful THEN outcome ELSE NULL

\* The index splits the array into what was visited and what will be, and the
\* removals of a careful callback leave that split intact: foreach implements
\* the abstract iteration (cashash_iter.c:27-41, 138-147).
ImplementsIteration == Iteration!Spec
=============================================================================
