------------------------------- MODULE KeyMap -------------------------------
(***************************************************************************)
(* The contract of the public table API (cashash.h) as an abstract map:    *)
(* a table is a finite function from keys to values, each call takes       *)
(* effect in one step, and a call that fails leaves the map as it was.     *)
(* Both backends are shown to implement it.                                *)
(***************************************************************************)
EXTENDS CashashTypes, Functions

CONSTANT MayRefuse  \* may an insert be refused with neither a bad key nor
                    \* a failed allocation to blame?

VARIABLES live,  \* does a table exist?
          map,   \* its contents
          ret    \* what the last call returned

vars == <<live, map, ret>>

NoKeys == [k \in {} |-> NULL]

Bind(m, k, v) == [x \in DOMAIN m \cup {k} |-> IF x = k THEN v ELSE m[x]]

Unbind(m, k) == Restrict(m, DOMAIN m \ {k})

Init == live = FALSE /\ map = NoKeys /\ ret = NoReply

Create ==
  /\ ~live
  /\ live' = TRUE
  /\ map' = NoKeys
  /\ ret' = Reply("create", NULL, TRUE, FALSE)

CreateRefused(oom) ==
  /\ ~live
  /\ ret' = Reply("create", NULL, FALSE, oom)
  /\ UNCHANGED <<live, map>>

Insert(k, v) ==
  /\ live
  /\ map' = Bind(map, k, v)
  /\ ret' = Reply("insert", k, TRUE, FALSE)
  /\ UNCHANGED live

InsertRefused(k, oom) ==
  /\ live
  /\ k \in BadKeys \/ oom \/ MayRefuse
  /\ ret' = Reply("insert", k, FALSE, oom)
  /\ UNCHANGED <<live, map>>

Find(k) ==
  /\ live
  /\ ret' = Reply("find", k, IF k \in DOMAIN map THEN map[k] ELSE NULL, FALSE)
  /\ UNCHANGED <<live, map>>

Remove(k) ==
  /\ live
  /\ map' = Unbind(map, k)
  /\ ret' = Reply("remove", k, k \in DOMAIN map, FALSE)
  /\ UNCHANGED live

Clear ==
  /\ live
  /\ map' = NoKeys
  /\ ret' = Reply("clear", NULL, NULL, FALSE)
  /\ UNCHANGED live

Destroy ==
  /\ live
  /\ live' = FALSE
  /\ map' = NoKeys
  /\ ret' = Reply("destroy", NULL, NULL, FALSE)

Next ==
  \/ Create
  \/ \E oom \in BOOLEAN : CreateRefused(oom)
  \/ \E k \in Keys, v \in Values : Insert(k, v)
  \/ \E k \in Keys \cup BadKeys, oom \in BOOLEAN : InsertRefused(k, oom)
  \/ \E k \in Keys \cup BadKeys : Find(k) \/ Remove(k)
  \/ Clear
  \/ Destroy

Spec == Init /\ [][Next]_vars
=============================================================================
