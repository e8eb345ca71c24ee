---------------------------- MODULE CashashTypes ----------------------------
(***************************************************************************)
(* What the two backends and the abstract map share: the keys and values   *)
(* a caller passes to the public API of cashash.h, and the record a call   *)
(* leaves behind for the caller to see.                                    *)
(***************************************************************************)
EXTENDS Integers

CONSTANTS
  Keys,      \* the distinct byte strings a caller uses as keys
  BadKeys,   \* keys the backend rejects on entry (no data, or no length)
  Values,    \* the void * values a caller stores
  NULL       \* the null pointer

ASSUME KeyAssumption == /\ Keys \cap BadKeys = {}
                        /\ NULL \notin Keys \cup BadKeys

(***************************************************************************)
(* The outcome of the last API call: which call, on which key, what it     *)
(* returned, and (a history field) whether an allocation failed inside it. *)
(***************************************************************************)
Reply(op, key, result, oom) ==
  [op |-> op, key |-> key, result |-> result, oom |-> oom]

NoReply == Reply("none", NULL, NULL, FALSE)

Replies ==
  [op     : {"none", "create", "insert", "find", "remove", "clear", "destroy"},
   key    : Keys \cup BadKeys \cup {NULL},
   result : Values \cup {NULL} \cup BOOLEAN,
   oom    : BOOLEAN]
=============================================================================
