-------------------------- MODULE MCChainIterator ---------------------------
(***************************************************************************)
(* Small instances of ChainIterator for TLC.                               *)
(***************************************************************************)
EXTENDS ChainIterator, TLC

CONSTANTS k1, k2, k3, k4, v1, bad

\* k1, k2 and k3 share a bucket of 2 and of 4; with 8 buckets k2 leaves it.
IteratedHash == k1 :> 1 @@ k2 :> 5 @@ k3 :> 9 @@ k4 :> 2
=============================================================================
