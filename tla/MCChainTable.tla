---------------------------- MODULE MCChainTable ----------------------------
(***************************************************************************)
(* Small instances of ChainTable for TLC.                                  *)
(***************************************************************************)
EXTENDS ChainTable, TLC

CONSTANTS k1, k2, k3, k4, v1, bad

\* k1, k2 and k3 share a bucket as long as there are at most 4; with 8 buckets
\* k2 leaves it.
CollidingHash == k1 :> 1 @@ k2 :> 5 @@ k3 :> 9 @@ k4 :> 2
=============================================================================
