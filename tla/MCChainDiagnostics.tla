------------------------- MODULE MCChainDiagnostics -------------------------
(***************************************************************************)
(* A small instance of ChainDiagnostics for TLC.                           *)
(***************************************************************************)
EXTENDS ChainDiagnostics, TLC

CONSTANTS n1, n2, n3

\* With two buckets n1 and n2 belong into the same one.
NodeHash == n1 :> 0 @@ n2 :> 2 @@ n3 :> 3
=============================================================================
