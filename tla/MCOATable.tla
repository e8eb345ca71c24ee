----------------------------- MODULE MCOATable ------------------------------
(***************************************************************************)
(* Small instances of OATable and of its diagnostics for TLC.              *)
(***************************************************************************)
EXTENDS OADiagnostics, TLC

CONSTANTS k1, k2, k3, k4, k5, k6, k7, v1, bad

\* Linear probing: k1, k2 and k3 hash to one residue of the small tables, k4
\* to their neighbour.
CollidingHash == k1 :> 7 @@ k2 :> 15 @@ k3 :> 7 @@ k4 :> 0

\* Quadratic probing: in 16 buckets k1 and k2 share the probe path 7, 8, 11,
\* 0, and k3, k4, k5 start on the rest of it. All five fit into 8 buckets.
QuadraticHash == k1 :> 7 @@ k2 :> 23 @@ k3 :> 8 @@ k4 :> 11 @@ k5 :> 0

\* Hash values just below SizeMod (2^14, which is 5 modulo 11, as is 2^64):
\* the last probes of k7 wrap around SIZE_MAX.
WrappingHash ==
  k1 :> 0 @@ k2 :> 1 @@ k3 :> 2 @@ k4 :> 3 @@ k5 :> 4 @@ k6 :> 5 @@ k7 :> 16379
=============================================================================
