----------------------------- MODULE MCOADouble -----------------------------
(***************************************************************************)
(* A small instance of OATable and of its diagnostics for TLC: tables that *)
(* probe by double hashing, with the default second hash (the constants of *)
(* the module) or with a second hash of the caller's. A table keeps the    *)
(* configuration of its creation, here the variable config. What           *)
(* OADiagnostics says of a table depends on neither second hash.           *)
(***************************************************************************)
EXTENDS OADiagnostics, TLC

CONSTANTS k1, k2, k3, k4, v1, bad

VARIABLE config

\* In 12 buckets the default second hash gives k1, k2 and k3 the step 6,
\* hence two slots, in 6 buckets the step 1.
DoubleHash == k1 :> 5 @@ k2 :> 5 @@ k3 :> 5 @@ k4 :> 1

\* A second hash with a zero residue, a common divisor and two coprime steps.
CustomSecondHash == k1 :> 12 @@ k2 :> 3 @@ k3 :> 2 @@ k4 :> 5

Custom == INSTANCE OATable
  WITH SecondHash <- CustomSecondHash, MaxBuckets <- 6, Requests <- {3, 5, 6}

DoubleInit == config \in {"default", "custom"} /\ Init

DoubleNext ==
  \/ config = "default" /\ Next /\ UNCHANGED config
  \/ config = "custom" /\ Custom!Next /\ UNCHANGED config

DoubleSpec == DoubleInit /\ [][DoubleNext]_<<vars, config>>

-----------------------------------------------------------------------------
(* A property of OATable, for the table's configuration.                   *)

\* Every entry stays on its key's probe path, which may miss most of the
\* array or wrap around it several times (cashash_oa.c:43-83).
EveryProbePathIntact ==
  IF config = "default" THEN ProbePathsIntact ELSE Custom!ProbePathsIntact
=============================================================================
