---------------------------- MODULE MCOAIterator ----------------------------
(***************************************************************************)
(* Small instances of OAIterator for TLC.                                  *)
(***************************************************************************)
EXTENDS OAIterator, TLC

CONSTANTS k1, k2, k3, v1, bad

\* k1 and k2 collide in every table; k2 and k3 change places as it grows.
IteratedHash == k1 :> 7 @@ k2 :> 15 @@ k3 :> 4
=============================================================================
