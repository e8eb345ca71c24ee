---------------------------- MODULE MCHashConfig ----------------------------
(***************************************************************************)
(* Small instances of HashConfig for TLC.                                  *)
(***************************************************************************)
EXTENDS HashConfig, TLC

CONSTANTS k1, k2, k3

KeyHash == k1 :> 1 @@ k2 :> 5 @@ k3 :> 2

\* Different seeds send a key to different buckets of 4, some of them not of 2.
SeededHash == [k \in Keys |-> [a \in Arguments |-> KeyHash[k] + a]]

Sizes == {1, 2}

\* XXH64 on an open-addressing table, announced or not.
OARequests ==
  [kind : {"OPEN_ADDRESSING"}, by : {"strategy"}, strategy : {"XXH64"},
   used : BOOLEAN, seed : {1}, bucket_count : Sizes]
  \cup
  [kind : {"OPEN_ADDRESSING"}, by : {"config"}, strategy : Strategies,
   hash : {"XXH64"}, used : BOOLEAN, seed : {1}, bucket_count : Sizes]

\* These; the calls that choose a hash function without an argument in any way;
\* and the one that announces XXH64 and a seed to the chaining backend.
StableRequests ==
  OARequests
  \cup
  [kind : Kinds, by : {"strategy"}, strategy : Strategies \ {"XXH64"},
   used : BOOLEAN, seed : {1}, bucket_count : Sizes]
  \cup
  [kind : Kinds, by : {"config"}, strategy : Strategies, hash : {"XXH3"},
   used : BOOLEAN, seed : {1}, bucket_count : Sizes]
  \cup
  [kind : {"CHAINING"}, by : {"config"}, strategy : {"XXH64"}, hash : {"XXH64"},
   used : {TRUE}, seed : {0, 1}, bucket_count : Sizes]

\* A chaining table created by naming XXH64 and a seed.
ChainByStrategy ==
  [kind : {"CHAINING"}, by : {"strategy"}, strategy : {"XXH64"},
   used : {TRUE}, seed : {1}, bucket_count : Sizes]
=============================================================================
