---------------------------- MODULE MCAssetCheck ----------------------------
(***************************************************************************)
(* Small instances of AssetCheck, with one body at every path.             *)
(***************************************************************************)
EXTENDS AssetCheck, TLC

CONSTANT b1

SameContent == [p \in Paths |-> b1]
SameMD5 == [i \in Images |-> b1]

Symmetry == Permutations(Plays)
=============================================================================
