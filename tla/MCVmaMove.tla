----------------------------- MODULE MCVmaMove -----------------------------
(***************************************************************************)
(* Instances of VmaMove for TLC.                                           *)
(***************************************************************************)
EXTENDS VmaMove, TLC

CONSTANTS t1, i1, i2, i3, x, y

One == {t1}
Structs == {i1, i2, i3}
Contents == {x, y}
Symmetric == Permutations(Structs) \cup Permutations(Contents)
=============================================================================
