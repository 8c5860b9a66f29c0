-------------------------- MODULE MCSharedCommand ---------------------------
(***************************************************************************)
(* The instance of SharedCommand for TLC.                                  *)
(***************************************************************************)
EXTENDS SharedCommand, TLC

CONSTANTS p1, p2, p3

Three == {p1, p2, p3}
Processes == Permutations(Three)
=============================================================================
