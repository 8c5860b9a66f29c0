--------------------------- MODULE MCGroupAnswers ---------------------------
(***************************************************************************)
(* The instance of GroupAnswers for TLC: a mapped stack at 1 .. 2, that of *)
(* the leader at 4 .. 6.                                                   *)
(***************************************************************************)
EXTENDS GroupAnswers, TLC

CONSTANTS l, a, b

Three == {l, a, b}
Areas == {<<1, 3>>, <<4, 7>>}
Workers == Permutations({a, b})
=============================================================================
