---------------------------- MODULE MCPidTable -----------------------------
(***************************************************************************)
(* The instance of PidTable for TLC: processes 1 and 3, which share one of *)
(* the two buckets.                                                        *)
(***************************************************************************)
EXTENDS PidTable, TLC

CONSTANTS p1, p2

Two == {p1, p2}
PidOfTwo == p1 :> 1 @@ p2 :> 3
=============================================================================
