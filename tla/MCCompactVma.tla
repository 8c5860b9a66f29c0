---------------------------- MODULE MCCompactVma ----------------------------
(***************************************************************************)
(* Values of the constants of CompactVma for TLC.                          *)
(***************************************************************************)
EXTENDS CompactVma

AllFaults == {"copy_in", "remap", "copy_out"}
=============================================================================
