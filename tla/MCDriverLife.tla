---------------------------- MODULE MCDriverLife ----------------------------
(***************************************************************************)
(* The instance of DriverLife for TLC.                                     *)
(***************************************************************************)
EXTENDS DriverLife, TLC

CONSTANTS t1, t2

Two == {t1, t2}
=============================================================================
