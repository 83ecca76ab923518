----------------------------- MODULE MCCpuLeases -----------------------------
(* Instances of CpuLeases for TLC.  The constants are given in the .cfg files. *)
EXTENDS CpuLeases
=============================================================================
