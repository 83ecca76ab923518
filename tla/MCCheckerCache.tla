--------------------------- MODULE MCCheckerCache ---------------------------
(* Instances of CheckerCache for TLC.  The constants are given in the .cfg.   *)
EXTENDS CheckerCache
=============================================================================
