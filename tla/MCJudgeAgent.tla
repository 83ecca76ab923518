---------------------------- MODULE MCJudgeAgent ----------------------------
(* Instances of JudgeAgent for TLC.  The constants are given in the .cfg.     *)
EXTENDS JudgeAgent
=============================================================================
