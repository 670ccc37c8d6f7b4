-------------------------- MODULE MCRunnerSupervisor --------------------------
(***************************************************************************)
(* Instances of the runner supervisor for TLC: two or three runs, and      *)
(* delays in the order of the code's.                                      *)
(***************************************************************************)
EXTENDS RunnerSupervisor

CONSTANTS r1, r2, r3
==============================================================================
