---------------------------- MODULE MCEventStream ----------------------------
(***************************************************************************)
(* Instances of the event stream for TLC.                                  *)
(***************************************************************************)
EXTENDS EventStream

CONSTANTS b1, b2
==============================================================================
