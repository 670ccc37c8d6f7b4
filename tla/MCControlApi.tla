----------------------------- MODULE MCControlApi -----------------------------
(***************************************************************************)
(* Instances of the control API for TLC.                                   *)
(***************************************************************************)
EXTENDS ControlApiProps, TLC

\* The path the console composes.
ConsolePath == <<"sandbox", "staging", "production">>
MCPaths == {ConsolePath}
MCSymmetry == Permutations(Builds)
==============================================================================
