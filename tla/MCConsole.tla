------------------------------- MODULE MCConsole -------------------------------
(***************************************************************************)
(* Instances of the console for TLC.                                       *)
(***************************************************************************)
EXTENDS Console

\* The path the composer asks for.
MCPaths == {<<"sandbox", "staging", "production">>}
==============================================================================
