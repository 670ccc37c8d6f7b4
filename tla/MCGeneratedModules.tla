-------------------------- MODULE MCGeneratedModules --------------------------
(***************************************************************************)
(* Instances of the generated modules for TLC.                             *)
(***************************************************************************)
EXTENDS GeneratedModules, TLC

CONSTANTS b1, b2

\* The second title has the prefix the first one is given.
MCTitleOf ==
  (b1 :> <<"leave", "approval">>) @@ (b2 :> <<"oae", "leave", "approval">>)
==============================================================================
