----------------------------- MODULE MCEdgeFleet -----------------------------
(***************************************************************************)
(* An instance of the edge agents for TLC.                                 *)
(***************************************************************************)
EXTENDS EdgeFleet

CONSTANTS b1, h1, h2, ws1, ws2

\* Two agents compete for the jobs of one workspace; nobody serves the other.
MCAgents == Hosts \X (1 .. MaxStarts)
MCWorkspaceOf == [h \in Hosts |-> ws1]
MCQueue == <<ws1, ws2, ws1>>
==============================================================================
