------------------------------- MODULE JobQueue -------------------------------
(***************************************************************************)
(* What the edge job endpoints promise to whoever queues jobs, without a   *)
(* store, messages or agents: a job is handed out once, and once more in   *)
(* return for each fault, a failed write of the server's file.  Whether    *)
(* the hand-out reached an agent, and whether the agent ran the job or     *)
(* dropped it, does not bring it back.  A job is reported as done only     *)
(* after it was run.  The server may lose all jobs at once.                *)
(***************************************************************************)
EXTENDS Naturals

CONSTANT AllJobs

VARIABLES
  handed,    \* how often each job was handed out
  inHand,    \* how many agents have each job and have not run it yet
  ran,       \* how often each job was run
  known,     \* the jobs the server has
  reported,  \* those it has as done
  faults     \* the faults so far

vars == <<handed, inHand, ran, known, reported, faults>>

Init ==
  /\ handed = [j \in AllJobs |-> 0]
  /\ inHand = [j \in AllJobs |-> 0]
  /\ ran = [j \in AllJobs |-> 0]
  /\ known = AllJobs
  /\ reported = {}
  /\ faults = 0

\* Any step of the server may come with a fault.
MayFault == faults' \in {faults, faults + 1}

\* The answer reaches an agent or is lost.
HandOut(j) ==
  /\ j \in known
  /\ handed[j] <= faults
  /\ handed' = [handed EXCEPT ![j] = handed[j] + 1]
  /\ inHand' \in {inHand, [inHand EXCEPT ![j] = inHand[j] + 1]}
  /\ MayFault
  /\ UNCHANGED <<ran, known, reported>>

Run(j) ==
  /\ inHand[j] > 0
  /\ inHand' = [inHand EXCEPT ![j] = inHand[j] - 1]
  /\ ran' = [ran EXCEPT ![j] = ran[j] + 1]
  /\ UNCHANGED <<handed, known, reported, faults>>

\* The agent gives the job up or dies: the server never learns of it.
Drop(j) ==
  /\ inHand[j] > 0
  /\ inHand' = [inHand EXCEPT ![j] = inHand[j] - 1]
  /\ UNCHANGED <<handed, ran, known, reported, faults>>

Report(j) ==
  /\ j \in known /\ ran[j] > 0
  /\ reported' = reported \cup {j}
  /\ MayFault
  /\ UNCHANGED <<handed, inHand, ran, known>>

\* The server comes back without some of the reports, if a fault lost them.
Forget ==
  /\ faults > 0
  /\ reported' \in SUBSET reported
  /\ UNCHANGED <<handed, inHand, ran, known, faults>>

\* The server comes back from a file it cannot read.
Wipe ==
  /\ known' = {} /\ reported' = {}
  /\ MayFault
  /\ UNCHANGED <<handed, inHand, ran>>

Fault == MayFault /\ UNCHANGED <<handed, inHand, ran, known, reported>>

Next ==
  \/ \E j \in AllJobs : HandOut(j) \/ Run(j) \/ Drop(j) \/ Report(j)
  \/ Forget
  \/ Wipe
  \/ Fault

Spec == Init /\ [][Next]_vars
==============================================================================
