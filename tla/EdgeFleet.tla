------------------------------ MODULE EdgeFleet ------------------------------
(***************************************************************************)
(* Edge agents (apps/edge-agent) against the job endpoints of the control  *)
(* API: every agent registers, then loops over heartbeat, poll, run,       *)
(* complete and a pause.  Requests and answers get lost, requests arrive   *)
(* late, agents die and start again under a new id, and the control API    *)
(* restarts from a snapshot that may miss writes or be torn, in which case *)
(* it knows no job any more while agents still hold some.                  *)
(*                                                                         *)
(* The store is that of MemoryStore with a queue filled beforehand: what   *)
(* enqueues jobs is in ControlApi.  An agent does nothing while it awaits  *)
(* an answer, so that a request that is answered, and its answer, are one  *)
(* step.                                                                   *)
(***************************************************************************)
EXTENDS MemoryStore, FiniteSets

CONSTANTS
  Hosts,            \* machines that run an edge agent
  WorkspaceOf,      \* config.workspaceId of each
  Queue,            \* workspaces of the jobs that are queued at first
  MaxStarts,        \* bound on the starts of an agent process
  MaxLosses,        \* bound on the requests that get no answer
  MaxLostWrites,    \* bound on the snapshot writes that fail
  MaxTears,         \* bound on the deaths of the control API in the midst of a write
  Torn              \* a snapshot file that does not parse

ASSUME FleetAssumption ==
  /\ WorkspaceOf \in [Hosts -> Workspaces]
  /\ Queue \in Seq(Workspaces)
  /\ Builds # {} /\ IsFiniteSet(Hosts)
  /\ MaxStarts \in Nat /\ MaxLosses \in Nat
  /\ MaxLostWrites \in Nat /\ MaxTears \in Nat
  /\ Hosts \X (1 .. MaxStarts) \subseteq Agents

ASSUME TornFileAssumption == Torn \notin Stores

VARIABLES
  store,        \* the store of the control API
  disk,         \* its snapshot file
  step,         \* where each agent process stands in main()
  starts,       \* how often it was started; with the host, the agent's id
  job,          \* the job it holds, 0 for none
  late,         \* requests without an answer that still may be handled
  ran,          \* how often each job was executed
  losses,       \* requests that got no answer so far
  lostWrites,   \* snapshot writes that failed so far
  tears,        \* deaths that left the file torn so far
  claims        \* history: how often the server handed out each job

vars == <<store, disk, step, starts, job, late, ran, losses, lostWrites, tears, claims>>

server == <<store, disk, lostWrites, tears, claims>>

Jobs == DOMAIN store.edgeJobs

\* The awaits of main() and executeJob, in their order; "register" to "free"
\* but "execute" await an answer.
Steps == {"down", "register", "online", "poll", "busy", "execute", "complete",
          "free", "rest"}

\* The requests whose handlers change something.  A heartbeat's keeps nothing.
Kept == {"register", "poll", "complete"}

\* nth tells the requests of one agent apart.
Requests == [what : Kept, agent : Agents, job : Nat, nth : Nat]

TypeOK ==
  /\ store \in Stores
  /\ disk = Torn \/ disk \in Stores
  /\ step \in [Hosts -> Steps]
  /\ starts \in [Hosts -> 0 .. MaxStarts]
  /\ job \in [Hosts -> Nat]
  /\ late \in SUBSET Requests
  /\ ran \in [1 .. Len(Queue) -> Nat] /\ claims \in [1 .. Len(Queue) -> Nat]
  /\ losses \in 0 .. MaxLosses
  /\ lostWrites \in 0 .. MaxLostWrites /\ tears \in 0 .. MaxTears

Init ==
  /\ store = [EmptyStore EXCEPT !.edgeJobs =
                [j \in 1 .. Len(Queue) |->
                   [workspace |-> Queue[j], build |-> CHOOSE b \in Builds : TRUE,
                    status |-> "queued", claimedBy |-> Nobody]]]
  /\ disk = store
  /\ step = [h \in Hosts |-> "down"]
  /\ starts = [h \in Hosts |-> 0]
  /\ job = [h \in Hosts |-> 0]
  /\ late = {}
  /\ ran = [j \in 1 .. Len(Queue) |-> 0]
  /\ claims = [j \in 1 .. Len(Queue) |-> 0]
  /\ losses = 0
  /\ lostWrites = 0 /\ tears = 0

------------------------------------------------------------------------------
\* The control API

Quiet == UNCHANGED server

\* A handler that changed the store writes a snapshot, and ignores a failure, which
\* leaves the file as it was or torn.  A process that dies in the midst of this
\* gives no answer and comes back by ServerRestart.
Serve(st) ==
  /\ store' = st
  /\ \/ disk' = st /\ UNCHANGED lostWrites
     \/ /\ lostWrites < MaxLostWrites
        /\ lostWrites' = lostWrites + 1
        /\ disk' \in {disk, Torn}
  /\ UNCHANGED tears

Claimed(j) == claims' = [claims EXCEPT ![j] = @ + 1]

\* Mutant: the claim is not written to the file.
Mutant_ServePoll(workspace, agent) ==
  /\ QueuedJobs(store, workspace) # {}
  /\ store' = ClaimEdgeJob(store, workspace, agent)
  /\ Claimed(NextJob(store, workspace))
  /\ UNCHANGED <<disk, lostWrites, tears>>

\* Nothing is written when no job waits.
ServePoll(workspace, agent) ==
  IF QueuedJobs(store, workspace) = {} THEN Quiet
  ELSE /\ Serve(ClaimEdgeJob(store, workspace, agent))
       /\ Claimed(NextJob(store, workspace))

\* A connection is added to a list that nothing here reads; the snapshot that is
\* written makes up for one that failed before.
ServeRegister == Serve(store) /\ UNCHANGED claims

\* 404 for a job the server does not know: nothing is written.
ServeComplete(j) ==
  IF j \in Jobs
  THEN Serve(CompleteEdgeJob(store, j, "succeeded")) /\ UNCHANGED claims
  ELSE Quiet

\* The process dies and reads its snapshot back.
RestartFromFile ==
  /\ disk # Torn /\ store # disk
  /\ store' = disk
  /\ UNCHANGED <<disk, lostWrites, tears, claims>>

\* The file is torn, or was just being written when the process died: it starts with
\* the defaults, without any job, and writes them.
RestartFromTornFile ==
  /\ \/ disk = Torn /\ UNCHANGED tears
     \/ tears < MaxTears /\ tears' = tears + 1
  /\ store' = EmptyStore
  /\ \/ disk' = EmptyStore /\ UNCHANGED lostWrites
     \/ /\ lostWrites < MaxLostWrites
        /\ lostWrites' = lostWrites + 1
        /\ disk' = Torn
  /\ UNCHANGED claims

ServerRestart ==
  /\ RestartFromFile \/ RestartFromTornFile
  /\ UNCHANGED <<step, starts, job, late, ran, losses>>

\* A request is handled after its agent gave up on the answer, or died.
HandleLate(r) ==
  /\ late' = late \ {r}
  /\ \/ r.what = "register" /\ ServeRegister
     \/ r.what = "poll" /\ ServePoll(WorkspaceOf[r.agent[1]], r.agent)
     \/ r.what = "complete" /\ ServeComplete(r.job)
  /\ UNCHANGED <<step, starts, job, ran, losses>>

------------------------------------------------------------------------------
\* The agent

AgentId(h) == <<h, starts[h]>>

Goto(h, where, held) ==
  /\ step' = [step EXCEPT ![h] = where]
  /\ job' = [job EXCEPT ![h] = held]

\* A request of h gets no answer: it is lost, or handled later on.
NoAnswer(h) ==
  /\ losses < MaxLosses
  /\ losses' = losses + 1
  /\ \/ UNCHANGED late
     \/ /\ step[h] \in Kept
        /\ late' = late \cup {[what |-> step[h], agent |-> AgentId(h), job |-> job[h],
                                nth |-> losses']}
  /\ Quiet

\* Mutant: the job is kept and tried again.
Mutant_GiveUp(h) ==
  /\ NoAnswer(h)
  /\ IF job[h] = 0 THEN Goto(h, "rest", 0) ELSE Goto(h, "execute", job[h])
  /\ UNCHANGED <<starts, ran>>

\* The catch of the loop: whatever the agent had in hand is dropped.
GiveUp(h) ==
  /\ NoAnswer(h)
  /\ Goto(h, "rest", 0)
  /\ UNCHANGED <<starts, ran>>

Start(h) ==
  /\ step[h] = "down" /\ starts[h] < MaxStarts
  /\ starts' = [starts EXCEPT ![h] = @ + 1]
  /\ Goto(h, "register", 0)
  /\ Quiet /\ UNCHANGED <<late, ran, losses>>

\* The only await outside the try: without an answer the process ends.
Register(h) ==
  /\ step[h] = "register"
  /\ \/ ServeRegister /\ Goto(h, "online", 0) /\ UNCHANGED <<late, losses>>
     \/ NoAnswer(h) /\ Goto(h, "down", 0)
  /\ UNCHANGED <<starts, ran>>

Heartbeat(h, where, then) ==
  /\ step[h] = where
  /\ \/ /\ Quiet /\ Goto(h, then, job[h])
        /\ UNCHANGED <<starts, late, ran, losses>>
     \/ GiveUp(h)

PollJob(h) ==
  /\ step[h] = "poll"
  /\ \/ /\ ServePoll(WorkspaceOf[h], AgentId(h))
        /\ IF QueuedJobs(store, WorkspaceOf[h]) = {} THEN Goto(h, "rest", 0)
           ELSE Goto(h, "busy", NextJob(store, WorkspaceOf[h]))
        /\ UNCHANGED <<starts, late, ran, losses>>
     \/ GiveUp(h)

\* Mutant: the agent reports the job before it has written its files.
Mutant_ExecuteJob(h) ==
  /\ step[h] = "execute"
  /\ ServeComplete(job[h])
  /\ Goto(h, "complete", job[h])
  /\ UNCHANGED <<starts, late, ran, losses>>

\* The directory and the two files of the job, or an error on the way.
ExecuteJob(h) ==
  /\ step[h] = "execute"
  /\ \/ /\ ran' = [ran EXCEPT ![job[h]] = @ + 1]
        /\ Goto(h, "complete", job[h])
     \/ /\ UNCHANGED ran
        /\ Goto(h, "rest", 0)
  /\ Quiet /\ UNCHANGED <<starts, late, losses>>

\* An answer 404 throws like a lost one, without a retry.
CompleteJob(h) ==
  /\ step[h] = "complete"
  /\ \/ /\ ServeComplete(job[h])
        /\ Goto(h, IF job[h] \in Jobs THEN "free" ELSE "rest", 0)
        /\ UNCHANGED <<starts, late, ran, losses>>
     \/ GiveUp(h)

\* The poll interval.
Rest(h) ==
  /\ step[h] = "rest"
  /\ Goto(h, "online", 0)
  /\ Quiet /\ UNCHANGED <<starts, late, ran, losses>>

\* The agent process dies, with or without its last request on the way.
Die(h) ==
  /\ step[h] # "down"
  /\ \/ NoAnswer(h)
     \/ Quiet /\ UNCHANGED <<late, losses>>
  /\ Goto(h, "down", 0)
  /\ UNCHANGED <<starts, ran>>

------------------------------------------------------------------------------

Loop(h) ==
  \/ Register(h)
  \/ Heartbeat(h, "online", "poll")
  \/ PollJob(h)
  \/ Heartbeat(h, "busy", "execute")
  \/ ExecuteJob(h)
  \/ CompleteJob(h)
  \/ Heartbeat(h, "free", "rest")
  \/ Rest(h)

Next ==
  \/ \E h \in Hosts : Start(h) \/ Loop(h) \/ Die(h)
  \/ \E r \in late : HandleLate(r)
  \/ ServerRestart

\* Every await of the agent ends, with an answer, an error or its timer.  That
\* an agent that died is started again is up to whoever runs it.
Spec == Init /\ [][Next]_vars /\ \A h \in Hosts : WF_vars(Loop(h))

------------------------------------------------------------------------------
\* Properties

\* While no snapshot write fails, a job the server knows is in hand only by a claim in
\* its agent's name that is still open, and no two agents ever have one job in hand:
\* whatever requests are lost or late, however agents die and return, and also when the
\* server forgot the jobs in a death that tore its file.
HeldByClaimant ==
  lostWrites = 0 =>
    /\ \A h \in Hosts :
         job[h] \in Jobs =>
           /\ store.edgeJobs[job[h]].status = "claimed"
           /\ store.edgeJobs[job[h]].claimedBy = AgentId(h)
    /\ \A g, h \in Hosts : job[g] # 0 /\ job[g] = job[h] => g = h

\* A job is run at most once, and once more for every snapshot write that failed: no
\* loss of messages, no crash of an agent and no torn file makes a job run again.
RunsAreBounded == \A j \in 1 .. Len(Queue) : ran[j] <= 1 + lostWrites

\* The server, or a file that can be read, has job j with that status.
Has(st, j, status) ==
  st # Torn /\ j \in DOMAIN st.edgeJobs /\ st.edgeJobs[j].status = status

\* A job that is reported as succeeded was run, in memory and in the file.
SucceededRan ==
  \A j \in 1 .. Len(Queue) :
    Has(store, j, "succeeded") \/ Has(disk, j, "succeeded") => ran[j] > 0

\* A queued job is handed out in the end, unless a torn file lost it or all agents of its
\* workspace are down: losses, errors and older jobs only delay it.
QueuedJobsMove ==
  \A j \in 1 .. Len(Queue) :
    Has(store, j, "queued")
      ~> \/ ~Has(store, j, "queued")
         \/ \A h \in Hosts : WorkspaceOf[h] = Queue[j] => step[h] = "down"

------------------------------------------------------------------------------
\* The abstract specification

\* The agents that have job j and have not run it yet.
Holders(j) == {h \in Hosts : job[h] = j /\ step[h] \in {"busy", "execute"}}

ReportedJobs == {j \in Jobs : Has(store, j, "succeeded")}

Promise == INSTANCE JobQueue WITH
  AllJobs  <- 1 .. Len(Queue),
  handed   <- claims,
  inHand   <- [j \in 1 .. Len(Queue) |-> Cardinality(Holders(j))],
  known    <- Jobs,
  reported <- ReportedJobs,
  faults   <- lostWrites

\* Agents, network and file together keep the promise of the job queue: whatever agents
\* die, requests get lost or are handled late, a job is handed out once, and again only
\* in return for a write of the file that failed; done means run; a torn file takes all
\* jobs and reports away and brings nothing back.
KeepsPromise == Promise!Spec
==============================================================================
