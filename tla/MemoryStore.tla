----------------------------- MODULE MemoryStore -----------------------------
(***************************************************************************)
(* The store of the control API (apps/control-api/src/store): one operator *)
(* for each method of class MemoryStore that changes it.  A store is a     *)
(* record; a method maps a store to the store it leaves behind.  Every     *)
(* method also writes the whole store to the snapshot file, which is why   *)
(* ControlApi keeps the sequence of stores a handler goes through.         *)
(*                                                                         *)
(* Maps from ids to records become functions (builds, events) or sequences *)
(* in order of insertion (deployments, edge jobs), so that a deployment's  *)
(* or a job's id is its position.  Plans, specs, previews and artifacts    *)
(* are kept as whether, or how many, are there.                            *)
(***************************************************************************)
EXTENDS Naturals, Sequences, PolicyEngine, Promotion

CONSTANTS
  Builds,       \* ids a build request may be given
  Workspaces,   \* workspaces builds and edge agents belong to
  Agents,       \* ids edge agents poll with
  Nobody        \* an edge job's claimedBy before it is claimed

ASSUME StoreAssumption == Nobody \notin Agents /\ Workspaces # {}

BuildStatuses ==
  {"draft", "queued", "planning", "awaiting_scope_review", "running", "failed",
   "awaiting_approval", "approved", "rejected", "deployed"}

TestStatuses == {"not_started", "running", "passed", "failed"}

DeploymentStatuses == {"queued", "running", "succeeded", "failed", "rolled_back"}

Modes == {"managed_api", "chatgpt_edge"}

Decisions == {"approve", "reject", "request_changes"}

\* The kinds of build event the handlers write.
EventKinds ==
  {"queued", "planning", "spec", "compiling", "policy", "handed_to_edge",
   "tested", "indexed", "failed", "deployed"} \cup Decisions

\* status "absent" stands for an id the builds map does not hold.
BuildRecords ==
  [status : BuildStatuses \cup {"absent"}, mode : Modes, workspace : Workspaces,
   path : Seq(Environments), tests : TestStatuses, artifacts : Nat,
   findings : SUBSET Findings, planned : BOOLEAN, specified : BOOLEAN,
   previewed : BOOLEAN]

ApprovalRecords == [build : Builds, action : Decisions]

DeploymentRecords == [build : Builds, env : Environments, status : DeploymentStatuses]

EdgeJobRecords ==
  [workspace : Workspaces, build : Builds,
   status : {"queued", "claimed", "succeeded", "failed"},
   claimedBy : Agents \cup {Nobody}]

Stores ==
  [builds : [Builds -> BuildRecords], events : [Builds -> Seq(EventKinds)],
   approvals : Seq(ApprovalRecords), deployments : Seq(DeploymentRecords),
   edgeJobs : Seq(EdgeJobRecords)]

NewBuild(status, mode, workspace, path) ==
  [status |-> status, mode |-> mode, workspace |-> workspace, path |-> path,
   tests |-> "not_started", artifacts |-> 0, findings |-> {},
   planned |-> FALSE, specified |-> FALSE, previewed |-> FALSE]

\* A store after seedDefaults, which creates no build, approval or job.
EmptyStore ==
  [builds |-> [b \in Builds |->
                 NewBuild("absent", "managed_api", CHOOSE w \in Workspaces : TRUE, <<>>)],
   events |-> [b \in Builds |-> <<>>],
   approvals |-> <<>>, deployments |-> <<>>, edgeJobs |-> <<>>]


\* Whether the builds map holds a record.
Held(build) == build.status # "absent"

Known(st, b) == Held(st.builds[b])

------------------------------------------------------------------------------
\* Builds.  Every setter leaves an id that the map does not hold alone.

CreateBuild(st, b, mode, workspace, path) ==
  [st EXCEPT !.builds[b] = NewBuild("queued", mode, workspace, path)]

UpdateBuildStatus(st, b, status) ==
  [st EXCEPT !.builds[b] = IF Held(@) THEN [@ EXCEPT !.status = status] ELSE @]

SetBuildPlan(st, b) ==
  [st EXCEPT !.builds[b] = IF Held(@) THEN [@ EXCEPT !.planned = TRUE] ELSE @]

SetBuildSpec(st, b) ==
  [st EXCEPT !.builds[b] = IF Held(@) THEN [@ EXCEPT !.specified = TRUE] ELSE @]

SetBuildFindings(st, b, findings) ==
  [st EXCEPT !.builds[b] = IF Held(@) THEN [@ EXCEPT !.findings = findings] ELSE @]

\* n successive calls of addArtifact.
AddArtifacts(st, b, n) ==
  [st EXCEPT !.builds[b] =
     IF Held(@) THEN [@ EXCEPT !.artifacts = st.builds[b].artifacts + n] ELSE @]

SetTestStatus(st, b, status) ==
  [st EXCEPT !.builds[b] = IF Held(@) THEN [@ EXCEPT !.tests = status] ELSE @]

SetPreviews(st, b) ==
  [st EXCEPT !.builds[b] = IF Held(@) THEN [@ EXCEPT !.previewed = TRUE] ELSE @]

\* Mutant: the list of events is replaced, not extended.
Mutant_AddBuildEvent(st, b, kind) == [st EXCEPT !.events[b] = <<kind>>]

AddBuildEvent(st, b, kind) == [st EXCEPT !.events[b] = Append(@, kind)]

------------------------------------------------------------------------------
\* Approvals and deployments

AddApproval(st, b, action) ==
  [st EXCEPT !.approvals = Append(@, [build |-> b, action |-> action])]

CreateDeployment(st, b, env) ==
  [st EXCEPT !.deployments =
     Append(@, [build |-> b, env |-> env, status |-> "queued"])]

UpdateDeploymentStatus(st, d, status) ==
  IF d \in DOMAIN st.deployments
  THEN [st EXCEPT !.deployments[d].status = status] ELSE st

------------------------------------------------------------------------------
\* Edge jobs

CreateEdgeJob(st, workspace, b) ==
  [st EXCEPT !.edgeJobs =
     Append(@, [workspace |-> workspace, build |-> b, status |-> "queued",
                claimedBy |-> Nobody])]

\* Mutant: every job that has no result yet.
Mutant_QueuedJobs(st, workspace) ==
  {j \in DOMAIN st.edgeJobs :
     /\ st.edgeJobs[j].workspace = workspace
     /\ st.edgeJobs[j].status \in {"queued", "claimed"}}

\* Mutant: the status is asked of the workspace's first job only.
Mutant_QueuedJobsFirst(st, workspace) ==
  {j \in DOMAIN st.edgeJobs :
     /\ st.edgeJobs[j].workspace = workspace /\ st.edgeJobs[j].status = "queued"
     /\ \A k \in 1 .. j - 1 : st.edgeJobs[k].workspace # workspace}

QueuedJobs(st, workspace) ==
  {j \in DOMAIN st.edgeJobs :
     st.edgeJobs[j].workspace = workspace /\ st.edgeJobs[j].status = "queued"}

\* Mutant: the newest queued job first.
Mutant_NextJob(st, workspace) ==
  CHOOSE j \in QueuedJobs(st, workspace) :
    \A k \in QueuedJobs(st, workspace) : k <= j

\* The first queued job of the workspace, in order of insertion.
NextJob(st, workspace) ==
  CHOOSE j \in QueuedJobs(st, workspace) :
    \A k \in QueuedJobs(st, workspace) : j <= k

\* Mutant: the job is given a status that jobs do not have.
Mutant_ClaimEdgeJob(st, workspace, agent) ==
  [st EXCEPT !.edgeJobs[NextJob(st, workspace)] =
     [@ EXCEPT !.status = "running", !.claimedBy = agent]]

ClaimEdgeJob(st, workspace, agent) ==
  IF QueuedJobs(st, workspace) = {} THEN st
  ELSE [st EXCEPT !.edgeJobs[NextJob(st, workspace)] =
          [@ EXCEPT !.status = "claimed", !.claimedBy = agent]]

\* Mutant: a job that failed is queued again.
Mutant_CompleteEdgeJob(st, j, status) ==
  [st EXCEPT !.edgeJobs[j].status = IF status = "failed" THEN "queued" ELSE status]

\* No look at the job's status or at who claimed it.
CompleteEdgeJob(st, j, status) ==
  IF j \in DOMAIN st.edgeJobs THEN [st EXCEPT !.edgeJobs[j].status = status] ELSE st
==============================================================================
