------------------------------ MODULE ControlApi ------------------------------
(***************************************************************************)
(* The control API (apps/control-api): the handlers that create, review,   *)
(* deploy and roll back builds and hand jobs to edge agents, the store they*)
(* share, and the snapshot file the store is written to.                   *)
(*                                                                         *)
(* Node runs one handler at a time up to its next await, so a segment of a *)
(* handler between two awaits is one step for every other handler.  It is  *)
(* not one step for the file: each store method writes a snapshot, and the *)
(* process may die between two of them.  A segment is therefore given as   *)
(* its trail, the sequence of stores after each of its store calls.        *)
(***************************************************************************)
EXTENDS MemoryStore

CONSTANTS
  RequestModes,    \* execution modes requests ask for
  Paths,           \* deployment paths requests ask for
  Profile,         \* config.policyProfileDefault
  NumArtifacts,    \* artifacts of a build (8 in the code)
  Torn,            \* a snapshot file that does not parse
  TornWrites,      \* whether a write can leave the file torn
  MaxDecisions, MaxDeployments, MaxJobs,   \* bounds on the model's requests
  MaxCrashes,      \* bound on the crashes of the process
  MaxLostWrites    \* bound on the segments with a snapshot write that fails

ASSUME ControlApiAssumption ==
  /\ RequestModes \subseteq Modes
  /\ Paths \subseteq Seq(Environments)
  /\ Profile \in Profiles
  /\ NumArtifacts \in Nat \ {0}
  /\ TornWrites \in BOOLEAN
  /\ MaxDecisions \in Nat /\ MaxDeployments \in Nat /\ MaxJobs \in Nat
  /\ MaxCrashes \in Nat /\ MaxLostWrites \in Nat

\* A file that does not parse is no snapshot of a store.
ASSUME TornAssumption == Torn \notin Stores

VARIABLES
  store,        \* the store in memory; its last contents while the process is down
  flight,       \* what the create handler of each build is awaiting
  disk,         \* the snapshot file
  up,           \* whether the process runs
  crashes,      \* how often the process died
  lostWrites    \* in how many segments a snapshot write failed

vars == <<store, flight, disk, up, crashes, lostWrites>>

\* "compiling": compileCustomizationSpec and the stat of its artifacts;
\* "reading": the readFile of the generated files.
Awaits == {"none", "compiling", "reading"}

TypeOK ==
  /\ store \in Stores
  /\ flight \in [Builds -> Awaits]
  /\ disk = Torn \/ disk \in Stores
  /\ up \in BOOLEAN
  /\ crashes \in 0 .. MaxCrashes
  /\ lostWrites \in 0 .. MaxLostWrites

------------------------------------------------------------------------------
\* Segments

TornImages == IF TornWrites THEN {Torn} ELSE {}

Last(trail) == trail[Len(trail)]

\* Mutant: the write is left to a timer, which a crash may come before.
Mutant_Persist(trail) == disk' \in {disk, Last(trail)} /\ UNCHANGED lostWrites

\* persistSnapshot after every call.  It swallows errors: when the last writes
\* of a segment fail, the file keeps an older image or is left torn.
Persist(trail) ==
  \/ /\ disk' = Last(trail)
     /\ UNCHANGED lostWrites
  \/ /\ lostWrites < MaxLostWrites
     /\ lostWrites' = lostWrites + 1
     /\ disk' \in {disk} \cup {trail[k] : k \in 1 .. Len(trail) - 1} \cup TornImages

Completes(trail, awaiting) ==
  /\ store' = Last(trail)
  /\ flight' = awaiting
  /\ Persist(trail)
  /\ UNCHANGED <<up, crashes>>

\* The process dies after, or while, writing the k-th snapshot of a segment.
DiesDuring(trail) ==
  /\ crashes < MaxCrashes
  /\ crashes' = crashes + 1
  /\ up' = FALSE
  /\ flight' = [b \in Builds |-> "none"]
  /\ \E k \in 1 .. Len(trail) :
       /\ store' = trail[k]
       /\ disk' \in {trail[k]} \cup TornImages
  /\ UNCHANGED lostWrites

Segment(trail, awaiting) ==
  /\ up
  /\ Completes(trail, awaiting) \/ DiesDuring(trail)

Awaiting(b, what) == [flight EXCEPT ![b] = what]

------------------------------------------------------------------------------
\* POST /builds: from the request to the first await

IntakeTrail(b, mode, workspace, path) ==
  LET created    == CreateBuild(store, b, mode, workspace, path)
      queued     == AddBuildEvent(created, b, "queued")
      planning   == UpdateBuildStatus(queued, b, "planning")
      announced  == AddBuildEvent(planning, b, "planning")
      planned    == SetBuildPlan(announced, b)
      specified  == SetBuildSpec(planned, b)
      generated  == AddBuildEvent(specified, b, "spec")
      running    == UpdateBuildStatus(generated, b, "running")
      testing    == SetTestStatus(running, b, "running")
      compiling  == AddBuildEvent(testing, b, "compiling")
  IN  <<created, queued, planning, announced, planned, specified, generated,
        running, testing, compiling>>

RequestBuild(b, mode, workspace, path) ==
  /\ ~Known(store, b)
  /\ Segment(IntakeTrail(b, mode, workspace, path), Awaiting(b, "compiling"))

\* The loop of addArtifact once the generated artifacts have been looked up.
IndexTrail(b) == [k \in 1 .. NumArtifacts |-> AddArtifacts(store, b, k)]

IndexArtifacts(b) ==
  /\ flight[b] = "compiling"
  /\ Segment(IndexTrail(b), Awaiting(b, "reading"))

\* setBuildFindings, then the events of the findings, all of them in one call.
PolicyTrail(b, elevated) ==
  LET findings == EvaluateBuildPolicy(Profile, CandidateFiles, elevated)
      recorded == SetBuildFindings(store, b, findings)
  IN  <<recorded,
        IF findings = {} THEN recorded ELSE AddBuildEvent(recorded, b, "policy")>>

\* Mutant: the build is offered before the preview is linked.
Mutant_ManagedTrail(b, elevated) ==
  LET policy    == PolicyTrail(b, elevated)
      passed    == SetTestStatus(Last(policy), b, "passed")
      offered   == UpdateBuildStatus(passed, b, "awaiting_approval")
      previewed == SetPreviews(offered, b)
      indexed   == AddBuildEvent(previewed, b, "indexed")
  IN  policy \o <<passed, offered, previewed, indexed>>

\* Mutant: the build is never offered.
Mutant_ManagedTrailStays(b, elevated) ==
  LET policy    == PolicyTrail(b, elevated)
      passed    == SetTestStatus(Last(policy), b, "passed")
  IN  policy \o <<passed, SetPreviews(passed, b)>>

\* A managed build is complete: tests are taken as passed, the preview is
\* linked, and only then is the build offered for approval.
ManagedTrail(b, elevated) ==
  LET policy    == PolicyTrail(b, elevated)
      passed    == SetTestStatus(Last(policy), b, "passed")
      previewed == SetPreviews(passed, b)
      offered   == UpdateBuildStatus(previewed, b, "awaiting_approval")
      tested    == AddBuildEvent(offered, b, "tested")
      indexed   == AddBuildEvent(tested, b, "indexed")
  IN  policy \o <<passed, previewed, offered, tested, indexed>>

FinishManaged(b) ==
  /\ flight[b] = "reading"
  /\ store.builds[b].mode # "chatgpt_edge"
  /\ \E elevated \in BOOLEAN :
       Segment(ManagedTrail(b, elevated), Awaiting(b, "none"))

\* Mutant: the job is queued for the workspace of another request.
Mutant_EdgeTrail(b, elevated) ==
  LET policy     == PolicyTrail(b, elevated)
      handed     == CreateEdgeJob(Last(policy), CHOOSE w \in Workspaces : TRUE, b)
      untested   == SetTestStatus(handed, b, "not_started")
      queued     == UpdateBuildStatus(untested, b, "queued")
  IN  policy \o <<handed, untested, queued>>

\* An edge build goes back to the queue with a job for an agent.
EdgeTrail(b, elevated) ==
  LET policy     == PolicyTrail(b, elevated)
      handed     == CreateEdgeJob(Last(policy), store.builds[b].workspace, b)
      untested   == SetTestStatus(handed, b, "not_started")
      queued     == UpdateBuildStatus(untested, b, "queued")
      announced  == AddBuildEvent(queued, b, "handed_to_edge")
  IN  policy \o <<handed, untested, queued, announced>>

FinishEdge(b) ==
  /\ flight[b] = "reading"
  /\ store.builds[b].mode = "chatgpt_edge"
  /\ \E elevated \in BOOLEAN :
       Segment(EdgeTrail(b, elevated), Awaiting(b, "none"))

\* The catch of the create handler: an await was rejected.
FailTrail(b) ==
  LET failed     == UpdateBuildStatus(store, b, "failed")
      testFailed == SetTestStatus(failed, b, "failed")
      announced  == AddBuildEvent(testFailed, b, "failed")
  IN  <<failed, testFailed, announced>>

FailBuild(b) ==
  /\ flight[b] # "none"
  /\ Segment(FailTrail(b), Awaiting(b, "none"))

------------------------------------------------------------------------------
\* Review: approve, reject and request-changes look at nothing but that the
\* build exists.

\* Mutant: the request for changes falls through to the approval.
Mutant_DecidedStatus(action) == IF action = "reject" THEN "rejected" ELSE "approved"

\* Mutant: the status is given the name the event has.
Mutant_DecidedStatusName(action) ==
  IF action = "request_changes" THEN "changes_requested" ELSE "approved"

DecidedStatus(action) ==
  CASE action = "approve" -> "approved"
    [] action = "reject" -> "rejected"
    [] action = "request_changes" -> "awaiting_scope_review"

\* Mutant: the record of the decision is left to the event.
Mutant_ReviewTrail(b, action) ==
  LET decided == UpdateBuildStatus(store, b, DecidedStatus(action))
  IN  <<decided, AddBuildEvent(decided, b, action)>>

ReviewTrail(b, action) ==
  LET decided   == UpdateBuildStatus(store, b, DecidedStatus(action))
      recorded  == AddApproval(decided, b, action)
      announced == AddBuildEvent(recorded, b, action)
  IN  <<decided, recorded, announced>>

Review(b, action) ==
  /\ Known(store, b)
  /\ Len(store.approvals) < MaxDecisions
  /\ Segment(ReviewTrail(b, action), flight)

------------------------------------------------------------------------------
\* Deployment and rollback

\* What the deploy handler asks before it deploys.
\* Mutant: staging counts as unprotected.
Mutant_MayDeploy(b, env) ==
  /\ Known(store, b)
  /\ env = "production" => store.builds[b].status = "approved"
  /\ ValidatePromotionPath(store.builds[b].path, env)

MayDeploy(b, env) ==
  /\ Known(store, b)
  /\ env \in ProtectedEnvironments => store.builds[b].status = "approved"
  /\ ValidatePromotionPath(store.builds[b].path, env)

\* Mutant: a production release leaves the build approved.
Mutant_DeployTrail(b, env) ==
  LET requested == CreateDeployment(store, b, env)
      succeeded == UpdateDeploymentStatus(requested, Len(store.deployments) + 1, "succeeded")
  IN  <<requested, succeeded, AddBuildEvent(succeeded, b, "deployed")>>

\* Mutant: the build is marked before its deployment is created.
Mutant_DeployTrailOrder(b, env) ==
  LET marked    == IF env = "production"
                   THEN UpdateBuildStatus(store, b, "deployed") ELSE store
      requested == CreateDeployment(marked, b, env)
      succeeded == UpdateDeploymentStatus(requested, Len(store.deployments) + 1, "succeeded")
  IN  <<marked, requested, succeeded, AddBuildEvent(succeeded, b, "deployed")>>

\* The lines it appends to the deployment's log are left out.
DeployTrail(b, env) ==
  LET d         == Len(store.deployments) + 1
      requested == CreateDeployment(store, b, env)
      running   == UpdateDeploymentStatus(requested, d, "running")
      succeeded == UpdateDeploymentStatus(running, d, "succeeded")
      marked    == IF env = "production"
                   THEN UpdateBuildStatus(succeeded, b, "deployed") ELSE succeeded
      announced == AddBuildEvent(marked, b, "deployed")
  IN  <<requested, running, succeeded, marked, announced>>

Deploy(b, env) ==
  /\ MayDeploy(b, env)
  /\ Len(store.deployments) < MaxDeployments
  /\ Segment(DeployTrail(b, env), flight)

\* Any deployment can be rolled back, whatever its status; the build's own
\* status stays as it is.
Rollback(d) ==
  Segment(<<UpdateDeploymentStatus(store, d, "rolled_back")>>, flight)

------------------------------------------------------------------------------
\* Edge jobs

\* The build id of the request is not looked up.
EnqueueJob(workspace, b) ==
  /\ Len(store.edgeJobs) < MaxJobs
  /\ Segment(<<CreateEdgeJob(store, workspace, b)>>, flight)

ClaimJob(workspace, agent) ==
  /\ QueuedJobs(store, workspace) # {}
  /\ Segment(<<ClaimEdgeJob(store, workspace, agent)>>, flight)

CompleteJob(j, outcome) ==
  Segment(<<CompleteEdgeJob(store, j, outcome)>>, flight)

------------------------------------------------------------------------------
\* Crash and restart

\* The process dies between two segments, which ends every handler that awaits.  A
\* completed write stays: a power loss that takes writes the system had not synced yet
\* is, for the file, those writes having failed (Persist) before the crash.
Crash ==
  /\ up
  /\ crashes < MaxCrashes
  /\ crashes' = crashes + 1
  /\ up' = FALSE
  /\ flight' = [b \in Builds |-> "none"]
  /\ UNCHANGED <<store, disk, lostWrites>>

\* Mutant: a restart begins from the defaults.
Mutant_Restart ==
  /\ ~up
  /\ up' = TRUE
  /\ store' = EmptyStore /\ disk' = EmptyStore
  /\ UNCHANGED <<flight, crashes, lostWrites>>

\* The constructor of MemoryStore: the snapshot, or the defaults if it cannot
\* be read, which are written over it at once.
Restart ==
  /\ ~up
  /\ up' = TRUE
  /\ \/ /\ disk # Torn
        /\ store' = disk
        /\ UNCHANGED <<disk, lostWrites>>
     \/ /\ disk = Torn
        /\ store' = EmptyStore
        /\ Persist(<<EmptyStore>>)
  /\ UNCHANGED <<flight, crashes>>

Init ==
  /\ store = EmptyStore
  /\ flight = [b \in Builds |-> "none"]
  /\ disk = EmptyStore
  /\ up = TRUE
  /\ crashes = 0
  /\ lostWrites = 0

Progress(b) == FailBuild(b) \/ IndexArtifacts(b) \/ FinishManaged(b) \/ FinishEdge(b)

Next ==
  \/ \E b \in Builds :
       \/ \E mode \in RequestModes, workspace \in Workspaces, path \in Paths :
            RequestBuild(b, mode, workspace, path)
       \/ Progress(b)
       \/ \E action \in Decisions : Review(b, action)
       \/ \E env \in Environments : Deploy(b, env)
       \/ \E workspace \in Workspaces : EnqueueJob(workspace, b)
  \/ \E d \in DOMAIN store.deployments : Rollback(d)
  \/ \E workspace \in Workspaces, agent \in Agents : ClaimJob(workspace, agent)
  \/ \E j \in DOMAIN store.edgeJobs, outcome \in {"succeeded", "failed"} :
       CompleteJob(j, outcome)
  \/ Crash
  \/ Restart

\* Every await of the create handler is a file operation that Node settles one
\* way or the other, so a handler under way goes on while the process runs.  No
\* request is ever owed, and whether a dead process starts again is up to others.
Fairness == \A b \in Builds : WF_vars(Progress(b))

Spec == Init /\ [][Next]_vars /\ Fairness
==============================================================================
