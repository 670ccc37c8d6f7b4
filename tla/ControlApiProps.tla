--------------------------- MODULE ControlApiProps ---------------------------
(***************************************************************************)
(* What is claimed of the control API: the safety invariants, the action   *)
(* properties and the liveness property that the runs check, and the       *)
(* mapping under which the control API implements ReleaseGate.             *)
(***************************************************************************)
EXTENDS ControlApi, FiniteSets

------------------------------------------------------------------------------
\* Reading a store

\* The newest decision recorded for b is `action`.
Standing(st, b, action) ==
  \E i \in DOMAIN st.approvals :
    /\ st.approvals[i] = [build |-> b, action |-> action]
    /\ \A j \in DOMAIN st.approvals : j > i => st.approvals[j].build # b

Approvals(st, b) ==
  {i \in DOMAIN st.approvals : st.approvals[i] = [build |-> b, action |-> "approve"]}

DecisionsOn(st, b) == {i \in DOMAIN st.approvals : st.approvals[i].build = b}

DeploymentsOf(st, b) == {d \in DOMAIN st.deployments : st.deployments[d].build = b}

ProductionReleases(st, b) ==
  {d \in DeploymentsOf(st, b) : st.deployments[d].env = "production"}

\* Every build marked as deployed has a production release that went through.
ReleasedWhenDeployed(st) ==
  \A b \in Builds :
    st.builds[b].status = "deployed" =>
      \E d \in ProductionReleases(st, b) :
        st.deployments[d].status \in {"succeeded", "rolled_back"}

EventsOf(st, b, kinds) == {i \in DOMAIN st.events[b] : st.events[b][i] \in kinds}

\* 1 when b could be released to production now, 0 otherwise.
OpenReleases(st, b) == IF st.builds[b].status = "approved" THEN 1 ELSE 0

JobOf(st, b) ==
  \E j \in DOMAIN st.edgeJobs :
    /\ st.edgeJobs[j].build = b
    /\ st.edgeJobs[j].workspace = st.builds[b].workspace

\* How far an edge job has come.
Stage(job) ==
  CASE job.status = "queued" -> 0 [] job.status = "claimed" -> 1 [] OTHER -> 2

Extends(old, new) == Len(old) <= Len(new) /\ SubSeq(new, 1, Len(old)) = old

------------------------------------------------------------------------------
\* Safety invariants

\* An approval is good for one production release: every release to production,
\* and the release an approved build is open for, is paid for by an approve
\* record of its own.  A crash can cost one record: the handlers set the status
\* before they record the decision, and release before they use it up.
ReleaseBudget ==
  \A b \in Builds :
    Cardinality(ProductionReleases(store, b)) + OpenReleases(store, b)
      <= Cardinality(Approvals(store, b)) + crashes

\* While the process has not crashed, an approved build is one whose newest
\* recorded decision is to approve it: no rejection and no request for changes
\* has come after it, and none of the handlers approves on its own.
ApprovalStands ==
  crashes = 0 =>
    \A b \in Builds :
      store.builds[b].status = "approved" => Standing(store, b, "approve")

\* A build offered for approval has all a reviewer relies on: a plan, a spec,
\* every artifact, passed tests and the preview link, whatever crashes, lost
\* writes and restarts came between the handler's calls.
OfferedBuildIsComplete ==
  \A b \in Builds :
    store.builds[b].status = "awaiting_approval" =>
      /\ store.builds[b].planned /\ store.builds[b].specified
      /\ store.builds[b].previewed
      /\ store.builds[b].tests = "passed"
      /\ store.builds[b].artifacts = NumArtifacts

\* A build marked as deployed has a production deployment that went through (it
\* may have been rolled back since), in memory and after any restart.
DeployedHasRelease == ReleasedWhenDeployed(store)

\* The event stream is the audit trail of decisions and deployments: it holds no
\* event without its record, and the records it misses are no more than crashes.
AuditLagsByCrashes ==
  \A b \in Builds :
    LET decided  == Cardinality(EventsOf(store, b, Decisions))
        deployed == Cardinality(EventsOf(store, b, {"deployed"}))
        records  == Cardinality(DecisionsOn(store, b))
                      + Cardinality(DeploymentsOf(store, b))
    IN  /\ decided <= Cardinality(DecisionsOn(store, b))
        /\ deployed <= Cardinality(DeploymentsOf(store, b))
        /\ records <= decided + deployed + crashes

\* A create request that nobody reviewed while it ran, and that no crash cut
\* short, ends where its mode says: failed, or offered for approval when managed,
\* or queued with a job for an agent of its workspace when it runs at the edge.
UnreviewedOutcome ==
  crashes = 0 =>
    \A b \in Builds :
      Known(store, b) /\ flight[b] = "none" /\ DecisionsOn(store, b) = {} =>
        \/ store.builds[b].status = "failed"
        \/ /\ store.builds[b].status = "awaiting_approval"
           /\ store.builds[b].mode = "managed_api"
        \/ /\ store.builds[b].status = "queued"
           /\ store.builds[b].mode = "chatgpt_edge"
           /\ JobOf(store, b)

\* Agents get the jobs of a workspace in the order they were queued: no job is
\* out with an agent while an older one of its workspace still waits.
ClaimsInOrder ==
  \A i, j \in DOMAIN store.edgeJobs :
    /\ i < j
    /\ store.edgeJobs[i].workspace = store.edgeJobs[j].workspace
    /\ store.edgeJobs[j].status = "claimed"
    => store.edgeJobs[i].status # "queued"

------------------------------------------------------------------------------
\* Action properties

\* What the API has shown of a build's events, of decisions and of releases is not
\* taken back or reordered by this step.
HistoryGrows ==
  /\ \A b \in Builds : Extends(store.events[b], store'.events[b])
  /\ Extends(store.approvals, store'.approvals)
  /\ Len(store.deployments) <= Len(store'.deployments)
  /\ \A d \in DOMAIN store.deployments :
       /\ store'.deployments[d].build = store.deployments[d].build
       /\ store'.deployments[d].env = store.deployments[d].env

\* History is never taken back, whatever happens: the immutable audit trail of the
\* threat model.
HistoryOnlyGrows == [][HistoryGrows]_vars

\* History is taken back by no handler and no crash, nor by a restart, unless it
\* finds the file torn or lacking a write that failed.
HistorySurvives == [][lostWrites = 0 /\ disk # Torn => HistoryGrows]_vars

\* Without a crash, a job goes from queued to claimed to finished and never back, so no
\* agent is handed a job that was handed out or finished before.  (A restart may find an
\* older file; what that costs the agents is in EdgeFleet.)
JobsNeverRewind ==
  [][\A j \in DOMAIN store.edgeJobs :
       /\ j \in DOMAIN store'.edgeJobs
       /\ Stage(store.edgeJobs[j]) <= Stage(store'.edgeJobs[j])]_vars

\* A reviewer's rejection or request for changes holds until a reviewer decides
\* again.  The API's description says of the two requests "Rejected" and
\* "Returned to scope review".
ReviewDecisionSticks ==
  [][\A b \in Builds :
       /\ store.builds[b].status \in {"rejected", "awaiting_scope_review"}
       /\ store'.approvals = store.approvals
       => store'.builds[b].status = store.builds[b].status]_vars

------------------------------------------------------------------------------
\* Liveness

\* A build that is being worked on does not stay so: its create handler ends and
\* leaves it failed, offered or queued, or a reviewer has decided on it.
BuildSettles ==
  \A b \in Builds :
    store.builds[b].status \in {"planning", "running"}
      ~> store.builds[b].status \notin {"planning", "running"}

------------------------------------------------------------------------------
\* The abstract specification

NewestDecisions(st) == {v \in Builds \X Decisions : Standing(st, v[1], v[2])}

OpenBuilds(st) == {b \in Builds : st.builds[b].status = "approved"}

ProtectedReleases(st) ==
  {r \in (1 .. MaxDeployments) \X Builds \X ProtectedEnvironments :
     /\ r[1] \in DOMAIN st.deployments
     /\ st.deployments[r[1]].build = r[2]
     /\ st.deployments[r[1]].env = r[3]}

Gate == INSTANCE ReleaseGate WITH
  Protected  <- ProtectedEnvironments,
  ReleaseIds <- 1 .. MaxDeployments,
  standing   <- NewestDecisions(store),
  open       <- OpenBuilds(store),
  released   <- ProtectedReleases(store)

\* While nothing crashes, the control API implements the release gate: only a
\* reviewer's approve opens a build, only an open build whose newest decision is
\* that approval reaches staging or production, production uses it up, and no
\* release is ever struck from the record.
ImplementsGate == Gate!Spec
==============================================================================
