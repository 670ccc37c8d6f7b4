-------------------------- MODULE ControlApi_proofs --------------------------
(***************************************************************************)
(* Proofs about the control API, for every value of the constants.         *)
(***************************************************************************)
EXTENDS ControlApiProps, Operators_proofs, SequenceTheorems

------------------------------------------------------------------------------
(* The methods of the store map stores to stores, and say what they leave. *)

\* The events that stand for no record: all but decisions and deployments.
HandlerKinds == EventKinds \ (Decisions \cup {"deployed"})

\* `new` tells what `old` tells of every build, and of b perhaps more, of the
\* kinds above.
MoreEvents(old, new, b) ==
  /\ \A c \in Builds \ {b} : new.events[c] = old.events[c]
  /\ Len(old.events[b]) <= Len(new.events[b])
  /\ \A i \in DOMAIN old.events[b] : new.events[b][i] = old.events[b][i]
  /\ \A i \in DOMAIN new.events[b] \ DOMAIN old.events[b] :
       new.events[b][i] \in HandlerKinds

LEMMA SameEvents ==
  ASSUME NEW old \in Stores, NEW new, NEW b \in Builds, new.events = old.events
  PROVE  MoreEvents(old, new, b)
BY DEF MoreEvents, Stores

LEMMA MoreEventsChain ==
  ASSUME NEW old \in Stores, NEW mid \in Stores, NEW new \in Stores, NEW b \in Builds,
         MoreEvents(old, mid, b), MoreEvents(mid, new, b)
  PROVE  MoreEvents(old, new, b)
<1>1. /\ DOMAIN old.events[b] = 1 .. Len(old.events[b])
      /\ DOMAIN mid.events[b] = 1 .. Len(mid.events[b])
      /\ Len(old.events[b]) \in Nat /\ Len(mid.events[b]) \in Nat
      /\ Len(new.events[b]) \in Nat
  BY DEF Stores
<1>2. /\ DOMAIN old.events[b] \subseteq DOMAIN mid.events[b]
      /\ Len(old.events[b]) <= Len(new.events[b])
  BY <1>1 DEF MoreEvents
<1> QED BY <1>1, <1>2 DEF MoreEvents

\* `new` differs from `old` in the record and the events of b, and may have more
\* edge jobs.  The path of b is as it was, or one that a request asks for.
Quiet(old, new, b) ==
  /\ new.approvals = old.approvals
  /\ new.deployments = old.deployments
  /\ MoreJobs(old, new)
  /\ MoreEvents(old, new, b)
  /\ \A c \in Builds \ {b} : new.builds[c] = old.builds[c]
  /\ new.builds[b].path \in {old.builds[b].path} \cup Paths

\* The same, and the status of b is kept.
Minor(old, new, b) ==
  /\ new \in Stores
  /\ Quiet(old, new, b)
  /\ new.builds[b].status = old.builds[b].status

\* Replacing one build record, one build's events or one of the lists.
LEMMA PutBuild ==
  ASSUME NEW st \in Stores, NEW b \in Builds, NEW r \in BuildRecords,
         r.path \in {st.builds[b].path} \cup Paths
  PROVE  /\ [st EXCEPT !.builds[b] = r] \in Stores
         /\ [st EXCEPT !.builds[b] = r].builds[b] = r
         /\ [st EXCEPT !.builds[b] = r].events = st.events
         /\ Quiet(st, [st EXCEPT !.builds[b] = r], b)
<1> DEFINE new == [st EXCEPT !.builds[b] = r]
<1>1. /\ new \in Stores /\ new.builds[b] = r
      /\ new.approvals = st.approvals /\ new.deployments = st.deployments
      /\ new.edgeJobs = st.edgeJobs /\ new.events = st.events
      /\ \A c \in Builds \ {b} : new.builds[c] = st.builds[c]
  BY DEF Stores
<1> HIDE DEF new
<1>2. Quiet(st, new, b)
  BY <1>1, SameJobs, SameEvents DEF Quiet
<1> QED BY <1>1, <1>2 DEF new

LEMMA PutEvents ==
  ASSUME NEW st \in Stores, NEW b \in Builds, NEW l \in Seq(EventKinds)
  PROVE  [st EXCEPT !.events[b] = l] \in Stores
BY DEF Stores

LEMMA StatusEdit ==
  ASSUME NEW st \in Stores, NEW b \in Builds, NEW s \in BuildStatuses
  PROVE  /\ UpdateBuildStatus(st, b, s) \in Stores
         /\ Quiet(st, UpdateBuildStatus(st, b, s), b)
         /\ UpdateBuildStatus(st, b, s).events = st.events
         /\ Known(st, b) => UpdateBuildStatus(st, b, s).builds[b].status = s
         /\ ~Known(st, b) => UpdateBuildStatus(st, b, s).builds[b].status = "absent"
<1> DEFINE r == IF Held(st.builds[b]) THEN [st.builds[b] EXCEPT !.status = s]
                                      ELSE st.builds[b]
<1>1. /\ r \in BuildRecords
      /\ r.status = IF Known(st, b) THEN s ELSE "absent"
      /\ r.path = st.builds[b].path
  BY DEF Stores, BuildRecords, Held, Known
<1>2. UpdateBuildStatus(st, b, s) = [st EXCEPT !.builds[b] = r]
  BY DEF Stores, UpdateBuildStatus
<1> HIDE DEF r
<1> QED BY <1>1, <1>2, PutBuild

\* The other setters of a build keep its status.
LEMMA RecordEdit ==
  ASSUME NEW st \in Stores, NEW b \in Builds
  PROVE  /\ Minor(st, SetBuildPlan(st, b), b)
         /\ Minor(st, SetBuildSpec(st, b), b)
         /\ Minor(st, SetPreviews(st, b), b)
         /\ \A f \in SUBSET Findings : Minor(st, SetBuildFindings(st, b, f), b)
         /\ \A n \in Nat : Minor(st, AddArtifacts(st, b, n), b)
         /\ \A s \in TestStatuses : Minor(st, SetTestStatus(st, b, s), b)
<1> DEFINE old == st.builds[b]
           Put(r) == [st EXCEPT !.builds[b] = r]
<1>0. old \in BuildRecords
  BY DEF Stores
<1>1. ASSUME NEW r \in BuildRecords, r.status = old.status, r.path = old.path
      PROVE  Minor(st, Put(r), b)
  BY <1>1, PutBuild DEF Minor
<1>2. /\ [old EXCEPT !.planned = TRUE] \in BuildRecords
      /\ [old EXCEPT !.planned = TRUE].status = old.status
      /\ [old EXCEPT !.planned = TRUE].path = old.path
      /\ [old EXCEPT !.specified = TRUE] \in BuildRecords
      /\ [old EXCEPT !.specified = TRUE].status = old.status
      /\ [old EXCEPT !.specified = TRUE].path = old.path
      /\ [old EXCEPT !.previewed = TRUE] \in BuildRecords
      /\ [old EXCEPT !.previewed = TRUE].status = old.status
      /\ [old EXCEPT !.previewed = TRUE].path = old.path
  BY <1>0 DEF BuildRecords
<1>3. ASSUME NEW f \in SUBSET Findings
      PROVE  /\ [old EXCEPT !.findings = f] \in BuildRecords
             /\ [old EXCEPT !.findings = f].status = old.status
             /\ [old EXCEPT !.findings = f].path = old.path
  BY <1>0 DEF BuildRecords
<1>4. ASSUME NEW n \in Nat
      PROVE  /\ [old EXCEPT !.artifacts = old.artifacts + n] \in BuildRecords
             /\ [old EXCEPT !.artifacts = old.artifacts + n].status = old.status
             /\ [old EXCEPT !.artifacts = old.artifacts + n].path = old.path
  BY <1>0 DEF BuildRecords
<1>5. ASSUME NEW s \in TestStatuses
      PROVE  /\ [old EXCEPT !.tests = s] \in BuildRecords
             /\ [old EXCEPT !.tests = s].status = old.status
             /\ [old EXCEPT !.tests = s].path = old.path
  BY <1>0 DEF BuildRecords
<1>6. SetBuildPlan(st, b) = Put(IF Held(old) THEN [old EXCEPT !.planned = TRUE] ELSE old)
  BY DEF SetBuildPlan
<1>7. SetBuildSpec(st, b) = Put(IF Held(old) THEN [old EXCEPT !.specified = TRUE] ELSE old)
  BY DEF SetBuildSpec
<1>8. SetPreviews(st, b) = Put(IF Held(old) THEN [old EXCEPT !.previewed = TRUE] ELSE old)
  BY DEF SetPreviews
<1>9. ASSUME NEW f \in SUBSET Findings
      PROVE  SetBuildFindings(st, b, f)
               = Put(IF Held(old) THEN [old EXCEPT !.findings = f] ELSE old)
  BY DEF SetBuildFindings
<1>10. ASSUME NEW n \in Nat
       PROVE  AddArtifacts(st, b, n)
                = Put(IF Held(old) THEN [old EXCEPT !.artifacts = old.artifacts + n] ELSE old)
  BY DEF AddArtifacts
<1>11. ASSUME NEW s \in TestStatuses
       PROVE  SetTestStatus(st, b, s)
                = Put(IF Held(old) THEN [old EXCEPT !.tests = s] ELSE old)
  BY DEF SetTestStatus
<1> HIDE DEF old, Put
<1>12. /\ Minor(st, SetBuildPlan(st, b), b)
       /\ Minor(st, SetBuildSpec(st, b), b)
       /\ Minor(st, SetPreviews(st, b), b)
  BY <1>0, <1>1, <1>2, <1>6, <1>7, <1>8
<1>13. \A f \in SUBSET Findings : Minor(st, SetBuildFindings(st, b, f), b)
  BY <1>0, <1>1, <1>3, <1>9
<1>14. \A n \in Nat : Minor(st, AddArtifacts(st, b, n), b)
  BY <1>0, <1>1, <1>4, <1>10
<1>15. \A s \in TestStatuses : Minor(st, SetTestStatus(st, b, s), b)
  BY <1>0, <1>1, <1>5, <1>11
<1> QED BY <1>12, <1>13, <1>14, <1>15

LEMMA EventCall ==
  ASSUME NEW st \in Stores, NEW b \in Builds, NEW k \in EventKinds
  PROVE  LET new == AddBuildEvent(st, b, k)
         IN  /\ new \in Stores
             /\ new.builds = st.builds
             /\ new.approvals = st.approvals
             /\ new.deployments = st.deployments
             /\ new.edgeJobs = st.edgeJobs
             /\ new.events = [st.events EXCEPT ![b] = Append(@, k)]
<1>1. Append(st.events[b], k) \in Seq(EventKinds)
  BY DEF Stores
<1>2. AddBuildEvent(st, b, k) = [st EXCEPT !.events[b] = Append(st.events[b], k)]
  BY DEF AddBuildEvent
<1>3. AddBuildEvent(st, b, k) \in Stores
  BY <1>1, <1>2, PutEvents
<1> QED BY <1>3 DEF AddBuildEvent, Stores

LEMMA EventAdd ==
  ASSUME NEW st \in Stores, NEW b \in Builds, NEW k \in HandlerKinds
  PROVE  Minor(st, AddBuildEvent(st, b, k), b)
<1> DEFINE new == AddBuildEvent(st, b, k)
<1>0. k \in EventKinds
  BY DEF HandlerKinds
<1>1. /\ new \in Stores
      /\ new.builds = st.builds
      /\ new.approvals = st.approvals
      /\ new.deployments = st.deployments
      /\ new.edgeJobs = st.edgeJobs
      /\ new.events = [st.events EXCEPT ![b] = Append(@, k)]
  BY <1>0, EventCall
<1> HIDE DEF new
<1>2. MoreEvents(st, new, b)
  <2>1. st.events \in [Builds -> Seq(EventKinds)]
    BY DEF Stores
  <2>2. /\ \A c \in Builds \ {b} : new.events[c] = st.events[c]
        /\ new.events[b] = Append(st.events[b], k)
    BY <1>1, <2>1
  <2> QED BY <1>0, <2>1, <2>2 DEF MoreEvents
<1> QED BY <1>1, <1>2, SameJobs DEF Minor, Quiet, new

LEMMA ApprovalAdd ==
  ASSUME NEW st \in Stores, NEW b \in Builds, NEW a \in Decisions
  PROVE  LET new == AddApproval(st, b, a)
         IN  /\ new \in Stores
             /\ new.builds = st.builds
             /\ new.deployments = st.deployments
             /\ new.events = st.events
             /\ new.edgeJobs = st.edgeJobs
             /\ new.approvals = Append(st.approvals, [build |-> b, action |-> a])
<1>1. Append(st.approvals, [build |-> b, action |-> a]) \in Seq(ApprovalRecords)
  BY DEF Stores, ApprovalRecords
<1> QED BY <1>1 DEF AddApproval, Stores

LEMMA DeploymentAdd ==
  ASSUME NEW st \in Stores, NEW b \in Builds, NEW env \in Environments
  PROVE  LET new == CreateDeployment(st, b, env)
         IN  /\ new \in Stores
             /\ new.builds = st.builds
             /\ new.approvals = st.approvals
             /\ new.events = st.events
             /\ new.edgeJobs = st.edgeJobs
             /\ new.deployments = Append(st.deployments,
                   [build |-> b, env |-> env, status |-> "queued"])
<1>1. Append(st.deployments, [build |-> b, env |-> env, status |-> "queued"])
        \in Seq(DeploymentRecords)
  BY DEF Stores, DeploymentRecords, DeploymentStatuses
<1> QED BY <1>1 DEF CreateDeployment, Stores

\* A deployment keeps its build and its environment for ever.
LEMMA DeploymentEdit ==
  ASSUME NEW st \in Stores, NEW d \in Nat, NEW s \in DeploymentStatuses
  PROVE  LET new == UpdateDeploymentStatus(st, d, s)
         IN  /\ new \in Stores
             /\ new.builds = st.builds
             /\ new.approvals = st.approvals
             /\ new.events = st.events
             /\ new.edgeJobs = st.edgeJobs
             /\ DOMAIN new.deployments = DOMAIN st.deployments
             /\ Len(new.deployments) = Len(st.deployments)
             /\ \A e \in DOMAIN st.deployments :
                  IF e = d
                  THEN /\ new.deployments[e].build = st.deployments[e].build
                       /\ new.deployments[e].env = st.deployments[e].env
                       /\ new.deployments[e].status = s
                  ELSE new.deployments[e] = st.deployments[e]
<1>1. CASE d \in DOMAIN st.deployments
  <2> DEFINE r == [st.deployments[d] EXCEPT !.status = s]
             l == [st.deployments EXCEPT ![d] = r]
  <2>1. st.deployments \in Seq(DeploymentRecords)
    BY DEF Stores
  <2>. st.deployments[d] \in DeploymentRecords
    BY <1>1, <2>1
  <2>2. /\ r \in DeploymentRecords
        /\ r.build = st.deployments[d].build
        /\ r.env = st.deployments[d].env
        /\ r.status = s
    BY <1>1, <2>1 DEF DeploymentRecords
  <2> HIDE DEF r
  <2>3. l \in Seq(DeploymentRecords) /\ Len(l) = Len(st.deployments)
        /\ DOMAIN l = DOMAIN st.deployments
    BY <1>1, <2>1, <2>2
  <2>4. UpdateDeploymentStatus(st, d, s) = [st EXCEPT !.deployments = l]
    BY <1>1 DEF UpdateDeploymentStatus, r, Stores
  <2>5. \A e \in DOMAIN st.deployments : l[e] = IF e = d THEN r ELSE st.deployments[e]
    BY <2>1
  <2> HIDE DEF l
  <2>6. /\ [st EXCEPT !.deployments = l] \in Stores
        /\ [st EXCEPT !.deployments = l].deployments = l
        /\ [st EXCEPT !.deployments = l].builds = st.builds
        /\ [st EXCEPT !.deployments = l].approvals = st.approvals
        /\ [st EXCEPT !.deployments = l].events = st.events
        /\ [st EXCEPT !.deployments = l].edgeJobs = st.edgeJobs
    BY <2>3 DEF Stores
  <2> QED BY <2>2, <2>3, <2>4, <2>5, <2>6
<1>2. CASE d \notin DOMAIN st.deployments
  BY <1>2 DEF UpdateDeploymentStatus
<1> QED BY <1>1, <1>2

------------------------------------------------------------------------------
(* The create handler.  None of its calls approves, deploys or records: each
   store of its trails is a calm successor of the store it starts from. *)

HandlerStatuses == {"queued", "planning", "running", "failed", "awaiting_approval"}

Calm(old, new, b) ==
  /\ new \in Stores
  /\ Quiet(old, new, b)
  /\ \/ new.builds[b].status = old.builds[b].status
     \/ new.builds[b].status \in HandlerStatuses

CalmTrail(b, trail) ==
  /\ trail \in Seq(Stores)
  /\ Len(trail) > 0
  /\ \A k \in 1 .. Len(trail) : Calm(store, trail[k], b)

LEMMA CalmSteps ==
  ASSUME NEW b \in Builds, NEW old \in Stores, NEW mid, Calm(old, mid, b)
  PROVE  /\ \A new : Minor(mid, new, b) => Calm(old, new, b)
         /\ \A new : JobsOnly(mid, new) /\ MoreJobs(mid, new) => Calm(old, new, b)
         /\ \A s \in HandlerStatuses : Calm(old, UpdateBuildStatus(mid, b, s), b)
<1>1. ASSUME NEW new, Minor(mid, new, b) PROVE Calm(old, new, b)
  BY <1>1, MoreJobsChain, MoreEventsChain DEF Minor, Calm, Quiet
<1>2. ASSUME NEW new, JobsOnly(mid, new), MoreJobs(mid, new) PROVE Calm(old, new, b)
  <2>1. MoreEvents(mid, new, b)
    BY <1>2, SameEvents DEF JobsOnly, Calm
  <2> QED BY <1>2, <2>1, MoreJobsChain, MoreEventsChain DEF JobsOnly, Calm, Quiet
<1>3. ASSUME NEW s \in HandlerStatuses
      PROVE  Calm(old, UpdateBuildStatus(mid, b, s), b)
  <2>1. s \in BuildStatuses /\ mid \in Stores
    BY DEF HandlerStatuses, BuildStatuses, Calm
  <2>2. /\ UpdateBuildStatus(mid, b, s) \in Stores
        /\ Quiet(mid, UpdateBuildStatus(mid, b, s), b)
        /\ Known(mid, b) => UpdateBuildStatus(mid, b, s).builds[b].status = s
        /\ ~Known(mid, b) => UpdateBuildStatus(mid, b, s).builds[b].status = "absent"
    BY <2>1, StatusEdit
  <2>3. CASE Known(mid, b)
    BY <2>2, <2>3, MoreJobsChain, MoreEventsChain DEF Calm, Quiet
  <2>4. CASE ~Known(mid, b)
    BY <2>2, <2>4, MoreJobsChain, MoreEventsChain
    DEF Calm, Quiet, Known, Held, HandlerStatuses
  <2> QED BY <2>3, <2>4
<1> QED BY <1>1, <1>2, <1>3

LEMMA IntakeCalm ==
  ASSUME store \in Stores, NEW b \in Builds, NEW mode \in Modes,
         NEW workspace \in Workspaces, NEW path \in Paths
  PROVE  CalmTrail(b, IntakeTrail(b, mode, workspace, path))
<1> DEFINE s1  == CreateBuild(store, b, mode, workspace, path)
           s2  == AddBuildEvent(s1, b, "queued")
           s3  == UpdateBuildStatus(s2, b, "planning")
           s4  == AddBuildEvent(s3, b, "planning")
           s5  == SetBuildPlan(s4, b)
           s6  == SetBuildSpec(s5, b)
           s7  == AddBuildEvent(s6, b, "spec")
           s8  == UpdateBuildStatus(s7, b, "running")
           s9  == SetTestStatus(s8, b, "running")
           s10 == AddBuildEvent(s9, b, "compiling")
<1>0. /\ {"queued", "planning", "spec", "compiling"} \subseteq HandlerKinds
      /\ {"planning", "running"} \subseteq HandlerStatuses
      /\ "running" \in TestStatuses
  BY DEF HandlerKinds, EventKinds, Decisions, HandlerStatuses, TestStatuses
<1>1. Calm(store, s1, b)
  <2>0. path \in Seq(Environments)
    BY ControlApiAssumption
  <2>1. NewBuild("queued", mode, workspace, path) \in BuildRecords
    BY <2>0 DEF NewBuild, BuildRecords, BuildStatuses, TestStatuses
  <2>2. /\ NewBuild("queued", mode, workspace, path).status = "queued"
        /\ NewBuild("queued", mode, workspace, path).path = path
    BY DEF NewBuild
  <2> QED BY <2>1, <2>2, PutBuild DEF Calm, CreateBuild, HandlerStatuses
<1> HIDE DEF s1
<1>2. Calm(store, s2, b)   BY <1>0, <1>1, EventAdd, CalmSteps DEF Calm
<1> HIDE DEF s2
<1>3. Calm(store, s3, b)   BY <1>0, <1>2, CalmSteps
<1> HIDE DEF s3
<1>4. Calm(store, s4, b)   BY <1>0, <1>3, EventAdd, CalmSteps DEF Calm
<1> HIDE DEF s4
<1>5. Calm(store, s5, b)   BY <1>4, RecordEdit, CalmSteps DEF Calm
<1> HIDE DEF s5
<1>6. Calm(store, s6, b)   BY <1>5, RecordEdit, CalmSteps DEF Calm
<1> HIDE DEF s6
<1>7. Calm(store, s7, b)   BY <1>0, <1>6, EventAdd, CalmSteps DEF Calm
<1> HIDE DEF s7
<1>8. Calm(store, s8, b)   BY <1>0, <1>7, CalmSteps
<1> HIDE DEF s8
<1>9. Calm(store, s9, b)   BY <1>0, <1>8, RecordEdit, CalmSteps DEF Calm
<1> HIDE DEF s9
<1>10. Calm(store, s10, b) BY <1>0, <1>9, EventAdd, CalmSteps DEF Calm
<1> HIDE DEF s10
<1>11. IntakeTrail(b, mode, workspace, path)
         = <<s1, s2, s3, s4, s5, s6, s7, s8, s9, s10>>
  BY DEF IntakeTrail, s1, s2, s3, s4, s5, s6, s7, s8, s9, s10
<1> QED
  BY <1>1, <1>2, <1>3, <1>4, <1>5, <1>6, <1>7, <1>8, <1>9, <1>10, <1>11
  DEF CalmTrail, Calm

LEMMA Concatenation ==
  ASSUME NEW p \in Seq(Stores), NEW q \in Seq(Stores)
  PROVE  /\ p \o q \in Seq(Stores)
         /\ Len(p \o q) = Len(p) + Len(q)
         /\ \A k \in 1 .. Len(p) + Len(q) :
              (p \o q)[k] = IF k <= Len(p) THEN p[k] ELSE q[k - Len(p)]
<1>1. p \o q \in Seq(Stores)
  OBVIOUS
<1>2. Len(p \o q) = Len(p) + Len(q)
  OBVIOUS
<1>3. ASSUME NEW k \in 1 .. Len(p) + Len(q)
      PROVE  (p \o q)[k] = IF k <= Len(p) THEN p[k] ELSE q[k - Len(p)]
  OBVIOUS
<1> QED BY <1>1, <1>2, <1>3

LEMMA CalmConcat ==
  ASSUME NEW b \in Builds, NEW p \in Seq(Stores), NEW q \in Seq(Stores),
         Len(p) = 2, Calm(store, p[1], b), Calm(store, p[2], b), Len(q) > 0,
         \A k \in 1 .. Len(q) : Calm(store, q[k], b)
  PROVE  CalmTrail(b, p \o q)
<1> DEFINE t == p \o q
<1>1. /\ t \in Seq(Stores)
      /\ Len(t) = Len(p) + Len(q)
      /\ \A k \in 1 .. Len(p) + Len(q) :
           t[k] = IF k <= Len(p) THEN p[k] ELSE q[k - Len(p)]
  BY Concatenation
<1> HIDE DEF t
<1>2. ASSUME NEW k \in 1 .. 2 + Len(q) PROVE Calm(store, t[k], b)
  <2>1. CASE k <= 2
    BY <1>1, <2>1, k = 1 \/ k = 2
  <2>2. CASE ~(k <= 2)
    BY <1>1, <2>2, k - 2 \in 1 .. Len(q)
  <2> QED BY <2>1, <2>2
<1>3. 2 + Len(q) > 0
  OBVIOUS
<1>4. CalmTrail(b, t)
  BY <1>1, <1>2, <1>3 DEF CalmTrail
<1> QED BY <1>4 DEF t

LEMMA IndexCalm ==
  ASSUME store \in Stores, NEW b \in Builds
  PROVE  CalmTrail(b, IndexTrail(b))
<1>1. \A k \in 1 .. NumArtifacts : Calm(store, AddArtifacts(store, b, k), b)
  BY RecordEdit DEF Calm, Minor
<1>2. \A k \in 1 .. NumArtifacts : AddArtifacts(store, b, k) \in Stores
  BY <1>1 DEF Calm
<1>3. /\ IndexTrail(b) \in Seq(Stores)
      /\ Len(IndexTrail(b)) = NumArtifacts
      /\ \A k \in 1 .. NumArtifacts : IndexTrail(b)[k] = AddArtifacts(store, b, k)
  BY <1>2, ControlApiAssumption DEF IndexTrail
<1> QED BY <1>1, <1>3, ControlApiAssumption DEF CalmTrail

LEMMA PolicyCalm ==
  ASSUME store \in Stores, NEW b \in Builds, NEW elevated \in BOOLEAN
  PROVE  /\ PolicyTrail(b, elevated) \in Seq(Stores)
         /\ Len(PolicyTrail(b, elevated)) = 2
         /\ Calm(store, PolicyTrail(b, elevated)[1], b)
         /\ Calm(store, PolicyTrail(b, elevated)[2], b)
<1> DEFINE f  == EvaluateBuildPolicy(Profile, CandidateFiles, elevated)
           s1 == SetBuildFindings(store, b, f)
           s2 == IF f = {} THEN s1 ELSE AddBuildEvent(s1, b, "policy")
<1>1. f \in SUBSET Findings
  <2> DEFINE fired == UNION {Triggered(file, elevated) : file \in CandidateFiles}
  <2>1. fired \subseteq RuleIds
    BY DEF Triggered
  <2>2. ASSUME NEW rule \in fired
        PROVE  [rule |-> rule, critical |-> rule \in CriticalRules,
                requiresApproval |-> rule \in BlockedRules(Profile)] \in Findings
    BY <2>1 DEF Findings
  <2> QED BY <2>2 DEF EvaluateBuildPolicy
<1> HIDE DEF f
<1>2. Calm(store, s1, b)
  BY <1>1, RecordEdit DEF Calm, Minor
<1> HIDE DEF s1
<1>3. Calm(store, s2, b)
  BY <1>2, EventAdd, CalmSteps DEF Calm, HandlerKinds, EventKinds, Decisions
<1> HIDE DEF s2
<1>4. PolicyTrail(b, elevated) = <<s1, s2>>
  BY DEF PolicyTrail, s1, s2, f
<1> QED BY <1>2, <1>3, <1>4 DEF Calm

LEMMA ManagedCalm ==
  ASSUME store \in Stores, NEW b \in Builds, NEW elevated \in BOOLEAN
  PROVE  CalmTrail(b, ManagedTrail(b, elevated))
<1> DEFINE p  == PolicyTrail(b, elevated)
           s1 == SetTestStatus(Last(p), b, "passed")
           s2 == SetPreviews(s1, b)
           s3 == UpdateBuildStatus(s2, b, "awaiting_approval")
           s4 == AddBuildEvent(s3, b, "tested")
           s5 == AddBuildEvent(s4, b, "indexed")
<1>0. /\ {"tested", "indexed"} \subseteq HandlerKinds
      /\ "awaiting_approval" \in HandlerStatuses
      /\ "passed" \in TestStatuses
  BY DEF HandlerKinds, EventKinds, Decisions, HandlerStatuses, TestStatuses
<1>p. /\ p \in Seq(Stores) /\ Len(p) = 2 /\ Last(p) = p[2]
      /\ Calm(store, p[1], b) /\ Calm(store, p[2], b)
  BY PolicyCalm DEF Last
<1> HIDE DEF p
<1>1. Calm(store, s1, b)   BY <1>0, <1>p, RecordEdit, CalmSteps DEF Calm
<1> HIDE DEF s1
<1>2. Calm(store, s2, b)   BY <1>1, RecordEdit, CalmSteps DEF Calm
<1> HIDE DEF s2
<1>3. Calm(store, s3, b)   BY <1>0, <1>2, CalmSteps
<1> HIDE DEF s3
<1>4. Calm(store, s4, b)   BY <1>0, <1>3, EventAdd, CalmSteps DEF Calm
<1> HIDE DEF s4
<1>5. Calm(store, s5, b)   BY <1>0, <1>4, EventAdd, CalmSteps DEF Calm
<1> HIDE DEF s5
<1> DEFINE q == <<s1, s2, s3, s4, s5>>
<1>6. ManagedTrail(b, elevated) = p \o q
  BY DEF ManagedTrail, p, s1, s2, s3, s4, s5
<1>7. /\ q \in Seq(Stores) /\ Len(q) > 0
      /\ \A k \in 1 .. Len(q) : Calm(store, q[k], b)
  BY <1>1, <1>2, <1>3, <1>4, <1>5 DEF Calm
<1> HIDE DEF q
<1>8. CalmTrail(b, p \o q)
  BY ONLY <1>p, <1>7, b \in Builds, CalmConcat
<1> QED BY <1>6, <1>8

LEMMA EdgeCalm ==
  ASSUME store \in Stores, NEW b \in Builds, NEW elevated \in BOOLEAN
  PROVE  CalmTrail(b, EdgeTrail(b, elevated))
<1> DEFINE p  == PolicyTrail(b, elevated)
           s1 == CreateEdgeJob(Last(p), store.builds[b].workspace, b)
           s2 == SetTestStatus(s1, b, "not_started")
           s3 == UpdateBuildStatus(s2, b, "queued")
           s4 == AddBuildEvent(s3, b, "handed_to_edge")
<1>0. /\ "handed_to_edge" \in HandlerKinds
      /\ "queued" \in HandlerStatuses
      /\ "not_started" \in TestStatuses
      /\ store.builds[b].workspace \in Workspaces
  BY DEF HandlerKinds, EventKinds, Decisions, HandlerStatuses, TestStatuses, Stores, BuildRecords
<1>p. /\ p \in Seq(Stores) /\ Len(p) = 2 /\ Last(p) = p[2]
      /\ Calm(store, p[1], b) /\ Calm(store, p[2], b)
  BY PolicyCalm DEF Last
<1> HIDE DEF p
<1>1. Calm(store, s1, b)   BY <1>0, <1>p, EdgeJobEdits, NewJob, CalmSteps DEF Calm
<1> HIDE DEF s1
<1>2. Calm(store, s2, b)   BY <1>0, <1>1, RecordEdit, CalmSteps DEF Calm
<1> HIDE DEF s2
<1>3. Calm(store, s3, b)   BY <1>0, <1>2, CalmSteps
<1> HIDE DEF s3
<1>4. Calm(store, s4, b)   BY <1>0, <1>3, EventAdd, CalmSteps DEF Calm
<1> HIDE DEF s4
<1> DEFINE q == <<s1, s2, s3, s4>>
<1>6. EdgeTrail(b, elevated) = p \o q
  BY DEF EdgeTrail, p, s1, s2, s3, s4
<1>7. /\ q \in Seq(Stores) /\ Len(q) > 0
      /\ \A k \in 1 .. Len(q) : Calm(store, q[k], b)
  BY <1>1, <1>2, <1>3, <1>4 DEF Calm
<1> HIDE DEF q
<1>8. CalmTrail(b, p \o q)
  BY ONLY <1>p, <1>7, b \in Builds, CalmConcat
<1> QED BY <1>6, <1>8

LEMMA FailCalm ==
  ASSUME store \in Stores, NEW b \in Builds
  PROVE  CalmTrail(b, FailTrail(b))
<1> DEFINE s1 == UpdateBuildStatus(store, b, "failed")
           s2 == SetTestStatus(s1, b, "failed")
           s3 == AddBuildEvent(s2, b, "failed")
<1>0. /\ "failed" \in HandlerKinds /\ "failed" \in HandlerStatuses
      /\ "failed" \in TestStatuses /\ Calm(store, store, b)
  BY SameJobs, SameEvents
  DEF HandlerKinds, EventKinds, Decisions, HandlerStatuses, TestStatuses, Calm, Quiet
<1>1. Calm(store, s1, b)   BY <1>0, CalmSteps
<1> HIDE DEF s1
<1>2. Calm(store, s2, b)   BY <1>0, <1>1, RecordEdit, CalmSteps DEF Calm
<1> HIDE DEF s2
<1>3. Calm(store, s3, b)   BY <1>0, <1>2, EventAdd, CalmSteps DEF Calm
<1> HIDE DEF s3
<1>4. FailTrail(b) = <<s1, s2, s3>>
  BY DEF FailTrail, s1, s2, s3
<1> QED BY <1>1, <1>2, <1>3, <1>4 DEF CalmTrail, Calm

------------------------------------------------------------------------------
(* The other handlers, call by call. *)

\* The status a decision gives is one of three.
LEMMA DecidedStatuses ==
  \A a \in Decisions :
    /\ DecidedStatus(a) \in {"approved", "rejected", "awaiting_scope_review"}
    /\ DecidedStatus(a) = "approved" <=> a = "approve"
BY DEF DecidedStatus, Decisions

\* A store after the k-th call of a review.
Reviewing(k, st, b, a) ==
  /\ st.deployments = store.deployments
  /\ MoreJobs(store, st)
  /\ st.builds[b].status = DecidedStatus(a)
  /\ st.builds[b].path \in {store.builds[b].path} \cup Paths
  /\ \A c \in Builds \ {b} : st.builds[c] = store.builds[c]
  /\ st.approvals = IF k = 1 THEN store.approvals
                    ELSE Append(store.approvals, [build |-> b, action |-> a])
  /\ st.events = IF k = 3 THEN [store.events EXCEPT ![b] = Append(@, a)]
                 ELSE store.events

LEMMA ReviewCalls ==
  ASSUME store \in Stores, NEW b \in Builds, NEW a \in Decisions, Known(store, b)
  PROVE  /\ ReviewTrail(b, a) \in Seq(Stores)
         /\ Len(ReviewTrail(b, a)) = 3
         /\ \A k \in 1 .. 3 : Reviewing(k, ReviewTrail(b, a)[k], b, a)
<1> DEFINE s1 == UpdateBuildStatus(store, b, DecidedStatus(a))
           s2 == AddApproval(s1, b, a)
           s3 == AddBuildEvent(s2, b, a)
           rec == [build |-> b, action |-> a]
<1>0. DecidedStatus(a) \in BuildStatuses /\ a \in EventKinds
  BY DecidedStatuses DEF BuildStatuses, EventKinds
<1>1. /\ s1 \in Stores
      /\ s1.deployments = store.deployments
      /\ s1.approvals = store.approvals
      /\ s1.events = store.events
      /\ MoreJobs(store, s1)
      /\ s1.builds[b].status = DecidedStatus(a)
      /\ s1.builds[b].path \in {store.builds[b].path} \cup Paths
      /\ \A c \in Builds \ {b} : s1.builds[c] = store.builds[c]
  BY <1>0, StatusEdit DEF Quiet
<1> HIDE DEF s1
<1>2. /\ s2 \in Stores
      /\ s2.deployments = s1.deployments
      /\ s2.approvals = Append(s1.approvals, rec)
      /\ s2.builds = s1.builds
      /\ s2.events = s1.events
      /\ MoreJobs(s1, s2)
  BY <1>1, ApprovalAdd, SameJobs
<1> HIDE DEF s2
<1>3. /\ s3 \in Stores
      /\ s3.builds = s2.builds
      /\ s3.approvals = s2.approvals
      /\ s3.deployments = s2.deployments
      /\ s3.events = [s2.events EXCEPT ![b] = Append(@, a)]
      /\ s3.edgeJobs = s2.edgeJobs
  BY <1>0, <1>2, EventCall
<1>4. ReviewTrail(b, a) = <<s1, s2, s3>>
  BY DEF ReviewTrail, s1, s2
<1> HIDE DEF s3, rec
<1>6. MoreJobs(store, s2) /\ MoreJobs(store, s3)
  BY <1>1, <1>2, <1>3, SameJobs, MoreJobsChain
<1>5. /\ s3 \in Stores
      /\ s3.deployments = store.deployments
      /\ s3.builds[b].status = DecidedStatus(a)
      /\ s3.builds[b].path \in {store.builds[b].path} \cup Paths
      /\ \A c \in Builds \ {b} : s3.builds[c] = store.builds[c]
      /\ s3.approvals = Append(store.approvals, rec)
      /\ s3.events = [store.events EXCEPT ![b] = Append(@, a)]
  BY <1>1, <1>2, <1>3
<1> QED BY <1>1, <1>2, <1>4, <1>5, <1>6 DEF rec, Reviewing

\* A store after the k-th call of a deployment: the deployment is the last one,
\* it has gone through from the third call on, and the fourth marks the build.
Deploying(k, st, b, env) ==
  LET n == Len(store.deployments)
  IN  /\ st.approvals = store.approvals
      /\ MoreJobs(store, st)
      /\ Len(st.deployments) = n + 1
      /\ st.deployments[n + 1].build = b
      /\ st.deployments[n + 1].env = env
      /\ k >= 3 => st.deployments[n + 1].status = "succeeded"
      /\ \A d \in 1 .. n : st.deployments[d] = store.deployments[d]
      /\ \A c \in Builds \ {b} : st.builds[c] = store.builds[c]
      /\ st.builds[b].status = IF k >= 4 /\ env = "production" THEN "deployed"
                               ELSE store.builds[b].status
      /\ st.builds[b].path \in {store.builds[b].path} \cup Paths
      /\ st.events = IF k = 5 THEN [store.events EXCEPT ![b] = Append(@, "deployed")]
                     ELSE store.events

LEMMA DeployCalls ==
  ASSUME store \in Stores, NEW b \in Builds, NEW env \in Environments, Known(store, b)
  PROVE  /\ DeployTrail(b, env) \in Seq(Stores)
         /\ Len(DeployTrail(b, env)) = 5
         /\ \A k \in 1 .. 5 : Deploying(k, DeployTrail(b, env)[k], b, env)
<1> DEFINE n  == Len(store.deployments)
           s1 == CreateDeployment(store, b, env)
           s2 == UpdateDeploymentStatus(s1, n + 1, "running")
           s3 == UpdateDeploymentStatus(s2, n + 1, "succeeded")
           s4 == IF env = "production" THEN UpdateBuildStatus(s3, b, "deployed") ELSE s3
           s5 == AddBuildEvent(s4, b, "deployed")
           Old(st) == /\ st \in Stores
                      /\ MoreJobs(store, st)
                      /\ st.approvals = store.approvals
                      /\ Len(st.deployments) = n + 1
                      /\ DOMAIN st.deployments = 1 .. n + 1
                      /\ st.deployments[n + 1].build = b
                      /\ st.deployments[n + 1].env = env
                      /\ \A d \in 1 .. n : st.deployments[d] = store.deployments[d]
<1>0. /\ {"running", "succeeded"} \subseteq DeploymentStatuses
      /\ "deployed" \in BuildStatuses /\ "deployed" \in EventKinds
      /\ store.deployments \in Seq(DeploymentRecords)
      /\ n \in Nat /\ n + 1 \in Nat
  BY DEF DeploymentStatuses, BuildStatuses, EventKinds, Stores
<1>1. Old(s1) /\ s1.builds = store.builds /\ s1.events = store.events
  <2>1. /\ s1 \in Stores /\ s1.approvals = store.approvals
        /\ s1.builds = store.builds /\ s1.events = store.events
        /\ s1.deployments = Append(store.deployments,
             [build |-> b, env |-> env, status |-> "queued"])
        /\ MoreJobs(store, s1)
    BY DeploymentAdd, SameJobs
  <2> QED BY <1>0, <2>1
<1> HIDE DEF s1
<1>2. ASSUME NEW st, Old(st), NEW s \in DeploymentStatuses
      PROVE  /\ Old(UpdateDeploymentStatus(st, n + 1, s))
             /\ UpdateDeploymentStatus(st, n + 1, s).builds = st.builds
             /\ UpdateDeploymentStatus(st, n + 1, s).events = st.events
             /\ UpdateDeploymentStatus(st, n + 1, s).deployments[n + 1].status = s
  <2> DEFINE m   == n + 1
             new == UpdateDeploymentStatus(st, m, s)
  <2>0. st \in Stores /\ m \in Nat
    BY <1>0, <1>2
  <2> HIDE DEF Old, m
  <2>1. /\ new \in Stores
        /\ new.builds = st.builds
        /\ new.approvals = st.approvals
        /\ new.events = st.events
        /\ DOMAIN new.deployments = DOMAIN st.deployments
        /\ Len(new.deployments) = Len(st.deployments)
        /\ \A e \in DOMAIN st.deployments :
             IF e = m
             THEN /\ new.deployments[e].build = st.deployments[e].build
                  /\ new.deployments[e].env = st.deployments[e].env
                  /\ new.deployments[e].status = s
             ELSE new.deployments[e] = st.deployments[e]
        /\ MoreJobs(st, new)
    BY <2>0, DeploymentEdit, SameJobs
  <2> HIDE DEF new
  <2>2. /\ Old(new) /\ new.builds = st.builds /\ new.events = st.events
        /\ new.deployments[n + 1].status = s
    BY <1>0, <1>2, <2>1, MoreJobsChain DEF Old, m
  <2> QED BY <2>2 DEF new, m
<1>3. ASSUME NEW st, NEW new, Old(st), new \in Stores, Quiet(st, new, b)
      PROVE  Old(new)
  BY <1>3, MoreJobsChain DEF Quiet
<1> HIDE DEF Old
<1>4. Old(s2) /\ s2.builds = store.builds /\ s2.events = store.events
  BY <1>0, <1>1, <1>2
<1> HIDE DEF s2
<1>5. /\ Old(s3) /\ s3.builds = store.builds /\ s3.events = store.events
      /\ s3.deployments[n + 1].status = "succeeded"
  BY <1>0, <1>2, <1>4
<1> HIDE DEF s3
<1> DEFINE Marked(st) ==
             /\ Old(st)
             /\ st.deployments[n + 1].status = "succeeded"
             /\ \A c \in Builds \ {b} : st.builds[c] = store.builds[c]
             /\ st.builds[b].status = IF env = "production" THEN "deployed"
                                      ELSE store.builds[b].status
             /\ st.builds[b].path \in {store.builds[b].path} \cup Paths
<1>6. Marked(s4) /\ s4.events = store.events
  <2>1. s3 \in Stores /\ Known(s3, b)
    BY <1>5 DEF Old, Known
  <2>2. /\ UpdateBuildStatus(s3, b, "deployed") \in Stores
        /\ Quiet(s3, UpdateBuildStatus(s3, b, "deployed"), b)
        /\ UpdateBuildStatus(s3, b, "deployed").events = s3.events
        /\ UpdateBuildStatus(s3, b, "deployed").builds[b].status = "deployed"
    BY <1>0, <2>1, StatusEdit
  <2> QED BY <1>3, <1>5, <2>1, <2>2 DEF Quiet
<1> HIDE DEF s4
<1>7. /\ Marked(s5)
      /\ s5.events = [store.events EXCEPT ![b] = Append(@, "deployed")]
  <2>1. s4 \in Stores /\ MoreJobs(store, s4)
    BY <1>6 DEF Old
  <2>2. /\ s5 \in Stores
        /\ s5.builds = s4.builds
        /\ s5.approvals = s4.approvals
        /\ s5.deployments = s4.deployments
        /\ s5.events = [s4.events EXCEPT ![b] = Append(@, "deployed")]
        /\ MoreJobs(s4, s5)
    BY <1>0, <2>1, EventCall, SameJobs
  <2>3. MoreJobs(store, s5)
    BY <2>1, <2>2, MoreJobsChain
  <2> HIDE DEF s5
  <2> QED BY <1>6, <2>2, <2>3 DEF Old
<1> HIDE DEF s5
<1>8. DeployTrail(b, env) = <<s1, s2, s3, s4, s5>>
  BY DEF DeployTrail, s1, s2, s3, s4, s5
<1>9. /\ <<s1, s2, s3, s4, s5>> \in Seq(Stores)
      /\ Len(<<s1, s2, s3, s4, s5>>) = 5
  BY <1>1, <1>4, <1>5, <1>6, <1>7 DEF Old
<1>10. /\ Deploying(1, s1, b, env) /\ Deploying(2, s2, b, env)
       /\ Deploying(3, s3, b, env)
  BY <1>0, <1>1, <1>4, <1>5 DEF Old, Deploying
<1>11. Deploying(4, s4, b, env) /\ Deploying(5, s5, b, env)
  BY <1>0, <1>6, <1>7 DEF Old, Deploying
<1>12. \A k \in 1 .. 5 : Deploying(k, <<s1, s2, s3, s4, s5>>[k], b, env)
  <2> TAKE k \in 1 .. 5
  <2>1. k = 1 \/ k = 2 \/ k = 3 \/ k = 4 \/ k = 5
    OBVIOUS
  <2> QED BY <1>10, <1>11, <2>1
<1> QED BY <1>8, <1>9, <1>12

LEMMA RollbackCall ==
  ASSUME store \in Stores, NEW d \in DOMAIN store.deployments
  PROVE  LET new == UpdateDeploymentStatus(store, d, "rolled_back")
         IN  /\ new \in Stores
             /\ new.builds = store.builds
             /\ new.events = store.events
             /\ new.approvals = store.approvals
             /\ MoreJobs(store, new)
             /\ DOMAIN new.deployments = DOMAIN store.deployments
             /\ Len(new.deployments) = Len(store.deployments)
             /\ \A e \in DOMAIN store.deployments :
                  /\ new.deployments[e].build = store.deployments[e].build
                  /\ new.deployments[e].env = store.deployments[e].env
                  /\ new.deployments[e].status
                       \in {store.deployments[e].status, "rolled_back"}
<1> DEFINE new == UpdateDeploymentStatus(store, d, "rolled_back")
<1>1. d \in Nat /\ "rolled_back" \in DeploymentStatuses
  BY DEF Stores, DeploymentStatuses
<1>2. /\ new \in Stores
      /\ new.builds = store.builds
      /\ new.events = store.events
      /\ new.approvals = store.approvals
      /\ DOMAIN new.deployments = DOMAIN store.deployments
      /\ Len(new.deployments) = Len(store.deployments)
      /\ \A e \in DOMAIN store.deployments :
           IF e = d
           THEN /\ new.deployments[e].build = store.deployments[e].build
                /\ new.deployments[e].env = store.deployments[e].env
                /\ new.deployments[e].status = "rolled_back"
           ELSE new.deployments[e] = store.deployments[e]
      /\ new.edgeJobs = store.edgeJobs
  BY <1>1, DeploymentEdit, SMTT(30)
<1>4. MoreJobs(store, new)
  BY <1>2, SameJobs
<1> HIDE DEF new
<1>3. \A e \in DOMAIN store.deployments :
        /\ new.deployments[e].build = store.deployments[e].build
        /\ new.deployments[e].env = store.deployments[e].env
        /\ new.deployments[e].status \in {store.deployments[e].status, "rolled_back"}
  BY <1>2
<1> QED BY <1>2, <1>3, <1>4 DEF new

------------------------------------------------------------------------------
(* Steps.  A step is a segment with one of a few kinds of trail, a crash    *)
(* between segments, or a restart.                                          *)

\* No job is claimed while an older one of its workspace waits.
Ordered(st) ==
  \A i, j \in DOMAIN st.edgeJobs :
    i < j /\ st.edgeJobs[i].workspace = st.edgeJobs[j].workspace
    /\ st.edgeJobs[j].status = "claimed" => st.edgeJobs[i].status # "queued"

\* The jobs of `old` stay, go no stage back, and stay in order.
JobsFollow(old, new) ==
  /\ Ordered(old) => Ordered(new)
  /\ \A j \in DOMAIN old.edgeJobs :
       j \in DOMAIN new.edgeJobs /\ Stage(old.edgeJobs[j]) <= Stage(new.edgeJobs[j])

LEMMA StageBounds == \A r : Stage(r) \in 0 .. 2
BY DEF Stage

LEMMA MoreFollow ==
  ASSUME NEW old \in Stores, NEW new \in Stores, MoreJobs(old, new)
  PROVE  JobsFollow(old, new)
<1>1. Ordered(old) => Ordered(new)
  <2> SUFFICES ASSUME Ordered(old), NEW i \in DOMAIN new.edgeJobs,
                      NEW j \in DOMAIN new.edgeJobs, i < j,
                      new.edgeJobs[i].workspace = new.edgeJobs[j].workspace,
                      new.edgeJobs[j].status = "claimed"
               PROVE  new.edgeJobs[i].status # "queued"
    BY DEF Ordered
  <2>1. i \in Nat /\ j \in Nat
    BY DEF Stores
  <2>2. j \in DOMAIN old.edgeJobs
    BY DEF MoreJobs
  <2>3. i \in DOMAIN old.edgeJobs
    BY <2>1, <2>2 DEF MoreJobs
  <2> QED BY <2>2, <2>3 DEF MoreJobs, Ordered
<1>2. \A j \in DOMAIN old.edgeJobs :
        j \in DOMAIN new.edgeJobs /\ Stage(old.edgeJobs[j]) <= Stage(new.edgeJobs[j])
  BY StageBounds DEF MoreJobs
<1> QED BY <1>1, <1>2 DEF JobsFollow

\* A claim takes the first job that waits in its workspace.
LEMMA ClaimFollows ==
  ASSUME NEW st \in Stores, NEW w \in Workspaces, NEW a \in Agents, QueuedJobs(st, w) # {}
  PROVE  JobsFollow(st, ClaimEdgeJob(st, w, a))
<1> DEFINE n == NextJob(st, w)
           new == ClaimEdgeJob(st, w, a)
<1>1. /\ n \in QueuedJobs(st, w) /\ \A k \in QueuedJobs(st, w) : n <= k
      /\ JobMoves(st, new, n, "claimed")
      /\ new.edgeJobs[n] = [st.edgeJobs[n] EXCEPT !.status = "claimed", !.claimedBy = a]
  BY ClaimMoves
<1>2. /\ n \in DOMAIN st.edgeJobs /\ st.edgeJobs[n].workspace = w
      /\ st.edgeJobs[n].status = "queued" /\ st.edgeJobs[n] \in EdgeJobRecords
  BY <1>1 DEF QueuedJobs, Stores
<1>3. new.edgeJobs[n].workspace = w /\ new.edgeJobs[n].status = "claimed"
  BY <1>1, <1>2 DEF EdgeJobRecords
<1> HIDE DEF n, new
<1>4. Ordered(st) => Ordered(new)
  <2> SUFFICES ASSUME Ordered(st), NEW i \in DOMAIN st.edgeJobs,
                      NEW j \in DOMAIN st.edgeJobs, i < j,
                      new.edgeJobs[i].workspace = new.edgeJobs[j].workspace,
                      new.edgeJobs[j].status = "claimed"
               PROVE  new.edgeJobs[i].status # "queued"
    BY <1>1 DEF Ordered, JobMoves
  <2>0. i \in Nat /\ j \in Nat /\ n \in Nat
    BY <1>2 DEF Stores
  <2>1. CASE i = n
    BY <1>3, <2>1
  <2>2. CASE i # n /\ j = n
    <3>1. new.edgeJobs[i] = st.edgeJobs[i] /\ st.edgeJobs[i].workspace = w
      BY <1>1, <1>3, <2>2 DEF JobMoves
    <3>2. i \notin QueuedJobs(st, w)
      BY <1>1, <2>0, <2>2
    <3> QED BY <3>1, <3>2 DEF QueuedJobs
  <2>3. CASE i # n /\ j # n
    BY <1>1, <2>3 DEF JobMoves, Ordered
  <2> QED BY <2>1, <2>2, <2>3
<1>5. ASSUME NEW j \in DOMAIN st.edgeJobs
      PROVE  j \in DOMAIN new.edgeJobs /\ Stage(st.edgeJobs[j]) <= Stage(new.edgeJobs[j])
  <2>1. j \in DOMAIN new.edgeJobs /\ (j # n => new.edgeJobs[j] = st.edgeJobs[j])
    BY <1>1 DEF JobMoves
  <2>2. Stage(st.edgeJobs[n]) = 0
    BY <1>2 DEF Stage
  <2> QED BY <2>1, <2>2, StageBounds
<1> QED BY <1>4, <1>5 DEF JobsFollow, new

\* A completion ends a job, whatever its status was.
LEMMA CompletionFollows ==
  ASSUME NEW st \in Stores, NEW n \in DOMAIN st.edgeJobs, NEW s \in {"succeeded", "failed"}
  PROVE  JobsFollow(st, CompleteEdgeJob(st, n, s))
<1> DEFINE new == CompleteEdgeJob(st, n, s)
<1>1. /\ JobMoves(st, new, n, s)
      /\ new.edgeJobs[n] = [st.edgeJobs[n] EXCEPT !.status = s]
  BY CompletionMoves, ZenonT(60)
<1>2. st.edgeJobs[n] \in EdgeJobRecords
  BY DEF Stores
<1>3. /\ new.edgeJobs[n].workspace = st.edgeJobs[n].workspace
      /\ new.edgeJobs[n].status \notin {"queued", "claimed"}
  BY <1>1, <1>2 DEF EdgeJobRecords
<1> HIDE DEF new
<1>4. Ordered(st) => Ordered(new)
  BY <1>1, <1>3 DEF JobMoves, Ordered
<1>5. ASSUME NEW j \in DOMAIN st.edgeJobs
      PROVE  j \in DOMAIN new.edgeJobs /\ Stage(st.edgeJobs[j]) <= Stage(new.edgeJobs[j])
  <2>1. j \in DOMAIN new.edgeJobs /\ (j # n => new.edgeJobs[j] = st.edgeJobs[j])
    BY <1>1 DEF JobMoves
  <2>2. Stage(new.edgeJobs[n]) = 2
    BY <1>3 DEF Stage
  <2> QED BY <2>1, <2>2, StageBounds
<1> QED BY <1>4, <1>5 DEF JobsFollow, new

\* A trail some handler goes through from the present store.
IsTrail(t) ==
  \/ \E b \in Builds : CalmTrail(b, t)
  \/ \E b \in Builds, a \in Decisions : Known(store, b) /\ t = ReviewTrail(b, a)
  \/ \E b \in Builds, env \in Environments :
       /\ MayDeploy(b, env)
       /\ Len(store.deployments) < MaxDeployments
       /\ t = DeployTrail(b, env)
  \/ \E d \in DOMAIN store.deployments :
       t = <<UpdateDeploymentStatus(store, d, "rolled_back")>>
  \/ \E new \in Stores : JobsOnly(store, new) /\ JobsFollow(store, new) /\ t = <<new>>

LEMMA TrailsAreStores ==
  ASSUME store \in Stores, NEW t, IsTrail(t)
  PROVE  t \in Seq(Stores) /\ Len(t) > 0
<1>1. CASE \E b \in Builds : CalmTrail(b, t)
  BY <1>1 DEF CalmTrail
<1>2. CASE \E b \in Builds, a \in Decisions : Known(store, b) /\ t = ReviewTrail(b, a)
  <2> PICK b \in Builds, a \in Decisions : Known(store, b) /\ t = ReviewTrail(b, a)
    BY <1>2
  <2>1. ReviewTrail(b, a) \in Seq(Stores) /\ Len(ReviewTrail(b, a)) = 3
    BY ReviewCalls
  <2> QED BY <2>1
<1>3. CASE \E b \in Builds, env \in Environments : MayDeploy(b, env) /\ t = DeployTrail(b, env)
  BY <1>3, DeployCalls DEF MayDeploy
<1>4. CASE \E d \in DOMAIN store.deployments :
             t = <<UpdateDeploymentStatus(store, d, "rolled_back")>>
  BY <1>4, RollbackCall
<1>5. CASE \E new \in Stores : JobsOnly(store, new) /\ t = <<new>>
  BY <1>5
<1> QED BY <1>1, <1>2, <1>3, <1>4, <1>5 DEF IsTrail

LEMMA NextKinds ==
  ASSUME TypeOK, Next
  PROVE  \/ \E t : \E aw \in [Builds -> Awaits] : IsTrail(t) /\ Segment(t, aw)
         \/ Crash
         \/ Restart
<1>0. /\ store \in Stores
      /\ flight \in [Builds -> Awaits]
      /\ \A b \in Builds : \A x \in Awaits : Awaiting(b, x) \in [Builds -> Awaits]
      /\ {"none", "compiling", "reading"} \subseteq Awaits
  BY DEF TypeOK, Awaiting, Awaits
<1>1. ASSUME NEW b \in Builds, NEW mode \in RequestModes, NEW workspace \in Workspaces,
             NEW path \in Paths, RequestBuild(b, mode, workspace, path)
      PROVE  \E t : \E aw \in [Builds -> Awaits] : IsTrail(t) /\ Segment(t, aw)
  <2>1. mode \in Modes
    BY ControlApiAssumption
  <2>2. CalmTrail(b, IntakeTrail(b, mode, workspace, path))
    BY <1>0, <2>1, IntakeCalm
  <2> QED BY <1>0, <1>1, <2>2 DEF RequestBuild, IsTrail
<1>2. ASSUME NEW b \in Builds, Progress(b)
      PROVE  \E t : \E aw \in [Builds -> Awaits] : IsTrail(t) /\ Segment(t, aw)
  <2>1. CalmTrail(b, IndexTrail(b)) /\ CalmTrail(b, FailTrail(b))
    BY <1>0, IndexCalm, FailCalm
  <2>2. \A e \in BOOLEAN : CalmTrail(b, ManagedTrail(b, e)) /\ CalmTrail(b, EdgeTrail(b, e))
    BY <1>0, ManagedCalm, EdgeCalm
  <2>3. CASE FailBuild(b)
    BY <1>0, <2>1, <2>3 DEF FailBuild, IsTrail
  <2>4. CASE IndexArtifacts(b)
    BY <1>0, <2>1, <2>4 DEF IndexArtifacts, IsTrail
  <2>5. CASE FinishManaged(b)
    BY <1>0, <2>2, <2>5 DEF FinishManaged, IsTrail
  <2>6. CASE FinishEdge(b)
    BY <1>0, <2>2, <2>6 DEF FinishEdge, IsTrail
  <2> QED BY <1>2, <2>3, <2>4, <2>5, <2>6 DEF Progress
<1>3. ASSUME NEW b \in Builds, NEW action \in Decisions, Review(b, action)
      PROVE  \E t : \E aw \in [Builds -> Awaits] : IsTrail(t) /\ Segment(t, aw)
  BY <1>0, <1>3 DEF Review, IsTrail
<1>4. ASSUME NEW b \in Builds, NEW env \in Environments, Deploy(b, env)
      PROVE  \E t : \E aw \in [Builds -> Awaits] : IsTrail(t) /\ Segment(t, aw)
  BY <1>0, <1>4 DEF Deploy, IsTrail
<1>5. ASSUME NEW d \in DOMAIN store.deployments, Rollback(d)
      PROVE  \E t : \E aw \in [Builds -> Awaits] : IsTrail(t) /\ Segment(t, aw)
  BY <1>0, <1>5 DEF Rollback, IsTrail
<1>6. ASSUME NEW new, JobsOnly(store, new), JobsFollow(store, new), Segment(<<new>>, flight)
      PROVE  \E t : \E aw \in [Builds -> Awaits] : IsTrail(t) /\ Segment(t, aw)
  BY <1>0, <1>6 DEF JobsOnly, IsTrail
<1>7. ASSUME NEW workspace \in Workspaces, NEW b \in Builds, EnqueueJob(workspace, b)
      PROVE  \E t : \E aw \in [Builds -> Awaits] : IsTrail(t) /\ Segment(t, aw)
  <2>1. JobsOnly(store, CreateEdgeJob(store, workspace, b))
    BY <1>0, EdgeJobEdits
  <2>2. JobsFollow(store, CreateEdgeJob(store, workspace, b))
    BY <1>0, <2>1, NewJob, MoreFollow DEF JobsOnly
  <2> QED BY <1>6, <1>7, <2>1, <2>2 DEF EnqueueJob
<1>8. ASSUME NEW workspace \in Workspaces, NEW agent \in Agents, ClaimJob(workspace, agent)
      PROVE  \E t : \E aw \in [Builds -> Awaits] : IsTrail(t) /\ Segment(t, aw)
  BY <1>0, <1>6, <1>8, EdgeJobEdits, ClaimFollows DEF ClaimJob
<1>9. ASSUME NEW j \in DOMAIN store.edgeJobs, NEW outcome \in {"succeeded", "failed"},
             CompleteJob(j, outcome)
      PROVE  \E t : \E aw \in [Builds -> Awaits] : IsTrail(t) /\ Segment(t, aw)
  <2>1. j \in Nat /\ Workspaces # {}
    BY <1>0, StoreAssumption DEF Stores
  <2>2. JobsOnly(store, CompleteEdgeJob(store, j, outcome))
    BY <1>0, <2>1, EdgeJobEdits
  <2> QED BY <1>0, <1>6, <1>9, <2>2, CompletionFollows DEF CompleteJob
<1> QED BY <1>1, <1>2, <1>3, <1>4, <1>5, <1>7, <1>8, <1>9 DEF Next

\* What a segment does to the variables, whatever its trail.
LEMMA SegmentIn ==
  ASSUME TypeOK, NEW S, disk \in S \cup {Torn}, NEW t \in Seq(S), Len(t) > 0,
         NEW aw \in [Builds -> Awaits], Segment(t, aw)
  PROVE  /\ store' \in S
         /\ disk' \in S \cup {Torn}
         /\ flight' \in [Builds -> Awaits]
         /\ up' \in BOOLEAN
         /\ crashes' \in 0 .. MaxCrashes
         /\ lostWrites' \in 0 .. MaxLostWrites
         /\ \/ crashes' = crashes /\ up' /\ store' = t[Len(t)]
            \/ crashes' = crashes + 1
<1>0. /\ \A k \in 1 .. Len(t) : t[k] \in S
      /\ Len(t) \in Nat /\ Len(t) \in 1 .. Len(t)
      /\ MaxCrashes \in Nat /\ MaxLostWrites \in Nat
      /\ crashes \in 0 .. MaxCrashes /\ lostWrites \in 0 .. MaxLostWrites
      /\ TornImages \subseteq {Torn}
  BY ControlApiAssumption DEF TypeOK, TornImages
<1>1. CASE Completes(t, aw) /\ up
  <2>1. t[Len(t)] \in S
    BY <1>0
  <2>2. \A k \in 1 .. Len(t) - 1 : t[k] \in S
    BY <1>0
  <2>3. disk' \in S \cup {Torn} /\ lostWrites' \in 0 .. MaxLostWrites
    BY <1>0, <1>1, <2>1, <2>2 DEF Completes, Persist, Last
  <2> QED BY <1>0, <1>1, <2>1, <2>3 DEF Completes, Last
<1>2. CASE DiesDuring(t)
  <2>1. /\ flight' \in [Builds -> Awaits]
        /\ up' \in BOOLEAN
    BY <1>2 DEF DiesDuring, Awaits
  <2>2. PICK k \in 1 .. Len(t) : store' = t[k] /\ disk' \in {t[k]} \cup TornImages
    BY <1>2 DEF DiesDuring
  <2>3. /\ crashes' = crashes + 1 /\ crashes' \in 0 .. MaxCrashes
        /\ lostWrites' = lostWrites
    BY <1>0, <1>2 DEF DiesDuring
  <2> QED BY <1>0, <2>1, <2>2, <2>3
<1> QED BY <1>1, <1>2 DEF Segment

\* A set of stores that every trail stays in holds the store and the file.
LEMMA StepIn ==
  ASSUME TypeOK, Next,
         NEW S, S \subseteq Stores, EmptyStore \in S,
         store \in S, disk \in S \cup {Torn},
         \A t : IsTrail(t) => t \in Seq(S)
  PROVE  TypeOK' /\ store' \in S /\ disk' \in S \cup {Torn}
<1>1. ASSUME NEW t, NEW aw \in [Builds -> Awaits], IsTrail(t), Segment(t, aw)
      PROVE  TypeOK' /\ store' \in S /\ disk' \in S \cup {Torn}
  <2>1. t \in Seq(S) /\ Len(t) > 0
    BY <1>1, TrailsAreStores DEF TypeOK
  <2>2. /\ store' \in S
        /\ disk' \in S \cup {Torn}
        /\ flight' \in [Builds -> Awaits]
        /\ up' \in BOOLEAN
        /\ crashes' \in 0 .. MaxCrashes
        /\ lostWrites' \in 0 .. MaxLostWrites
    BY <1>1, <2>1, SegmentIn
  <2> QED BY <2>2 DEF TypeOK
<1>2. CASE Crash
  <2>1. flight' \in [Builds -> Awaits] /\ up' \in BOOLEAN
    BY <1>2 DEF Crash, Awaits
  <2>2. crashes' \in 0 .. MaxCrashes
    BY <1>2, ControlApiAssumption DEF Crash, TypeOK
  <2>3. store' = store /\ disk' = disk /\ lostWrites' = lostWrites
    BY <1>2 DEF Crash
  <2> QED BY <2>1, <2>2, <2>3 DEF TypeOK
<1>3. CASE Restart
  <2>1. /\ up' = TRUE /\ flight' = flight /\ crashes' = crashes
    BY <1>3 DEF Restart
  <2>2. CASE disk # Torn
    <3>1. store' = disk /\ disk' = disk /\ lostWrites' = lostWrites
      BY <1>3, <2>2 DEF Restart
    <3> QED BY <2>1, <2>2, <3>1 DEF TypeOK
  <2>3. CASE disk = Torn
    <3>1. store' = EmptyStore /\ Persist(<<EmptyStore>>)
      BY <1>3, <2>3 DEF Restart
    <3>2. disk' \in {EmptyStore, Torn}
      BY <2>3, <3>1 DEF Persist, Last, TornImages
    <3>3. lostWrites' \in 0 .. MaxLostWrites
      BY <3>1, ControlApiAssumption DEF Persist, TypeOK
    <3> QED BY <2>1, <3>1, <3>2, <3>3 DEF TypeOK
  <2> QED BY <2>2, <2>3
<1> QED BY <1>1, <1>2, <1>3, NextKinds

------------------------------------------------------------------------------
(* Theorems *)

LEMMA TypeInit == Init => TypeOK
BY EmptyStoreType, ControlApiAssumption DEF Init, TypeOK, Awaits

LEMMA TypeStep == TypeOK /\ [Next]_vars => TypeOK'
<1>1. ASSUME TypeOK, Next PROVE TypeOK'
  <2>1. \A t : IsTrail(t) => t \in Seq(Stores)
    BY <1>1, TrailsAreStores DEF TypeOK
  <2> QED BY <1>1, <2>1, EmptyStoreType, StepIn DEF TypeOK
<1>2. ASSUME TypeOK, UNCHANGED vars PROVE TypeOK'
  BY <1>2 DEF TypeOK, vars
<1> QED BY <1>1, <1>2

\* Every variable keeps its type: whatever the handlers, crashes and lost or
\* torn writes do, the store and the file hold records of the declared shapes.
THEOREM TypeCorrect == Spec => []TypeOK
BY TypeInit, TypeStep, PTL DEF Spec

------------------------------------------------------------------------------
\* ReleasedWhenDeployed is kept by every trail, at each of its calls: so it holds
\* of the file as well, and survives the crashes and restarts that read it back.
Released == {st \in Stores : ReleasedWhenDeployed(st)}

\* A store with no newly deployed build and the deployments of an older one.
LEMMA ReleasedKept ==
  ASSUME NEW old \in Released, NEW new \in Stores,
         Len(old.deployments) <= Len(new.deployments),
         \A d \in DOMAIN old.deployments :
           /\ new.deployments[d].build = old.deployments[d].build
           /\ new.deployments[d].env = old.deployments[d].env
           /\ new.deployments[d].status \in {old.deployments[d].status, "rolled_back"},
         NEW c \in Builds,
         new.builds[c].status = "deployed" => old.builds[c].status = "deployed",
         new.builds[c].status = "deployed"
  PROVE  \E d \in ProductionReleases(new, c) :
           new.deployments[d].status \in {"succeeded", "rolled_back"}
<1>1. PICK d \in ProductionReleases(old, c) :
        old.deployments[d].status \in {"succeeded", "rolled_back"}
  BY DEF Released, ReleasedWhenDeployed
<1>2. d \in DOMAIN old.deployments /\ d \in DOMAIN new.deployments
  BY DEF ProductionReleases, DeploymentsOf, Released, Stores
<1>3. d \in ProductionReleases(new, c)
  BY <1>2 DEF ProductionReleases, DeploymentsOf
<1> QED BY <1>1, <1>2, <1>3

LEMMA TrailsKeepReleased ==
  ASSUME store \in Released, NEW t, IsTrail(t)
  PROVE  t \in Seq(Released)
<1> store \in Stores
  BY DEF Released
<1>0. /\ store.deployments \in Seq(DeploymentRecords)
      /\ t \in Seq(Stores) /\ Len(t) \in Nat
  <2>1. t \in Seq(Stores)
    BY TrailsAreStores
  <2> QED BY <2>1 DEF Stores
<1> DEFINE Has(st, c) == \E d \in ProductionReleases(st, c) :
                           st.deployments[d].status \in {"succeeded", "rolled_back"}
<1> SUFFICES ASSUME NEW k \in 1 .. Len(t), NEW c \in Builds,
                    t[k].builds[c].status = "deployed"
             PROVE  Has(t[k], c)
  <2>1. \A k \in 1 .. Len(t) : t[k] \in Stores
    BY <1>0
  <2>2. \A k \in 1 .. Len(t) : t[k] \in Released
    BY <2>1 DEF Released, ReleasedWhenDeployed
  <2> QED BY <1>0, <2>2
<1>1. t[k] \in Stores
  BY <1>0
\* The common case: the deployments are kept and c was deployed before.
<1>2. ASSUME t[k].deployments = store.deployments,
             store.builds[c].status = "deployed"
      PROVE  Has(t[k], c)
  <2>1. \A d \in DOMAIN store.deployments :
           /\ t[k].deployments[d].build = store.deployments[d].build
           /\ t[k].deployments[d].env = store.deployments[d].env
           /\ t[k].deployments[d].status \in {store.deployments[d].status, "rolled_back"}
    BY <1>2
  <2>2. Len(store.deployments) <= Len(t[k].deployments)
    BY <1>0, <1>2
  <2> QED BY <1>1, <1>2, <2>1, <2>2, ReleasedKept
<1>3. ASSUME NEW b \in Builds, CalmTrail(b, t)
      PROVE  Has(t[k], c)
  <2>1. Calm(store, t[k], b)
    BY <1>3 DEF CalmTrail
  <2>2. t[k].deployments = store.deployments
    BY <2>1 DEF Calm, Quiet
  <2>3. store.builds[c].status = "deployed"
    BY <2>1 DEF Calm, Quiet, HandlerStatuses
  <2> QED BY <1>2, <2>2, <2>3
<1>4. ASSUME NEW b \in Builds, NEW a \in Decisions, Known(store, b), t = ReviewTrail(b, a)
      PROVE  Has(t[k], c)
  <2>1. Reviewing(k, t[k], b, a)
    BY <1>0, <1>4, ReviewCalls
  <2>2. DecidedStatus(a) # "deployed"
    BY DecidedStatuses
  <2>3. t[k].deployments = store.deployments /\ store.builds[c].status = "deployed"
    BY <2>1, <2>2 DEF Reviewing
  <2> QED BY <1>2, <2>3
<1>5. ASSUME NEW b \in Builds, NEW env \in Environments, MayDeploy(b, env),
             t = DeployTrail(b, env)
      PROVE  Has(t[k], c)
  <2> DEFINE n == Len(store.deployments)
             new == t[k]
  <2>1. Known(store, b)
    BY <1>5 DEF MayDeploy
  <2>2. Deploying(k, new, b, env)
    BY <1>0, <1>5, <2>1, DeployCalls
  <2>3. n \in Nat /\ DOMAIN store.deployments = 1 .. n
    BY <1>0
  <2>4. new.deployments \in Seq(DeploymentRecords)
    BY <1>1 DEF Stores
  <2> HIDE DEF new
  <2>5. CASE store.builds[c].status = "deployed"
    <3>1. \A d \in DOMAIN store.deployments :
             /\ new.deployments[d].build = store.deployments[d].build
             /\ new.deployments[d].env = store.deployments[d].env
             /\ new.deployments[d].status \in {store.deployments[d].status, "rolled_back"}
      BY <2>2, <2>3 DEF Deploying
    <3>2. n <= Len(new.deployments)
      BY <2>2, <2>3 DEF Deploying
    <3>3. new \in Stores /\ new.builds[c].status = "deployed"
      BY <1>1 DEF new
    <3> QED BY <2>5, <3>1, <3>2, <3>3, ReleasedKept DEF new
  <2>6. CASE store.builds[c].status # "deployed"
    <3>1. c = b /\ k >= 4 /\ env = "production"
      BY <2>2, <2>6 DEF new, Deploying
    <3>2. k >= 3
      BY <1>0, <3>1
    <3>3. /\ n + 1 \in DOMAIN new.deployments
          /\ new.deployments[n + 1].build = c
          /\ new.deployments[n + 1].env = "production"
          /\ new.deployments[n + 1].status = "succeeded"
      BY <2>2, <2>3, <2>4, <3>1, <3>2 DEF Deploying
    <3> QED BY <3>3 DEF ProductionReleases, DeploymentsOf, new
  <2> QED BY <2>5, <2>6
<1>6. ASSUME NEW d \in DOMAIN store.deployments,
             t = <<UpdateDeploymentStatus(store, d, "rolled_back")>>
      PROVE  Has(t[k], c)
  <2> DEFINE new == UpdateDeploymentStatus(store, d, "rolled_back")
  <2>1. /\ new.builds = store.builds
        /\ Len(new.deployments) = Len(store.deployments)
        /\ \A e \in DOMAIN store.deployments :
             /\ new.deployments[e].build = store.deployments[e].build
             /\ new.deployments[e].env = store.deployments[e].env
             /\ new.deployments[e].status \in {store.deployments[e].status, "rolled_back"}
    BY <1>0, <1>6, RollbackCall
  <2>2. t[k] = new
    BY <1>6
  <2> HIDE DEF new
  <2>3. Len(store.deployments) <= Len(new.deployments)
    BY <1>0, <2>1
  <2> QED BY <1>1, <2>1, <2>2, <2>3, ReleasedKept
<1>7. ASSUME NEW new \in Stores, JobsOnly(store, new), t = <<new>>
      PROVE  Has(t[k], c)
  BY <1>2, <1>7 DEF JobsOnly
<1> QED BY <1>3, <1>4, <1>5, <1>6, <1>7 DEF IsTrail

\* In memory and, after any crash, lost write, torn file or restart, in what is
\* read back, a build marked as deployed has a production deployment that went
\* through: the deploy handler saves the release before it marks the build.
THEOREM DeployedIsReleased == Spec => []DeployedHasRelease
<1> DEFINE Inv == TypeOK /\ store \in Released /\ disk \in Released \cup {Torn}
<1>0. EmptyStore \in Released
  BY EmptyStoreType DEF Released, ReleasedWhenDeployed, EmptyStore, NewBuild
<1>1. Init => Inv
  BY <1>0, EmptyStoreType, ControlApiAssumption DEF Init, TypeOK, Awaits
<1>2. Inv /\ [Next]_vars => Inv'
  <2>1. ASSUME Inv, Next PROVE Inv'
    <3>1. \A t : IsTrail(t) => t \in Seq(Released)
      BY <2>1, TrailsKeepReleased
    <3>2. Released \subseteq Stores
      BY DEF Released
    <3>3. TypeOK' /\ store' \in Released /\ disk' \in Released \cup {Torn}
      BY <1>0, <2>1, <3>1, <3>2, StepIn
    <3> QED BY <3>3
  <2>2. ASSUME Inv, UNCHANGED vars PROVE Inv'
    BY <2>2 DEF TypeOK, vars
  <2> QED BY <2>1, <2>2
<1>3. Inv => DeployedHasRelease
  BY DEF DeployedHasRelease, Released
<1> QED BY <1>1, <1>2, <1>3, PTL DEF Spec

------------------------------------------------------------------------------
(* Edge jobs.  A job is added, claimed or completed, and every other call   *)
(* leaves the list as it is.                                                *)

LEMMA TrailsFollow ==
  ASSUME store \in Stores, NEW t, IsTrail(t)
  PROVE  \A k \in 1 .. Len(t) : JobsFollow(store, t[k])
<1>1. ASSUME NEW new \in Stores, MoreJobs(store, new)
      PROVE  JobsFollow(store, new)
  BY <1>1, MoreFollow
<1>2. ASSUME NEW b \in Builds, CalmTrail(b, t), NEW k \in 1 .. Len(t)
      PROVE  JobsFollow(store, t[k])
  <2>1. t[k] \in Stores /\ Calm(store, t[k], b)
    BY <1>2 DEF CalmTrail
  <2> QED BY <1>1, <2>1 DEF Calm, Quiet
<1>3. ASSUME NEW b \in Builds, NEW a \in Decisions, Known(store, b), t = ReviewTrail(b, a),
             NEW k \in 1 .. Len(t)
      PROVE  JobsFollow(store, t[k])
  <2>1. k \in 1 .. 3 /\ t[k] \in Stores /\ Reviewing(k, t[k], b, a)
    BY <1>3, ReviewCalls
  <2> QED BY <1>1, <2>1 DEF Reviewing
<1>4. ASSUME NEW b \in Builds, NEW env \in Environments, MayDeploy(b, env),
             t = DeployTrail(b, env), NEW k \in 1 .. Len(t)
      PROVE  JobsFollow(store, t[k])
  <2>1. /\ t \in Seq(Stores) /\ Len(t) = 5
        /\ \A n \in 1 .. 5 : Deploying(n, t[n], b, env)
    BY <1>4, DeployCalls DEF MayDeploy
  <2>2. k \in 1 .. 5
    BY <2>1
  <2>3. \A q \in Seq(Stores) : \A n \in 1 .. Len(q) : q[n] \in Stores
    OBVIOUS
  <2>4. t[k] \in Stores
    BY <1>4, <2>1, <2>3
  <2> QED BY <1>1, <2>1, <2>2, <2>4 DEF Deploying
<1>5. ASSUME NEW d \in DOMAIN store.deployments,
             t = <<UpdateDeploymentStatus(store, d, "rolled_back")>>
      PROVE  \A k \in 1 .. Len(t) : JobsFollow(store, t[k])
  <2> DEFINE new == UpdateDeploymentStatus(store, d, "rolled_back")
  <2>1. new \in Stores /\ MoreJobs(store, new)
    BY RollbackCall
  <2>2. t = <<new>>
    BY <1>5
  <2> HIDE DEF new
  <2> QED BY <1>1, <2>1, <2>2
<1>6. ASSUME NEW new \in Stores, JobsFollow(store, new), t = <<new>>
      PROVE  \A k \in 1 .. Len(t) : JobsFollow(store, t[k])
  BY <1>6
<1> QED BY <1>2, <1>3, <1>4, <1>5, <1>6 DEF IsTrail

InOrder == {st \in Stores : Ordered(st)}

\* Through claims, completions, crashes, lost writes, torn files and restarts, no
\* job is claimed while an older job of its workspace still waits: the claim
\* searches the list from its oldest job, and no file is a later list cut short.
THEOREM ClaimsStayInOrder == Spec => []ClaimsInOrder
<1> DEFINE Inv == TypeOK /\ store \in InOrder /\ disk \in InOrder \cup {Torn}
<1>0. EmptyStore \in InOrder
  BY EmptyStoreType DEF InOrder, Ordered, EmptyStore
<1>1. Init => Inv
  BY <1>0, EmptyStoreType, ControlApiAssumption DEF Init, TypeOK, Awaits
<1>2. Inv /\ [Next]_vars => Inv'
  <2>1. ASSUME Inv, Next PROVE Inv'
    <3>1. ASSUME NEW t, IsTrail(t) PROVE t \in Seq(InOrder)
      <4>1. store \in Stores /\ Ordered(store)
        BY <2>1 DEF InOrder
      <4>2. t \in Seq(Stores)
        BY <3>1, <4>1, TrailsAreStores
      <4>3. \A k \in 1 .. Len(t) : t[k] \in InOrder
        BY <3>1, <4>1, <4>2, TrailsFollow DEF JobsFollow, InOrder
      <4> QED BY <4>2, <4>3
    <3>2. InOrder \subseteq Stores
      BY DEF InOrder
    <3>3. TypeOK' /\ store' \in InOrder /\ disk' \in InOrder \cup {Torn}
      BY <1>0, <2>1, <3>1, <3>2, StepIn
    <3> QED BY <3>3
  <2>2. ASSUME Inv, UNCHANGED vars PROVE Inv'
    BY <2>2 DEF TypeOK, vars
  <2> QED BY <2>1, <2>2
<1>3. Inv => ClaimsInOrder
  BY DEF ClaimsInOrder, InOrder, Ordered
<1> QED BY <1>1, <1>2, <1>3, PTL DEF Spec

------------------------------------------------------------------------------
(* Approvals.  Between its calls a review has a status without its record,  *)
(* so what follows holds of the last store of a trail only, and while the   *)
(* process has not crashed.                                                 *)

Stands(st) == \A b \in Builds :
                st.builds[b].status = "approved" => Standing(st, b, "approve")

\* Until the first crash every step goes through a whole trail.
LEMMA WholeTrail ==
  ASSUME TypeOK, Next, crashes = 0 => up, crashes' = 0
  PROVE  /\ crashes = 0 /\ up'
         /\ \E t : IsTrail(t) /\ store' = t[Len(t)]
<1>0. crashes \in Nat
  BY ControlApiAssumption DEF TypeOK
<1>1. ASSUME NEW t, NEW aw \in [Builds -> Awaits], IsTrail(t), Segment(t, aw)
      PROVE  crashes = 0 /\ up' /\ store' = t[Len(t)]
  <2>1. t \in Seq(Stores) /\ Len(t) > 0
    BY <1>1, TrailsAreStores DEF TypeOK
  <2>2. disk \in Stores \cup {Torn}
    BY DEF TypeOK
  <2>3. \/ crashes' = crashes /\ up' /\ store' = t[Len(t)]
        \/ crashes' = crashes + 1
    BY <1>1, <2>1, <2>2, SegmentIn
  <2> QED BY <1>0, <2>3
<1>2. ~Crash
  BY <1>0 DEF Crash
<1>3. ~Restart
  BY DEF Restart
<1> QED BY <1>1, <1>2, <1>3, NextKinds

\* A new record is the newest of its build and of no other.
LEMMA StandingAppend ==
  ASSUME NEW old \in Stores, NEW new, NEW b \in Builds, NEW a \in Decisions,
         new.approvals = Append(old.approvals, [build |-> b, action |-> a]),
         NEW c \in Builds, NEW x \in Decisions
  PROVE  Standing(new, c, x) <=> IF c = b THEN x = a ELSE Standing(old, c, x)
<1> DEFINE n   == Len(old.approvals)
           rec == [build |-> b, action |-> a]
<1>1. /\ n \in Nat
      /\ DOMAIN old.approvals = 1 .. n
      /\ DOMAIN new.approvals = 1 .. n + 1
      /\ \A i \in 1 .. n : new.approvals[i] = old.approvals[i]
      /\ new.approvals[n + 1] = rec
  <2>1. old.approvals \in Seq(ApprovalRecords) /\ rec \in ApprovalRecords
    BY DEF Stores, ApprovalRecords
  <2> QED BY <2>1
<1>2. rec.build = b /\ rec.action = a
  OBVIOUS
<1> HIDE DEF n, rec
<1>3. CASE c = b
  <2>1. ASSUME Standing(new, c, x) PROVE x = a
    <3>1. PICK i \in 1 .. n + 1 :
            /\ new.approvals[i] = [build |-> c, action |-> x]
            /\ \A j \in 1 .. n + 1 : j > i => new.approvals[j].build # c
      BY <1>1, <2>1 DEF Standing
    <3>2. ~(n + 1 > i)
      BY <1>1, <1>2, <1>3, <3>1
    <3>3. i = n + 1
      BY <1>1, <3>2
    <3>4. [build |-> c, action |-> x].action = a
      BY <1>1, <1>2, <3>1, <3>3
    <3> QED BY <3>4
  <2>2. ASSUME x = a PROVE Standing(new, c, x)
    <3>1. new.approvals[n + 1] = [build |-> c, action |-> x]
      BY <1>1, <1>3, <2>2 DEF rec
    <3>2. n + 1 \in DOMAIN new.approvals
          /\ \A j \in DOMAIN new.approvals : j > n + 1 => new.approvals[j].build # c
      BY <1>1
    <3> QED BY <3>1, <3>2 DEF Standing
  <2> QED BY <1>3, <2>1, <2>2
<1>4. CASE c # b
  <2>1. ASSUME Standing(new, c, x) PROVE Standing(old, c, x)
    <3>1. PICK i \in 1 .. n + 1 :
            /\ new.approvals[i] = [build |-> c, action |-> x]
            /\ \A j \in 1 .. n + 1 : j > i => new.approvals[j].build # c
      BY <1>1, <2>1 DEF Standing
    <3> DEFINE mine == [build |-> c, action |-> x]
    <3>m. mine.build = c
      OBVIOUS
    <3> HIDE DEF mine
    <3>2. new.approvals[i].build = c
      BY <3>m, <3>1 DEF mine
    <3>3. i # n + 1
      BY <1>1, <1>2, <1>4, <3>2
    <3>4. i \in 1 .. n
      BY <1>1, <3>3
    <3> QED BY <1>1, <3>1, <3>4 DEF Standing
  <2>2. ASSUME Standing(old, c, x) PROVE Standing(new, c, x)
    <3>1. PICK i \in 1 .. n :
            /\ old.approvals[i] = [build |-> c, action |-> x]
            /\ \A j \in 1 .. n : j > i => old.approvals[j].build # c
      BY <1>1, <2>2 DEF Standing
    <3>2. \A j \in 1 .. n + 1 : j > i => new.approvals[j].build # c
      BY <1>1, <1>2, <1>4, <3>1
    <3> QED BY <1>1, <3>1, <3>2 DEF Standing
  <2> QED BY <1>4, <2>1, <2>2
<1> QED BY <1>3, <1>4

LEMMA StandingSame ==
  ASSUME NEW old, NEW new, new.approvals = old.approvals, NEW c, NEW x
  PROVE  Standing(new, c, x) <=> Standing(old, c, x)
BY DEF Standing

LEMMA TrailsStand ==
  ASSUME store \in Stores, Stands(store), NEW t, IsTrail(t)
  PROVE  Stands(t[Len(t)])
<1> DEFINE new == t[Len(t)]
\* The common case: no decision is recorded and no build becomes approved.
<1>1. ASSUME new.approvals = store.approvals,
             \A c \in Builds : new.builds[c].status = "approved"
                                => store.builds[c].status = "approved"
      PROVE  Stands(new)
  BY <1>1, StandingSame DEF Stands
<1>2. ASSUME NEW b \in Builds, CalmTrail(b, t)
      PROVE  Stands(new)
  <2>1. t \in Seq(Stores) /\ Len(t) \in 1 .. Len(t)
    BY <1>2 DEF CalmTrail
  <2>2. Calm(store, new, b)
    BY <1>2, <2>1 DEF CalmTrail
  <2> HIDE DEF new
  <2> QED BY <1>1, <2>2 DEF Calm, Quiet, HandlerStatuses
<1>3. ASSUME NEW b \in Builds, NEW a \in Decisions, Known(store, b), t = ReviewTrail(b, a)
      PROVE  Stands(new)
  <2>1. Reviewing(3, new, b, a)
    BY <1>3, ReviewCalls
  <2> HIDE DEF new
  <2>2. /\ new.builds[b].status = DecidedStatus(a)
        /\ \A c \in Builds \ {b} : new.builds[c] = store.builds[c]
        /\ new.approvals = Append(store.approvals, [build |-> b, action |-> a])
    BY <2>1 DEF Reviewing
  <2>3. "approve" \in Decisions
    BY DEF Decisions
  <2>4. ASSUME NEW c \in Builds, new.builds[c].status = "approved"
        PROVE  Standing(new, c, "approve")
    <3>1. Standing(new, c, "approve")
            <=> IF c = b THEN "approve" = a ELSE Standing(store, c, "approve")
      BY <2>2, <2>3, StandingAppend
    <3> QED BY <2>2, <2>4, <3>1, DecidedStatuses DEF Stands
  <2> QED BY <2>4 DEF Stands
<1>4. ASSUME NEW b \in Builds, NEW env \in Environments, MayDeploy(b, env),
             t = DeployTrail(b, env)
      PROVE  Stands(new)
  <2>1. Known(store, b)
    BY <1>4 DEF MayDeploy
  <2>2. Deploying(5, new, b, env)
    BY <1>4, <2>1, DeployCalls
  <2> HIDE DEF new
  <2> QED BY <1>1, <2>2 DEF Deploying
<1>5. ASSUME NEW d \in DOMAIN store.deployments,
             t = <<UpdateDeploymentStatus(store, d, "rolled_back")>>
      PROVE  Stands(new)
  <2>1. new = UpdateDeploymentStatus(store, d, "rolled_back")
    BY <1>5
  <2> HIDE DEF new
  <2>2. new.builds = store.builds /\ new.approvals = store.approvals
    BY <1>5, <2>1, RollbackCall
  <2> QED BY <1>1, <2>2
<1>6. ASSUME NEW st \in Stores, JobsOnly(store, st), t = <<st>>
      PROVE  Stands(new)
  BY <1>1, <1>6 DEF JobsOnly
<1> QED BY <1>2, <1>3, <1>4, <1>5, <1>6 DEF IsTrail

StandsInv == TypeOK /\ (crashes = 0 => up /\ Stands(store))

LEMMA StandsInvariant == Spec => []StandsInv
<1>1. Init => StandsInv
  <2>1. Stands(EmptyStore)
    BY DEF Stands, EmptyStore, NewBuild
  <2> QED BY <2>1, TypeInit DEF Init, StandsInv
<1>2. StandsInv /\ [Next]_vars => StandsInv'
  <2>1. ASSUME StandsInv, Next, TypeOK' PROVE StandsInv'
    <3>1. ASSUME crashes' = 0 PROVE up' /\ Stands(store')
      <4>1. crashes = 0 /\ up' /\ \E t : IsTrail(t) /\ store' = t[Len(t)]
        BY <2>1, <3>1, WholeTrail DEF StandsInv
      <4>2. store \in Stores /\ Stands(store)
        BY <2>1, <4>1 DEF StandsInv, TypeOK
      <4> QED BY <4>1, <4>2, TrailsStand
    <3> QED BY <2>1, <3>1 DEF StandsInv, Stands
  <2>2. ASSUME StandsInv, UNCHANGED vars PROVE StandsInv'
    BY <2>2 DEF StandsInv, TypeOK, vars, Stands, Standing
  <2>3. ASSUME StandsInv, Next PROVE TypeOK'
    BY <2>3, TypeStep DEF StandsInv
  <2> QED BY <2>1, <2>2, <2>3
<1> QED BY <1>1, <1>2, PTL DEF Spec

\* While the process has not crashed, an approved build is one whose newest
\* recorded decision is to approve it, however many builds, reviewers and
\* create handlers overlap.
THEOREM ApprovedStands == Spec => []ApprovalStands
<1>1. StandsInv => ApprovalStands
  BY DEF StandsInv, ApprovalStands, Stands
<1> QED BY <1>1, StandsInvariant, PTL

\* While the process has not crashed, no job goes back: no claim, completion or
\* other request returns a claimed job to the queue or reopens a completed one.
THEOREM JobsAdvance ==
  ASSUME MaxCrashes = 0
  PROVE  Spec => JobsNeverRewind
<1> DEFINE Advance == \A j \in DOMAIN store.edgeJobs :
                        /\ j \in DOMAIN store'.edgeJobs
                        /\ Stage(store.edgeJobs[j]) <= Stage(store'.edgeJobs[j])
<1>1. StandsInv /\ StandsInv' /\ [Next]_vars => [Advance]_vars
  <2>1. ASSUME StandsInv, StandsInv', Next PROVE Advance
    <3>1. crashes = 0 /\ crashes' = 0
      BY <2>1, ControlApiAssumption DEF StandsInv, TypeOK
    <3>2. PICK t : IsTrail(t) /\ store' = t[Len(t)]
      BY <2>1, <3>1, WholeTrail DEF StandsInv
    <3>3. store \in Stores
      BY <2>1 DEF StandsInv, TypeOK
    <3>4. Len(t) \in 1 .. Len(t)
      BY <3>2, <3>3, TrailsAreStores
    <3>5. JobsFollow(store, store')
      BY <3>2, <3>3, <3>4, TrailsFollow
    <3> QED BY <3>5 DEF JobsFollow
  <2> QED BY <2>1
<1> QED BY <1>1, StandsInvariant, PTL DEF Spec, JobsNeverRewind

------------------------------------------------------------------------------
(* History.  Every call of every handler only adds to what the store tells, *)
(* and while no write has failed the file is no older than the store.       *)

Leads(p, q) == Len(p) <= Len(q) /\ \A i \in DOMAIN p : q[i] = p[i]

LEMMA LeadsExtends ==
  ASSUME NEW S, NEW p \in Seq(S), NEW q \in Seq(S), Leads(p, q)
  PROVE  Extends(p, q)
<1>1. /\ Len(p) \in Nat /\ Len(q) \in Nat /\ Len(p) <= Len(q)
      /\ DOMAIN p = 1 .. Len(p) /\ DOMAIN q = 1 .. Len(q)
      /\ \A i \in 1 .. Len(p) : q[i] = p[i]
  BY DEF Leads
<1>2. \A i \in 1 .. Len(p) : q[i] \in S
  BY <1>1
<1> DEFINE r == SubSeq(q, 1, Len(p))
<1>3. /\ r \in Seq(S) /\ Len(r) = Len(p)
      /\ \A i \in 1 .. Len(p) : r[i] = q[i]
  <2> DEFINE n == Len(p)
  <2>0. n \in Int /\ 1 \in Int /\ \A i \in 1 .. n : q[i] \in S
    BY <1>1, <1>2
  <2> HIDE DEF n
  <2>1. /\ SubSeq(q, 1, n) \in Seq(S)
        /\ Len(SubSeq(q, 1, n)) = IF 1 <= n THEN n - 1 + 1 ELSE 0
        /\ \A i \in 1 .. n - 1 + 1 : SubSeq(q, 1, n)[i] = q[1 + i - 1]
    BY <2>0, SubSeqProperties
  <2>2. n \in Nat
    BY <1>1 DEF n
  <2> QED BY <2>1, <2>2 DEF n
<1> HIDE DEF r
<1>4. r = p
  BY <1>1, <1>3, SeqEqual
<1> QED BY <1>1, <1>4 DEF Extends, r

\* A build stays known, and any deployment keeps its build and its environment.
Retells(old, new) ==
  /\ \A b \in Builds : Known(old, b) => Known(new, b)
  /\ \A b \in Builds : Leads(old.events[b], new.events[b])
  /\ Leads(old.approvals, new.approvals)
  /\ Len(old.deployments) <= Len(new.deployments)
  /\ \A d \in DOMAIN old.deployments :
       /\ new.deployments[d].build = old.deployments[d].build
       /\ new.deployments[d].env = old.deployments[d].env

LEMMA AppendLeads ==
  ASSUME NEW S, NEW p \in Seq(S), NEW x \in S
  PROVE  Leads(p, Append(p, x)) /\ Leads(p, p)
BY DEF Leads

LEMMA SameRetells ==
  ASSUME NEW st \in Stores
  PROVE  Retells(st, st)
<1>1. \A b \in Builds : Leads(st.events[b], st.events[b])
  BY DEF Stores, Leads
<1>2. Leads(st.approvals, st.approvals)
  BY DEF Stores, Leads
<1>3. Len(st.deployments) <= Len(st.deployments)
  BY DEF Stores
<1> QED BY <1>1, <1>2, <1>3 DEF Retells

LEMMA TrailsRetell ==
  ASSUME store \in Stores, NEW t, IsTrail(t), NEW k \in 1 .. Len(t)
  PROVE  Retells(store, t[k])
<1> DEFINE new == t[k]
<1>0. /\ store.events \in [Builds -> Seq(EventKinds)]
      /\ store.approvals \in Seq(ApprovalRecords)
      /\ store.deployments \in Seq(DeploymentRecords)
  BY DEF Stores
<1>1. t \in Seq(Stores)
  BY TrailsAreStores
<1>2. Leads(store.approvals, store.approvals)
      /\ \A b \in Builds : Leads(store.events[b], store.events[b])
      /\ Len(store.deployments) <= Len(store.deployments)
  BY SameRetells DEF Retells
<1>k. ASSUME NEW b \in Builds,
             \A c \in Builds \ {b} : new.builds[c] = store.builds[c],
             \/ new.builds[b].status = store.builds[b].status
             \/ new.builds[b].status # "absent"
      PROVE  \A c \in Builds : Known(store, c) => Known(new, c)
  BY <1>k DEF Known, Held
\* One more event, or none.
<1>3. ASSUME NEW b \in Builds, NEW x \in EventKinds,
             \/ new.events = store.events
             \/ new.events = [store.events EXCEPT ![b] = Append(@, x)]
      PROVE  \A c \in Builds : Leads(store.events[c], new.events[c])
  <2>1. ASSUME NEW c \in Builds PROVE Leads(store.events[c], Append(store.events[c], x))
    BY <1>0, <2>1, AppendLeads
  <2> QED BY <1>0, <1>2, <1>3, <2>1
<1>4. ASSUME NEW b \in Builds, CalmTrail(b, t) PROVE Retells(store, new)
  <2>1. Calm(store, new, b)
    BY <1>4 DEF CalmTrail
  <2> HIDE DEF new
  <2>2. \A c \in Builds : Leads(store.events[c], new.events[c])
    BY <1>2, <2>1 DEF Calm, Quiet, MoreEvents, Leads
  <2>3. \A c \in Builds : Known(store, c) => Known(new, c)
    BY <1>k, <2>1 DEF Calm, Quiet, HandlerStatuses
  <2> QED BY <1>2, <2>1, <2>2, <2>3 DEF Calm, Quiet, Retells
<1>5. ASSUME NEW b \in Builds, NEW a \in Decisions, Known(store, b), t = ReviewTrail(b, a)
      PROVE  Retells(store, new)
  <2>1. k \in 1 .. 3 /\ Reviewing(k, new, b, a)
    BY <1>5, ReviewCalls
  <2>2. a \in EventKinds /\ [build |-> b, action |-> a] \in ApprovalRecords
    BY DEF EventKinds, ApprovalRecords
  <2> HIDE DEF new
  <2>3. \A c \in Builds : Leads(store.events[c], new.events[c])
    BY <1>3, <2>1, <2>2 DEF Reviewing
  <2>4. Leads(store.approvals, Append(store.approvals, [build |-> b, action |-> a]))
    BY <1>0, <2>2, AppendLeads
  <2>5. \A c \in Builds : Known(store, c) => Known(new, c)
    BY <1>k, <2>1, DecidedStatuses DEF Reviewing
  <2> QED BY <1>2, <2>1, <2>3, <2>4, <2>5 DEF Reviewing, Retells
<1>6. ASSUME NEW b \in Builds, NEW env \in Environments, MayDeploy(b, env),
             t = DeployTrail(b, env)
      PROVE  Retells(store, new)
  <2>1. k \in 1 .. 5 /\ Deploying(k, new, b, env)
    BY <1>6, DeployCalls DEF MayDeploy
  <2>2. "deployed" \in EventKinds
    BY DEF EventKinds
  <2> HIDE DEF new
  <2>3. \A c \in Builds : Leads(store.events[c], new.events[c])
    BY <1>3, <2>1, <2>2 DEF Deploying
  <2>4. /\ new.approvals = store.approvals
        /\ Len(new.deployments) = Len(store.deployments) + 1
        /\ \A d \in 1 .. Len(store.deployments) : new.deployments[d] = store.deployments[d]
    BY <2>1 DEF Deploying
  <2>5. /\ Len(store.deployments) \in Nat
        /\ DOMAIN store.deployments = 1 .. Len(store.deployments)
    BY <1>0
  <2>6. \A c \in Builds : Known(store, c) => Known(new, c)
    BY <1>k, <2>1 DEF Deploying
  <2> QED BY <1>2, <2>3, <2>4, <2>5, <2>6 DEF Retells
<1>7. ASSUME NEW d \in DOMAIN store.deployments,
             t = <<UpdateDeploymentStatus(store, d, "rolled_back")>>
      PROVE  Retells(store, new)
  <2>1. new = UpdateDeploymentStatus(store, d, "rolled_back")
    BY <1>7
  <2> HIDE DEF new
  <2>2. /\ new.approvals = store.approvals /\ new.events = store.events
        /\ new.builds = store.builds
        /\ Len(new.deployments) = Len(store.deployments)
        /\ \A e \in DOMAIN store.deployments :
             /\ new.deployments[e].build = store.deployments[e].build
             /\ new.deployments[e].env = store.deployments[e].env
    BY <1>7, <2>1, RollbackCall
  <2> QED BY <1>0, <1>2, <2>2 DEF Retells, Known
<1>8. ASSUME NEW st \in Stores, JobsOnly(store, st), t = <<st>>
      PROVE  Retells(store, new)
  BY <1>8, SameRetells DEF JobsOnly, Retells, Known
<1> QED BY <1>4, <1>5, <1>6, <1>7, <1>8 DEF IsTrail

\* While no write has failed, the file is the store, or torn by a crash.
Current == lostWrites = 0 => disk = store \/ (~up /\ disk = Torn)

LEMMA CurrentStep == TypeOK /\ Current /\ [Next]_vars => Current'
<1>1. ASSUME TypeOK, Current, NEW t, NEW aw, Segment(t, aw) PROVE Current'
  <2>0. lostWrites \in Nat /\ TornImages \subseteq {Torn}
    BY <1>1, ControlApiAssumption DEF TypeOK, TornImages
  <2>1. CASE Completes(t, aw)
    BY <2>0, <2>1 DEF Completes, Persist, Current
  <2>2. CASE DiesDuring(t)
    BY <2>0, <2>2 DEF DiesDuring, Current
  <2> QED BY <1>1, <2>1, <2>2 DEF Segment
<1>2. ASSUME TypeOK, Current, Crash PROVE Current'
  BY <1>2 DEF Crash, Current
<1>3. ASSUME TypeOK, Current, Restart PROVE Current'
  <2>0. lostWrites \in Nat
    BY <1>3, ControlApiAssumption DEF TypeOK
  <2>1. Len(<<EmptyStore>>) = 1 /\ <<EmptyStore>>[1] = EmptyStore
    OBVIOUS
  <2> QED BY <1>3, <2>0, <2>1 DEF Restart, Persist, Last, Current
<1>4. ASSUME TypeOK, Current, UNCHANGED vars PROVE Current'
  BY <1>4 DEF Current, vars
<1> QED BY <1>1, <1>2, <1>3, <1>4, NextKinds

LEMMA CurrentInvariant == Spec => [](TypeOK /\ Current)
<1>1. Init => TypeOK /\ Current
  BY TypeInit DEF Init, Current
<1> QED BY <1>1, TypeStep, CurrentStep, PTL DEF Spec

\* A step from a file that lacks nothing takes nothing back.
LEMMA StepRetells ==
  ASSUME TypeOK, Current, lostWrites = 0, disk # Torn, Next
  PROVE  Retells(store, store')
<1>1. ASSUME NEW t, NEW aw, IsTrail(t), Segment(t, aw)
      PROVE  Retells(store, store')
  <2>1. t \in Seq(Stores) /\ Len(t) > 0 /\ store \in Stores
    BY <1>1, TrailsAreStores DEF TypeOK
  <2>2. \E k \in 1 .. Len(t) : store' = t[k]
    <3>1. Len(t) \in 1 .. Len(t)
      BY <2>1
    <3>2. CASE Completes(t, aw)
      BY <3>1, <3>2 DEF Completes, Last
    <3>3. CASE DiesDuring(t)
      BY <3>3 DEF DiesDuring
    <3> QED BY <1>1, <3>2, <3>3 DEF Segment
  <2> QED BY <1>1, <2>1, <2>2, TrailsRetell
<1>2. ASSUME store' = store PROVE Retells(store, store')
  BY <1>2, SameRetells DEF TypeOK
<1> QED BY <1>1, <1>2, NextKinds DEF Crash, Restart, Current

\* The audit trail holds through every request, crash and restart: no event, no
\* decision and no deployment that was shown is dropped, changed or reordered,
\* unless the file was torn or lacked a write when a restart read it.
THEOREM HistoryIsKept == Spec => HistorySurvives
<1>1. TypeOK /\ TypeOK' /\ Current /\ [Next]_vars
        => [lostWrites = 0 /\ disk # Torn => HistoryGrows]_vars
  <2>1. ASSUME TypeOK, TypeOK', Current, Next, lostWrites = 0, disk # Torn
        PROVE  HistoryGrows
    <3>1. Retells(store, store')
      BY <2>1, StepRetells
    <3>2. store \in Stores /\ store' \in Stores
      BY <2>1 DEF TypeOK
    <3>3. \A b \in Builds : Extends(store.events[b], store'.events[b])
      BY <3>1, <3>2, LeadsExtends DEF Retells, Stores
    <3>4. Extends(store.approvals, store'.approvals)
      BY <3>1, <3>2, LeadsExtends DEF Retells, Stores
    <3> QED BY <3>1, <3>3, <3>4 DEF HistoryGrows, Retells
  <2> QED BY <2>1
<1> QED BY <1>1, CurrentInvariant, PTL DEF Spec, HistorySurvives
==============================================================================
