-------------------------- MODULE Operators_proofs ---------------------------
(*****************************************************************************)
(* What the pure operators compute, for every input: the methods of the      *)
(* store on edge jobs, which the proofs of ControlApi and of EdgeFleet       *)
(* share, the policy engine with the planner in front of it, and the         *)
(* comparison of snapshots.                                                  *)
(*****************************************************************************)
EXTENDS MemoryStore, Planner, OdooDrift, WellFoundedInduction, TLAPS

------------------------------------------------------------------------------
(* The store *)

\* `new` differs from `old` in the edge jobs alone.
JobsOnly(old, new) ==
  /\ new \in Stores
  /\ new.builds = old.builds
  /\ new.events = old.events
  /\ new.approvals = old.approvals
  /\ new.deployments = old.deployments

\* The edge jobs are apart from builds, events, approvals and deployments.
LEMMA EdgeJobEdits ==
  ASSUME NEW st \in Stores, NEW w \in Workspaces
  PROVE  /\ \A b \in Builds : JobsOnly(st, CreateEdgeJob(st, w, b))
         /\ \A a \in Agents : JobsOnly(st, ClaimEdgeJob(st, w, a))
         /\ \A j \in Nat, s \in {"succeeded", "failed"} :
              JobsOnly(st, CompleteEdgeJob(st, j, s))
<1>0. st.edgeJobs \in Seq(EdgeJobRecords)
  BY DEF Stores
<1>1. ASSUME NEW l \in Seq(EdgeJobRecords)
      PROVE  JobsOnly(st, [st EXCEPT !.edgeJobs = l])
  BY DEF Stores, JobsOnly
<1>2. ASSUME NEW b \in Builds
      PROVE  JobsOnly(st, CreateEdgeJob(st, w, b))
  <2> DEFINE r == [workspace |-> w, build |-> b, status |-> "queued",
                   claimedBy |-> Nobody]
  <2>1. r \in EdgeJobRecords
    BY DEF EdgeJobRecords
  <2>2. CreateEdgeJob(st, w, b) = [st EXCEPT !.edgeJobs = Append(st.edgeJobs, r)]
    BY DEF CreateEdgeJob
  <2> HIDE DEF r
  <2> QED BY <1>0, <1>1, <2>1, <2>2
<1> DEFINE Put(j, r) == [st EXCEPT !.edgeJobs[j] = r]
<1>3. ASSUME NEW j \in DOMAIN st.edgeJobs, NEW r \in EdgeJobRecords
      PROVE  JobsOnly(st, Put(j, r))
  <2> DEFINE l == [st.edgeJobs EXCEPT ![j] = r]
  <2>1. l \in Seq(EdgeJobRecords)
    BY <1>0
  <2>2. Put(j, r) = [st EXCEPT !.edgeJobs = l]
    OBVIOUS
  <2> HIDE DEF l, Put
  <2> QED BY <1>1, <2>1, <2>2
<1>4. JobsOnly(st, st)
  BY DEF JobsOnly
<1>5. ASSUME NEW a \in Agents
      PROVE  JobsOnly(st, ClaimEdgeJob(st, w, a))
  <2> DEFINE j == NextJob(st, w)
             r == [st.edgeJobs[j] EXCEPT !.status = "claimed", !.claimedBy = a]
  <2>1. ClaimEdgeJob(st, w, a)
          = IF QueuedJobs(st, w) = {} THEN st ELSE Put(j, r)
    BY DEF ClaimEdgeJob
  <2>2. CASE j \in DOMAIN st.edgeJobs
    <3>1. st.edgeJobs[j] \in EdgeJobRecords
      BY <1>0, <2>2
    <3>2. r \in EdgeJobRecords
      BY <3>1 DEF EdgeJobRecords
    <3> HIDE DEF r, j, Put
    <3> QED BY <1>3, <1>4, <2>1, <2>2, <3>2
  <2>3. CASE j \notin DOMAIN st.edgeJobs
    <3>1. [st.edgeJobs EXCEPT ![j] = r] = st.edgeJobs
      BY <1>0, <2>3
    <3>2. Put(j, r) = [st EXCEPT !.edgeJobs = st.edgeJobs]
      BY <3>1
    <3> HIDE DEF r, j, Put
    <3> QED BY <1>0, <1>1, <1>4, <2>1, <3>2
  <2> QED BY <2>2, <2>3
<1>6. ASSUME NEW j \in Nat, NEW s \in {"succeeded", "failed"}
      PROVE  JobsOnly(st, CompleteEdgeJob(st, j, s))
  <2>1. CASE j \in DOMAIN st.edgeJobs
    <3> DEFINE r == [st.edgeJobs[j] EXCEPT !.status = s]
    <3>1. st.edgeJobs[j] \in EdgeJobRecords
      BY <1>0, <2>1
    <3>2. r \in EdgeJobRecords
      BY <3>1 DEF EdgeJobRecords
    <3>3. CompleteEdgeJob(st, j, s) = Put(j, r)
      BY <2>1 DEF CompleteEdgeJob
    <3> HIDE DEF r, Put
    <3> QED BY <1>3, <2>1, <3>2, <3>3
  <2>2. CASE j \notin DOMAIN st.edgeJobs
    BY <1>4, <2>2 DEF CompleteEdgeJob
  <2> QED BY <2>1, <2>2
<1> QED BY <1>2, <1>5, <1>6

\* `new` has the edge jobs of `old` and perhaps more, which are queued.
MoreJobs(old, new) ==
  /\ DOMAIN old.edgeJobs \subseteq DOMAIN new.edgeJobs
  /\ \A k \in DOMAIN old.edgeJobs : new.edgeJobs[k] = old.edgeJobs[k]
  /\ \A k \in DOMAIN new.edgeJobs \ DOMAIN old.edgeJobs :
       /\ new.edgeJobs[k].status = "queued"
       /\ \A i \in DOMAIN old.edgeJobs : i < k

LEMMA SameJobs ==
  ASSUME NEW old, NEW new, new.edgeJobs = old.edgeJobs
  PROVE  MoreJobs(old, new)
BY DEF MoreJobs

LEMMA MoreJobsChain ==
  ASSUME NEW old, NEW mid, NEW new, MoreJobs(old, mid), MoreJobs(mid, new)
  PROVE  MoreJobs(old, new)
BY DEF MoreJobs

LEMMA NewJob ==
  ASSUME NEW st \in Stores, NEW w \in Workspaces, NEW b \in Builds
  PROVE  MoreJobs(st, CreateEdgeJob(st, w, b))
<1> DEFINE r == [workspace |-> w, build |-> b, status |-> "queued", claimedBy |-> Nobody]
           l == Append(st.edgeJobs, r)
<1>1. CreateEdgeJob(st, w, b).edgeJobs = l
  BY DEF CreateEdgeJob, Stores
<1>2. st.edgeJobs \in Seq(EdgeJobRecords) /\ r.status = "queued"
  BY DEF Stores
<1> HIDE DEF r
<1>3. /\ DOMAIN st.edgeJobs = 1 .. Len(st.edgeJobs) /\ Len(st.edgeJobs) \in Nat
      /\ DOMAIN l = 1 .. Len(st.edgeJobs) + 1
      /\ \A k \in 1 .. Len(st.edgeJobs) : l[k] = st.edgeJobs[k]
      /\ l[Len(st.edgeJobs) + 1] = r
  BY <1>2
<1> HIDE DEF l
<1>4. \A k \in DOMAIN l \ DOMAIN st.edgeJobs :
        l[k].status = "queued" /\ \A i \in DOMAIN st.edgeJobs : i < k
  <2> TAKE k \in DOMAIN l \ DOMAIN st.edgeJobs
  <2>1. k = Len(st.edgeJobs) + 1
    BY <1>3
  <2> QED BY <1>2, <1>3, <2>1
<1> QED BY <1>1, <1>3, <1>4 DEF MoreJobs

LEMMA EmptyStoreType == EmptyStore \in Stores
<1> DEFINE w == CHOOSE x \in Workspaces : TRUE
           e == NewBuild("absent", "managed_api", w, <<>>)
<1>1. w \in Workspaces
  BY StoreAssumption
<1> HIDE DEF w
<1>2. e \in BuildRecords
  BY <1>1 DEF BuildRecords, NewBuild, Modes, TestStatuses
<1>3. EmptyStore = [builds |-> [b \in Builds |-> e], events |-> [b \in Builds |-> <<>>],
                    approvals |-> <<>>, deployments |-> <<>>, edgeJobs |-> <<>>]
  BY DEF EmptyStore, w
<1> HIDE DEF e
<1>4. /\ <<>> \in Seq(EventKinds) /\ <<>> \in Seq(ApprovalRecords)
      /\ <<>> \in Seq(DeploymentRecords) /\ <<>> \in Seq(EdgeJobRecords)
  OBVIOUS
<1> QED BY <1>2, <1>3, <1>4 DEF Stores

------------------------------------------------------------------------------
(* The edge jobs, one by one *)

\* `new` differs from `old` in the status of job j, and in who claimed it.
JobMoves(old, new, j, status) ==
  /\ new \in Stores
  /\ Len(new.edgeJobs) = Len(old.edgeJobs)
  /\ DOMAIN new.edgeJobs = DOMAIN old.edgeJobs
  /\ new.edgeJobs[j].status = status
  /\ \A k \in DOMAIN old.edgeJobs \ {j} : new.edgeJobs[k] = old.edgeJobs[k]

\* A nonempty set of jobs has a first one.
LEMMA FirstJob ==
  ASSUME NEW S \in SUBSET Nat, S # {}
  PROVE  \E j \in S : \A k \in S : j <= k
<1> DEFINE R == OpToRel(<, Nat)
<1>1. IsWellFoundedOn(R, Nat)
  BY NatLessThanWellFounded
<1>2. PICK j \in S : \A k \in S : ~(<<k, j>> \in R)
  <2> HIDE DEF R
  <2> QED BY <1>1, WFMin
<1>3. \A k, l \in Nat : k < l => <<k, l>> \in R
  BY DEF OpToRel
<1> HIDE DEF R
<1>4. ASSUME NEW k \in S
      PROVE  j <= k
  <2>1. j \in Nat /\ k \in Nat
    OBVIOUS
  <2>2. ~(k < j)
    BY <1>2, <1>3, <2>1
  <2> QED BY <2>1, <2>2
<1> QED BY <1>4

\* Replacing one job.
LEMMA PutJob ==
  ASSUME NEW st \in Stores, NEW j \in DOMAIN st.edgeJobs, NEW r \in EdgeJobRecords
  PROVE  LET new == [st EXCEPT !.edgeJobs[j] = r]
         IN  JobMoves(st, new, j, r.status) /\ new.edgeJobs[j] = r
<1> DEFINE new == [st EXCEPT !.edgeJobs[j] = r]
           l == [st.edgeJobs EXCEPT ![j] = r]
<1>1. st.edgeJobs \in Seq(EdgeJobRecords)
  BY DEF Stores
<1>2. /\ l \in Seq(EdgeJobRecords)
      /\ Len(l) = Len(st.edgeJobs) /\ DOMAIN l = DOMAIN st.edgeJobs
      /\ l[j] = r
      /\ \A k \in DOMAIN st.edgeJobs \ {j} : l[k] = st.edgeJobs[k]
  BY <1>1
<1>3. new = [st EXCEPT !.edgeJobs = l]
  OBVIOUS
<1> HIDE DEF l, new
<1>4. new \in Stores /\ new.edgeJobs = l
  BY <1>2, <1>3 DEF Stores
<1>5. JobMoves(st, new, j, r.status) /\ new.edgeJobs[j] = r
  BY <1>2, <1>4 DEF JobMoves
<1> QED BY <1>5 DEF new

\* A claim takes the first queued job of the workspace and no other.
LEMMA ClaimMoves ==
  ASSUME NEW st \in Stores, NEW w \in Workspaces, NEW a \in Agents,
         QueuedJobs(st, w) # {}
  PROVE  LET j   == NextJob(st, w)
             new == ClaimEdgeJob(st, w, a)
         IN  /\ j \in QueuedJobs(st, w)
             /\ \A k \in QueuedJobs(st, w) : j <= k
             /\ JobMoves(st, new, j, "claimed")
             /\ new.edgeJobs[j]
                  = [st.edgeJobs[j] EXCEPT !.status = "claimed", !.claimedBy = a]
<1> DEFINE j == NextJob(st, w)
           new == ClaimEdgeJob(st, w, a)
           r == [st.edgeJobs[j] EXCEPT !.status = "claimed", !.claimedBy = a]
<1>1. st.edgeJobs \in Seq(EdgeJobRecords)
  BY DEF Stores
<1>2. QueuedJobs(st, w) \in SUBSET Nat /\ QueuedJobs(st, w) \subseteq DOMAIN st.edgeJobs
  BY <1>1 DEF QueuedJobs
<1>3. j \in QueuedJobs(st, w) /\ \A k \in QueuedJobs(st, w) : j <= k
  <2>1. \E i \in QueuedJobs(st, w) : \A k \in QueuedJobs(st, w) : i <= k
    BY <1>2, FirstJob
  <2> QED BY <2>1 DEF NextJob
<1>4. j \in DOMAIN st.edgeJobs
  BY <1>2, <1>3
<1>5. r \in EdgeJobRecords /\ r.status = "claimed"
  <2>1. st.edgeJobs[j] \in EdgeJobRecords
    BY <1>1, <1>4
  <2> HIDE DEF j
  <2> QED BY <2>1 DEF EdgeJobRecords
<1>6. new = [st EXCEPT !.edgeJobs[j] = r]
  BY DEF ClaimEdgeJob
<1> HIDE DEF j, r, new
<1>7. JobMoves(st, new, j, "claimed") /\ new.edgeJobs[j] = r
  BY <1>4, <1>5, <1>6, PutJob
<1> QED BY <1>3, <1>7 DEF j, r, new

LEMMA CompletionMoves ==
  ASSUME NEW st \in Stores, NEW j \in DOMAIN st.edgeJobs,
         NEW s \in {"succeeded", "failed"}
  PROVE  LET new == CompleteEdgeJob(st, j, s)
         IN  /\ JobMoves(st, new, j, s)
             /\ new.edgeJobs[j] = [st.edgeJobs[j] EXCEPT !.status = s]
<1> DEFINE r == [st.edgeJobs[j] EXCEPT !.status = s]
           new == CompleteEdgeJob(st, j, s)
<1>1. r \in EdgeJobRecords /\ r.status = s
  <2>1. st.edgeJobs[j] \in EdgeJobRecords
    BY DEF Stores
  <2> QED BY <2>1 DEF EdgeJobRecords
<1>2. new = [st EXCEPT !.edgeJobs[j] = r]
  BY DEF CompleteEdgeJob
<1> HIDE DEF r, new
<1>3. JobMoves(st, new, j, s) /\ new.edgeJobs[j] = r
  BY <1>1, <1>2, PutJob
<1> QED BY <1>3 DEF r, new

------------------------------------------------------------------------------
(* The packages *)

\* Profiles from the mildest to the strictest.
Strictness(profile) ==
  CASE profile = "permissive_dev" -> 0 [] profile = "standard" -> 1
    [] profile = "strict" -> 2

LEMMA BlocksMore ==
  ASSUME NEW p \in Profiles, NEW q \in Profiles, Strictness(p) <= Strictness(q)
  PROVE  BlockedRules(p) \subseteq BlockedRules(q)
<1>1. /\ Strictness("permissive_dev") = 0
      /\ Strictness("standard") = 1
      /\ Strictness("strict") = 2
  BY DEF Strictness
<1>2. \/ p = "permissive_dev" \/ q = "strict" \/ (p = "standard" /\ q = "standard")
  BY <1>1 DEF Profiles
<1> QED
  BY <1>2 DEF BlockedRules, Profiles

\* A stricter profile finds the same rules in the same files, calls the same findings
\* critical, and asks for approval of every finding that a milder one asks it for; so no
\* build needs less review under a stricter profile.
THEOREM StricterAsksNoLess ==
  ASSUME NEW p \in Profiles, NEW q \in Profiles, Strictness(p) <= Strictness(q),
         NEW files, NEW elevated \in BOOLEAN
  PROVE  LET mild   == EvaluateBuildPolicy(p, files, elevated)
             strict == EvaluateBuildPolicy(q, files, elevated)
         IN  /\ {finding.rule : finding \in mild} = {finding.rule : finding \in strict}
             /\ \A old \in mild, new \in strict :
                  old.rule = new.rule =>
                    /\ new.critical = old.critical
                    /\ old.requiresApproval => new.requiresApproval
             /\ RequiresEscalation(mild) => RequiresEscalation(strict)
<1> DEFINE triggered == UNION {Triggered(file, elevated) : file \in files}
           Finding(profile, rule) ==
             [rule |-> rule, critical |-> rule \in CriticalRules,
              requiresApproval |-> rule \in BlockedRules(profile)]
           mild   == EvaluateBuildPolicy(p, files, elevated)
           strict == EvaluateBuildPolicy(q, files, elevated)
<1>1. /\ mild = {Finding(p, rule) : rule \in triggered}
      /\ strict = {Finding(q, rule) : rule \in triggered}
  BY DEF EvaluateBuildPolicy
<1>2. \A rule : rule \in BlockedRules(p) => rule \in BlockedRules(q)
  BY BlocksMore
<1>3. \A profile, rule :
        /\ Finding(profile, rule).rule = rule
        /\ Finding(profile, rule).critical <=> rule \in CriticalRules
        /\ Finding(profile, rule).requiresApproval <=> rule \in BlockedRules(profile)
  OBVIOUS
<1> HIDE DEF triggered, Finding, mild, strict
<1>4. {finding.rule : finding \in mild} = {finding.rule : finding \in strict}
  <2>1. /\ {finding.rule : finding \in mild} = triggered
        /\ {finding.rule : finding \in strict} = triggered
    BY <1>1, <1>3
  <2> QED BY <2>1
<1>5. ASSUME NEW old \in mild, NEW new \in strict, old.rule = new.rule
      PROVE  new.critical = old.critical /\ (old.requiresApproval => new.requiresApproval)
  <2>1. PICK rule : old = Finding(p, rule) /\ new = Finding(q, rule)
    BY <1>1, <1>3, <1>5
  <2>2. old.requiresApproval => new.requiresApproval
    BY <1>2, <1>3, <2>1
  <2>3. new.critical = old.critical
    BY <2>1 DEF Finding
  <2> QED BY <2>2, <2>3
<1>6. ASSUME RequiresEscalation(mild) PROVE RequiresEscalation(strict)
  <2>1. PICK old \in mild : old.requiresApproval \/ old.critical
    BY <1>6 DEF RequiresEscalation
  <2>2. PICK new \in strict : old.rule = new.rule
    BY <1>4
  <2> QED BY <1>5, <2>1, <2>2 DEF RequiresEscalation
<1> QED BY <1>4, <1>5, <1>6 DEF mild, strict

\* Elevation silences the rule on upstream files and nothing else.
THEOREM ElevationSilencesOneRule ==
  ASSUME NEW profile \in Profiles, NEW files
  PROVE  EvaluateBuildPolicy(profile, files, TRUE) =
           {finding \in EvaluateBuildPolicy(profile, files, FALSE) :
              finding.rule # "UPSTREAM_EDIT_REQUIRES_ELEVATION"}
<1>1. ASSUME NEW file \in files
      PROVE  Triggered(file, TRUE) =
               Triggered(file, FALSE) \ {"UPSTREAM_EDIT_REQUIRES_ELEVATION"}
  BY DEF Triggered, RuleIds
<1> DEFINE on == UNION {Triggered(file, TRUE) : file \in files}
           off == UNION {Triggered(file, FALSE) : file \in files}
           Finding(rule) == [rule |-> rule, critical |-> rule \in CriticalRules,
                             requiresApproval |-> rule \in BlockedRules(profile)]
<1>2. on = off \ {"UPSTREAM_EDIT_REQUIRES_ELEVATION"}
  <2>1. ASSUME NEW rule
        PROVE  rule \in on <=> rule \in off \ {"UPSTREAM_EDIT_REQUIRES_ELEVATION"}
    BY <1>1, Zenon
  <2> QED BY <2>1
<1>3. /\ EvaluateBuildPolicy(profile, files, TRUE) = {Finding(rule) : rule \in on}
      /\ EvaluateBuildPolicy(profile, files, FALSE) = {Finding(rule) : rule \in off}
  BY DEF EvaluateBuildPolicy
<1>4. \A rule : Finding(rule).rule = rule
  OBVIOUS
<1> HIDE DEF on, off, Finding
<1> QED
  BY <1>2, <1>3, <1>4

\* The control API takes the elevation of a build from its prompt.  Saying more in a
\* prompt adds modules, classes of change and elevation and takes none away...
THEOREM SayingMoreAddsOnly ==
  ASSUME NEW less \in Prompts, NEW more \in Prompts, less \subseteq more
  PROVE  /\ InferModules(less) \subseteq InferModules(more)
         /\ InferChangeClasses(less) \subseteq InferChangeClasses(more)
         /\ Elevated(less) => Elevated(more)
<1>1. ASSUME NEW S, S \cap less # {} PROVE S \cap more # {}
  BY <1>1
<1>2. InferModules(less) \subseteq InferModules(more)
  BY <1>1 DEF InferModules
<1>3. InferChangeClasses(less) \subseteq InferChangeClasses(more)
  BY <1>1 DEF InferChangeClasses
<1> QED
  BY <1>2, <1>3 DEF Elevated

\* ... and lowers the risk level in one case only: elevation makes a request of
\* critical risk one of high risk.
THEOREM RiskFallsFromCriticalOnly ==
  ASSUME NEW less \in Prompts, NEW more \in Prompts, less \subseteq more,
         NEW tolerance \in RiskLevels
  PROVE  RiskRank(RiskLevel(more, tolerance)) < RiskRank(RiskLevel(less, tolerance))
           <=> tolerance = "critical" /\ Elevated(more) /\ ~Elevated(less)
<1>1. Elevated(less) => Elevated(more)
  BY SayingMoreAddsOnly
<1>2. /\ RiskRank("low") = 1 /\ RiskRank("medium") = 2
      /\ RiskRank("high") = 3 /\ RiskRank("critical") = 4
  BY DEF RiskRank
<1> QED
  BY <1>1, <1>2 DEF RiskLevel, RiskLevels

\* A word of the planner's list turns a critical finding of the policy engine off:
\* whoever writes the prompt elevates the build.
THEOREM PromptElevates ==
  ASSUME NEW profile \in Profiles, NEW files, NEW prompt \in Prompts,
         "superuser" \in prompt
  PROVE  \A finding \in EvaluateBuildPolicy(profile, files, Elevated(prompt)) :
           finding.rule # "UPSTREAM_EDIT_REQUIRES_ELEVATION"
<1>1. Elevated(prompt)
  BY DEF Elevated, InferChangeClasses, CoreWords
<1>2. Elevated(prompt) = TRUE
  BY <1>1 DEF Elevated
<1> QED
  BY <1>2, ElevationSilencesOneRule

\* Drift is one-sided: an instance that has all the baseline has, and any module or
\* view besides, shows none; and a view that is gone never shows.
THEOREM AdditionsAreNoDrift ==
  ASSUME NEW desired, NEW actual,
         \A name \in DOMAIN desired.modules :
           name \in DOMAIN actual.modules /\ actual.modules[name] = desired.modules[name],
         \A id \in DOMAIN desired.views \cap DOMAIN actual.views :
           actual.views[id] = desired.views[id]
  PROVE  DetectDrift(desired, actual) = {}
<1>1. ModuleDrift(desired, actual) = {}
  BY DEF ModuleDrift, Lookup
<1>2. DriftedViews(desired, actual) = {}
  BY DEF DriftedViews, Lookup
<1> QED
  BY <1>1, <1>2 DEF DetectDrift, ViewDrift

\* A module of the baseline that is gone or in another state always shows, provided
\* no state is taken for that of a module that is not there.
THEOREM LostModulesShow ==
  ASSUME NEW desired, NEW actual,
         NEW name \in DOMAIN desired.modules,
         desired.modules[name] # Undefined,
         Lookup(actual.modules, name) # desired.modules[name]
  PROVE  \E diff \in DetectDrift(desired, actual) :
           /\ diff.category = "module" /\ diff.key = name
           /\ diff.desired = desired.modules[name]
<1> DEFINE diff == [category |-> "module", key |-> name,
                    desired |-> desired.modules[name],
                    actual |-> Lookup(actual.modules, name)]
<1>1. diff \in DetectDrift(desired, actual)
  BY DEF DetectDrift, ModuleDrift
<1> QED
  BY <1>1
==============================================================================
