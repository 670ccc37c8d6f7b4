--------------------------- MODULE Records_proofs ----------------------------
(*****************************************************************************)
(* What the records of the control API account for.  While nothing crashes   *)
(* it implements the release gate: each trail maps, from its first to its    *)
(* last store, to a step of ReleaseGate or to none.  However often it        *)
(* crashes, an approval is good for one production release, the events lag   *)
(* behind the records by no more than the crashes, and a build offered for   *)
(* approval is complete; without one, every create request settles.          *)
(*****************************************************************************)
EXTENDS ControlApi_proofs, FiniteSetTheorems

------------------------------------------------------------------------------
(* The release gate *)

\* The step of the gate that a change of the store amounts to.
GateStep(old, new) ==
  \E b \in Builds :
    \/ \E a \in Decisions :
         /\ NewestDecisions(new)
              = {v \in NewestDecisions(old) : v[1] # b} \cup {<<b, a>>}
         /\ OpenBuilds(new) = IF a = "approve" THEN OpenBuilds(old) \cup {b}
                                               ELSE OpenBuilds(old) \ {b}
         /\ ProtectedReleases(new) = ProtectedReleases(old)
    \/ \E env \in ProtectedEnvironments :
         /\ b \in OpenBuilds(old)
         /\ <<b, "approve">> \in NewestDecisions(old)
         /\ \E id \in 1 .. MaxDeployments :
              /\ \A r \in ProtectedReleases(old) : r[1] # id
              /\ ProtectedReleases(new) = ProtectedReleases(old) \cup {<<id, b, env>>}
         /\ OpenBuilds(new) = IF env = "production" THEN OpenBuilds(old) \ {b}
                                                    ELSE OpenBuilds(old)
         /\ NewestDecisions(new) = NewestDecisions(old)
    \/ /\ OpenBuilds(new) = OpenBuilds(old) \ {b}
       /\ NewestDecisions(new) = NewestDecisions(old)
       /\ ProtectedReleases(new) = ProtectedReleases(old)

GateSame(old, new) ==
  /\ NewestDecisions(new) = NewestDecisions(old)
  /\ OpenBuilds(new) = OpenBuilds(old)
  /\ ProtectedReleases(new) = ProtectedReleases(old)

LEMMA SameDecisions ==
  ASSUME NEW old, NEW new, new.approvals = old.approvals
  PROVE  NewestDecisions(new) = NewestDecisions(old)
BY StandingSame DEF NewestDecisions

LEMMA SameReleases ==
  ASSUME NEW old, NEW new,
         DOMAIN new.deployments = DOMAIN old.deployments,
         \A d \in DOMAIN old.deployments :
           /\ new.deployments[d].build = old.deployments[d].build
           /\ new.deployments[d].env = old.deployments[d].env
  PROVE  ProtectedReleases(new) = ProtectedReleases(old)
BY DEF ProtectedReleases

\* What a handler that neither reviews nor deploys does to the gate.
LEMMA CalmGate ==
  ASSUME NEW b \in Builds, NEW new, Calm(store, new, b)
  PROVE  GateStep(store, new) \/ GateSame(store, new)
<1>1. NewestDecisions(new) = NewestDecisions(store)
  BY SameDecisions DEF Calm, Quiet
<1>2. ProtectedReleases(new) = ProtectedReleases(store)
  BY DEF Calm, Quiet, ProtectedReleases
<1>3. CASE new.builds[b].status = store.builds[b].status
  <2>1. OpenBuilds(new) = OpenBuilds(store)
    BY <1>3 DEF Calm, Quiet, OpenBuilds
  <2> QED BY <1>1, <1>2, <2>1 DEF GateSame
<1>4. CASE new.builds[b].status \in HandlerStatuses
  <2>1. OpenBuilds(new) = OpenBuilds(store) \ {b}
    BY <1>4 DEF Calm, Quiet, OpenBuilds, HandlerStatuses
  <2> QED BY <1>1, <1>2, <2>1 DEF GateStep
<1> QED BY <1>3, <1>4 DEF Calm

LEMMA ReviewGate ==
  ASSUME store \in Stores, NEW b \in Builds, NEW a \in Decisions, NEW new,
         Reviewing(3, new, b, a)
  PROVE  GateStep(store, new)
<1>1. /\ new.deployments = store.deployments
      /\ new.builds[b].status = DecidedStatus(a)
      /\ \A c \in Builds \ {b} : new.builds[c] = store.builds[c]
      /\ new.approvals = Append(store.approvals, [build |-> b, action |-> a])
  BY DEF Reviewing
<1>2. ProtectedReleases(new) = ProtectedReleases(store)
  BY <1>1 DEF ProtectedReleases
<1>3. OpenBuilds(new) = IF a = "approve" THEN OpenBuilds(store) \cup {b}
                                         ELSE OpenBuilds(store) \ {b}
  BY <1>1, DecidedStatuses DEF OpenBuilds
<1>4. \A c \in Builds, x \in Decisions :
        Standing(new, c, x) <=> IF c = b THEN x = a ELSE Standing(store, c, x)
  BY <1>1, StandingAppend
<1>5. NewestDecisions(new) = {v \in NewestDecisions(store) : v[1] # b} \cup {<<b, a>>}
  BY <1>4 DEF NewestDecisions
<1> QED BY <1>2, <1>3, <1>5 DEF GateStep

LEMMA DeployGate ==
  ASSUME store \in Stores, Stands(store), NEW b \in Builds, NEW env \in Environments,
         MayDeploy(b, env), Len(store.deployments) < MaxDeployments,
         NEW new, new \in Stores, Deploying(5, new, b, env)
  PROVE  GateStep(store, new) \/ GateSame(store, new)
<1> DEFINE n == Len(store.deployments)
<1>1. /\ n \in Nat
      /\ DOMAIN store.deployments = 1 .. n
      /\ DOMAIN new.deployments = 1 .. n + 1
      /\ n + 1 \in 1 .. MaxDeployments
  <2>1. /\ store.deployments \in Seq(DeploymentRecords)
        /\ new.deployments \in Seq(DeploymentRecords)
    BY DEF Stores
  <2>2. Len(new.deployments) = n + 1
    BY DEF Deploying
  <2> QED BY <2>1, <2>2, ControlApiAssumption
<1>2. /\ new.deployments[n + 1].build = b
      /\ new.deployments[n + 1].env = env
      /\ \A d \in 1 .. n : new.deployments[d] = store.deployments[d]
      /\ \A c \in Builds \ {b} : new.builds[c] = store.builds[c]
      /\ new.builds[b].status = IF env = "production" THEN "deployed"
                                ELSE store.builds[b].status
  BY DEF Deploying
<1>3. NewestDecisions(new) = NewestDecisions(store)
  BY SameDecisions DEF Deploying
<1> HIDE DEF n
<1>4. CASE env \in ProtectedEnvironments
  <2>1. store.builds[b].status = "approved"
    BY <1>4 DEF MayDeploy
  <2>2. b \in OpenBuilds(store) /\ <<b, "approve">> \in NewestDecisions(store)
    BY <2>1 DEF OpenBuilds, NewestDecisions, Stands, Decisions
  <2>3. OpenBuilds(new) = IF env = "production" THEN OpenBuilds(store) \ {b}
                                                ELSE OpenBuilds(store)
    BY <1>2 DEF OpenBuilds
  <2>4. \A r \in ProtectedReleases(store) : r[1] # n + 1
    BY <1>1 DEF ProtectedReleases
  <2>5. ProtectedReleases(new) = ProtectedReleases(store) \cup {<<n + 1, b, env>>}
    <3>1. ASSUME NEW r \in ProtectedReleases(new)
          PROVE  r \in ProtectedReleases(store) \cup {<<n + 1, b, env>>}
      <4>1. CASE r[1] = n + 1
        BY <1>2, <4>1 DEF ProtectedReleases
      <4>2. CASE r[1] # n + 1
        <5>1. r[1] \in 1 .. n
          BY <1>1, <4>2 DEF ProtectedReleases
        <5> QED BY <1>1, <1>2, <5>1 DEF ProtectedReleases
      <4> QED BY <4>1, <4>2
    <3>2. ASSUME NEW r \in ProtectedReleases(store)
          PROVE  r \in ProtectedReleases(new)
      <4>1. r[1] \in 1 .. n /\ r[1] \in 1 .. n + 1
        BY <1>1 DEF ProtectedReleases
      <4> QED BY <1>1, <1>2, <4>1 DEF ProtectedReleases
    <3>3. <<n + 1, b, env>> \in ProtectedReleases(new)
      BY <1>1, <1>2, <1>4 DEF ProtectedReleases
    <3> QED BY <3>1, <3>2, <3>3
  <2> QED BY <1>1, <1>3, <1>4, <2>2, <2>3, <2>4, <2>5 DEF GateStep
<1>5. CASE env \notin ProtectedEnvironments
  <2>1. OpenBuilds(new) = OpenBuilds(store)
    BY <1>2, <1>5 DEF OpenBuilds, ProtectedEnvironments
  <2>2. ProtectedReleases(new) = ProtectedReleases(store)
    <3>1. ASSUME NEW r \in (1 .. MaxDeployments) \X Builds \X ProtectedEnvironments
          PROVE  r \in ProtectedReleases(new) <=> r \in ProtectedReleases(store)
      <4>1. CASE r[1] = n + 1
        <5>1. r \notin ProtectedReleases(new)
          BY <1>2, <1>5, <4>1 DEF ProtectedReleases
        <5>2. r \notin ProtectedReleases(store)
          BY <1>1, <4>1 DEF ProtectedReleases
        <5> QED BY <5>1, <5>2
      <4>2. CASE r[1] \in 1 .. n
        <5>1. r[1] \in 1 .. n + 1
          BY <1>1, <4>2
        <5> QED BY <1>1, <1>2, <4>2, <5>1 DEF ProtectedReleases
      <4>3. CASE r[1] \notin 1 .. n + 1
        <5>1. r[1] \notin 1 .. n
          BY <1>1, <4>3
        <5> QED BY <1>1, <4>3, <5>1 DEF ProtectedReleases
      <4> QED BY <1>1, <4>1, <4>2, <4>3
    <3> QED BY <3>1 DEF ProtectedReleases
  <2> QED BY <1>3, <2>1, <2>2 DEF GateSame
<1> QED BY <1>4, <1>5

LEMMA TrailsMap ==
  ASSUME store \in Stores, Stands(store), NEW t, IsTrail(t)
  PROVE  GateStep(store, t[Len(t)]) \/ GateSame(store, t[Len(t)])
<1> DEFINE new == t[Len(t)]
<1>1. ASSUME NEW b \in Builds, CalmTrail(b, t)
      PROVE  GateStep(store, new) \/ GateSame(store, new)
  <2>1. t \in Seq(Stores) /\ Len(t) \in 1 .. Len(t)
    BY <1>1 DEF CalmTrail
  <2>2. Calm(store, new, b)
    BY <1>1, <2>1 DEF CalmTrail
  <2> HIDE DEF new
  <2> QED BY <2>2, CalmGate
<1>2. ASSUME NEW b \in Builds, NEW a \in Decisions, Known(store, b), t = ReviewTrail(b, a)
      PROVE  GateStep(store, new) \/ GateSame(store, new)
  <2>1. Reviewing(3, new, b, a)
    BY <1>2, ReviewCalls
  <2> HIDE DEF new
  <2> QED BY <2>1, ReviewGate
<1>3. ASSUME NEW b \in Builds, NEW env \in Environments, MayDeploy(b, env),
             Len(store.deployments) < MaxDeployments, t = DeployTrail(b, env)
      PROVE  GateStep(store, new) \/ GateSame(store, new)
  <2>1. Known(store, b)
    BY <1>3 DEF MayDeploy
  <2>2. Deploying(5, new, b, env) /\ new \in Stores
    BY <1>3, <2>1, DeployCalls
  <2> HIDE DEF new
  <2> QED BY <1>3, <2>2, DeployGate
<1>4. ASSUME NEW d \in DOMAIN store.deployments,
             t = <<UpdateDeploymentStatus(store, d, "rolled_back")>>
      PROVE  GateStep(store, new) \/ GateSame(store, new)
  <2>1. new = UpdateDeploymentStatus(store, d, "rolled_back")
    BY <1>4
  <2> HIDE DEF new
  <2>2. /\ new.builds = store.builds /\ new.approvals = store.approvals
        /\ DOMAIN new.deployments = DOMAIN store.deployments
        /\ \A e \in DOMAIN store.deployments :
             /\ new.deployments[e].build = store.deployments[e].build
             /\ new.deployments[e].env = store.deployments[e].env
    BY <1>4, <2>1, RollbackCall
  <2>3. OpenBuilds(new) = OpenBuilds(store)
    BY <2>2 DEF OpenBuilds
  <2> QED BY <2>2, <2>3, SameDecisions, SameReleases DEF GateSame
<1>5. ASSUME NEW st \in Stores, JobsOnly(store, st), t = <<st>>
      PROVE  GateStep(store, new) \/ GateSame(store, new)
  <2>1. new = st
    BY <1>5
  <2> HIDE DEF new
  <2> QED BY <1>5, <2>1, SameDecisions DEF JobsOnly, GateSame, OpenBuilds, ProtectedReleases
<1> QED BY <1>1, <1>2, <1>3, <1>4, <1>5 DEF IsTrail

\* With no crash, the handlers of the control API, in any interleaving, open a
\* build only by an approval, release an open build only under its standing
\* approval, use the approval up in production and never lose a release.
THEOREM GateImplemented ==
  ASSUME MaxCrashes = 0
  PROVE  Spec => ImplementsGate
<1>1. Init => Gate!Init
  <2>1. NewestDecisions(EmptyStore) = {}
    BY DEF NewestDecisions, Standing, EmptyStore
  <2>2. OpenBuilds(EmptyStore) = {}
    BY DEF OpenBuilds, EmptyStore, NewBuild
  <2>3. ProtectedReleases(EmptyStore) = {}
    BY DEF ProtectedReleases, EmptyStore
  <2> QED BY <2>1, <2>2, <2>3 DEF Init, Gate!Init
<1>2. StandsInv /\ StandsInv' /\ [Next]_vars => [Gate!Next]_(Gate!vars)
  <2>1. ASSUME StandsInv, StandsInv', Next PROVE [Gate!Next]_(Gate!vars)
    <3>1. crashes = 0 /\ crashes' = 0
      BY <2>1, ControlApiAssumption DEF StandsInv, TypeOK
    <3>2. store \in Stores /\ Stands(store)
      BY <2>1, <3>1 DEF StandsInv, TypeOK
    <3>3. PICK t : IsTrail(t) /\ store' = t[Len(t)]
      BY <2>1, <3>1, WholeTrail DEF StandsInv
    <3>4. GateStep(store, store') \/ GateSame(store, store')
      BY <3>2, <3>3, TrailsMap
    <3>5. CASE GateStep(store, store')
      BY <3>5 DEF GateStep, Gate!Next, Gate!Decide, Gate!Release, Gate!Lapse
    <3>6. CASE GateSame(store, store')
      BY <3>6 DEF GateSame, Gate!vars
    <3> QED BY <3>4, <3>5, <3>6
  <2>2. ASSUME UNCHANGED vars PROVE [Gate!Next]_(Gate!vars)
    BY <2>2 DEF vars, Gate!vars
  <2> QED BY <2>1, <2>2
<1> QED BY <1>1, <1>2, StandsInvariant, PTL DEF Spec, ImplementsGate, Gate!Spec

------------------------------------------------------------------------------
(* The budget.  The debt of a store is what its releases and open approvals *)
(* exceed its approve records by.  Whole trails never raise it; inside the  *)
(* trails of review and deployment it may be one higher, which is what a    *)
(* crash there makes permanent, and what an old image in the file may hold. *)

\* The debt of every build in st is at most c.
Paid(st, c) ==
  \A b \in Builds :
    Cardinality(ProductionReleases(st, b)) + OpenReleases(st, b)
      <= Cardinality(Approvals(st, b)) + c

------------------------------------------------------------------------------
(* Counting *)

\* The counts of a store are numbers.
LEMMA Counts ==
  ASSUME NEW st \in Stores, NEW b \in Builds
  PROVE  /\ IsFiniteSet(ProductionReleases(st, b))
         /\ Cardinality(ProductionReleases(st, b)) \in Nat
         /\ IsFiniteSet(Approvals(st, b))
         /\ Cardinality(Approvals(st, b)) \in Nat
         /\ OpenReleases(st, b) \in {0, 1}
<1>1. /\ Len(st.approvals) \in Nat /\ DOMAIN st.approvals = 1 .. Len(st.approvals)
      /\ Len(st.deployments) \in Nat /\ DOMAIN st.deployments = 1 .. Len(st.deployments)
  BY DEF Stores
<1>2. /\ Approvals(st, b) \in SUBSET Nat
      /\ \A i \in Approvals(st, b) : i <= Len(st.approvals)
  BY <1>1 DEF Approvals
<1>3. /\ ProductionReleases(st, b) \in SUBSET Nat
      /\ \A d \in ProductionReleases(st, b) : d <= Len(st.deployments)
  BY <1>1 DEF ProductionReleases, DeploymentsOf
<1>4. IsFiniteSet(Approvals(st, b)) /\ IsFiniteSet(ProductionReleases(st, b))
  BY <1>1, <1>2, <1>3, FS_BoundedSetOfNaturals
<1> QED BY <1>4, FS_CardinalityType DEF OpenReleases

\* A decision adds one approve record, or none.
LEMMA ApprovalCount ==
  ASSUME NEW old \in Stores, NEW new, NEW b \in Builds, NEW a \in Decisions,
         new.approvals = Append(old.approvals, [build |-> b, action |-> a]),
         NEW c \in Builds
  PROVE  Cardinality(Approvals(new, c))
           = Cardinality(Approvals(old, c)) + IF c = b /\ a = "approve" THEN 1 ELSE 0
<1> DEFINE n   == Len(old.approvals)
           rec == [build |-> b, action |-> a]
           app == [build |-> c, action |-> "approve"]
<1>1. /\ n \in Nat
      /\ DOMAIN old.approvals = 1 .. n
      /\ DOMAIN new.approvals = 1 .. n + 1
      /\ \A i \in 1 .. n : new.approvals[i] = old.approvals[i]
      /\ new.approvals[n + 1] = rec
  <2>1. old.approvals \in Seq(ApprovalRecords) /\ rec \in ApprovalRecords
    BY DEF Stores, ApprovalRecords
  <2> QED BY <2>1
<1>2. rec = app <=> c = b /\ a = "approve"
  <2>1. rec.build = b /\ rec.action = a /\ app.build = c /\ app.action = "approve"
    OBVIOUS
  <2>2. ASSUME c = b, a = "approve" PROVE rec = app
    BY <2>2
  <2> HIDE DEF rec, app
  <2> QED BY <2>1, <2>2
<1>3. /\ Approvals(old, c) = {i \in 1 .. n : old.approvals[i] = app}
      /\ Approvals(new, c) = {i \in 1 .. n + 1 : new.approvals[i] = app}
  BY <1>1 DEF Approvals
<1> HIDE DEF n, rec, app
<1>4. CASE rec = app
  <2>1. Approvals(new, c) = Approvals(old, c) \cup {n + 1}
    BY <1>1, <1>3, <1>4
  <2>2. n + 1 \notin Approvals(old, c)
    BY <1>1, <1>3
  <2> QED BY <1>2, <1>4, <2>1, <2>2, Counts, FS_AddElement
<1>5. CASE rec # app
  <2>1. Approvals(new, c) = Approvals(old, c)
    BY <1>1, <1>3, <1>5
  <2> QED BY <1>2, <1>5, <2>1, Counts
<1> QED BY <1>4, <1>5

\* A deployment adds one production release, or none.
LEMMA ReleaseCount ==
  ASSUME NEW old \in Stores, NEW new \in Stores, NEW b \in Builds,
         NEW env \in Environments,
         Len(new.deployments) = Len(old.deployments) + 1,
         \A d \in 1 .. Len(old.deployments) : new.deployments[d] = old.deployments[d],
         new.deployments[Len(old.deployments) + 1].build = b,
         new.deployments[Len(old.deployments) + 1].env = env,
         NEW c \in Builds
  PROVE  Cardinality(ProductionReleases(new, c))
           = Cardinality(ProductionReleases(old, c))
               + IF c = b /\ env = "production" THEN 1 ELSE 0
<1> DEFINE n == Len(old.deployments)
           P(d) == d.build = c /\ d.env = "production"
<1>1. /\ n \in Nat
      /\ DOMAIN old.deployments = 1 .. n
      /\ DOMAIN new.deployments = 1 .. n + 1
  <2>1. old.deployments \in Seq(DeploymentRecords) /\ new.deployments \in Seq(DeploymentRecords)
    BY DEF Stores
  <2> QED BY <2>1
<1>2. /\ ProductionReleases(old, c) = {d \in 1 .. n : P(old.deployments[d])}
      /\ ProductionReleases(new, c) = {d \in 1 .. n + 1 : P(new.deployments[d])}
  BY <1>1 DEF ProductionReleases, DeploymentsOf
<1>3. P(new.deployments[n + 1]) <=> c = b /\ env = "production"
  OBVIOUS
<1>4. \A d \in 1 .. n : new.deployments[d] = old.deployments[d]
  OBVIOUS
<1> HIDE DEF n, P
<1>5. CASE c = b /\ env = "production"
  <2>1. ProductionReleases(new, c) = ProductionReleases(old, c) \cup {n + 1}
    BY <1>1, <1>2, <1>3, <1>4, <1>5
  <2>2. n + 1 \notin ProductionReleases(old, c)
    <3>1. n + 1 \notin 1 .. n
      BY <1>1
    <3> QED BY ONLY <1>2, <3>1
  <2>3. IsFiniteSet(ProductionReleases(old, c))
    BY Counts
  <2>4. Cardinality(ProductionReleases(old, c) \cup {n + 1})
          = Cardinality(ProductionReleases(old, c)) + 1
    BY <2>2, <2>3, FS_AddElement
  <2> QED BY <1>5, <2>1, <2>4
<1>6. CASE ~(c = b /\ env = "production")
  <2>1. ProductionReleases(new, c) = ProductionReleases(old, c)
    BY <1>1, <1>2, <1>3, <1>4, <1>6
  <2> QED BY <1>6, <2>1, Counts
<1> QED BY <1>5, <1>6

\* Only the build and the environment of a deployment decide what it is.
LEMMA ReleasesKept ==
  ASSUME NEW old, NEW new, NEW c \in Builds,
         DOMAIN new.deployments = DOMAIN old.deployments,
         \A d \in DOMAIN old.deployments :
           /\ new.deployments[d].build = old.deployments[d].build
           /\ new.deployments[d].env = old.deployments[d].env
  PROVE  ProductionReleases(new, c) = ProductionReleases(old, c)
BY DEF ProductionReleases, DeploymentsOf

------------------------------------------------------------------------------
(* Trails *)

\* Nothing recorded, nothing released, and no build newly approved.
LEMMA NoNewDebt ==
  ASSUME NEW old \in Stores, NEW new \in Stores, NEW n \in Nat, Paid(old, n),
         new.approvals = old.approvals,
         DOMAIN new.deployments = DOMAIN old.deployments,
         \A d \in DOMAIN old.deployments :
           /\ new.deployments[d].build = old.deployments[d].build
           /\ new.deployments[d].env = old.deployments[d].env,
         \A c \in Builds : new.builds[c].status = "approved"
                             => old.builds[c].status = "approved"
  PROVE  Paid(new, n)
<1> SUFFICES ASSUME NEW c \in Builds
             PROVE  Cardinality(ProductionReleases(new, c)) + OpenReleases(new, c)
                      <= Cardinality(Approvals(new, c)) + n
  BY DEF Paid
<1>1. ProductionReleases(new, c) = ProductionReleases(old, c)
  BY ReleasesKept
<1>2. Approvals(new, c) = Approvals(old, c)
  BY DEF Approvals
<1>3. OpenReleases(new, c) <= OpenReleases(old, c)
  BY DEF OpenReleases
<1>4. Cardinality(ProductionReleases(old, c)) + OpenReleases(old, c)
        <= Cardinality(Approvals(old, c)) + n
  BY DEF Paid
<1> QED BY <1>1, <1>2, <1>3, <1>4, Counts

\* A store within a debt is within any larger one.
LEMMA MoreDebt ==
  ASSUME NEW st \in Stores, NEW n \in Nat, Paid(st, n)
  PROVE  Paid(st, n + 1)
<1> SUFFICES ASSUME NEW b \in Builds
             PROVE  Cardinality(ProductionReleases(st, b)) + OpenReleases(st, b)
                      <= Cardinality(Approvals(st, b)) + (n + 1)
  BY DEF Paid
<1>1. Cardinality(ProductionReleases(st, b)) + OpenReleases(st, b)
        <= Cardinality(Approvals(st, b)) + n
  BY DEF Paid
<1> QED BY <1>1, Counts

\* The store a process starts with, or resets a torn file to, owes nothing.
LEMMA NoDebtYet ==
  ASSUME NEW n \in Nat
  PROVE  Paid(EmptyStore, n)
<1> SUFFICES ASSUME NEW b \in Builds
             PROVE  Cardinality(ProductionReleases(EmptyStore, b)) + OpenReleases(EmptyStore, b)
                      <= Cardinality(Approvals(EmptyStore, b)) + n
  BY DEF Paid
<1>1. /\ ProductionReleases(EmptyStore, b) = {}
      /\ Approvals(EmptyStore, b) = {}
      /\ OpenReleases(EmptyStore, b) = 0
  BY DEF ProductionReleases, DeploymentsOf, Approvals, OpenReleases, EmptyStore, NewBuild
<1> QED BY <1>1, FS_EmptySet

\* Between the status and the record a review owes a record.
LEMMA ReviewDebt ==
  ASSUME store \in Stores, NEW n \in Nat, Paid(store, n), NEW b \in Builds,
         NEW a \in Decisions, NEW k \in 1 .. 3, NEW new \in Stores,
         Reviewing(k, new, b, a)
  PROVE  Paid(new, n + 1) /\ (k = 3 => Paid(new, n))
<1> DEFINE A(st, c) == Cardinality(Approvals(st, c))
           P(st, c) == Cardinality(ProductionReleases(st, c))
           O(st, c) == OpenReleases(st, c)
<1>1. ASSUME NEW c \in Builds
      PROVE  /\ P(new, c) + O(new, c) <= A(new, c) + (n + 1)
             /\ k = 3 => P(new, c) + O(new, c) <= A(new, c) + n
  <2>1. /\ P(store, c) \in Nat /\ A(store, c) \in Nat /\ O(store, c) \in {0, 1}
        /\ O(new, c) \in {0, 1}
        /\ P(store, c) + O(store, c) <= A(store, c) + n
    BY Counts DEF Paid
  <2>2. P(new, c) = P(store, c)
    BY ReleasesKept DEF Reviewing
  <2>3. A(new, c) = A(store, c)
          + IF k # 1 /\ c = b /\ a = "approve" THEN 1 ELSE 0
    <3>1. CASE k = 1
      BY <2>1, <3>1 DEF Reviewing, Approvals
    <3>2. CASE k # 1
      <4>1. new.approvals = Append(store.approvals, [build |-> b, action |-> a])
        BY <3>2 DEF Reviewing
      <4> QED BY <3>2, <4>1, ApprovalCount
    <3> QED BY <3>1, <3>2
  <2>4. O(new, c) = IF c = b THEN IF a = "approve" THEN 1 ELSE 0 ELSE O(store, c)
    BY DecidedStatuses DEF Reviewing, OpenReleases
  <2> HIDE DEF A, P, O
  <2> QED BY <2>1, <2>2, <2>3, <2>4
<1> QED BY <1>1 DEF Paid

\* A production release is in the store before the approval it uses is used up.
LEMMA DeployDebt ==
  ASSUME store \in Stores, NEW n \in Nat, Paid(store, n), NEW b \in Builds,
         NEW env \in Environments, MayDeploy(b, env), NEW k \in 1 .. 5,
         NEW new \in Stores, Deploying(k, new, b, env)
  PROVE  Paid(new, n + 1) /\ (k = 5 => Paid(new, n))
<1> DEFINE A(st, c) == Cardinality(Approvals(st, c))
           P(st, c) == Cardinality(ProductionReleases(st, c))
           O(st, c) == OpenReleases(st, c)
<1>1. ASSUME NEW c \in Builds
      PROVE  /\ P(new, c) + O(new, c) <= A(new, c) + (n + 1)
             /\ k = 5 => P(new, c) + O(new, c) <= A(new, c) + n
  <2>1. /\ P(store, c) \in Nat /\ A(store, c) \in Nat /\ O(store, c) \in {0, 1}
        /\ O(new, c) \in {0, 1}
        /\ P(store, c) + O(store, c) <= A(store, c) + n
    BY Counts DEF Paid
  <2>2. P(new, c) = P(store, c) + IF c = b /\ env = "production" THEN 1 ELSE 0
    BY ReleaseCount DEF Deploying
  <2>3. A(new, c) = A(store, c)
    BY DEF Deploying, Approvals
  <2>4. env = "production" => O(store, b) = 1
    BY DEF MayDeploy, ProtectedEnvironments, OpenReleases
  <2>5. O(new, c) = IF c = b /\ k >= 4 /\ env = "production" THEN 0 ELSE O(store, c)
    BY DEF Deploying, OpenReleases
  <2> HIDE DEF A, P, O
  <2> QED BY <2>1, <2>2, <2>3, <2>4, <2>5
<1> QED BY <1>1 DEF Paid

\* Every handler, whole, keeps the debt; cut short, it may raise it by one.
LEMMA TrailDebt ==
  ASSUME store \in Stores, NEW n \in Nat, Paid(store, n), NEW t, IsTrail(t)
  PROVE  /\ \A k \in 1 .. Len(t) : Paid(t[k], n + 1)
         /\ Paid(t[Len(t)], n)
<1>0. t \in Seq(Stores) /\ Len(t) > 0
  BY TrailsAreStores
<1> SUFFICES ASSUME NEW k \in 1 .. Len(t)
             PROVE  Paid(t[k], n + 1) /\ (k = Len(t) => Paid(t[k], n))
  BY <1>0
<1> DEFINE new == t[k]
<1>1. new \in Stores
  BY <1>0
<1>2. ASSUME NEW b \in Builds, CalmTrail(b, t)
      PROVE  Paid(new, n)
  <2>1. Calm(store, new, b)
    BY <1>2 DEF CalmTrail
  <2> HIDE DEF new
  <2>2. /\ new.approvals = store.approvals
        /\ new.deployments = store.deployments
        /\ \A c \in Builds : new.builds[c].status = "approved"
                              => store.builds[c].status = "approved"
    BY <2>1 DEF Calm, Quiet, HandlerStatuses
  <2> QED BY <1>1, <2>2, NoNewDebt
<1>3. ASSUME NEW b \in Builds, NEW a \in Decisions, Known(store, b), t = ReviewTrail(b, a)
      PROVE  Paid(new, n + 1) /\ (k = Len(t) => Paid(new, n))
  <2>1. Len(t) = 3 /\ k \in 1 .. 3 /\ Reviewing(k, new, b, a)
    BY <1>3, ReviewCalls
  <2> HIDE DEF new
  <2> QED BY <1>1, <2>1, ReviewDebt
<1>4. ASSUME NEW b \in Builds, NEW env \in Environments, MayDeploy(b, env),
             t = DeployTrail(b, env)
      PROVE  Paid(new, n + 1) /\ (k = Len(t) => Paid(new, n))
  <2>0. Known(store, b)
    BY <1>4 DEF MayDeploy
  <2>1. Len(t) = 5 /\ k \in 1 .. 5 /\ Deploying(k, new, b, env)
    BY <1>4, <2>0, DeployCalls
  <2> HIDE DEF new
  <2> QED BY <1>1, <1>4, <2>1, DeployDebt
<1>5. ASSUME NEW d \in DOMAIN store.deployments,
             t = <<UpdateDeploymentStatus(store, d, "rolled_back")>>
      PROVE  Paid(new, n)
  <2>1. new = UpdateDeploymentStatus(store, d, "rolled_back")
    BY <1>5
  <2> HIDE DEF new
  <2>2. /\ new.builds = store.builds /\ new.approvals = store.approvals
        /\ DOMAIN new.deployments = DOMAIN store.deployments
        /\ \A e \in DOMAIN store.deployments :
             /\ new.deployments[e].build = store.deployments[e].build
             /\ new.deployments[e].env = store.deployments[e].env
    BY <1>5, <2>1, RollbackCall
  <2> QED BY <1>1, <2>2, NoNewDebt
<1>6. ASSUME NEW st \in Stores, JobsOnly(store, st), t = <<st>>
      PROVE  Paid(new, n)
  <2>1. new = st
    BY <1>6
  <2> HIDE DEF new
  <2> QED BY <1>1, <1>6, <2>1, NoNewDebt DEF JobsOnly
<1>7. Paid(new, n) => Paid(new, n + 1)
  BY <1>1, MoreDebt
<1> QED BY <1>2, <1>3, <1>4, <1>5, <1>6, <1>7 DEF IsTrail

------------------------------------------------------------------------------
(* The audit trail.  A decision and a deployment are recorded first and told *)
(* as an event last, so inside a trail one record is untold; what a crash    *)
(* leaves untold stays so.                                                   *)

\* st tells of no decision and no deployment it has no record of, and leaves at
\* most n records of any build untold.
Told(st, n) ==
  \A b \in Builds :
    LET decided  == Cardinality(EventsOf(st, b, Decisions))
        deployed == Cardinality(EventsOf(st, b, {"deployed"}))
        records  == Cardinality(DecisionsOn(st, b)) + Cardinality(DeploymentsOf(st, b))
    IN  /\ decided <= Cardinality(DecisionsOn(st, b))
        /\ deployed <= Cardinality(DeploymentsOf(st, b))
        /\ records <= decided + deployed + n

\* The elements of a sequence that are in K.
Hits(p, K) == {i \in DOMAIN p : p[i] \in K}

LEMMA HitsCount ==
  ASSUME NEW S, NEW p \in Seq(S), NEW K
  PROVE  IsFiniteSet(Hits(p, K)) /\ Cardinality(Hits(p, K)) \in Nat
<1>1. /\ Len(p) \in Nat /\ Hits(p, K) \in SUBSET Nat
      /\ \A i \in Hits(p, K) : i <= Len(p)
  BY DEF Hits
<1>2. IsFiniteSet(Hits(p, K))
  BY <1>1, FS_BoundedSetOfNaturals
<1> QED BY <1>2, FS_CardinalityType

\* One more element is one more hit, or none.
LEMMA HitsGrow ==
  ASSUME NEW S, NEW p \in Seq(S), NEW q \in Seq(S), NEW K,
         Len(q) = Len(p) + 1,
         \A i \in 1 .. Len(p) : q[i] = p[i]
  PROVE  Cardinality(Hits(q, K))
           = Cardinality(Hits(p, K)) + IF q[Len(p) + 1] \in K THEN 1 ELSE 0
<1> DEFINE n == Len(p)
<1>1. n \in Nat /\ DOMAIN p = 1 .. n /\ DOMAIN q = 1 .. n + 1
  OBVIOUS
<1>2. /\ Hits(p, K) = {i \in 1 .. n : p[i] \in K}
      /\ Hits(q, K) = {i \in 1 .. n + 1 : q[i] \in K}
  BY <1>1 DEF Hits
<1>3. \A i \in 1 .. n : q[i] = p[i]
  OBVIOUS
<1>4. IsFiniteSet(Hits(p, K)) /\ Cardinality(Hits(p, K)) \in Nat
  BY HitsCount
<1> HIDE DEF n
<1>5. CASE q[n + 1] \in K
  <2>1. Hits(q, K) = Hits(p, K) \cup {n + 1}
    BY <1>1, <1>2, <1>3, <1>5
  <2>2. n + 1 \notin Hits(p, K)
    <3>1. n + 1 \notin 1 .. n
      BY <1>1
    <3> QED BY ONLY <1>2, <3>1
  <2>3. Cardinality(Hits(p, K) \cup {n + 1}) = Cardinality(Hits(p, K)) + 1
    BY <1>4, <2>2, FS_AddElement
  <2> QED BY <1>5, <2>1, <2>3 DEF n
<1>6. CASE q[n + 1] \notin K
  <2>1. Hits(q, K) = Hits(p, K)
    BY <1>1, <1>2, <1>3, <1>6
  <2> QED BY <1>4, <1>6, <2>1 DEF n
<1> QED BY <1>5, <1>6

LEMMA HitsAppend ==
  ASSUME NEW S, NEW p \in Seq(S), NEW x \in S, NEW K
  PROVE  Cardinality(Hits(Append(p, x), K))
           = Cardinality(Hits(p, K)) + IF x \in K THEN 1 ELSE 0
<1> DEFINE q == Append(p, x)
<1>1. /\ q \in Seq(S) /\ Len(q) = Len(p) + 1 /\ q[Len(p) + 1] = x
      /\ \A i \in 1 .. Len(p) : q[i] = p[i]
  OBVIOUS
<1> HIDE DEF q
<1>2. Cardinality(Hits(q, K))
        = Cardinality(Hits(p, K)) + IF q[Len(p) + 1] \in K THEN 1 ELSE 0
  BY ONLY p \in Seq(S), <1>1, HitsGrow
<1> QED BY <1>1, <1>2 DEF q

\* The four counts of a build, as hits.
DecisionRecords(b) == {r \in ApprovalRecords : r.build = b}

ReleaseRecords(b) == {d \in DeploymentRecords : d.build = b}

LEMMA AuditHits ==
  ASSUME NEW st \in Stores, NEW b \in Builds
  PROVE  /\ \A kinds : EventsOf(st, b, kinds) = Hits(st.events[b], kinds)
         /\ DecisionsOn(st, b) = Hits(st.approvals, DecisionRecords(b))
         /\ DeploymentsOf(st, b) = Hits(st.deployments, ReleaseRecords(b))
         /\ \A kinds : Cardinality(EventsOf(st, b, kinds)) \in Nat
         /\ Cardinality(DecisionsOn(st, b)) \in Nat
         /\ Cardinality(DeploymentsOf(st, b)) \in Nat
<1>0. /\ st.events[b] \in Seq(EventKinds)
      /\ st.approvals \in Seq(ApprovalRecords)
      /\ st.deployments \in Seq(DeploymentRecords)
  BY DEF Stores
<1>1. \A kinds : EventsOf(st, b, kinds) = Hits(st.events[b], kinds)
  BY DEF EventsOf, Hits
<1>2. DecisionsOn(st, b) = Hits(st.approvals, DecisionRecords(b))
  <2>1. \A i \in DOMAIN st.approvals : st.approvals[i] \in ApprovalRecords
    BY <1>0
  <2> QED BY <2>1 DEF DecisionsOn, Hits, DecisionRecords
<1>3. DeploymentsOf(st, b) = Hits(st.deployments, ReleaseRecords(b))
  <2>1. \A i \in DOMAIN st.deployments : st.deployments[i] \in DeploymentRecords
    BY <1>0
  <2> QED BY <2>1 DEF DeploymentsOf, Hits, ReleaseRecords
<1>4. \A kinds : Cardinality(Hits(st.events[b], kinds)) \in Nat
  BY <1>0, HitsCount
<1>5. Cardinality(Hits(st.approvals, DecisionRecords(b))) \in Nat
  BY <1>0, HitsCount
<1>6. Cardinality(Hits(st.deployments, ReleaseRecords(b))) \in Nat
  BY <1>0, HitsCount
<1> QED BY <1>1, <1>2, <1>3, <1>4, <1>5, <1>6

\* An event is heard once, by its build.
LEMMA EventCount ==
  ASSUME NEW old \in Stores, NEW new \in Stores, NEW b \in Builds, NEW x \in EventKinds,
         new.events = [old.events EXCEPT ![b] = Append(@, x)],
         NEW c \in Builds, NEW kinds
  PROVE  Cardinality(EventsOf(new, c, kinds))
           = Cardinality(EventsOf(old, c, kinds)) + IF c = b /\ x \in kinds THEN 1 ELSE 0
<1>0. old.events \in [Builds -> Seq(EventKinds)]
  BY DEF Stores
<1>a. EventsOf(new, c, kinds) = Hits(new.events[c], kinds)
  BY DEF EventsOf, Hits
<1>b. EventsOf(old, c, kinds) = Hits(old.events[c], kinds)
  BY DEF EventsOf, Hits
<1>c. Cardinality(Hits(old.events[c], kinds)) \in Nat
  <2>1. old.events[c] \in Seq(EventKinds)
    BY <1>0
  <2> QED BY <2>1, HitsCount
<1>1. /\ EventsOf(new, c, kinds) = Hits(new.events[c], kinds)
      /\ EventsOf(old, c, kinds) = Hits(old.events[c], kinds)
      /\ Cardinality(EventsOf(old, c, kinds)) \in Nat
  BY <1>a, <1>b, <1>c
<1>2. CASE c = b
  <2>1. new.events[c] = Append(old.events[c], x) /\ old.events[c] \in Seq(EventKinds)
    BY <1>0, <1>2
  <2> QED BY <1>1, <1>2, <2>1, HitsAppend
<1>3. CASE c # b
  <2>1. new.events[c] = old.events[c]
    BY <1>0, <1>3
  <2> QED BY <1>1, <1>3, <2>1
<1> QED BY <1>2, <1>3

\* A calm store tells of no decision and no deployment.
LEMMA CalmCount ==
  ASSUME NEW old \in Stores, NEW new \in Stores, NEW b \in Builds, MoreEvents(old, new, b),
         NEW c \in Builds
  PROVE  /\ EventsOf(new, c, Decisions) = EventsOf(old, c, Decisions)
         /\ EventsOf(new, c, {"deployed"}) = EventsOf(old, c, {"deployed"})
<1>1. CASE c # b
  BY <1>1 DEF MoreEvents, EventsOf
<1>2. CASE c = b
  <2>1. /\ DOMAIN old.events[b] \subseteq DOMAIN new.events[b]
        /\ \A i \in DOMAIN old.events[b] : new.events[b][i] = old.events[b][i]
        /\ \A i \in DOMAIN new.events[b] \ DOMAIN old.events[b] :
             new.events[b][i] \notin Decisions /\ new.events[b][i] # "deployed"
    <3>1. Len(old.events[b]) <= Len(new.events[b])
      BY DEF MoreEvents
    <3>2. old.events[b] \in Seq(EventKinds) /\ new.events[b] \in Seq(EventKinds)
      BY DEF Stores
    <3>3. DOMAIN old.events[b] \subseteq DOMAIN new.events[b]
      BY <3>1, <3>2
    <3> QED BY <3>3 DEF MoreEvents, HandlerKinds
  <2> QED BY <1>2, <2>1 DEF EventsOf
<1> QED BY <1>1, <1>2

\* A review adds a decision's record, then its event.
LEMMA ReviewTold ==
  ASSUME store \in Stores, NEW n \in Nat, Told(store, n), NEW b \in Builds,
         NEW a \in Decisions, NEW k \in 1 .. 3, NEW new \in Stores,
         Reviewing(k, new, b, a)
  PROVE  Told(new, n + 1) /\ (k = 3 => Told(new, n))
<1> DEFINE D(st, c) == Cardinality(EventsOf(st, c, Decisions))
           P(st, c) == Cardinality(EventsOf(st, c, {"deployed"}))
           R(st, c) == Cardinality(DecisionsOn(st, c))
           L(st, c) == Cardinality(DeploymentsOf(st, c))
           rec == [build |-> b, action |-> a]
<1>0. a \in EventKinds /\ a # "deployed" /\ rec \in ApprovalRecords
  BY DEF EventKinds, Decisions, ApprovalRecords
<1>1. ASSUME NEW c \in Builds
      PROVE  /\ D(new, c) <= R(new, c) /\ P(new, c) <= L(new, c)
             /\ R(new, c) + L(new, c) <= D(new, c) + P(new, c) + (n + 1)
             /\ k = 3 => R(new, c) + L(new, c) <= D(new, c) + P(new, c) + n
  <2>1. /\ D(store, c) \in Nat /\ P(store, c) \in Nat
        /\ R(store, c) \in Nat /\ L(store, c) \in Nat
    BY AuditHits
  <2>2. /\ D(store, c) <= R(store, c) /\ P(store, c) <= L(store, c)
        /\ R(store, c) + L(store, c) <= D(store, c) + P(store, c) + n
    BY DEF Told
  <2>3. L(new, c) = L(store, c)
    BY DEF Reviewing, DeploymentsOf
  <2>4. /\ D(new, c) = D(store, c) + IF k = 3 /\ c = b THEN 1 ELSE 0
        /\ P(new, c) = P(store, c)
    <3>1. CASE k = 3
      <4>1. new.events = [store.events EXCEPT ![b] = Append(@, a)]
        BY <3>1 DEF Reviewing
      <4>2. /\ D(new, c) = D(store, c) + IF c = b /\ a \in Decisions THEN 1 ELSE 0
            /\ P(new, c) = P(store, c) + IF c = b /\ a \in {"deployed"} THEN 1 ELSE 0
        BY <1>0, <4>1, EventCount
      <4> HIDE DEF D, P
      <4> QED BY <1>0, <2>1, <3>1, <4>2
    <3>2. CASE k # 3
      BY <2>1, <3>2 DEF Reviewing, EventsOf
    <3> QED BY <3>1, <3>2
  <2>5. R(new, c) = R(store, c) + IF k # 1 /\ c = b THEN 1 ELSE 0
    <3>1. CASE k = 1
      BY <2>1, <3>1 DEF Reviewing, DecisionsOn
    <3>2. CASE k # 1
      <4>1. new.approvals = Append(store.approvals, rec)
            /\ store.approvals \in Seq(ApprovalRecords)
        BY <3>2 DEF Reviewing, Stores
      <4>2. /\ R(new, c) = Cardinality(Hits(new.approvals, DecisionRecords(c)))
            /\ R(store, c) = Cardinality(Hits(store.approvals, DecisionRecords(c)))
        BY AuditHits
      <4>3. rec \in DecisionRecords(c) <=> c = b
        BY <1>0 DEF DecisionRecords
      <4> HIDE DEF rec, R
      <4>4. R(new, c) = R(store, c) + IF rec \in DecisionRecords(c) THEN 1 ELSE 0
        BY <1>0, <4>1, <4>2, HitsAppend
      <4> QED BY <3>2, <4>3, <4>4
    <3> QED BY <3>1, <3>2
  <2> HIDE DEF D, P, R, L
  <2> QED BY <2>1, <2>2, <2>3, <2>4, <2>5
<1> QED BY <1>1 DEF Told

\* A deployment is in the list from the first call on, and told by the last.
LEMMA DeployTold ==
  ASSUME store \in Stores, NEW n \in Nat, Told(store, n), NEW b \in Builds,
         NEW env \in Environments, NEW k \in 1 .. 5, NEW new \in Stores,
         Deploying(k, new, b, env)
  PROVE  Told(new, n + 1) /\ (k = 5 => Told(new, n))
<1> DEFINE D(st, c) == Cardinality(EventsOf(st, c, Decisions))
           P(st, c) == Cardinality(EventsOf(st, c, {"deployed"}))
           R(st, c) == Cardinality(DecisionsOn(st, c))
           L(st, c) == Cardinality(DeploymentsOf(st, c))
<1>0. "deployed" \in EventKinds /\ "deployed" \notin Decisions
  BY DEF EventKinds, Decisions
<1>1. ASSUME NEW c \in Builds
      PROVE  /\ D(new, c) <= R(new, c) /\ P(new, c) <= L(new, c)
             /\ R(new, c) + L(new, c) <= D(new, c) + P(new, c) + (n + 1)
             /\ k = 5 => R(new, c) + L(new, c) <= D(new, c) + P(new, c) + n
  <2>1. /\ D(store, c) \in Nat /\ P(store, c) \in Nat
        /\ R(store, c) \in Nat /\ L(store, c) \in Nat
    BY AuditHits
  <2>2. /\ D(store, c) <= R(store, c) /\ P(store, c) <= L(store, c)
        /\ R(store, c) + L(store, c) <= D(store, c) + P(store, c) + n
    BY DEF Told
  <2>3. R(new, c) = R(store, c)
    BY DEF Deploying, DecisionsOn
  <2>4. /\ P(new, c) = P(store, c) + IF k = 5 /\ c = b THEN 1 ELSE 0
        /\ D(new, c) = D(store, c)
    <3>1. CASE k = 5
      <4>1. new.events = [store.events EXCEPT ![b] = Append(@, "deployed")]
        BY <3>1 DEF Deploying
      <4>2. /\ D(new, c) = D(store, c) + IF c = b /\ "deployed" \in Decisions THEN 1 ELSE 0
            /\ P(new, c) = P(store, c) + IF c = b /\ "deployed" \in {"deployed"} THEN 1 ELSE 0
        BY <1>0, <4>1, EventCount
      <4> HIDE DEF D, P
      <4> QED BY <1>0, <2>1, <3>1, <4>2
    <3>2. CASE k # 5
      BY <2>1, <3>2 DEF Deploying, EventsOf
    <3> QED BY <3>1, <3>2
  <2>5. L(new, c) = L(store, c) + IF c = b THEN 1 ELSE 0
    <3> DEFINE m == Len(store.deployments)
    <3>1. /\ store.deployments \in Seq(DeploymentRecords)
          /\ new.deployments \in Seq(DeploymentRecords)
          /\ m \in Nat
      BY DEF Stores
    <3>2. /\ Len(new.deployments) = m + 1
          /\ new.deployments[m + 1].build = b
          /\ \A d \in 1 .. m : new.deployments[d] = store.deployments[d]
      BY DEF Deploying
    <3>3. /\ L(new, c) = Cardinality(Hits(new.deployments, ReleaseRecords(c)))
          /\ L(store, c) = Cardinality(Hits(store.deployments, ReleaseRecords(c)))
      BY AuditHits
    <3>4. new.deployments[m + 1] \in DeploymentRecords
      BY <3>1, <3>2
    <3>5. new.deployments[m + 1] \in ReleaseRecords(c) <=> c = b
      BY <3>2, <3>4 DEF ReleaseRecords
    <3> DEFINE p == store.deployments
               q == new.deployments
               K == ReleaseRecords(c)
    <3>6. /\ p \in Seq(DeploymentRecords) /\ q \in Seq(DeploymentRecords)
          /\ Len(q) = Len(p) + 1
          /\ \A d \in 1 .. Len(p) : q[d] = p[d]
      BY <3>1, <3>2
    <3> HIDE DEF L, p, q, K
    <3>7. Cardinality(Hits(q, K))
            = Cardinality(Hits(p, K)) + IF q[Len(p) + 1] \in K THEN 1 ELSE 0
      BY ONLY <3>6, HitsGrow
    <3> QED BY <3>3, <3>5, <3>7 DEF p, q, K
  <2> HIDE DEF D, P, R, L
  <2> QED BY <2>1, <2>2, <2>3, <2>4, <2>5
<1> QED BY <1>1 DEF Told

\* Nothing recorded and nothing told.
LEMMA NothingTold ==
  ASSUME NEW old \in Stores, NEW new \in Stores, NEW n \in Nat, Told(old, n),
         \A c \in Builds :
           /\ EventsOf(new, c, Decisions) = EventsOf(old, c, Decisions)
           /\ EventsOf(new, c, {"deployed"}) = EventsOf(old, c, {"deployed"})
           /\ DeploymentsOf(new, c) = DeploymentsOf(old, c),
         new.approvals = old.approvals
  PROVE  Told(new, n)
BY DEF Told, DecisionsOn

LEMMA MoreUntold ==
  ASSUME NEW st \in Stores, NEW n \in Nat, Told(st, n)
  PROVE  Told(st, n + 1)
<1> SUFFICES ASSUME NEW b \in Builds
             PROVE  Cardinality(DecisionsOn(st, b)) + Cardinality(DeploymentsOf(st, b))
                      <= Cardinality(EventsOf(st, b, Decisions))
                           + Cardinality(EventsOf(st, b, {"deployed"})) + (n + 1)
  BY DEF Told
<1>1. Cardinality(DecisionsOn(st, b)) + Cardinality(DeploymentsOf(st, b))
        <= Cardinality(EventsOf(st, b, Decisions))
             + Cardinality(EventsOf(st, b, {"deployed"})) + n
  BY DEF Told
<1> QED BY <1>1, AuditHits

LEMMA NothingUntold ==
  ASSUME NEW n \in Nat
  PROVE  Told(EmptyStore, n)
<1>1. ASSUME NEW b \in Builds
      PROVE  /\ EventsOf(EmptyStore, b, Decisions) = {}
             /\ EventsOf(EmptyStore, b, {"deployed"}) = {}
             /\ DecisionsOn(EmptyStore, b) = {}
             /\ DeploymentsOf(EmptyStore, b) = {}
  BY DEF EventsOf, DecisionsOn, DeploymentsOf, EmptyStore
<1>2. Cardinality({}) = 0
  BY FS_EmptySet
<1> QED BY <1>1, <1>2 DEF Told

\* Every handler, whole, leaves no record untold; cut short, it may leave one.
LEMMA TrailTold ==
  ASSUME store \in Stores, NEW n \in Nat, Told(store, n), NEW t, IsTrail(t)
  PROVE  /\ \A k \in 1 .. Len(t) : Told(t[k], n + 1)
         /\ Told(t[Len(t)], n)
<1>0. t \in Seq(Stores) /\ Len(t) > 0
  BY TrailsAreStores
<1> SUFFICES ASSUME NEW k \in 1 .. Len(t)
             PROVE  Told(t[k], n + 1) /\ (k = Len(t) => Told(t[k], n))
  BY <1>0
<1> DEFINE new == t[k]
<1>1. new \in Stores
  BY <1>0
<1>2. ASSUME NEW b \in Builds, CalmTrail(b, t)
      PROVE  Told(new, n)
  <2>1. Calm(store, new, b)
    BY <1>2 DEF CalmTrail
  <2> HIDE DEF new
  <2>2. \A c \in Builds : DeploymentsOf(new, c) = DeploymentsOf(store, c)
    BY <2>1 DEF Calm, Quiet, DeploymentsOf
  <2> QED BY <1>1, <2>1, <2>2, CalmCount, NothingTold DEF Calm, Quiet
<1>3. ASSUME NEW b \in Builds, NEW a \in Decisions, Known(store, b), t = ReviewTrail(b, a)
      PROVE  Told(new, n + 1) /\ (k = Len(t) => Told(new, n))
  <2>1. Len(t) = 3 /\ k \in 1 .. 3 /\ Reviewing(k, new, b, a)
    BY <1>3, ReviewCalls
  <2> HIDE DEF new
  <2> QED BY <1>1, <2>1, ReviewTold
<1>4. ASSUME NEW b \in Builds, NEW env \in Environments, MayDeploy(b, env),
             t = DeployTrail(b, env)
      PROVE  Told(new, n + 1) /\ (k = Len(t) => Told(new, n))
  <2>0. Known(store, b)
    BY <1>4 DEF MayDeploy
  <2>1. Len(t) = 5 /\ k \in 1 .. 5 /\ Deploying(k, new, b, env)
    BY <1>4, <2>0, DeployCalls
  <2> HIDE DEF new
  <2> QED BY <1>1, <2>1, DeployTold
<1>5. ASSUME NEW d \in DOMAIN store.deployments,
             t = <<UpdateDeploymentStatus(store, d, "rolled_back")>>
      PROVE  Told(new, n)
  <2>1. new = UpdateDeploymentStatus(store, d, "rolled_back")
    BY <1>5
  <2> HIDE DEF new
  <2>2. /\ new.events = store.events /\ new.approvals = store.approvals
        /\ DOMAIN new.deployments = DOMAIN store.deployments
        /\ \A e \in DOMAIN store.deployments :
             new.deployments[e].build = store.deployments[e].build
    BY <1>5, <2>1, RollbackCall
  <2>3. \A c \in Builds :
          /\ EventsOf(new, c, Decisions) = EventsOf(store, c, Decisions)
          /\ EventsOf(new, c, {"deployed"}) = EventsOf(store, c, {"deployed"})
          /\ DeploymentsOf(new, c) = DeploymentsOf(store, c)
    BY <2>2 DEF EventsOf, DeploymentsOf
  <2> QED BY <1>1, <2>2, <2>3, NothingTold
<1>6. ASSUME NEW st \in Stores, JobsOnly(store, st), t = <<st>>
      PROVE  Told(new, n)
  <2>1. new = st
    BY <1>6
  <2> HIDE DEF new
  <2>2. \A c \in Builds :
          /\ EventsOf(new, c, Decisions) = EventsOf(store, c, Decisions)
          /\ EventsOf(new, c, {"deployed"}) = EventsOf(store, c, {"deployed"})
          /\ DeploymentsOf(new, c) = DeploymentsOf(store, c)
    BY <1>6, <2>1 DEF JobsOnly, EventsOf, DeploymentsOf
  <2> QED BY <1>1, <1>6, <2>1, <2>2, NothingTold DEF JobsOnly
<1>7. Told(new, n) => Told(new, n + 1)
  BY <1>1, MoreUntold
<1> QED BY <1>2, <1>3, <1>4, <1>5, <1>6, <1>7 DEF IsTrail

------------------------------------------------------------------------------
(* The invariant *)

\* st is at most n records behind, in either way.
Settled(st, n) == Paid(st, n) /\ Told(st, n)

\* The file may hold an image of a trail that did not finish: one crash more.
BudgetInv ==
  /\ TypeOK
  /\ Settled(store, crashes)
  /\ disk # Torn => Settled(disk, IF up THEN crashes + 1 ELSE crashes)

\* The first state owes nothing, in memory or in the file.
LEMMA BudgetInit == Init => BudgetInv
<1> SUFFICES ASSUME Init PROVE BudgetInv
  OBVIOUS
<1>1. TypeOK
  BY EmptyStoreType, ControlApiAssumption DEF Init, TypeOK, Awaits
<1>2. Settled(EmptyStore, 0)
  BY NoDebtYet, NothingUntold DEF Settled
<1>3. Settled(EmptyStore, 0 + 1)
  <2>1. 0 + 1 \in Nat
    OBVIOUS
  <2> QED BY ONLY <2>1, NoDebtYet, NothingUntold DEF Settled
<1> QED BY <1>1, <1>2, <1>3 DEF Init, BudgetInv

\* A segment that completes keeps the debt; one that dies has its crash counted.
LEMMA BudgetSegment ==
  ASSUME BudgetInv, NEW t, NEW aw, IsTrail(t), Segment(t, aw)
  PROVE  /\ Settled(store', crashes')
         /\ disk' # Torn => Settled(disk', IF up' THEN crashes' + 1 ELSE crashes')
<1>0. /\ store \in Stores /\ crashes \in Nat /\ up /\ TornImages \subseteq {Torn}
      /\ disk # Torn => Settled(disk, crashes + 1)
  BY ControlApiAssumption DEF BudgetInv, TypeOK, Segment, TornImages
<1>1. t \in Seq(Stores) /\ Len(t) > 0
  BY <1>0, TrailsAreStores
<1>2. /\ \A k \in 1 .. Len(t) : Settled(t[k], crashes + 1)
      /\ Settled(t[Len(t)], crashes)
  BY <1>0, TrailDebt, TrailTold DEF BudgetInv, Settled
<1>3. CASE Completes(t, aw)
  <2>1. store' = t[Len(t)] /\ crashes' = crashes /\ up'
    BY <1>0, <1>3 DEF Completes, Last
  <2>2. disk' \in {disk, Torn} \cup {t[k] : k \in 1 .. Len(t)}
    BY <1>0, <1>1, <1>3 DEF Completes, Persist, Last
  <2>3. disk' # Torn => Settled(disk', crashes + 1)
    BY <1>0, <1>2, <2>2
  <2> QED BY <1>2, <2>1, <2>3
<1>4. CASE DiesDuring(t)
  <2>1. crashes' = crashes + 1 /\ ~up'
    BY <1>4 DEF DiesDuring
  <2>2. PICK k \in 1 .. Len(t) : store' = t[k] /\ disk' \in {t[k], Torn}
    BY <1>0, <1>4 DEF DiesDuring
  <2> QED BY <1>2, <2>1, <2>2
<1> QED BY <1>3, <1>4 DEF Segment

\* Every step of the service keeps the invariant.
LEMMA BudgetStep == BudgetInv /\ [Next]_vars => BudgetInv'
<1>1. ASSUME BudgetInv, Next PROVE BudgetInv'
  <2>1. TypeOK'
    <3>1. \A t : IsTrail(t) => t \in Seq(Stores)
      BY <1>1, TrailsAreStores DEF BudgetInv, TypeOK
    <3> QED BY <1>1, <3>1, EmptyStoreType, StepIn DEF BudgetInv, TypeOK
  <2>2. ASSUME NEW t, NEW aw, IsTrail(t), Segment(t, aw)
        PROVE  BudgetInv'
    <3>1. /\ Settled(store', crashes')
          /\ disk' # Torn => Settled(disk', IF up' THEN crashes' + 1 ELSE crashes')
      BY <1>1, <2>2, BudgetSegment
    <3> QED BY <2>1, <3>1 DEF BudgetInv, Paid
  <2>3. CASE Crash
    <3>1. /\ store' = store /\ disk' = disk /\ ~up' /\ crashes' = crashes + 1
          /\ crashes \in Nat /\ store \in Stores /\ up
      BY <1>1, <2>3, ControlApiAssumption DEF Crash, BudgetInv, TypeOK
    <3>2. Settled(store, crashes + 1)
      BY <1>1, <3>1, MoreDebt, MoreUntold DEF BudgetInv, Settled
    <3>3. disk # Torn => Settled(disk, crashes + 1)
      BY <1>1, <3>1 DEF BudgetInv
    <3>4. Settled(store', crashes') /\ (disk' # Torn => Settled(disk', crashes'))
      BY <3>1, <3>2, <3>3
    <3> QED BY <2>1, <3>1, <3>4 DEF BudgetInv, Paid
  <2>4. CASE Restart
    <3>0. /\ up' /\ crashes' = crashes /\ crashes \in Nat /\ ~up
          /\ disk # Torn => Settled(disk, crashes) /\ disk \in Stores
      BY <1>1, <2>4, ControlApiAssumption DEF Restart, BudgetInv, TypeOK
    <3>1. CASE disk # Torn
      <4>1. store' = disk /\ disk' = disk
        BY <2>4, <3>1 DEF Restart
      <4>2. Settled(disk, crashes) /\ Settled(disk, crashes + 1)
        BY <3>0, <3>1, MoreDebt, MoreUntold DEF Settled
      <4>3. Settled(store', crashes') /\ Settled(disk', crashes' + 1)
        BY <3>0, <4>1, <4>2
      <4> QED BY <2>1, <3>0, <4>3 DEF BudgetInv, Paid
    <3>2. CASE disk = Torn
      <4>1. store' = EmptyStore /\ disk' \in {EmptyStore, Torn}
        BY <2>4, <3>2 DEF Restart, Persist, Last, TornImages
      <4>2. ASSUME NEW n \in Nat PROVE Settled(EmptyStore, n)
        BY NoDebtYet, NothingUntold DEF Settled
      <4>3. Settled(store', crashes') /\ (disk' # Torn => Settled(disk', crashes' + 1))
        BY <3>0, <4>1, <4>2
      <4> QED BY <2>1, <3>0, <4>3 DEF BudgetInv, Paid
    <3> QED BY <3>1, <3>2
  <2> QED BY <1>1, <2>2, <2>3, <2>4, NextKinds DEF BudgetInv
<1>2. ASSUME BudgetInv, UNCHANGED vars PROVE BudgetInv'
  BY <1>2 DEF BudgetInv, TypeOK, vars, Paid, OpenReleases, ProductionReleases,
              DeploymentsOf, Approvals
<1> QED BY <1>1, <1>2

\* Whatever crashes, lost writes and torn files come in between, the production
\* releases of a build and the approval it is open with never outnumber the
\* approvals on record by more than the crashes there were.
THEOREM ReleasesArePaid == Spec => []ReleaseBudget
<1>1. BudgetInv => ReleaseBudget
  BY DEF BudgetInv, Settled, Paid, ReleaseBudget
<1> QED BY <1>1, BudgetInit, BudgetStep, PTL DEF Spec

\* Whatever crashes, lost writes and torn files come in between, the event stream
\* tells of no decision and no deployment that has no record, and the records of a
\* build it does not tell of are no more than the crashes there were.
THEOREM AuditLagIsBounded == Spec => []AuditLagsByCrashes
<1>1. BudgetInv => AuditLagsByCrashes
  BY DEF BudgetInv, Settled, Told, AuditLagsByCrashes
<1> QED BY <1>1, BudgetInit, BudgetStep, PTL DEF Spec

------------------------------------------------------------------------------
(* Where a create request ends.  What the handler has done so far is in the  *)
(* record of its build and in what it awaits: the plan and the spec are there*)
(* from its first await on, the artifacts from its second, and only its last *)
(* segment offers the build, once the tests and the preview are set.         *)

\* No setter takes back what is there, nor where the build was asked to run.
Keeps(r, q) ==
  /\ q.mode = r.mode /\ q.workspace = r.workspace
  /\ r.planned => q.planned
  /\ r.specified => q.specified
  /\ r.previewed => q.previewed

\* What each setter makes of the record of a build that the store holds.
LEMMA PlanSet ==
  ASSUME NEW st \in Stores, NEW b \in Builds, Known(st, b),
         SetBuildPlan(st, b) \in Stores
  PROVE  LET r == st.builds[b]
             q == SetBuildPlan(st, b).builds[b]
         IN  /\ Keeps(r, q)
             /\ q.planned
             /\ q.status = r.status
             /\ q.tests = r.tests
             /\ q.artifacts = r.artifacts
<1>1. st.builds[b] \in BuildRecords
  BY DEF Stores
<1>2. SetBuildPlan(st, b).builds[b]
        = [st.builds[b] EXCEPT !.planned = TRUE]
  BY DEF SetBuildPlan, Stores, Known
<1> QED BY <1>1, <1>2 DEF Keeps, BuildRecords

LEMMA SpecSet ==
  ASSUME NEW st \in Stores, NEW b \in Builds, Known(st, b),
         SetBuildSpec(st, b) \in Stores
  PROVE  LET r == st.builds[b]
             q == SetBuildSpec(st, b).builds[b]
         IN  /\ Keeps(r, q)
             /\ q.specified
             /\ q.status = r.status
             /\ q.tests = r.tests
             /\ q.artifacts = r.artifacts
<1>1. st.builds[b] \in BuildRecords
  BY DEF Stores
<1>2. SetBuildSpec(st, b).builds[b]
        = [st.builds[b] EXCEPT !.specified = TRUE]
  BY DEF SetBuildSpec, Stores, Known
<1> QED BY <1>1, <1>2 DEF Keeps, BuildRecords

LEMMA PreviewSet ==
  ASSUME NEW st \in Stores, NEW b \in Builds, Known(st, b),
         SetPreviews(st, b) \in Stores
  PROVE  LET r == st.builds[b]
             q == SetPreviews(st, b).builds[b]
         IN  /\ Keeps(r, q)
             /\ q.previewed
             /\ q.status = r.status
             /\ q.tests = r.tests
             /\ q.artifacts = r.artifacts
<1>1. st.builds[b] \in BuildRecords
  BY DEF Stores
<1>2. SetPreviews(st, b).builds[b]
        = [st.builds[b] EXCEPT !.previewed = TRUE]
  BY DEF SetPreviews, Stores, Known
<1> QED BY <1>1, <1>2 DEF Keeps, BuildRecords

LEMMA FindingsSet ==
  ASSUME NEW st \in Stores, NEW b \in Builds, Known(st, b), NEW f,
         SetBuildFindings(st, b, f) \in Stores
  PROVE  LET r == st.builds[b]
             q == SetBuildFindings(st, b, f).builds[b]
         IN  /\ Keeps(r, q)
             /\ q.status = r.status
             /\ q.tests = r.tests
             /\ q.artifacts = r.artifacts
<1>1. st.builds[b] \in BuildRecords
  BY DEF Stores
<1>2. SetBuildFindings(st, b, f).builds[b]
        = [st.builds[b] EXCEPT !.findings = f]
  BY DEF SetBuildFindings, Stores, Known
<1> QED BY <1>1, <1>2 DEF Keeps, BuildRecords

LEMMA ArtifactsAdded ==
  ASSUME NEW st \in Stores, NEW b \in Builds, Known(st, b), NEW n \in Nat,
         AddArtifacts(st, b, n) \in Stores
  PROVE  LET r == st.builds[b]
             q == AddArtifacts(st, b, n).builds[b]
         IN  /\ Keeps(r, q)
             /\ q.status = r.status
             /\ q.tests = r.tests
             /\ q.artifacts = r.artifacts + n
<1>1. st.builds[b] \in BuildRecords
  BY DEF Stores
<1>2. AddArtifacts(st, b, n).builds[b]
        = [st.builds[b] EXCEPT !.artifacts = st.builds[b].artifacts + n]
  BY DEF AddArtifacts, Stores, Known
<1> QED BY <1>1, <1>2 DEF Keeps, BuildRecords

LEMMA TestsSet ==
  ASSUME NEW st \in Stores, NEW b \in Builds, Known(st, b), NEW s \in TestStatuses,
         SetTestStatus(st, b, s) \in Stores
  PROVE  LET r == st.builds[b]
             q == SetTestStatus(st, b, s).builds[b]
         IN  /\ Keeps(r, q)
             /\ q.status = r.status
             /\ q.tests = s
             /\ q.artifacts = r.artifacts
<1>1. st.builds[b] \in BuildRecords
  BY DEF Stores
<1>2. SetTestStatus(st, b, s).builds[b]
        = [st.builds[b] EXCEPT !.tests = s]
  BY DEF SetTestStatus, Stores, Known
<1> QED BY <1>1, <1>2 DEF Keeps, BuildRecords

LEMMA StatusSet ==
  ASSUME NEW st \in Stores, NEW b \in Builds, Known(st, b), NEW s \in BuildStatuses,
         UpdateBuildStatus(st, b, s) \in Stores
  PROVE  LET r == st.builds[b]
             q == UpdateBuildStatus(st, b, s).builds[b]
         IN  /\ Keeps(r, q)
             /\ q.status = s
             /\ q.tests = r.tests
             /\ q.artifacts = r.artifacts
<1>1. st.builds[b] \in BuildRecords
  BY DEF Stores
<1>2. UpdateBuildStatus(st, b, s).builds[b]
        = [st.builds[b] EXCEPT !.status = s]
  BY DEF UpdateBuildStatus, Stores, Known
<1> QED BY <1>1, <1>2 DEF Keeps, BuildRecords

LEMMA EventBuilds ==
  ASSUME NEW st \in Stores, NEW b \in Builds, NEW k
  PROVE  AddBuildEvent(st, b, k).builds = st.builds
BY DEF AddBuildEvent, Stores

\* What a build offered for approval has.
Offerable(r) ==
  /\ r.planned /\ r.specified /\ r.previewed
  /\ r.tests = "passed"
  /\ r.artifacts = NumArtifacts

Offers == {st \in Stores : \A b \in Builds :
             st.builds[b].status = "awaiting_approval" => Offerable(st.builds[b])}

\* What the record of a build has while its handler awaits `what`.
Working(r, what) ==
  what # "none" =>
    /\ r.status \notin {"absent", "awaiting_approval"}
    /\ r.planned /\ r.specified
    /\ r.artifacts = IF what = "compiling" THEN 0 ELSE NumArtifacts

\* Where the request for c ends when nobody has decided on it.
Settles(st, c) ==
  \/ st.builds[c].status = "failed"
  \/ st.builds[c].status = "awaiting_approval" /\ st.builds[c].mode = "managed_api"
  \/ st.builds[c].status = "queued" /\ st.builds[c].mode = "chatgpt_edge" /\ JobOf(st, c)

Ends(st, c, what) ==
  Known(st, c) /\ what = "none" /\ DecisionsOn(st, c) = {} => Settles(st, c)

\* The first segment leaves a build that has a plan and a spec and no artifact.
LEMMA IntakeCourse ==
  ASSUME store \in Stores, NEW b \in Builds, NEW mode \in Modes,
         NEW workspace \in Workspaces, NEW path \in Paths
  PROVE  LET t == IntakeTrail(b, mode, workspace, path)
         IN  /\ \A k \in 1 .. Len(t) : t[k].builds[b].status # "awaiting_approval"
             /\ Working(t[Len(t)].builds[b], "compiling")
<1> DEFINE t   == IntakeTrail(b, mode, workspace, path)
           s1  == CreateBuild(store, b, mode, workspace, path)
           s2  == AddBuildEvent(s1, b, "queued")
           s3  == UpdateBuildStatus(s2, b, "planning")
           s4  == AddBuildEvent(s3, b, "planning")
           s5  == SetBuildPlan(s4, b)
           s6  == SetBuildSpec(s5, b)
           s7  == AddBuildEvent(s6, b, "spec")
           s8  == UpdateBuildStatus(s7, b, "running")
           s9  == SetTestStatus(s8, b, "running")
           s10 == AddBuildEvent(s9, b, "compiling")
           Active == {"queued", "planning", "running"}
<1>s. {"planning", "running"} \subseteq BuildStatuses /\ "running" \in TestStatuses
  BY DEF BuildStatuses, TestStatuses
<1>0. t = <<s1, s2, s3, s4, s5, s6, s7, s8, s9, s10>>
  BY DEF IntakeTrail, s1, s2, s3, s4, s5, s6, s7, s8, s9, s10
<1>1. t \in Seq(Stores)
  BY IntakeCalm DEF CalmTrail
<1>2. ASSUME NEW st \in Stores, st.builds[b].status \in Active
      PROVE  Known(st, b) /\ st.builds[b] \in BuildRecords
  BY <1>2 DEF Known, Held, Stores
<1>3. s1.builds[b] = NewBuild("queued", mode, workspace, path)
  BY DEF CreateBuild, Stores
<1> HIDE DEF t, s1, s2, s3, s4, s5, s6, s7, s8, s9, s10
<1>4. /\ Len(t) = 10
      /\ t[1] = s1 /\ t[2] = s2 /\ t[3] = s3 /\ t[4] = s4 /\ t[5] = s5
      /\ t[6] = s6 /\ t[7] = s7 /\ t[8] = s8 /\ t[9] = s9 /\ t[10] = s10
  BY <1>0
<1>5. /\ s1 \in Stores /\ s2 \in Stores /\ s3 \in Stores /\ s4 \in Stores
      /\ s5 \in Stores /\ s6 \in Stores /\ s7 \in Stores /\ s8 \in Stores
      /\ s9 \in Stores /\ s10 \in Stores
  <2>0. \A q \in Seq(Stores) : \A k \in 1 .. Len(q) : q[k] \in Stores
    OBVIOUS
  <2>1. \A k \in 1 .. 10 : t[k] \in Stores
    BY <1>1, <1>4, <2>0
  <2> QED BY <1>4, <2>1
<1>6. s1.builds[b].status = "queued" /\ s1.builds[b].artifacts = 0
  BY <1>3 DEF NewBuild
<1>7. s2.builds[b] = s1.builds[b]
  BY <1>2, <1>5, <1>6, EventBuilds DEF s2
<1>8. s3.builds[b].status = "planning" /\ s3.builds[b].artifacts = 0
  BY <1>s, <1>2, <1>5, <1>6, <1>7, StatusSet DEF s3, Keeps
<1>9. s4.builds[b] = s3.builds[b]
  BY <1>2, <1>5, <1>8, EventBuilds DEF s4
<1>10. s5.builds[b].status = "planning" /\ s5.builds[b].artifacts = 0 /\ s5.builds[b].planned
  BY <1>2, <1>5, <1>8, <1>9, PlanSet DEF s5, Keeps
<1>11. /\ s6.builds[b].status = "planning" /\ s6.builds[b].artifacts = 0
       /\ s6.builds[b].planned /\ s6.builds[b].specified
  BY <1>2, <1>5, <1>10, SpecSet DEF s6, Keeps
<1>12. s7.builds[b] = s6.builds[b]
  BY <1>2, <1>5, <1>11, EventBuilds DEF s7
<1>13. /\ s8.builds[b].status = "running" /\ s8.builds[b].artifacts = 0
       /\ s8.builds[b].planned /\ s8.builds[b].specified
  BY <1>2, <1>5, <1>11, <1>12, <1>s, StatusSet DEF s8, Keeps
<1>14. /\ s9.builds[b].status = "running" /\ s9.builds[b].artifacts = 0
       /\ s9.builds[b].planned /\ s9.builds[b].specified
  BY <1>2, <1>5, <1>13, <1>s, TestsSet DEF s9, Keeps
<1>15. s10.builds[b] = s9.builds[b]
  BY <1>2, <1>5, <1>14, EventBuilds DEF s10
<1>16. ASSUME NEW k \in 1 .. 10 PROVE t[k].builds[b].status # "awaiting_approval"
  <2>1. \/ k = 1 \/ k = 2 \/ k = 3 \/ k = 4 \/ k = 5
        \/ k = 6 \/ k = 7 \/ k = 8 \/ k = 9 \/ k = 10
    OBVIOUS
  <2> QED BY <1>4, <1>6, <1>7, <1>8, <1>9, <1>10, <1>11, <1>12, <1>13, <1>14, <1>15, <2>1
<1>17. Working(t[10].builds[b], "compiling")
  BY <1>4, <1>14, <1>15 DEF Working
<1> QED BY <1>4, <1>16, <1>17 DEF t

\* The lookup of the artifacts adds all of them to a build that has none.
LEMMA IndexCourse ==
  ASSUME store \in Stores, NEW b \in Builds, Working(store.builds[b], "compiling")
  PROVE  LET t == IndexTrail(b)
         IN  /\ \A k \in 1 .. Len(t) : t[k].builds[b].status # "awaiting_approval"
             /\ Working(t[Len(t)].builds[b], "reading")
<1> DEFINE t == IndexTrail(b)
<1>0. /\ t \in Seq(Stores) /\ Len(t) = NumArtifacts /\ NumArtifacts \in Nat \ {0}
      /\ \A k \in 1 .. NumArtifacts : t[k] = AddArtifacts(store, b, k)
  BY IndexCalm, ControlApiAssumption DEF CalmTrail, IndexTrail
<1>1. Known(store, b)
  BY DEF Working, Known, Held
<1> HIDE DEF t
<1>2. ASSUME NEW k \in 1 .. NumArtifacts
      PROVE  /\ t[k].builds[b].status = store.builds[b].status
             /\ t[k].builds[b].artifacts = store.builds[b].artifacts + k
             /\ Keeps(store.builds[b], t[k].builds[b])
  <2>1. k \in Nat /\ t[k] = AddArtifacts(store, b, k)
    BY <1>0
  <2>2. AddArtifacts(store, b, k) \in Stores
    BY <2>1, RecordEdit DEF Minor
  <2> QED BY <1>1, <2>1, <2>2, ArtifactsAdded
<1>3. ASSUME NEW k \in 1 .. NumArtifacts
      PROVE  t[k].builds[b].status # "awaiting_approval"
  BY <1>2 DEF Working
<1>4. Working(t[NumArtifacts].builds[b], "reading")
  <2>1. /\ t[NumArtifacts].builds[b].status = store.builds[b].status
        /\ t[NumArtifacts].builds[b].artifacts = store.builds[b].artifacts + NumArtifacts
        /\ Keeps(store.builds[b], t[NumArtifacts].builds[b])
    BY <1>0, <1>2
  <2> QED BY <1>0, <2>1 DEF Working, Keeps
<1> QED BY <1>0, <1>3, <1>4 DEF t

\* What happens to the record of b besides its status.
Restatused(old, new, b) ==
  /\ Keeps(old.builds[b], new.builds[b])
  /\ new.builds[b].tests = old.builds[b].tests
  /\ new.builds[b].artifacts = old.builds[b].artifacts

LEMMA PolicyCourse ==
  ASSUME store \in Stores, NEW b \in Builds, NEW elevated \in BOOLEAN, Known(store, b),
         NEW k \in 1 .. 2
  PROVE  LET p == PolicyTrail(b, elevated)
         IN  /\ Restatused(store, p[k], b)
             /\ p[k].builds[b].status = store.builds[b].status
<1> DEFINE f  == EvaluateBuildPolicy(Profile, CandidateFiles, elevated)
           s1 == SetBuildFindings(store, b, f)
           s2 == IF f = {} THEN s1 ELSE AddBuildEvent(s1, b, "policy")
           p  == PolicyTrail(b, elevated)
<1>1. p = <<s1, s2>>
  BY DEF PolicyTrail, s1, s2, f
<1>2. p \in Seq(Stores) /\ Len(p) = 2
  BY PolicyCalm
<1> HIDE DEF f, p
<1>3. s1 \in Stores
  <2>1. p[1] = s1 /\ p[1] \in Stores
    BY <1>1, <1>2
  <2> QED BY <2>1
<1>4. Restatused(store, s1, b) /\ s1.builds[b].status = store.builds[b].status
  BY <1>3, FindingsSet DEF Restatused
<1> HIDE DEF s1
<1>5. s2.builds = s1.builds
  BY <1>3, EventBuilds
<1> HIDE DEF s2
<1>6. p[1] = s1 /\ p[2] = s2 /\ (k = 1 \/ k = 2)
  BY <1>1
<1> QED BY <1>4, <1>5, <1>6 DEF Restatused, p

\* Every store of a trail that begins with the policy's two calls.
LEMMA AfterPolicy ==
  ASSUME NEW p \in Seq(Stores), NEW q \in Seq(Stores), Len(p) = 2, Len(q) > 0
  PROVE  /\ (p \o q)[Len(p \o q)] = q[Len(q)]
         /\ \A k \in 1 .. Len(p \o q) :
              \/ (p \o q)[k] = p[1]
              \/ (p \o q)[k] = p[2]
              \/ \E j \in 1 .. Len(q) : (p \o q)[k] = q[j]
<1> DEFINE t == p \o q
<1>0. /\ Len(t) = Len(p) + Len(q)
      /\ \A k \in 1 .. Len(p) + Len(q) :
           t[k] = IF k <= Len(p) THEN p[k] ELSE q[k - Len(p)]
  BY Concatenation
<1> HIDE DEF t
<1>1. /\ Len(t) = 2 + Len(q) /\ Len(q) \in Nat
      /\ \A k \in 1 .. 2 + Len(q) : t[k] = IF k <= 2 THEN p[k] ELSE q[k - 2]
  BY <1>0
<1>2. t[2 + Len(q)] = q[Len(q)]
  <2>1. 2 + Len(q) \in 1 .. 2 + Len(q) /\ ~(2 + Len(q) <= 2) /\ 2 + Len(q) - 2 = Len(q)
    BY <1>1
  <2> QED BY <1>1, <2>1
<1>3. ASSUME NEW k \in 1 .. 2 + Len(q)
      PROVE  t[k] = p[1] \/ t[k] = p[2] \/ \E j \in 1 .. Len(q) : t[k] = q[j]
  <2>1. CASE k <= 2
    BY <1>1, <2>1, k = 1 \/ k = 2
  <2>2. CASE ~(k <= 2)
    BY <1>1, <2>2, k - 2 \in 1 .. Len(q)
  <2> QED BY <2>1, <2>2
<1> QED BY <1>1, <1>2, <1>3 DEF t

\* A managed build is offered once it has all that a reviewer relies on.
LEMMA ManagedCourse ==
  ASSUME store \in Stores, NEW b \in Builds, NEW elevated \in BOOLEAN,
         Working(store.builds[b], "reading"), store.builds[b].mode # "chatgpt_edge"
  PROVE  LET t == ManagedTrail(b, elevated)
         IN  /\ \A k \in 1 .. Len(t) :
                  t[k].builds[b].status = "awaiting_approval" => Offerable(t[k].builds[b])
             /\ Settles(t[Len(t)], b)
<1> DEFINE t  == ManagedTrail(b, elevated)
           p  == PolicyTrail(b, elevated)
           s1 == SetTestStatus(Last(p), b, "passed")
           s2 == SetPreviews(s1, b)
           s3 == UpdateBuildStatus(s2, b, "awaiting_approval")
           s4 == AddBuildEvent(s3, b, "tested")
           s5 == AddBuildEvent(s4, b, "indexed")
           q  == <<s1, s2, s3, s4, s5>>
           r  == store.builds[b]
<1>0. /\ p \in Seq(Stores) /\ Len(p) = 2 /\ Last(p) = p[2]
      /\ p[1] \in Stores /\ p[2] \in Stores
  BY PolicyCalm DEF Last, Calm
<1>1. t = p \o q
  BY DEF ManagedTrail, p, q, s1, s2, s3, s4, s5
<1>2. /\ r.status # "absent" /\ r.status # "awaiting_approval"
      /\ r.artifacts = NumArtifacts
      /\ r.mode = "managed_api"
  BY DEF Working, Stores, BuildRecords, Modes
<1>3. r.planned /\ r.specified
  BY DEF Working
<1>4. /\ Known(store, b) /\ "passed" \in TestStatuses /\ "awaiting_approval" \in BuildStatuses
      /\ {"tested", "indexed"} \subseteq EventKinds
  BY <1>2 DEF Known, Held, TestStatuses, BuildStatuses, EventKinds
<1>5. /\ Restatused(store, p[1], b) /\ p[1].builds[b].status = r.status
      /\ Restatused(store, p[2], b) /\ p[2].builds[b].status = r.status
  BY <1>4, PolicyCourse
<1> HIDE DEF t, p
<1>6. /\ s1 \in Stores /\ Keeps(p[2].builds[b], s1.builds[b])
      /\ s1.builds[b].status = r.status /\ s1.builds[b].tests = "passed"
      /\ s1.builds[b].artifacts = NumArtifacts
  <2>1. s1 \in Stores
    BY <1>0, <1>4, RecordEdit DEF Minor
  <2>2. Known(p[2], b) /\ p[2].builds[b].artifacts = NumArtifacts
    BY <1>2, <1>5 DEF Known, Held, Restatused
  <2> QED BY <1>0, <1>4, <1>5, <2>1, <2>2, TestsSet
<1> HIDE DEF s1
<1>7. /\ s2 \in Stores /\ Keeps(s1.builds[b], s2.builds[b]) /\ s2.builds[b].previewed
      /\ s2.builds[b].status = r.status /\ s2.builds[b].tests = "passed"
      /\ s2.builds[b].artifacts = NumArtifacts
  <2>1. s2 \in Stores
    BY <1>6, RecordEdit DEF Minor
  <2>2. Known(s1, b)
    BY <1>2, <1>6 DEF Known, Held
  <2> QED BY <1>6, <2>1, <2>2, PreviewSet
<1> HIDE DEF s2
<1>8. /\ s3 \in Stores /\ Keeps(s2.builds[b], s3.builds[b])
      /\ s3.builds[b].status = "awaiting_approval" /\ s3.builds[b].tests = "passed"
      /\ s3.builds[b].artifacts = NumArtifacts
  <2>1. s3 \in Stores
    BY <1>4, <1>7, StatusEdit
  <2>2. Known(s2, b)
    BY <1>2, <1>7 DEF Known, Held
  <2> QED BY <1>4, <1>7, <2>1, <2>2, StatusSet
<1> HIDE DEF s3
<1>9. Keeps(r, s3.builds[b]) /\ s3.builds[b].previewed
  BY <1>5, <1>6, <1>7, <1>8 DEF Restatused, Keeps
<1>10. s4 \in Stores /\ s4.builds = s3.builds
  BY <1>4, <1>8, EventCall
<1> HIDE DEF s4
<1>11. s5 \in Stores /\ s5.builds = s3.builds
  BY <1>4, <1>10, EventCall
<1> HIDE DEF s5
<1>12. q \in Seq(Stores) /\ Len(q) = 5
  BY <1>6, <1>7, <1>8, <1>10, <1>11
<1>13. Offerable(s3.builds[b])
  BY <1>3, <1>8, <1>9 DEF Offerable, Keeps
<1> DEFINE Fine(st) == st.builds[b].status = "awaiting_approval" => Offerable(st.builds[b])
<1>14. ASSUME NEW j \in 1 .. 5 PROVE Fine(q[j])
  <2>1. Fine(s1) /\ Fine(s2)
    BY <1>2, <1>6, <1>7
  <2>2. Fine(s3) /\ Fine(s4) /\ Fine(s5)
    BY <1>10, <1>11, <1>13
  <2>3. j = 1 \/ j = 2 \/ j = 3 \/ j = 4 \/ j = 5
    OBVIOUS
  <2> HIDE DEF Fine
  <2> QED BY <2>1, <2>2, <2>3
<1>15. Fine(p[1]) /\ Fine(p[2])
  BY <1>2, <1>5
<1>16. q[5] = s5
  OBVIOUS
<1> HIDE DEF q, Fine
<1>17. /\ \A k \in 1 .. Len(t) : Fine(t[k])
       /\ t[Len(t)] = s5
  <2>1. /\ (p \o q)[Len(p \o q)] = q[Len(q)]
        /\ \A k \in 1 .. Len(p \o q) :
             \/ (p \o q)[k] = p[1]
             \/ (p \o q)[k] = p[2]
             \/ \E j \in 1 .. Len(q) : (p \o q)[k] = q[j]
    <3>1. Len(q) > 0
      BY <1>12
    <3> QED BY <1>0, <1>12, <3>1, AfterPolicy
  <2> QED BY <1>1, <1>12, <1>14, <1>15, <1>16, <2>1
<1>18. Settles(s5, b)
  BY <1>2, <1>8, <1>9, <1>11 DEF Settles, Keeps
<1> QED BY <1>17, <1>18 DEF Fine, t

\* An edge build is not offered: it ends in the queue, with a job for its workspace.
LEMMA EdgeCourse ==
  ASSUME store \in Stores, NEW b \in Builds, NEW elevated \in BOOLEAN,
         Working(store.builds[b], "reading"), store.builds[b].mode = "chatgpt_edge"
  PROVE  LET t == EdgeTrail(b, elevated)
         IN  /\ \A k \in 1 .. Len(t) : t[k].builds[b].status # "awaiting_approval"
             /\ Settles(t[Len(t)], b)
<1> DEFINE t  == EdgeTrail(b, elevated)
           p  == PolicyTrail(b, elevated)
           r  == store.builds[b]
           s1 == CreateEdgeJob(Last(p), r.workspace, b)
           s2 == SetTestStatus(s1, b, "not_started")
           s3 == UpdateBuildStatus(s2, b, "queued")
           s4 == AddBuildEvent(s3, b, "handed_to_edge")
           q  == <<s1, s2, s3, s4>>
<1>0. /\ p \in Seq(Stores) /\ Len(p) = 2 /\ Last(p) = p[2]
      /\ p[1] \in Stores /\ p[2] \in Stores
  BY PolicyCalm DEF Last, Calm
<1>1. t = p \o q
  BY DEF EdgeTrail, p, q, s1, s2, s3, s4
<1>2. /\ r.status # "absent" /\ r.status # "awaiting_approval"
      /\ r.workspace \in Workspaces
  BY DEF Working, Stores, BuildRecords
<1>4. /\ Known(store, b) /\ "not_started" \in TestStatuses /\ "queued" \in BuildStatuses
      /\ "handed_to_edge" \in EventKinds
  BY <1>2 DEF Known, Held, TestStatuses, BuildStatuses, EventKinds
<1>5. /\ Restatused(store, p[1], b) /\ p[1].builds[b].status = r.status
      /\ Restatused(store, p[2], b) /\ p[2].builds[b].status = r.status
  BY <1>4, PolicyCourse
<1> HIDE DEF t, p
\* The job that waits for an agent of the workspace.
<1> DEFINE Waits(st) == \E j \in DOMAIN st.edgeJobs :
                          st.edgeJobs[j].build = b /\ st.edgeJobs[j].workspace = r.workspace
<1>6. s1 \in Stores /\ s1.builds = p[2].builds /\ Waits(s1)
  <2>0. s1 = CreateEdgeJob(p[2], r.workspace, b)
    BY <1>0
  <2>1. s1 \in Stores /\ s1.builds = p[2].builds
    <3>1. JobsOnly(p[2], CreateEdgeJob(p[2], r.workspace, b))
      BY <1>0, <1>2, EdgeJobEdits
    <3> QED BY <2>0, <3>1 DEF JobsOnly
  <2> DEFINE n   == Len(p[2].edgeJobs) + 1
             job == [workspace |-> r.workspace, build |-> b, status |-> "queued",
                     claimedBy |-> Nobody]
  <2>2. s1.edgeJobs = Append(p[2].edgeJobs, job)
    BY <1>0 DEF CreateEdgeJob, Stores
  <2>3. p[2].edgeJobs \in Seq(EdgeJobRecords)
    BY <1>0 DEF Stores
  <2>4. n \in DOMAIN s1.edgeJobs /\ s1.edgeJobs[n] = job
    BY <2>2, <2>3
  <2>5. job.build = b /\ job.workspace = r.workspace
    OBVIOUS
  <2> HIDE DEF n, job, s1
  <2> QED BY <2>1, <2>4, <2>5
<1> HIDE DEF s1
<1>7. ASSUME NEW old, NEW new, Waits(old), MoreJobs(old, new)
      PROVE  Waits(new)
  BY <1>7 DEF MoreJobs
<1> HIDE DEF Waits
<1>8. /\ s2 \in Stores /\ Keeps(s1.builds[b], s2.builds[b])
      /\ s2.builds[b].status = r.status /\ Waits(s2)
  <2>1. Minor(s1, s2, b)
    BY <1>4, <1>6, RecordEdit
  <2>2. s2 \in Stores /\ Waits(s2)
    BY <1>6, <1>7, <2>1 DEF Minor, Quiet
  <2>3. Known(s1, b) /\ s1.builds[b].status = r.status
    BY <1>2, <1>5, <1>6 DEF Known, Held
  <2> QED BY <1>4, <1>6, <2>2, <2>3, TestsSet
<1> HIDE DEF s2
<1>9. /\ s3 \in Stores /\ Keeps(s2.builds[b], s3.builds[b])
      /\ s3.builds[b].status = "queued" /\ Waits(s3)
  <2>1. s3 \in Stores /\ Quiet(s2, s3, b)
    BY <1>4, <1>8, StatusEdit
  <2>2. Waits(s3)
    BY <1>7, <1>8, <2>1 DEF Quiet
  <2>3. Known(s2, b)
    BY <1>2, <1>8 DEF Known, Held
  <2> QED BY <1>4, <1>8, <2>1, <2>2, <2>3, StatusSet
<1> HIDE DEF s3
<1>10. s4 \in Stores /\ s4.builds = s3.builds /\ Waits(s4)
  <2>1. s4 \in Stores /\ s4.builds = s3.builds /\ s4.edgeJobs = s3.edgeJobs
    BY <1>4, <1>9, EventCall
  <2> QED BY <1>7, <1>9, <2>1, SameJobs
<1> HIDE DEF s4
<1>11. q \in Seq(Stores) /\ Len(q) = 4
  BY <1>6, <1>8, <1>9, <1>10
<1> DEFINE Fine(st) == st.builds[b].status # "awaiting_approval"
<1>12. ASSUME NEW j \in 1 .. 4 PROVE Fine(q[j])
  <2>1. Fine(s1) /\ Fine(s2) /\ Fine(s3) /\ Fine(s4)
    BY <1>2, <1>5, <1>6, <1>8, <1>9, <1>10
  <2>2. j = 1 \/ j = 2 \/ j = 3 \/ j = 4
    OBVIOUS
  <2> HIDE DEF Fine
  <2> QED BY <2>1, <2>2
<1>13. Fine(p[1]) /\ Fine(p[2])
  BY <1>2, <1>5
<1>14. q[4] = s4
  OBVIOUS
<1> HIDE DEF q, Fine
<1>15. /\ \A k \in 1 .. Len(t) : Fine(t[k])
       /\ t[Len(t)] = s4
  <2>1. /\ (p \o q)[Len(p \o q)] = q[Len(q)]
        /\ \A k \in 1 .. Len(p \o q) :
             \/ (p \o q)[k] = p[1]
             \/ (p \o q)[k] = p[2]
             \/ \E j \in 1 .. Len(q) : (p \o q)[k] = q[j]
    <3>1. Len(q) > 0
      BY <1>11
    <3> QED BY <1>0, <1>11, <3>1, AfterPolicy
  <2> QED BY <1>1, <1>11, <1>12, <1>13, <1>14, <2>1
<1>16. Settles(s4, b)
  <2>1. /\ s4.builds[b].mode = "chatgpt_edge" /\ s4.builds[b].workspace = r.workspace
        /\ s4.builds[b].status = "queued"
    BY <1>5, <1>6, <1>8, <1>9, <1>10 DEF Restatused, Keeps
  <2>2. JobOf(s4, b)
    BY <1>10, <2>1 DEF Waits, JobOf
  <2> QED BY <2>1, <2>2 DEF Settles
<1> QED BY <1>15, <1>16 DEF Fine, t

\* A rejected await fails the build, whatever a reviewer has made of it since.
LEMMA FailCourse ==
  ASSUME store \in Stores, NEW b \in Builds, Known(store, b)
  PROVE  LET t == FailTrail(b)
         IN  /\ \A k \in 1 .. Len(t) : t[k].builds[b].status # "awaiting_approval"
             /\ Settles(t[Len(t)], b)
<1> DEFINE s1 == UpdateBuildStatus(store, b, "failed")
           s2 == SetTestStatus(s1, b, "failed")
           s3 == AddBuildEvent(s2, b, "failed")
           t  == FailTrail(b)
<1>0. /\ "failed" \in BuildStatuses /\ "failed" \in TestStatuses
      /\ "failed" \in EventKinds
  BY DEF BuildStatuses, TestStatuses, EventKinds
<1>1. s1 \in Stores /\ s1.builds[b].status = "failed"
  BY <1>0, StatusEdit
<1>2. t = <<s1, s2, s3>>
  BY DEF FailTrail
<1> HIDE DEF s1
<1>3. s2 \in Stores /\ s2.builds[b].status = "failed"
  BY <1>0, <1>1, RecordEdit DEF Minor
<1> HIDE DEF s2
<1>4. s3.builds[b].status = "failed"
  BY <1>0, <1>3, EventCall
<1> HIDE DEF s3, t
<1>5. /\ Len(t) = 3
      /\ \A k \in 1 .. 3 : t[k].builds[b].status = "failed"
  <2>1. Len(t) = 3 /\ t[1] = s1 /\ t[2] = s2 /\ t[3] = s3
    BY <1>2
  <2>2. \A k \in 1 .. 3 : k = 1 \/ k = 2 \/ k = 3
    OBVIOUS
  <2> QED BY <1>1, <1>3, <1>4, <2>1, <2>2
<1> QED BY <1>5 DEF Settles, t

\* The jobs of `old` stay, for the builds and the workspaces they were made for.
JobsStay(old, new) ==
  \A j \in DOMAIN old.edgeJobs :
    /\ j \in DOMAIN new.edgeJobs
    /\ new.edgeJobs[j].build = old.edgeJobs[j].build
    /\ new.edgeJobs[j].workspace = old.edgeJobs[j].workspace

\* A build whose status this leaves, or moves to where no handler works on it,
\* stays complete when it is offered, at work when it is worked on, and settled.
Onwards == {"approved", "rejected", "awaiting_scope_review", "deployed"}

LEMMA CarriedOn ==
  ASSUME NEW old \in Offers, NEW new \in Stores, NEW c \in Builds, NEW what \in Awaits,
         Restatused(old, new, c),
         new.builds[c].status \in {old.builds[c].status} \cup Onwards
  PROVE  /\ new.builds[c].status = "awaiting_approval" => Offerable(new.builds[c])
         /\ Working(old.builds[c], what) => Working(new.builds[c], what)
<1>1. ASSUME new.builds[c].status = "awaiting_approval"
      PROVE  Offerable(new.builds[c])
  <2>1. old.builds[c].status = "awaiting_approval"
    BY <1>1 DEF Onwards
  <2>2. Offerable(old.builds[c])
    BY <2>1 DEF Offers
  <2> QED BY <2>2 DEF Offerable, Restatused, Keeps
<1>2. ASSUME Working(old.builds[c], what)
      PROVE  Working(new.builds[c], what)
  <2>1. CASE what = "none"
    BY <2>1 DEF Working
  <2>2. CASE what # "none"
    <3>1. old.builds[c].status \notin {"absent", "awaiting_approval"}
      BY <1>2, <2>2 DEF Working
    <3>2. new.builds[c].status \notin {"absent", "awaiting_approval"}
      BY <3>1 DEF Onwards
    <3> QED BY <1>2, <2>2, <3>2 DEF Working, Restatused, Keeps
  <2> QED BY <2>1, <2>2
<1> QED BY <1>1, <1>2

LEMMA StaysSettled ==
  ASSUME NEW old \in Stores, NEW new \in Stores, NEW c \in Builds, NEW what,
         Restatused(old, new, c), new.builds[c].status = old.builds[c].status,
         JobsStay(old, new), Leads(old.approvals, new.approvals),
         Ends(old, c, what)
  PROVE  Ends(new, c, what)
<1>1. SUFFICES ASSUME Known(new, c), what = "none", DecisionsOn(new, c) = {}
               PROVE  Settles(new, c)
  BY DEF Ends
<1>2. Known(old, c)
  BY <1>1 DEF Known, Held
<1>3. DecisionsOn(old, c) = {}
  <2>1. /\ old.approvals \in Seq(ApprovalRecords) /\ new.approvals \in Seq(ApprovalRecords)
    BY DEF Stores
  <2>2. DOMAIN old.approvals \subseteq DOMAIN new.approvals
        /\ \A i \in DOMAIN old.approvals : new.approvals[i] = old.approvals[i]
    BY <2>1 DEF Leads
  <2> QED BY <1>1, <2>2 DEF DecisionsOn
<1>4. Settles(old, c)
  BY <1>1, <1>2, <1>3 DEF Ends
<1>5. JobOf(old, c) => JobOf(new, c)
  BY DEF JobOf, JobsStay, Restatused, Keeps
<1> QED BY <1>4, <1>5 DEF Settles, Restatused, Keeps

LEMMA SameRecord ==
  ASSUME NEW old, NEW new, NEW c, new.builds[c] = old.builds[c]
  PROVE  Restatused(old, new, c)
BY DEF Restatused, Keeps

\* Reviews and deployments change nothing in a record but its status.
LEMMA ReviewKeeps ==
  ASSUME store \in Stores, NEW b \in Builds, NEW a \in Decisions, Known(store, b),
         NEW k \in 1 .. 3
  PROVE  Restatused(store, ReviewTrail(b, a)[k], b)
<1> DEFINE s1 == UpdateBuildStatus(store, b, DecidedStatus(a))
           s2 == AddApproval(s1, b, a)
           s3 == AddBuildEvent(s2, b, a)
<1>0. DecidedStatus(a) \in BuildStatuses
  BY DecidedStatuses DEF BuildStatuses
<1>1. s1 \in Stores
  BY <1>0, StatusEdit
<1>2. Restatused(store, s1, b)
  BY <1>0, <1>1, StatusSet DEF Restatused
<1>3. ReviewTrail(b, a) = <<s1, s2, s3>>
  BY DEF ReviewTrail
<1> HIDE DEF s1
<1>4. s2 \in Stores /\ s2.builds = s1.builds
  BY <1>1, ApprovalAdd
<1> HIDE DEF s2
<1>5. s3.builds = s2.builds
  BY <1>4, EventBuilds
<1> HIDE DEF s3
<1>6. Restatused(store, s2, b) /\ Restatused(store, s3, b)
  BY <1>2, <1>4, <1>5 DEF Restatused
<1>7. k = 1 \/ k = 2 \/ k = 3
  OBVIOUS
<1> QED BY <1>2, <1>3, <1>6, <1>7

LEMMA DeployKeeps ==
  ASSUME store \in Stores, NEW b \in Builds, NEW env \in Environments, Known(store, b),
         NEW k \in 1 .. 5
  PROVE  Restatused(store, DeployTrail(b, env)[k], b)
<1> DEFINE n  == Len(store.deployments) + 1
           s1 == CreateDeployment(store, b, env)
           s2 == UpdateDeploymentStatus(s1, n, "running")
           s3 == UpdateDeploymentStatus(s2, n, "succeeded")
           s4 == IF env = "production" THEN UpdateBuildStatus(s3, b, "deployed") ELSE s3
           s5 == AddBuildEvent(s4, b, "deployed")
<1>0. /\ n \in Nat /\ {"running", "succeeded"} \subseteq DeploymentStatuses
      /\ "deployed" \in BuildStatuses
  BY DEF DeploymentStatuses, BuildStatuses, Stores
<1>1. s1 \in Stores /\ s1.builds = store.builds
  BY DeploymentAdd
<1>6. DeployTrail(b, env) = <<s1, s2, s3, s4, s5>>
  BY DEF DeployTrail
<1> HIDE DEF s1, n
<1>2. s2 \in Stores /\ s2.builds = store.builds
  BY <1>0, <1>1, DeploymentEdit
<1> HIDE DEF s2
<1>3. s3 \in Stores /\ s3.builds = store.builds
  BY <1>0, <1>2, DeploymentEdit
<1> HIDE DEF s3
<1>4. s4 \in Stores /\ Restatused(store, s4, b)
  <2>1. Known(s3, b) /\ Restatused(store, s3, b)
    BY <1>3, SameRecord DEF Known
  <2>2. UpdateBuildStatus(s3, b, "deployed") \in Stores
    BY <1>0, <1>3, StatusEdit
  <2>3. Restatused(s3, UpdateBuildStatus(s3, b, "deployed"), b)
    BY <1>0, <1>3, <2>1, <2>2, StatusSet DEF Restatused
  <2>4. Restatused(store, UpdateBuildStatus(s3, b, "deployed"), b)
    BY <1>3, <2>3 DEF Restatused
  <2> QED BY <1>3, <2>1, <2>2, <2>4
<1> HIDE DEF s4
<1>5. s5.builds = s4.builds
  BY <1>4, EventBuilds
<1> HIDE DEF s5
<1>7. /\ Restatused(store, s1, b) /\ Restatused(store, s2, b) /\ Restatused(store, s3, b)
      /\ Restatused(store, s5, b)
  BY <1>1, <1>2, <1>3, <1>4, <1>5, SameRecord DEF Restatused
<1>8. k = 1 \/ k = 2 \/ k = 3 \/ k = 4 \/ k = 5
  OBVIOUS
<1> QED BY <1>4, <1>6, <1>7, <1>8

LEMMA JobsOnlyStay ==
  ASSUME NEW st \in Stores
  PROVE  /\ \A new : MoreJobs(st, new) => JobsStay(st, new)
         /\ \A w \in Workspaces, a \in Agents :
              QueuedJobs(st, w) # {} => JobsStay(st, ClaimEdgeJob(st, w, a))
         /\ \A j \in DOMAIN st.edgeJobs, s \in {"succeeded", "failed"} :
              JobsStay(st, CompleteEdgeJob(st, j, s))
<1>1. \A new : MoreJobs(st, new) => JobsStay(st, new)
  BY DEF MoreJobs, JobsStay
<1>2. ASSUME NEW w \in Workspaces, NEW a \in Agents, QueuedJobs(st, w) # {}
      PROVE  JobsStay(st, ClaimEdgeJob(st, w, a))
  <2> DEFINE j   == NextJob(st, w)
             new == ClaimEdgeJob(st, w, a)
  <2>1. /\ j \in QueuedJobs(st, w)
        /\ JobMoves(st, new, j, "claimed")
        /\ new.edgeJobs[j] = [st.edgeJobs[j] EXCEPT !.status = "claimed", !.claimedBy = a]
    BY <1>2, ClaimMoves
  <2> HIDE DEF j, new
  <2>2. st.edgeJobs[j] \in EdgeJobRecords
    BY <2>1 DEF QueuedJobs, Stores
  <2>3. /\ new.edgeJobs[j].build = st.edgeJobs[j].build
        /\ new.edgeJobs[j].workspace = st.edgeJobs[j].workspace
    BY <2>1, <2>2 DEF EdgeJobRecords
  <2> QED BY <2>1, <2>3 DEF JobsStay, JobMoves, new
<1>3. ASSUME NEW j \in DOMAIN st.edgeJobs, NEW s \in {"succeeded", "failed"}
      PROVE  JobsStay(st, CompleteEdgeJob(st, j, s))
  <2> DEFINE new == CompleteEdgeJob(st, j, s)
  <2>1. /\ JobMoves(st, new, j, s)
        /\ new.edgeJobs[j] = [st.edgeJobs[j] EXCEPT !.status = s]
    BY CompletionMoves, ZenonT(60)
  <2> HIDE DEF new
  <2>2. st.edgeJobs[j] \in EdgeJobRecords
    BY DEF Stores
  <2>3. /\ new.edgeJobs[j].build = st.edgeJobs[j].build
        /\ new.edgeJobs[j].workspace = st.edgeJobs[j].workspace
    BY <2>1, <2>2 DEF EdgeJobRecords
  <2> QED BY <2>1, <2>3 DEF JobsStay, JobMoves, new
<1> QED BY <1>1, <1>2, <1>3
------------------------------------------------------------------------------
\* What a handler's trail makes of the requests: every store of it offers complete
\* builds only, its last one has what the handlers await next, and settles every
\* request that ends if the present one did.
Delivers(t, aw) ==
  /\ t \in Seq(Offers) /\ Len(t) > 0
  /\ \A c \in Builds : Working(t[Len(t)].builds[c], aw[c])
  /\ (\A c \in Builds : Ends(store, c, flight[c]))
       => \A c \in Builds : Ends(t[Len(t)], c, aw[c])

\* What the handlers at work rely on.
Served ==
  /\ store \in Offers
  /\ flight \in [Builds -> Awaits]
  /\ \A c \in Builds : Working(store.builds[c], flight[c])

LEMMA InOffers ==
  ASSUME NEW t \in Seq(Stores), \A k \in 1 .. Len(t) : t[k] \in Offers
  PROVE  t \in Seq(Offers)
OBVIOUS

\* A store that no handler works for b in keeps what there was of the others.
LEMMA Elsewhere ==
  ASSUME store \in Offers, NEW b \in Builds, NEW new, Calm(store, new, b),
         NEW c \in Builds \ {b}, NEW what \in Awaits
  PROVE  /\ new.builds[c].status = "awaiting_approval" => Offerable(new.builds[c])
         /\ Working(store.builds[c], what) => Working(new.builds[c], what)
         /\ Ends(store, c, what) => Ends(new, c, what)
<1>1. /\ new \in Stores /\ store \in Stores
      /\ new.builds[c] = store.builds[c]
      /\ new.approvals = store.approvals
      /\ MoreJobs(store, new)
  BY DEF Calm, Quiet, Offers
<1>2. Restatused(store, new, c)
  BY <1>1, SameRecord
<1>3. JobsStay(store, new)
  BY <1>1, JobsOnlyStay
<1>4. Leads(store.approvals, new.approvals)
  BY <1>1, SameRetells DEF Retells
<1>5. /\ new.builds[c].status = "awaiting_approval" => Offerable(new.builds[c])
      /\ Working(store.builds[c], what) => Working(new.builds[c], what)
  BY <1>1, <1>2, CarriedOn
<1>6. Ends(store, c, what) => Ends(new, c, what)
  BY <1>1, <1>2, <1>3, <1>4, StaysSettled
<1> QED BY <1>5, <1>6

\* The create handler of b, whose next await is x.
LEMMA CalmDelivers ==
  ASSUME Served, NEW b \in Builds, NEW x \in Awaits, NEW t, CalmTrail(b, t),
         \A k \in 1 .. Len(t) :
           t[k].builds[b].status = "awaiting_approval" => Offerable(t[k].builds[b]),
         Working(t[Len(t)].builds[b], x),
         Ends(t[Len(t)], b, x)
  PROVE  Delivers(t, Awaiting(b, x))
<1> DEFINE n == Len(t)
<1>1. /\ t \in Seq(Stores) /\ n > 0 /\ n \in 1 .. n
      /\ \A k \in 1 .. n : Calm(store, t[k], b)
  BY DEF CalmTrail
<1>2. store \in Offers /\ flight \in [Builds -> Awaits]
  BY DEF Served
<1>3. \A c \in Builds : Awaiting(b, x)[c] = IF c = b THEN x ELSE flight[c]
  BY <1>2 DEF Awaiting
<1>4. ASSUME NEW k \in 1 .. n PROVE t[k] \in Offers
  <2>1. ASSUME NEW c \in Builds, t[k].builds[c].status = "awaiting_approval"
        PROVE  Offerable(t[k].builds[c])
    <3>1. CASE c = b
      BY <2>1, <3>1
    <3>2. CASE c # b
      <4>1. "none" \in Awaits
        BY DEF Awaits
      <4> QED BY <1>1, <1>2, <2>1, <3>2, <4>1, Elsewhere
    <3> QED BY <3>1, <3>2
  <2>2. t[k] \in Stores
    BY <1>1 DEF Calm
  <2> QED BY <2>1, <2>2 DEF Offers
<1>5. t \in Seq(Offers)
  BY <1>1, <1>4, InOffers
<1>6. ASSUME NEW c \in Builds PROVE Working(t[n].builds[c], Awaiting(b, x)[c])
  <2>1. CASE c = b
    BY <1>3, <2>1
  <2>2. CASE c # b
    <3>1. Working(store.builds[c], flight[c]) /\ flight[c] \in Awaits
      BY DEF Served
    <3>2. Calm(store, t[n], b)
      BY <1>1
    <3>3. Working(t[n].builds[c], flight[c])
      BY <1>2, <2>2, <3>1, <3>2, Elsewhere
    <3> QED BY <1>3, <2>2, <3>3
  <2> QED BY <2>1, <2>2
<1>7. ASSUME \A c \in Builds : Ends(store, c, flight[c]), NEW c \in Builds
      PROVE  Ends(t[n], c, Awaiting(b, x)[c])
  <2>1. CASE c = b
    BY <1>3, <2>1
  <2>2. CASE c # b
    <3>1. Ends(store, c, flight[c]) /\ flight[c] \in Awaits
      BY <1>2, <1>7
    <3>2. Calm(store, t[n], b)
      BY <1>1
    <3>3. Ends(t[n], c, flight[c])
      BY <1>2, <2>2, <3>1, <3>2, Elsewhere
    <3> QED BY <1>3, <2>2, <3>3
  <2> QED BY <2>1, <2>2
<1> QED BY <1>1, <1>5, <1>6, <1>7 DEF Delivers

\* The handlers that leave all but the status of a build.
LEMMA OthersDeliver ==
  ASSUME Served, NEW t \in Seq(Stores), Len(t) > 0,
         \A k \in 1 .. Len(t) : \A c \in Builds :
           /\ Restatused(store, t[k], c)
           /\ t[k].builds[c].status \in {store.builds[c].status} \cup Onwards,
         \A c \in Builds : Ends(store, c, flight[c]) => Ends(t[Len(t)], c, flight[c])
  PROVE  Delivers(t, flight)
<1> DEFINE n == Len(t)
<1>1. /\ n > 0 /\ n \in 1 .. n
      /\ \A k \in 1 .. n : t[k] \in Stores
  OBVIOUS
<1>2. store \in Offers /\ flight \in [Builds -> Awaits] /\ "none" \in Awaits
  BY DEF Served, Awaits
<1>3. ASSUME NEW k \in 1 .. n PROVE t[k] \in Offers
  <2>1. ASSUME NEW c \in Builds
        PROVE  t[k].builds[c].status = "awaiting_approval" => Offerable(t[k].builds[c])
    <3>1. /\ Restatused(store, t[k], c)
          /\ t[k].builds[c].status \in {store.builds[c].status} \cup Onwards
          /\ t[k] \in Stores
      BY <1>1
    <3> QED BY <1>2, <3>1, CarriedOn
  <2> QED BY <1>1, <2>1 DEF Offers
<1>4. t \in Seq(Offers)
  BY <1>3, InOffers
<1>5. ASSUME NEW c \in Builds PROVE Working(t[n].builds[c], flight[c])
  <2>1. Working(store.builds[c], flight[c]) /\ flight[c] \in Awaits
    BY DEF Served
  <2>2. /\ Restatused(store, t[n], c)
        /\ t[n].builds[c].status \in {store.builds[c].status} \cup Onwards
        /\ t[n] \in Stores
    BY <1>1
  <2> QED BY <1>2, <2>1, <2>2, CarriedOn
<1> QED BY <1>1, <1>4, <1>5 DEF Delivers

\* A decision moves its build onwards and leaves a record of itself.
LEMMA ReviewDelivers ==
  ASSUME Served, NEW b \in Builds, NEW a \in Decisions, Known(store, b)
  PROVE  Delivers(ReviewTrail(b, a), flight)
<1> DEFINE t == ReviewTrail(b, a)
<1>1. /\ store \in Stores
      /\ t \in Seq(Stores) /\ Len(t) = 3
      /\ \A k \in 1 .. 3 : Reviewing(k, t[k], b, a) /\ Restatused(store, t[k], b)
  BY ReviewCalls, ReviewKeeps DEF Served, Offers
<1> HIDE DEF t
<1>2. ASSUME NEW k \in 1 .. 3, NEW c \in Builds
      PROVE  /\ Restatused(store, t[k], c)
             /\ t[k].builds[c].status \in {store.builds[c].status} \cup Onwards
  <2>1. Reviewing(k, t[k], b, a)
    BY <1>1
  <2>2. CASE c = b
    BY <1>1, <2>1, <2>2, DecidedStatuses DEF Reviewing, Onwards
  <2>3. CASE c # b
    <3>1. t[k].builds[c] = store.builds[c]
      BY <2>1, <2>3 DEF Reviewing
    <3> QED BY <3>1, SameRecord
  <2> QED BY <2>2, <2>3
<1>3. ASSUME NEW c \in Builds, Ends(store, c, flight[c])
      PROVE  Ends(t[3], c, flight[c])
  <2> DEFINE rec == [build |-> b, action |-> a]
  <2>1. Reviewing(3, t[3], b, a) /\ t[3] \in Stores
    BY <1>1
  <2>2. /\ t[3].approvals = Append(store.approvals, rec)
        /\ store.approvals \in Seq(ApprovalRecords) /\ rec \in ApprovalRecords
    BY <1>1, <2>1 DEF Reviewing, Stores, ApprovalRecords
  <2>3. CASE c = b
    <3>1. Len(store.approvals) + 1 \in DecisionsOn(t[3], b)
      BY <2>2 DEF DecisionsOn
    <3> QED BY <2>3, <3>1 DEF Ends
  <2>4. CASE c # b
    <3>1. t[3].builds[c] = store.builds[c] /\ MoreJobs(store, t[3])
      BY <2>1, <2>4 DEF Reviewing
    <3>2. Restatused(store, t[3], c)
      BY <1>2
    <3>3. JobsStay(store, t[3])
      BY <1>1, <3>1, JobsOnlyStay
    <3>4. Leads(store.approvals, t[3].approvals)
      BY <2>2, AppendLeads
    <3> QED BY <1>1, <1>3, <2>1, <3>1, <3>2, <3>3, <3>4, StaysSettled
  <2> QED BY <2>3, <2>4
<1>4. t \in Seq(Stores) /\ Len(t) > 0
  BY <1>1
<1>5. \A k \in 1 .. Len(t) : \A c \in Builds :
        /\ Restatused(store, t[k], c)
        /\ t[k].builds[c].status \in {store.builds[c].status} \cup Onwards
  BY <1>1, <1>2
<1>6. \A c \in Builds : Ends(store, c, flight[c]) => Ends(t[Len(t)], c, flight[c])
  BY <1>1, <1>3
<1>7. Delivers(t, flight)
  BY <1>4, <1>5, <1>6, OthersDeliver
<1> QED BY <1>7 DEF t

\* A deployment marks an approved build only, which somebody decided on.
LEMMA DeployDelivers ==
  ASSUME Served, NEW b \in Builds, NEW env \in Environments, MayDeploy(b, env)
  PROVE  Delivers(DeployTrail(b, env), flight)
<1> DEFINE t == DeployTrail(b, env)
<1>0. Known(store, b)
  BY DEF MayDeploy
<1>1. /\ store \in Stores
      /\ t \in Seq(Stores) /\ Len(t) = 5
      /\ \A k \in 1 .. 5 : Deploying(k, t[k], b, env) /\ Restatused(store, t[k], b)
  BY <1>0, DeployCalls, DeployKeeps DEF Served, Offers
<1> HIDE DEF t
<1>2. ASSUME NEW k \in 1 .. 5, NEW c \in Builds
      PROVE  /\ Restatused(store, t[k], c)
             /\ t[k].builds[c].status \in {store.builds[c].status} \cup Onwards
  <2>1. Deploying(k, t[k], b, env)
    BY <1>1
  <2>2. CASE c = b
    BY <1>1, <2>1, <2>2 DEF Deploying, Onwards
  <2>3. CASE c # b
    <3>1. t[k].builds[c] = store.builds[c]
      BY <2>1, <2>3 DEF Deploying
    <3> QED BY <3>1, SameRecord
  <2> QED BY <2>2, <2>3
<1>3. ASSUME NEW c \in Builds, Ends(store, c, flight[c])
      PROVE  Ends(t[5], c, flight[c])
  <2>0. 5 \in 1 .. 5 /\ 5 \in 1 .. Len(t)
    BY <1>1
  <2>1. Deploying(5, t[5], b, env) /\ t[5] \in Stores
    <3>1. Deploying(5, t[5], b, env)
      BY <1>1, <2>0
    <3>2. \A q \in Seq(Stores) : \A n \in 1 .. Len(q) : q[n] \in Stores
      OBVIOUS
    <3>3. t[5] \in Stores
      BY <1>1, <2>0, <3>2
    <3> QED BY <3>1, <3>3
  <2>2. t[5].approvals = store.approvals
    BY <2>1 DEF Deploying
  <2>3. CASE t[5].builds[c].status = store.builds[c].status
    <3>1. MoreJobs(store, t[5])
      BY <2>1 DEF Deploying
    <3>2. Restatused(store, t[5], c)
      BY <1>2
    <3>3. JobsStay(store, t[5])
      BY <1>1, <3>1, JobsOnlyStay
    <3>4. Leads(store.approvals, t[5].approvals)
      BY <1>1, <2>2, SameRetells DEF Retells
    <3> QED BY <1>1, <1>3, <2>1, <2>3, <3>2, <3>3, <3>4, StaysSettled
  <2>4. CASE t[5].builds[c].status # store.builds[c].status
    <3>1. c = b /\ env = "production"
      BY <2>1, <2>4 DEF Deploying
    <3>2. store.builds[c].status = "approved"
      BY <3>1 DEF MayDeploy, ProtectedEnvironments
    <3>3. ~Settles(store, c)
      BY <3>2 DEF Settles
    <3>4. DecisionsOn(t[5], c) = DecisionsOn(store, c)
      BY <2>2 DEF DecisionsOn
    <3> QED BY <1>0, <1>3, <3>1, <3>3, <3>4 DEF Ends
  <2> QED BY <2>3, <2>4
<1>4. t \in Seq(Stores) /\ Len(t) > 0
  BY <1>1
<1>5. \A k \in 1 .. Len(t) : \A c \in Builds :
        /\ Restatused(store, t[k], c)
        /\ t[k].builds[c].status \in {store.builds[c].status} \cup Onwards
  BY <1>1, <1>2
<1>6. \A c \in Builds : Ends(store, c, flight[c]) => Ends(t[Len(t)], c, flight[c])
  BY <1>1, <1>3
<1>7. Delivers(t, flight)
  BY <1>4, <1>5, <1>6, OthersDeliver
<1> QED BY <1>7 DEF t

\* A call that leaves the builds and the decisions alone, and keeps the jobs.
LEMMA OneCallDelivers ==
  ASSUME Served, NEW new \in Stores,
         new.builds = store.builds, new.approvals = store.approvals, JobsStay(store, new)
  PROVE  Delivers(<<new>>, flight)
<1> DEFINE t == <<new>>
<1>1. /\ store \in Stores
      /\ t \in Seq(Stores) /\ Len(t) = 1 /\ t[1] = new
  BY DEF Served, Offers
<1> HIDE DEF t
<1>2. ASSUME NEW c \in Builds
      PROVE  /\ Restatused(store, new, c)
             /\ new.builds[c].status = store.builds[c].status
  BY SameRecord
<1>3. ASSUME NEW c \in Builds, Ends(store, c, flight[c])
      PROVE  Ends(new, c, flight[c])
  <2>1. Leads(store.approvals, new.approvals)
    BY <1>1, SameRetells DEF Retells
  <2> QED BY <1>1, <1>2, <1>3, <2>1, StaysSettled
<1>4. t \in Seq(Stores) /\ Len(t) > 0
  BY <1>1
<1>5. \A k \in 1 .. Len(t) : \A c \in Builds :
        /\ Restatused(store, t[k], c)
        /\ t[k].builds[c].status \in {store.builds[c].status} \cup Onwards
  BY <1>1, <1>2
<1>6. \A c \in Builds : Ends(store, c, flight[c]) => Ends(t[Len(t)], c, flight[c])
  BY <1>1, <1>3
<1>7. Delivers(t, flight)
  BY <1>4, <1>5, <1>6, OthersDeliver
<1> QED BY <1>7 DEF t

\* The segments of the create handler, the whole of it.
LEMMA CreateDelivers ==
  ASSUME Served, NEW b \in Builds
  PROVE  /\ \A mode \in Modes, workspace \in Workspaces, path \in Paths :
              Delivers(IntakeTrail(b, mode, workspace, path), Awaiting(b, "compiling"))
         /\ flight[b] = "compiling" => Delivers(IndexTrail(b), Awaiting(b, "reading"))
         /\ flight[b] = "reading" /\ store.builds[b].mode # "chatgpt_edge"
              => \A e \in BOOLEAN : Delivers(ManagedTrail(b, e), Awaiting(b, "none"))
         /\ flight[b] = "reading" /\ store.builds[b].mode = "chatgpt_edge"
              => \A e \in BOOLEAN : Delivers(EdgeTrail(b, e), Awaiting(b, "none"))
         /\ flight[b] # "none" => Delivers(FailTrail(b), Awaiting(b, "none"))
<1>0. /\ store \in Stores
      /\ Working(store.builds[b], flight[b])
      /\ {"none", "compiling", "reading"} \subseteq Awaits
  BY DEF Served, Offers, Awaits
<1>1. \A q, st : Working(q, "none") /\ (Settles(st, b) => Ends(st, b, "none"))
  BY DEF Working, Ends
<1>2. \A st : Ends(st, b, "compiling") /\ Ends(st, b, "reading")
  BY DEF Ends
<1>3. ASSUME NEW mode \in Modes, NEW workspace \in Workspaces, NEW path \in Paths
      PROVE  Delivers(IntakeTrail(b, mode, workspace, path), Awaiting(b, "compiling"))
  <2> DEFINE t == IntakeTrail(b, mode, workspace, path)
  <2>1. CalmTrail(b, t)
    BY <1>0, IntakeCalm
  <2>2. /\ \A k \in 1 .. Len(t) : t[k].builds[b].status # "awaiting_approval"
        /\ Working(t[Len(t)].builds[b], "compiling")
    BY <1>0, IntakeCourse
  <2> HIDE DEF t
  <2>3. Delivers(t, Awaiting(b, "compiling"))
    BY <1>0, <1>2, <2>1, <2>2, CalmDelivers
  <2> QED BY <2>3 DEF t
<1>4. ASSUME flight[b] = "compiling"
      PROVE  Delivers(IndexTrail(b), Awaiting(b, "reading"))
  <2> DEFINE t == IndexTrail(b)
  <2>1. CalmTrail(b, t)
    BY <1>0, IndexCalm
  <2>2. /\ \A k \in 1 .. Len(t) : t[k].builds[b].status # "awaiting_approval"
        /\ Working(t[Len(t)].builds[b], "reading")
    BY <1>0, <1>4, IndexCourse
  <2> HIDE DEF t
  <2>3. Delivers(t, Awaiting(b, "reading"))
    BY <1>0, <1>2, <2>1, <2>2, CalmDelivers
  <2> QED BY <2>3 DEF t
<1>5. ASSUME flight[b] = "reading", store.builds[b].mode # "chatgpt_edge", NEW e \in BOOLEAN
      PROVE  Delivers(ManagedTrail(b, e), Awaiting(b, "none"))
  <2> DEFINE t == ManagedTrail(b, e)
  <2>1. CalmTrail(b, t)
    BY <1>0, ManagedCalm
  <2>2. /\ \A k \in 1 .. Len(t) :
             t[k].builds[b].status = "awaiting_approval" => Offerable(t[k].builds[b])
        /\ Settles(t[Len(t)], b)
    BY <1>0, <1>5, ManagedCourse
  <2> HIDE DEF t
  <2>3. Delivers(t, Awaiting(b, "none"))
    BY <1>0, <1>1, <2>1, <2>2, CalmDelivers
  <2> QED BY <2>3 DEF t
<1>6. ASSUME flight[b] = "reading", store.builds[b].mode = "chatgpt_edge", NEW e \in BOOLEAN
      PROVE  Delivers(EdgeTrail(b, e), Awaiting(b, "none"))
  <2> DEFINE t == EdgeTrail(b, e)
  <2>1. CalmTrail(b, t)
    BY <1>0, EdgeCalm
  <2>2. /\ \A k \in 1 .. Len(t) : t[k].builds[b].status # "awaiting_approval"
        /\ Settles(t[Len(t)], b)
    BY <1>0, <1>6, EdgeCourse
  <2> HIDE DEF t
  <2>3. Delivers(t, Awaiting(b, "none"))
    BY <1>0, <1>1, <2>1, <2>2, CalmDelivers
  <2> QED BY <2>3 DEF t
<1>7. ASSUME flight[b] # "none"
      PROVE  Delivers(FailTrail(b), Awaiting(b, "none"))
  <2> DEFINE t == FailTrail(b)
  <2>0. Known(store, b)
    BY <1>0, <1>7 DEF Working, Known, Held
  <2>1. CalmTrail(b, t)
    BY <1>0, FailCalm
  <2>2. /\ \A k \in 1 .. Len(t) : t[k].builds[b].status # "awaiting_approval"
        /\ Settles(t[Len(t)], b)
    BY <1>0, <2>0, FailCourse
  <2> HIDE DEF t
  <2>3. Delivers(t, Awaiting(b, "none"))
    BY <1>0, <1>1, <2>1, <2>2, CalmDelivers
  <2> QED BY <2>3 DEF t
<1> QED BY <1>3, <1>4, <1>5, <1>6, <1>7

------------------------------------------------------------------------------
\* Where create requests end is kept by every step: while no crash came, each that
\* ended has settled; and the store and the file never offer an incomplete build.
OfferInv ==
  /\ TypeOK
  /\ Served
  /\ disk \in Offers \cup {Torn}
  /\ ~up => \A c \in Builds : flight[c] = "none"
  /\ crashes = 0 => up /\ \A c \in Builds : Ends(store, c, flight[c])

LEMMA EmptyOffers ==
  /\ EmptyStore \in Offers
  /\ \A c \in Builds, what \in Awaits : Ends(EmptyStore, c, what)
<1>1. \A c \in Builds : EmptyStore.builds[c].status = "absent"
  BY DEF EmptyStore, NewBuild
<1>2. EmptyStore \in Offers
  BY <1>1, EmptyStoreType DEF Offers
<1>3. \A c \in Builds, what \in Awaits : Ends(EmptyStore, c, what)
  BY <1>1 DEF Ends, Known, Held
<1> QED BY <1>2, <1>3

LEMMA OfferInit == Init => OfferInv
<1>1. ASSUME Init PROVE TypeOK
  BY <1>1, EmptyStoreType, ControlApiAssumption DEF Init, TypeOK, Awaits
<1>2. ASSUME Init
      PROVE  /\ store = EmptyStore /\ disk = EmptyStore /\ up
             /\ flight \in [Builds -> Awaits]
             /\ \A c \in Builds : flight[c] = "none"
  BY <1>2 DEF Init, Awaits
<1>3. ASSUME Init PROVE Served
  BY <1>2, <1>3, EmptyOffers DEF Served, Working
<1> QED BY <1>1, <1>2, <1>3, EmptyOffers DEF OfferInv

LEMMA OfferSegment ==
  ASSUME OfferInv, NEW t, NEW aw \in [Builds -> Awaits], Delivers(t, aw), Segment(t, aw)
  PROVE  OfferInv'
<1>1. /\ TypeOK /\ Served
      /\ t \in Seq(Offers) /\ Len(t) > 0
      /\ disk \in Offers \cup {Torn}
      /\ crashes \in Nat
  BY ControlApiAssumption DEF OfferInv, Delivers, TypeOK
<1>2. /\ store' \in Offers
      /\ disk' \in Offers \cup {Torn}
      /\ flight' \in [Builds -> Awaits]
      /\ up' \in BOOLEAN
      /\ crashes' \in 0 .. MaxCrashes
      /\ lostWrites' \in 0 .. MaxLostWrites
  BY <1>1, SegmentIn
<1>3. TypeOK'
  BY <1>2 DEF TypeOK, Offers
<1>4. CASE Completes(t, aw) /\ up
  <2>1. /\ store' = t[Len(t)] /\ flight' = aw /\ up' = up /\ crashes' = crashes
    BY <1>4 DEF Completes, Last
  <2>2. Served'
    BY <1>2, <2>1 DEF Served, Delivers
  <2>3. crashes' = 0 => \A c \in Builds : Ends(store', c, flight'[c])
    BY <2>1 DEF OfferInv, Delivers
  <2> QED BY <1>2, <1>3, <1>4, <2>1, <2>2, <2>3 DEF OfferInv
<1>5. CASE DiesDuring(t)
  <2>1. /\ crashes' = crashes + 1 /\ \A c \in Builds : flight'[c] = "none"
    BY <1>5 DEF DiesDuring
  <2>2. Served'
    BY <1>2, <2>1 DEF Served, Working
  <2> QED BY <1>1, <1>2, <1>3, <2>1, <2>2 DEF OfferInv
<1> QED BY <1>4, <1>5 DEF Segment

LEMMA OfferStep == OfferInv /\ [Next]_vars => OfferInv'
<1> SUFFICES ASSUME OfferInv, [Next]_vars PROVE OfferInv'
  OBVIOUS
<1>0. /\ TypeOK /\ Served /\ store \in Stores /\ store \in Offers
      /\ flight \in [Builds -> Awaits]
      /\ \A b \in Builds : \A x \in Awaits : Awaiting(b, x) \in [Builds -> Awaits]
      /\ {"none", "compiling", "reading"} \subseteq Awaits
  BY DEF OfferInv, Served, Offers, Awaiting, Awaits
<1>1. ASSUME NEW b \in Builds, NEW mode \in RequestModes, NEW workspace \in Workspaces,
             NEW path \in Paths, RequestBuild(b, mode, workspace, path)
      PROVE  OfferInv'
  <2>1. mode \in Modes
    BY ControlApiAssumption
  <2>2. Delivers(IntakeTrail(b, mode, workspace, path), Awaiting(b, "compiling"))
    BY <1>0, <2>1, CreateDelivers
  <2> QED BY <1>0, <1>1, <2>2, OfferSegment DEF RequestBuild
<1>2. ASSUME NEW b \in Builds, IndexArtifacts(b) PROVE OfferInv'
  <2>1. Delivers(IndexTrail(b), Awaiting(b, "reading"))
    BY <1>0, <1>2, CreateDelivers DEF IndexArtifacts
  <2> QED BY <1>0, <1>2, <2>1, OfferSegment DEF IndexArtifacts
<1>3. ASSUME NEW b \in Builds, FinishManaged(b) PROVE OfferInv'
  <2>1. PICK e \in BOOLEAN : Segment(ManagedTrail(b, e), Awaiting(b, "none"))
    BY <1>3 DEF FinishManaged
  <2>2. Delivers(ManagedTrail(b, e), Awaiting(b, "none"))
    BY <1>0, <1>3, CreateDelivers DEF FinishManaged
  <2> QED BY <1>0, <2>1, <2>2, OfferSegment
<1>4. ASSUME NEW b \in Builds, FinishEdge(b) PROVE OfferInv'
  <2>1. PICK e \in BOOLEAN : Segment(EdgeTrail(b, e), Awaiting(b, "none"))
    BY <1>4 DEF FinishEdge
  <2>2. Delivers(EdgeTrail(b, e), Awaiting(b, "none"))
    BY <1>0, <1>4, CreateDelivers DEF FinishEdge
  <2> QED BY <1>0, <2>1, <2>2, OfferSegment
<1>5. ASSUME NEW b \in Builds, FailBuild(b) PROVE OfferInv'
  <2>1. Delivers(FailTrail(b), Awaiting(b, "none"))
    BY <1>0, <1>5, CreateDelivers DEF FailBuild
  <2> QED BY <1>0, <1>5, <2>1, OfferSegment DEF FailBuild
<1>6. ASSUME NEW b \in Builds, NEW a \in Decisions, Review(b, a) PROVE OfferInv'
  <2>1. Delivers(ReviewTrail(b, a), flight)
    BY <1>0, <1>6, ReviewDelivers DEF Review
  <2> QED BY <1>0, <1>6, <2>1, OfferSegment DEF Review
<1>7. ASSUME NEW b \in Builds, NEW env \in Environments, Deploy(b, env) PROVE OfferInv'
  <2>1. Delivers(DeployTrail(b, env), flight)
    BY <1>0, <1>7, DeployDelivers DEF Deploy
  <2> QED BY <1>0, <1>7, <2>1, OfferSegment DEF Deploy
<1>8. ASSUME NEW d \in DOMAIN store.deployments, Rollback(d) PROVE OfferInv'
  <2> DEFINE new == UpdateDeploymentStatus(store, d, "rolled_back")
  <2>1. /\ new \in Stores /\ new.builds = store.builds
        /\ new.approvals = store.approvals /\ MoreJobs(store, new)
    BY <1>0, RollbackCall
  <2>2. Segment(<<new>>, flight)
    BY <1>8 DEF Rollback
  <2> HIDE DEF new
  <2>3. JobsStay(store, new)
    BY <1>0, <2>1, JobsOnlyStay
  <2>4. Delivers(<<new>>, flight)
    BY <1>0, <2>1, <2>3, OneCallDelivers
  <2> QED BY <1>0, <2>2, <2>4, OfferSegment
<1>9. ASSUME NEW new, JobsOnly(store, new), JobsStay(store, new), Segment(<<new>>, flight)
      PROVE  OfferInv'
  <2>1. Delivers(<<new>>, flight)
    BY <1>0, <1>9, OneCallDelivers DEF JobsOnly
  <2> QED BY <1>0, <1>9, <2>1, OfferSegment
<1>10. ASSUME NEW workspace \in Workspaces, NEW b \in Builds, EnqueueJob(workspace, b)
       PROVE  OfferInv'
  <2>1. JobsOnly(store, CreateEdgeJob(store, workspace, b))
    BY <1>0, EdgeJobEdits
  <2>2. JobsStay(store, CreateEdgeJob(store, workspace, b))
    BY <1>0, NewJob, JobsOnlyStay
  <2> QED BY <1>9, <1>10, <2>1, <2>2 DEF EnqueueJob
<1>11. ASSUME NEW workspace \in Workspaces, NEW agent \in Agents, ClaimJob(workspace, agent)
       PROVE  OfferInv'
  <2>1. JobsOnly(store, ClaimEdgeJob(store, workspace, agent))
    BY <1>0, EdgeJobEdits
  <2>2. JobsStay(store, ClaimEdgeJob(store, workspace, agent))
    BY <1>0, <1>11, JobsOnlyStay DEF ClaimJob
  <2> QED BY <1>9, <1>11, <2>1, <2>2 DEF ClaimJob
<1>12. ASSUME NEW j \in DOMAIN store.edgeJobs, NEW outcome \in {"succeeded", "failed"},
              CompleteJob(j, outcome)
       PROVE  OfferInv'
  <2>0. j \in Nat /\ Workspaces # {}
    BY <1>0, StoreAssumption DEF Stores
  <2>1. JobsOnly(store, CompleteEdgeJob(store, j, outcome))
    BY <1>0, <2>0, EdgeJobEdits
  <2>2. JobsStay(store, CompleteEdgeJob(store, j, outcome))
    BY <1>0, JobsOnlyStay
  <2> QED BY <1>9, <1>12, <2>1, <2>2 DEF CompleteJob
<1>13. TypeOK'
  BY <1>0, TypeStep
<1>14. CASE Crash
  <2>1. /\ store' = store /\ disk' = disk /\ crashes' = crashes + 1
        /\ flight' \in [Builds -> Awaits] /\ \A c \in Builds : flight'[c] = "none"
        /\ crashes \in Nat
    BY <1>0, <1>14, ControlApiAssumption DEF Crash, Awaits, TypeOK
  <2>2. Served'
    BY <1>0, <2>1 DEF Served, Working
  <2> QED BY <1>13, <2>1, <2>2 DEF OfferInv
<1>15. CASE Restart
  <2>1. /\ ~up /\ up' /\ flight' = flight /\ crashes' = crashes
        /\ \A c \in Builds : flight[c] = "none"
        /\ crashes' # 0
    BY <1>15 DEF Restart, OfferInv
  <2>2. store' \in Offers /\ disk' \in Offers \cup {Torn}
    <3>1. CASE disk # Torn
      BY <1>15, <3>1 DEF Restart, OfferInv
    <3>2. CASE disk = Torn
      <4>1. store' = EmptyStore /\ Persist(<<EmptyStore>>)
        BY <1>15, <3>2 DEF Restart
      <4>2. disk' \in {EmptyStore, Torn}
        BY <3>2, <4>1 DEF Persist, Last, TornImages
      <4> QED BY <4>1, <4>2, EmptyOffers
    <3> QED BY <3>1, <3>2
  <2>3. Served'
    BY <1>0, <2>1, <2>2 DEF Served, Working
  <2> QED BY <1>13, <2>1, <2>2, <2>3 DEF OfferInv
<1>16. CASE UNCHANGED vars
  BY <1>13, <1>16 DEF vars, OfferInv, Served
<1> QED BY <1>1, <1>2, <1>3, <1>4, <1>5, <1>6, <1>7, <1>8, <1>10, <1>11, <1>12,
           <1>14, <1>15, <1>16 DEF Next, Progress

\* Nobody is ever asked to approve a build that lacks its plan, its spec, its
\* preview link, an artifact or passed tests, whichever handlers overlap, and
\* whatever crashes, lost or torn writes and restarts come between their calls.
THEOREM OfferedIsComplete == Spec => []OfferedBuildIsComplete
<1>1. OfferInv => OfferedBuildIsComplete
  BY DEF OfferInv, Served, Offers, Offerable, OfferedBuildIsComplete
<1> QED BY <1>1, OfferInit, OfferStep, PTL DEF Spec

\* A create request that nobody decided on meanwhile, and no crash cut short, has
\* failed, or stands offered when managed, or queued with a job of its own when
\* it runs at the edge: none ends half-way, whatever other requests do.
THEOREM UnreviewedSettles == Spec => []UnreviewedOutcome
<1>1. OfferInv => UnreviewedOutcome
  BY DEF OfferInv, Ends, Settles, UnreviewedOutcome
<1> QED BY <1>1, OfferInit, OfferStep, PTL DEF Spec
==============================================================================
