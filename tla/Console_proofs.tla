---------------------------- MODULE Console_proofs -----------------------------
(***************************************************************************)
(* Proofs about the console in front of the control API: what a page shows *)
(* and asks for has its type, an approval from a fresh page finds a build  *)
(* that waits for one, and what the console confirmed stays in the store.  *)
(***************************************************************************)
EXTENDS Console, Records_proofs

------------------------------------------------------------------------------
(* What each request does to the store and to the builds it is not about. *)

\* The statuses of a build that waits for a reviewer.
Reviewable == {"awaiting_approval", "awaiting_scope_review"}

\* Unless the process dies, a step neither loses c, nor starts its handler, nor
\* takes it from a reviewer it waits for.
Rests(c) ==
  up' => /\ flight'[c] = flight[c]
         /\ Known(store, c) => Known(store', c)
         /\ store.builds[c].status \in Reviewable
              => store'.builds[c].status = store.builds[c].status

\* A segment that the process survives went through its whole trail.
LEMMA Survives ==
  ASSUME NEW t, NEW aw, Segment(t, aw), up'
  PROVE  store' = t[Len(t)] /\ flight' = aw
<1>1. ~DiesDuring(t)
  BY DEF DiesDuring
<1> QED BY <1>1 DEF Segment, Completes, Last

LEMMA ReviewEffect ==
  ASSUME TypeOK, NEW b \in Builds, NEW a \in Decisions, Review(b, a), up'
  PROVE  /\ Known(store', b)
         /\ Len(store.approvals) < MaxDecisions
         /\ store'.approvals = Append(store.approvals, [build |-> b, action |-> a])
         /\ flight' = flight
         /\ \A c \in Builds \ {b} : store'.builds[c] = store.builds[c]
<1> DEFINE t == ReviewTrail(b, a)
<1>1. Known(store, b) /\ store \in Stores
  BY DEF Review, TypeOK
<1>2. Len(t) = 3 /\ Reviewing(3, t[3], b, a)
  BY <1>1, ReviewCalls
<1>3. Segment(t, flight) /\ Len(store.approvals) < MaxDecisions
  BY DEF Review
<1> HIDE DEF t
<1>4. store' = t[3] /\ flight' = flight
  BY <1>2, <1>3, Survives
<1>5. Known(store', b)
  BY <1>2, <1>4, DecidedStatuses DEF Reviewing, Known, Held
<1> QED BY <1>2, <1>3, <1>4, <1>5 DEF Reviewing

LEMMA DeployEffect ==
  ASSUME TypeOK, NEW b \in Builds, NEW env \in Environments, Deploy(b, env), up'
  PROVE  /\ Known(store', b)
         /\ Len(store.deployments) < MaxDeployments
         /\ Len(store'.deployments) = Len(store.deployments) + 1
         /\ store'.deployments[Len(store.deployments) + 1].build = b
         /\ store'.deployments[Len(store.deployments) + 1].env = env
         /\ flight' = flight
         /\ \A c \in Builds \ {b} : store'.builds[c] = store.builds[c]
         /\ store'.builds[b].status = IF env = "production" THEN "deployed"
                                      ELSE store.builds[b].status
<1> DEFINE t == DeployTrail(b, env)
<1>1. Known(store, b) /\ store \in Stores
  BY DEF Deploy, MayDeploy, TypeOK
<1>2. Len(t) = 5 /\ Deploying(5, t[5], b, env)
  BY <1>1, DeployCalls
<1>3. Segment(t, flight) /\ Len(store.deployments) < MaxDeployments
  BY DEF Deploy
<1> HIDE DEF t
<1>4. store' = t[5] /\ flight' = flight
  BY <1>2, <1>3, Survives
<1>5. /\ store'.builds[b].status = IF env = "production" THEN "deployed"
                                   ELSE store.builds[b].status
      /\ \A c \in Builds \ {b} : store'.builds[c] = store.builds[c]
      /\ Len(store'.deployments) = Len(store.deployments) + 1
      /\ store'.deployments[Len(store.deployments) + 1].build = b
      /\ store'.deployments[Len(store.deployments) + 1].env = env
  BY <1>2, <1>4 DEF Deploying
<1>6. Known(store', b)
  BY <1>1, <1>5 DEF Known, Held
<1> QED BY <1>3, <1>4, <1>5, <1>6

LEMMA ReviewRests ==
  ASSUME TypeOK, NEW b \in Builds, NEW a \in Decisions, Review(b, a),
         NEW c \in Builds \ {b}
  PROVE  Rests(c)
<1>1. ASSUME up' PROVE flight' = flight /\ store'.builds[c] = store.builds[c]
  BY <1>1, ReviewEffect
<1> QED BY <1>1 DEF Rests, Known

\* Only an approved build is released to production.
LEMMA DeployRests ==
  ASSUME TypeOK, NEW b \in Builds, NEW env \in Environments, Deploy(b, env),
         NEW c \in Builds
  PROVE  Rests(c)
<1>1. ASSUME up'
      PROVE  /\ flight' = flight
             /\ Known(store', b)
             /\ \A d \in Builds \ {b} : store'.builds[d] = store.builds[d]
             /\ store'.builds[b].status = IF env = "production" THEN "deployed"
                                          ELSE store.builds[b].status
  BY <1>1, DeployEffect
<1>2. env = "production" => store.builds[b].status = "approved"
  BY DEF Deploy, MayDeploy, ProtectedEnvironments
<1>3. CASE c = b
  BY <1>1, <1>2, <1>3 DEF Rests, Reviewable
<1>4. CASE c # b
  BY <1>1, <1>4 DEF Rests, Known
<1> QED BY <1>3, <1>4

\* The create handler of b begins with an id that is not known, and goes on while it
\* awaits something.
LEMMA CreateRests ==
  ASSUME TypeOK, NEW b \in Builds,
         \/ \E mode \in RequestModes, workspace \in Workspaces, path \in Paths :
              RequestBuild(b, mode, workspace, path)
         \/ Progress(b),
         NEW c \in Builds, Known(store, c), flight[c] = "none"
  PROVE  Rests(c)
<1>0. /\ store \in Stores /\ flight \in [Builds -> Awaits]
      /\ \A x : Awaiting(b, x) \in [Builds -> Awaits \cup {x}]
      /\ \A x : c # b => Awaiting(b, x)[c] = flight[c]
  BY DEF TypeOK, Awaiting
<1>1. ASSUME NEW t, NEW x, CalmTrail(b, t), Segment(t, Awaiting(b, x)), c # b
      PROVE  Rests(c)
  <2>1. ASSUME up' PROVE store'.builds[c] = store.builds[c] /\ flight'[c] = flight[c]
    <3>1. store' = t[Len(t)] /\ flight' = Awaiting(b, x)
      BY <1>1, <2>1, Survives
    <3>2. Calm(store, t[Len(t)], b)
      <4>1. t \in Seq(Stores) /\ Len(t) > 0
        BY <1>1 DEF CalmTrail
      <4>2. Len(t) \in 1 .. Len(t)
        BY <4>1
      <4> QED BY <1>1, <4>2 DEF CalmTrail
    <3> QED BY <1>0, <1>1, <3>1, <3>2 DEF Calm, Quiet
  <2> QED BY <2>1 DEF Rests, Known
<1>2. ASSUME NEW mode \in RequestModes, NEW workspace \in Workspaces, NEW path \in Paths,
             RequestBuild(b, mode, workspace, path)
      PROVE  Rests(c)
  <2>1. mode \in Modes
    BY ControlApiAssumption
  <2>2. CalmTrail(b, IntakeTrail(b, mode, workspace, path))
    BY <1>0, <2>1, IntakeCalm
  <2>3. c # b
    BY <1>2 DEF RequestBuild
  <2> QED BY <1>1, <1>2, <2>2, <2>3 DEF RequestBuild
<1>3. ASSUME Progress(b) PROVE Rests(c)
  <2>0. c # b
    BY <1>3 DEF Progress, FailBuild, IndexArtifacts, FinishManaged, FinishEdge
  <2>1. CalmTrail(b, IndexTrail(b)) /\ CalmTrail(b, FailTrail(b))
    BY <1>0, IndexCalm, FailCalm
  <2>2. \A e \in BOOLEAN : CalmTrail(b, ManagedTrail(b, e)) /\ CalmTrail(b, EdgeTrail(b, e))
    BY <1>0, ManagedCalm, EdgeCalm
  <2>3. CASE FailBuild(b)
    BY <1>1, <2>0, <2>1, <2>3 DEF FailBuild
  <2>4. CASE IndexArtifacts(b)
    BY <1>1, <2>0, <2>1, <2>4 DEF IndexArtifacts
  <2>5. CASE FinishManaged(b)
    BY <1>1, <2>0, <2>2, <2>5 DEF FinishManaged
  <2>6. CASE FinishEdge(b)
    BY <1>1, <2>0, <2>2, <2>6 DEF FinishEdge
  <2> QED BY <1>3, <2>3, <2>4, <2>5, <2>6 DEF Progress
<1> QED BY <1>2, <1>3

------------------------------------------------------------------------------
(* The console moves the control API through its own steps only, so what is *)
(* invariant there is invariant here.                                       *)

\* Paths of builds are those that requests ask for.
Routes == {st \in Stores :
             \A b \in Builds : st.builds[b].path \in {<<>>} \cup Paths}

LEMMA TrailsKeepRoutes ==
  ASSUME store \in Routes, NEW t, IsTrail(t)
  PROVE  t \in Seq(Routes)
<1>0. store \in Stores /\ t \in Seq(Stores)
  <2>1. store \in Stores
    BY DEF Routes
  <2> QED BY <2>1, TrailsAreStores
<1>1. ASSUME NEW k \in 1 .. Len(t) PROVE t[k] \in Routes
  <2> DEFINE new == t[k]
  <2>0. new \in Stores
    BY <1>0
  <2>1. ASSUME NEW b \in Builds,
               \A c \in Builds \ {b} : new.builds[c] = store.builds[c],
               new.builds[b].path \in {store.builds[b].path} \cup Paths
        PROVE  new \in Routes
    <3> HIDE DEF new
    <3> QED BY <2>0, <2>1 DEF Routes
  <2>2. ASSUME new.builds = store.builds PROVE new \in Routes
    <3> HIDE DEF new
    <3> QED BY <2>0, <2>2 DEF Routes
  <2>3. ASSUME NEW b \in Builds, CalmTrail(b, t) PROVE new \in Routes
    <3>1. Calm(store, new, b)
      BY <2>3 DEF CalmTrail
    <3> HIDE DEF new
    <3> QED BY <2>1, <3>1 DEF Calm, Quiet
  <2>4. ASSUME NEW b \in Builds, NEW a \in Decisions, Known(store, b), t = ReviewTrail(b, a)
        PROVE  new \in Routes
    <3>1. Reviewing(k, new, b, a)
      BY <1>0, <2>4, ReviewCalls
    <3> HIDE DEF new
    <3> QED BY <2>1, <3>1 DEF Reviewing
  <2>5. ASSUME NEW b \in Builds, NEW env \in Environments, MayDeploy(b, env),
               t = DeployTrail(b, env)
        PROVE  new \in Routes
    <3>1. Deploying(k, new, b, env)
      BY <1>0, <2>5, DeployCalls DEF MayDeploy
    <3> HIDE DEF new
    <3> QED BY <2>1, <3>1 DEF Deploying
  <2>6. ASSUME NEW d \in DOMAIN store.deployments,
               t = <<UpdateDeploymentStatus(store, d, "rolled_back")>>
        PROVE  new \in Routes
    <3>1. new = UpdateDeploymentStatus(store, d, "rolled_back")
      BY <2>6
    <3> HIDE DEF new
    <3> QED BY <1>0, <2>2, <2>6, <3>1, RollbackCall
  <2>7. ASSUME NEW st \in Stores, JobsOnly(store, st), t = <<st>>
        PROVE  new \in Routes
    BY <2>2, <2>7 DEF JobsOnly
  <2> QED BY <2>3, <2>4, <2>5, <2>6, <2>7 DEF IsTrail
<1>2. \A q \in Seq(Stores) : (\A k \in 1 .. Len(q) : q[k] \in Routes) => q \in Seq(Routes)
  OBVIOUS
<1> QED BY <1>0, <1>1, <1>2

ApiInv ==
  /\ OfferInv
  /\ Current
  /\ store \in Routes /\ disk \in Routes \cup {Torn}

LEMMA ApiInit == Init => ApiInv
<1>1. EmptyStore \in Routes
  BY EmptyStoreType DEF Routes, EmptyStore, NewBuild
<1>2. ASSUME Init PROVE Current /\ store = EmptyStore /\ disk = EmptyStore
  BY <1>2, EmptyStoreType DEF Init, Current
<1> QED BY <1>1, <1>2, OfferInit DEF ApiInv

LEMMA ApiStep == ApiInv /\ [Next]_vars => ApiInv'
<1> SUFFICES ASSUME ApiInv, [Next]_vars PROVE ApiInv'
  OBVIOUS
<1>1. TypeOK /\ OfferInv /\ Current
  BY DEF ApiInv, OfferInv
<1>2. OfferInv' /\ Current'
  BY <1>1, OfferStep, CurrentStep
<1>3. store' \in Routes /\ disk' \in Routes \cup {Torn}
  <2>0. store \in Routes /\ disk \in Routes \cup {Torn}
    BY DEF ApiInv
  <2>1. CASE Next
    <3>1. Routes \subseteq Stores /\ EmptyStore \in Routes
      BY EmptyStoreType DEF Routes, EmptyStore, NewBuild
    <3>2. \A t : IsTrail(t) => t \in Seq(Routes)
      BY <2>0, TrailsKeepRoutes
    <3> QED BY <1>1, <2>0, <2>1, <3>1, <3>2, StepIn
  <2>2. CASE UNCHANGED vars
    BY <2>0, <2>2 DEF vars
  <2> QED BY <2>1, <2>2
<1> QED BY <1>2, <1>3 DEF ApiInv

------------------------------------------------------------------------------
(* Pages, forms and what they hold *)

\* A page that shows a build, or waits for a request, has one.
Shaped ==
  /\ ConsoleTypeOK
  /\ \A r \in Reviewers : shown[r] # Unavailable \/ busy[r] # "none" => page[r] \in Builds
  /\ form.stage = "working" => form.build \in Builds

\* What a page shows is what the store has.
LEMMA FetchShows ==
  ASSUME ApiInv, NEW b
  PROVE  /\ Fetched(b) \in Views
         /\ Fetched(b) # Unavailable =>
              /\ up /\ b \in Builds /\ Known(store, b)
              /\ Fetched(b).status = store.builds[b].status
<1>1. CASE up /\ b \in Builds /\ Known(store, b)
  <2>1. store.builds[b].path \in {<<>>} \cup Paths
    BY <1>1 DEF ApiInv, Routes
  <2>2. store.builds[b].status \in BuildStatuses
    <3>1. store.builds[b] \in BuildRecords
      BY <1>1 DEF ApiInv, Routes, Stores
    <3> QED BY <1>1, <3>1 DEF BuildRecords, Known, Held
  <2>3. Fetched(b) = [status |-> store.builds[b].status, path |-> store.builds[b].path]
    BY <1>1 DEF Fetched
  <2> QED BY <1>1, <2>1, <2>2, <2>3 DEF Views
<1>2. CASE ~(up /\ b \in Builds /\ Known(store, b))
  <2>1. Fetched(b) = Unavailable
    BY <1>2 DEF Fetched
  <2> QED BY <2>1 DEF Views
<1> QED BY <1>1, <1>2

LEMMA RenderShape ==
  ASSUME ApiInv, Shaped, NEW r \in Reviewers, NEW b \in Builds \cup {NoBuild}, Render(r, b)
  PROVE  /\ page' \in [Reviewers -> Builds \cup {NoBuild}]
         /\ shown' \in [Reviewers -> Views]
         /\ refreshing' \in [Reviewers -> BOOLEAN]
         /\ outdated' \in [Reviewers -> BOOLEAN]
         /\ page'[r] = b /\ shown'[r] = Fetched(b)
         /\ \A q \in Reviewers \ {r} : page'[q] = page[q] /\ shown'[q] = shown[q]
<1>1. Fetched(b) \in Views
  BY FetchShows
<1> QED BY <1>1 DEF Shaped, ConsoleTypeOK, Render

LEMMA AbandonShape ==
  ASSUME Shaped, NEW r \in Reviewers, Abandon(r)
  PROVE  /\ busy' \in [Reviewers -> Keys \cup {"none"}]
         /\ adrift' \in SUBSET Requests
         /\ busy'[r] = "none"
         /\ \A q \in Reviewers \ {r} : busy'[q] = busy[q]
<1>1. busy[r] # "none" => [build |-> page[r], key |-> busy[r]] \in Requests
  BY DEF Shaped, ConsoleTypeOK, Requests
<1> QED BY <1>1 DEF Abandon, Shaped, ConsoleTypeOK

\* The steps of the console that a request makes are steps of the control API.
LEMMA ServeSteps ==
  ASSUME NEW b \in Builds, NEW key, Serve(b, key)
  PROVE  Next
<1>1. "sandbox" \in Environments
  BY DEF Environments
<1> QED BY <1>1 DEF Serve, Next

LEMMA ConsoleSteps ==
  ASSUME Shaped, [ConsoleNext]_allVars
  PROVE  [Next]_vars
<1>1. ASSUME NEW r \in Reviewers, NEW b \in Builds, OpenPage(r, b) PROVE UNCHANGED vars
  BY <1>1 DEF OpenPage
<1>2. ASSUME NEW r \in Reviewers, NEW key \in Keys, Click(r, key) PROVE UNCHANGED vars
  BY <1>2 DEF Click
<1>3. ASSUME NEW r \in Reviewers, Refresh(r) PROVE UNCHANGED vars
  BY <1>3 DEF Refresh
<1>4. ASSUME NEW r \in Reviewers, HandleRequest(r) PROVE [Next]_vars
  <2>1. page[r] \in Builds
    BY <1>4 DEF HandleRequest, Shaped
  <2> QED BY <1>4, <2>1, ServeSteps DEF HandleRequest, Refuse
<1>5. ASSUME NEW r \in Reviewers, NoAnswer(r) PROVE UNCHANGED vars
  BY <1>5 DEF NoAnswer
<1>6. ASSUME NEW q \in adrift, HandleAdrift(q) PROVE Next
  <2>1. q.build \in Builds
    BY DEF Shaped, ConsoleTypeOK, Requests
  <2> QED BY <1>6, <2>1, ServeSteps DEF HandleAdrift
<1>7. ASSUME Submit \/ SubmitNoAnswer \/ FinishSubmit PROVE UNCHANGED vars
  BY <1>7 DEF Submit, SubmitNoAnswer, FinishSubmit
<1>8. ASSUME HandleSubmit PROVE Next
  BY <1>8 DEF HandleSubmit, Next
<1>9. ASSUME NEW b \in Builds, GoOn(b) PROVE Next
  BY <1>9 DEF GoOn, Next
<1>10. ASSUME NEW b \in Builds, OthersAct(b) PROVE Next
  <2>1. "production" \in Environments
    BY DEF Environments
  <2> QED BY <1>10, <2>1 DEF OthersAct, Next
<1>11. ASSUME ServerDies \/ ServerRestarts PROVE Next
  BY <1>11 DEF ServerDies, ServerRestarts, Next
<1>12. UNCHANGED allVars => UNCHANGED vars
  BY DEF allVars
<1> QED BY <1>1, <1>2, <1>3, <1>4, <1>5, <1>6, <1>7, <1>8, <1>9, <1>10, <1>11, <1>12
        DEF ConsoleNext, Answer, FormStep

\* Where a confirmed decision or deployment is found.
LEMMA ServedPlace ==
  ASSUME TypeOK, NEW b \in Builds, NEW key \in Keys, Serve(b, key), up'
  PROVE  Place(store', key) \in 0 .. MaxDecisions + MaxDeployments
<1>0. MaxDecisions \in Nat /\ MaxDeployments \in Nat
  BY ControlApiAssumption
<1>1. CASE key \in Decisions
  <2>1. Review(b, key)
    BY <1>1 DEF Serve, Decisions
  <2>2. /\ Len(store.approvals) < MaxDecisions
        /\ store'.approvals = Append(store.approvals, [build |-> b, action |-> key])
        /\ store.approvals \in Seq(ApprovalRecords)
    BY <1>1, <2>1, ReviewEffect DEF TypeOK, Stores
  <2>3. Len(store'.approvals) = Len(store.approvals) + 1 /\ Len(store.approvals) \in Nat
    BY <1>1, <2>2 DEF ApprovalRecords
  <2> QED BY <1>0, <1>1, <2>2, <2>3 DEF Place
<1>2. CASE key \notin Decisions
  <2>1. Deploy(b, "sandbox") /\ "sandbox" \in Environments
    BY <1>2 DEF Serve, Environments
  <2>2. /\ Len(store.deployments) < MaxDeployments
        /\ Len(store'.deployments) = Len(store.deployments) + 1
        /\ Len(store.deployments) \in Nat
    BY <2>1, DeployEffect DEF TypeOK, Stores
  <2> QED BY <1>0, <1>2, <2>2 DEF Place
<1> QED BY <1>1, <1>2

LEMMA ShapeInit == ConsoleInit => Shaped
<1> SUFFICES ASSUME ConsoleInit PROVE Shaped
  OBVIOUS
<1>1. Unavailable \in Views /\ MaxLosses \in Nat
  BY ConsoleAssumption DEF Views
<1>2. form \in [stage : Stages, build : Builds \cup {NoBuild}] /\ form.stage # "working"
  BY DEF ConsoleInit, Stages
<1> QED BY <1>1, <1>2 DEF ConsoleInit, Shaped, ConsoleTypeOK

LEMMA ShapeStep == ApiInv /\ Shaped /\ [ConsoleNext]_allVars => Shaped'
<1> SUFFICES ASSUME ApiInv, Shaped, [ConsoleNext]_allVars PROVE Shaped'
  OBVIOUS
<1>0. TypeOK /\ ConsoleTypeOK /\ MaxLosses \in Nat
  BY ConsoleAssumption DEF ApiInv, OfferInv, Shaped
<1>1. ASSUME NEW r \in Reviewers, NEW b \in Builds, OpenPage(r, b) PROVE Shaped'
  <2>1. /\ page' \in [Reviewers -> Builds \cup {NoBuild}]
        /\ shown' \in [Reviewers -> Views]
        /\ refreshing' \in [Reviewers -> BOOLEAN]
        /\ outdated' \in [Reviewers -> BOOLEAN]
        /\ page'[r] = b
        /\ \A q \in Reviewers \ {r} : page'[q] = page[q] /\ shown'[q] = shown[q]
    BY <1>1, RenderShape DEF OpenPage
  <2>2. /\ busy' \in [Reviewers -> Keys \cup {"none"}] /\ adrift' \in SUBSET Requests
        /\ \A q \in Reviewers \ {r} : busy'[q] = busy[q]
    BY <1>1, AbandonShape DEF OpenPage
  <2>3. fresh' \in [Reviewers -> BOOLEAN]
    BY <1>0, <1>1 DEF OpenPage, FreshFetch, ConsoleTypeOK, TypeOK
  <2>4. form' = form /\ confirmed' = confirmed /\ losses' = losses
    BY <1>1 DEF OpenPage
  <2> QED BY <1>0, <2>1, <2>2, <2>3, <2>4 DEF Shaped, ConsoleTypeOK
<1>2. ASSUME NEW r \in Reviewers, NEW key \in Keys, Click(r, key) PROVE Shaped'
  <2>1. /\ busy' = [busy EXCEPT ![r] = key]
        /\ UNCHANGED <<page, shown, refreshing, adrift, form, confirmed, outdated,
                       fresh, losses>>
        /\ shown[r] # Unavailable
    BY <1>2 DEF Click
  <2> QED BY <1>0, <2>1 DEF Shaped, ConsoleTypeOK
<1>3. ASSUME NEW r \in Reviewers, Refresh(r) PROVE Shaped'
  <2>0. page[r] \in Builds \cup {NoBuild}
    BY <1>0 DEF ConsoleTypeOK
  <2>1. /\ page' \in [Reviewers -> Builds \cup {NoBuild}]
        /\ shown' \in [Reviewers -> Views]
        /\ refreshing' \in [Reviewers -> BOOLEAN]
        /\ outdated' \in [Reviewers -> BOOLEAN]
        /\ page'[r] = page[r] /\ shown'[r] = Fetched(page[r])
        /\ \A q \in Reviewers \ {r} : page'[q] = page[q] /\ shown'[q] = shown[q]
    BY <1>3, <2>0, RenderShape DEF Refresh
  <2>2. /\ busy' \in [Reviewers -> Keys \cup {"none"}] /\ adrift' \in SUBSET Requests
        /\ busy'[r] \in {busy[r], "none"}
        /\ \A q \in Reviewers \ {r} : busy'[q] = busy[q]
    <3>1. CASE Abandon(r)
      BY <3>1, AbandonShape
    <3>2. CASE UNCHANGED <<busy, adrift>>
      BY <1>0, <3>2 DEF ConsoleTypeOK
    <3> QED BY <1>3, <3>1, <3>2 DEF Refresh
  <2>3. fresh' \in [Reviewers -> BOOLEAN]
    BY <1>0, <1>3 DEF Refresh, FreshFetch, ConsoleTypeOK, TypeOK
  <2>4. form' = form /\ confirmed' = confirmed /\ losses' = losses
    BY <1>3 DEF Refresh
  <2>5. Fetched(page[r]) # Unavailable => page[r] \in Builds
    BY FetchShows
  <2> QED BY <1>0, <2>1, <2>2, <2>3, <2>4, <2>5 DEF Shaped, ConsoleTypeOK
\* The variables that the handling of a request leaves, or takes a reviewer out of.
<1>4. ASSUME NEW r \in Reviewers, HandleRequest(r) PROVE Shaped'
  <2>0. /\ busy[r] \in Keys /\ page[r] \in Builds
        /\ busy' = [busy EXCEPT ![r] = "none"]
        /\ UNCHANGED <<page, shown, adrift, form>>
    BY <1>0, <1>4 DEF HandleRequest, Shaped, ConsoleTypeOK
  <2>1. /\ fresh' \in [Reviewers -> BOOLEAN]
        /\ refreshing' \in [Reviewers -> BOOLEAN]
        /\ outdated' \in [Reviewers -> BOOLEAN]
        /\ confirmed' \in SUBSET Confirmations
        /\ losses' \in 0 .. MaxLosses
    <3>1. CASE Refuse(page[r], busy[r])
                 /\ UNCHANGED <<fresh, refreshing, outdated, confirmed, losses>>
      BY <1>0, <3>1 DEF ConsoleTypeOK
    <3>2. CASE /\ Serve(page[r], busy[r]) /\ Ages(page[r], busy[r])
               /\ up' /\ Succeed(r) /\ UNCHANGED losses
      <4>1. fresh' \in [Reviewers -> BOOLEAN]
        BY <1>0, <3>2 DEF Ages, ConsoleTypeOK
      <4>2. [build |-> page[r], key |-> busy[r], at |-> Place(store', busy[r])]
              \in Confirmations
        BY <1>0, <2>0, <3>2, ServedPlace DEF Confirmations
      <4> QED BY <1>0, <3>2, <4>1, <4>2 DEF Succeed, ConsoleTypeOK
    <3>3. CASE /\ Ages(page[r], busy[r])
               /\ UNCHANGED <<refreshing, outdated, confirmed>>
               /\ \/ UNCHANGED losses
                  \/ losses < MaxLosses /\ losses' = losses + 1
      <4>1. fresh' \in [Reviewers -> BOOLEAN]
        BY <1>0, <3>3 DEF Ages, ConsoleTypeOK
      <4>2. losses' \in 0 .. MaxLosses
        BY <1>0, <3>3 DEF ConsoleTypeOK
      <4> QED BY <1>0, <3>3, <4>1, <4>2 DEF ConsoleTypeOK
    <3> QED BY <1>4, <3>1, <3>2, <3>3 DEF HandleRequest
  <2> QED BY <1>0, <2>0, <2>1 DEF Shaped, ConsoleTypeOK
<1>5. ASSUME NEW r \in Reviewers, NoAnswer(r) PROVE Shaped'
  <2>0. UNCHANGED <<page, shown, refreshing, form, confirmed, outdated, fresh>>
    BY <1>5 DEF NoAnswer
  <2>1. /\ busy' \in [Reviewers -> Keys \cup {"none"}]
        /\ adrift' \in SUBSET Requests
        /\ \A q \in Reviewers : busy'[q] \in {busy[q], "none"}
    <3>1. CASE busy' = [busy EXCEPT ![r] = "none"] /\ UNCHANGED adrift
      BY <1>0, <3>1 DEF ConsoleTypeOK
    <3>2. CASE Abandon(r)
      BY <3>2, AbandonShape
    <3> QED BY <1>5, <3>1, <3>2 DEF NoAnswer
  <2>2. losses' \in 0 .. MaxLosses
    BY <1>0, <1>5 DEF NoAnswer, ConsoleTypeOK
  <2> QED BY <1>0, <2>0, <2>1, <2>2 DEF Shaped, ConsoleTypeOK
<1>6. ASSUME NEW q \in adrift, HandleAdrift(q) PROVE Shaped'
  BY <1>0, <1>6 DEF HandleAdrift, Ages, Shaped, ConsoleTypeOK
<1>7. ASSUME Submit PROVE Shaped'
  <2>1. [stage |-> "sent", build |-> NoBuild] \in [stage : Stages, build : Builds \cup {NoBuild}]
    BY DEF Stages
  <2> QED BY <1>0, <1>7, <2>1 DEF Submit, Shaped, ConsoleTypeOK
<1>8. ASSUME HandleSubmit PROVE Shaped'
  <2>1. PICK b \in Builds : FormGets("working", b)
    BY <1>8 DEF HandleSubmit
  <2>2. form' \in [stage : Stages, build : Builds \cup {NoBuild}] /\ form'.build \in Builds
    BY <2>1 DEF FormGets, Stages
  <2>3. fresh' \in [Reviewers -> BOOLEAN]
    BY <1>0, <1>8 DEF HandleSubmit, StillFresh, ConsoleTypeOK
  <2> QED BY <1>0, <1>8, <2>2, <2>3 DEF HandleSubmit, Shaped, ConsoleTypeOK
<1>9. ASSUME SubmitNoAnswer PROVE Shaped'
  <2>1. form' \in [stage : Stages, build : Builds \cup {NoBuild}] /\ form'.stage # "working"
    BY <1>9 DEF SubmitNoAnswer, FormGets, Stages
  <2>2. losses' \in 0 .. MaxLosses
    BY <1>0, <1>9 DEF SubmitNoAnswer, ConsoleTypeOK
  <2>3. UNCHANGED <<page, shown, busy, refreshing, adrift, confirmed, outdated, fresh>>
    BY <1>9 DEF SubmitNoAnswer
  <2> QED BY <1>0, <2>1, <2>2, <2>3 DEF Shaped, ConsoleTypeOK
<1>10. ASSUME FinishSubmit PROVE Shaped'
  <2>1. form' \in [stage : Stages, build : Builds \cup {NoBuild}] /\ form'.stage # "working"
    BY <1>0, <1>10 DEF FinishSubmit, FormGets, Stages, ConsoleTypeOK
  <2> QED BY <1>0, <1>10, <2>1 DEF FinishSubmit, Shaped, ConsoleTypeOK
<1>11. ASSUME NEW b \in Builds, GoOn(b) PROVE Shaped'
  <2>1. /\ form' \in [stage : Stages, build : Builds \cup {NoBuild}]
        /\ form'.stage = "working" => form'.build \in Builds
        /\ confirmed' \in SUBSET Confirmations
        /\ losses' \in 0 .. MaxLosses
    <3>1. CASE ConfirmCreated(b)
      <4>1. [build |-> b, key |-> "create", at |-> 0] \in Confirmations
        BY ControlApiAssumption DEF Confirmations
      <4> QED BY <1>0, <3>1, <4>1 DEF ConfirmCreated, FormGets, Stages, ConsoleTypeOK
    <3>2. CASE /\ FormGets("error", NoBuild) /\ UNCHANGED confirmed
               /\ UNCHANGED losses \/ (losses < MaxLosses /\ losses' = losses + 1)
      <4>1. losses' \in 0 .. MaxLosses
        BY <1>0, <3>2 DEF ConsoleTypeOK
      <4> QED BY <1>0, <3>2, <4>1 DEF FormGets, Stages, ConsoleTypeOK
    <3>3. CASE UNCHANGED <<form, confirmed, losses>>
      BY <1>0, <3>3 DEF Shaped, ConsoleTypeOK
    <3> QED BY <1>11, <3>1, <3>2, <3>3 DEF GoOn
  <2>2. fresh' \in [Reviewers -> BOOLEAN]
    BY <1>0, <1>11 DEF GoOn, StillFresh, ConsoleTypeOK
  <2>3. UNCHANGED <<page, shown, busy, refreshing, adrift, outdated>>
    BY <1>11 DEF GoOn
  <2> QED BY <1>0, <2>1, <2>2, <2>3 DEF Shaped, ConsoleTypeOK
<1>12. ASSUME (\E b \in Builds : OthersAct(b)) \/ ServerDies PROVE Shaped'
  <2>1. UNCHANGED <<page, shown, busy, refreshing, adrift, form, confirmed, outdated, losses>>
    BY <1>12 DEF OthersAct, ServerDies
  <2>2. fresh' \in [Reviewers -> BOOLEAN]
    BY <1>0, <1>12 DEF OthersAct, ServerDies, Ages, StillFresh, ConsoleTypeOK
  <2> QED BY <1>0, <2>1, <2>2 DEF Shaped, ConsoleTypeOK
<1>13. ASSUME ServerRestarts PROVE Shaped'
  <2>1. /\ confirmed' \in SUBSET Confirmations
        /\ UNCHANGED <<page, shown, busy, refreshing, adrift, form, outdated, fresh, losses>>
    BY <1>0, <1>13 DEF ServerRestarts, ConsoleTypeOK
  <2> QED BY <1>0, <2>1 DEF Shaped, ConsoleTypeOK
<1>14. ASSUME UNCHANGED consoleVars PROVE Shaped'
  BY <1>0, <1>14 DEF consoleVars, Shaped, ConsoleTypeOK
<1> QED BY <1>1, <1>2, <1>3, <1>4, <1>5, <1>6, <1>7, <1>8, <1>9, <1>10, <1>11, <1>12, <1>13,
           <1>14
        DEF ConsoleNext, Answer, FormStep, allVars

ConsoleInv == ApiInv /\ Shaped

LEMMA ConsoleInvInit == ConsoleInit => ConsoleInv
<1>1. ConsoleInit => Init
  BY DEF ConsoleInit
<1> QED BY <1>1, ApiInit, ShapeInit DEF ConsoleInv

LEMMA ConsoleInvStep == ConsoleInv /\ [ConsoleNext]_allVars => ConsoleInv'
BY ConsoleSteps, ApiStep, ShapeStep DEF ConsoleInv

\* Pages, buttons, the composer and what was confirmed have their types: a page shows a
\* status and a path that its build can have, and a request that was left behind is
\* about a build and a button that exist.
THEOREM ConsoleTypeCorrect == ConsoleSpec => []ConsoleTypeOK
<1>1. ConsoleInv => ConsoleTypeOK
  BY DEF ConsoleInv, Shaped
<1> QED BY <1>1, ConsoleInvInit, ConsoleInvStep, PTL DEF ConsoleSpec

------------------------------------------------------------------------------
(* Confirmations *)

\* Where the store has what c confirms.
Kept(c, st) ==
  /\ Known(st, c.build)
  /\ c.key \in Decisions =>
       /\ c.at \in DOMAIN st.approvals
       /\ st.approvals[c.at] = [build |-> c.build, action |-> c.key]
  /\ c.key = "deploy_sandbox" =>
       /\ c.at \in DOMAIN st.deployments
       /\ st.deployments[c.at].build = c.build
       /\ st.deployments[c.at].env = "sandbox"

LEMMA KeptOn ==
  ASSUME NEW old \in Stores, NEW new \in Stores, Retells(old, new),
         NEW c \in Confirmations, c.build \in Builds, Kept(c, old)
  PROVE  Kept(c, new)
<1>0. /\ Len(old.approvals) \in Nat /\ DOMAIN old.approvals = 1 .. Len(old.approvals)
      /\ Len(new.approvals) \in Nat /\ DOMAIN new.approvals = 1 .. Len(new.approvals)
      /\ Len(old.deployments) \in Nat /\ DOMAIN old.deployments = 1 .. Len(old.deployments)
      /\ Len(new.deployments) \in Nat /\ DOMAIN new.deployments = 1 .. Len(new.deployments)
  BY DEF Stores
<1>1. Known(new, c.build)
  BY DEF Retells, Kept
<1>2. ASSUME c.key \in Decisions
      PROVE  /\ c.at \in DOMAIN new.approvals
             /\ new.approvals[c.at] = [build |-> c.build, action |-> c.key]
  <2>1. c.at \in 1 .. Len(old.approvals) /\ Len(old.approvals) <= Len(new.approvals)
    BY <1>0, <1>2 DEF Kept, Retells, Leads
  <2>2. new.approvals[c.at] = old.approvals[c.at]
    BY <1>0, <2>1 DEF Retells, Leads
  <2> QED BY <1>0, <1>2, <2>1, <2>2 DEF Kept
<1>3. ASSUME c.key = "deploy_sandbox"
      PROVE  /\ c.at \in DOMAIN new.deployments
             /\ new.deployments[c.at].build = c.build
             /\ new.deployments[c.at].env = "sandbox"
  <2>1. c.at \in 1 .. Len(old.deployments) /\ Len(old.deployments) <= Len(new.deployments)
    BY <1>0, <1>3 DEF Kept, Retells
  <2> QED BY <1>0, <1>3, <2>1 DEF Kept, Retells
<1> QED BY <1>1, <1>2, <1>3 DEF Kept

\* What was written stays written while no write fails; a failed write is counted.
LEMMA LossesStay ==
  ASSUME TypeOK, [Next]_vars
  PROVE  lostWrites' = lostWrites \/ lostWrites' = lostWrites + 1
<1>1. ASSUME NEW t, NEW aw, Segment(t, aw)
      PROVE  lostWrites' = lostWrites \/ lostWrites' = lostWrites + 1
  BY <1>1 DEF Segment, Completes, DiesDuring, Persist
<1>2. ASSUME Crash \/ Restart
      PROVE  lostWrites' = lostWrites \/ lostWrites' = lostWrites + 1
  BY <1>2 DEF Crash, Restart, Persist
<1> QED BY <1>1, <1>2, NextKinds DEF vars

\* Only a restart of the server gets a dead one going.
LEMMA ServerRevives ==
  ASSUME Shaped, [ConsoleNext]_allVars, ~up, up'
  PROVE  ServerRestarts
<1>1. ASSUME NEW t, NEW aw, Segment(t, aw) PROVE FALSE
  BY <1>1 DEF Segment
<1>2. ASSUME NEW b, NEW key, Serve(b, key) PROVE FALSE
  BY <1>1, <1>2 DEF Serve, Review, Deploy
<1>3. ASSUME NEW r \in Reviewers,
             \/ \E b \in Builds : OpenPage(r, b)
             \/ \E key \in Keys : Click(r, key)
             \/ Refresh(r)
             \/ NoAnswer(r)
      PROVE  FALSE
  BY <1>3 DEF OpenPage, Click, Refresh, NoAnswer, vars
<1>4. ASSUME NEW r \in Reviewers, HandleRequest(r) PROVE FALSE
  BY <1>2, <1>4 DEF HandleRequest, Refuse
<1>5. ASSUME NEW q \in adrift, HandleAdrift(q) PROVE FALSE
  BY <1>2, <1>5 DEF HandleAdrift
<1>6. ASSUME Submit \/ SubmitNoAnswer \/ FinishSubmit \/ UNCHANGED allVars PROVE FALSE
  BY <1>6 DEF Submit, SubmitNoAnswer, FinishSubmit, allVars, vars
<1>7. ASSUME HandleSubmit PROVE FALSE
  BY <1>1, <1>7 DEF HandleSubmit, RequestBuild
<1>8. ASSUME NEW b \in Builds, GoOn(b) PROVE FALSE
  BY <1>1, <1>8 DEF GoOn, Progress, FailBuild, IndexArtifacts, FinishManaged, FinishEdge
<1>9. ASSUME NEW b \in Builds, OthersAct(b) PROVE FALSE
  BY <1>1, <1>9 DEF OthersAct, Review, Deploy
<1>10. ASSUME ServerDies PROVE FALSE
  BY <1>10 DEF ServerDies, Crash
<1> QED BY <1>3, <1>4, <1>5, <1>6, <1>7, <1>8, <1>9, <1>10
        DEF ConsoleNext, Answer, FormStep

\* What the store had is in it after a step, unless a write failed; a restart that finds
\* the file torn takes with it all that the console had confirmed.
LEMMA ConsoleRetells ==
  ASSUME ConsoleInv, [ConsoleNext]_allVars, lostWrites = 0
  PROVE  Retells(store, store') \/ (~up /\ confirmed' = {})
<1>0. TypeOK /\ Current /\ store \in Stores
  BY DEF ConsoleInv, ApiInv, OfferInv, TypeOK
<1>1. CASE UNCHANGED vars
  BY <1>0, <1>1, SameRetells DEF vars
<1>2. CASE Next /\ disk # Torn
  BY <1>0, <1>2, StepRetells
<1>3. CASE Next /\ disk = Torn
  <2>1. ~up
    BY <1>0, <1>3, TornAssumption DEF Current
  <2>2. up'
    <3>1. ~(\E t : \E aw \in [Builds -> Awaits] : IsTrail(t) /\ Segment(t, aw))
      BY <2>1 DEF Segment
    <3> QED BY <1>0, <1>3, <2>1, <3>1, NextKinds DEF Crash, Restart
  <2>3. confirmed' = {}
    BY <1>3, <2>1, <2>2, ServerRevives DEF ServerRestarts, ConsoleInv
  <2> QED BY <2>1, <2>3
<1> QED BY <1>1, <1>2, <1>3, ConsoleSteps DEF ConsoleInv

\* What the answer to a request confirms is in the store that it left.
LEMMA ServedIsKept ==
  ASSUME TypeOK, NEW b \in Builds, NEW key \in Keys, Serve(b, key), up'
  PROVE  Kept([build |-> b, key |-> key, at |-> Place(store', key)], store')
<1> DEFINE c == [build |-> b, key |-> key, at |-> Place(store', key)]
<1>0. c.build = b /\ c.key = key /\ c.at = Place(store', key)
  OBVIOUS
<1>1. CASE key \in Decisions
  <2> DEFINE new == [build |-> b, action |-> key]
  <2>1. Review(b, key) /\ key # "deploy_sandbox"
    BY <1>1 DEF Serve, Decisions
  <2>2. Known(store', b) /\ store'.approvals = Append(store.approvals, new)
    BY <1>1, <2>1, ReviewEffect
  <2>3. store.approvals \in Seq(ApprovalRecords) /\ new \in ApprovalRecords
    BY <1>1 DEF TypeOK, Stores, ApprovalRecords
  <2>4. /\ Len(store'.approvals) \in DOMAIN store'.approvals
        /\ store'.approvals[Len(store'.approvals)] = new
    <3> HIDE DEF new
    <3> QED BY <2>2, <2>3
  <2>5. Place(store', key) = Len(store'.approvals)
    BY <1>1 DEF Place
  <2> HIDE DEF c
  <2> QED BY <1>0, <2>1, <2>2, <2>4, <2>5 DEF Kept
<1>2. CASE key \notin Decisions
  <2>1. Deploy(b, "sandbox") /\ "sandbox" \in Environments
    BY <1>2 DEF Serve, Environments
  <2>2. /\ Known(store', b)
        /\ Len(store'.deployments) = Len(store.deployments) + 1
        /\ store'.deployments[Len(store'.deployments)].build = b
        /\ store'.deployments[Len(store'.deployments)].env = "sandbox"
    BY <2>1, DeployEffect
  <2>3. store.deployments \in Seq(DeploymentRecords) /\ store'.deployments \in Seq(DeploymentRecords)
    <3>1. TypeOK'
      BY <2>1, TypeStep DEF Next
    <3> QED BY <3>1 DEF TypeOK, Stores
  <2>4. Len(store'.deployments) \in DOMAIN store'.deployments
    BY <2>2, <2>3
  <2>5. Place(store', key) = Len(store'.deployments)
    BY <1>2 DEF Place
  <2> HIDE DEF c
  <2> QED BY <1>0, <1>2, <2>2, <2>4, <2>5 DEF Kept
<1> QED BY <1>1, <1>2

\* The handler of a build whose create request is answered had created it.
LEMMA CreatedIsKnown ==
  ASSUME ConsoleInv, NEW b \in Builds, Progress(b)
  PROVE  Known(store, b)
<1>1. flight[b] # "none"
  BY DEF Progress, FailBuild, IndexArtifacts, FinishManaged, FinishEdge
<1>2. Working(store.builds[b], flight[b])
  BY DEF ConsoleInv, ApiInv, OfferInv, Served
<1> QED BY <1>1, <1>2 DEF Working, Known, Held

KeptInv ==
  /\ ConsoleInv
  /\ lostWrites = 0 => \A c \in confirmed : Kept(c, store)

\* A step confirms nothing, or what it left in the store.
LEMMA NewlyConfirmed ==
  ASSUME ConsoleInv, ConsoleInv', [ConsoleNext]_allVars, lostWrites = 0,
         NEW c \in confirmed' \ confirmed
  PROVE  Kept(c, store')
<1>0. TypeOK /\ Shaped
  BY DEF ConsoleInv, ApiInv, OfferInv
<1>1. ASSUME NEW r \in Reviewers, HandleRequest(r) PROVE Kept(c, store')
  <2>1. busy[r] \in Keys /\ page[r] \in Builds
    BY <1>0, <1>1 DEF HandleRequest, Shaped, ConsoleTypeOK
  <2>2. /\ Serve(page[r], busy[r]) /\ up'
        /\ c = [build |-> page[r], key |-> busy[r], at |-> Place(store', busy[r])]
    BY <1>1 DEF HandleRequest, Succeed
  <2> QED BY <1>0, <2>1, <2>2, ServedIsKept
<1>2. ASSUME NEW b \in Builds, GoOn(b) PROVE Kept(c, store')
  <2>1. Progress(b) /\ c = [build |-> b, key |-> "create", at |-> 0]
    BY <1>2 DEF GoOn, ConfirmCreated
  <2>2. Known(store, b)
    BY <2>1, CreatedIsKnown
  <2>3. Known(store', b)
    <3>1. confirmed' # {}
      OBVIOUS
    <3> QED BY <2>2, <3>1, ConsoleRetells DEF Retells
  <2>4. c.build = b /\ c.key \notin Decisions /\ c.key # "deploy_sandbox"
    BY <2>1 DEF Decisions
  <2> QED BY <2>3, <2>4 DEF Kept
<1>3. ASSUME UNCHANGED confirmed \/ ServerRestarts PROVE Kept(c, store')
  BY <1>3 DEF ServerRestarts
<1> QED BY <1>1, <1>2, <1>3
        DEF ConsoleNext, OpenPage, Click, Refresh, Answer, NoAnswer, HandleAdrift, Submit,
            FormStep, HandleSubmit, SubmitNoAnswer, FinishSubmit, OthersAct, ServerDies,
            consoleVars, allVars

LEMMA KeptStep == KeptInv /\ [ConsoleNext]_allVars => KeptInv'
<1> SUFFICES ASSUME KeptInv, [ConsoleNext]_allVars PROVE KeptInv'
  OBVIOUS
<1>0. ConsoleInv /\ ConsoleInv' /\ TypeOK /\ TypeOK'
  BY ConsoleInvStep DEF KeptInv, ConsoleInv, ApiInv, OfferInv
<1>1. ASSUME lostWrites' = 0 PROVE lostWrites = 0
  <2>1. lostWrites \in Nat /\ [Next]_vars
    BY <1>0, ControlApiAssumption, ConsoleSteps DEF TypeOK, ConsoleInv
  <2> QED BY <1>0, <1>1, <2>1, LossesStay
<1>2. ASSUME lostWrites' = 0, NEW c \in confirmed' PROVE Kept(c, store')
  <2>1. CASE c \in confirmed
    <3>1. c \in Confirmations /\ c.build \in Builds
      BY <1>0, <2>1 DEF ConsoleInv, Shaped, ConsoleTypeOK, Confirmations
    <3>2. confirmed' # {}
      BY <1>2
    <3>3. Kept(c, store) /\ Retells(store, store')
      BY <1>0, <1>1, <1>2, <2>1, <3>2, ConsoleRetells DEF KeptInv
    <3> QED BY <1>0, <3>1, <3>3, KeptOn DEF TypeOK
  <2>2. CASE c \notin confirmed
    BY <1>0, <1>1, <1>2, <2>2, NewlyConfirmed
  <2> QED BY <2>1, <2>2
<1> QED BY <1>0, <1>2 DEF KeptInv

\* What the console has said is done stays done through every crash and restart of the
\* control API, as long as no snapshot write fails; a write that the process dies in
\* may tear the file, and a restart that finds it torn is where the count begins anew.
THEOREM ConfirmationsLast == ConsoleSpec => []ConfirmedIsKept
<1>1. ConsoleInit => KeptInv
  BY ConsoleInvInit DEF ConsoleInit, KeptInv
<1>2. KeptInv /\ [ConsoleNext]_allVars => KeptInv'
  BY KeptStep
<1>3. KeptInv => ConfirmedIsKept
  BY DEF KeptInv, ConfirmedIsKept, Kept
<1> QED BY <1>1, <1>2, <1>3, PTL DEF ConsoleSpec

------------------------------------------------------------------------------
(* Approvals from a fresh page *)

\* While a page is fresh, what it shows or waits for is about a build that no handler
\* is at, and what it lets a reviewer approve waits for that.
Sound(r) ==
  fresh[r] =>
    /\ up /\ page[r] \in Builds
    /\ shown[r] # Unavailable \/ busy[r] # "none"
         => Known(store, page[r]) /\ flight[page[r]] = "none"
    /\ CanApprove(shown[r]) \/ busy[r] = "approve"
         => store.builds[page[r]].status \in Reviewable

LEMMA NoNotice == \A r : CanApprove(shown[r]) => shown[r] # Unavailable
BY DEF CanApprove, Unavailable

LEMMA SoundKept ==
  ASSUME NEW r \in Reviewers, Sound(r),
         page'[r] = page[r], shown'[r] = shown[r], busy'[r] \in {busy[r], "none"},
         fresh'[r] => fresh[r] /\ up',
         page[r] \in Builds /\ fresh'[r]
           /\ Known(store, page[r]) /\ flight[page[r]] = "none" => Rests(page[r])
  PROVE  Sound(r)'
<1> DEFINE b == page[r]
<1> SUFFICES ASSUME fresh'[r]
             PROVE  /\ up' /\ b \in Builds
                    /\ shown'[r] # Unavailable \/ busy'[r] # "none"
                         => Known(store', b) /\ flight'[b] = "none"
                    /\ CanApprove(shown'[r]) \/ busy'[r] = "approve"
                         => store'.builds[b].status \in Reviewable
  BY DEF Sound, CanApprove, Known, Unavailable
<1>1. up' /\ b \in Builds
  BY DEF Sound
<1>2. ASSUME shown[r] # Unavailable \/ busy[r] # "none"
      PROVE  /\ Known(store', b) /\ flight'[b] = "none"
             /\ store.builds[b].status \in Reviewable
                  => store'.builds[b].status = store.builds[b].status
  <2>1. Known(store, b) /\ flight[b] = "none"
    BY <1>2 DEF Sound
  <2> QED BY <1>1, <2>1 DEF Rests
<1>3. ASSUME CanApprove(shown[r]) \/ busy[r] = "approve"
      PROVE  store'.builds[b].status \in Reviewable
  <2>1. store.builds[b].status \in Reviewable
    BY <1>3 DEF Sound
  <2>2. shown[r] # Unavailable \/ busy[r] # "none"
    BY <1>3, NoNotice
  <2> QED BY <1>2, <2>1, <2>2
<1>4. CanApprove(shown'[r]) => CanApprove(shown[r])
  BY DEF CanApprove
<1> QED BY <1>1, <1>2, <1>3, <1>4

\* A page that was fetched while no handler was at its build is sound.
LEMMA SoundFetched ==
  ASSUME ConsoleInv, NEW r \in Reviewers, NEW b \in Builds \cup {NoBuild},
         UNCHANGED vars,
         page'[r] = b, shown'[r] = Fetched(b), busy'[r] = "none",
         fresh'[r] = FreshFetch(b)
  PROVE  Sound(r)'
<1>0. /\ Known(store', b) = Known(store, b)
      /\ store' = store /\ flight' = flight /\ up' = up
  BY DEF vars, Known
<1> SUFFICES ASSUME fresh'[r]
             PROVE  /\ up /\ b \in Builds
                    /\ shown'[r] # Unavailable => Known(store, b) /\ flight[b] = "none"
                    /\ CanApprove(shown'[r]) => store.builds[b].status \in Reviewable
  BY <1>0 DEF Sound, CanApprove, Unavailable
<1>1. up /\ b \in Builds /\ flight[b] = "none"
  BY DEF FreshFetch
<1>2. Fetched(b) # Unavailable =>
        Known(store, b) /\ Fetched(b).status = store.builds[b].status
  BY FetchShows DEF ConsoleInv
<1>3. CanApprove(shown'[r]) =>
        Fetched(b).status \in Reviewable /\ Fetched(b) # Unavailable
  BY DEF CanApprove, Reviewable, Unavailable
<1> QED BY <1>1, <1>2, <1>3

\* A page refreshed while it waits goes by the fetch its request went by.
LEMMA SoundRefreshed ==
  ASSUME ConsoleInv, NEW r \in Reviewers, Sound(r), Refresh(r), busy[r] # "none"
  PROVE  Sound(r)'
<1> DEFINE b == page[r]
<1>0. /\ Known(store', b) = Known(store, b)
      /\ store' = store /\ flight' = flight /\ up' = up
  BY DEF Refresh, vars, Known
<1>1. b \in Builds
  BY DEF ConsoleInv, Shaped
<1>2. /\ page'[r] = b /\ shown'[r] = Fetched(b) /\ fresh'[r] = fresh[r]
      /\ Fetched(b) = Unavailable => busy'[r] = "none"
      /\ Fetched(b) # Unavailable => busy'[r] = busy[r]
  BY DEF Refresh, Render, Abandon, ConsoleInv, Shaped, ConsoleTypeOK
<1> SUFFICES ASSUME fresh[r]
             PROVE  /\ up /\ b \in Builds
                    /\ Known(store, b) /\ flight[b] = "none"
                    /\ CanApprove(shown'[r]) \/ busy'[r] = "approve"
                         => store.builds[b].status \in Reviewable
  BY <1>0, <1>2 DEF Sound, CanApprove, Unavailable
<1>3. /\ up /\ Known(store, b) /\ flight[b] = "none"
      /\ busy[r] = "approve" => store.builds[b].status \in Reviewable
  BY DEF Sound
<1>4. CanApprove(shown'[r]) => store.builds[b].status \in Reviewable
  <2>1. CanApprove(shown'[r]) => Fetched(b).status \in Reviewable /\ Fetched(b) # Unavailable
    BY <1>2 DEF CanApprove, Reviewable, Unavailable
  <2>2. Fetched(b) # Unavailable => Fetched(b).status = store.builds[b].status
    BY FetchShows DEF ConsoleInv
  <2> QED BY <2>1, <2>2
<1>5. busy'[r] = "approve" => busy[r] = "approve"
  BY <1>2
<1> QED BY <1>1, <1>3, <1>4, <1>5

\* What is handled for one page leaves the build of every page that stays fresh.
LEMMA ServeRests ==
  ASSUME ConsoleInv, NEW b \in Builds, NEW key \in Keys, Serve(b, key), Ages(b, key),
         NEW r \in Reviewers, fresh'[r], page[r] \in Builds
  PROVE  fresh[r] /\ up' /\ Rests(page[r])
<1>0. TypeOK /\ fresh[r] /\ up' /\ ~(key \in Decisions /\ page[r] = b)
  BY DEF ConsoleInv, ApiInv, OfferInv, Ages
<1>1. CASE key \in Decisions
  <2>1. Review(b, key) /\ page[r] \in Builds \ {b}
    BY <1>0, <1>1 DEF Serve, Decisions
  <2> QED BY <1>0, <1>1, <2>1, ReviewRests
<1>2. CASE key \notin Decisions
  <2>1. Deploy(b, "sandbox") /\ "sandbox" \in Environments
    BY <1>2 DEF Serve, Environments
  <2> QED BY <1>0, <2>1, DeployRests
<1> QED BY <1>1, <1>2

LEMMA SoundInit == ConsoleInit => \A r \in Reviewers : Sound(r)
BY DEF ConsoleInit, Sound

LEMMA SoundStep ==
  ASSUME ConsoleInv, [ConsoleNext]_allVars, NEW r \in Reviewers, Sound(r)
  PROVE  Sound(r)'
<1>0. /\ TypeOK /\ page[r] \in Builds \cup {NoBuild}
      /\ busy \in [Reviewers -> Keys \cup {"none"}] /\ fresh \in [Reviewers -> BOOLEAN]
      /\ page \in [Reviewers -> Builds \cup {NoBuild}] /\ shown \in [Reviewers -> Views]
      /\ \A q \in Reviewers : busy[q] # "none" => page[q] \in Builds /\ busy[q] \in Keys
  BY DEF ConsoleInv, ApiInv, OfferInv, Shaped, ConsoleTypeOK
\* A step that leaves the control API alone.
<1>1. ASSUME UNCHANGED vars, page'[r] = page[r], shown'[r] = shown[r],
             busy'[r] \in {busy[r], "none"}, fresh'[r] = fresh[r]
      PROVE  Sound(r)'
  <2>1. fresh'[r] => fresh[r] /\ up'
    BY <1>1 DEF Sound, vars
  <2>2. Rests(page[r])
    BY <1>1 DEF Rests, Known, vars
  <2> QED BY <1>1, <2>1, <2>2, SoundKept
\* A step of the control API that leaves the build of the page.
<1>2. ASSUME page'[r] = page[r], shown'[r] = shown[r], busy'[r] \in {busy[r], "none"},
             fresh'[r] => fresh[r] /\ up',
             page[r] \in Builds /\ fresh'[r]
               /\ Known(store, page[r]) /\ flight[page[r]] = "none" => Rests(page[r])
      PROVE  Sound(r)'
  BY <1>2, SoundKept
<1>3. ASSUME NEW q \in Reviewers, NEW b \in Builds, OpenPage(q, b) PROVE Sound(r)'
  <2>1. CASE q = r
    <3>1. /\ UNCHANGED vars /\ page'[r] = b /\ shown'[r] = Fetched(b)
          /\ busy'[r] = "none" /\ fresh'[r] = FreshFetch(b)
      BY <1>0, <1>3, <2>1 DEF OpenPage, Render, Abandon
    <3> QED BY <3>1, SoundFetched
  <2>2. CASE q # r
    BY <1>0, <1>1, <1>3, <2>2 DEF OpenPage, Render, Abandon
  <2> QED BY <2>1, <2>2
<1>4. ASSUME NEW q \in Reviewers, NEW key \in Keys, Click(q, key) PROVE Sound(r)'
  <2>0. /\ UNCHANGED <<vars, page, shown, fresh>>
        /\ busy' = [busy EXCEPT ![q] = key]
        /\ shown[q] # Unavailable
        /\ key = "approve" => CanApprove(shown[q])
    BY <1>4 DEF Click
  <2>1. CASE q = r
    <3>1. busy'[r] = key
      BY <1>0, <2>0, <2>1
    <3> QED BY <2>0, <2>1, <3>1 DEF Sound, vars, Known, CanApprove, Unavailable
  <2>2. CASE q # r
    BY <1>0, <1>1, <2>0, <2>2
  <2> QED BY <2>1, <2>2
<1>5. ASSUME NEW q \in Reviewers, Refresh(q) PROVE Sound(r)'
  <2>1. CASE q = r /\ busy[r] # "none"
    BY <1>5, <2>1, SoundRefreshed
  <2>2. CASE q = r /\ busy[r] = "none"
    <3>1. /\ UNCHANGED vars /\ page'[r] = page[r] /\ shown'[r] = Fetched(page[r])
          /\ busy'[r] = "none" /\ fresh'[r] = FreshFetch(page[r])
      BY <1>0, <1>5, <2>2 DEF Refresh, Render, Abandon
    <3> QED BY <1>0, <3>1, SoundFetched
  <2>3. CASE q # r
    <3>1. busy'[r] = busy[r]
      BY <1>0, <1>5, <2>3 DEF Refresh, Abandon
    <3> QED BY <1>0, <1>1, <1>5, <2>3, <3>1 DEF Refresh, Render
  <2> QED BY <2>1, <2>2, <2>3
<1>6. ASSUME NEW q \in Reviewers, HandleRequest(q) PROVE Sound(r)'
  <2>0. /\ page[q] \in Builds /\ busy[q] \in Keys
        /\ UNCHANGED <<page, shown>> /\ busy'[r] \in {busy[r], "none"}
    BY <1>0, <1>6 DEF HandleRequest
  <2>1. CASE Serve(page[q], busy[q]) /\ Ages(page[q], busy[q])
    <3>1. fresh'[r] => fresh[r] /\ up'
      BY <2>1 DEF Ages
    <3>2. page[r] \in Builds /\ fresh'[r] => Rests(page[r])
      BY <2>0, <2>1, ServeRests
    <3> QED BY <1>2, <2>0, <3>1, <3>2
  <2>2. CASE Refuse(page[q], busy[q]) /\ UNCHANGED fresh
    BY <1>1, <2>0, <2>2 DEF Refuse
  <2> QED BY <1>6, <2>1, <2>2 DEF HandleRequest
<1>7. ASSUME NEW q \in Reviewers, NoAnswer(q) PROVE Sound(r)'
  <2>1. UNCHANGED <<vars, page, shown, fresh>> /\ busy' = [busy EXCEPT ![q] = "none"]
    BY <1>7 DEF NoAnswer, Abandon
  <2>2. busy'[r] \in {busy[r], "none"}
    BY <1>0, <2>1
  <2> QED BY <1>1, <2>1, <2>2
<1>8. ASSUME NEW q \in adrift, HandleAdrift(q) PROVE Sound(r)'
  <2>0. q.build \in Builds /\ q.key \in Keys
    BY DEF ConsoleInv, Shaped, ConsoleTypeOK, Requests
  <2>1. /\ UNCHANGED <<page, shown, busy>>
        /\ Serve(q.build, q.key) /\ Ages(q.build, q.key)
    BY <1>8 DEF HandleAdrift
  <2>2. fresh'[r] => fresh[r] /\ up'
    BY <2>1 DEF Ages
  <2>3. page[r] \in Builds /\ fresh'[r] => Rests(page[r])
    BY <2>0, <2>1, ServeRests
  <2> QED BY <1>2, <2>1, <2>2, <2>3
<1>9. ASSUME Submit \/ SubmitNoAnswer \/ FinishSubmit \/ UNCHANGED allVars
      PROVE  Sound(r)'
  <2>1. UNCHANGED <<vars, page, shown, busy, fresh>>
    BY <1>9 DEF Submit, SubmitNoAnswer, FinishSubmit, allVars, consoleVars
  <2> QED BY <1>1, <2>1
\* The steps of a create handler.
<1>10. ASSUME UNCHANGED <<page, shown, busy>>, StillFresh, NEW b \in Builds,
              \/ \E mode \in RequestModes, workspace \in Workspaces, path \in Paths :
                   RequestBuild(b, mode, workspace, path)
              \/ Progress(b)
       PROVE  Sound(r)'
  <2>1. fresh'[r] => fresh[r] /\ up'
    BY <1>10 DEF StillFresh
  <2>2. page[r] \in Builds /\ Known(store, page[r]) /\ flight[page[r]] = "none"
          => Rests(page[r])
    BY <1>0, <1>10, CreateRests
  <2> QED BY <1>2, <1>10, <2>1, <2>2
<1>11. ASSUME HandleSubmit PROVE Sound(r)'
  <2>1. PICK b \in Builds : \E mode \in RequestModes, workspace \in Workspaces, path \in Paths :
          RequestBuild(b, mode, workspace, path)
    BY <1>11 DEF HandleSubmit
  <2>2. UNCHANGED <<page, shown, busy>> /\ StillFresh
    BY <1>11 DEF HandleSubmit
  <2> QED BY <1>10, <2>1, <2>2
<1>12. ASSUME NEW b \in Builds, GoOn(b) PROVE Sound(r)'
  <2>1. Progress(b) /\ StillFresh /\ UNCHANGED <<page, shown, busy>>
    BY <1>12 DEF GoOn
  <2> QED BY <1>10, <2>1
<1>13. ASSUME NEW b \in Builds, OthersAct(b) PROVE Sound(r)'
  <2>0. UNCHANGED <<page, shown, busy>>
    BY <1>13 DEF OthersAct
  <2>1. CASE \E key \in Decisions : Review(b, key) /\ Ages(b, key)
    <3>1. PICK key \in Decisions : Review(b, key) /\ Ages(b, key)
      BY <2>1
    <3>2. Serve(b, key) /\ key \in Keys
      BY <3>1 DEF Serve, Keys
    <3>3. fresh'[r] => fresh[r] /\ up'
      BY <3>1 DEF Ages
    <3>4. page[r] \in Builds /\ fresh'[r] => Rests(page[r])
      BY <3>1, <3>2, ServeRests
    <3> QED BY <1>2, <2>0, <3>3, <3>4
  <2>2. CASE Deploy(b, "production") /\ StillFresh
    <3>1. fresh'[r] => fresh[r] /\ up'
      BY <2>2 DEF StillFresh
    <3>2. "production" \in Environments
      BY DEF Environments
    <3>3. page[r] \in Builds => Rests(page[r])
      BY <1>0, <2>2, <3>2, DeployRests
    <3> QED BY <1>2, <2>0, <3>1, <3>3
  <2> QED BY <1>13, <2>1, <2>2 DEF OthersAct
<1>14. ASSUME ServerDies PROVE Sound(r)'
  <2>1. ~fresh'[r] /\ UNCHANGED <<page, shown, busy>>
    BY <1>14 DEF ServerDies, Crash, StillFresh
  <2> QED BY <2>1 DEF Sound
<1>15. ASSUME ServerRestarts PROVE Sound(r)'
  <2>1. ~fresh[r] /\ fresh' = fresh
    BY <1>15 DEF ServerRestarts, Restart, Sound
  <2> QED BY <2>1 DEF Sound
<1> QED BY <1>3, <1>4, <1>5, <1>6, <1>7, <1>8, <1>9, <1>11, <1>12, <1>13, <1>14, <1>15
        DEF ConsoleNext, Answer, FormStep

\* That a rejected, failed or released build is not approved again rests on a page's
\* button, and the button is enough: an approval that is handled for a page fetched
\* with no handler at its build, with nothing decided and no crash since, finds the
\* build waiting for one, whatever other reviewers, requests left behind and create
\* handlers did meanwhile.
THEOREM FreshApproves == ConsoleSpec => FreshApproval
<1> DEFINE AllSound == \A r \in Reviewers : Sound(r)
<1>1. ConsoleInit => ConsoleInv /\ AllSound
  BY ConsoleInvInit, SoundInit
<1>2. ConsoleInv /\ AllSound /\ [ConsoleNext]_allVars => ConsoleInv' /\ AllSound'
  BY ConsoleInvStep, SoundStep
<1>3. AllSound =>
        \A r \in Reviewers :
          busy[r] = "approve" /\ busy'[r] = "none" /\ fresh[r] /\ store' # store
            => store.builds[page[r]].status \in {"awaiting_approval", "awaiting_scope_review"}
  BY DEF Sound, Reviewable
<1> HIDE DEF AllSound
<1> QED BY <1>1, <1>2, <1>3, PTL DEF ConsoleSpec, FreshApproval
==============================================================================
