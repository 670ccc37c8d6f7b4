-------------------------------- MODULE Console --------------------------------
(***************************************************************************)
(* The review buttons and the build composer of the AI console             *)
(* (apps/ai-console) in front of the control API.  A page shows a build as *)
(* it was when the page was fetched; its buttons go by that, are disabled  *)
(* while a request is under way, and come back with the answer, before the *)
(* page has been fetched again.  Requests and answers get lost, pages are  *)
(* left, and the control API dies and comes back meanwhile.                *)
(***************************************************************************)
EXTENDS ControlApiProps

CONSTANTS
  Reviewers,   \* who each have one build page open
  NoBuild,     \* the build of a page or form that has none
  MaxLosses    \* bound on the requests and answers that get lost

ASSUME ConsoleAssumption == NoBuild \notin Builds /\ MaxLosses \in Nat

VARIABLES
  page,         \* the build on the page of each reviewer
  shown,        \* that build as the page shows it
  busy,         \* the request the page waits for
  refreshing,   \* whether router.refresh was called and the page not fetched yet
  adrift,       \* requests whose page was left or given an error
  form,         \* the composer: its stage and the build it is about
  confirmed,    \* history: what the console has said is done since a restart last
                \* found the snapshot file torn
  outdated,     \* history: whether a page is older than its own last success
  fresh,        \* history: whether nothing was decided, nor died, since the fetch
                \* that the page, or the request it waits for, goes by
  losses

consoleVars ==
  <<page, shown, busy, refreshing, adrift, form, confirmed, outdated, fresh, losses>>

allVars == <<vars, consoleVars>>

Keys == Decisions \cup {"deploy_sandbox"}

Unavailable == [status |-> "unavailable", path |-> <<>>]

Views ==
  {Unavailable} \cup [status : BuildStatuses, path : {<<>>} \cup Paths]

Requests == [build : Builds, key : Keys]

Stages == {"editing", "sent", "working", "created", "opened", "error"}

\* `at` is the position of a decision or deployment in its list.
Confirmations ==
  [build : Builds, key : Keys \cup {"create"},
   at : 0 .. MaxDecisions + MaxDeployments]

ConsoleTypeOK ==
  /\ page \in [Reviewers -> Builds \cup {NoBuild}]
  /\ shown \in [Reviewers -> Views]
  /\ busy \in [Reviewers -> Keys \cup {"none"}]
  /\ refreshing \in [Reviewers -> BOOLEAN]
  /\ adrift \in SUBSET Requests
  /\ form \in [stage : Stages, build : Builds \cup {NoBuild}]
  /\ confirmed \in SUBSET Confirmations
  /\ outdated \in [Reviewers -> BOOLEAN]
  /\ fresh \in [Reviewers -> BOOLEAN]
  /\ losses \in 0 .. MaxLosses

ConsoleInit ==
  /\ Init
  /\ page = [r \in Reviewers |-> NoBuild]
  /\ shown = [r \in Reviewers |-> Unavailable]
  /\ busy = [r \in Reviewers |-> "none"]
  /\ refreshing = [r \in Reviewers |-> FALSE]
  /\ adrift = {}
  /\ form = [stage |-> "editing", build |-> NoBuild]
  /\ confirmed = {}
  /\ outdated = [r \in Reviewers |-> FALSE]
  /\ fresh = [r \in Reviewers |-> FALSE]
  /\ losses = 0

------------------------------------------------------------------------------
\* The build page

\* Mutant: an error answer is shown as a build.
Mutant_Fetched(b) ==
  IF up /\ b \in Builds
  THEN [status |-> store.builds[b].status, path |-> store.builds[b].path]
  ELSE Unavailable

\* fetchJson of the build; an error and an unknown build show a notice, no buttons.
Fetched(b) ==
  IF up /\ b \in Builds /\ Known(store, b)
  THEN [status |-> store.builds[b].status, path |-> store.builds[b].path]
  ELSE Unavailable

FreshFetch(b) == up /\ b \in Builds /\ flight[b] = "none"

\* The page is rendered from a new fetch.
Render(r, b) ==
  /\ page' = [page EXCEPT ![r] = b]
  /\ shown' = [shown EXCEPT ![r] = Fetched(b)]
  /\ refreshing' = [refreshing EXCEPT ![r] = FALSE]
  /\ outdated' = [outdated EXCEPT ![r] = FALSE]

\* The page's buttons go away, and with them who waits for its request, which may
\* have been sent.
Abandon(r) ==
  /\ busy' = [busy EXCEPT ![r] = "none"]
  /\ \/ UNCHANGED adrift
     \/ busy[r] # "none" /\ adrift' = adrift \cup {[build |-> page[r], key |-> busy[r]]}

\* A reviewer goes to the page of a build, or loads the page again.
OpenPage(r, b) ==
  /\ Render(r, b)
  /\ Abandon(r)
  /\ fresh' = [fresh EXCEPT ![r] = FreshFetch(b)]
  /\ UNCHANGED <<vars, form, confirmed, losses>>

\* What router.refresh asked for arrives; the buttons stay unless the build is
\* unavailable.
Refresh(r) ==
  /\ refreshing[r]
  /\ Render(r, page[r])
  /\ \/ Fetched(page[r]) = Unavailable /\ Abandon(r)
     \/ Fetched(page[r]) # Unavailable /\ UNCHANGED <<busy, adrift>>
  /\ fresh' = [fresh EXCEPT ![r] = IF busy[r] = "none" THEN FreshFetch(page[r]) ELSE @]
  /\ UNCHANGED <<vars, form, confirmed, losses>>

\* Mutant: whatever is not finished can be approved.
Mutant_CanApprove(view) == view.status \notin {"unavailable", "deployed", "failed"}

CanApprove(view) == view.status \in {"awaiting_approval", "awaiting_scope_review"}

CanDeploySandbox(view) ==
  /\ \E i \in DOMAIN view.path : view.path[i] = "sandbox"
  /\ view.status \in {"approved", "awaiting_approval"}

\* Decisions and deployments that requests under way may still make.
Owed(keys) ==
  Cardinality({r \in Reviewers : busy[r] \in keys})
    + Cardinality({q \in adrift : q.key \in keys})

WithinBounds(key) ==
  IF key \in Decisions
  THEN Len(store.approvals) + Owed(Decisions) < MaxDecisions
  ELSE Len(store.deployments) + Owed({"deploy_sandbox"}) < MaxDeployments

Click(r, key) ==
  /\ shown[r] # Unavailable /\ busy[r] = "none"
  /\ key = "approve" => CanApprove(shown[r])
  /\ key = "deploy_sandbox" => CanDeploySandbox(shown[r])
  /\ WithinBounds(key)
  /\ busy' = [busy EXCEPT ![r] = key]
  /\ UNCHANGED <<vars, page, shown, refreshing, adrift, form, confirmed, outdated,
                 fresh, losses>>

------------------------------------------------------------------------------
\* The control API answers

\* The handler a request goes to.
Serve(b, key) ==
  \/ key \in Decisions /\ Review(b, key)
  \/ key = "deploy_sandbox" /\ Deploy(b, "sandbox")

\* The handler answers 404 or 409.
Refuse(b, key) ==
  /\ up
  /\ ~Known(store, b) \/ (key = "deploy_sandbox" /\ ~MayDeploy(b, "sandbox"))
  /\ UNCHANGED vars

\* A page is no longer fresh once its build is decided on or the process dies.
Ages(b, key) ==
  fresh' = [r \in Reviewers |->
              fresh[r] /\ up' /\ ~(key \in Decisions /\ page[r] = b)]

Place(st, key) == IF key \in Decisions THEN Len(st.approvals) ELSE Len(st.deployments)

\* Mutant: the page is not fetched again.
Mutant_Succeed(r) ==
  /\ refreshing' = refreshing
  /\ outdated' = [outdated EXCEPT ![r] = TRUE]
  /\ confirmed' = confirmed \cup
       {[build |-> page[r], key |-> busy[r], at |-> Place(store', busy[r])]}

\* What runAction does with an answer: the message, then router.refresh.
Succeed(r) ==
  /\ refreshing' = [refreshing EXCEPT ![r] = TRUE]
  /\ outdated' = [outdated EXCEPT ![r] = TRUE]
  /\ confirmed' = confirmed \cup
       {[build |-> page[r], key |-> busy[r], at |-> Place(store', busy[r])]}

\* The request of a page is handled.  Without an answer the page shows an error.
HandleRequest(r) ==
  /\ busy[r] # "none"
  /\ busy' = [busy EXCEPT ![r] = "none"]
  /\ \/ /\ Serve(page[r], busy[r])
        /\ Ages(page[r], busy[r])
        /\ \/ up' /\ Succeed(r) /\ UNCHANGED losses
           \/ /\ UNCHANGED <<refreshing, outdated, confirmed>>
              /\ \/ ~up' /\ UNCHANGED losses
                 \/ up' /\ losses < MaxLosses /\ losses' = losses + 1
     \/ /\ Refuse(page[r], busy[r])
        /\ UNCHANGED <<fresh, refreshing, outdated, confirmed, losses>>
  /\ UNCHANGED <<page, shown, adrift, form>>

\* The connection is refused, or breaks before the request is handled.
NoAnswer(r) ==
  /\ busy[r] # "none"
  /\ \/ ~up /\ busy' = [busy EXCEPT ![r] = "none"] /\ UNCHANGED <<adrift, losses>>
     \/ up /\ losses < MaxLosses /\ losses' = losses + 1 /\ Abandon(r)
  /\ UNCHANGED <<vars, page, shown, refreshing, form, confirmed, outdated, fresh>>

\* A request is handled after its page gave up on it.
HandleAdrift(q) ==
  /\ adrift' = adrift \ {q}
  /\ Serve(q.build, q.key)
  /\ Ages(q.build, q.key)
  /\ UNCHANGED <<page, shown, busy, refreshing, form, confirmed, outdated, losses>>

------------------------------------------------------------------------------
\* The composer

Submitting == form.stage \in {"sent", "working"}

Submit ==
  /\ ~Submitting /\ form.stage # "created"
  /\ \E b \in Builds : ~Known(store, b)
  /\ form' = [stage |-> "sent", build |-> NoBuild]
  /\ UNCHANGED <<vars, page, shown, busy, refreshing, adrift, confirmed, outdated,
                 fresh, losses>>

FormGets(stage, b) == form' = [stage |-> stage, build |-> b]

StillFresh == fresh' = [r \in Reviewers |-> fresh[r] /\ up']

\* The create request arrives; its answer comes when the handler ends.
HandleSubmit ==
  /\ form.stage = "sent"
  /\ \E b \in Builds, mode \in RequestModes, workspace \in Workspaces, path \in Paths :
       RequestBuild(b, mode, workspace, path) /\ FormGets("working", b)
  /\ StillFresh
  /\ UNCHANGED <<page, shown, busy, refreshing, adrift, confirmed, outdated, losses>>

\* The handler has ended, with 201 or by its catch with 500.
Ended(b) == up' /\ flight'[b] = "none"

Accepted(b) == store'.builds[b].status # "failed"

ConfirmCreated(b) ==
  /\ FormGets("created", b)
  /\ confirmed' = confirmed \cup {[build |-> b, key |-> "create", at |-> 0]}
  /\ UNCHANGED losses

\* The create handler of b goes on, and answers the composer when it ends.
GoOn(b) ==
  /\ Progress(b)
  /\ StillFresh
  /\ IF form = [stage |-> "working", build |-> b] /\ Ended(b)
     THEN \/ Accepted(b) /\ ConfirmCreated(b)
          \/ ~Accepted(b) /\ FormGets("error", NoBuild) /\ UNCHANGED <<confirmed, losses>>
          \/ /\ losses < MaxLosses /\ losses' = losses + 1
             /\ FormGets("error", NoBuild)
             /\ UNCHANGED confirmed
     ELSE UNCHANGED <<form, confirmed, losses>>
  /\ UNCHANGED <<page, shown, busy, refreshing, adrift, outdated>>

\* The composer's connection is refused, breaks, or died with the handler.
SubmitNoAnswer ==
  /\ Submitting
  /\ \/ /\ ~up \/ (form.stage = "working" /\ flight[form.build] = "none")
        /\ UNCHANGED losses
     \/ up /\ losses < MaxLosses /\ losses' = losses + 1
  /\ FormGets("error", NoBuild)
  /\ UNCHANGED <<vars, page, shown, busy, refreshing, adrift, confirmed, outdated, fresh>>

\* React sets the currentTarget of an event back to null when its dispatch is over,
\* which it is at the first await of the handler.
CurrentTarget(stage) == IF stage = "editing" THEN "form" ELSE "null"

\* After the message that announces the redirection the form is reset through
\* event.currentTarget; when that throws, the catch shows the error.
FinishSubmit ==
  /\ form.stage = "created"
  /\ FormGets(IF CurrentTarget(form.stage) = "null" THEN "error" ELSE "opened", form.build)
  /\ UNCHANGED <<vars, page, shown, busy, refreshing, adrift, confirmed, outdated,
                 fresh, losses>>

------------------------------------------------------------------------------
\* Others, and the specification

\* Another client of the API decides, or releases to production, which are the
\* requests that change the status of a build.
OthersAct(b) ==
  /\ \/ \E key \in Decisions : WithinBounds(key) /\ Review(b, key) /\ Ages(b, key)
     \/ /\ WithinBounds("deploy_sandbox")
        /\ Deploy(b, "production")
        /\ StillFresh
  /\ UNCHANGED <<page, shown, busy, refreshing, adrift, form, confirmed, outdated, losses>>

ServerDies ==
  /\ Crash
  /\ StillFresh
  /\ UNCHANGED <<page, shown, busy, refreshing, adrift, form, confirmed, outdated, losses>>

\* A restart that finds the file torn knows nothing of what was said before.
ServerRestarts ==
  /\ Restart
  /\ confirmed' = IF disk = Torn THEN {} ELSE confirmed
  /\ UNCHANGED <<page, shown, busy, refreshing, adrift, form, outdated, fresh, losses>>

Answer(r) == HandleRequest(r) \/ NoAnswer(r)

FormStep == HandleSubmit \/ SubmitNoAnswer \/ FinishSubmit

ConsoleNext ==
  \/ \E r \in Reviewers :
       \/ \E b \in Builds : OpenPage(r, b)
       \/ \E key \in Keys : Click(r, key)
       \/ Refresh(r)
       \/ Answer(r)
  \/ \E q \in adrift : HandleAdrift(q)
  \/ Submit
  \/ FormStep
  \/ \E b \in Builds : GoOn(b) \/ OthersAct(b)
  \/ ServerDies
  \/ ServerRestarts

\* A request is handled while the process runs and refused while it does not; a
\* page that was asked for arrives; handlers go on as in ControlApi.
ConsoleSpec ==
  /\ ConsoleInit /\ [][ConsoleNext]_allVars
  /\ \A r \in Reviewers : WF_allVars(Answer(r)) /\ WF_allVars(Refresh(r))
  /\ WF_allVars(FormStep)
  /\ \A b \in Builds : WF_allVars(GoOn(b))

------------------------------------------------------------------------------
\* Properties

\* What the console has said is done stays done: a decision, a sandbox deployment or
\* a build whose success was shown is in the store, and is found there again after
\* every crash, as long as no snapshot write failed, or the process died so far into
\* one that a restart finds the file torn: then all that was said before is gone, and
\* what is said from there on stays.
ConfirmedIsKept ==
  lostWrites = 0 =>
    \A c \in confirmed :
      /\ Known(store, c.build)
      /\ c.key \in Decisions =>
           /\ c.at \in DOMAIN store.approvals
           /\ store.approvals[c.at] = [build |-> c.build, action |-> c.key]
      /\ c.key = "deploy_sandbox" =>
           /\ c.at \in DOMAIN store.deployments
           /\ store.deployments[c.at].build = c.build
           /\ store.deployments[c.at].env = "sandbox"

\* The API takes any approval, so that a rejected, failed or released build is not
\* approved again rests on the page's button.  It is enough while the page is fresh:
\* fetched with no handler under way, and nothing decided and no crash since.
FreshApproval ==
  [][\A r \in Reviewers :
       busy[r] = "approve" /\ busy'[r] = "none" /\ fresh[r] /\ store' # store
         => store.builds[page[r]].status \in
              {"awaiting_approval", "awaiting_scope_review"}]_allVars

\* The console never hangs: every request ends with an answer or an error, whatever
\* dies meanwhile, and a page is fetched again after its own success.
ConsoleSettles ==
  /\ \A r \in Reviewers :
       busy[r] # "none" \/ outdated[r] ~> busy[r] = "none" /\ ~outdated[r]
  /\ Submitting ~> ~Submitting

\* The composer shows "Redirecting to build detail..." and goes there.
ComposerRedirects == form.stage = "created" ~> form.stage = "opened"
==============================================================================
