# Verification of AI-native-enterprise-software

TLA+ modules, TLC configurations and TLAPS proofs about the platform in this
repository: a control API that plans, compiles, reviews and deploys Odoo
customizations, the agents and services around it, and the packages it is built
from. Line numbers refer to the sources; `PROJECT.json` lists the lines every
definition stands for.

## 1. The system

| Part | State | Operations | Talks to |
|---|---|---|---|
| Control API, builds (`apps/control-api/src/routes/builds.ts`) | none of its own; each create request holds what it awaits | create, approve, reject, request-changes, deploy, get, stream | the store; planner, compiler, policy engine, promotion gate (calls) |
| Control API, deployments (`routes/deployments.ts`) | - | get, rollback | the store |
| Control API, edge jobs (`routes/edge-jobs.ts`) | - | enqueue, next (claim), complete | the store; edge agents (HTTP) |
| Control API, connections, drift, metadata, health | - | register, heartbeat, scan | the store |
| Store (`store/memory-store.ts`) | maps of builds, events, deployments, edge jobs, drift reports; lists of approvals and connections; the snapshot file | one setter per field, each of which rewrites the snapshot file | subscribers of build events (callbacks), the file system |
| Spec compiler (`packages/spec-compiler`) | module directories, named after titles; an artifact directory a build | compile: make directories, write the module, write the artifacts | the file system |
| Planner, policy engine, promotion gate | none | pure functions | called by the control API |
| Edge agent (`apps/edge-agent`) | agent id, job in hand | register, heartbeat, poll, execute, complete | the control API (HTTP, polling) |
| Runner supervisor (`apps/runner-supervisor`) | map of runs, three timers a run | dispatch, get, cancel | nobody calls it yet |
| Log gateway (`apps/log-gateway`) | map of frame lists, in memory only; one interval a socket | ingest, replay, websocket | its clients, all outside the repository |
| AI console (`apps/ai-console`) | build fetched per page, the request a page waits for, the composer's form, the stream's source and the list of its events | review and deploy buttons, stream panel, composer | the control API (HTTP, SSE) |
| Odoo adapter, bridge add-on | none | fetch snapshot, compare with a baseline | Odoo (HTTP) |
| SQL schema, prompt packs, templates, fixtures, infra | - | - | not used by the code, or text |

What is hard about it:

* **Overlapping handlers.** Node runs one handler at a time up to its next
  `await`. Only the create handler awaits (compiler and `stat`, then `readFile`),
  and every other request may run in between, on the same build.
* **Crashes between store calls.** Each store method rewrites the snapshot file, so
  the process may die with half of a handler's changes on disk. A restart reads the
  file back, or starts from the defaults when it does not parse, as after a death in
  the midst of a write: then clients, agents and pages know of what the store has lost.
* **Failures nobody sees.** A snapshot write that fails is swallowed; an agent that
  fails after it claimed a job drops it; claims never expire.
* **Files of several builds.** The compiler writes nine files at once, builds of one
  title share their directory, and when one write is rejected the others go on.
* **Late timers.** Node fires timers list by list; when the loop was busy for long, those
  of one run come in the wrong order.
* **Connections that end for good.** An `EventSource` tries again after a broken
  connection, not after an answer that is no stream.
* **Answers that do not come.** The console cannot tell a request that was lost from
  one whose answer was, and its pages show what was true when they were fetched.
* **Order.** Approval status, approval record and event are three writes; so are a
  deployment, its success, the build's status and the event.

What makes each part correct:

* builds: staging and production are reached only by an approved build; an approval
  is good for one production release; a build offered for approval is complete;
  every create request ends in the state its mode says; a review sticks;
* store: what a restart reads back still relates statuses, records and releases;
  history only grows; the event stream is complete up to crashes;
* edge jobs: first in, first out per workspace; a job is handed out once;
* promotion gate and policy engine: paths never go back; a stricter profile blocks
  no less;
* edge agents: a job is in one agent's hands only, runs again only when the control
  API forgot the claim, and is reported as done only after it was run;
* runner: the status of a run goes one way, and every run settles - unless the event
  loop is later than the gaps between its timers;
* log gateway: what is ingested reaches the consumers of the stream - which is not so;
* event stream: a connection carries the build's events, each once and in order, and
  every event reaches the browser that watches the build - while its source is not
  turned away;
* generated modules: the policy check of a build looks at the build's own files, and
  what is offered stays what was checked, as far as directories are not shared and no
  failed handler has left a write behind;
* console: what it says is done stays done, a fresh page approves only what waits for
  approval, nothing hangs;
* planner: saying more in a prompt never asks for less review - which is not so;
* drift comparison: what the baseline has and the instance has not shows.

## 2. Modules

| Module | What it is |
|---|---|
| `Promotion` | pure: environments, their order, `ValidatePromotionPath` (`packages/deployment`) |
| `PolicyEngine` | pure: the six rules over abstract files, blocking by profile, `EvaluateBuildPolicy`, and what the three files the create handler reads can match |
| `MemoryStore` | the store as a record and one operator per method of class `MemoryStore` |
| `ControlApi` | the state machine: handlers, snapshot file, crashes and restarts; extends `MemoryStore` |
| `ReleaseGate` | abstract specification: decisions, builds open for release, releases |
| `ControlApiProps` | the properties, and the mapping of `ControlApi` to `ReleaseGate` |
| `MCControlApi` | instances for TLC |
| `EdgeFleet`, `MCEdgeFleet` | edge agents and a lossy network against the job operators of `MemoryStore` and the snapshot file, which may lose writes and be torn |
| `JobQueue` | abstract specification: what the job endpoints promise, as counts of hand-outs, of agents that hold a job and of runs; `EdgeFleet` implements it |
| `RunnerSupervisor`, `MCRunnerSupervisor` | runs, their timers in Node's order and late by any time, cancel, loss of the process |
| `EventStream`, `MCEventStream` | emission, writing, replay and subscription of build events, the browser's `EventSource` with its ways to end, and the console's stream panel |
| `GeneratedModules`, `MCGeneratedModules` | module directories, the writes of several builds, what the policy check reads back |
| `Console`, `MCConsole` | the build page with its buttons and the composer; extends `ControlApiProps`, whose handlers answer the requests |
| `Planner` | pure: modules, change classes, elevation and risk level from the words of a prompt |
| `OdooDrift` | pure: the comparison of two snapshots |
| `Operators_proofs` | the pure operators: what the store's methods on edge jobs do, which two proofs share, and what holds of policy engine, planner and drift for all inputs, proved |
| `ControlApi_proofs` | lemmas on methods and trails; type correctness, releases and approvals, the order of edge jobs, the history that survives, proved |
| `Records_proofs` | what the records account for: the refinement of `ReleaseGate`, the budget of production releases and the lag of the event stream under crashes, complete offers, where create requests end, proved |
| `RunnerSupervisor_proofs` | type correctness, and that runs never go back, proved |
| `EdgeFleet_proofs` | all safety properties of the edge agents and the refinement of `JobQueue`, proved |
| `EventStream_proofs` | all safety properties of the event stream, proved |
| `GeneratedModules_proofs` | all safety properties of the generated files, proved |
| `Console_proofs` | all safety properties of the console, its action property among them, on top of the control API's invariants, proved |

### State of `ControlApi`

* `store` - the maps of `MemoryStore`. Build and event maps are functions on
  `Builds` (status `"absent"`: not in the map); deployments, approvals and edge
  jobs are sequences in order of insertion, a deployment's or job's id is its
  position. Plans, specs and previews are kept as whether they are set, artifacts as
  their number, findings as the set of rules with their flags, events as their kind.
* `flight` - for each build, what its create handler awaits (`none`, `compiling`,
  `reading`).
* `disk` - the contents of the snapshot file, or `Torn`.
* `up`, `crashes`, `lostWrites` - whether the process runs, and the two counters of
  faults. `crashes` also appears in properties: it is what the code's write order
  lets a crash cost.

### Steps

A stretch of a handler between two awaits is a **segment**; its **trail** is the
sequence of stores after each of its store calls, in the code's order
(`IntakeTrail`, `IndexTrail`, `PolicyTrail`, `ManagedTrail`, `EdgeTrail`,
`FailTrail`, `ReviewTrail`, `DeployTrail`). `Segment(trail, awaiting)` is one step for the
other handlers: either it completes (`store` becomes the last store of the trail, the
file too unless writes were lost), or the process dies during one of its calls
(`store` and `disk` are an intermediate store, or the file is torn). `Crash` is a
death between segments, `Restart` the constructor of the store.

| Action | Code |
|---|---|
| `RequestBuild` | `POST /builds` up to the call of the compiler |
| `IndexArtifacts` | the loop of `addArtifact` |
| `FinishManaged`, `FinishEdge` | findings, and the two ends of the handler by execution mode |
| `FailBuild` | its `catch` |
| `Review` | approve, reject, request-changes |
| `Deploy` | `POST /builds/:id/deploy`, guard `MayDeploy` |
| `Rollback` | `POST /deployments/:id/rollback` |
| `EnqueueJob`, `ClaimJob`, `CompleteJob` | the edge job endpoints |
| `Crash`, `Restart` | death and start of the process |

Abstractions: refused requests (400, 404, 409, 204) change nothing and are left out;
deployment log lines, timestamps, ids, titles and comments are left out; the planner's keyword search is the
free choice of `elevated`; `addArtifact` is called `NumArtifacts` times (8 in the
code). Findings of one build are written as one event, whatever their number; the
code writes one each, but the files it reads match no rule.

### `EdgeFleet`

`step[h]` is the await at which the agent of host `h` stands: `register` is
`main` up to the loop, `online`/`poll`/`busy`/`execute`/`complete`/`free` are the awaits of
one round in their order, `rest` the pause. The handler of an answered request and
its answer are one step, since the agent does nothing in between. A request without
an answer is lost or joins `late`, from where it may be handled at any later time
(`HandleLate`), also after its agent has dropped the job, died, or come back under a
new id. What fails inside the loop goes to `rest` and drops the job, as the `catch`
does; what fails in `register` ends the process. The store is the record of
`MemoryStore` with a queue filled beforehand; each handler writes the file or fails to,
which leaves it as it was or torn (`Serve`). `ServerRestart` has two cases:
`RestartFromFile` reads the file back, `RestartFromTornFile` is a start after the file
was torn, by a failed write or by the death itself (`tears`): the store begins from the
defaults, without any job, while agents still hold some, whose completions are then
answered 404. `claims` is history: how often the server handed out each job. `JobQueue`
bounds that number by `1 + faults`, whatever became of the hand-outs, so that an agent
that drops its job brings nothing back; `Wipe` is its torn file.

### `RunnerSupervisor`

`pending` holds the timers of each run by their delay. Node keeps one list per delay
and runs the list that expires first, all of it that is due; `FireList` is one such
list, `firing` that more are due in the same phase, during which no request is
handled. `Tick` lets time pass whether or not timers are due: the loop may be late by
any time. `overtaken` is history: the runs of which two timers were due at once, the
only ones that such a delay can take back.

### `EventStream`

`AddBuildEvent` is the method's push, emit and write, in this order, with a death after
the emission. `Connect` is the stream handler: it replays and subscribes in one
segment. `wire` is what is on its way, `got` what arrived on this connection, `seen`
what ever arrived, `shown` the list of the panel. The write goes to the file in place:
it may be lost, or torn by a failure or a death, and `RestartFromTornFile` then begins
without any build (`known`).

`source` is the state of the `EventSource`. `Disconnect` is a connection that ends, after
which it is connecting again; an attempt is `Answered` with the stream, `Refused` by a
port nobody listens at, which is tried again, or anything else, which closes the source
for good (`TurnedAway`): nginx answers 502 for an API that is down
(`infra/nginx/default.conf`), the API 404 for a build it has lost, and without a common
origin (`SameOrigin`) the stream's raw headers (`builds.ts:272`) lack the one that would
let the page read it. Only `Select`, the effect of choosing another build, makes a new
source. The heartbeat events are left out; nothing listens to them. nginx may hold the
events of a slow stream in its buffers, which is one more delay on `wire`.

### `GeneratedModules`

`phase[b]` is the await at which the create handler of build `b` stands: the
directories (`preparing`), the module's files (`generating`), the artifacts
(`documenting`), the files read back (`reading`). `writes` has every `writeFile` of
every build on its own, since a handler that fails does not call the others off;
`tree` is what each file of each module directory holds. A text is the build it was
made from, or `"of module"` for the files that only name the module; two writes of
different texts that overlap may leave a mixture. `met` and `left` are history: the
builds whose handlers wrote while this one was under way, and the files to which a
handler that had already ended (failed, since an offered one has all its writes behind
it) still had a write when the build was requested. `DeriveModuleName` cuts the title's
words, so that two titles that differ in the prefix only get one directory.

### `Console`

A page goes by `shown`, the build as it was fetched; `busy` is the request its buttons
wait for, `refreshing` that `router.refresh` was called and has not arrived, `adrift`
the requests whose page was left or given an error and that may still be handled. The
answer of a handler and its arrival are one step, since a page that waits does nothing
else. `form` is the composer; its create request is answered when the handler ends,
so it is under way through all awaits of `ControlApi`. `OthersAct` are other clients.
`confirmed`, `outdated`, `fresh` are history for the properties; a restart that finds the
file torn empties `confirmed`, since all that was said before is gone then.

### `Planner`, `OdooDrift`

A prompt is the set of the planner's words it contains. A snapshot is the maps that
`detectDrift` makes of its modules and views.

## 3. What is checked

All runs use `Spec` with its fairness. `CHECK_DEADLOCK FALSE` is set since a server
without requests rests, and so does the model once its bounds are used up.

| Run | Instance | Shows |
|---|---|---|
| `review` | 2 builds, 2 decisions, 2 deployments, no faults | `TypeOK`; `ReleaseBudget`: production releases plus open approvals never exceed recorded approvals; `ApprovalStands`: an approved build's newest decision approves it; `ImplementsGate` |
| `edge` | 2 builds of both modes, 2 workspaces, 1 agent, 1 decision, jobs enqueued by request too | `UnreviewedOutcome`, `ClaimsInOrder`, `JobsNeverRewind`, and the liveness property `BuildSettles` |
| `faults` | 1 managed build, 2 crashes, 1 lost write, torn files | `ReleaseBudget`, `OfferedBuildIsComplete`, `DeployedHasRelease`, `AuditLagsByCrashes` of whatever is read back (the event stream misses no more records than there were crashes); `HistorySurvives`: only a failed write or a torn file takes history back |
| `edge_fleet` | 2 agents of one workspace, 3 jobs (one of a workspace nobody serves), each agent started twice, 1 unanswered request, 1 lost write, 1 death in the midst of a write | `HeldByClaimant`, `RunsAreBounded`, `SucceededRan`, the liveness property `QueuedJobsMove`, and `KeepsPromise`, the refinement of `JobQueue` |
| `runner` | 3 runs, delays 1, 2 and 4, a clock to 8 with any lateness, 1 crash | `LifecycleAdvances` (action), `RunSettles` (liveness) |
| `event_stream` | behind the proxy: 2 builds, 3 events of 2 types, 2 crashes, torn files, 1 lost write, 1 dropped connection or new selection, a panel of 2 | `StreamIsExact`, `ForgottenEvents`, `EventsArrive` (liveness) |
| `generated` | 2 builds of one module directory, 3 files, 1 failing operation, 1 crash | `PolicySawOwnFiles`, `OfferedModuleIsWhole`, `StubsSurviveCollisions`, `ModulesComeToRest` (liveness) |
| `console` | 1 build of either mode, 1 page, 2 decisions, 1 deployment, 1 crash, torn files, 1 lost or late request | `ConfirmedIsKept`, `FreshApproval` (action), `ConsoleSettles` (liveness) |
| `lost_decision` | as `review`, 1 build | a violation: `ReviewDecisionSticks` |
| `torn_history` | 1 crash, torn files | a violation: `HistoryOnlyGrows` |
| `panel_silent` | 1 build, no faults | a violation: `PanelTails` |
| `composer` | 1 build, no faults | a violation: `ComposerRedirects` |

The first two violations are disagreements between the code and its documents: the
create handler overwrites a rejection or a request for changes given while it awaits
(`builds.ts:216`; the API description says the build *is* rejected); a snapshot cut
short by a crash erases all history (`memory-store.ts:236`; the threat model lists an
immutable audit trail). The other two are faults of the console. The panel sets only
`onmessage` (`logs-stream-panel.tsx:40`), which an `EventSource` calls for messages
without an event type, while every event of the stream has one (`builds.ts:279`), so
that the page that promises to replay and tail the log lists nothing. The composer
resets its form through `event.currentTarget` after two awaits
(`build-composer-form.tsx:49`), when React has set it to null: the build is created,
the message says "Redirecting to build detail...", and the page shows a `TypeError`
and stays.

Five properties make an exception, for something the code does do; without the
exception TLC finds it in the same run:

* `LifecycleAdvances` and `RunSettles` except a run of which two timers were due at once
  (`r \in overtaken`). After a stall of the event loop the list of the 1800 ms timers may
  fire first, because an older run's timer heads it, and the callback of 800 ms looks for
  "cancelled" only (`runner-supervisor/src/server.ts:84`): a run whose log says "execution
  completed" is set back to running, and stays so.
* `OfferedModuleIsWhole` and `PolicySawOwnFiles` except the files in `left`. The compiler
  leaves writes under way when one of them fails (`spec-compiler/src/index.ts:152`), and
  such a write may land in the module of a later build of the name that met no other
  handler.
* `EventsArrive` excepts a source that was turned away (`source = "closed"`). The panel
  only clears its badge then (`logs-stream-panel.tsx:49`): behind nginx one attempt to
  connect while the API restarts ends the stream for good. With the addresses of the
  compose file, where page and API have different origins (`SameOrigin = FALSE`), the first
  attempt does, so that nothing ever arrives; the run therefore has `SameOrigin = TRUE`,
  the theorems hold for both.

What the runs show about collisions: the hypothesis of `PolicySawOwnFiles` and
`OfferedModuleIsWhole` that no other handler of the name was under way (`Alone`) is
needed; without it TLC finds a build whose policy check reads another build's
manifest, or an empty file. The hypotheses of `FreshApproval` are needed likewise: a
page that was fetched before a crash, while the handler was under way, or before
another reviewer decided approves builds that failed or were rejected.

What they show about torn files: nothing survives one, by `torn_history`. The properties
of agents, stream and console say what remains true: in `EdgeFleet` no job is held
or run twice, in `EventStream` the connection stays exact and `ForgottenEvents` speaks of
the time until a restart has met the torn file, in `Console` `ConfirmedIsKept` of what was
said since it did.

`EdgeFleet` also shows what the code does not promise: a job whose agent died or gave
up after the claim stays claimed for ever, since claims have no deadline. That is why
`QueuedJobsMove` speaks of being handed out, not of being finished. In the same way a
build whose process dies stays planning or running after the restart: nothing resumes
it, and `BuildSettles` is checked without crashes.

**Bounds.** `MaxDecisions`, `MaxDeployments`, `MaxJobs`, `MaxCrashes`,
`MaxLostWrites` bound requests and faults, as guards of `Review`, `Deploy`,
`EnqueueJob`, of dying, and of losing writes. `NumArtifacts` is 2. Two decisions and two deployments are
what it takes to approve, release and release again or reject in between; two builds
what it takes for one handler to disturb another build; two crashes what it takes to
crash, recover a partial state, go on from it and crash again. Handlers of one build
touch no other build, so more builds add interleavings, not cases. None of
the bounds limits the proofs, which hold for every value.

`faults` is of managed builds, as edge builds and managed ones take the same steps up to
their last segment, and with both it is too long; `console` has both modes.

In `EdgeFleet` two starts of each of two agents are what it takes to die with a job
and to compete for the rest; one lost answer and one lost write are enough to repeat
a claim, and the bound `1 + lostWrites` is reached; one death in the midst of a write
leaves agents with jobs the server does not know. In `RunnerSupervisor` three runs may
all be under way at once within `MaxTime`; the delays keep the order of 250, 800 and
1800 ms. The clock may run to its end
before a timer fires, so that stalls of every length are among the behaviours.
In `EventStream` three events are one before, one
between and one after a fault, and one more than the panel holds; two crashes are one in
a write and one of what came back. In
`GeneratedModules` two builds are one to leave files behind and one to find them; of
the nine files the model has the three that differ: read back and the build's own, not
read back, and the same for all builds of the name. In `Console` two decisions are one
on the page and one by somebody else.

**Fairness.** `ControlApi`: `WF(Progress(b))`: what the create handler awaits are file
operations, which Node settles with a result or an error, after which the handler goes on
while the process runs. A restart is not fair: the development command keeps the
container alive when the process inside it dies. Nothing makes a client send a request.
`EdgeFleet`: `WF(Loop(h))`: every await of an agent ends with an answer, an error or its timer;
that an agent is started again is not assumed. `RunnerSupervisor`: the clock and
the timers of a running process, however late. `EventStream`: a source that is connecting
tries until it has an answer, delivers what arrived, and
notices that its peer is gone, as `EventSource` and TCP do; that the answer is the stream
is not assumed (`Connect` needs `Answered`, and `TurnedAway` may come first), no event has
to be made, and the control API need not come back. `GeneratedModules`: file operations settle, and the
handler that awaits them goes on. `Console`: a request is handled, refused or breaks; a page
that was asked for arrives; handlers go on as above.

## 4. What is proved

The proof modules are checked by TLAPS for every value of the constants that the
assumptions of the modules allow. They are weak: `StoreAssumption` and
`ControlApiAssumption` give the constants their types, `TornAssumption` and
`TornFileAssumption` say that a file
that does not parse is no snapshot, `FleetAssumption` asks for a finite number of hosts
and any queue, `StreamAssumption`, `GeneratedAssumption` and `ConsoleAssumption` type the
bounds and names of their modules, and `RunnerAssumption` asks that the three delays are
in their order. The two theorems that need more (`MaxCrashes = 0`) say so; none excludes
a torn file or a late event loop.

| Theorem | States |
|---|---|
| `TypeCorrect` | `Spec => []TypeOK` |
| `DeployedIsReleased` | `Spec => []DeployedHasRelease`, with any number of crashes, lost and torn writes |
| `ApprovedStands` | `Spec => []ApprovalStands` |
| `GateImplemented` | `Spec => ImplementsGate` when `MaxCrashes = 0` |
| `ReleasesArePaid` | `Spec => []ReleaseBudget`, with any number of crashes, lost and torn writes |
| `ClaimsStayInOrder` | `Spec => []ClaimsInOrder`, with any number of crashes, lost and torn writes |
| `JobsAdvance` | `Spec => JobsNeverRewind` when `MaxCrashes = 0` |
| `HistoryIsKept` | `Spec => HistorySurvives`: events, decisions and deployments are only added to, through crashes and restarts too, unless a write failed or a restart reads a torn file |
| `AuditLagIsBounded` | `Spec => []AuditLagsByCrashes`, with any number of crashes, lost and torn writes |
| `OfferedIsComplete` | `Spec => []OfferedBuildIsComplete`, with any number of crashes, lost and torn writes |
| `UnreviewedSettles` | `Spec => []UnreviewedOutcome` |
| `FleetTypeCorrect` | `Spec => []TypeOK` of the edge agents |
| `DoneWasRun` | `Spec => []SucceededRan` |
| `JobsAreHeldByClaimants` | `Spec => []HeldByClaimant`, through restarts from a torn file too |
| `RunsCostWrites` | `Spec => []RunsAreBounded`, with any number of torn files |
| `QueueImplemented` | `Spec => KeepsPromise`: the agents, the job endpoints and the file, torn or not, implement `JobQueue` |
| `FilesTypeCorrect` | `Spec => []TypeOK` of the generated files |
| `ChecksOwnFiles` | `Spec => []PolicySawOwnFiles`, with any number of builds, failed operations and crashes |
| `OffersStayWhole` | `Spec => []OfferedModuleIsWhole`, likewise; files in `left` are excepted in both |
| `StubsSurvive` | `Spec => []StubsSurviveCollisions` |
| `StreamTypeCorrect` | `Spec => []TypeOK` of the event stream |
| `ConnectionIsExact` | `Spec => []StreamIsExact`, with any number of crashes, lost writes, broken connections and new selections |
| `ForgottenIsBounded` | `Spec => []ForgottenEvents`, with any number of crashes, in a write too, and lost writes; it ends with the restart from a torn file |
| `ConsoleTypeCorrect` | `ConsoleSpec => []ConsoleTypeOK` |
| `ConfirmationsLast` | `ConsoleSpec => []ConfirmedIsKept`, with any number of crashes, torn files and lost answers |
| `FreshApproves` | `ConsoleSpec => FreshApproval`, with any number of reviewers, lost and torn writes too |
| `RunnerTypeCorrect` | `Spec => []TypeOK` of the runner supervisor |
| `RunsAdvance` | `Spec => LifecycleAdvances` of the runner supervisor, for any delays in order and any lateness |
| `StricterAsksNoLess` | under a stricter profile the same rules are found with the same criticality, each finding asks for approval if it did, and so does the build |
| `ElevationSilencesOneRule` | elevation takes the finding on upstream files away and no other |
| `SayingMoreAddsOnly`, `RiskFallsFromCriticalOnly`, `PromptElevates` | a longer prompt loses no module, class or elevation; elevation makes a critical request one of high risk; a word in the prompt silences the rule on upstream files |
| `AdditionsAreNoDrift`, `LostModulesShow` | drift is one-sided, and views that are gone never show |

The argument for the control API has three layers. (1) Lemmas say what each store method does to a store:
its type, and which parts it leaves alone (`StatusEdit`, `RecordEdit`, `EventAdd`,
`ApprovalAdd`, `DeploymentAdd`, `DeploymentEdit`, `EdgeJobEdits`). (2) Lemmas follow each trail call by
call. The create handler's trails are all *calm*: no record, no release, and a status
that is kept or one of the handler's own, so that four actions share one case. (3)
`NextKinds` reduces a step to a segment with one of five kinds of trail, a crash or a
restart, and `StepIn` turns "every store of every trail stays in S" into an invariant
of `store` and `disk` together. Both are needed: `DeployedHasRelease` of the store
alone is not inductive, since a restart replaces the store by the file.
`ApprovalStands` does not hold inside a review's trail, between the status and the
record; it is proved of the last store of each trail, while no crash has happened
(`WholeTrail`), and the invariant carries that the process is up until the first crash.
The refinement uses it as a step invariant: that the decision standing for an open
build is an approval is what allows the gate's `Release`.

The order of edge jobs is a property of every store of every trail (`TrailsFollow`): a call
leaves the list alone, adds a queued job at its end (`MoreJobs`), or moves one job
on, and the one a claim moves is the first that waits. A file that lags behind holds a
whole earlier list, which was in order too, so `ClaimsStayInOrder` needs no bound on
crashes; `JobsAdvance` does, since a restart may read that earlier list back.

`ReleasesArePaid` counts. The debt of a store is, for each build, what its releases and
its open approval exceed its approval records by. Each trail can raise the debt by
one on the way and gives it back by its end: an approval is open before it is recorded,
a release is made before the approval is used up. So the debt of the store in memory is
at most `crashes` after whole segments and at most one more inside, the death that
leaves an intermediate store raises `crashes` too, and the file may be one behind a
running process only. The invariant bounds both.

`AuditLagIsBounded` counts along with it, in the same invariant (`BudgetInv`): each trail
of a review or deployment records first and tells last, so one record is untold inside
the trail and none is at its end; whatever a dying segment leaves untold is paid for by
its crash. That the stream never tells of what has no record is the other half, and
needs the order to be that one.

`HistoryIsKept` rests on two facts. Every store of every trail *retells* the one before
the trail (`Retells`: the known builds stay known, events and approvals are extended at
their end, deployments keep build and environment). And while no write has failed the
file is the store, or torn while the process is down (`Current`), so that a restart
reads back what was last in memory, also in the middle of a trail.

`OfferedIsComplete` and `UnreviewedSettles` need what `flight` says of the record
(`Working`): a build whose handler awaits something has its plan and spec and is not
offered; it has no artifact while its handler is at the compiler and all of them while it
is at the file it reads. No other request takes that back, since a review and a
deployment change the status only. So the last segment of the handler, the only one that
offers, offers a complete build (`ManagedCourse`, `EdgeCourse` follow it call by call), and
where it leaves the build is where a request ends (`Settles`) until somebody decides on
it; while there has been no crash `Ends` says so of every build that is not in flight. A
review that overtakes the handler offers nothing: the status it gives is not
`awaiting_approval`.

The argument for the edge agents starts from one reduction: `NextKinds` shows that every
action is one of a few kinds of step (an agent carries a job on, drops it, runs it,
reports it or takes one; a late request is handled; the server restarts; something
elsewhere), each with what it does to `store` and `disk` (`RestartShape`, `RestartHas`: a restart brings
the file's jobs or none). Four invariants follow from
the kinds, each using the ones before: `Shape` (types, and an agent has a job exactly at
the steps `Holding`); `RanInv` (an agent about to report has run its job, also when the
report is late, and the file has no job as done that the store has not); `HeldInv`
(while no write has failed the file is the store; what agents have in hand is theirs,
`Owned`, and nothing late completes it or a job that waits, `Harmless`); `BoundInv`: the
agents that hold a job and have not run it, plus its runs, are at most its `claims`, these
are at most `1 + lostWrites`, and at most `lostWrites` while the store *or the file* has
the job as queued. The last part is what makes it inductive: a claim needs a queued job in
the store, a restart can only bring one back from the file, and the file has it only if
the claim's write failed; a torn file has none. `QueueImplemented` reads the guard of the
abstract `HandOut` off `BoundInv`, that of `Report` off `RanInv`; a restart is `Wipe` when
the file was torn and otherwise `Forget`, whose guard follows from `HeldInv`.
`IsFiniteSet(Hosts)` is there for the counts.

For the generated files the invariant speaks of a build that is *undisturbed*: no other
handler of its module's name met it, and once it is offered nobody has begun to write
since. While that is so no neighbour has a write that is not over (`Calm`) except to the
files in `left`: a neighbour gets one only by beginning to write, which `met` and `order`
record, and the writes of handlers that had ended when the request came are just those
that `left` names. Then every other file of the tree changes through the build's own
writes only (`Whole`), and what it reads back of them is its own (`SawOwn`). `Progress` ties the phases to
the writes: that `Promise.all` was fulfilled means that no write of an offered build is
left. `StubsSurvive` has an invariant of its own (`Faultless`): a shared file that is
empty is one that some build of the name still has open.

For the event stream, that the connection is subscribed only while it is open and the
process runs makes `StreamIsExact` inductive: an event that is made joins the events of
its build and the wire at once, the first on the wire moves to what arrived, and a
connection starts with the replay of all there is (`ConnectionIsExact`). `ForgottenIsBounded`
counts the events that were emitted and are not in the file (`Unfiled`): a write that
succeeds writes them all, a failed write or a death adds one at most, and a restart
forgets just these. A torn file counts as if it held what the store has (`Filed`): either
a later write that succeeds makes it so, or a restart meets it, and then the builds are
unknown and nothing is claimed (`LossInv` speaks of `known` stores).

The console's proofs stand on those of the control API: `ConsoleSteps` shows that every
step of the console is a step of the control API or leaves it alone, so its invariants
(`ApiInv`) hold here too. A step keeps what is confirmed (`KeptOn`, by `Retells` and
`Current`) or is the restart that finds the file torn and empties `confirmed`
(`ServerRevives`, `ConsoleRetells`), and what it newly confirms
is in the store it leaves: at the end of the list for a decision or deployment
(`ServedIsKept`), and in the map of builds for a create request, because a handler in
flight has its build known (`CreatedIsKnown`, by `Working`). `FreshApproves` needs an
invariant of each page (`Sound`): while it is fresh, no handler is at the build it shows
or waits for, and if it offers the approval, or waits for one, the build waits for a
reviewer. The steps that could break it are those of others on the same build; a decision
or a death ends freshness, a create handler is never at a build that is known and has no
handler (`CreateRests`), and a production release needs an approved build (`DeployRests`).

`RunsAdvance` needs to know that no timer that waits would take its run back
(`TimersAhead`): unless two timers of the run have been due at once, when the list of a
delay fires, no longer delay of the same run is due, so the earlier ones of a run fire
before the later ones. `overtaken` is set by the clock, not by the firing, so that it
excuses no order of lists that only a fault of the supervisor could bring about.

Every safety invariant and every action property that a passing run checks is stated
by a theorem. Only model-checked are the liveness properties, which are out of the
prover's reach: `BuildSettles`, `QueuedJobsMove`, `RunSettles`, `EventsArrive`,
`ModulesComeToRest`, `ConsoleSettles`. Two things are proved for less than the code does.
`GateImplemented` and `JobsAdvance` exclude crashes, and have to: a restart that reads an
older file takes a decision or a claim back. `ApprovalStands` and `UnreviewedOutcome` speak of
the time before the first crash for the same reason: the crash may leave the middle of a
trail.

## 5. Plan

Done: the modules of section 2, the runs of section 3, the theorems of section 4. Left:

1. The gate under crashes: a `ReleaseGate` that may lose the record of a decision at a
   crash, and the refinement of it without `MaxCrashes = 0`.
2. `HistorySurvives` as a theorem about every state since the start rather than about
   every step: the events of a build at a crash-free prefix of the run lead those of now.
3. A refinement of `EventStream` by `ControlApi`: its trails emit and write as
   `AddBuildEvent` does.

## 6. Not modelled

* **Log gateway.** Handlers over one list in memory, which nothing in the repository sends
  to or reads from. Its README and the architecture overview say that it streams the
  timeline; its websocket (`server.ts:64`) sends the frames that are there when it opens
  and from then on only heartbeats with the id of the latest, so that a consumer would have
  to fetch the replay again. The handler shows that without a model.
* **Drift route, connections, metadata, health.** The drift route reports "clean" without
  comparing anything; registrations, heartbeats and reports go to lists that no code
  reads back into a decision. The comparison itself is `OdooDrift`.
* **Odoo adapter's request and the bridge add-on.** One HTTP request and its answer, which
  nothing calls. The add-on's answer names its keys `xml_id` and `arch_hash`, the adapter
  reads `xmlId` and `archHash`; nothing in the repository brings the two together.
* **`buildRollbackPlan`, deployment log lines.** Records that nobody reads.
* **Spec schema.** It validates the spec that the planner itself writes.
* **Routes that only read, request validation, start-up and configuration.** They change
  no state; the policy profile is the constant `Profile`.
* **Text, ids and clocks.** The text of plans, specs, manifests and events; the sequence
  number `Date.now()` of an event, by which nothing is ordered.
* **SQL schema, prompt packs, templates, fixtures, infrastructure.** No code uses the
  schema; the rest is text and deployment.

Within the modelled parts: failure of the very first write of the snapshot file on a
machine that has none is not distinguished from success. A write that was completed
stays, though `writeFileSync` does not sync it: a power loss may take the last writes
with it, which is a crash after failed writes, and the properties count it as such. What
a death in the midst of a write leaves behind is taken not to parse; a file whose last
byte alone is missing does not either. `EventStream` knows the builds of the panel from
the start and forgets them all at once or not at all.
