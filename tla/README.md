# A specification of the approval-gated remediation agent

TLA+ modules for the agent in `src/`: a LangGraph workflow that diagnoses a
sandbox of mock services, proposes an action, has its risk classified, waits for
a human when the risk is not low, revalidates, acts, verifies, and rolls back and
replans on failure. Its state lives in a checkpoint saved after every node, so
that the process may be killed anywhere and another one take over.

Paths below are relative to the repository's root. `tlc` and `tlapm` are run in
this directory.

## 1. The system

### Components, their state and their operations

| Component | State | Operations | What makes it correct |
|---|---|---|---|
| Agent graph (`src/agent/nodes.py`, `graph.py`, `state.py`) | the `AgentState` of a run and its pending node, in LangGraph's checkpoint | 14 nodes, 6 routers, `start_workflow`, `resume_workflow` | nothing gated happens without consent to exactly it; every failure is undone; replans are bounded; a driven run ends |
| Execution, verification, compensation (`src/agent/execution.py`, `observations.py`) | none | `execute_action`, `verify_action`, `apply_compensation`, `gather_observations` | the compensation registered is one that can be applied, and twice is once |
| Mutating tools and the ledger (`src/tools/mutating.py`, `context.py`) | `executed_actions`: key to result and compensation | `_run_idempotent` around six tools | a key's side effect happens once; the ledger tells what happened |
| Read-only tools (`src/tools/readonly.py`) | none | the five reads of a sweep | - |
| Risk policy (`src/risk/policy.py`) | none | `situational_features`, `apply_policy` | destructive tools are high whatever the classifier says; a second action on a sole replica is not low |
| Classifier and reasoner (`src/risk/classifier.py`, `src/agent/diagnosis.py`) | none | language-model calls | nothing may depend on their being right |
| Revalidation (`src/revalidation/fingerprint.py`) | none | `relevant_fields`, `compute_fingerprint`, `validate_proposal` | equal fingerprints mean equal relevant fields |
| Audit (`src/audit/`) | an append-only log | `with_audit`, the stores, `replay_run`, `is_complete_chain` | the log alone replays the run |
| Durability (`src/durability/checkpointer.py`) | the Postgres checkpoint | a factory around LangGraph's saver | another process can take over from a thread id |
| API and registry (`src/api/`) | `runs`: the last known status of each run | `POST /runs`, `GET /runs/pending-approval`, `POST /runs/{id}/decision`, reads | the queue tells what is pending; every call is answered; an approval is for what its reviewer saw |
| Sandbox (`src/env/mock_service/`, `src/env/db/`) | metrics, replicas, configuration and release history of each service; the `records` table | the endpoints and the repository | (the environment) |
| Chaos harness (`src/chaos/`) | one trial | five trials: kill, relaunch, judge | a trial fails only if the agent is wrong |
| Evaluation (`src/eval/runner.py`, `metrics.py`) | one record per scenario | `run_scenario`, the metrics | the record says what happened |
| Evaluation suite (`src/eval/run_suite.py`) | result files, one line per scenario; the summary | launches, fresh or `--resume`; the modes; the summary | no line twice, none lost, the summary is of all of them |
| Scenario validation (`src/eval/scenario_validation.py`) | none | `validate_scenarios` | a valid scenario runs, and is scored as it was meant |
| Load test (`src/eval/load_test.py`) | N runs, a semaphore, one ledger and one sandbox | suspend all, approve all in a burst | all are held at once, none disturbs another, it ends |
| Frontend, runtime context | - | - | not modelled, section 8 |

### How they interact

A request of the API, the harness or the chaos harness calls `start_workflow` or
`resume_workflow`, which drives the graph until `interrupt()` or the end. A node
calls the reasoner, the classifier and the tools; the tools call the services and
the ledger. `with_audit` wraps every node and writes its record after the node
returned and before LangGraph saves the checkpoint. The registry is written by the
API after the call to the graph has come back. So one transition is up to four
writes to four places, in this order: the sandbox, the ledger, the audit log, the
checkpoint; and then, much later, the registry.

### What is hard

* **Kills** between any two of those writes. The checkpoint is behind all the
  others, so the node runs again on a world it has already changed.
* **Time**: the world changes while a run waits for its reviewer, and between the
  sweep that revalidates and the action.
* **Old state**: LangGraph merges updates, so a field of an earlier cycle stays
  until a node overwrites it; a run that is started over keeps all of them. A
  replan after a failure proposes from the first sweep.
* **Requests** are not serialized: two may drive one thread at once.
* **Refusals**: the environment may refuse an action, or its compensation, every
  time it is tried.
* **Loops**: five ways lead to `replan`.
* **Sharing**: the runs of the load test restart one service under one another,
  between the proposal and the revalidation of each.
* **Resuming a suite**: the lines of an earlier launch, of other scenarios or other
  modes, are taken over by the next.

`PROJECT.json` lists the hazards at their lines, with the properties that would
catch each.

## 2. The modules

```
Sandbox -- RiskPolicy --+
   |                    +-- AgentGraph -- AgentGraphProperties -- AgentGraphInvariants
   +------ Fingerprint -+      |            |          |              |
   |          |                |            |    RunLifecycle   MC_AgentGraph
   |          |                |            +-- ScenarioRun -- ScenarioRunInvariants, MC_ScenarioRun
   |          |                +-- ChaosTrial --- MC_ChaosTrial
   |          +-- LoadTest ------------ MC_LoadTest
   |          +-- ScenarioValidation -- MC_ScenarioValidation
ApprovalApi   (its run is an abstraction of AgentGraph's)
SuiteRun -- MC_SuiteRun   (its scenario is an abstraction of ScenarioRun's record)

Sandbox_proofs -- AgentGraph_proofs -- Lifecycle_proofs -- ScenarioRun_proofs
   +-- LoadTest_proofs
   +-- ScenarioValidation_proofs       ApprovalApi_proofs      SuiteRun_proofs
```

**Sandbox** is the environment as data: `World` (the services and the rows), what
one sweep sees of it, each endpoint as a function on one service's state, each
tool's effect (`Perform`), its refusals (`PerformRaises`, `ArgumentMissing`), the
compensation it registers and what applying that does. **RiskPolicy** and
**Fingerprint** are the two pure files they are named after; a hash is modelled by
what it hashes.

**AgentGraph** is one run. Each node of `nodes.py` is an action of its name, with
the whole body of the node. A node passes through phases (`pc`): `enter`, `ran`
(its update is in memory), `logged` (its audit record is written), and the
checkpoint; `execute` has `perform` and `record` around the real side effect, or a
replay of the ledger, which on the store of Postgres raises (`ReplayRaises`); the
constant `DURABLE_LEDGER` says which store it is. The
variables are `next` and `st` (the checkpoint), `pc`, `upd`, `decision` (the
process), `world`, `ledger`, `audit`, and history variables, which no guard reads
apart from the bounds. `Start` and `Resume` are the two ways to begin an
invocation, `Crash` (a kill, or a call that is cancelled) loses `pc` and `upd` and
nothing else, `Drift` is the world changing by itself at any moment. `Abandon` is what
an exception, an interrupt and a kill have in common: the invocation is over and its node stays pending.

**RunLifecycle** is the abstract specification: the states of the README's diagram
with the branch each one leaves by, a count of replans, and nothing about nodes,
phases, processes or kills. `FollowsLifecycle` in **AgentGraphProperties** is
`AgentGraph` implementing it, with a refinement mapping that reads the status and
the field its router reads from the checkpoint. The abstract edge
`ACTION_PROPOSED -> REPLANNING` is in the code and not in the diagram.

**AgentGraphProperties** states what one run promises, **AgentGraphInvariants** the
inductive strengthening the proofs use.

**ScenarioRun** composes `AgentGraph` with `run_scenario`: it starts the run, makes
the scenario's changes at the first suspension, approves every suspension, and
reports; a change the services refuse ends it without a report, as an exception in
the graph does. It counts the calls of the model and keeps the last classification, as the
harness's wrappers and the state do. It keeps the whole audit log, where `AgentGraph` keeps the fold
`is_complete_chain` computes. The metrics are predicates on one record; a published
rate is their average. **ScenarioRunInvariants** is the inductive strengthening of
its properties.

**ChaosTrial** composes `AgentGraph` with the chaos harness. Each of the five trials
is a record of what its function does (where it kills, under which tier, how it
relaunches, what it expects); the scripted reasoner and classifier restrict the two
nondeterministic nodes.

**ApprovalApi** has several requests over one run, each with its own copy of the
checkpoint between a load and its saves. The nodes are coarse there: those between
two accesses to something shared are one step. It is not composed with `AgentGraph`,
whose state would multiply with every request; the ledger and the pending stage are
what the two have in common. Its store is Postgres's, as in `create_production_app`.

**SuiteRun** is `run_suite` and its files. A file is a count of lines for each
scenario. A launch takes any of the command lines in `Launches`; it may stop
anywhere, which is a kill or a scenario that raised. A scenario leaves nothing
between its run and its line.

**ScenarioValidation** has the validator as one predicate, what `run_scenario` then
does to a fresh sandbox with the scenario, and the two metrics that need its lists
of actions. Nothing calls the validator before a suite but a test, so the module runs
valid and invalid suites alike. The agent in it proposes one action, is approved and
executes it if it is grounded.

**LoadTest** is N runs over the real `Sandbox`, with the fingerprints of
`Fingerprint`: acquire a slot, sweep and propose, suspend and release; after the
barrier acquire again, revalidate, look the key up, restart, record, verify. These
are the accesses to what the runs share. One that would replan ends in a phase of
its own, which `StateIntact` denies. No process is killed in a load test.

### Abstractions

* Percentages are three levels (baseline, raised, over a threshold), and one field
  `load` stands for the worst of memory, CPU, error rate and forced-down, which every
  tool sets and clears together. "degraded" and "unhealthy" are one level. A fault sets
  that level; one on a metric that is not the worst changes no level and is no step.
* The reasoner may propose anything of a menu and the classifier any tier, always.
* The `initial_state` of `start_workflow` sets no field: no caller passes one that does.
* Which runs of a suite report drift is a constant of `SuiteRun` (`Drifted`): any
  staleness scenarios in modes that revalidate, since one that never suspends has
  nothing changed. The runs take all of them.
* One sweep is one step. So is the deletion of a list of rows. An external call
  that fails after it took effect is `Crash` at that phase.
* In `AgentGraph` there is one run, so its part of the idempotency key is left out:
  the key is the action. `Action` is `tool:target`, and parameters travel beside it, as in the code.
* The audit log is folded to the last status and a flag in `AgentGraph`, and kept
  in full, three columns of it, in `ScenarioRun`.
* `AgentGraph` has one process at a time; `ApprovalApi` has several.
* `drift_detected` is FALSE where the code has None; nothing tells them apart.
* LangGraph itself (saving a checkpoint, merging an update, `interrupt`, starting
  over a thread that exists) is external, modelled from how the code and its tests
  use it. Its recursion limit is left out.

## 3. The runs

| Run | Module | Question | Answer |
|---|---|---|---|
| `gate` | AgentGraph | Can a gated action happen without consent to exactly it, or over fields that changed unseen? Is COMPLETED true? Does the run follow the lifecycle, and replan for the reason it gives? Does a process stop? | holds: `TypeOK`, `CompletedMeansDone`, `HumanGate`, `NoUnseenDrift`, `FollowsLifecycle`, `ReasonIsOfThisCycle`, `DrivesAreBounded` |
| `ledger` | AgentGraph | What can two kills and a restart break in the ledger, the rollback, the budget, the log? Does a run that fails give back what it changed? Does one that is kept being resumed end? | holds: `DuplicateOnlyIfTorn`, `LedgerIsTrue`, `EveryFailureUndone`, `ReplanBudget`, `GapOnlyIfTorn`, `OnlySuccessLeavesATrace`, `DrivenRunsEnd` (refused nodes apart) |
| `report` | ScenarioRun | Does the harness's record say what happened, what it cost, and of which tool its tier is? Does its loop end? | holds: `ReportIsTrue`, `GateIsCompliant`, `DriftIsReported`, `NothingExecutedBlindly`, `LogReplays`, `TierIsOfItsTool`, `CostIsLogged`, `ScenariosEnd` |
| `requests` | ApprovalApi | What can three concurrent requests and a kill break? | holds: `ApiTypeOK`, `DuplicateOnlyIfRacedOrTorn`, `QueueIsTrue`, `EveryCallReplies` |
| `resumed` | SuiteRun | What do the files and the summary say after launches that overlap and were stopped anywhere? Does a resumed suite end? | holds: `NoScenarioTwice`, `MirrorLacksOnlyTorn`, `ResumeLosesNothing`, `SummaryIsOfTheFiles`, `PatientSuiteEnds` |
| `burst` | LoadTest | Do runs that share a sandbox and a ledger disturb one another? Are all held at once behind a smaller semaphore? | holds: `LoadTypeOK`, `StateIntact`, `OneRestartEach`, `AllHeldAtOnce`, `LoadTestEnds` |
| `valid` | ScenarioValidation | Does a suite the validator accepts run, and is it scored as it was meant? | holds: `ValidScenariosRun`, `PerfectRunScores`, `JudgedByItsScenario` |
| `floor` | AgentGraph | Is a second action on a sole replica never low? | violated |
| `later_attempt` | AgentGraph | Does a later attempt at an action act? | violated |
| `shown` | ApprovalApi | Is what is approved what was shown? | violated |
| `trials` | ChaosTrial | Do the chaos harness's five trials pass? | violated |
| `false_drift` | SuiteRun | Is what is counted as false drift false? | violated |

### What the violations show

Each is a statement of a document, a comment or a test, quoted under "findings" in
`PROJECT.json`, that a behaviour of the code contradicts.

* `floor`: after a rollback the run replans into `propose_action`, and the floor
  reads the sweep made before the first action, where `restart_count` is still 0.
* `later_attempt`: an action proposed again after it was rolled back has the key
  it had, is answered out of the ledger, and does nothing. This is the in-memory store;
  on Postgres the answer raises, and nothing is done either.
* `shown`: a decision names a run and not a proposal. The run may propose something
  else between the reviewer's look at the queue and the click.
* `trials`: two of the five trials kill the run after it has restarted the service,
  start it over "low" and expect it to complete. The sweep of the second process
  shows one restart on a sole replica, the floor makes it medium, and the run
  suspends. The test that would show this is skipped without Postgres.
* `false_drift`: a suite resumed with fewer `--scenarios` counts the records it took
  over with the list it was given; a staleness scenario missing from that list has
  no category, and the drift found in it counts as false.

Several properties that hold state the exception to what a document says as narrowly
as it can be: `DuplicateOnlyIfTorn` (README.md:3, "exactly once even if the process is
killed mid-action": `_run_idempotent` acts and then records), `GapOnlyIfTorn`
(README.md:173: the audit record precedes the checkpoint), `Refused` in
`DrivenRunsEnd` (a configuration key that had no value has a compensation the service
refuses for ever; a durable ledger that is asked for what it holds refuses for ever, which
takes a kill or a second attempt at the action), `Undisturbed` in `OnlySuccessLeavesATrace`, `ReasonIsOfThisCycle`, `MirrorLacksOnlyTorn`, `TierIsOfItsTool` and
`ValidScenariosRun`. Section 7 has the rest.

### Bounds, and why they are enough

* `AgentGraph` has one service, with a disk, one kind of rows, one row, one
  configuration key (two in `ledger`), two releases; `trials` has two services. The
  tools act on one target at a time and no property relates two services. The
  services of `floor` have one replica, as in the suite.
* Each run has the proposals its question needs. In `gate`: a restart, a deletion and
  an ungrounded proposal, with edits into a rollback and into an unknown tool, so
  that there is an action of each tier, one forced high, one that raises. In `ledger`:
  a rollback of the release, which the service refuses when one is left, and two
  changes of configuration, which share their idempotency key: one can be undone,
  the other is of a key without a value, whose compensation is refused; the edits
  inherit parameters that do not fit. In `report`: the tools the suite uses, and an
  ungrounded proposal; the changes are those of `data/scenarios.json` and one list
  that rolls back more often than there are releases.
* `MAX_REPLAN_CYCLES` = 2 lets one attempt follow another. It is 3, the code's value,
  in `report`, `floor` and `later_attempt`, and any number in the proofs.
* `MaxCrashes` (1 or 2), `MaxDrifts` (1), `MaxStarts` (1 or 2), `MaxKills` (1) bound
  the only unbounded counters. Two kills are needed for a kill in the rerun of a
  killed node, two starts for a run that is started over.
* `DURABLE_LEDGER` is TRUE in `ledger`, `floor` and `trials`, the deployment with
  Postgres, and FALSE in `gate`, `report` and `later_attempt`: the tests and the harness
  have the in-memory store. That store does not outlive its process, so `Crash` in
  `gate` is a call that is cancelled, or whose answer is lost, in a process that lives
  on; in `ledger` and `trials` it is a kill. The proofs are for both.
* `ApprovalApi` has three requests: with two decisions racing, one must have created
  the run.
* `SuiteRun` has two scenarios, one of staleness, and two modes, of which only "full"
  has a mirror; the command lines are the whole suite and one scenario of one mode,
  fresh and resumed, so that selections overlap and differ. `MaxTorn` = 1.
* `LoadTest` has four runs and a semaphore of two: two runs wait, two do not, in both
  halves. One service, since all runs act on the same.
* `ScenarioValidation` has suites of two scenarios, one over the faults and the lists
  of changes and one over the lists of actions, with each kind of mistake; lists of
  changes are up to three long, one more than there are releases.

All instances are explored completely; none uses symmetry or a state constraint.
`CHECK_DEADLOCK FALSE` is set where the system really stops: a run that has ended,
requests that have all been answered, a finished scenario, trial or load test. A
suite can always be launched again: `resumed` checks deadlock.

## 4. Fairness

* `WF(Process)` in `FairSpec`: the event loop keeps running a node in flight. It is
  weak and on all the nodes together, since one node runs at a time. A node that
  hangs in an HTTP call for ever is excluded: httpx has a default timeout, and a
  timeout is an exception, that is `Abandon`.
* `WF(Resume)` in `DrivenSpec`: somebody keeps resuming a run that has not ended.
  Nothing in the repository does that by itself; `DrivenRunsEnd` is a statement
  about runs that have such a caller, and nothing is assumed about what they decide.
* `WF(Serve(r))` in `ApprovalApi`: each server runs the request it has accepted.
* `WF(work)` and `WF(launch /\ summary = NoVal)` in `SuiteRun`: the process runs while
  it is there, and somebody launches a suite that has no summary. Nothing is assumed
  about where it stops; `PatientSuiteEnds` is about the behaviours in which, from
  some launch on, the command line stays the same, has `--resume`, and each launch
  completes a line before it stops. Without the last, a scenario that raises every
  time is the first to run every time, and the suite never ends.
* `WF(LoadNext)` in `LoadTest`: one event loop runs every coroutine that can run.
  That is weaker than fairness for each run: nothing says which one goes on.
* No fairness on `Start`, `Crash`, `Drift`, `stop` or the arrival of requests.

`DrivenRunsEnd` makes an exception of `Refused`: the pending node is one the
environment, the arguments an edited action has inherited, or the row of a durable
ledger refuse every time.

## 5. What is proved

The theorems hold for every value of the constants: any services, rows, releases,
proposals and edits, any number of kills, changes and restarts, any replan cap; any
number of requests, of scenarios and modes, of runs under load and of slots; any
suite of scenarios, and any changes made while one of them waits. Every invariant and
every action property of a passing run is stated by one of them.

| Theorem | States | Module |
|---|---|---|
| `RunStaysTyped`, `TypeCorrect` | `[]TypeInv`, `[]TypeOK` | AgentGraph_proofs |
| `NoActionWithoutConsent` | `HumanGate` | AgentGraph_proofs |
| `NoActionOnUnseenDrift` | `NoUnseenDrift`, given `REVALIDATE` | AgentGraph_proofs |
| `DuplicatesNeedATear` | `[]DuplicateOnlyIfTorn` | Lifecycle_proofs |
| `LedgerTellsTheTruth` | `[]LedgerIsTrue` | Lifecycle_proofs |
| `ReplansAreBounded` | `[]ReplanBudget` | Lifecycle_proofs |
| `GapsNeedATear` | `[]GapOnlyIfTorn` | Lifecycle_proofs |
| `RunsFollowTheirLife` | `FollowsLifecycle`: `AgentGraph` implements `RunLifecycle` | Lifecycle_proofs |
| `ReasonsAreOfTheirCycle` | `ReasonIsOfThisCycle` | Lifecycle_proofs |
| `FailuresAreUndone` | `[]EveryFailureUndone` | Lifecycle_proofs |
| `CompletedRunsActed` | `[]CompletedMeansDone` | Lifecycle_proofs |
| `FailedRunsLeaveNoTrace` | `[]OnlySuccessLeavesATrace` | Lifecycle_proofs |
| `ADriveIsBounded` | `DrivesAreBounded` | Lifecycle_proofs |
| `CompensationIdempotent` | applying a compensation twice is applying it once | Sandbox_proofs |
| `CompensationRestores` | a compensation gives back what its tool changed | Sandbox_proofs |
| `ApiTypes` | `[]ApiTypeOK` | ApprovalApi_proofs |
| `DuplicatesAreExcused` | `[]DuplicateOnlyIfRacedOrTorn` | ApprovalApi_proofs |
| `TheQueueIsTrue` | `[]QueueIsTrue` | ApprovalApi_proofs |
| `ScenariosOnce` | `[]NoScenarioTwice` | SuiteRun_proofs |
| `MirrorOnlyLosesTorn` | `[]MirrorLacksOnlyTorn` | SuiteRun_proofs |
| `ResumeKeepsLines` | `ResumeLosesNothing` | SuiteRun_proofs |
| `SummaryCountsFiles` | `SummaryIsOfTheFiles` | SuiteRun_proofs |
| `LoadTestIsIntact` | `[]StateIntact` | LoadTest_proofs |
| `RestartsAreCounted` | `[]OneRestartEach` | LoadTest_proofs |
| `AllAreHeldAtOnce` | `[]AllHeldAtOnce` | LoadTest_proofs |
| `LoadTypes` | `[]LoadTypeOK` | LoadTest_proofs |
| `ReportsAreTrue` | `[]ReportIsTrue` | ScenarioRun_proofs |
| `GateComplianceIsFull` | `[]GateIsCompliant` | ScenarioRun_proofs |
| `DriftVerdictIsOfTheLog` | `[]DriftIsReported` | ScenarioRun_proofs |
| `NoChangeIsOverlooked` | `[]NothingExecutedBlindly` | ScenarioRun_proofs |
| `LogsReplay` | `[]LogReplays` | ScenarioRun_proofs |
| `TiersAreOfTheirTool` | `[]TierIsOfItsTool` | ScenarioRun_proofs |
| `CostsAreLogged` | `[]CostIsLogged` | ScenarioRun_proofs |
| `ScenariosTerminate` | `ScenariosEnd` | ScenarioRun_proofs |
| `ValidationIsEnough` | `[]ValidScenariosRun` | ScenarioValidation_proofs |
| `RecordsAreJudgedByTheirScenario` | `[]JudgedByItsScenario` | ScenarioValidation_proofs |
| `CorrectActionsScore` | `[]PerfectRunScores` | ScenarioValidation_proofs |

They rest on the assumptions `SandboxAssumption`, `AgentGraphAssumption` and
`NoneAssumption`, which say of the constants what the code does: a row has a kind,
services and kinds have different names, a service was deployed at least once,
`None` is none of the values it stands in for; on `ScenarioAssumption` (`None` is no
decision, no classification and no tier; a scenario has a list of changes) and `SuitesAssumption` (a suite, and the
changes of a scenario, are lists); and on `ApprovalApiAssumption`, `SuiteAssumption` and `LoadTestAssumption`, which give the constants of those modules
their types: finitely many runs, at least one slot, a restart proposed of a known
service, and "full" among the modes. TLC evaluates each in the runs of its module.

The argument, in the order of the modules:

1. *Sandbox_proofs*: every endpoint, tool, compensation and sweep stays within its
   type; a proposal that `validate_proposal` accepts can be fingerprinted;
   `apply_policy` returns a tier. A compensation applied to what its tool left gives
   back the *configuration* of the sandbox, the rows and each service's replicas,
   settings and release. The load, the restart counters and the releases before the
   current one are not in it: no compensation is asked to give those back.
2. *AgentGraph_proofs*: `TypeOK` is not inductive, because a node reads fields that
   earlier nodes wrote. `TypeInv` adds `Ready(n, s)`: what node `n` reads of `s` is
   there. It must hold of the checkpoint, and of the state in flight for the node
   the router will pick, since the update is not committed yet. There is one lemma
   for each action, and `Checkpoint` turns the second half into the first.
   `GateInv` follows the consent. Under review the
   fingerprint is that of the snapshot the proposal was made from (`Anchored`); past
   review a gated action is the one consented to (`Cleared`); past revalidation the
   fields consented to are those of the fresh sweep (`Swept`). The side effect
   happens only at `perform`, where `Cleared` and `Swept` apply. `HumanGate` is
   proved for both values of `REVALIDATE`, so the `no_revalidation` ablation keeps
   the gate.
3. *Lifecycle_proofs*: `LedgerInv` counts each side effect under its ledger row,
   under the call that is about to be recorded, or under a kill. `BudgetInv` says
   that only a run about to escalate, or over, has used its budget up. `ChainInv`
   relates the last record to the status the next one will start from.

   `Ran(n, s, u)` says which fields node `n` may have changed
   when its update `u` is in flight, and `Placed(n, s)` at which status a node can be
   pending at all. Under both, a checkpoint is one edge of `RunLifecycle`, every other
   step is an answer or a stutter, and a start is a new life. The reason of a replan,
   the count of compensations and the meaning of COMPLETED follow at the same place.

   `TraceInv` says where the configuration the run found is: untouched, or one
   compensation away (`GivesBack`). The compensation is the one about to be recorded,
   then the ledger's, then the checkpoint's; `CompensationRestores` begins the chain
   and `CompensationIdempotent` lets a killed rollback run again. What the ledger holds
   asks for what the run found (`AsksFor`), so that a later attempt which is answered
   from it and undone once more leaves that alone.

   `DrivesAreBounded` is a measure, `StepsLeft`: replans left, then nodes left in the
   cycle, then phases left of the node. Every edge of the graph leads to a node
   with fewer left but the one out of `replan`, and that one pays from the budget,
   which `BudgetInv` keeps from going below zero.
4. *ScenarioRun_proofs*: every step of `ScenarioNext` is a step of `AgentGraph` or
   leaves its variables alone, but for `_apply_staleness_change`, which changes the
   sandbox as a `Drift` may (`ChangeKeepsAgent`); so the invariants above hold
   here, and the theorems build on them. The log is followed from record to
   record: `Logged` is the state as of the last record and `Ahead` the node that runs
   next. A node's body, a checkpoint and the harness change neither (`LogView`), which
   leaves `WriteAudit` as the one step to look at for most parts. Three parts are of a
   node's body as well: `ExecutedInv`, where an action has happened and its VERIFYING
   record is still to come; `CostInv`, where a call of the model was made and its
   record is still to come; `BlindInv`, which says that a change made while the run
   waited is in the log, in the state, or `Overdue`: the revalidation that will find
   it has not run. `DriftInv` says when the harness has `Collected` what it found,
   before a later revalidation overwrites it. For `ScenariosEnd` the measure of the run
   gets a share for each answer still owed to a suspension (`RunLeft`), and the harness
   one of its own for when the run stands still (`HarnessLeft`).
5. *ScenarioValidation_proofs*: the changes still to be applied are the rest of the
   scenario's list (`ChangingInv`), and a service has as many releases left as it had
   less those `RolledBack` (`ReleasesInv`), a count over the list that each applied
   change extends by one (`RolledBackGrows`). A change of a valid scenario is then
   refused only for want of a release. A valid suite has one scenario for each id, so
   a record leads back to the scenario it was run for, whose two lists of actions are
   disjoint.
6. *ApprovalApi_proofs*: `PaidInv` pays for each application of an action: by its
   ledger row, by the request that is about to record it, by a kill, or by a race.
   `CleanInv` says that while requests come one at a time, the one in flight has the
   newest checkpoint, and between them the registry tells it; `QueueIsTrue` alone says
   nothing of the middle of a request and so is not inductive.
7. *SuiteRun_proofs*: what a mode has in memory is what its file says, but for the
   line being written; what is left to run has no line; and the mirror is the file
   less what was torn, but while the two are being opened or written.
8. *LoadTest_proofs*: the slots taken are the runs in flight, the restarts of the
   service are the runs past their tool call. The sandbox is then a fresh one but for
   its restart counter, which no fingerprint has in it.

Each invariant was model-checked on the instances of section 3 before it was proved.

## 6. What is only model-checked

Liveness (`DrivenRunsEnd`, `EveryCallReplies`, `PatientSuiteEnds`, `LoadTestEnds`) is
out of the prover's reach; everything else the passing runs check is proved as well.
Of `DrivenRunsEnd` the half that does not need fairness is proved: a process that
keeps running stops after a bounded number of steps (`DrivesAreBounded`), and so does
the harness's loop (`ScenariosEnd`); what TLC adds is that each step is taken and that
each resumption makes progress.
What folds over data was stated without a fold where it had to be proved: the releases
a list of changes takes are a count of positions (`RolledBack`), and what a log
says is a set of its records.

Every property of a passing run has a mutant in `PROJECT.json`: a change of one
definition, such as a bug in that code would be, under which TLC finds it violated.
The mutants stand before the definition they replace and nothing else uses them.

## 7. What the properties leave open

Things seen while modelling, that no violation run is about:

* A kill in ROLLING_BACK applies the compensation twice. By `CompensationIdempotent`
  this is harmless unless the world changed in between.
* A tool killed between its side effect and its ledger row acts again when the node is
  rerun, and then takes its own work for the state to be given back: a deletion finds
  no rows the second time and reinserts none. A run that is started over while at
  VERIFYING drops a change that nobody has verified. These are the exceptions in
  `OnlySuccessLeavesATrace`.
* `approval_decision` survives in the state: a low-risk action that fails after an
  earlier rejection gives the reasoner the rejection as its reason, where
  diagnosis.py:60 promises why the prior action did not stick. `ReasonIsOfThisCycle`
  has this as its one exception.
* On Postgres a key that has a row cannot be asked for again. `PostgresExecutedActionsStore.get`
  (context.py:46) returns the JSONB columns `result` and `compensation` as the text they
  were recorded as, and `_run_idempotent` hands them to `MutationResult`, which takes
  mappings only: `execute` raises. So a run killed between its ledger row and its
  checkpoint, or one that attempts an action again after its rollback, raises on every
  resume and never ends, where mutating.py:6 promises the original result.
  tests/test_postgres_tools.py:29 asserts the mapping, but is skipped without Postgres;
  every other test replays from the in-memory store. The safety properties hold of such
  a run: nothing is done twice. `Refused` has it as an exception to `DrivenRunsEnd`.
* A run killed between `revalidate` and `execute` is resumed past the revalidation;
  `NoUnseenDrift` asks for a sweep since the consent, not since the kill.
* A replan after a failure fingerprints its proposal against the first sweep, so
  that a later revalidation may report as drift what the run's own first action did.
* `situational_features` takes the service's `restart_count` for that of this run
  (classifier.py:25); no run resets it, so that a run's first action may be raised
  for what was done before it.
* The registry's upserts are not ordered: of two requests that overlap, the slower one
  has the last word, whatever the thread says.
* A COMPLETED may stand on an effect that was rolled back, after a later attempt that
  was answered from the ledger (`later_attempt`); `CompletedMeansDone` only asks that the
  action was performed.
* A kill between the checkpoint of an approval and the registry's row leaves the run
  listed as awaiting approval; a rejection that comes then is taken as the resume of
  a run that is past its review. `QueueIsTrue` is about requests none of which was lost.
* `trial_mid_executing` is meant to exercise the ledger's replay; as it stands the
  second process never reaches it. If it did, it would raise, as above.
* A run whose last proposal was ungrounded is filed under a tool it was not
  classified for, the exception in `TierIsOfItsTool` to metrics.py:128; and what the
  floor raises is counted by both override rates, which metrics.py:152 calls separate.
* The validator does not expand `tool:*` when it asks that no correct action is
  forbidden, and lets a correct action name a target the agent refuses (`clear_cache`
  where there is no disk, a wildcard). `PerfectRunScores` has the first as its
  exception.

## 8. What is not modelled, and why

* The text of prompts, rationales and logs; the retries inside one model call
  (they change no state).
* The stand-in reasoners and classifiers of `runner.py`: heuristics over the text of
  observations. Every model lets the reasoner and the classifier answer anything of a
  menu; only the load test's and the chaos harness's scripts are modelled.
* `src/agent/diagnosis.py` and `src/risk/classifier.py`: prompts and the parsing of a
  model's answer.
* Measurements: latencies, percentiles, the idle ratio, memory and connections of the
  load test; the precision and recall of tiers.
* A line of a result file that is written in part.
* Required keys of a scenario: the model's records have them all.
* `db/reset.py`: a test utility.
* `GET /runs/{id}` and `GET /runs/{id}/audit`: they read and change nothing.
* The frontend, which keeps nothing beyond its last poll.
* Subprocesses, ports and timeouts of the chaos harness: the kill is taken to land
  inside the window `mark()` opens for it.

## 9. Plan

What could be added, in the order of what matters most:

1. `ApprovalApi`: two runs in the queue; an abstract queue it implements; `AgentGraph`
   as the implementation of its coarse run.
2. `ChaosTrial`: the kill anywhere in the window `mark()` opens, and a statement that
   holds of the three trials that do pass.
3. `LoadTest` with runs that are killed and resumed by the burst.
4. `SuiteRun` with lines that are torn in the middle, which `json.loads` refuses.
