# A TLA+ verification project for GPUOpt

GPUOpt (`src/src/gpuopt`, about 50 000 lines of Python: a FastAPI application, a
Kubernetes operator and some background threads) watches GPU clusters,
recommends changes, and, behind approvals and gates, carries them out. Most of
its code is arithmetic on a snapshot. This project is about the rest: the code
that keeps state between requests, does so from several threads, and may be
stopped half-way.

Paths below are relative to the repository; `gpuopt/` is short for
`src/gpuopt/`.

## 1. How the program runs

* **Request threads.** Nearly every endpoint is a plain `def`, so the server
  runs it in a thread pool: two requests may be anywhere in the same service
  method at once. Only the watch cache, its streams and the workload agent are
  `async` code, and run one after the other on the event loop.
* **Background threads.** The operator's loop, the healing monitor, the GPU and
  DCGM pollers, the telemetry streamer, the autoscaler and the preemption engine,
  when a request starts them. All are daemons with a flag, and a `join` with a
  timeout. The stale checker of the agent registry has the same form; nothing in
  the shipped application starts it.
* **The database.** `SqlClusterRepository` opens a connection per call and
  commits it before returning. There are no transactions across calls, no
  version columns and no locks: a service that reads, decides and saves has
  other threads between the three.
* **The Kubernetes API.** The operator reads lists and patches status by name.

Failures the code handles: an API call that raises (logged, and treated as an
empty list or ignored), a save that raises (an HTTP 500, or a record "failed";
what the request did in memory stays), a process that dies and starts with empty
memory.

## 2. Inventory

The operations are the ones that change state. PROJECT.json has the same list
with source files, and says for each part whether it is modelled.

| component | state it keeps | operations | interacts with | what is hard | correct when |
|---|---|---|---|---|---|
| **Kubernetes operator** (`k8s_operator/`) | object phases and profile generations in the API server; `_running`, `_thread` in memory | start, stop, reconcile_once, a pass over actions, a pass over profiles, execute | API server, `ActionAdapter`, users of `kubectl`, REST routes | a pass works from an old list; patches carry no precondition and their failure is ignored; `stop()` gives up on its thread; crash between execution and its record | nothing with an outcome is executed again; outcomes are final and earned; everything gets settled; `stop` stops |
| **Approval workflow** (`guarded_automation.py`) | `approvals` rows | create, approve, reject | repository, API | read, decide and save in separate transactions | unanimity; own steps only; never stuck; a decision is final |
| **Actuation and digital twin** (`actuation.py`, `digital_twin.py`) | `twins`, `actuations` rows | actuate (live, dry), rollback, sync, reset, apply | repository, s23 drift alerts | two writes per request, either may fail; overlapping read-modify-writes | what was reported is in the twin; sync discards; every change has a record; rollback undoes |
| **Cluster repository** (`repository.py`) | all tables | save/get of each, `delete_cluster`, recommendation status | everything | deletion against in-flight saves; a status update rewrites the whole set | no orphan rows; no lost status |
| **Watch cache and streaming** (`watch_stream.py`, `streaming.py`) | versions per key, websocket clients | set, delete, get_changes_since, resync, subscribe, broadcast | browser clients | versions are discarded; the source is read row by row while others write | a follower has what it has passed; a quiet resync is exact; nothing goes back |
| **Agent registry, workload agent** (`agent_protocol.py`, `workload_agent.py`) | agents, events, assignments | register, heartbeat, stale check, decommission, assign, complete | stale-checker thread | late heartbeats against the stale check and status requests | the event log tells the status; a silent agent is noticed |
| **Alerts, notifications** (`s23_features.py`, `s24_*.py`) | rules, alerts | evaluate, acknowledge, resolve | remediation, twin | no lock between looking and raising; status is not looked at before it is changed | a failing rule has a bounded number of firing alerts; every alert is told |
| **Remediation, healing** (`remediation.py`, `healing/`) | cooldowns, history, breaker | evaluate, run actions, monitor loop | actuation | the cooldown is set after the actions; the engine is made at first use | runs per cooldown bounded by the requests in flight; every actuation has a run |
| **Periodic engines** (`autoscaler.py`, `preemption.py`, DCGM) | `_running`, history | start, stop, cycle | cluster state | the same start/stop protocol as the operator's with other time-outs | one loop at a time, but for named exceptions; a stop takes effect |
| **Scheduler, fairness, federation** | placements, quotas | schedule, place | | `free_gpus` is not reserved; rounding | never above capacity, shares proportional |
| **Model governance** (`model_governance/`) | versions, champions, approvals | register, patch status, evaluate, set champion, fallback, certify | predictor | checks one version and promotes another; champion kept apart from the statuses; two routes assign statuses unchecked | in a high-impact class only a call for an approved version promotes, and only an assigned challenger; one champion |
| **Canary rollout** (`risk_r03_canary.py`) | deployments | create, advance, rollback | | no look at the status, overlapping requests | traffic moves on only past steps that passed |
| **Telemetry quality** (`telemetry_quality.py`) | last-good cache | fetch with fallback, merge | connectors | merging renews the age of stale fields | what is called fresh is fresh |
| **Deployment workflow** (`deployment_workflow.py`) | one JSON file | create, run step, delete | | the file is rewritten in place, without a lock; a save iterates a dict that others change, and may raise | what was answered with success is in the file after a whole save that met no other |
| **Domain stores, middleware, versioning** | append-only files, counters | append, count | | | |
| **Recommendations, ML, optimiser, inference, FinOps, connectors, frontend** | none beyond a request | | | floating point, I/O | outside a model checker's reach |

The 40 hazards this gives rise to are in PROJECT.json, each at its line, with
the properties that cover it or the reason why none does yet.

## 3. Plan

The order is by what goes wrong worst: first the code that executes changes,
then the code that decides whether they may be, then what they are recorded as.

| # | module | status | abstract specification | theorems |
|---|---|---|---|---|
| 1 | `ActionController`, `ActionControllerSolo` | done | `ActionLifecycle` | types, all safety properties, the refinement |
| 2 | `ApprovalWorkflow` | done | `ApprovalLedger` | types, all properties, the refinement, serial when handlers take turns |
| 3 | `ActuationTwin` | done | `TwinRegister` | types, all properties, the refinement, serial when handlers take turns |
| 4 | `PeriodicEngine`: the start/stop/join/loop protocol of seven engines in four forms | done | none | types, one loop, quiet when stopped; both without exceptions when calls take turns |
| 5 | `AgentFleet`: the agent registry, composed with the engine that runs its stale check | done | none | types, event log tells the status |
| 6 | `AlertManager`, `Remediation` (which extends it) | done | none | types, all properties |
| 7 | `WatchCache`: versions, trimming, resync from the database, followers | done | `ClusterFeed` | types, all properties, the refinement |
| 8 | `CanaryRollout`, `DeploymentWorkflow`, `ModelGovernance`, composed in `Rollouts` by the restart they share | done | none | types, all properties |
| 9 | `TelemetryFallback`: the age of what the fallback cache serves | open | | |
| 10 | `FairShare`: the allocation of `scheduler/fairness.py` against a reference definition | open | | |
| 11 | `ClusterStore`: rows saved for a cluster that is being deleted, recommendation updates; composes the row owners of 2 and 3 | open | | |

Every module is written to be proved about as well as checked: parameters are
CONSTANTS with named assumptions, no RECURSIVE operator, invariants are
conjunctions of named parts.

## 4. The modules

In every module a definition placed immediately before another one, with its
name and a suffix (`VerdictOfAny` before `Verdict`), is a variant of it with a
plausible mistake. It is not used by `Next`. Substituting it shows that a
property notices the mistake; PROJECT.json pairs each property with one.

### 4.1 The operator: `ActionController`

A *reconciler* is a thread inside `_reconcile_actions` and
`_reconcile_profiles`: the loop thread of `start()`, or a request thread inside
`reconcile_once()`. Its program counter `pc[t]` goes through

    check -> list -> items -> execute -> succeeded|raised -> items ... -> profiles -> check

| model | code |
|---|---|
| `phase`, `kind`, `uid` | `status.phase`, the spec, and which of the objects created under one name it is |
| `gen`, `observed` | `metadata.generation`, `status.observedGeneration` of a profile |
| `running`, `thread` | `_running`, `_thread` |
| `items[t]`, `cur[t]`, `profs[t]` | the list a pass works from, and what it is in the middle of |
| `executed` | history: objects the adapter was called for |
| `ListActions`, `ListProfiles` | `client.py` list calls; a raise gives `[]` |
| `PassOver`, `TakeUp` | the early returns of `_reconcile_action`, and the patch to running |
| `Execute`, `Finish` | `ActionAdapter.execute` and the outcome patch |
| `ReconcileProfile` | the observedGeneration patch, with the *listed* generation |
| `LoopTest`, `EndPass` | `while self._running`, and the sleep |
| `RequestStart`, `Spawn`, `RequestStop`, `JoinReturns`, `RequestReconcile` | the three requests, cut where another thread can see the difference |
| `Submit`, `Delete`, `Approve`, `EditProfile` | users of the Kubernetes API |
| `Crash` | the process dies; the objects stay |

A patch goes to whatever object has the name at that moment (`PatchPhase`): it
may have been deleted (nothing happens) or re-created (the new object gets the
phase). Which order a list is worked through is left open. What the adapter does
is abstracted to: it is called, and it returns or raises.

`ActionLifecycle` is the abstract specification: phases of an object move
forward, an outcome needs an attempt, and no attempt is made for an object that
has an outcome. What the operator needs to implement it is `OnePassAtATime`: no
two threads are between the list of the actions and its end. How many loops and
requests there are does not matter (`OnlyOverlapReexecutes`). Nothing in the code
enforces it; `ActionControllerSolo` is a use of the operator that does, one
caller that only starts it, which is how `run_controller` uses it.

**Assumed about the cluster:** that the API server serves the status endpoint of
the custom resources. The manifests in `infra/k8s/crds` do not declare
`subresources.status`, while `client.py` patches through it; against a cluster
installed from them every status patch fails, and the liveness properties, which
allow finitely many failures, do not apply.

### 4.2 Approvals: `ApprovalWorkflow`

`table[id]` is the row; `held[h]` is the copy a handler has read, decided on and
not yet saved. `Approve` and `Reject` are the read and the decision, `Save` the
write, `SaveFails` a write that raises or a process that dies. `asked` and
`answered` remember what was accepted and what was answered with success,
`contested` the rows that were decided on by two handlers at once. The first
open step of an approver is the one that is decided (`FirstOpen`), as in the
code's `for ... break`; an empty list of approvers becomes one default step.

`ApprovalLedger` is what the callers are to see, without copies and handlers: a
request (`Ask`), and answers that are indivisible decisions on the row as it
stands (`Answer`). A row on which two answers were in flight (`Overlap`) may be
rewritten by either (`Clobber`), but keeps its approvers and a status that its
steps explain. `ApprovalWorkflow` implements it (`ImplementsLedger`): a `Save` is
an `Answer`, or the `Clobber` of a contested row. Without `Overlap` and `Clobber` it is
`SerialSpec`, which `ApprovalWorkflow` implements while handlers take turns on
each row (`TurnsAreSerial`).

### 4.3 Actuations and the twin: `ActuationTwin`

`twin` is the row of one cluster: which requests' versions of the nodes went
into it (`effects`), whether it has nodes at all (`nodes`), whether `state_json`
is a whole state (`full`), and the drift flag.
`acts` are the actuation records. `work[h]` is what handler `h` has still to
write: first the twin, then the record. `SaveTwin`, `SaveTwinFails`,
`SaveActuation`, `SaveActuationFails` follow the exception paths of the code:
only `actuate()` catches, and then saves a failed record, whichever step raised.
A crash loses what is unwritten. `overlapped`, `synced`, `unrecorded` are
histories the properties refer to. What each recommendation type changes in a
node is abstracted to "this request went in". That may be nothing: an actuation
about node counts, or one on a twin built without nodes, saves the twin
unchanged, marks it diverged and reports success all the same
(`_apply_rec_to_twin`), so `ReportedIsApplied` says that a completed actuation
is not lost, not that it had something to change. `RolledBackIsUndone` is stated
for twins with nodes.

`TwinRegister` is the twin without copies: one register that requests change one
at a time (`Actuated`, `Applied`, `RolledBack`, `Synced`), and that requests which
overlapped may leave as any mixture of their own changes (`Mixed`), if no other
request's change is in it. `RolledBack` takes no change out, and `Applied` needs a
twin that was synced since it was last actuated: both are what the code does.
`ActuationTwin` implements it (`ImplementsRegister`). Without `Mixed` it is `SerialSpec`,
which `ActuationTwin` implements while handlers take turns (`TurnsAreSerial`).

### 4.4 Background engines: `PeriodicEngine`

Seven classes write out one protocol: a request sets a flag and starts a thread,
another clears it and waits a few seconds for the thread. `kind` says which of
the four forms an engine has; a behaviour follows one of them.

| model | code |
|---|---|
| `on` | `_running`; for the healing monitor, the stop event being clear |
| `handle` | `_thread`, `_monitor_thread`, `_check_timer` |
| `StartCheck`, `SetRunning`, `Spawn` | `start()`, cut between the test, the flag and the thread |
| `StopSignal`, `Join`, `JoinReturns` | `stop()`; the join may time out, and most forms then forget the thread |
| `Test`, `Cycle` | `while self._running`, and the body with its sleep |

`alone`, `contested` and `abandoned` are histories: which calls met no other,
which loops met a start that did, and which loops a stop gave up on. The code
has no lock and cannot promise one loop; `OneLoop` says exactly which mistakes
of the callers it takes to have two.

### 4.5 The agent fleet: `AgentFleet`

The registry of `agent_protocol.py` composed with the engine that runs its stale
check. Every operation of the registry is under one lock and is one step.
`silence[a]` counts ticks since the last heartbeat, `events[a]` is the event log
of one agent (the limit of 10 000 entries is not reached). A heartbeat
reactivates whatever it meets, a decommissioned agent included: the code does
that on purpose or not, no document forbids it, and the model has it.

### 4.6 Alerts and remediation: `AlertManager`, `Remediation`

`evaluate_rules` is cut into looking for a firing alert of a rule (`Look`),
adding one (`Raise`) and notifying (`SendNotification`), because handlers share
the manager without a lock. Whether a condition holds is left open. `Remediation`
extends it with the request that acts on an alert: find it, get or make the
engine (`GetEngine`, `MakeEngine`; two first uses may make two), choose a rule
outside its cooldown, run it, record the run and start the cooldown. Cooldowns
and runs are per engine, as in the code; actuations go to the database and
survive `Restart`, which is why `EffectsHaveRuns` allows for those it cut off.

### 4.7 The watch cache: `WatchCache`

The writers are other threads that save states and delete clusters. A resync is
a list of the clusters, one read per cluster and then the sets, on the event
loop, so that followers see all of it or nothing; the database changes
meanwhile. `Set` counts the version and keeps the newest `MaxVersions` of a key.
The follower is the client the three endpoints are made for: version, then list,
then polls. `ViewIsCurrent` speaks of one life of the server. After a restart the
version begins again at 0, and a follower that stays gets nothing until the
version passes the one it had: no endpoint tells it. A deleted cluster stays in
the cache, as nothing removes it.

`ClusterFeed` has no versions, no events and no limit: a cache that moves forward
(`Publish`), followers that begin (`Begin`) and are then told everything in it at
each answer (`CatchUp`). After a `Restart` a follower of the earlier life may be
told of any part of the cache, or of nothing (`Stray`), until it begins again.
`WatchCache`
implements it (`ImplementsFeed`): a poll for the versions above the last one seen
leaves the follower with the same as reading the whole cache.

### 4.8 Rollouts: `CanaryRollout`, `DeploymentWorkflow`, `ModelGovernance`

Three services that move something forward step by step, composed in `Rollouts`,
where a restart loads the workflows and forgets the rest.

* `CanaryRollout`: an advance is reading the step (`AdvanceStart`) and judging it
  (`AdvancePass`, `AdvanceFail`, `RolledBack`). A deployment that was rolled back
  can be advanced and completed; the model has it, and `TrafficIsEarned` says
  what holds nevertheless.
* `DeploymentWorkflow`: a request computes its output (`StepBegin`, `StepDone`),
  which puts it in memory, and saves everything: it dumps one workflow after the
  other (`Dump`, `DumpItem`, `DumpEnd`), opens the file (`Truncate`) and writes
  (`Write`). `file` is what a load would find, `request[h].snap` what `h` has
  dumped. Each part of the save can raise while the server goes on:

  | model | code (`deployment_workflow.py`) |
  |---|---|
  | `Shift`, `DumpRaises` | 68: the comprehension iterates `_workflows` itself. When another request makes or deletes a workflow meanwhile, Python raises RuntimeError; only where the dict has its old size again may the iteration go on (`GoesOn`), and then it may leave a workflow out or come to one twice |
  | `OpenRaises` | 69: the file cannot be opened; it stays as it was |
  | `WriteRaises` | 69: the disk is full after the truncation; the file stays empty, or has a part of the text |

  The caller gets a 500, but the output, or the deletion, stays in memory, and
  nothing saves it until the next request does: if the server stops before, it is
  lost (or the deleted workflow is back). `failed` remembers whose saves those
  were, so that `OutputsAreDurable` can except them, and no others.
* `ModelGovernance`: the registry of one class of models. `set_champion` checks
  one version and promotes another (`SetChampion`, `PromoteRead`,
  `PromoteWrite`). In a high-impact class a version gets to be the challenger
  through `PATCH .../status` or the start of a shadow evaluation, which is a normal
  route; neither looks at approvals, and an approval never makes a challenger.
  `assigned` is the set of versions these two routes were used on. `set_champion`
  has no route; it is what the library offers.
  Rejecting the champion, or the end of its certification, leaves it predicting.

  **What the code does not keep out.** `governance.py:95-97` refuses, "approval
  required", to promote an unapproved version of a high-impact class. But register
  two versions, approve the first, start an evaluation with the second as the
  challenger, and call `set_champion` for the first: the second, which nobody
  approved, is the champion. The model has these steps, and `UnapprovedStaysOut`
  therefore does not say that a promoted champion is approved. It says what the
  check does achieve: the call was for an approved version, and the version
  promoted was assigned a status, and is not one that was only registered. Nor does
  it say anything of a champion that the two routes assigned.

### 4.9 How the components meet

`AgentFleet` composes the registry with its loop, `Remediation` the alerts with
the engine that acts on them, `Rollouts` three services with the restart they
share, `WatchCache` the cache with the repository it copies. The operator,
approvals and actuations share no variable with these: no code path reads the
approval inside `actuate()`, the operator's adapter reports what it would do and
writes neither twin nor approval, and the `actuate()` that a remediation calls is
the one of `ActuationTwin`, of which `Remediation` needs only whether its record
was written.

## 5. What the runs check

| run | question | result |
|---|---|---|
| `operator_solo` | With crashes, lost calls and users interfering: is nothing executed twice after an outcome (`NoReexecution`), are outcomes final (`TerminalIsFinal`), is there one reconciler (`OneReconciler`), is `ActionLifecycle` implemented (`ImplementsLifecycle`), does a loop that stays up settle every object and profile (`SettlesWhileRunning`, `ProfilesConverge`)? | all hold |
| `operator_recreated` | Is `ActionLifecycle` still implemented (`ImplementsLifecycle`) when a name is deleted and used again while a pass works on its first object? | all hold |
| `operator_overlap` | With start, stop and reconcile_once interleaved freely: types (`TypeOK`), are outcomes earned (`OutcomeWasEarned`), does re-execution take two open passes (`OnlyOverlapReexecutes`), does clearing the flag end every loop, also the forgotten ones (`StopIsEffective`)? | all hold |
| `operator_restart` | Does `NoReexecution` survive stop followed by start? | **violated** |
| `approvals` | Is approval unanimous (`ApprovalIsUnanimous`), does everybody decide only their own steps (`OnlyOwnSteps`), is no request stuck (`PendingIsDecidable`), are answers kept where handlers do not overlap (`AnswersStickUnlessContested`), is each answer one indivisible decision (`ImplementsLedger`)? | all hold |
| `approvals_overlap` | Is a decision final (`DecisionIsFinal`)? | **violated** |
| `actuations` | Each but for the exceptions it names: is what was reported applied (`ReportedIsApplied`), does a sync discard (`SyncDiscards`), has each change a record (`EffectsAreRecorded`); does the twin change as if requests came one by one (`ImplementsRegister`)? | all hold |
| `actuations_rollback` | Does a rollback undo (`RolledBackIsUndone`)? | **violated** |
| `engines` | For four kinds of engine: which loops can be alive besides the one the engine knows (`OneLoop`), also when it is stopped (`QuietWhenStopped`), does every loop end after a stop (`StopTakesEffect`); does the event log tell the status (`EventsTellStatus`), is a silent agent noticed while the checker runs (`SilentAgentIsNoticed`)? | all hold |
| `remediation` | With overlapping evaluations and requests: how many alerts of a rule fire (`FiringBound`), is each told (`EveryAlertIsTold`), how many runs can a cooldown let through (`BurstBound`), has each actuation a run (`EffectsHaveRuns`), and are there never more engines than requests (`TypeOK`)? | all hold |
| `watch_cache` | Does a follower have what it has passed, however far behind it was (`ViewIsCurrent`), is a resync exact for what did not change meanwhile (`QuietResyncIsExact`), does nothing go back in time (`NothingGoesBack`), is polling as good as reading the whole cache (`ImplementsFeed`)? | all hold |
| `rollouts` | Is traffic earned (`TrafficIsEarned`), are answers durable after a whole save, whatever crashes, failed saves and overlaps came before (`OutputsAreDurable`), does `set_champion` promote in a high-impact class only for an approved version, and only what was assigned (`UnapprovedStaysOut`), is there one champion when nothing overlapped or was assigned (`OneChampion`)? | all hold |

### Findings

1. **Re-execution after stop and start** (`operator_restart`). `stop()` waits
   10 s and drops its handle; `start()` then sets the shared flag, which also
   keeps the old loop alive, and creates a second loop. The second lists an
   object as running, the first records its outcome, the second executes it.
   `NoReexecution` is a property of the moment of the call, not of the list.
   `ReexecutionNeedsOverlap` proves that two open passes are the only cause: a lock
   around a pass would exclude it.
2. **An approval decision is overwritten** (`approvals_overlap`). Approve and
   reject at once both pass the "already decided" check, the later save wins,
   and both callers were told they succeeded. `DecisionsAreFinalAlone` proves that
   the gap between the read and the write of a row is the only cause.
3. **A rollback restores nothing** (`actuations_rollback`). It records
   "restored", clears the drift flag and leaves the nodes changed.
   In the proof of `ImplementsTheRegister` every rollback that met no other request
   is a `RolledBack` step, of which the drift flag is the only change.

### Bounds, and why they are enough

* Operator: two loop identities are what it takes for one loop to be forgotten
  while another starts. `operator_solo` has two objects, so that a list can hold
  an object while another is executed. One crash and one failed call (or two of
  either, `MaxFaults = 2`) cover a fault during the recovery from a fault. One
  edit of a profile during a pass (`MaxGen = 2`) is what makes the written
  generation stale. A name is used twice (`MaxUid = 2`) in `operator_recreated` and
  `operator_restart`. `operator_overlap` uses each name once: its liveness property makes
  every state expensive, and what a second use adds to overlapping passes is
  covered for all constants by `OutcomesAreEarned` and `ReexecutionNeedsOverlap`.
  `MaxFaults` also expresses that faults end, which the liveness properties need.
* Approvals: rows do not interact, so one; two approvers and three steps give a
  repeated approver, a decided and an open step; two handlers are a race.
* Actuations: three requests allow an effect, a sync and a third that overlaps
  either, or a sync, an actuation and its rollback; two handlers are a race.
  Requests are used once, which bounds the run.
* Engines: two callers make a start race a start, a stop, or a stop that gave up;
  three threads are an abandoned loop, a second and a third from an overlapped
  start. One agent, because agents share only the lock; three events let it fall
  silent, return and fall silent again. The agent moves only for the kind
  `checker`, whose loop looks at it.
* Remediation: one rule of each sort (rules share nothing), two evaluators and two
  requests are the races, three alerts are one more than can fire at once, a
  cooldown of two ticks is one that can be half over. Threads and alerts are
  interchangeable (`Symmetry`; no property of the run is a liveness property).
* Watch cache: two clusters, so that a resync reads one while the other changes;
  three resyncs against two kept versions make a follower fall behind the trim;
  two saved states tell old from new; one restart. Clusters, and resyncs, are
  interchangeable (`MCWatchCache`).
* Rollouts: three canary steps so that one can be skipped, two requests; two
  workflows, so that a save has something of another's to lose and a dump
  something to shift under it; one step each (`LastStep = 1`), since what is saved
  or lost is told apart by workflow, and the theorems hold for any number; two
  versions and two promoters. `MaxFaults = 1` bounds restarts and failures of the
  file system together; a dump that raises is not one of these, and happens as
  often as the requests make it. One fault is a restart after a failed dump, or a
  failed write and the saves after it; several are left to the theorems, which
  have no such bound. Handlers, workflows and versions are interchangeable
  (`MCRollouts`).
* Symmetry is used where no property of the run is a liveness property and no
  `CHOOSE` ranges over the set.
* `CHECK_DEADLOCK FALSE` where requests or rows run out. The operator's runs, and `engines`,
  `remediation` and `watch_cache`, check for deadlock. In `rollouts` a canary
  that is completed accepts no request, and the faults are used up.

### Fairness

`FairSpec` asks weak fairness of each thread of the operator on its own: a
thread that can go on does, because the operating system schedules it, and a
request inside `join` returns because it has a timeout. Nothing obliges users to
do anything, and API calls may fail at any point up to the bound.
`SettlesWhileRunning` and `ProfilesConverge` assume in addition that some loop
stays alive, which the code does not promise; `StopIsEffective` does not.

`AgentFleet` asks weak fairness of each loop thread, and of nothing else: no
request has to come, and the clock need not go on, since `SilentAgentIsNoticed`
begins when an agent is past its timeout. A loop that sleeps wakes up, and its
body ends. `StopTakesEffect` needs no more, because a loop tests the flag after
each sleep, whoever has forgotten it. `SilentAgentIsNoticed` assumes that a
checker is alive and is not stopped, which the property says.

The other modules state no fairness: all their properties are about safety.

## 6. What is proved

TLAPS checks the following for all values of the constants, from the named
assumptions only: `ControllerAssumption` (loops and callers are different
threads, bounds are numbers), `SoloAssumption`, `ApprovalAssumption` (a request
may have at least one step), `NoneAssumption` and `TwinAssumption` (`None` is
neither a record nor a handler's copy), `KindsAssumption` and `FleetAssumption`
(the kinds and statuses are those of the code), `AlertAssumption` and `RemediationAssumption` (finitely many
alerts and threads, a cooldown of at least a tick), `CanaryAssumption`,
`WorkflowAssumption`, `GovernanceAssumption` and `RolloutsAssumption` (there is
something to roll out, in at least one step), `WatchAssumption` (a key keeps at
least one version, bounds are numbers). TLC evaluates each of them.

| theorem | states |
|---|---|
| `TypeCorrect`, `OutcomesAreEarned` | operator, any interleaving: types; outcomes are earned |
| `ReexecutionNeedsOverlap`, `LifecycleUnlessOverlap`, `FinalUnlessOverlap` | operator, any number of loops and requests, while no two passes are open at once: nothing that has an outcome is executed, `ActionLifecycle` is implemented, outcomes are final |
| `OneReconcilerAtATime`, `NeverReexecuted`, `OutcomesAreFinal`, `ImplementsTheLifecycle` | operator driven by one caller that only starts it |
| `RowsAreTyped`, `ApprovalsAreUnanimous`, `StepsAreAuthentic`, `NoRequestIsStuck`, `AnswersAreKept`, `DecisionsAreKept` | approvals, any number of handlers |
| `ImplementsTheLedger` | approvals implement `ApprovalLedger`, any number of handlers |
| `DecisionsAreFinalAlone` | a decision is final while no two handlers are between the read and the write of one row |
| `TwinIsTyped`, `ReportsAreTrue`, `SyncsDiscard`, `TrailIsComplete` | actuations, any number of handlers and requests |
| `ImplementsTheRegister` | actuations implement `TwinRegister`, any number of handlers and requests |
| `FleetIsTyped`, `EngineHasOneLoop`, `StoppedEngineIsQuiet`, `AgentEventsTellStatus` | the engines and the fleet, any number of callers, threads and agents |
| `Typed`, `FiringAlertsAreBounded`, `NoAlertGoesUntold`, `CooldownBoundsBursts`, `ActuationsHaveRuns` | alerts and remediation, any finite number of handlers and alerts, any cooldown |
| `CacheIsTyped`, `WatchHolds`, `FollowersAreCurrent`, `QuietResyncsAreExact`, `NothingRewinds` | the watch cache, any number of clusters, followers, writers, resyncs and restarts |
| `ImplementsTheFeed` | the watch cache implements `ClusterFeed`, any number of followers and kept versions |
| `RolloutsAreTyped`, `CanariesEarnTraffic`, `AnswersAreDurable`, `UnapprovedModelsStayOut`, `ChampionIsUnique` | rollouts, any number of steps, workflows, versions and threads |
| `TurnsKeepAnswers`, `TurnsAreSerial` (approvals) | while handlers take turns on a row: accepted answers stay for good, and `ApprovalLedger!SerialSpec` is implemented |
| `TurnsKeepReports`, `TurnsDiscard`, `TurnsAreSerial` (twin) | while handlers take turns on the twin: reported actuations are in it, a sync discards all, and `TwinRegister!SerialSpec` is implemented |
| `TurnsStopAllButAbandoned`, `TurnsLeaveOneLoop` | engines whose starts and stops take turns: only abandoned loops outlive a stop; one loop, if starts wait for those |
| `TurnsFireOnce`, `TurnsKeepCooldown` | evaluations and remediation requests one at a time: one firing alert of a rule; one engine, and one run of a rule in a cooldown |
| `TurnsEarnTraffic`, `TurnsAreDurable`, `TurnsKeepOneChampion` | advances, saves and promotions one at a time: traffic is earned, a file that parses holds memory but for failed saves, one champion |

**`EarnedInv`** (`ActionControllerProofs`). `OutcomeWasEarned` is not inductive:
`Finish` patches an object by name, so one must know that a thread past
`Execute` did call the adapter for that name and for a uid the name has had.
`EarnedInv` says that of every thread, and that every uid in a list is one that
exists.

**`FreshInv`** (`ActionControllerProofs`). Why may a pass act on an old list?
Because, if no other pass is open, only the one holding the list records
outcomes; the list has at most one object of a name, and that is dropped from it
before it is executed. So an actionable object in the list has no outcome *now*,
whatever users, crashes and failed patches did meanwhile. `FreshInv` is
preserved by every step of which `OnePassAtATime` holds before; that it holds
always is a hypothesis of the three theorems, not of the code. The refinement
theorem maps each step to a step of `ActionLifecycle` or a stutter, and
`FinalUnlessOverlap` follows from it.

**`SoloInv`** (`ActionControllerSoloProofs`). One caller that only starts has one
loop: the awake loop is `thread`, and a caller about to spawn sees none. So no
two passes are ever open, and the results for such behaviours become results for
all of them.

**`ApprovalInv`** (`ApprovalWorkflowProofs`). What must be said is what handlers
hold: each copy is `Sound` (as a row would have to be), contains its own
decision (`Has`), and, if its row is not contested, is `Current`: exactly the
row with one more decision. **`LedgerInv`** is what the refinement needs besides:
a copy has the approvers of the row it will replace (`Copied`) and, unless that
is contested, answers its first open step (`Answers`). `NoneContested` shows that
handlers who take turns leave nothing contested, from which
`DecisionsAreFinalAlone` follows.

**`TwinInv`** (`ActuationTwinProofs`). A handler that is alone with its copy has
the twin as it is; handlers that are not alone have every request their copies
mention in `overlapped`. `WriterInv` says this of a handler about to save,
`RecorderInv` of one that has saved, `BusyInv` puts them together. The accounting
`begun \subseteq Recorded \cup unrecorded \cup ...` is what `TrailIsComplete`
needs. TLC also confirmed `TwinInv` on the bounds of `actuations`. **`ExactInv`** is
for the refinement: a copy whose request overlapped nobody's is the request's own
change of the twin as it is (`AsIf`), and a copy of one that did contains changes
of such requests alone (`Tainted`), so that saving it is a `Mixed` step.

**`EngineInv`** (`AgentFleetProofs`). Why is every loop but the known ones an
abandoned or a contested one? A call that is alone finds, between its test and
its spawn, no known loop (`AloneSeesNone`); a stop that waits, waits for the
known loop (`JoinWaitsForIt`); and while the flag is off and a known loop lives,
a stop is on its way to it (`StopIsComing`). The last is what `QuietWhenStopped`
needs. `FleetInv` adds the event logs.

**`AlertInv`, `RemInv`** (`RemediationProofs`). The firing alerts of a rule and
the evaluators about to raise one for it are together at most the evaluators:
`FiringBound` is not inductive without counting the latter. In the same
way `CoolInv` counts the recent runs of a rule together with the requests
already past its check, `MadeInv` the engines with the requests that are making
one, and `EffectInv` the unrecorded actuations with the requests that hold one.

**`WatchInv`** (`WatchCacheProofs`). Versions of a key may be discarded, and still
nothing is missed, because the last one is kept, is above every version a
follower has passed when it is set, and holds what the cache holds (`CacheInv`,
`LastIsNewest`). A resync reads over time: `ItemInv` says that what it has read is
not older than the cache, `DoneInv` that every registered cluster not written to
since is still to be read, among the items, or cached as it is. That no other
resync is under way is what keeps `ItemInv` when an item is set. The refinement
needs no more: a key is in the cache exactly if it has a last version
(`CachedIsVersioned`), and what a poll leaves out, being below the version
polled for, the follower has by `FollowerInv`, so that each answer is a step of
the feed (`AnswerIsStep`).

**`RolloutsInv`** (`RolloutsProofs`). `SoleAdvance`: in an uncontested deployment
the one advance evaluates the current step. `SoleSave` and `FileIsCurrent`: what a
sole save has dumped so far, and then what it wrote, is what memory holds, but
for outputs and deletions that some request owes, which is still to dump (the
file: to open it), or whose save has raised. `RequestsAreSound`: a request that
computes finds its workflow in memory until that is deleted, and one that has
not begun to dump has dumped nothing. The exception for failed saves is what
makes `FileIsCurrent` inductive where a save raises: what its request owed moves
to `failed`. `AssignedOnly`: the challenger of a high-impact class was assigned,
and so was the one a promotion has read; `NamedIsApproved`: a promotion under way,
and the one that made the champion, was called for an approved version, which no
review takes back; `SolePromotion` and `HasChallenger`: a promotion that met no
other has read the present champion, and some challenger.

**Without the races.** Most of the checked properties make an exception for
objects on which threads met, because the code, having no locks, promises no
more. The `Turns...` theorems show that this exception is exact: where threads
take turns it is not needed, so that the overlap is the only cause, and a lock of
the stated extent would be enough. Each theorem has the taking of turns as a
temporal hypothesis, which nothing in the code enforces:

| hypothesis | what a lock would have to cover |
|---|---|
| `OnePassAtATime` (operator) | a pass, from the list of the actions to its end |
| `OneAtATime` (approvals) | a row, from its read to its save |
| `OneWriterAtATime` (twin) | the twin, from its read to its save |
| `CallsTakeTurns`, `StartsWait` (engines) | a start or stop as a whole; and no start before the loops a stop gave up on have ended |
| `OneEvaluationAtATime` (alerts) | the evaluation of the rules |
| `OneRequestAtATime` (remediation) | a request, from finding the engine to the cooldown |
| `OneAdvanceAtATime` (canary) | an advance of one deployment |
| `OneSaveAtATime`, `DumpsAreStill` (workflows) | the dump and the write of the file; and the making and deleting of workflows, while one dumps |
| `OnePromotionAtATime` (models) | a promotion, from its check to its last write |

A single thread satisfies them all (`StartsWait` as long as its stops are not
given up), so they are not empty, and users, failures and the clock are left free. The
proofs show that the histories (`contested`, `overlapped`, `crossed`, `alone`,
...) stay empty (`NoneContested`, `WritersTakeTurns`, `SavesTakeTurns`
and the like), and then use the inductive invariants above. Failed saves, process
deaths and restarts are not excluded by any of them. For workflows this means that
the file may have been left unreadable, or a save may have raised before it
opened the file: `TurnsAreDurable` is about a file that parses, and excepts the
requests whose own save raised since it was last written.

**Only model-checked:** the liveness properties (`SettlesWhileRunning`,
`ProfilesConverge`, `StopIsEffective`, `StopTakesEffect`, `SilentAgentIsNoticed`),
which are out of TLAPS's reach, and the three violations, which are
counterexamples. Every other property of a run is a theorem. Three of them,
`NoReexecution`, `TerminalIsFinal` and `DecisionIsFinal`, do not hold of the code
without a hypothesis on how its threads meet, and are proved under it.

## 7. What is not modelled

* Plan items 9 to 11.
* The operator's REST endpoints that call the adapter without an object
  (`/actions/execute`, `/actions/from-recommendation`): they touch no state.
* Code no route reaches: `evaluate_policy` and `reset` of the remediation engine,
  `delete` and `clear` of the watch cache and of the model registry, `broadcast`,
  and `auto_promote`, which is off. The websocket watch awaits a property that
  cannot be awaited (`streaming.py:190`) and ends before it sends anything.
* What alert rules and records the router saves to the database: nothing loads
  them, so that they have no effect on the manager.
* The limit of the agents' event log, and what a cycle of an engine computes.
* Reading the creation timestamp, dry-run flags and details of an action: the
  adapter's result is "returned" or "raised".
* Most of the lines of the repository: catalogs, schemas, routes that read,
  recommendations, machine learning, optimiser, inference planning, FinOps,
  connectors. They are tables, I/O, or floating-point functions of their input
  without a state that outlives a request, so that a model of them would have
  nothing to check. The project follows the code that keeps state.
* Authentication, roles, audit: not a subject of this project.

## 8. Running

    tlc -workers 2 -config operator_solo.cfg ActionControllerSolo.tla
    tlc -workers 2 -config operator_recreated.cfg ActionControllerSolo.tla
    tlc -workers 2 -config operator_overlap.cfg ActionController.tla
    tlc -workers 2 -config operator_restart.cfg ActionController.tla
    tlc -workers 2 -config approvals.cfg ApprovalWorkflow.tla
    tlc -workers 2 -config approvals_overlap.cfg ApprovalWorkflow.tla
    tlc -workers 2 -config actuations.cfg ActuationTwin.tla
    tlc -workers 2 -config actuations_rollback.cfg ActuationTwin.tla
    tlc -workers 2 -config engines.cfg AgentFleet.tla
    tlc -workers 2 -config remediation.cfg MCRemediation.tla
    tlc -workers 2 -config watch_cache.cfg MCWatchCache.tla
    tlc -workers 2 -config rollouts.cfg MCRollouts.tla
    tlapm ActionControllerProofs.tla    # and the other *Proofs modules
