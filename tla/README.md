# ReplayForge: a verification development

ReplayForge runs recorded capabilities in a browser (*replay*), explores new
ones with a model (*discovery*), and hands the live browser to a human operator
when it must not go on alone. These modules model the parts of it where threads,
clocks and failures meet; TLC checks them on small instances, and TLAPS
proves the safety properties for every instance.
Paths below are relative to `src/`; `B` stands for `backend/src/replayforge`.

## The system

| Component | State it keeps | Operations | Talks to | Model |
|---|---|---|---|---|
| Control leases (`B/interventions/leases.py`) | one versioned lease per session: owner, version, expiry, binding | create, pause, claim, reclaim, release, resume, terminate, heartbeat | clock | modelled |
| Coordinator and paired repository (`service.py`, `transactions.py`, `router.py`) | interventions; (intervention, lease) pairs under two locks | the same, as read + prepare + compare-and-swap of the pair | leases, engines, runtime | modelled |
| Session worker (`B/runtime/worker.py`) | bounded queue, one thread, a closed flag | call, close | any thread; the browser | modelled |
| Runtime (`B/runtime/composition.py`) | live sessions, continuations, discovery waits, frame and client sequence, one lock | execute a run, claim, release, viewport, input, heartbeat, resume, terminate, shutdown | coordinator, worker, engines, viewer, journal | partly |
| Replay engine (`B/replay/engine.py`) | step index, outputs, recovery uses, pause points | execute, validate_resume, resume | surface, leases, router, policy | modelled |
| Discovery engine (`B/discovery/engine.py`) | a suspended generator per pause, trace, outputs, budgets | execute, validate_resume, resume, cancel | surface, provider, policy, leases, router | modelled |
| Discovery compiler, conditions (`B/discovery`, `B/capabilities/conditions.py`) | none | compile a trace | discovery engine | partly |
| Execution viewer (`B/runs/viewing.py`, `B/runtime/viewing.py`) | execution records, frames, events, a pool | start, publish, finish, resume, expire, close | run services, journals | partly |
| Run services (`B/runs/service.py`, `discovery_service.py`) | none | invoke, finalize | executors, registry | no |
| Discovery suite (`B/runs/discovery_suite.py`) | per suite: draft, scenarios, validated artifact, status | create, from_published, add_scenario, validate, finalize | discovery, replay, registry | modelled |
| Run journal (`B/runs/journal.py`) | events, attachments, manifest, finalized flag | record, attach, finalize | evidence store | modelled |
| Evidence store, integrity, export (`B/evidence`) | files with metadata, bundles | write, verify, export | disk | partly |
| Capability registry (`B/capabilities/registry.py`) | immutable versions as files | publish, publish_next, get, latest | disk, other processes | modelled |
| Policy (`B/policy`) | none | intersect layers, evaluate an action | engines | modelled |
| Model provider (`B/providers/openai.py`) | a run's call, token and time budgets | plan, decide | the model service | partly |
| Surfaces (`B/surfaces`) | page, target handles, grounding cache | resolve, execute, extract, evaluate, wait, observe | the browser | partly |
| Operator console (`apps/control-plane`) | the displayed intervention, frame, requests under way | poll, transition, load a frame, send input | the API | partly |
| Capability artifacts, application registry, API, helpers, demo bank, schemas | request threads; configuration | | the services | no |

What is hard here: every operator request runs on its own thread and reads state
it later writes; the browser may only be touched by the thread that owns it; a
run pauses on that thread while its caller waits on another; leases expire while
any of them works; termination and shutdown arrive at any point in between. The
page changes under a lookup, between a lookup and the click made for it, and while
a human has it; answers reach the console late or never; files are written one by
one by a process that may stop; suites are read, worked on for minutes and stored.
`PROJECT.json` lists these hazards at their lines, with the properties that
would catch each of them going wrong.

What makes each component correct, in short: a lease has one owner and changes
only by its protocol; an active intervention and its lease always agree; a
compare-and-swap that succeeds has seen the current pair; automation acts only
while it owns the lease; the worker runs one operation at a time, the browser's
close last, and answers every accepted call; a registered session is open; a
request never hangs; a recorded resumption is carried out, a terminated pause never resumes; and
shutdown leaves nothing behind. A manifest on disk always verifies and lists what
callers were told was recorded; a confirmed version of a capability survives; an
artifact claims what was done and replayed; an input of the operator is decided on
the current frame and given once; a click lands on what its locator describes, and
an error that says nothing happened is right.

## Modules

| Module | Models | Checked by |
|---|---|---|
| `ControlLease` | what a lease promises: atomic transfers (abstract specification) | refinement from `Interventions` |
| `Interventions` | coordinator, paired repository and the automation's use of them, read by read and commit by commit | `MCInterventions` |
| `InterventionsProofs` | theorems and proofs about `Interventions` | TLAPS |
| `SessionWorker` | the queue, its thread, callers and closers | `MCSessionWorker` |
| `SessionWorkerProofs` | theorems and proofs about `SessionWorker` and the calls it executes, those of `SurfaceSession` | TLAPS |
| `SessionHandoff` | callers, operator requests, workers and shutdown over the shared registries | `MCSessionHandoff` |
| `SessionHandoffProofs` | theorems and proofs about `SessionHandoff` | TLAPS |
| `OperatorConsole` | a console tab, the retained session it operates, and the answers between them | `MCOperatorConsole` |
| `OperatorConsoleProofs` | theorems and proofs about `OperatorConsole` | TLAPS |
| `ReplayEngine` | the steps of one replay: retries, recoveries, pauses, resumption | `MCReplayEngine` |
| `ReplayEngineProofs` | theorems and proofs about `ReplayEngine` | TLAPS |
| `PolicyRules` | layers, their intersection, the inferred risk, the decision (operators) | through `DiscoveryEngine` |
| `DiscoveryEngine` | one exploration: observe, decide, act, verify, pause, complete | `MCDiscoveryEngine` |
| `DiscoveryEngineProofs` | theorems and proofs about `DiscoveryEngine` | TLAPS |
| `CapabilityCatalog` | what a registry promises: immutable, growing, durable versions (abstract specification) | refinement from `DiscoverySuite` |
| `CapabilityRegistry` | publication as file operations under a lock, with failures, crashes and power loss | with `DiscoverySuite` |
| `DiscoverySuite` | requests on suites, over `CapabilityRegistry` | `MCDiscoverySuite` |
| `DiscoverySuiteProofs` | theorems and proofs about `DiscoverySuite`, among them that it implements `CapabilityCatalog` | TLAPS |
| `EvidenceJournal` | journal, store, verification and export of a run's evidence, write by write | `MCEvidenceJournal` |
| `EvidenceJournalProofs` | theorems and proofs about `EvidenceJournal` and `ExecutionViewer` | TLAPS |
| `ExecutionViewer` | the records of managed executions, and every thread that reports into them | `MCExecutionViewer` |
| `VisionGrounding` | what the visual grounder decides on a frame (operators) | through `SurfaceSession` |
| `SurfaceSession` | the calls of one browser session on a page that changes | `MCSurfaceSession` |

How they fit together: `Interventions` justifies the atomic operator steps of
`SessionHandoff`, which justifies the atomic requests of `OperatorConsole` and
`ExecutionViewer`. `ReplayEngine` and `DiscoveryEngine` are the jobs a worker of
`SessionHandoff` runs; what they assume of a surface is a property of
`SurfaceSession`. `DiscoverySuite` extends `CapabilityRegistry`, `DiscoveryEngine`
extends `PolicyRules`, `SurfaceSession` extends `VisionGrounding`.

### ControlLease and Interventions

`lease[s]` is the repository's entry for a session, `now` the clock,
`intervention[i]` the router's record. An operator operation is two steps.
`Prepare...` is everything up to the commit: `state.get`, the workflow method of
`Intervention` (`claim`, `reassign`, ...), the checks and `prepare_transfer`;
what it built stays in `pending[t]`. `Commit` is `compare_and_swap`. The clock and
all other threads move in between, so a lease may be written whose expiry was
computed earlier. `Conflict` is the swap that raises. A request refused in its
prepare step leaves no trace and is no step. The version an operator must send
with each request is the one just read: an older one is refused before anything
is prepared.

The automation of a session has one thread. `PrepareRenewal`/`CommitRenewal` are
the heartbeat after each step, `PrepareOpen`/`CommitOpen` are `router.open` and
`create_paused`; `EndRun` stands for every way a run ends, an expired lease
included. `automation[s].version` is the version the engine carries. That its
swaps have no conflict action is not an assumption: `AutomationKeepsLease` shows
the pair it read is still the current one.

Pairs are compared while the intervention is active. A resolved one is not expected
to agree with a lease that has moved on, though `state.get` compares it too and
raises once the resumed run has paused again.

`ControlLease` is what all this should amount to: one atomic step per transfer.
`Interventions` extends it, uses its vocabulary, and is shown to implement
`LeaseSpec` with the identity mapping. Bounds: `MaxTime`, `MaxVersion`.

### SessionWorker

`queue`, `accepting`, `lock` and `thread` are the worker's fields; a `Call` is
one hold of the lock, `Stop`, `PutFinalizer` and `PutSentinel` are the stages of
`close` under one hold. An operation's outcome is abstracted: `set_result` and
`set_exception` both free the caller. No call is ever made from the worker's own
thread, which is true of this code and would deadlock.

### SessionHandoff

One identity `<<run, n>>` per pause. `caller[r]` is the thread in
`ManagedReplayExecutor.execute` or `ManagedDiscoveryExecutor.execute`,
`worker[r]` what the session's worker does (its queue is abstracted: a call
waits until the worker is idle), `request[q]` the stage an operator request has
reached between two holds of the runtime lock, `holder` the request that keeps
the lock over a browser call. Coordinator operations are single steps, justified
by `Interventions`; of the lease only `expired` is left, of operators nothing.
`RunEnds`, `RunPauses`, `PauseRecorded`, `PauseFails` and `RetainContinuation`
are what an engine job can do; validation accepts, rejects, or raises something
that `begin_resume` does not catch. The journal may raise wherever `begin_resume`
records something: at a rejection (`BeginResume`, `Validate`), after the pause is resolved
(`CompleteResume`) and when a resumed replay has failed (`ReplayFinishes`); none of these calls is
guarded, and the request ends there. A journal that fails under an operator's input
only ends that request (`Touch`).

Assumed: runs are launched through the execution viewer, whose close waits for
them; and the server answers its requests before it closes the runtime (the
lifespan of `B/main.py` under uvicorn). A direct, synchronous discovery request
that is paused would keep the server from reaching that point at all.

### ReplayEngine

One artifact is a block of main steps and a block per recovery; a step is a
position `<<block, index>>`, and the constants say what the artifact says of it.
`pc` names the place in `_execute_step`: `prepare` is everything before the
action, `identity`, `outcome`, `recovery`, `effects` and `mismatch` are the checks
after it in their order, `error` is the `except` clause. `at` is the main step,
which a running recovery leaves suspended; `carried` is the `lease_version`
argument of the innermost call. A SurfaceError is reduced to `retry` (recoverable,
effect absent, named in `retry_on`) and `eligible` (a human could help). `retained`
is the last continuation; `AttemptAt` is the rule by which a resumed run spends
its attempts.

The page is not modelled: every evaluation may hold, fail or raise. Two things are
taken from the web surface, and are `AbsentMeansUndone` of `SurfaceSession`: an
error that reports its effect absent follows no input that took effect, and an error
raised while a *condition* is evaluated is never both recoverable and effect-absent;
otherwise a retry could repeat a dispatched action. Validation, the coordinator's `complete_resume` and the start of `resume`
are one step when they succeed; a failure between them leaves the engine's state as
a rejection does, and what the model allows next is then more than the code does (after a
resumption that could not be recorded nothing follows, see `SessionHandoff`). `effect`, `fresh`, `owed` and `verified` are history. The bound is
`MaxVersion`, on resumptions.

### ExecutionViewer

`view` is `_items`, a function on the retained identities; identities are numbered in the
order of launch, which is the order of the records. Each method of the viewer holds its lock from
beginning to end and is an operator (`Start`, `FinishView`, `RunResult`, `ResumeView`,
`Expire`, `Clear`). What matters is who calls them, and when.
`launch[e]` is the operation on the pool thread: it queues, runs, and either
returns a pause (replay) or waits for its operator (discovery); `returned` is what
`_execute` will publish *after* it. `pause[e][n]` is the operator request on the
n-th pause: `resolved`, `driving`, `repausing` are the stages of `begin_resume`,
`terminated`, `published` those of `terminate`; a resumption that cannot be recorded ends in
`Resolve`. The order "publish, then wake" of
`terminate` is one of the things `ShowsTheEnd` depends on. `ended` is history: how
the run really ended.

The launching thread registers a pause before it publishes it, so an operator may
act in between; windows before the registration belong to `SessionHandoff`. At
shutdown the server has answered its requests, as assumed there. Bounds:
`MaxLaunches`, `MaxPauses`, `MaxTime`. Left out: frames and the event timeline (buffers
trimmed under the lock), run identities, phase labels, tokens.

### OperatorConsole

`server`, `frameSequence`, `latestFrame` and `lastClientSequence` are the runtime's
side (`LiveBrowserSession`); `shown`, `noticed`, `frame` the tab's; `load`, `mutation`
and `fetch` the answers under way to it. A request is served in one step, under the
runtime lock; its answer is received later, out of order, or lost. The tab's guards
(`selectedIntervention`, the load sequence, "never display an older lease version")
are conditions of the `Receive...` actions. Resuming is one step to `resolved`, or back to open
if it is rejected; its stages are those of `SessionHandoff`. `...Elsewhere` is another tab, of the same
operator or another. Bounds: `MaxVersion`, `MaxInputs`, `MaxChanges`.

### PolicyRules and DiscoveryEngine

A screen stands for its route and fingerprint, an operation for action and target. One
iteration of the loop is `Look` (observe, repeated-state budget, policy of the route),
a decision (`Escalate`, `ClaimCompletion`, `Propose`, `FailCall`), `Reject`/`Deny` or
`Dispatch`, `Verify` and `Record`. The surface changes between any two of them.
`Handoff`, `Pause`, `Resume` and `Continue` are the suspended generator; `Cancel` ends
it; `Abort` is an exception at any place. `Compiles` is what
`TraceArtifactCompiler` refuses. `tried` and `done` are history: the operations the loop
got as far as acting on, and those done to the surface since a human last had it. Token and time budgets are left
out: they end a run as `Abort` does. What is the same for replay and discovery (lease
renewal, retained sessions) is in `Interventions` and `SessionHandoff`.

### CapabilityRegistry, CapabilityCatalog and DiscoverySuite

`BeginPublish`, `LinkFile`, `SyncDirectory`, `ConfirmPublication` are the steps of
`_publish_locked`; `FailPublication`, `StopProcess` and `LosePower` can come between any
two. `synced` says which names a loss of power spares. The registry implements
`CapabilityCatalog` with `visible <- files`, `confirmed <- confirmed`.

A suite is read without a lock, worked on for minutes and stored: `Start...` is the
read with its checks, `Finish...` the store. An artifact is its primary trace,
scenarios and tenants; `proven` is history, the replays that succeeded.

### EvidenceJournal

`disk` is the store in the order of writing. A journal operation holds the lock
(`holder`) and writes the objects in `job` one step each: `WriteObject`,
`PublishRecord`, `PublishAttachment`, `WriteDiagnostic`, `WriteResult`, `PublishResult`.
Every write can be `Stored`, with or without its metadata, or `NotStored`; `Crash` can
follow any of them. Exporters run as processes of their own. Bound: `MaxObjects`.

### VisionGrounding and SurfaceSession

A frame is a grid of components; two are on one row or in one column when their
cells are, and groups are sets of cells, of which any two are nested or apart
(`PagesAssumption`). Distances, confidences, OCR errors
and the segmentation that finds groups are thereby assumed right: what is modelled is
what the grounder concludes from them, strategy by strategy. Its loops over sorted
components are written as what they find: the first line below a label, the next label,
the innermost group. `Ground` is
`VisionGrounder.resolve`; `Breakages` are the reasons for which a lookup ends whatever
the frame shows. `Describes` is the reference: what a locator means, stated without
the search.

`SurfaceSession` runs one call at a time (`call`, with its place `pc`), one browser
request per step: `Look` is a frame and all visual candidates on it, `TryCandidate`,
`CountMatches` and `CheckState` the three requests per DOM candidate, `FreshRegions`
the grounding before an input, `Send` an input, which may take effect although its
request fails. Several key presses of one action are one input. Between requests
`PageChanges`. Compound, route and output conditions are left out: they combine or
do not touch the page. Bounds: `MaxCalls`, `MaxLooks`, `MaxPolls`, `MaxChanges`.

## Runs

| Run | Instance | Shows |
|---|---|---|
| `interventions` | 1 session, 2 interventions, 2 operators, 2 request threads, Ttl 2, clock to 4, versions to 8 | pair agreement, no lost update, no theft of a live claim, refinement of `ControlLease` |
| `session_worker` | 4 callers, 2 closers, capacity 2 | the browser's close runs last and once; every call and every close returns |
| `handoff` | 1 run of either kind, 3 pauses, 3 request threads | browser ownership, automation only after a resolved pause; every request returns, recorded resumptions are carried out, shutdown completes (liveness) |
| `operator` | 2 operators, 2 looks of the page, versions to 3, 2 inputs, 1 change | inputs accepted once and on the current frame; the tab shows the end and gets frames (liveness) |
| `replay_engine` | 3 steps (act, extract, act), 2 recoveries of 1 and 2 steps used up to 2 and 1 times, 2 attempts, resumptions up to version 10 | no blind repetition, current lease and outputs, earned results, termination |
| `discovery` | 3 screens, 4 operations (one of them too risky, one on a field that is forbidden), 3 conditions, 2 layers, 4 steps, 4 model calls, repetition limits 2 | the trace is what was done, outputs current, scenarios branches, budgets and policy kept |
| `suite` | 2 request threads of a process that may restart, 2 tenants, 1 scenario code, 3 discoveries, versions to 2 | artifacts match suites, claims are proven, refinement of `CapabilityCatalog` |
| `evidence_journal` | 2 threads, 2 exporters, 2 events, 2 attachments, 6 files | every manifest verifies, the journal is listed, a run completes once, bundles are whole |
| `viewer` | 3 launches, 2 pauses each, 1 active, 2 records | final results are shown; shutdown completes (liveness) |
| `surface` | grid 2 x 3, 3 pages, 8 bundles over all strategies, 4 configurations, 2 calls, 2 page changes | effects reported absent are absent; clicks and texts belong to what the locator describes |
| `terminate_early`, `absence_unseen` | smallest instances | disagreements between the code and its documentation, see below |

Why the bounds suffice. Two interventions on one session are needed for a stale
request to meet the next pause; the second is opened only after the first is
resolved, and a third repeats the second. Two operators are needed for a
reclaim, two request threads for every race of two prepared commits; with
automation's own commit that makes three writers on one pair. With Ttl 2 a
heartbeat can extend a lease that has not expired (with 1 it never could), and
the clock leaves room for two expiries in a row. A lease
reaches version 6 by the shortest way through two pauses; 8 leaves room for
renewals and heartbeats. In the worker, four callers exceed a queue of two with
one running. In the handoff run, the second pause exercises the re-registration
of a resumed replay, the third repeats it, and runs meet only at the lock, so
one is executed (`MaxRuns`). In the engine, one recovery goes back into the
middle and one to the start; both can follow each other in either order, before, between and
after two pauses. In the viewer, a third launch must make room among two records while
threads of the first may still report; one active execution is what the code is
configured with; the clock ticks only for retention. In discovery, four steps leave
room for an opening move, an extraction, a handoff and the same again; two layers
disagree on an action type. A run makes at most one call more than it has steps, so the limit of
calls can be reached only where it is not larger (`MaxCalls` is 4, as many as steps), and there
`calls <= MaxSteps + 1` cannot fail; that conjunct of `EffortIsBounded` rests on the proof. In the suite, two requests overlap in every way, a third discovery
makes a result stale; version 2 extends version 1. In the journal, six files are two
events with their manifests, a diagnostic and a result; a second thread waits for the
lock. On the surface, one call obtains a target and the next uses it; two changes let the page
become another one and return, or change before and during the second call; the
pages differ in duplicates, position, value, grouping, visibility and route.

Fairness. Threads that have begun an operation are scheduled; browser and model
operations end because each has its own timeout. The runtime lock is a plain
`threading.Lock`: it is not queue-fair, so a thread waiting for it is given
*strong* fairness only, which says that it gets the lock if it is free again and
again. The replay engine is one thread whose surface operations all end. Nothing makes a run start, an operator act, a lease expire or the server
stop; the clock need not advance. In the viewer the pool thread and requests already
accepted go on; a paused execution may stay paused for ever. A console tab that is
open keeps polling, and of its answers it is assumed only that not all are lost: loads and
frames that are asked for again and again arrive some time (strong fairness).
The other modules have no liveness properties.

### What the code does not keep

Two runs expect a violation:

- `terminate_early`: a discovery intervention can be terminated between
  `router.open` and the registration of its wait; the caller is never woken
  (docs/discovery.md:27 says termination releases it). A replay terminated in the
  corresponding window keeps its browser until shutdown.
- `absence_unseen`: a visual lookup that breaks off, on its time budget for example,
  makes an element condition `absent` or `hidden` true, because `resolve` reports
  every failure that was not an ambiguity as `target_absent`
  (docs/capability-and-replay.md:223).

The following are stated in the modules and are false as well. To see the
counterexample, put the name under INVARIANT or PROPERTY of the module's configuration.

- `SessionHandoff!ResolvedRunGoesOn` (with its `FairSpec`; one discovery, one request thread and
  one pause are enough): `begin_resume` resolves the pause and drops its continuation
  (composition.py:428-434), and only then records `automation_resumed` (435-439). If the journal
  raises there, nobody signals the discovery's caller (444) or resumes the replay (448). The
  intervention is resolved, so no operation accepts it any more, and the run sleeps with its browser
  open until shutdown; docs/operations.md:47 says that a resume continues the retained run,
  docs/live-viewing.md:89 that it stays available until resumed or terminated. What holds instead,
  in the run `handoff`, is `RecordedResumeGoesOn`: after the record nothing keeps the run
  from going on.
- `SessionHandoff!ResumingIsSettled` (with its `FairSpec`): if validation raises an
  unexpected exception or lasts longer than the paused lease, or a rejection cannot be recorded,
  the intervention stays `resuming`, a state no operation accepts any more.
- `SessionHandoff!NothingToClaimAfterFailure`: a failure between `router.open` and the
  end of the pause ends the run and closes the browser, but the intervention stays open.
- `ReplayEngine!FailureBeforeOutcome`: when the page shows both, the engine reports the
  business outcome and not the declared failure (docs/exception-coverage.md:139).
- `ExecutionViewer!ShownPauseIsLive`: a pause is published by the launching thread after
  an operator can already have resumed it, and is shown as live although automation
  drives the browser (docs/live-viewing.md:22), or although the run is at its next pause.
- `ExecutionViewer!EndedRunIsFinished`: if the journal of a resumed replay cannot be
  finalized nobody publishes a result; the record never finishes or expires and its
  active slot is lost until restart (docs/live-viewing.md:85, 89).
- `DiscoverySuite!EveryVariantIsProven`: a suite that extends a published capability
  publishes its new scenarios with all tenants of the earlier version, though they were
  replayed only for those the new suite validated
  (docs/heterogeneity-and-compatibility.md:6).
- `DiscoverySuite!StatusesAreTerminal`: a request that read the suite earlier stores it
  back and so reopens a suite that is published or failed (docs/discovery.md:295).

Observations that no property states:

- A scenario that failed is stored with its suite, and every later finalization fails on
  it; the code a scenario gets by default, `scenario_<n>`, can collide with one of the
  version that is extended.
- Of two scenarios discovered at the same time for a suite the first to be stored is lost.
- A discovery whose human correction falls on its last step always ends with
  `max_steps_exceeded`; one whose pause cannot be recorded keeps its continuation stored.
- An element condition on a visual target is true of `visible` and `enabled` whatever
  the target looks like; an element that leaves the document between `resolve` and the
  reading of its state raises an unclassified browser error.
- The signature that `capture_locator` publishes is cut from a new frame at the place
  found in an older one.

## Proofs

`InterventionsProofs` proves, for every set of sessions, operators,
interventions and callers and every bound, from the constant assumptions
`TtlAssumption`, `MaxTimeAssumption`, `NoneAssumption`, `SessionOfAssumption` and
`MaxVersionAssumption`:

- `TypeCorrect`: `Spec => []TypeOK`;
- `InductiveInvariant`, and from it `ActivePairsAlwaysAgree`,
  `CommitsSeeWhatWasRead` and `AutomationAlwaysKeepsLease`;
- `UnexpiredClaimIsAlwaysKept`, an action property;
- `CoordinatorImplementsLease`: every step of the coordinator is a step of
  `ControlLease` or leaves it unchanged.

The safety properties are not inductive by themselves. The invariant `IInv` adds
what each caller knows between its read and its commit: the prepared pair agrees,
it is one legal transfer away from what was read, and either the pair is still
the one read or it is detectably newer (a higher version, or the same version
with another status, which only reopening can produce). The corresponding
statement about the automation's `renewal` is stronger: it is always current,
because only automation writes a lease that automation owns. The proof takes one
step per action and, below it, one per conjunct.

`ReplayEngineProofs` proves `TypeOK` and every safety property of the run `replay_engine`, for any
artifact (steps, recoveries, limits, references) and any number of resumptions, from
the assumptions on the constants: `TypeCorrect`, `LeaseCarried`, `NoRepeat`, `Fresh`,
`SuccessEarned`, `RightRecord`, `BrowserKept`. Its `IInv` adds to `TypeOK`

- `PlaceInv`: where each program counter can be, so that a pause is always at a main
  step and the checkpoint only behind the last;
- `BudgetInv`: an attempt kept over a pause is within the limit of its step;
- `LeaseInv`: who owns the lease and whether the browser is open, at each place;
- `OwedInv`: what is owed lies at or after the present step;
- `FreshInv`: outputs are current and the record identified where that is relied on;
- `EffectInv`: nothing after the present step has had an effect, nor the step itself
  as long as its attempt is known not to have touched the page (`Untouched`). This is
  the strengthening that matters: that no action is repeated follows only because
  every way to `prepare` (retry, next step, recovery, resumption) keeps it.

There is a lemma per part with a case per action; how `GoTo`, `Enter` and `Pause`
keep each part are lemmas of their own, used by every action that calls them.

`DiscoverySuiteProofs` proves, for any processes, threads, tenants, scenario codes and
bounds, from `ThreadsAssumption` and `SuiteAssumption`, that the file operations of the
registry, under the interleaved requests of the suites, implement `CapabilityCatalog`
(`RegistryImplementsCatalog`, `Spec => KeepsPublications`), and `SuitesAlwaysMatch` and
`VariantsAreAlwaysProven`. The invariant has a part for the registry and one for the
requests:

- `FilesOrdered`: versions are within the bound, only durable names are confirmed, and
  no file claims more than was replayed;
- `WriterPrepared`: until its link, the version of the thread with the lock is above every
  file, and what it reads back to confirm has been flushed;
- `SuitesSound`: not only every stored suite but every suite *read by a request under way*
  has an artifact made of its own trace and scenarios. That is why storing one that was
  read long ago cannot mix two; it does lose updates, which the properties below say;
- `WriterServes`, `PublishedConfirmed`: the file being written is the replayed artifact of
  the suite its writer read, and a published suite names a confirmed version.

That `publish_next` finds a highest version at all is `BoundedMax`, from the
well-foundedness of the naturals.

`SessionWorkerProofs` proves `ClosedAlwaysMeansClosed` for any callers and closers and
any capacity of the queue, from `CapacityAssumption` and `DistinctItems`. The property
speaks of a closer that has returned. Its `IInv` says why: one closer closes and holds
the lock until both its items are put (`OneCloses`), so the finalizer has only the
sentinel behind it (`QueueEndsRight`), is in one place from when it is put
(`FinalizerOnce`), and the thread leaves behind everything else (`SentinelLast`); a
waiting caller is in the queue or being served (`WaitersAreServed`).

`SessionHandoffProofs` proves `OperatorAlwaysHasTheBrowser` and
`AutomationRunsOnlyWhenResolved` for any runs, pauses and request threads, from the
assumptions on the constants (`OperationsAssumption` only says that no request is an
operation of its own kind). What makes the invariant inductive is what each request relies
on at each of its stages, between two holds of the runtime lock (`Relies`), that no two
requests settle, resume or wake the same run (`Alone`), and that a registration implies
where caller and worker are (`Registered`, `Threads`): its browser is idle, or in the hands of the
request that resumed it, or was left behind by one whose failure could not be recorded. `RunsOnlyWhenResolved` follows
because a waiting caller can only be told to resume for its latest pause (`Signals`).

`DiscoveryEngineProofs` proves every property of the run `discovery`, for any screens,
operations, conditions, policy layers, scenarios and budgets, from `DiscoveryAssumption`.
`IInv` ties the place in the loop to

- the budgets (`Budgets`): each model call but the planner's belongs to a step of its
  own, although a pause returns to the loop without one;
- the trace (`DoneIsRecorded`): at most one operation is done and not yet recorded, and
  only while its effect is being verified;
- the repetition counter (`TriedIsCounted`): it describes the end of everything tried,
  rejections included, since the last time a human had control;
- the scenario (`BranchIsProven`): a proposal still holds its condition to verify or has
  verified it, so that a marker is recorded only with its assertion;
- the browser (`SessionIsKept`).

The steps that end a run are alike and proved as one (`EndingQuits`). That the
intersection of layers allows no more than any one of them (`CeilingIsLeast`,
`IntersectionAllowsLess`) is proved for any number of layers.

`OperatorConsoleProofs` proves `AlwaysAcceptedOnce` and `AlwaysDecidedOnCurrentFrame` for
any operators, looks of the page and bounds. No answer is assumed to arrive, or to
arrive in order. The invariant is about frames: the session's is of this moment
(`LatestIsCurrent`), one with its number *is* it, wherever it is shown or under way
(`SeenIsGenuine`), and those of past inputs lie behind it (`InputsAreGenuine`).

`EvidenceJournalProofs` proves `EvidenceIsAlwaysSound`, `JournalIsAlwaysListed` and
`BundlesAreWhole` (an action property) for any threads and exporters and any limits, from
`LimitsAssumption` and `NoneAssumption`. Files are only added, so what was sound on a
disk remains so (`SoundnessIsKept`); what is under way is `JobIsSound`: the object a
record or an attachment has written is what its manifest needs, and the trace that a
finalization will report is true of the attachments. `OneIsCompleted` says that only a
journal that is finalized, or no more, has a completing manifest on disk, hence a repeated
finalization completes the run once. `ExportsAreSound` gives the destination to one
exporter at a time.

It also proves `EndsAreShown` (`ShowsTheEnd` of `ExecutionViewer`) for any limits and any
number of executions and pauses, from `ViewingAssumption`, `BoundsAssumption` and
`NilAssumption`, and `ClosedLeavesNothing`, the safety half of `CloseCompletes`. The property
is about a record, but the threads that report an end act at different times on what they
last knew of it. `ViewerInv` says, per execution,

- `RecordInv`, `RunningInv`: an operation that is not over has its record until its run
  has ended, and nothing has ended a run that is queued or runs;
- `PauseInv`: only the last pause is handled, a request that has not ended the run finds it
  not ended, and a published termination has finished the record;
- `WaitingInv`: a discovery is cancelled only after its termination is published, or at
  shutdown, when no request is in flight and nothing has ended its run. This is where
  "publish, then wake" is needed;
- `ReturnInv`: what an operation will publish is how the run ended, unless its record is
  finished already.

A step is of one execution, mostly, and `OneExecution` spares each action the others. That
`Start` finds a finished record to drop (`RoomIsMade`) follows from
`MaxActive <= MaxExecutions`, which `ViewingLimits` validates.

`SessionWorkerProofs` also proves the three properties of the run `surface`, for any pages,
locators, configurations and bounds, from `GridAssumption`, `PagesAssumption` and
`BundlesAssumption`: `AbsentErrorsFollowNoInput` (`AbsentMeansUndone`), `InputsAreAimed`
(`AimedAtTheTarget`) and `TextsAreLocated` (`ReadsWhatItLocated`). There are two layers.

- The grounder: a lemma per strategy (`TextIsFound`, `RelatedTextIsFound`, `AnchorIsFound`,
  `ControlIsFound`, `FieldValueIsFound`, `GroupImageIsFound`) shows that a cell it finds is
  the only one that fits the description of the locator; `Grounded` combines them. That two
  innermost groups around one label would be the same needs groups to be nested.
- The session: `SurfaceInv` says at which places a call of each kind can be (`Places`), that
  it has sent nothing before them but the click in front of its keys (`CallInv`), and that
  what a call goes by was true of a page *seen* in this call (`Located`, `SeenInv`), which
  may be another by now. Every step that sends nothing is `Quiet`: the call goes on
  unanswered at one of its places, or ends with an answer its kind may give; `SendKeeps`
  treats the inputs.

The engine model relies on the first where it repeats a step on `retry` errors only.

Every invariant named here was also checked by TLC on the instances of the runs. The
constants' assumptions say that the bounds are natural numbers and `None` is none of the
values it stands beside; `BoundsAssumption` of `OperatorConsole` lets a lease have a first
version.

Only model-checked: all liveness (`EveryoneReturns`, `EveryRequestReturns`,
`RecordedResumeGoesOn`, `ShutdownReleasesAll`, `AutomationEnds`, `CloseCompletes`, and
`ShowsTheEnd` and `OperatorGetsFrame` of the console), which is out of the prover's reach.
Every invariant, every action property and both refinements that the runs check are proved.

## Not modelled, and the plan

Models planned: the token and time budgets of the model provider; the frame buffer
and timeline of the viewer; the artifact validator of the runtime.

Not modelled, because they keep no state or only translate: run services, capability
artifacts and their serialization, the application registry, HTTP API and wiring, helpers,
schemas and scripts. The demo bank is the application under automation, which the
models let do anything. Out of scope: OCR and pixel segmentation, prompt construction,
redaction, and the model service and browser themselves.
