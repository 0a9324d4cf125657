# BACtalk controls workbench: TLA+ models, checks and proofs

This directory holds the verification project kept beside the workbench: TLA+
modules translated from the source, TLC configurations that check them on small
instances, and TLAPS proofs of what matters most for every value of the
constants. Paths are relative to the repository root.

## 1. Inventory of the system

The workbench turns a controls job (a sequence of operation, a point list, an
equipment type) into a *candidate run*: a control graph, a Niagara `.bog` or a
ProgramObject package, a test report and supporting files, all covered by one
digest. A run collects *qualification evidence* from external lanes (BOPTEST,
Alfalfa, the Niagara shadow runtime), is approved or rejected by an engineer,
and only an approved run can be exported. Several runs make a *project*, which
is approved and exported as one.

| Component | State it keeps | Operations | Interacts with | Hard behaviour |
|---|---|---|---|---|
| Qualification job plane (`qualification_jobs.py`, endpoints in `api.py`) | `record.json` per job: status, lease, progress, cancellation, verdict | create ×3, mark_running, heartbeat, update_progress, request_cancel, expire_stale, mark_succeeded / failed / canceled, dispatch, RQ callbacks | API, RQ and Redis, worker processes, run service | cross-process interleaving, crashes, leases, lost calls, late results |
| Run service (`service.py`, `domain.py`) | `manifest.json` per run, lane directories, digest | create_run, qualify_with_*, approve, reject, export, verify | jobs, repository, requirement approvals, projects, web application | long read–work–write handlers without a lock, digests taken late |
| Run repository (`repository.py`) | run directories and hidden staging directories | begin / commit / discard staged, save, get, list, removal of stale staging at start | every process that opens the store | crash recovery, deletion racing a build |
| Projects (`projects.py`) | project manifest, written in place, over several runs | build, approve, export_path | run service, run by run | no transaction, stale digests, torn writes |
| Requirement approvals (`protocol/approvals.py`) | one file per approved requirement digest | save, get, for_sequence | approve and export (Gate G-ENG), audit log | exists-then-replace over one staging path |
| Audit log (`security.py`, middleware in `api.py`) | hash-chained JSON lines | append, verify at start | every API request | a lock only threads share, short writes, power failure |
| Shadow runtime (`niagara/shadow/engine.py`, `policy.py`, `blocks.py`) | block inputs and outputs, timers, clock, propagation queue | start, set, invoke, advance | qualification, differential check | order of timers and link propagation, feedback loops |
| Module kernels (`niagara/shadow/kernels.py`) | the fields of each stateful component | reset, step | shadow runtime | sampling boundaries, dwell times, second executions |
| Graph simulator (`simulator.py`) | per-block memories | evaluate a step | agent, acceptance suite, differential check | the same, once per scan |
| Generated plant programs (`integrations/niagara_program_codegen.py`) | the fields of each ProgramObject | one execution | Niagara station, shadow runtime | latches on edges, three clocks in one machine |
| Differential check (`niagara/differential.py`, `niagara/shadow/driver.py`) | samples of both engines | run the phases of a case | the two engines | phases that begin between scans |
| Programming agent (`agent.py`) | attempts of one job | run | planner, acceptance suite | bounded retry |
| Evidence repositories (`sequence_review_repository.py`, `ctrl_flow_point_repository.py`) | two-file evidence directories | save, get, list | API | as the run repository |
| Lanes (`integrations/boptest_graph.py`, `alfalfa_*.py`, `bacnet_lab.py`) | a session with an external simulator | run cases, poll for cancellation | run service | network failures |
| Compilers, importers, protocol generation, AI proposals, web application, Java module, ops | little or none | translation, presentation | | |

Each hazard of the code is in `PROJECT.json` under `hazards`, at its line and with
the properties that would catch it. In short, what makes each part correct:

* **Job plane** – a run has at most one unfinished job; a verdict is final and
  true to the evidence; no worker that keeps its schedule is declared lost; two
  workers never work on one run unless one was disturbed; what started ends.
* **Run service** – whatever handlers race, the manifest agrees with the files
  it names; only a run whose recorded reports passed is reviewable; a decision
  is bound to its digest; recorded evidence stands. An exception that arrives once a
  manifest was replaced ends this (section 6).
* **Run repository** – a visible run is complete; a failed build leaves nothing;
  a dead one is cleared.
* **Projects** – without a lock, and for each run of which no save replaced what it
  had not read: what is approved was approved by one reviewer, and what is exported is
  what the project was built from. As long as one run of the project is like that, its
  approval is not written a second time.
* **Approvals and audit log** – whoever was answered is on record; the chain
  breaks only through disturbances that verification reports; requests that do
  not overlap create one approval.
* **Shadow runtime** – a settled engine satisfies every link and every gate
  under any policy; ticks neither drift nor get lost; overrides end on time;
  every call returns.
* **Blocks** – the kernel, the generated program and the interpreter's block are
  the same function of a case of one phase in which the block closes no feedback
  loop; elsewhere they differ by known bands; a minimum time is a minimum time.

## 2. Modules

| Module | Models | Role |
|---|---|---|
| `QualificationSlot` | the promise of the job plane: a run is a lock held by one job from admission to verdict | abstract specification |
| `QualificationJobs` | `qualification_jobs.py` and the job endpoints of `api.py` | detailed specification, refines `QualificationSlot` |
| `CandidateGate` | the promise to a reviewer: evidence accumulates on an open candidate, one failing report or one decision closes it | abstract specification |
| `RunLifecycle` | `service.py`: qualification, review, export of one run | detailed specification, refines `CandidateGate` with one handler at a time |
| `RunStore` | `repository.py` and the build in `create_run` | detailed specification |
| `ProjectBuild` | `projects.py`: a project over several runs, beside other handlers of those runs | detailed specification |
| `AuditLog` | the file behind `AuditLog` of `security.py`: what a write, a short write, an fsync and a power failure make of it | component |
| `RequirementApprovals` | `protocol/approvals.py`: the inodes behind `<digest>.json` and its staging path | component |
| `AuditedApprovals` | approval requests as `create_app` serves them: middleware, endpoint, audit append, crashes and restarts | composition of the two |
| `ShadowEngine` | `niagara/shadow/engine.py`: start, stimuli, link propagation, timers, clock | detailed specification, parameterised by the network and by what its blocks compute |
| `ShadowBlocks` | the blocks of `blocks.py` and `kernels.py` the checked networks are made of | operators |
| `StartOrder` | `_topological_order` of the engine, step by step | the algorithm behind the start order and the ties of timers |
| `ModuleKernels` | the stateful kernels of `kernels.py` | operators: fields after `reset`, one `step` |
| `InterpreterBlocks`, `PlantBlocks` | the stateful blocks of `simulator.py` | operators: a new state, one `evaluate` |
| `PlantPrograms` | the Java kernels generated for the plant blocks | operators |
| `ScanDifferential` | a case that drives one block in both engines | detailed specification |
| `BlockDefinitions` | what seven blocks are, over the whole of their inputs | reference definitions |
| `MC*` | networks, inputs and parameters; symmetry sets | model checking |
| `*_proofs` | theorems and proofs about the module of that name | TLAPS |

### QualificationJobs

A record is rewritten under one `flock`, so each repository method is one
atomic relation (`MarkFailed`, `MarkCanceled`, `MarkSucceeded`, `RecordStart`,
...). What is *not* atomic is a separate action: the API creates a record and
only then dispatches it (`Create`, `Dispatch`, `FailDispatch`, `ApiCrash`; the
dispatch may raise after the broker took the job); a worker takes the job, marks
it running, works, saves its evidence and only then records the verdict (`Take`,
`MarkRunning`, `ServiceReturns`, `RecordSuccess`, ...); RQ runs callbacks after
an exception, a dead work-horse or a stop (`FailureCallback`,
`StoppedCallback`); any client that polls may declare a worker lost
(`ExpireStale`).

| Variable | In the code |
|---|---|
| `status`, `phase`, `passed`, `started`, `cancelRequested`, `runOf` | fields of `QualificationJobRecord`: `status`, `progress.phase`, `qualification_passed`, `started_at`, `cancellation_requested`, `run_id` |
| `lease` | `lease_expires_at` minus the clock, in heartbeat periods |
| `broker` | whether RQ queues, has started or has canceled the job (external) |
| `api`, `worker` | where the creating request and the work-horse are |
| `steady` | history: jobs whose worker was never stalled, stopped or killed |
| `evidence` | the status of the evidence the worker's service call saved |

The three job kinds execute the same record operations and share one set of
actions. The lane's own work is the choice of a report or an exception.

### RunLifecycle

Each handler reads the manifest (`Qualify`, `Approve`, `Reject`), decides on the
snapshot, and later replaces the manifest by the snapshot with its own fields changed
(`SaveQualification`, `SaveApproval`, `SaveRejection`); nothing compares in between. A
qualification renames its reports into place, hashes and saves in three steps
(`Install`, `SignReports`, `SaveQualification`), and removes the reports when the save
raises: before the manifest was replaced (`UndoInstall`) or, as the code catches every
exception and one can arrive at any line, after it (`UndoSaved`). A digest is modelled
by what it covers: the content of the artifacts of `create_run` and the report of each
lane named in the manifest. Lanes in `LateLane` (the shadow runtime) look for their
directory only when their work is done, the others before. `Leave` is a refusal, a
cancellation, an exception or the death of a handler at any point; `Drift` is an
artifact that changes on disk. `Submit` and `OpenReview` are the two places where a
caller fixes the digest it expects before the handler runs. `Bundled` is the condition
of the review bundle, `Exportable` that of the export proper, which alone asks for Gate
G-ENG.

| Variable | In the code |
|---|---|
| `manifest`, `directory`, `base` | `manifest.json`; the report in each lane's directory; the content of the artifacts of `create_run` |
| `gate` | whether the requirement set of the run is approved |
| `pc`, `snapshot`, `lane`, `expected` | where each handler is, the record it has read, its lane, the digest its caller named |
| `undone` | history: a save that had taken effect was undone |

### RunStore

A build writes artifacts one by one into a staging directory, hashes them, writes
the manifest and renames; it may raise at any of these steps, the rename included. A
process that opens the store lists staging
directories and removes them entry by entry through an open handle, so it goes
on after a rename; any step of either side may be its last. `Exposed` are the runs
during whose build another process may open the store, which is what a deployment
with an API and workers does.

### ProjectBuild

`build` creates the runs one by one and signs the digests they had; `approve`
verifies all of them, then reads, approves and saves one after the other, then
writes the project's manifest; `export_path` verifies them all, then collects
their files. Each of those steps is an action, and a handler may be refused,
killed or overtaken between any two.

| Variable | In the code |
|---|---|
| `run` | the `manifest.json` of each equipment's run; its digest is the set of lanes that signed it |
| `client` | the run as read by a handler that works on it alone (a lane, an approval, a rejection) |
| `build`, `draft` | where `build` is, and the `ProjectRecord` it is about to write |
| `manifest`, `files` | the project's manifest, absent, torn or a record; the project's own files |
| `pc`, `at`, `snapshot`, `held`, `bundle` | where each request is, at which equipment, the record and the run it has read, the files it has collected |
| `died` | history: a process died inside `write_text` of the manifest |
| `crossed` | history: the runs of which a save replaced a manifest its handler had not read |

`RunLifecycle` has the races of one run in full. Here each run has one handler of its
own at a time (`client`) beside all those of the project, and no lock between them:
whoever saves may overwrite what another one saved since it was read, and `crossed`
remembers where. Two writers of the project's manifest are two handlers in `writing`:
`write_text` truncates first, and of two texts written to one file the longer may show
behind the shorter (`Written`).

### AuditLog, RequirementApprovals, AuditedApprovals

The two components are files, each with the operations of its code as actions
over the file alone. The log is kept twice: as processes see it (`log`) and as
of the last fsync (`disk`); a power failure leaves anything between the two. An
approval is an inode with a name: two requests that open the one staging path
write to one inode, and whoever renames it takes it away from the other.

`AuditedApprovals` composes them into the life of a request: denied or checked
(`Deny`, `Check`), staged, written and placed (`Open`, `Write`, `Place`,
`PlaceFails`), audited under the lock of its own process (`ReadHead`,
`AppendWhole`, `AppendShort`, `AppendFails`), answered after the fsync
(`Answer`). Processes crash, lose power together and start again, which
verifies the log (`Crash`, `PowerFails`, `Start`). The histories `cut`, `dark`,
`shared` and `raced` remember which disturbance happened, and the properties
say what each of them can break.

### ShadowEngine

The module fixes what the engine does with *any* network: the links, what a
block computes (`Gate` for a memoryless block, `Compute` and `Remember` for any
other), its period and whether it executes on a change of an input are
constants. An execution policy (`policy.py`) is one element of `Policy`: the
order in which a block's links fire, depth-first or breadth-first propagation,
the ties of timers due together, the order of the first executions.

| Variable | In the code |
|---|---|
| `input`, `output`, `memory` | a block's `inputs`, its `out`, the rest of its fields |
| `work` | the deque of `_run`, as the links still to deliver; its front is delivered next |
| `counts` | `counts` of `_propagate_from`, compared with `loop_limit` |
| `remaining`, `dirty` | the rest of the synchronous pass of `start`, and the blocks it noted |
| `timers`, `late` | the heap `_timers` (ordinary timers as a set, `due` and `tie` order them; the second samples of an instant in the order they were asked for) |
| `now`, `target` | the clock, and where the running `advance` ends |
| `phase` | which public method of the runtime is executing, and how far it is |
| `until` | history: when the operator's override of a block ends |

One action is one turn of a loop of the code: `PassOne` of the pass of `start`,
`Skip`, `Store`, `React` of `_run`, `Tick`, `Expire`, `Resample` of `advance`.
A call into the engine is a stretch of steps from `phase = "rest"` back to it, or
to `"loop"`, the loop error. A stimulus (`Write`, `Override`, `Auto`,
emergencies, `Advance`) begins only at rest, as the engine has one thread.

`MCShadowEngine` gives the constants values, with blocks of `ShadowBlocks`:
`gates` (a glitch clocks a latch; beside it a loop that oscillates once its input
is true) and `ticks` (a delay that inverts itself; behind it a pre block and two
samplers, which drive a point).

### StartOrder

The three loops of `_topological_order`: the roots in turn (`Begin`), the links
of the block on top of the stack (`Follow`), the end of a block (`Finish`). The
order is kept latest first, which is the `reversed(postorder)` of the code.

### ModuleKernels, InterpreterBlocks, PlantBlocks, PlantPrograms

A stateful block exists twice: as a component of the exported program, whose
kernel the shadow runtime executes, and as a block of the graph interpreter. For
a kernel `K`, `KStart` is what `reset()` leaves and `KStep(k, t, u)` is one call
of `step()`; for an interpreter block `B`, `BNew` and `BScan(m, t, dt, u)` are its
state and one evaluation. The four modules hold 23 blocks of `kernels.py`, from
delays and timers over samplers and counters to the PID and trim and respond,
and the six state machines of a plant that are exported as generated Java.

### ScanDifferential

`Start`, `Phase` and `Scan` are the three things the driver does to both engines:
prime them, write the inputs of a phase, and advance by a scan. `feed` is where the inputs
of the block come from, which is what makes its two executions differ:

* `points`: input points of the case, which change when a phase begins. The interpreter
  is then evaluated once without time passing (`Phase`); the component is not executed.
  It may tick once or several times per scan (`ticks`).
* `blocks`: blocks that tick before it, in a case of one phase. At its tick it sees
  whatever they show at that moment (`Unsettled`) and, if it samples, is executed again
  when everything due has run (`Resampled`).
* `phases`: the same in a case of several phases. The evaluation without time reaches
  the block here too, with what the blocks before it make of the new inputs.
* `loop`: a feedback loop that a pre block opens (`Opens`). It is the first block
  of its loop to tick (`engine.py:236`) and does not sample again, so it is given what
  its source showed at the instant before (`Delivered`).

`kernel` and `memory` are the fields of the two implementations, `samples` the last
pairs of outputs the comparison looks at, and `shown` and `trace` are histories for
`DwellTimes` and for `MeetsDefinition`. `Clocked` are the kinds that a second
evaluation at one instant does not move.

## 3. Runs

| Run | Bounds | Question |
|---|---|---|
| `jobs_safety` | 2 jobs, 1 run, lease 2 ticks, silence 2 ticks | safety of the job plane and refinement of the slot |
| `jobs_liveness` | 1 job, 1 run, lease 3, silence 2 | every started job ends, every dispatched one with one exception |
| `run_races` | 3 handlers, an early and a late lane | what holds of a run under races |
| `run_serial` | 1 handler, 3 lanes | what holds without races; refinement of `CandidateGate` |
| `run_lost_failure` | 2 handlers, 2 lanes | a documented promise that races break (section 6) |
| `store_openers` | 2 runs, one of them exposed, 1 artifact, 2 openers | builds, crashes and openers in every order |
| `projects` | 2 runs, 2 handlers of the project and one of each run, 2 lanes | whose approval a project carries, what is exported, what a death and two writers leave |
| `audit` | 3 requests, 2 processes | who is on record after crashes, short writes and power failures |
| `shadow_gates` | 9 blocks, both propagations, both link orders, 2 start orders, clock to 2 | no change is lost on a link, no gate is left behind, calls end |
| `shadow_ticks` | 6 blocks, advances and overrides of 1 to 3, clock to 6 | ticks keep time, overrides end on time, samples are settled |
| `start_order` | every network of three blocks | the order has each block once and ignores only links of loops |
| `scan_blocks` | 29 kinds of blocks, four feeds, times of 2 and 3 scans, 1 and 2 ticks per scan, 8 scans (9 for a chiller, 7 for integrator, counter and trim and respond) | where the two implementations of a block agree, where one lags and by how much, that they compute what they are defined to, and keep minimum times |

**Why the bounds are enough.** In the job plane jobs interact through one thing
only, the run's slot; two jobs contend for it, and a third adds no new pair.
Runs do not interact. The lease is a counter compared with one threshold: a
lease of two ticks distinguishes fresh, last tick and expired, and a silence
equal to the lease is the tightest schedule the constants admit (the code's are
30 periods and 2). In the run module the longest chain of hazards needs a
handler whose snapshot is stale, one that made it stale and one that acts on the
result: three. Two lanes cover one of each kind. In the store an artifact and the
manifest are what a partial deletion needs; two openers what two concurrent
deletions need; two runs what an opener needs that goes on from one to the next.
A project of two runs tells a lost save on one of them from a lost save on both, an
approval cut short between them from a whole one, and what is verified early from what
is verified late; two handlers are two reviewers, or a reviewer and an export. For
the audit log, a fragment, the line glued to it and a line after both are three
appends, and a fork of the chain needs two processes.
In the engine, orders differ as soon as two links or two timers compete, and a
glitch needs two paths of different length to one block; the networks have
both, and every combination of propagation, link order and start order is tried. `loop_limit`
(1000 in the code) is stood for by a limit of 6 and a network that much
smaller; the clock (`Horizon`) runs over three periods of the slowest block, and
advances shorter and longer than a period end between and on ticks. In
`shadow_ticks` timers fire in the default order, in which the pre block ticks before
the sampler behind it, and in document order, in which it ticks after it, so that the
first sample is of a value that is not settled and only the second one is right. In
`StartOrder` three blocks suffice for loops, loops entered from outside and blocks
reached twice. In `scan_blocks` a case is long enough to fill each window, hold
and sample period at least twice with every input at every scan; values are few,
but on, between and beyond each threshold. All counters are bounded by construction or by a
guard (`Horizon`, `LoopLimit`); no state constraint is used.
Symmetry is used in runs that check safety and action properties only.

**Fairness** (`FairSpec` of `QualificationJobs`): RQ serves its queue and runs
the callbacks it owes to a live work-horse, a work-horse that lives runs its
code to the end (RQ's job timeout raises in a call that hangs), somebody polls,
time passes. Nothing is assumed of the dispatching request, of cancellation, of
heartbeats, or of the callback for a work-horse that died – which is why
`StartedJobsEnd` needs the lease, and `DispatchedJobsEnd` has its exception: a
work-horse that dies before `mark_running` leaves a record with no lease.
`FairSpec` of `RunStore`: a running build reaches an end; processes that open
the store keep coming and not each one is killed at the same step (strong
fairness of each deletion step, because kills disable it again and again).
`FairSpec` of `ShadowEngine`: a call, once begun, is executed
to its end by its one thread. Nothing is assumed of the caller.

**Mutants.** Next to some definitions stands one marked *Mutant*, with the same
parameters: the code with a plausible bug. No specification uses it. Put in the
place of the definition it precedes, it must break the property `PROJECT.json`
pairs it with, which shows that the property says something about the code.

`CHECK_DEADLOCK FALSE` stands where a system really stops: a store whose builds are
over and whose staging is empty, an engine after the loop error, a search that
has finished, a project whose requests have all been served, a log whose requests
have been answered, a case that has reached its last scan.

## 4. Proofs

**`QualificationJobs_proofs`**, for any sets of jobs and runs and any lease
and silence with `1 <= MaxQuiet <= LeaseTerm`: `TypeCorrect`, `SlotExclusivity`,
`NoFalseLoss`, `TruthfulSuccess`, `NoOverlap`, `PhaseAgreement`, `FinalVerdict` and
the refinement `SlotRefinement`. The argument is one inductive invariant
(`IInv`). The safety properties are not inductive alone: exclusion of workers
(`NoOverlap`) follows from exclusion of records only if a worker that executes
and is undisturbed still owns a leased record, which in turn needs that a steady
worker's lease never ran out, that a terminal record has no lease, that a record
gets `started` exactly when it leaves `queued` for work, and that only a request
that erred fails a record a worker may still take. The invariant states those
ties between record, worker, lease, broker and request; each action preserves
each conjunct.

**`RunLifecycle_proofs`**, for any handlers and lanes: `TypeCorrect`, `Integrity`,
`Reports`, `Decisions`, `ReportsStand`, and with at most one handler
`SerialRefinement` (the run implements `CandidateGate`) and `SerialApproval`. The
inductive invariant has two parts. `Firm` holds whatever happens: types, the decision
that binds its digest, the gate. `Sound` extends what is wanted of the manifest on disk
to every *snapshot* a handler still holds or has signed, since a save makes the
snapshot the manifest, and says that a handler that has installed its reports owns a
lane no manifest and no other snapshot names; that is what makes the undo of a save
without effect harmless. `Sound` ends when a save that took effect is undone
(`undone`), and `Integrity`, `Reports` and `ReportsStand` say so.

**`RunStore_proofs`**, for any runs, artifacts and openers: `CompleteWhenVisible`,
`NothingLeft`, `VisibleRunStays`. The invariant says that an opener deals only
with what it found in staging when it listed it, so a run whose build no opener
saw is beyond its reach before and after the rename.

**`ProjectBuild_proofs`**, for any number of equipments, handlers and lanes:
`TypeCorrect`, `ProjectApproval`, `ExportReviewed`, `ManifestReadable`,
`ApprovalStands`. The key fact is that a run of which no save has replaced what it had
not read (one not in `crossed`), once approved, is never saved again, since whoever
saves has read it while it was ready: its first approver keeps it. A request that has
got as far as equipment `i` is the reviewer of each such run before it, so two requests
that write the project's manifest have between them crossed every run. That is why
`ApprovalStands` and `ManifestReadable` ask for one run that is not crossed, and it is
all they ask; nothing is assumed of who works on a run at the same time.

**`AuditedApprovals_proofs`**, for any requests and processes: `AnswersAccounted`,
`Chain`, `Damage`, `ApprovalKept`. The invariant relates the log to its fsynced
part and to each request's place in its protocol; its step is that the log only
grows: a line stays as it is, or is the last one and becomes `Cut`. `Damage` says that
a line that does not parse is the last one, not that nobody was answered for it: a
request whose own line was cut short is answered all the same, and its event is not in the
log (`AnswersAccounted` says that the log then does not verify).

**`ShadowEngine_proofs`**, for any network, block functions, policies, loop limit
and horizon that satisfy the module's assumptions: `TypeCorrect`,
`LinksCarryAlways` (a link whose target does not show its source has a delivery
to come), `SettledAlways` (a memoryless block that does not show the function of
its inputs will be executed) and, from both, `Fixpoint`: whenever a call has
returned without the loop error, every link and every memoryless block satisfies
its equation. So for a network of memoryless blocks any two policies end in
solutions of the same equations. The invariant says at each phase *what is still
owed*: in the pass, a block not yet reached or noted; in a propagation, a link in
`work`; at an expiry, the timer. `LinksCarry` and `Settled` are not
inductive alone: `Shape` ties the phases to their variables (nothing is noted
outside the start, nothing fired waits during the pass or at rest), and
`Expiring` says an expiry belongs to a writable point, without which the input it
clears could be one a link drives.

The same module continues with the clock: `TicksInTime` and
`OverridesInTime`. The invariant adds that nothing is due behind the clock, that
each module block has exactly one tick and it is at a multiple of its period, and
that a point has exactly one expiry while its override has an end.

Last in the module is `SettledSamples`: a block that ticked at the instant at which
an advance ends has sampled the settled value of its input (`SamplesSettled`). A
sample is taken twice: at the tick, and again when everything due at the instant has
run (`late`). The second samples change outputs in turn, so what must be shown is
that none of them disturbs one already taken. The invariant `SInv` has three parts.
`Owed`: a block whose second sample is still to come has taken its first at this
instant, so that the second changes nothing but what follows from the other input.
`InTurn`: the ticks still due and the second samples still to be taken are in the
order of their places. `Stands`: a second sample that was taken is still of what the
input shows, and links on their way come from blocks at its place or further on.
The theorem has the hypothesis `Sampling`, for some places of the blocks and a set
`stirred` of those a second sample can reach: links from a stirred block lead forward,
and into a sampling block strictly so; ties and `SampleOrder` follow the places; a
block executed again at the same instant with the same input changes nothing; and a
sampling block that is not stirred shows the same whatever the second input, as a
unit delay does. The first two are false of networks whose timers fire in another
order, where the property is too (section 6). TLC evaluates `Sampling` for the network
of `shadow_ticks` (`SamplingAssumption`).

**`StartOrder_proofs`**, for every network and every choice of the blocks that hold a
value back: `TypeCorrect`, and `LoopsOnlyIgnored`: a link that the start order
ignores closes a loop. The invariant describes the search at each of its steps: the
stack is a path of links that carry (`Path`), everything reached is on the stack or
finished (`Reached`), the sequence a frame has still to go through is a tail of its
node's sources (`Open`), and what is finished has only finished sources, those left
aside by an ignored link excepted (`Finished`). An ignored link leads to a block on
the stack, and the path from there is the loop. `Of`, the recursive function that
collects the sources of a set as a sequence, is shown to hold each of them by a
least counterexample (`Least`): the theorem on strict subsets being well founded
gives a smallest set that fails, and taking one element from it a smaller one.

**`ScanDifferential_proofs`**, for any inputs, times and capacities: `MinimumTimes`
(holds, plants, equipment and stages keep their minimum times) and
`ChillerInterlock` (a chiller runs only within its permission, after its delay and
its rest). A hold keeps a running sum, a plant an instant; the invariant ties both
to the history: the elapsed time of a hold is the age of its output, plant and
stage know the instant of their last change, equipment that is switched off has
been so since that instant or has waited already, and while a chiller rests its
timer began after it stopped.

The same module proves `Agree`, for all 29 kinds of block, any parameters and any
sequence of inputs: in a case of one phase, a block that is fed by blocks which tick
before it and that opens no feedback loop shows the same at every scan in the lowered
program and in the interpreter. In a case of several phases the theorem covers the kinds
of `Clocked` only: each later phase evaluates the interpreter alone, without time
passing, and the lemma `ClockedRests` says that this leaves their memory where it was; a
pulse or a level that follows its input is moved by it (section 6). That the blocks
which feed a block tick before it is the default order of ticks, by the start order, or
document order where the document has it. The two keep different fields, so the
invariant `AgreeInv` is a relation: for each kind, `Alike` says which fields of the
kernel and which memory of the interpreter stand for one state (a running sum here is a
start instant there; a list of samples here is a list of checkpoints there; a field one
of them has not yet written is free). For each kind a lemma, its `Twin`, shows that one
instant of both keeps them alike and shows the same. Where the module resamples
(`Resampled`) the kernel is executed twice at an instant, first with inputs of the scan
before: the lemma then shows that the second execution computes again what the first
did, so that only the settled input counts. A moving average agrees while its window is
shorter than the 64 checkpoints the interpreter keeps (`simulator.py:447`): the theorem
has `Window < MaxPoints` as its hypothesis, and section 6 says what happens beyond.
`Alike` was checked by TLC over all kinds before it was proved.

For a pre block that does open a loop the same module proves `FeedbackLags`
(`LoopLags`): it shows at each scan what the interpreter's showed at the scan before,
given a source that shows the same in both engines. The invariant is that the kernel
remembers what the interpreter last showed, and the interpreter its last input. What the
rest of the loop makes of a lag of one scan depends on the loop and is not modelled.

The same module proves `MeetsDefinition`, for a sequence of inputs of any length and
every parameter: what the seven blocks of `BlockDefinitions` show is what the
definition makes of all of the inputs, though they remember a few numbers of them. The
invariant `MeetInv` gives each kind a history (`DelayKept` ... `MeanKept`): a waiting
delay holds the age of the run of true inputs, a timer the instant the run began, a
sampler the input at the last boundary, an integrator the sum since the last pulse, a
counter the number of pulses since the last reset, a moving average the sums up to
each instant of its window. One lemma per kind (`...History`) shows that an instant
keeps it and shows what the definition says of the longer trace. Four of the kinds
run twice at an instant in the module; their history is kept for the block of the
interpreter, and `Agree` carries it over. A moving average runs once, so its history
is that of the module's kernel and needs no hypothesis on the window. The sums are
`MapThenSumSet` of the community modules, a recursive function on the subsets of a
finite set: instead of an induction, which the provers cannot use, each fact about
them takes a smallest set for which it fails (`Smallest`, from the well-foundedness of
strict inclusion) and refutes it.

The same module proves `BandHolds`: where a phase begins between scans, the module
has been primed by an evaluation the interpreter did not make at an instant of its
own (or the reverse), and yet each sample of the program is one the differential
accepts (`InBand`). Two runs that start apart are not alike, so the invariant
`BandInv` says how far apart they may be. Its first part, `Trailing`, has for each
kind a relation (`...Trails`) between the fields of the program and the memory of the
interpreter: how many seconds, at most the ticks of one scan, the program may be
behind, and in which states it must not be. Its second part, `Paired`, is about the
samples: each sample of the program but the last equals a sample of the
interpreter beside it, and the last equals the one at it or before it; a unit delay
whose period is shorter than the scan may be one ahead (`Overtakes`). For each kind
one lemma shows that priming establishes its relation and another that a scan with
one input keeps it and pairs the samples. The theorem has two hypotheses
(`Judgeable`). A hysteresis has its low limit below its high limit, which the code
enforces (`kernels.py:1008`). A timer with reset has a threshold other than the
ticks of one scan: `InBand` is false where they are equal (section 6), and TLC finds
it to hold in the other pairs it was given, so the hypothesis takes away no more
than it must.

The assumptions are on constants only. For the engine they ask nothing of the block
functions but that values of the network go to values of the network; of links, that no
two drive one slot and that the operator's and the emergency slot of a point are not
driven; only `SettledSamples` asks more (`Sampling`, above). For the blocks they give
the signs of times and capacities, say that inputs are values of the block's ports, and
that a period is positive and a delay is not negative.

Only model-checked: liveness under fairness (`StartedJobsEnd`,
`DispatchedJobsEnd`, `StagingCleared`, `Settles`), which is out of the
prover's reach. Every invariant and every action property of a passing run is a
theorem.

## 5. Not modelled, and why

* Memoryless arithmetic, psychrometrics, calibration: floating point, no state.
  Where a block with a state computes, numbers are integers; the derivative of the
  PID, slew rates and wet-bulb limits are left out.
* In the plants: `PLANT_ENABLE` with a schedule of its own (the one given by an
  input is modelled); masks are sets; a capacity is positive; the hysteresis of
  1e-4 of a capacity is a band of 1; the delay of a chiller, 5 s in the code, is a
  parameter.
* In the job plane: a record that does not parse is skipped when unfinished jobs are
  counted (`qualification_jobs.py:370`). Records are replaced atomically, so no step
  of the code leaves one.
* In the run store: an exception that arrives after the rename of a build took effect
  is caught like any other (`service.py:253`), but finds no staging directory to
  discard; the run stays, visible and complete.
* The kernel of a true delay has a branch for a delay on its first input
  (`kernels.py:180`) that the exporter's lowering does not reach.
* In the shadow runtime: a block has one output; null is one value and the other
  status flags are left out; minimum on and off times, stock Boolean delays,
  one-shots, multivibrators, thermostats, loop points, schedules and histories have
  timers of their own that are not modelled; noted blocks are executed in any
  order (the code has the start order); points are written at levels 1, 8 and 16;
  the engine is not used after a loop error; the clock is an integer.
* The fault injector of the simulator and the programming agent: one thread, a
  bounded loop, nothing kept that a test does not see.
* The evidence repositories: the staging protocol of `RunStore` over two files.
* Compilers, importers, protocol generation and AI proposals: translations with
  no state.
* The lanes' protocols: only their outcomes are seen (a report, an exception, a
  question for cancellation).
* Tokens, roles, read-only endpoints, the web application beyond the digest it
  reviews, operations.
* Formats: JSON, ZIP, hashes. A hash is what it covers; collisions are ignored.

## 6. Disagreements with the documentation, and behaviour worth knowing

One disagreement is a run that TLC ends with a counterexample (`findings` in
`PROJECT.json`): in `run_lost_failure`, `approve` saves a manifest it read earlier,
so a failed verification saved in between is overwritten and the run is approved,
although `service.py:1424` says that a failure blocks approval.

The models show more; the properties above are stated so that they hold beside it.

**Runs and jobs**

* The same lost update overwrites a rejection, and drops evidence that was signed
  between `approve`'s comparison of digests and its save.
* An artifact changed while a qualification works is hashed again with the new
  reports and becomes part of a valid digest (`service.py:1545`, against
  `README.md:50`).
* A qualification whose save raises removes the reports it installed, on any
  `BaseException` (`service.py:926`, `service.py:1149`). If the exception (a job's
  timeout, an interrupt) arrives once the manifest was replaced, the manifest on disk
  names reports that are gone, and the run fails every later integrity check
  (`UndoSaved`).
* The review bundle of an approved run does not ask for Gate G-ENG again
  (`service.py:1386`), its export does.
* A worker that dies between renaming its evidence into place and saving the
  manifest leaves a lane directory that refuses every later qualification in that
  lane (`service.py:782`).
* A record whose request died before dispatch, or whose work-horse died before
  `mark_running`, has no lease, so nothing expires it: it stays queued and occupies its
  run until somebody cancels it.
* Constructing a `RunRepository` deletes staging directories of builds that are
  still going on in another process, and goes on after a rename
  (`repository.py:59`); `Exposed` names the runs this can happen to.

**Projects**

* An approval cut short leaves the first runs approved, and `workbench.approve`
  takes only runs that are ready: the project can never be approved afterwards.
* A lane that signs a run after the build makes approval and export of the project
  fail for good.
* `approve` names no digest of a run. A run signed between the project's
  verification and its own approval gets the project approved but not exportable.
* Nothing locks a project. Two reviewers that read each run before either saved it are
  both told that they approved the project, and the manifest, written in place, names the
  one who wrote last or, if they wrote together, may not parse
  (`projects.py:682`, `projects.py:483`). It takes such a lost save on every run.
* A run overwritten by a race after the project's approval (a rejection saved at
  the same digest) is still exported with it.
* Death inside `write_text` loses the project's manifest with its approvals.

**Approvals and audit log**

* Two engineers whose saves overlap share one `.json.tmp`: one may be told 201 while
  the file holds the other's approval, the other gets an unhandled
  `FileNotFoundError`.
* An exception that escapes `call_next` leaves no audit record.
* After a torn line every later append fails, with status 500 after the effect, and
  the API refuses to start. A line cut just before its newline verifies until the
  next append is glued to it.
* Approvals are not fsynced and the log is: a power failure can undo an approval
  that is on record.
* Two processes that append together fork the chain: the lock of `append` is one
  between threads, and each process chains to the head it read (`security.py:195`).
* A short write is not noticed (`security.py:216`): its request is answered, and its
  event is the damaged last line.

**Shadow runtime**

* Depth-first propagation executes a block once per path that leads to it, so a
  network with no loop can exceed `loop_limit`, documented as the sign of one
  (`engine.py:406`, `docs/niagara-semantics.md:103`).
* `_topological_order` follows links out of a delay into a loop that another delay
  drives, and opens that loop elsewhere than at its own delay. From a delay `d` that
  drives `x`, with `x` and a second delay `e` in a loop, the order is `d, x, e`.
* Timers due up to 1e-9 s after the target of an advance fire and take the clock
  with them (`engine.py:350`).
* `SamplesSettled` depends on the order of timers: second samples run in the order of
  the first ones, and where a sampler runs before the one in front of it, it keeps a
  value that is not the settled one. S-MODULE-6 (`docs/niagara-semantics.md:136`)
  promises the settled value under every policy, and `PLAUSIBLE_POLICIES` has two with
  reverse and shuffled ticks (`policy.py:67`), for which it does not hold. With
  `SamplingAssumption` taken out of `MCShadowEngine` and `Ticks = {"shuffle"}` in
  `shadow_ticks.cfg`, TLC shows it.

**Blocks in two engines.** In a case of one phase the 29 blocks agree at every
scan, unless they open a feedback loop or tick before what feeds them (`Agree`). A pre
block that opens a loop is one scan behind (`LoopLags`). Where a phase begins between
scans blocks fed by points are held to the band of the differential (`InBand`), and
blocks fed by blocks agree if they go by a clock. Beside that:

* `Pre` exists for feedback loops, and in one it is rooted first in the order of ticks
  (`engine.py:236`), has a source at its start (`blocks.py:1116`) and does not sample
  again (`blocks.py:1366`): it passes on its source's old value. The repository knows:
  `docs/niagara-semantics.md:184` and items 3 and 6 of
  `docs/decisions/011-test-generation-protocol.md` (chains of `Pre`, `TimerAccumulating` and
  `SetReset` land up to three scans late), the `scan` bands of `bands.json`, which carry
  that slack, and item 23 of `docs/decisions/015-chiller-plant-subsystems-and-tier2b.md`
  (a loop that alternates on every scan, where the lag decides which half is seen).
* The evaluation at zero time that begins each later phase (`simulator.py:1651`) reaches
  every block of the graph, not only those fed by points. A block fed by blocks that
  shows a pulse, holds, accumulates or follows its input with a memory of the scan
  before is moved by it in the interpreter alone, so `Agree` leaves those kinds out of
  cases of several phases.
* An accumulating timer whose input drops just at its threshold at the beginning of
  a phase diverges for good, and a hold that sees a switch one scan earlier is a
  whole hold apart; `docs/decisions/008-differential-bands.md` promises Booleans and
  integers exact within one or two scans. `InBand` leaves out both.
* The evaluation without time that begins a phase in the interpreter consumes an edge
  (`simulator.py:1656`), so kinds that show a pulse are left out too, as are numbers
  that change with every scan: the band has no tolerance of values here.
* A timer with reset whose threshold is exactly one scan: a reset at the beginning of
  a phase counts from there in the interpreter, which shows `passed` at every scan,
  and from the first tick in the module, which shows a scan without. Of 13 pairs
  of a threshold (0 to 4 s) and a scan (1 to 3 s) tried with TLC, `InBand` is violated
  in the three where they are equal; the run has a threshold of 3 s and scans of 1 and
  2 s.
* A first-order hold keeps a start value it sampled before its input settled through
  its first period.
* The interpreter's moving average keeps 64 checkpoints (`simulator.py:447`), the
  kernel all of them (`kernels.py:478`).
* The lowering of a true delay drops `off_delay_seconds` when it does not delay on
  init (`niagara/module.py:134`).

**Generated programs**

* A clock that steps back makes a ProgramObject show its last outputs until the
  clock has caught up; inputs that are not ok make its outputs null, and it takes no
  step.
* Stage completion: a command that changes in the scan before a stage change and
  another one in its very scan leave the latch unset, and the change is not waited
  for.
* Chiller enable: a disable pulse during the 5 s delay resets the latch, which is
  not set again until one of the conditions has dropped.
* A stage that becomes unavailable with no higher stage to go to stays active until
  its minimum runtime is over and it is told to stage down.

## 7. Plan

Done: the job plane with its slot; the run life cycle with its gate; the run store;
projects; audit log and approvals composed into requests; the shadow engine with its
clock and start order; the stateful blocks and the plant programs in both engines;
the proofs of section 4.

Left, in this order:

1. `ShadowPoint` – minimum on and off times, Boolean delays, one-shots: timers
   against a reference definition over traces of inputs.
2. `QualificationSystem` – jobs and runs composed: the job's digest, its verdict
   against the run's recorded report, the lane that stays occupied.
3. The evidence repositories and `ProgrammingAgent`.
