------------------------- MODULE QualificationJobs -------------------------
(***************************************************************************)
(* The durable qualification-job plane (qualification_jobs.py and the      *)
(* qualification-job endpoints of api.py).                                 *)
(*                                                                         *)
(* A job record lives in a file that every process reads and rewrites      *)
(* under one flock, so each repository method is one atomic step here.     *)
(* What is not atomic is everything around the record: the API creates it  *)
(* and only then dispatches it to the broker; a worker process takes it    *)
(* from the broker, marks it running, keeps its lease alive from a         *)
(* heartbeat thread, polls for cancellation, saves evidence on the run and *)
(* only then records the verdict; the broker runs failure and stop         *)
(* callbacks; any client that polls may declare the worker lost.           *)
(*                                                                         *)
(* Time is counted in ticks (ten seconds, the heartbeat period).  lease[j] *)
(* is the number of ticks the lease still has, Expired once it has run     *)
(* out, NoLease when the record carries none.                              *)
(***************************************************************************)
EXTENDS Integers

CONSTANTS
    Job,        \* job identifiers (uuid4, so never reused)
    Run,        \* candidate runs
    LeaseTerm,  \* ticks a lease lasts after each heartbeat
    MaxQuiet,   \* longest silence, in ticks, of a worker that is not disturbed
    NoRun       \* the run of a job that does not exist yet

(* A working worker writes to its lease more often than the lease lasts:   *)
(* QUALIFICATION_HEARTBEAT_SECONDS = 10 and the join of at most 10 more    *)
(* before the verdict, against QUALIFICATION_LEASE_SECONDS = 300.          *)
ASSUME LeaseAssumption ==
    /\ LeaseTerm \in Nat \ {0}
    /\ MaxQuiet \in 1 .. LeaseTerm

ASSUME NoRunAssumption == NoRun \notin Run

VARIABLES
    \* --- the record of each job (record.json) ---
    status, runOf, phase, lease, passed,
    started,            \* jobs whose record has started_at
    cancelRequested,    \* jobs whose record has cancel_requested_at
    \* --- the broker (RQ on Redis), external ---
    broker,
    \* --- processes, per job ---
    api,                \* the request that created the job (refused: it answered 503)
    worker,             \* the work-horse process
    steady,             \* jobs whose worker has kept its heartbeat schedule so far
    \* --- what the job left on its run ---
    evidence

recordVars == <<status, runOf, started, phase, cancelRequested, lease, passed>>
procVars == <<api, worker, steady>>
vars == <<status, runOf, started, phase, cancelRequested, lease, passed,
          broker, api, worker, steady, evidence>>

NoLease == -2
Expired == -1

Active == {"queued", "running", "cancel_requested"}
Terminal == {"canceled", "succeeded", "failed"}
Leased == {"running", "cancel_requested"}

Phase == {"none", "queued", "starting", "working", "cancel_requested",
          "canceled", "completed", "failed", "worker_lost"}

(* Work-horse states in which Python code of the job is still to run. *)
Alive == {"starting", "executing", "saved", "canceling", "failing", "raised"}
WorkerState == Alive \cup {"none", "stopped", "dead", "done"}

Init ==
    /\ status = [j \in Job |-> "absent"]
    /\ runOf = [j \in Job |-> NoRun]
    /\ started = {}
    /\ phase = [j \in Job |-> "none"]
    /\ cancelRequested = {}
    /\ lease = [j \in Job |-> NoLease]
    /\ passed = [j \in Job |-> "none"]
    /\ broker = [j \in Job |-> "none"]
    /\ api = [j \in Job |-> "idle"]
    /\ worker = [j \in Job |-> "none"]
    /\ steady = Job
    /\ evidence = [j \in Job |-> "none"]

-----------------------------------------------------------------------------
(* The repository methods, as relations on the record of job j.            *)

(* A terminal rewrite: new status and phase, the lease dropped. *)
Close(j, st, ph) ==
    /\ status' = [status EXCEPT ![j] = st]
    /\ phase' = [phase EXCEPT ![j] = ph]
    /\ lease' = [lease EXCEPT ![j] = NoLease]
    /\ UNCHANGED <<runOf, started>>

(* Mutant: mark_failed closes a record that already has a verdict. *)
MarkFailedAnyway(j) ==
    /\ Close(j, "failed", "failed")
    /\ UNCHANGED <<cancelRequested, passed>>

(* mark_failed: the first verdict wins. *)
MarkFailed(j) ==
    \/ /\ status[j] \in Terminal
       /\ UNCHANGED recordVars
    \/ /\ status[j] \notin Terminal
       /\ Close(j, "failed", "failed")
       /\ UNCHANGED <<cancelRequested, passed>>

(* Mutant: mark_canceled closes a record that already has a verdict. *)
MarkCanceledAnyway(j) ==
    /\ Close(j, "canceled", "canceled")
    /\ cancelRequested' = cancelRequested \cup {j}
    /\ UNCHANGED passed

(* mark_canceled: refused by a success or a failure, repeated otherwise. *)
MarkCanceled(j) ==
    \/ /\ status[j] \in {"succeeded", "failed"}
       /\ UNCHANGED recordVars
    \/ /\ status[j] \notin {"succeeded", "failed"}
       /\ Close(j, "canceled", "canceled")
       /\ cancelRequested' = cancelRequested \cup {j}
       /\ UNCHANGED passed

(* Mutant: a service call that returned counts as a passed qualification. *)
MarkSucceededPassed(j) ==
    \/ /\ status[j] \in Terminal
       /\ UNCHANGED recordVars
    \/ /\ status[j] \notin Terminal
       /\ Close(j, "succeeded", "completed")
       /\ passed' = [passed EXCEPT ![j] = "pass"]
       /\ UNCHANGED cancelRequested

(* mark_succeeded: also from cancel_requested, never over a verdict. *)
MarkSucceeded(j) ==
    \/ /\ status[j] \in Terminal
       /\ UNCHANGED recordVars
    \/ /\ status[j] \notin Terminal
       /\ Close(j, "succeeded", "completed")
       /\ passed' = [passed EXCEPT ![j] = evidence[j]]
       /\ UNCHANGED cancelRequested

(* Mutant: a job asked to cancel no longer counts as active. *)
ActiveUncanceled(r) == {j \in Job : status[j] \in {"queued", "running"} /\ runOf[j] = r}

(* The scan in create: the records of the run that are not finished.  The  *)
(* code passes over a record that it cannot read or parse, damaged or of a *)
(* failing disk; the model has none, and a slot is exclusive among the     *)
(* records that can be read.                                               *)
ActiveOn(r) == {j \in Job : status[j] \in Active /\ runOf[j] = r}

-----------------------------------------------------------------------------
(* The API process.                                                        *)

(* create / create_boptest / create_shadow: scan and write in one lock.    *)
Create(j, r) ==
    /\ status[j] = "absent"
    /\ ActiveOn(r) = {}
    /\ status' = [status EXCEPT ![j] = "queued"]
    /\ runOf' = [runOf EXCEPT ![j] = r]
    /\ phase' = [phase EXCEPT ![j] = "queued"]
    /\ api' = [api EXCEPT ![j] = "dispatching"]
    /\ UNCHANGED <<started, cancelRequested, lease, passed, broker, worker,
                   steady, evidence>>

(* dispatch.enqueue returns, or raises before or after the broker took it. *)
Dispatch(j) ==
    /\ api[j] = "dispatching"
    /\ \/ /\ broker' = [broker EXCEPT ![j] = "queued"]
          /\ api' \in {[api EXCEPT ![j] = "idle"], [api EXCEPT ![j] = "erred"]}
       \/ /\ api' = [api EXCEPT ![j] = "erred"]
          /\ UNCHANGED broker
    /\ UNCHANGED <<recordVars, worker, steady, evidence>>

(* The except clause of the endpoint: mark_failed, then 503. *)
FailDispatch(j) ==
    /\ api[j] = "erred"
    /\ MarkFailed(j)
    /\ api' = [api EXCEPT ![j] = "refused"]
    /\ UNCHANGED <<broker, worker, steady, evidence>>

(* The API process dies between create and the end of the dispatch. *)
ApiCrash(j) ==
    /\ api[j] \in {"dispatching", "erred"}
    /\ api' = [api EXCEPT ![j] = "crashed"]
    /\ UNCHANGED <<recordVars, broker, worker, steady, evidence>>

(* The cancel endpoint: request_cancel, then the dispatcher's best-effort  *)
(* cancel, which removes only what still queues and may find it too late   *)
(* (the broker's step commutes with every step a worker can take between). *)
RequestCancel(j) ==
    /\ status[j] # "absent"
    /\ \/ /\ status[j] \in Terminal
          /\ UNCHANGED recordVars
       \/ /\ status[j] = "queued"
          /\ Close(j, "canceled", "canceled")
          /\ cancelRequested' = cancelRequested \cup {j}
          /\ UNCHANGED passed
       \/ /\ status[j] \in Leased
          /\ status' = [status EXCEPT ![j] = "cancel_requested"]
          /\ phase' = [phase EXCEPT ![j] = "cancel_requested"]
          /\ cancelRequested' = cancelRequested \cup {j}
          /\ UNCHANGED <<runOf, started, lease, passed>>
    /\ \/ UNCHANGED broker
       \/ /\ broker[j] = "queued"
          /\ broker' = [broker EXCEPT ![j] = "canceled"]
    /\ UNCHANGED <<api, worker, steady, evidence>>

(* Mutant: a lease that runs out with this tick has already expired. *)
ExpireEarly(j) ==
    /\ status[j] \in Leased
    /\ lease[j] \in {Expired, 0}
    /\ Close(j, "failed", "worker_lost")
    /\ UNCHANGED <<cancelRequested, passed, broker, procVars, evidence>>

(* Mutant: a job that was asked to cancel is not declared lost. *)
ExpireRunning(j) ==
    /\ status[j] = "running"
    /\ lease[j] = Expired
    /\ Close(j, "failed", "worker_lost")
    /\ UNCHANGED <<cancelRequested, passed, broker, procVars, evidence>>

(* A poll of the job, of the run's latest job, or one tick of the event    *)
(* stream: expire_stale declares the worker lost once the lease ran out.   *)
ExpireStale(j) ==
    /\ status[j] \in Leased
    /\ lease[j] = Expired
    /\ Close(j, "failed", "worker_lost")
    /\ UNCHANGED <<cancelRequested, passed, broker, procVars, evidence>>

-----------------------------------------------------------------------------
(* The worker process: the execute methods of the three executors.         *)

Step(j, from, to) ==
    /\ worker[j] = from
    /\ worker' = [worker EXCEPT ![j] = to]

(* RQ hands the job to a work-horse. *)
Take(j) ==
    /\ broker[j] = "queued"
    /\ Step(j, "none", "starting")
    /\ broker' = [broker EXCEPT ![j] = "started"]
    /\ UNCHANGED <<recordVars, api, steady, evidence>>

(* The entry point raises before it reaches the record, for instance in    *)
(* opening the run store.                                                  *)
EntryRaises(j) ==
    /\ Step(j, "starting", "raised")
    /\ UNCHANGED <<recordVars, broker, api, steady, evidence>>

(* Mutant: a start gives the record no lease. *)
RecordUnleasedStart(j) ==
    /\ status[j] = "queued"
    /\ status' = [status EXCEPT ![j] = "running"]
    /\ phase' = [phase EXCEPT ![j] = "starting"]
    /\ started' = started \cup {j}
    /\ UNCHANGED <<runOf, lease, cancelRequested, passed>>

(* mark_running, on a queued record: it starts with a fresh lease. *)
RecordStart(j) ==
    /\ status[j] = "queued"
    /\ status' = [status EXCEPT ![j] = "running"]
    /\ phase' = [phase EXCEPT ![j] = "starting"]
    /\ lease' = [lease EXCEPT ![j] = LeaseTerm]
    /\ started' = started \cup {j}
    /\ UNCHANGED <<runOf, cancelRequested, passed>>

(* Mutant: a job canceled while it queued is worked on all the same. *)
RunCanceled(j) ==
    /\ \/ /\ status[j] = "canceled"
          /\ Step(j, "starting", "executing")
          /\ UNCHANGED recordVars
       \/ /\ status[j] \notin {"queued", "canceled"}
          /\ Step(j, "starting", "raised")
          /\ UNCHANGED recordVars
       \/ Step(j, "starting", "executing") /\ RecordStart(j)
    /\ UNCHANGED <<broker, api, steady, evidence>>

(* mark_running: a canceled job is left alone, any other status raises. *)
MarkRunning(j) ==
    /\ \/ /\ status[j] = "canceled"
          /\ Step(j, "starting", "done")
          /\ UNCHANGED recordVars
       \/ /\ status[j] \notin {"queued", "canceled"}
          /\ Step(j, "starting", "raised")
          /\ UNCHANGED recordVars
       \/ Step(j, "starting", "executing") /\ RecordStart(j)
    /\ UNCHANGED <<broker, api, steady, evidence>>

(* Mutant: a heartbeat prolongs the lease by a term instead of renewing it. *)
HeartbeatProlongs(j) ==
    /\ worker[j] \in {"executing", "saved"}
    /\ status[j] \in Leased
    /\ lease' = [lease EXCEPT ![j] = @ + LeaseTerm]
    /\ UNCHANGED <<status, runOf, started, phase, cancelRequested, passed,
                   broker, procVars, evidence>>

(* heartbeat, from the thread that lives while the service call runs. *)
Heartbeat(j) ==
    /\ worker[j] \in {"executing", "saved"}
    /\ status[j] \in Leased
    /\ lease' = [lease EXCEPT ![j] = LeaseTerm]
    /\ UNCHANGED <<status, runOf, started, phase, cancelRequested, passed,
                   broker, procVars, evidence>>

(* Mutant: progress is written whatever has become of the record. *)
ProgressLate(j) ==
    /\ worker[j] = "executing"
    /\ phase' = [phase EXCEPT ![j] = "working"]
    /\ UNCHANGED <<status, runOf, started, cancelRequested, lease, passed,
                   broker, procVars, evidence>>

(* update_progress, the progress callback; dropped once the job is closed. *)
Progress(j) ==
    /\ worker[j] = "executing"
    /\ status[j] \in Leased
    /\ phase' = [phase EXCEPT ![j] = "working"]
    /\ UNCHANGED <<status, runOf, started, cancelRequested, lease, passed,
                   broker, procVars, evidence>>

(* The cancellation callback answers true and the service call raises. *)
NoticeCancel(j) ==
    /\ j \in cancelRequested
    /\ Step(j, "executing", "canceling")
    /\ UNCHANGED <<recordVars, broker, api, steady, evidence>>

(* The service call saved signed evidence on the run and returned. *)
ServiceReturns(j, verdict) ==
    /\ Step(j, "executing", "saved")
    /\ evidence' = [evidence EXCEPT ![j] = verdict]
    /\ UNCHANGED <<recordVars, broker, api, steady>>

(* The service call, or the re-reading of its evidence, raises. *)
ServiceRaises(j) ==
    /\ Step(j, "executing", "failing") \/ Step(j, "saved", "failing")
    /\ UNCHANGED <<recordVars, broker, api, steady, evidence>>

RecordSuccess(j) ==
    /\ Step(j, "saved", "done")
    /\ MarkSucceeded(j)
    /\ UNCHANGED <<broker, api, steady, evidence>>

RecordCancel(j) ==
    /\ Step(j, "canceling", "done")
    /\ MarkCanceled(j)
    /\ UNCHANGED <<broker, api, steady, evidence>>

(* The except clause: mark_failed, then the exception reaches RQ. *)
RecordFailure(j) ==
    /\ Step(j, "failing", "raised")
    /\ MarkFailed(j)
    /\ UNCHANGED <<broker, api, steady, evidence>>

(* rq_qualification_failure_callback: after an exception, and when RQ sees *)
(* that the work-horse is gone.                                            *)
FailureCallback(j) ==
    /\ Step(j, "raised", "done") \/ Step(j, "dead", "done")
    /\ MarkFailed(j)
    /\ UNCHANGED <<broker, api, steady, evidence>>

(* An operator stops the RQ job: the work-horse is killed ... *)
Stop(j) ==
    /\ worker[j] \in Alive
    /\ Step(j, worker[j], "stopped")
    /\ steady' = steady \ {j}
    /\ UNCHANGED <<recordVars, broker, api, evidence>>

(* ... and rq_qualification_stopped_callback records it. *)
StoppedCallback(j) ==
    /\ Step(j, "stopped", "done")
    /\ MarkCanceled(j)
    /\ UNCHANGED <<broker, api, steady, evidence>>

(* The work-horse dies where it stands. *)
Crash(j) ==
    /\ worker[j] \in Alive
    /\ Step(j, worker[j], "dead")
    /\ steady' = steady \ {j}
    /\ UNCHANGED <<recordVars, broker, api, evidence>>

(* Heartbeats start failing, or the process is suspended, for any time. *)
Stall(j) ==
    /\ worker[j] \in Alive
    /\ j \in steady
    /\ steady' = steady \ {j}
    /\ UNCHANGED <<recordVars, broker, api, worker, evidence>>

(* Time passes for every lease.  A steady worker has written to its lease  *)
(* before it can be silent for longer than MaxQuiet.                       *)
Tick ==
    /\ \E j \in Job : lease[j] > Expired
    /\ \A j \in Job :
           j \in steady /\ lease[j] # NoLease => lease[j] > LeaseTerm - MaxQuiet
    /\ lease' = [j \in Job |-> IF lease[j] > Expired THEN lease[j] - 1
                                                     ELSE lease[j]]
    /\ UNCHANGED <<status, runOf, started, phase, cancelRequested, passed,
                   broker, procVars, evidence>>

-----------------------------------------------------------------------------
ApiStep(j) ==
    \/ \E r \in Run : Create(j, r)
    \/ Dispatch(j) \/ FailDispatch(j) \/ ApiCrash(j)
    \/ RequestCancel(j) \/ ExpireStale(j)

WorkerStep(j) ==
    \/ Take(j) \/ EntryRaises(j) \/ MarkRunning(j)
    \/ Heartbeat(j) \/ Progress(j)
    \/ NoticeCancel(j) \/ ServiceRaises(j)
    \/ \E verdict \in {"pass", "fail"} : ServiceReturns(j, verdict)
    \/ RecordSuccess(j) \/ RecordCancel(j) \/ RecordFailure(j)
    \/ FailureCallback(j) \/ Stop(j) \/ StoppedCallback(j)
    \/ Crash(j) \/ Stall(j)

Next == Tick \/ \E j \in Job : ApiStep(j) \/ WorkerStep(j)

Spec == Init /\ [][Next]_vars

(* What the deployment keeps doing: RQ serves its queue and runs the       *)
(* callbacks it owes, a live work-horse runs its Python code to the end    *)
(* (a service call that hangs is ended by RQ's job timeout, which raises   *)
(* in it), somebody polls the job, and time passes.  Nothing is assumed of *)
(* the API request that dispatches, of cancellation, or of heartbeats.     *)
Fairness ==
    /\ WF_vars(Tick)
    /\ \A j \in Job :
        /\ WF_vars(ExpireStale(j))
        /\ WF_vars(Take(j))
        /\ WF_vars(MarkRunning(j))
        /\ WF_vars(\/ NoticeCancel(j) \/ ServiceRaises(j)
                   \/ \E verdict \in {"pass", "fail"} : ServiceReturns(j, verdict))
        /\ WF_vars(RecordSuccess(j) \/ RecordCancel(j) \/ RecordFailure(j))
        /\ WF_vars(worker[j] = "raised" /\ FailureCallback(j))
        /\ WF_vars(StoppedCallback(j))

FairSpec == Spec /\ Fairness

-----------------------------------------------------------------------------
(* Properties.                                                             *)

(* Work of the job is being done on its run. *)
Executing(j) == worker[j] \in {"executing", "saved", "canceling", "failing"}

(* The worker has not missed heartbeats, been suspended or been killed, and *)
(* the request that created the job did not give up on the broker.         *)
Undisturbed(j) == j \in steady /\ api[j] # "refused"

(* Types; of a lease also that it never has more than a term to last.      *)
TypeOK ==
    /\ status \in [Job -> {"absent"} \cup Active \cup Terminal]
    /\ runOf \in [Job -> Run \cup {NoRun}]
    /\ started \in SUBSET Job
    /\ phase \in [Job -> Phase]
    /\ cancelRequested \in SUBSET Job
    /\ lease \in [Job -> NoLease .. LeaseTerm]
    /\ passed \in [Job -> {"none", "pass", "fail"}]
    /\ broker \in [Job -> {"none", "queued", "started", "canceled"}]
    /\ api \in [Job -> {"idle", "dispatching", "erred", "refused", "crashed"}]
    /\ worker \in [Job -> WorkerState]
    /\ steady \in SUBSET Job
    /\ evidence \in [Job -> {"none", "pass", "fail"}]

(* A run never has two jobs that are not finished, whatever requests,      *)
(* workers, callbacks and polls interleave with the scan in create.        *)
SlotExclusive ==
    \A i, k \in Job :
        /\ status[i] \in Active
        /\ status[k] \in Active
        /\ runOf[i] = runOf[k]
        => i = k

(* A worker is only ever declared lost when it was disturbed: no order of  *)
(* polls, heartbeats and ticks expires the lease of a worker that keeps    *)
(* its schedule.                                                           *)
LostOnlyIfDisturbed ==
    \A j \in Job : phase[j] = "worker_lost" => j \notin steady

(* A job reports success only for evidence its own worker saved, with that *)
(* evidence's verdict, and no other job carries a verdict of evidence.     *)
SuccessReportsEvidence ==
    \A j \in Job :
        /\ status[j] = "succeeded" => evidence[j] # "none" /\ passed[j] = evidence[j]
        /\ passed[j] # "none" => status[j] = "succeeded"

(* The record a client reads never mixes a verdict with the progress of a  *)
(* worker that outlived it.                                                *)
FinalPhase == [canceled |-> {"canceled"}, succeeded |-> {"completed"},
               failed |-> {"failed", "worker_lost"}]

PhaseAgreesWithVerdict ==
    \A j \in Job :
        status[j] \in Terminal => phase[j] \in FinalPhase[status[j]]

(* The slot does not stop two workers from working on one run at the same  *)
(* time, but it takes a disturbance: of two such workers at least one was  *)
(* stalled, or started although its request reported a failed dispatch.    *)
OverlapOnlyIfDisturbed ==
    \A i, k \in Job :
        /\ Executing(i) /\ Undisturbed(i)
        /\ Executing(k) /\ Undisturbed(k)
        /\ runOf[i] = runOf[k]
        => i = k

(* A verdict is final: late heartbeats, progress, cancellations, callbacks *)
(* and a worker that was given up on change nothing a client relies on,    *)
(* and a job closed before it began never begins.                          *)
VerdictFinal ==
    [][\A j \in Job : status[j] \in Terminal =>
          /\ status'[j] = status[j]
          /\ passed'[j] = passed[j]
          /\ phase'[j] = phase[j]
          /\ (j \in started' <=> j \in started)]_vars

(* A started job ends, whatever becomes of its worker, as long as somebody *)
(* polls: a dead worker's lease runs out and is noticed.                   *)
StartedJobsEnd == \A j \in Job : j \in started ~> status[j] \in Terminal

(* A dispatched job ends too, unless its work-horse dies before it could   *)
(* record that it had started (the lease, which would notice, begins with  *)
(* that record).                                                           *)
DispatchedJobsEnd ==
    \A j \in Job :
        broker[j] = "queued" ~>
            \/ status[j] \in Terminal
            \/ worker[j] = "dead" /\ status[j] = "queued" /\ j \notin started

(* The records implement the slot: what the plane promises in the abstract.*)
Slot == INSTANCE QualificationSlot WITH
    holders <- [r \in Run |-> ActiveOn(r)],
    begun <- started,
    verdict <- [j \in Job |-> IF status[j] \in Terminal THEN status[j] ELSE "open"]

SlotSpec == Slot!Spec
=============================================================================
