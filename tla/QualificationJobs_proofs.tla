---------------------- MODULE QualificationJobs_proofs ----------------------
(***************************************************************************)
(* Theorems about QualificationJobs, for any number of jobs and runs and   *)
(* any lease term.  The inductive invariant adds to the checked            *)
(* invariants what ties a record to the processes around it.               *)
(***************************************************************************)
EXTENDS QualificationJobs, TLAPS

(* A job that was never created is known to nobody. *)
AbsentUntouched(j) ==
    /\ status[j] = "absent" => /\ worker[j] = "none"
                               /\ broker[j] = "none"
                               /\ api[j] = "idle"
    /\ status[j] # "absent" => runOf[j] \in Run

(* The record has a lease exactly while a worker is expected to renew it,  *)
(* and a worker that keeps its schedule keeps it from running out.         *)
LeaseTracked(j) ==
    /\ lease[j] # NoLease <=> status[j] \in Leased
    /\ j \in steady /\ lease[j] # NoLease => lease[j] >= LeaseTerm - MaxQuiet

(* started_at tells queued records from those a worker has begun. *)
StartTracked(j) ==
    /\ status[j] \in {"absent", "queued"} => j \notin started
    /\ status[j] \in Leased => j \in started
    /\ Executing(j) => j \in started

(* Evidence precedes the success that reports it and outlives it. *)
EvidenceTracked(j) ==
    /\ worker[j] = "saved" => evidence[j] # "none"
    /\ status[j] = "succeeded" =>
           worker[j] = "done" /\ evidence[j] # "none" /\ passed[j] = evidence[j]
    /\ passed[j] # "none" => status[j] = "succeeded"

(* An undisturbed worker works for a job that still counts as active. *)
WorkTracked(j) == Executing(j) /\ Undisturbed(j) => status[j] \in Leased

PhaseTracked(j) ==
    /\ phase[j] = "worker_lost" => j \notin steady
    /\ status[j] \in Terminal => phase[j] \in FinalPhase[status[j]]

JobInv(j) ==
    /\ AbsentUntouched(j)
    /\ LeaseTracked(j)
    /\ StartTracked(j)
    /\ EvidenceTracked(j)
    /\ WorkTracked(j)
    /\ PhaseTracked(j)

IInv ==
    /\ TypeOK
    /\ SlotExclusive
    /\ \A j \in Job : JobInv(j)

USE DEF Active, Terminal, Leased, Alive, WorkerState, Phase, NoLease, Expired

(* The initial state satisfies the inductive invariant. *)
LEMMA InitIInv == Init => IInv
BY LeaseAssumption DEF Init, IInv, TypeOK, SlotExclusive, JobInv,
   AbsentUntouched, LeaseTracked, StartTracked, EvidenceTracked, WorkTracked,
   PhaseTracked, Executing, Undisturbed

(* Every step keeps the types. *)
LEMMA TypeStep == TypeOK /\ [Next]_vars => TypeOK'
<1> SUFFICES ASSUME TypeOK, [Next]_vars PROVE TypeOK'
    OBVIOUS
<1> USE LeaseAssumption
<1>1. CASE Tick
    BY <1>1 DEF TypeOK, Tick, procVars
<1>2. ASSUME NEW j \in Job, ApiStep(j) PROVE TypeOK'
  <2>1. ASSUME NEW r \in Run, Create(j, r) PROVE TypeOK'
      BY <2>1 DEF TypeOK, Create
  <2>2. CASE Dispatch(j)
      BY <2>2 DEF TypeOK, Dispatch, recordVars
  <2>3. CASE FailDispatch(j)
      BY <2>3 DEF TypeOK, FailDispatch, MarkFailed, Close, recordVars
  <2>4. CASE ApiCrash(j)
      BY <2>4 DEF TypeOK, ApiCrash, recordVars
  <2>5. CASE RequestCancel(j)
      BY <2>5 DEF TypeOK, RequestCancel, Close, recordVars
  <2>6. CASE ExpireStale(j)
      BY <2>6 DEF TypeOK, ExpireStale, Close, procVars
  <2> QED BY <1>2, <2>1, <2>2, <2>3, <2>4, <2>5, <2>6 DEF ApiStep
<1>3. ASSUME NEW j \in Job, WorkerStep(j) PROVE TypeOK'
  <2> USE DEF TypeOK, Step, recordVars, procVars
  <2>1. CASE Take(j)              BY <2>1 DEF Take
  <2>2. CASE MarkRunning(j)       BY <2>2 DEF MarkRunning, RecordStart
  <2>3. CASE Heartbeat(j)         BY <2>3 DEF Heartbeat
  <2>4. CASE Progress(j)          BY <2>4 DEF Progress
  <2>5. CASE NoticeCancel(j)      BY <2>5 DEF NoticeCancel
  <2>6. CASE ServiceRaises(j)     BY <2>6 DEF ServiceRaises
  <2>7. ASSUME NEW v \in {"pass", "fail"}, ServiceReturns(j, v) PROVE TypeOK'
      BY <2>7 DEF ServiceReturns
  <2>8. CASE RecordSuccess(j)     BY <2>8 DEF RecordSuccess, MarkSucceeded, Close
  <2>9. CASE RecordCancel(j)      BY <2>9 DEF RecordCancel, MarkCanceled, Close
  <2>10. CASE RecordFailure(j)    BY <2>10 DEF RecordFailure, MarkFailed, Close
  <2>11. CASE FailureCallback(j)  BY <2>11 DEF FailureCallback, MarkFailed, Close
  <2>12. CASE Stop(j)             BY <2>12 DEF Stop
  <2>13. CASE StoppedCallback(j)  BY <2>13 DEF StoppedCallback, MarkCanceled, Close
  <2>14. CASE Crash(j)            BY <2>14 DEF Crash
  <2>15. CASE Stall(j)            BY <2>15 DEF Stall
  <2>16. CASE EntryRaises(j)            BY <2>16 DEF EntryRaises
  <2> QED BY <1>3, <2>1, <2>2, <2>3, <2>4, <2>5, <2>6, <2>7, <2>8, <2>9,
             <2>10, <2>11, <2>12, <2>13, <2>14, <2>15, <2>16 DEF WorkerStep
<1>4. CASE UNCHANGED vars
    BY <1>4 DEF TypeOK, vars
<1> QED BY <1>1, <1>2, <1>3, <1>4 DEF Next

(* Type correctness of the job plane. *)
THEOREM TypeCorrect == Spec => []TypeOK
<1>1. Init => TypeOK
    BY InitIInv DEF IInv
<1> QED BY <1>1, TypeStep, PTL DEF Spec

(* One job's part of the invariant under a step of any job. *)
LEMMA JobStep ==
    ASSUME TypeOK, TypeOK', [Next]_vars, NEW k \in Job, JobInv(k)
    PROVE  JobInv(k)'
<1> USE LeaseAssumption
<1> USE DEF JobInv, AbsentUntouched, LeaseTracked, StartTracked,
       EvidenceTracked, WorkTracked, PhaseTracked, FinalPhase, Executing,
       Undisturbed, TypeOK, Step, recordVars, procVars
<1>1. CASE Tick
    BY <1>1 DEF Tick
<1>2. ASSUME NEW j \in Job, ApiStep(j) PROVE JobInv(k)'
  <2>1. ASSUME NEW r \in Run, Create(j, r) PROVE JobInv(k)'
      BY <2>1 DEF Create
  <2>2. CASE Dispatch(j)
      BY <2>2 DEF Dispatch
  <2>3. CASE FailDispatch(j)
      BY <2>3 DEF FailDispatch, MarkFailed, Close
  <2>4. CASE ApiCrash(j)
      BY <2>4 DEF ApiCrash
  <2>5. CASE RequestCancel(j)
      BY <2>5 DEF RequestCancel, Close
  <2>6. CASE ExpireStale(j)
      BY <2>6 DEF ExpireStale, Close
  <2> QED BY <1>2, <2>1, <2>2, <2>3, <2>4, <2>5, <2>6 DEF ApiStep
<1>3. ASSUME NEW j \in Job, WorkerStep(j) PROVE JobInv(k)'
  <2>1. ASSUME NEW v \in {"pass", "fail"}, ServiceReturns(j, v) PROVE JobInv(k)'
      BY <2>1 DEF ServiceReturns
  <2>2. CASE Take(j)
      BY <2>2 DEF Take
  <2>3. CASE MarkRunning(j)
      BY <2>3 DEF MarkRunning, RecordStart
  <2>4. CASE Heartbeat(j)
      BY <2>4 DEF Heartbeat
  <2>5. CASE Progress(j)
      BY <2>5 DEF Progress
  <2>6. CASE NoticeCancel(j)
      BY <2>6 DEF NoticeCancel
  <2>7. CASE ServiceRaises(j)
      BY <2>7 DEF ServiceRaises
  <2>8. CASE RecordSuccess(j)
      BY <2>8 DEF RecordSuccess, MarkSucceeded, Close
  <2>9. CASE RecordCancel(j)
      BY <2>9 DEF RecordCancel, MarkCanceled, Close
  <2>10. CASE RecordFailure(j)
      BY <2>10 DEF RecordFailure, MarkFailed, Close
  <2>11. CASE FailureCallback(j)
      BY <2>11 DEF FailureCallback, MarkFailed, Close
  <2>12. CASE Stop(j)
      BY <2>12 DEF Stop
  <2>13. CASE StoppedCallback(j)
      BY <2>13 DEF StoppedCallback, MarkCanceled, Close
  <2>14. CASE Crash(j)
      BY <2>14 DEF Crash
  <2>15. CASE Stall(j)
      BY <2>15 DEF Stall
  <2>16. CASE EntryRaises(j)
      BY <2>16 DEF EntryRaises
  <2> QED BY <1>3, <2>1, <2>2, <2>3, <2>4, <2>5, <2>6, <2>7, <2>8, <2>9,
             <2>10, <2>11, <2>12, <2>13, <2>14, <2>15, <2>16 DEF WorkerStep
<1>4. CASE UNCHANGED vars
    BY <1>4 DEF vars
<1> QED BY <1>1, <1>2, <1>3, <1>4 DEF Next

(* What a step can do to the slot: one job is admitted, begun, asked to    *)
(* stop or concluded, or nobody's status changes.                          *)
Admitted(j) ==
    /\ status[j] = "absent"
    /\ \E r \in Run : ActiveOn(r) = {} /\ runOf' = [runOf EXCEPT ![j] = r]
    /\ status' = [status EXCEPT ![j] = "queued"]
    /\ started' = started

Begun(j) ==
    /\ status[j] = "queued"
    /\ status' = [status EXCEPT ![j] = "running"]
    /\ started' = started \cup {j}
    /\ runOf' = runOf

AskedToStop(j) ==
    /\ status[j] \in Leased
    /\ status' = [status EXCEPT ![j] = "cancel_requested"]
    /\ UNCHANGED <<started, runOf>>

Concluded(j) ==
    /\ status[j] \in Active
    /\ \E v \in Terminal :
          /\ status' = [status EXCEPT ![j] = v]
          /\ v = "succeeded" => j \in started
    /\ UNCHANGED <<started, runOf>>

SlotMove(j) == Admitted(j) \/ Begun(j) \/ AskedToStop(j) \/ Concluded(j)
SlotRest == UNCHANGED <<status, started, runOf>>

(* Every step is one such move of one job, or leaves the slot alone. *)
LEMMA StepEffect ==
    ASSUME IInv, [Next]_vars
    PROVE  SlotRest \/ \E j \in Job : SlotMove(j)
<1> DEFINE Goal == SlotRest \/ \E j \in Job : SlotMove(j)
<1> USE DEF SlotRest, SlotMove, Admitted, Begun, AskedToStop, Concluded,
       IInv, JobInv, AbsentUntouched, StartTracked, Executing, TypeOK, Step,
       recordVars, procVars
<1>1. CASE Tick
    BY <1>1 DEF Tick
<1>2. ASSUME NEW j \in Job, ApiStep(j) PROVE Goal
  <2>1. ASSUME NEW r \in Run, Create(j, r) PROVE Goal
      BY <2>1 DEF Create
  <2>2. CASE Dispatch(j)
      BY <2>2 DEF Dispatch
  <2>3. CASE FailDispatch(j)
      BY <2>3 DEF FailDispatch, MarkFailed, Close
  <2>4. CASE ApiCrash(j)
      BY <2>4 DEF ApiCrash
  <2>5. CASE RequestCancel(j)
      BY <2>5 DEF RequestCancel, Close
  <2>6. CASE ExpireStale(j)
      BY <2>6 DEF ExpireStale, Close
  <2> QED BY <1>2, <2>1, <2>2, <2>3, <2>4, <2>5, <2>6 DEF ApiStep
<1>3. ASSUME NEW j \in Job, WorkerStep(j) PROVE Goal
  <2>1. ASSUME NEW v \in {"pass", "fail"}, ServiceReturns(j, v) PROVE Goal
      BY <2>1 DEF ServiceReturns
  <2>2. CASE Take(j)
      BY <2>2 DEF Take
  <2>3. CASE MarkRunning(j)
      BY <2>3 DEF MarkRunning, RecordStart
  <2>4. CASE Heartbeat(j)
      BY <2>4 DEF Heartbeat
  <2>5. CASE Progress(j)
      BY <2>5 DEF Progress
  <2>6. CASE NoticeCancel(j)
      BY <2>6 DEF NoticeCancel
  <2>7. CASE ServiceRaises(j)
      BY <2>7 DEF ServiceRaises
  <2>8. CASE RecordSuccess(j)
      BY <2>8 DEF RecordSuccess, MarkSucceeded, Close
  <2>9. CASE RecordCancel(j)
      BY <2>9 DEF RecordCancel, MarkCanceled, Close
  <2>10. CASE RecordFailure(j)
      BY <2>10 DEF RecordFailure, MarkFailed, Close
  <2>11. CASE FailureCallback(j)
      BY <2>11 DEF FailureCallback, MarkFailed, Close
  <2>12. CASE Stop(j)
      BY <2>12 DEF Stop
  <2>13. CASE StoppedCallback(j)
      BY <2>13 DEF StoppedCallback, MarkCanceled, Close
  <2>14. CASE Crash(j)
      BY <2>14 DEF Crash
  <2>15. CASE Stall(j)
      BY <2>15 DEF Stall
  <2>16. CASE EntryRaises(j)
      BY <2>16 DEF EntryRaises
  <2> QED BY <1>3, <2>1, <2>2, <2>3, <2>4, <2>5, <2>6, <2>7, <2>8, <2>9,
             <2>10, <2>11, <2>12, <2>13, <2>14, <2>15, <2>16 DEF WorkerStep
<1>4. CASE UNCHANGED vars
    BY <1>4 DEF vars
<1> QED BY <1>1, <1>2, <1>3, <1>4 DEF Next

(* The slot stays exclusive. *)
LEMMA SlotStep ==
    ASSUME IInv, [Next]_vars
    PROVE  SlotExclusive'
<1> SUFFICES ASSUME NEW i \in Job, NEW k \in Job,
                    status'[i] \in Active, status'[k] \in Active,
                    runOf'[i] = runOf'[k]
             PROVE  i = k
    BY DEF SlotExclusive
<1> USE DEF IInv, TypeOK, SlotExclusive
<1>1. CASE SlotRest
    BY <1>1 DEF SlotRest
<1>2. ASSUME NEW j \in Job, Admitted(j) PROVE i = k
    BY <1>2 DEF Admitted, ActiveOn
<1>3. ASSUME NEW j \in Job, Begun(j) \/ AskedToStop(j) \/ Concluded(j)
      PROVE i = k
    BY <1>3 DEF Begun, AskedToStop, Concluded
<1> QED BY <1>1, <1>2, <1>3, StepEffect DEF SlotMove

(* The inductive invariant holds in every reachable state. *)
THEOREM Invariance == Spec => []IInv
<1>1. IInv /\ [Next]_vars => IInv'
  <2> SUFFICES ASSUME IInv, [Next]_vars PROVE IInv'
      OBVIOUS
  <2>1. TypeOK /\ TypeOK'
      BY TypeStep DEF IInv
  <2>2. ASSUME NEW k \in Job PROVE JobInv(k)'
      BY <2>1, JobStep DEF IInv
  <2> QED BY <2>1, <2>2, SlotStep DEF IInv
<1> QED BY InitIInv, <1>1, PTL DEF Spec

(* SlotExclusive: a run never has two unfinished jobs, whatever the order  *)
(* of requests, workers, callbacks and polls.                              *)
THEOREM SlotExclusivity == Spec => []SlotExclusive
<1>1. IInv => SlotExclusive
    BY DEF IInv
<1> QED BY Invariance, <1>1, PTL

(* LostOnlyIfDisturbed: no lease of a worker that keeps its schedule is    *)
(* ever declared expired, for every lease term and admissible silence.     *)
THEOREM NoFalseLoss == Spec => []LostOnlyIfDisturbed
<1>1. IInv => LostOnlyIfDisturbed
    BY DEF IInv, JobInv, PhaseTracked, LostOnlyIfDisturbed
<1> QED BY Invariance, <1>1, PTL

(* SuccessReportsEvidence: a success carries the verdict of the evidence   *)
(* the job's own worker saved.                                             *)
THEOREM TruthfulSuccess == Spec => []SuccessReportsEvidence
<1>1. IInv => SuccessReportsEvidence
    BY DEF IInv, JobInv, EvidenceTracked, SuccessReportsEvidence
<1> QED BY Invariance, <1>1, PTL

(* OverlapOnlyIfDisturbed: two undisturbed workers never work on one run. *)
THEOREM NoOverlap == Spec => []OverlapOnlyIfDisturbed
<1>1. IInv => OverlapOnlyIfDisturbed
    BY DEF IInv, JobInv, WorkTracked, SlotExclusive, OverlapOnlyIfDisturbed
<1> QED BY Invariance, <1>1, PTL

(* PhaseAgreesWithVerdict: no late progress shows through a verdict. *)
THEOREM PhaseAgreement == Spec => []PhaseAgreesWithVerdict
<1>1. IInv => PhaseAgreesWithVerdict
    BY DEF IInv, JobInv, PhaseTracked, PhaseAgreesWithVerdict
<1> QED BY Invariance, <1>1, PTL

(* What a client reads of a closed record never changes again. *)
LEMMA FinalStep ==
    ASSUME IInv, [Next]_vars, NEW k \in Job, status[k] \in Terminal
    PROVE  /\ status'[k] = status[k]
           /\ passed'[k] = passed[k]
           /\ phase'[k] = phase[k]
           /\ k \in started' <=> k \in started
<1> DEFINE Goal == /\ status'[k] = status[k]
                   /\ passed'[k] = passed[k]
                   /\ phase'[k] = phase[k]
                   /\ k \in started' <=> k \in started
<1> USE DEF IInv, JobInv, PhaseTracked, FinalPhase, TypeOK, Step, recordVars,
       procVars
<1>1. CASE Tick
    BY <1>1 DEF Tick
<1>2. ASSUME NEW j \in Job, ApiStep(j) PROVE Goal
  <2>1. ASSUME NEW r \in Run, Create(j, r) PROVE Goal
      BY <2>1 DEF Create
  <2>2. CASE Dispatch(j)
      BY <2>2 DEF Dispatch
  <2>3. CASE FailDispatch(j)
      BY <2>3 DEF FailDispatch, MarkFailed, Close
  <2>4. CASE ApiCrash(j)
      BY <2>4 DEF ApiCrash
  <2>5. CASE RequestCancel(j)
      BY <2>5 DEF RequestCancel, Close
  <2>6. CASE ExpireStale(j)
      BY <2>6 DEF ExpireStale, Close
  <2> QED BY <1>2, <2>1, <2>2, <2>3, <2>4, <2>5, <2>6 DEF ApiStep
<1>3. ASSUME NEW j \in Job, WorkerStep(j) PROVE Goal
  <2>1. ASSUME NEW v \in {"pass", "fail"}, ServiceReturns(j, v) PROVE Goal
      BY <2>1 DEF ServiceReturns
  <2>2. CASE Take(j)
      BY <2>2 DEF Take
  <2>3. CASE MarkRunning(j)
      BY <2>3 DEF MarkRunning, RecordStart
  <2>4. CASE Heartbeat(j)
      BY <2>4 DEF Heartbeat
  <2>5. CASE Progress(j)
      BY <2>5 DEF Progress
  <2>6. CASE NoticeCancel(j)
      BY <2>6 DEF NoticeCancel
  <2>7. CASE ServiceRaises(j)
      BY <2>7 DEF ServiceRaises
  <2>8. CASE RecordSuccess(j)
      BY <2>8 DEF RecordSuccess, MarkSucceeded, Close
  <2>9. CASE RecordCancel(j)
      BY <2>9 DEF RecordCancel, MarkCanceled, Close
  <2>10. CASE RecordFailure(j)
      BY <2>10 DEF RecordFailure, MarkFailed, Close
  <2>11. CASE FailureCallback(j)
      BY <2>11 DEF FailureCallback, MarkFailed, Close
  <2>12. CASE Stop(j)
      BY <2>12 DEF Stop
  <2>13. CASE StoppedCallback(j)
      BY <2>13 DEF StoppedCallback, MarkCanceled, Close
  <2>14. CASE Crash(j)
      BY <2>14 DEF Crash
  <2>15. CASE Stall(j)
      BY <2>15 DEF Stall
  <2>16. CASE EntryRaises(j)
      BY <2>16 DEF EntryRaises
  <2> QED BY <1>3, <2>1, <2>2, <2>3, <2>4, <2>5, <2>6, <2>7, <2>8, <2>9,
             <2>10, <2>11, <2>12, <2>13, <2>14, <2>15, <2>16 DEF WorkerStep
<1>4. CASE UNCHANGED vars
    BY <1>4 DEF vars
<1> QED BY <1>1, <1>2, <1>3, <1>4 DEF Next

(* VerdictFinal: whatever a given-up worker, a late callback or a late     *)
(* cancellation still does, a closed record keeps its verdict.             *)
THEOREM FinalVerdict == Spec => VerdictFinal
<1>1. IInv /\ [Next]_vars =>
        [\A j \in Job : status[j] \in Terminal =>
          /\ status'[j] = status[j]
          /\ passed'[j] = passed[j]
          /\ phase'[j] = phase[j]
          /\ (j \in started' <=> j \in started)]_vars
    BY FinalStep
<1> QED BY Invariance, <1>1, PTL DEF Spec, VerdictFinal

(* The job plane implements the slot of QualificationSlot. *)
THEOREM SlotRefinement == Spec => SlotSpec
<1>1. Init => Slot!Init
    BY DEF Init, Slot!Init, ActiveOn
<1>2. IInv /\ [Next]_vars => [Slot!Next]_(Slot!svars)
  <2> SUFFICES ASSUME IInv, [Next]_vars PROVE [Slot!Next]_(Slot!svars)
      OBVIOUS
  <2> DEFINE verdictOf == [k \in Job |-> IF status[k] \in Terminal THEN status[k]
                                                            ELSE "open"]
  <2>1. /\ status \in [Job -> {"absent"} \cup Active \cup Terminal]
        /\ runOf \in [Job -> Run \cup {NoRun}]
      BY DEF IInv, TypeOK
  <2>2. \A k \in Job : /\ status[k] # "absent" => runOf[k] \in Run
                       /\ status[k] = "queued" => k \notin started
      BY DEF IInv, JobInv, AbsentUntouched, StartTracked
  <2>3. CASE SlotRest
      BY <2>3 DEF SlotRest, Slot!svars, ActiveOn
  <2>4. ASSUME NEW j \in Job, Admitted(j) PROVE Slot!Next
    <3>1. PICK r \in Run : ActiveOn(r) = {} /\ runOf' = [runOf EXCEPT ![j] = r]
        BY <2>4 DEF Admitted
    <3>2. \A k \in Job \ {j} : status'[k] = status[k] /\ runOf'[k] = runOf[k]
        BY <2>1, <2>4, <3>1 DEF Admitted
    <3>3. status'[j] = "queued" /\ runOf'[j] = r /\ status[j] = "absent"
        BY <2>1, <2>4, <3>1 DEF Admitted
    <3>4. \A q \in Run : ActiveOn(q)' = IF q = r THEN {j} ELSE ActiveOn(q)
      <4> SUFFICES ASSUME NEW q \in Run
                   PROVE  ActiveOn(q)' = IF q = r THEN {j} ELSE ActiveOn(q)
          OBVIOUS
      <4>1. CASE q = r
          BY <3>1, <3>2, <3>3, <4>1 DEF ActiveOn
      <4>2. CASE q # r
          BY <3>2, <3>3, <4>2 DEF ActiveOn
      <4> QED BY <4>1, <4>2
    <3>5. verdictOf' = verdictOf /\ verdictOf[j] = "open"
        BY <3>2, <3>3
    <3>6. \A q \in Run : j \notin ActiveOn(q)
        BY <3>3 DEF ActiveOn
    <3>7. started' = started
        BY <2>4 DEF Admitted
    <3> HIDE DEF verdictOf
    <3>8. Slot!Admit(j, r)
        BY <3>1, <3>4, <3>5, <3>6, <3>7 DEF Slot!Admit, verdictOf
    <3> QED BY <3>8 DEF Slot!Next
  <2>5. ASSUME NEW j \in Job, Begun(j) PROVE Slot!Next
    <3>1. runOf[j] \in Run /\ j \in ActiveOn(runOf[j]) /\ j \notin started
        BY <2>2, <2>5 DEF Begun, ActiveOn
    <3>2. \A q \in Run : ActiveOn(q)' = ActiveOn(q)
        BY <2>1, <2>5 DEF Begun, ActiveOn
    <3>3. verdictOf' = verdictOf
        BY <2>1, <2>5 DEF Begun
    <3>4. Slot!Begin(j, runOf[j])
        BY <2>5, <3>1, <3>2, <3>3 DEF Begun, Slot!Begin
    <3> QED BY <3>1, <3>4 DEF Slot!Next
  <2>6. ASSUME NEW j \in Job, AskedToStop(j) PROVE UNCHANGED Slot!svars
    <3>1. \A q \in Run : ActiveOn(q)' = ActiveOn(q)
        BY <2>1, <2>6 DEF AskedToStop, ActiveOn
    <3>2. verdictOf' = verdictOf
        BY <2>1, <2>6 DEF AskedToStop
    <3> QED BY <2>6, <3>1, <3>2 DEF AskedToStop, Slot!svars
  <2>7. ASSUME NEW j \in Job, Concluded(j) PROVE Slot!Next
    <3>1. /\ status'[j] \in Terminal
          /\ status'[j] = "succeeded" => j \in started
          /\ \A k \in Job \ {j} : status'[k] = status[k]
        BY <2>1, <2>7 DEF Concluded
    <3>2. /\ status[j] \in Active /\ runOf[j] \in Run
          /\ runOf' = runOf /\ started' = started
        BY <2>2, <2>7 DEF Concluded
    <3>3. \A q \in Run : ActiveOn(q)' = IF q = runOf[j] THEN ActiveOn(q) \ {j}
                                                     ELSE ActiveOn(q)
        BY <3>1, <3>2 DEF ActiveOn
    <3>4. verdictOf' = [verdictOf EXCEPT ![j] = status'[j]]
        BY <3>1
    <3>5. j \in ActiveOn(runOf[j])
        BY <3>2 DEF ActiveOn
    <3> HIDE DEF verdictOf
    <3>6. PICK v \in Slot!Verdicts : v = status'[j]
        BY <3>1 DEF Slot!Verdicts
    <3>7. Slot!Conclude(j, runOf[j], v)
        BY <3>1, <3>2, <3>3, <3>4, <3>5, <3>6 DEF Slot!Conclude, verdictOf
    <3> QED BY <3>2, <3>7 DEF Slot!Next
  <2> QED BY <2>3, <2>4, <2>5, <2>6, <2>7, StepEffect DEF SlotMove
<1> QED BY <1>1, <1>2, Invariance, PTL DEF Spec, SlotSpec, Slot!Spec
=============================================================================
