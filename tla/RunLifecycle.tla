--------------------------- MODULE RunLifecycle ----------------------------
(***************************************************************************)
(* One candidate run between its creation and its export: the manifest     *)
(* (RunRepository.get / save), the verification directories beside it, and *)
(* the handlers of WorkbenchService that qualify, approve and reject it.   *)
(*                                                                         *)
(* Every handler reads the manifest once, decides on that snapshot, may    *)
(* work for hours, and then replaces the whole manifest by the snapshot    *)
(* with its own changes.  The replacement is atomic; nothing locks or      *)
(* compares between the read and the write.  Handlers run concurrently, in *)
(* API threads and in queue workers, and may die between any two steps.    *)
(*                                                                         *)
(* A digest is modelled by what it covers: the content of the artifacts    *)
(* signed at creation and the report of every verification lane named in   *)
(* the manifest, "none" for a lane that is not.                            *)
(***************************************************************************)
EXTENDS Naturals

CONSTANTS
    Handler,    \* requests and workers that touch the run at the same time
    Lane,       \* verification lanes: boptest, alfalfa, shadow
    LateLane,   \* lanes that look for their directory only once the work is done
    None        \* an absent approval, rejection or expectation

ASSUME LaneAssumption == LateLane \subseteq Lane

Report == {"pass", "fail"}
Base == {"built", "changed"}
Digest == [base : Base, report : [Lane -> Report \cup {"none"}]]

Manifest == [status : {"failed", "ready", "approved", "rejected"},
             lanes : SUBSET Lane,
             digest : Digest,
             approval : Digest \cup {None},
             rejection : Digest \cup {None}]

ASSUME NoneAssumption ==
    None \notin Digest /\ None \notin Lane /\ None \notin Manifest

VARIABLES
    manifest,   \* manifest.json
    directory,  \* the report in each lane's verification directory, or "none"
    base,       \* content of the artifacts written at creation
    gate,       \* Gate G-ENG: is the run's requirement set approved?
    pc,         \* where each handler is
    snapshot,   \* the manifest each handler works on, None before it read one
    lane,       \* the lane each handler qualifies
    expected,   \* the digest its caller named, or None
    undone      \* history: a save that had taken effect was undone

handlerVars == <<pc, snapshot, lane, expected>>
vars == <<manifest, directory, base, gate, pc, snapshot, lane, expected, undone>>

-----------------------------------------------------------------------------
(* artifact_hash over the paths a manifest with these lanes names. *)
Sign(lanes) ==
    [base |-> base,
     report |-> [l \in Lane |-> IF l \in lanes THEN directory[l] ELSE "none"]]

(* _verify_integrity *)
Intact(m) ==
    /\ m.digest = Sign(m.lanes)
    /\ m.approval \in {None, m.digest}
    /\ m.rejection \in {None, m.digest}

(* create_run has committed the run; its acceptance tests passed or not. *)
Init ==
    /\ base = "built"
    /\ directory = [l \in Lane |-> "none"]
    /\ gate \in {"pending", "open"}
    /\ \E s \in {"failed", "ready"} :
           manifest = [status |-> s, lanes |-> {},
                       digest |-> [base |-> "built", report |-> [l \in Lane |-> "none"]],
                       approval |-> None, rejection |-> None]
    /\ pc = [h \in Handler |-> "idle"]
    /\ snapshot = [h \in Handler |-> None]
    /\ lane = [h \in Handler |-> None]
    /\ expected = [h \in Handler |-> None]
    /\ undone = FALSE

(* A handler returns or dies: what it knew is gone. *)
Forget(h) ==
    /\ pc' = [pc EXCEPT ![h] = "idle"]
    /\ snapshot' = [snapshot EXCEPT ![h] = None]
    /\ lane' = [lane EXCEPT ![h] = None]
    /\ expected' = [expected EXCEPT ![h] = None]

-----------------------------------------------------------------------------
(* Qualification.                                                          *)

(* An enqueue endpoint admits a job for the digest the candidate has now;  *)
(* the work itself starts whenever a worker takes the job.                 *)
Submit(h, l) ==
    /\ pc[h] = "idle"
    /\ manifest.status = "ready"
    /\ l \notin manifest.lanes
    /\ pc' = [pc EXCEPT ![h] = "submitted"]
    /\ lane' = [lane EXCEPT ![h] = l]
    /\ expected' = [expected EXCEPT ![h] = manifest.digest]
    /\ UNCHANGED <<manifest, directory, base, gate, snapshot, undone>>

(* Mutant: a candidate that failed or was decided is qualified again. *)
AdmissibleDecided(l, digest) ==
    /\ digest \in {None, manifest.digest}
    /\ Intact(manifest)
    /\ l \notin manifest.lanes
    /\ l \in LateLane \/ directory[l] = "none"

(* The guards of qualify_with_*, on the manifest it has just read. *)
Admissible(l, digest) ==
    /\ digest \in {None, manifest.digest}
    /\ manifest.status = "ready"
    /\ Intact(manifest)
    /\ l \notin manifest.lanes
    /\ l \in LateLane \/ directory[l] = "none"

(* qualify_with_* starts: for a job (submitted), or straight from a        *)
(* /verify request (idle), which names no digest.                          *)
Qualify(h, l) ==
    /\ \/ pc[h] = "submitted" /\ lane[h] = l
       \/ pc[h] = "idle"
    /\ Admissible(l, expected[h])
    /\ pc' = [pc EXCEPT ![h] = "testing"]
    /\ lane' = [lane EXCEPT ![h] = l]
    /\ snapshot' = [snapshot EXCEPT ![h] = manifest]
    /\ UNCHANGED <<manifest, directory, base, gate, expected, undone>>

(* Mutant: the staged reports replace those that are in place. *)
InstallOver(h, report) ==
    /\ pc[h] = "testing"
    /\ directory' = [directory EXCEPT ![lane[h]] = report]
    /\ pc' = [pc EXCEPT ![h] = "installed"]
    /\ UNCHANGED <<manifest, base, gate, snapshot, lane, expected, undone>>

(* The tests are scored and the staged reports renamed into place. *)
Install(h, report) ==
    /\ pc[h] = "testing"
    /\ directory[lane[h]] = "none"
    /\ directory' = [directory EXCEPT ![lane[h]] = report]
    /\ pc' = [pc EXCEPT ![h] = "installed"]
    /\ UNCHANGED <<manifest, base, gate, snapshot, lane, expected, undone>>

(* Mutant: success is recorded, whatever the report says. *)
VerdictKept(report) == "ready"

(* The status a report leaves a run in. *)
Verdict(report) == IF report = "pass" THEN "ready" ELSE "failed"

(* Mutant: the digest covers the new reports only. *)
SignNewest(h) ==
    /\ pc[h] = "installed"
    /\ snapshot' = [snapshot EXCEPT ![h].status = Verdict(directory[lane[h]]),
                                    ![h].lanes = @ \cup {lane[h]},
                                    ![h].digest = Sign({lane[h]})]
    /\ pc' = [pc EXCEPT ![h] = "signed"]
    /\ UNCHANGED <<manifest, directory, base, gate, lane, expected, undone>>

(* The run's artifacts and the new reports are hashed, unless one is       *)
(* missing ...                                                             *)
SignReports(h) ==
    /\ pc[h] = "installed"
    /\ \A l \in snapshot[h].lanes : directory[l] # "none"
    /\ LET signed == snapshot[h].lanes \cup {lane[h]}
       IN  snapshot' = [snapshot EXCEPT ![h].status = Verdict(directory[lane[h]]),
                                        ![h].lanes = signed,
                                        ![h].digest = Sign(signed)]
    /\ pc' = [pc EXCEPT ![h] = "signed"]
    /\ UNCHANGED <<manifest, directory, base, gate, lane, expected, undone>>

(* ... and the manifest is replaced.                                       *)
SaveQualification(h) ==
    /\ pc[h] = "signed"
    /\ manifest' = snapshot[h]
    /\ pc' = [pc EXCEPT ![h] = "saved"]
    /\ UNCHANGED <<directory, base, gate, snapshot, lane, expected, undone>>

RemoveReports(h) ==
    /\ directory' = [directory EXCEPT ![lane[h]] = "none"]
    /\ Forget(h)
    /\ UNCHANGED <<manifest, base, gate>>

(* save raised: the reports are removed again ...                          *)
UndoInstall(h) ==
    /\ pc[h] = "signed"
    /\ RemoveReports(h)
    /\ UNCHANGED undone

(* ... even if the exception, a job's timeout say, came once the manifest  *)
(* was replaced, which then names what is gone.                            *)
UndoSaved(h) ==
    /\ pc[h] = "saved"
    /\ RemoveReports(h)
    /\ undone' = TRUE

-----------------------------------------------------------------------------
(* Decisions.                                                              *)

(* The Review stage opens on the digest the reviewer is about to inspect. *)
OpenReview(h) ==
    /\ pc[h] = "idle"
    /\ pc' = [pc EXCEPT ![h] = "reviewing"]
    /\ expected' = [expected EXCEPT ![h] = manifest.digest]
    /\ UNCHANGED <<manifest, directory, base, gate, snapshot, lane, undone>>

(* approve, up to its save; a client may also name no digest. *)
Approve(h) ==
    /\ pc[h] \in {"idle", "reviewing"}
    /\ manifest.status = "ready"
    /\ Intact(manifest)
    /\ gate = "open"
    /\ expected[h] \in {None, manifest.digest}
    /\ pc' = [pc EXCEPT ![h] = "approving"]
    /\ snapshot' = [snapshot EXCEPT ![h] = manifest]
    /\ UNCHANGED <<manifest, directory, base, gate, lane, expected, undone>>

(* Mutant: the approval names the digest the caller sent, if any. *)
SaveNamedApproval(h) ==
    /\ pc[h] = "approving"
    /\ manifest' = [snapshot[h] EXCEPT !.status = "approved",
                                       !.approval = expected[h]]
    /\ Forget(h)
    /\ UNCHANGED <<directory, base, gate, undone>>

SaveApproval(h) ==
    /\ pc[h] = "approving"
    /\ manifest' = [snapshot[h] EXCEPT !.status = "approved",
                                       !.approval = snapshot[h].digest]
    /\ Forget(h)
    /\ UNCHANGED <<directory, base, gate, undone>>

(* reject, up to its save; it names no digest. *)
Reject(h) ==
    /\ pc[h] = "idle"
    /\ manifest.status = "ready"
    /\ Intact(manifest)
    /\ pc' = [pc EXCEPT ![h] = "rejecting"]
    /\ snapshot' = [snapshot EXCEPT ![h] = manifest]
    /\ UNCHANGED <<manifest, directory, base, gate, lane, expected, undone>>

SaveRejection(h) ==
    /\ pc[h] = "rejecting"
    /\ manifest' = [snapshot[h] EXCEPT !.status = "rejected",
                                       !.rejection = snapshot[h].digest]
    /\ Forget(h)
    /\ UNCHANGED <<directory, base, gate, undone>>

-----------------------------------------------------------------------------
(* A handler returns, is refused, canceled, fails or is killed.  Before    *)
(* Install that leaves nothing behind; after it, the directory stays       *)
(* (hashing raises, or the process dies, before save).                     *)
Leave(h) ==
    /\ pc[h] # "idle"
    /\ Forget(h)
    /\ UNCHANGED <<manifest, directory, base, gate, undone>>

(* Gate G-ENG: an engineer approves the requirement set, for good. *)
ApproveRequirements ==
    /\ gate = "pending"
    /\ gate' = "open"
    /\ UNCHANGED <<manifest, directory, base, handlerVars, undone>>

(* An artifact written at creation changes on disk. *)
Drift ==
    /\ base = "built"
    /\ base' = "changed"
    /\ UNCHANGED <<manifest, directory, gate, handlerVars, undone>>

HandlerStep(h) ==
    \/ \E l \in Lane : Submit(h, l) \/ Qualify(h, l)
    \/ \E report \in Report : Install(h, report)
    \/ SignReports(h) \/ SaveQualification(h) \/ UndoInstall(h) \/ UndoSaved(h)
    \/ OpenReview(h) \/ Approve(h) \/ SaveApproval(h)
    \/ Reject(h) \/ SaveRejection(h)
    \/ Leave(h)

Next == ApproveRequirements \/ Drift \/ \E h \in Handler : HandlerStep(h)

Spec == Init /\ [][Next]_vars

-----------------------------------------------------------------------------
(* What review_bundle_path hands out ...                                   *)
Bundled ==
    /\ manifest.status = "approved"
    /\ manifest.approval # None
    /\ Intact(manifest)

(* ... and export_path, which asks for Gate G-ENG once more.               *)
Exportable == Bundled /\ gate = "open"

-----------------------------------------------------------------------------
(* Properties.                                                             *)

TypeOK ==
    /\ manifest \in Manifest
    /\ directory \in [Lane -> Report \cup {"none"}]
    /\ base \in Base
    /\ gate \in {"pending", "open"}
    /\ pc \in [Handler -> {"idle", "submitted", "testing", "installed", "signed",
                           "saved", "reviewing", "approving", "rejecting"}]
    /\ snapshot \in [Handler -> Manifest \cup {None}]
    /\ lane \in [Handler -> Lane \cup {None}]
    /\ expected \in [Handler -> Digest \cup {None}]
    /\ undone \in BOOLEAN

(* However handlers overwrite each other, die or undo, the manifest they   *)
(* leave agrees with the files it names: races never make a run look as if *)
(* its artifacts had been changed.  Only an exception after a manifest was *)
(* replaced does.                                                          *)
RacesKeepIntegrity == base = "built" /\ ~undone => Intact(manifest)

(* Every manifest that is reviewable, decided or exported names only lanes *)
(* whose report, as it now lies in the directory, passed - with the same   *)
(* exception.                                                              *)
OnlyPassingReportsReviewed ==
    manifest.status # "failed" /\ ~undone =>
        \A l \in manifest.lanes : directory[l] = "pass"

(* RunRecord.review_state_is_consistent: model_copy does not validate, but *)
(* no order of saves produces a manifest the next get would refuse to      *)
(* load, and a decision names the digest beside it.                        *)
DecisionConsistent ==
    /\ manifest.status = "approved" =>
           manifest.approval = manifest.digest /\ manifest.rejection = None
    /\ manifest.status = "rejected" =>
           manifest.rejection = manifest.digest /\ manifest.approval = None
    /\ manifest.status \in {"ready", "failed"} =>
           manifest.approval = None /\ manifest.rejection = None

(* A report a manifest names is never removed or replaced: a save that had *)
(* no effect removes only what nobody has recorded, and no lane is         *)
(* installed twice.  One that did have its effect removes what it saved.   *)
RecordedReportsStand ==
    [][~undone' => \A l \in manifest.lanes : directory'[l] = directory[l]]_vars

(* An approval is only ever recorded while the requirement set it depends  *)
(* on is approved, and stays exportable as far as Gate G-ENG goes.         *)
ApprovedBehindGate == manifest.status = "approved" => gate = "open"

-----------------------------------------------------------------------------
(* What the documentation says of the run, and what holds as long as one   *)
(* handler works on it at a time.                                          *)

(* What may be exported stays what may be exported: once a run is approved *)
(* nothing but a change of its artifacts on disk takes the export back.    *)
ApprovalStands == [][Exportable => Exportable' \/ base' # base]_vars

(* A failing scenario or a divergence marks the run failed, which blocks   *)
(* its approval.                                                           *)
FailureBlocksApproval ==
    [][manifest.status = "failed" => manifest'.status # "approved"]_vars

(* The promise: signed evidence accumulates on an open candidate, one      *)
(* failing report or one decision closes it.                               *)
Gate == INSTANCE CandidateGate WITH
    reports <- manifest.digest.report,
    decision <- manifest.status

GateSpec == Gate!Spec
=============================================================================
