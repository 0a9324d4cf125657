---------------------------- MODULE ProjectBuild ----------------------------
(***************************************************************************)
(* A project over several equipment runs: ProjectBuildService builds the   *)
(* runs one by one and signs the digests they had when they were built,    *)
(* approves them one by one on behalf of one reviewer, and exports them in *)
(* one bundle.  Nothing joins those steps: a handler may be refused half-  *)
(* way or die, and the runs are at the same time runs of the workbench,    *)
(* that workers qualify and that other requests approve or reject.         *)
(*                                                                         *)
(* RunLifecycle has the races of one run in full.  Here a run is what its  *)
(* manifest says, read and later replaced.  No lock keeps two handlers of  *)
(* a run apart, so a save may undo one it never read: crossed remembers    *)
(* the runs to which that has happened.                                    *)
(***************************************************************************)
EXTENDS Naturals

CONSTANTS
    Size,       \* the project's equipment is 1 .. Size, in the project's order
    Handler,    \* requests to approve or to export the project
    Lane,       \* verification lanes that may sign a run again
    Torn,       \* a manifest that does not parse
    None        \* nothing there

Equipment == 1 .. Size

ASSUME SizeAssumption == Size \in Nat \ {0}

Other == "other"    \* a reviewer who decides on a run alone

(* A run; its digest stands for the lanes that have signed it. *)
Run == [status : {"failed", "ready", "approved", "rejected"},
        lanes : SUBSET Lane,
        reviewer : Handler \cup {Other, None}]

(* A project manifest: the digest each run had when it was built, the      *)
(* content of the project's own files then, and who approved it.           *)
Record == [status : {"failed", "ready", "approved"},
           lanes : [Equipment -> SUBSET Lane],
           files : {"built", "changed"},
           approval : Handler \cup {None}]

ASSUME NoneAssumption ==
    /\ None \notin Run /\ None \notin Record /\ None \notin Handler
    /\ None # Torn /\ None # Other
    /\ Torn \notin Record /\ Other \notin Handler

VARIABLES
    run,        \* each run's manifest, None before it was built
    client,     \* what the handler that works on a run alone has read, or None
    build,      \* how far the build is
    draft,      \* the record it is about to write
    manifest,   \* the project's manifest.json: None, Torn or a record
    files,      \* content of the project's own files
    pc, at,     \* where each handler is, and at which equipment
    snapshot,   \* the record each handler works on
    held,       \* the run each handler has read
    bundle,     \* what each export has collected
    died,       \* history: a process died while it wrote the manifest
    crossed     \* history: runs of which a save replaced what it had not read

handlerVars == <<pc, at, snapshot, held, bundle>>
buildVars == <<build, draft>>
history == <<died, crossed>>
vars == <<run, client, buildVars, manifest, files, handlerVars, history>>

-----------------------------------------------------------------------------
Init ==
    /\ run = [e \in Equipment |-> None]
    /\ client = [e \in Equipment |-> None]
    /\ build = "building"
    /\ draft = [status |-> "ready", lanes |-> [e \in Equipment |-> {}],
                files |-> "built", approval |-> None]
    /\ manifest = None
    /\ files = "built"
    /\ pc = [h \in Handler |-> "idle"]
    /\ at = [h \in Handler |-> 1]
    /\ snapshot = [h \in Handler |-> None]
    /\ held = [h \in Handler |-> None]
    /\ bundle = [h \in Handler |-> [e \in Equipment |-> None]]
    /\ died = FALSE
    /\ crossed = {}

(* What a write_text leaves that ends now: the text, unless another writer *)
(* truncated the file after it did and has finished: then the longer of    *)
(* two texts may show behind the shorter one.                              *)
Written(text) == IF manifest = Torn THEN {text} ELSE {text, Torn}

-----------------------------------------------------------------------------
(* build: one run after the other, then the project's own files.           *)

Missing == {e \in Equipment : run[e] = None}

CreateRun(e, status) ==
    /\ build = "building"
    /\ e \in Missing /\ \A d \in Missing : e <= d
    /\ run' = [run EXCEPT ![e] = [status |-> status, lanes |-> {}, reviewer |-> None]]
    /\ draft' = [draft EXCEPT !.status = IF status = "ready" THEN @ ELSE "failed"]
    /\ UNCHANGED <<client, build, manifest, files, handlerVars, history>>

(* The digests signed are those that create_run returned, whatever the     *)
(* runs have become since; the acceptance suite of the project may fail.   *)
BeginRecord(status) ==
    /\ build = "building"
    /\ Missing = {}
    /\ build' = "writing"
    /\ draft' = [draft EXCEPT !.status = IF status = "ready" THEN @ ELSE "failed",
                             !.files = files]
    /\ manifest' = Torn
    /\ UNCHANGED <<run, client, files, handlerVars, history>>

SaveRecord ==
    /\ build = "writing"
    /\ manifest' \in Written(draft)
    /\ build' = "built"
    /\ UNCHANGED <<run, client, draft, files, handlerVars, history>>

(* A create_run raises or the process dies: the runs built stay.           *)
AbandonBuild ==
    /\ build \in {"building", "writing"}
    /\ died' = (died \/ build = "writing")
    /\ build' = "dead"
    /\ UNCHANGED <<run, client, draft, manifest, files, handlerVars, crossed>>

-----------------------------------------------------------------------------
(* The runs as everybody else sees them.                                   *)

(* A save of a run by a handler that had read it as r. *)
Cross(e, r) == crossed' = IF run[e] = r THEN crossed ELSE crossed \cup {e}

(* A qualification, approval or rejection of a single run reads it ...     *)
Read(e) ==
    /\ run[e] # None /\ run[e].status = "ready"
    /\ client[e] = None
    /\ client' = [client EXCEPT ![e] = run[e]]
    /\ UNCHANGED <<run, buildVars, manifest, files, handlerVars, history>>

(* ... and saves what it read with its own changes, or does not.           *)
Outcome(r) ==
    LET Signed(s) == {[r EXCEPT !.lanes = @ \cup {l}, !.status = s] : l \in Lane \ r.lanes}
    IN  {[r EXCEPT !.status = "approved", !.reviewer = Other],
         [r EXCEPT !.status = "rejected", !.reviewer = Other]}
        \cup Signed("ready") \cup Signed("failed")

Save(e) ==
    /\ client[e] # None
    /\ \E r \in Outcome(client[e]) : run' = [run EXCEPT ![e] = r]
    /\ client' = [client EXCEPT ![e] = None]
    /\ Cross(e, client[e])
    /\ UNCHANGED <<buildVars, manifest, files, handlerVars, died>>

Drop(e) ==
    /\ client[e] # None
    /\ client' = [client EXCEPT ![e] = None]
    /\ UNCHANGED <<run, buildVars, manifest, files, handlerVars, history>>

(* A file of the project's own changes on disk. *)
Drift ==
    /\ files = "built"
    /\ files' = "changed"
    /\ UNCHANGED <<run, client, buildVars, manifest, handlerVars, history>>

-----------------------------------------------------------------------------
(* approve and export_path.                                                *)

(* get parses the manifest; approve takes a ready project, export an       *)
(* approved one.                                                           *)
Get(h) ==
    /\ pc[h] = "idle"
    /\ manifest \notin {None, Torn}
    /\ manifest.status \in {"ready", "approved"}
    /\ pc' = [pc EXCEPT ![h] = "verifying"]
    /\ at' = [at EXCEPT ![h] = 1]
    /\ snapshot' = [snapshot EXCEPT ![h] = manifest]
    /\ UNCHANGED <<run, client, buildVars, manifest, files, held, bundle, history>>

(* Mutant: the runs verify themselves, their digests are not compared. *)
VerifyRunAlone(h) ==
    /\ pc[h] = "verifying" /\ at[h] <= Size
    /\ run[at[h]] # None
    /\ at' = [at EXCEPT ![h] = @ + 1]
    /\ UNCHANGED <<run, client, buildVars, manifest, files, pc, snapshot, held, bundle, history>>

(* _verify_integrity, run by run ... *)
VerifyRun(h) ==
    /\ pc[h] = "verifying" /\ at[h] <= Size
    /\ run[at[h]].lanes = snapshot[h].lanes[at[h]]
    /\ at' = [at EXCEPT ![h] = @ + 1]
    /\ UNCHANGED <<run, client, buildVars, manifest, files, pc, snapshot, held, bundle, history>>

(* ... and the project's own files. *)
VerifyFiles(h) ==
    /\ pc[h] = "verifying" /\ at[h] > Size
    /\ files = snapshot[h].files
    /\ pc' = [pc EXCEPT ![h] = IF snapshot[h].status = "ready" THEN "approving"
                                                               ELSE "bundling"]
    /\ at' = [at EXCEPT ![h] = 1]
    /\ UNCHANGED <<run, client, buildVars, manifest, files, snapshot, held, bundle, history>>

(* Mutant: a run that is approved already is approved again, so that an    *)
(* approval that was cut short can be repeated.                            *)
ReadRunAgain(h) ==
    /\ pc[h] = "approving" /\ at[h] <= Size
    /\ held[h] = None
    /\ run[at[h]].status \in {"ready", "approved"}
    /\ held' = [held EXCEPT ![h] = run[at[h]]]
    /\ UNCHANGED <<run, client, buildVars, manifest, files, pc, at, snapshot, bundle, history>>

(* WorkbenchService.approve of the next run, which names no digest ...     *)
ReadRun(h) ==
    /\ pc[h] = "approving" /\ at[h] <= Size
    /\ held[h] = None
    /\ run[at[h]].status = "ready"
    /\ held' = [held EXCEPT ![h] = run[at[h]]]
    /\ UNCHANGED <<run, client, buildVars, manifest, files, pc, at, snapshot, bundle, history>>

(* ... and its save. *)
SaveRun(h) ==
    /\ held[h] # None
    /\ run' = [run EXCEPT ![at[h]] = [held[h] EXCEPT !.status = "approved",
                                                     !.reviewer = h]]
    /\ held' = [held EXCEPT ![h] = None]
    /\ at' = [at EXCEPT ![h] = @ + 1]
    /\ Cross(at[h], held[h])
    /\ UNCHANGED <<client, buildVars, manifest, files, pc, snapshot, bundle, died>>

(* Mutant: one run suffices. *)
BeginApprovalEarly(h) ==
    /\ pc[h] = "approving" /\ at[h] > 1 /\ held[h] = None
    /\ pc' = [pc EXCEPT ![h] = "writing"]
    /\ manifest' = Torn
    /\ UNCHANGED <<run, client, buildVars, files, at, snapshot, held, bundle, history>>

(* ProjectBuildRepository.save truncates the manifest ... *)
BeginApproval(h) ==
    /\ pc[h] = "approving" /\ at[h] > Size
    /\ pc' = [pc EXCEPT ![h] = "writing"]
    /\ manifest' = Torn
    /\ UNCHANGED <<run, client, buildVars, files, at, snapshot, held, bundle, history>>

(* Nothing of a call is left when it returns, raises or dies. *)
Forget(h) ==
    /\ pc' = [pc EXCEPT ![h] = "idle"]
    /\ at' = [at EXCEPT ![h] = 1]
    /\ snapshot' = [snapshot EXCEPT ![h] = None]
    /\ held' = [held EXCEPT ![h] = None]
    /\ bundle' = [bundle EXCEPT ![h] = [e \in Equipment |-> None]]

(* ... and writes it. *)
SaveApproval(h) ==
    /\ pc[h] = "writing"
    /\ manifest' \in Written([snapshot[h] EXCEPT !.status = "approved", !.approval = h])
    /\ Forget(h)
    /\ UNCHANGED <<run, client, buildVars, files, history>>

(* export_path reads each run once more for the bundle. *)
Collect(h) ==
    /\ pc[h] = "bundling" /\ at[h] <= Size
    /\ bundle' = [bundle EXCEPT ![h][at[h]] = run[at[h]]]
    /\ at' = [at EXCEPT ![h] = @ + 1]
    /\ UNCHANGED <<run, client, buildVars, manifest, files, pc, snapshot, held, history>>

(* A handler returns, is refused by a check, raises or dies. *)
Leave(h) ==
    /\ pc[h] # "idle"
    /\ died' = (died \/ pc[h] = "writing")
    /\ Forget(h)
    /\ UNCHANGED <<run, client, buildVars, manifest, files, crossed>>

HandlerStep(h) ==
    \/ Get(h) \/ VerifyRun(h) \/ VerifyFiles(h)
    \/ ReadRun(h) \/ SaveRun(h) \/ BeginApproval(h) \/ SaveApproval(h)
    \/ Collect(h)
    \/ Leave(h)

Next ==
    \/ \E e \in Equipment : \/ \E s \in {"failed", "ready"} : CreateRun(e, s)
                            \/ Read(e) \/ Save(e) \/ Drop(e)
    \/ \E s \in {"failed", "ready"} : BeginRecord(s)
    \/ SaveRecord \/ AbandonBuild \/ Drift
    \/ \E h \in Handler : HandlerStep(h)

Spec == Init /\ [][Next]_vars

-----------------------------------------------------------------------------
(* Properties.                                                             *)

Parsed == manifest \notin {None, Torn}

TypeOK ==
    /\ run \in [Equipment -> Run \cup {None}]
    /\ client \in [Equipment -> Run \cup {None}]
    /\ build \in {"building", "writing", "built", "dead"}
    /\ draft \in Record
    /\ manifest \in Record \cup {None, Torn}
    /\ files \in {"built", "changed"}
    /\ pc \in [Handler -> {"idle", "verifying", "approving", "writing", "bundling"}]
    /\ at \in [Handler -> 1 .. Size + 1]
    /\ snapshot \in [Handler -> Record \cup {None}]
    /\ held \in [Handler -> Run \cup {None}]
    /\ bundle \in [Handler -> [Equipment -> Run \cup {None}]]
    /\ died \in BOOLEAN
    /\ crossed \subseteq Equipment

(* The approval of a project stands for an approval of each of its runs by *)
(* the same reviewer, although other requests approve and reject runs      *)
(* alone, other reviewers approve the project at the same time, and any of *)
(* them may be refused half-way - unless, on that run, one handler saved   *)
(* over a manifest that it had not read.                                   *)
OneReviewer ==
    Parsed /\ manifest.status = "approved" =>
        \A e \in Equipment \ crossed :
            run[e].status = "approved" /\ run[e].reviewer = manifest.approval

(* What a bundle holds of a run is what the project's digest names and its *)
(* reviewer approved, although the runs are verified, and later collected, *)
(* one after the other, and approve names no digest - with the same        *)
(* exception.                                                              *)
BundleIsReviewed ==
    \A h \in Handler : \A e \in Equipment \ crossed :
        bundle[h][e] # None =>
            /\ bundle[h][e].status = "approved"
            /\ bundle[h][e].reviewer = snapshot[h].approval
            /\ bundle[h][e].lanes = snapshot[h].lanes[e]

(* The manifest is written in place and not locked.  It is unreadable only *)
(* while it is written, or since a handler died writing it, or when two    *)
(* reviewers wrote it together: which takes a lost save on every run.      *)
TornOnlyByDeath ==
    manifest = Torn /\ ~died /\ crossed # Equipment =>
        build = "writing" \/ \E h \in Handler : pc[h] = "writing"

(* A second approval of a project, which no lock rules out, takes a lost   *)
(* save on every one of its runs: as long as one run has had none, the     *)
(* manifest of an approved project is not written again, neither by a      *)
(* second reviewer nor half by one.                                        *)
ApprovalFinal ==
    [][Parsed /\ manifest.status = "approved" /\ crossed # Equipment =>
          manifest' = manifest]_vars
=============================================================================
