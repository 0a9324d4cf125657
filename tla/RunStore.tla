------------------------------ MODULE RunStore ------------------------------
(***************************************************************************)
(* The directory that holds candidate runs (repository.py), written by     *)
(* create_run and opened by every process that constructs a RunRepository: *)
(* the API when it starts, and every qualification job a worker executes.  *)
(*                                                                         *)
(* A run is built file by file in a hidden staging directory and renamed   *)
(* to its final name at the end.  Opening the store deletes every staging  *)
(* directory it finds, on the ground that only a crash can have left one.  *)
(* Deletion walks the directory through an open handle, so a rename does   *)
(* not stop it.                                                            *)
(***************************************************************************)
EXTENDS FiniteSets

CONSTANTS
    Run,        \* runs being created; identifiers are fresh, one build each
    Artifact,   \* files a build writes before it hashes them
    Manifest,   \* manifest.json
    Opener,     \* processes that construct a RunRepository
    Exposed     \* runs during whose build another process may open the store

ASSUME StoreAssumption ==
    /\ Manifest \notin Artifact
    /\ Exposed \subseteq Run

VARIABLES
    place,      \* where each run's directory is: "none", "staging" or "final"
    files,      \* what it contains
    build,      \* where each create_run is
    written,    \* artifacts it has written
    seen,       \* staging directories an opener listed and has not dealt with
    handle,     \* the runs whose directory it has open (at most one)
    todo        \* the entries it read from there and has not unlinked

storeVars == <<place, files>>
buildVars == <<build, written>>
openVars == <<seen, handle, todo>>
vars == <<place, files, build, written, seen, handle, todo>>

Building == {"writing", "hashed", "sealed", "failing"}

Init ==
    /\ place = [r \in Run |-> "none"]
    /\ files = [r \in Run |-> {}]
    /\ build = [r \in Run |-> "idle"]
    /\ written = [r \in Run |-> {}]
    /\ seen = [o \in Opener |-> {}]
    /\ handle = [o \in Opener |-> {}]
    /\ todo = [o \in Opener |-> {}]

Advance(r, from, to) ==
    /\ build[r] = from
    /\ build' = [build EXCEPT ![r] = to]

-----------------------------------------------------------------------------
(* create_run and _materialize_run.                                        *)

(* begin_staged *)
Begin(r) ==
    /\ r \in Exposed \/ \A o \in Opener : seen[o] = {} /\ handle[o] = {}
    /\ Advance(r, "idle", "writing")
    /\ place' = [place EXCEPT ![r] = "staging"]
    /\ UNCHANGED <<files, written, openVars>>

(* One artifact is rendered and written below the staging path. *)
Write(r, a) ==
    /\ build[r] = "writing"
    /\ a \notin written[r]
    /\ place[r] = "staging"
    /\ files' = [files EXCEPT ![r] = @ \cup {a}]
    /\ written' = [written EXCEPT ![r] = @ \cup {a}]
    /\ UNCHANGED <<place, build, openVars>>

(* artifact_hash reads every artifact back. *)
Hash(r) ==
    /\ written[r] = Artifact
    /\ Artifact \subseteq files[r] /\ place[r] = "staging"
    /\ Advance(r, "writing", "hashed")
    /\ UNCHANGED <<storeVars, written, openVars>>

(* commit_staged writes the manifest ... *)
Seal(r) ==
    /\ Advance(r, "hashed", "sealed")
    /\ place[r] = "staging"
    /\ files' = [files EXCEPT ![r] = @ \cup {Manifest}]
    /\ UNCHANGED <<place, written, openVars>>

(* Mutant: the directory is renamed before the manifest is written. *)
PromoteUnsealed(r) ==
    /\ Advance(r, "hashed", "done")
    /\ place[r] = "staging"
    /\ place' = [place EXCEPT ![r] = "final"]
    /\ UNCHANGED <<files, written, openVars>>

(* ... and renames the directory. *)
Promote(r) ==
    /\ Advance(r, "sealed", "done")
    /\ place[r] = "staging"
    /\ place' = [place EXCEPT ![r] = "final"]
    /\ UNCHANGED <<files, written, openVars>>

(* Mutant: an exception ends the build without discard_staged. *)
FailUndiscarded(r) ==
    /\ \E stage \in {"writing", "hashed", "sealed"} : Advance(r, stage, "failed")
    /\ UNCHANGED <<storeVars, written, openVars>>

(* Rendering an artifact raises, or a file operation does: the disk is     *)
(* full, the directory or a file in it is gone, or the rename of a sealed  *)
(* directory is refused.                                                   *)
Fail(r) ==
    /\ \E stage \in {"writing", "hashed", "sealed"} : Advance(r, stage, "failing")
    /\ UNCHANGED <<storeVars, written, openVars>>

(* discard_staged; it raises if somebody else deletes there as well. *)
Discard(r) ==
    /\ Advance(r, "failing", "failed")
    /\ \/ /\ place' = [place EXCEPT ![r] = "none"]
          /\ files' = [files EXCEPT ![r] = {}]
       \/ /\ \E o \in Opener : r \in handle[o]
          /\ \E rest \in SUBSET files[r] : files' = [files EXCEPT ![r] = rest]
          /\ UNCHANGED place
    /\ UNCHANGED <<written, openVars>>

(* The building process dies. *)
Die(r) ==
    /\ build[r] \in Building
    /\ Advance(r, build[r], "dead")
    /\ UNCHANGED <<storeVars, written, openVars>>

-----------------------------------------------------------------------------
(* RunRepository.__init__: _discard_stale_staging_directories.             *)

Idle(o) == seen[o] = {} /\ handle[o] = {}

(* Mutant: a sealed staging directory passes for a finished run. *)
ListUnsealed(o) ==
    /\ Idle(o)
    /\ \A r \in Run \ Exposed : build[r] \notin Building
    /\ seen' = [seen EXCEPT ![o] = {r \in Run : place[r] = "staging" /\ Manifest \notin files[r]}]
    /\ seen' # seen
    /\ UNCHANGED <<storeVars, buildVars, handle, todo>>

List(o) ==
    /\ Idle(o)
    /\ \A r \in Run \ Exposed : build[r] \notin Building
    /\ seen' = [seen EXCEPT ![o] = {r \in Run : place[r] = "staging"}]
    /\ seen' # seen
    /\ UNCHANGED <<storeVars, buildVars, handle, todo>>

(* The constructor raises, or its process dies; the rest stays as it is. *)
Abort(o) ==
    /\ seen' = [seen EXCEPT ![o] = {}]
    /\ handle' = [handle EXCEPT ![o] = {}]
    /\ todo' = [todo EXCEPT ![o] = {}]

(* Mutant: the directory is looked up by its run, not by its staging name. *)
OpenRenamed(o, r) ==
    /\ handle[o] = {}
    /\ r \in seen[o]
    /\ place[r] # "none"
    /\ seen' = [seen EXCEPT ![o] = @ \ {r}]
    /\ handle' = [handle EXCEPT ![o] = {r}]
    /\ todo' = [todo EXCEPT ![o] = files[r]]
    /\ UNCHANGED <<storeVars, buildVars>>

(* rmtree opens the next directory and reads its entries. *)
Open(o, r) ==
    /\ handle[o] = {}
    /\ r \in seen[o]
    /\ place[r] = "staging"
    /\ seen' = [seen EXCEPT ![o] = @ \ {r}]
    /\ handle' = [handle EXCEPT ![o] = {r}]
    /\ todo' = [todo EXCEPT ![o] = files[r]]
    /\ UNCHANGED <<storeVars, buildVars>>

(* The directory was renamed or removed meanwhile: is_dir says no, or      *)
(* rmtree raises.                                                          *)
Miss(o, r) ==
    /\ handle[o] = {}
    /\ r \in seen[o]
    /\ place[r] # "staging"
    /\ \/ seen' = [seen EXCEPT ![o] = @ \ {r}] /\ UNCHANGED <<handle, todo>>
       \/ Abort(o)
    /\ UNCHANGED <<storeVars, buildVars>>

(* rmtree unlinks the next entry, wherever the directory is by now. *)
Unlink(o, r, f) ==
    /\ r \in handle[o]
    /\ f \in todo[o]
    /\ \/ /\ files' = [files EXCEPT ![r] = @ \ {f}]
          /\ todo' = [todo EXCEPT ![o] = @ \ {f}]
          /\ UNCHANGED <<seen, handle>>
       \/ /\ f \notin files[r]
          /\ Abort(o)
          /\ UNCHANGED files
    /\ UNCHANGED <<place, buildVars>>

(* ... and removes the staging path, which must be there and empty. *)
Remove(o, r) ==
    /\ r \in handle[o]
    /\ todo[o] = {}
    /\ \/ /\ place[r] = "staging" /\ files[r] = {}
          /\ place' = [place EXCEPT ![r] = "none"]
          /\ handle' = [handle EXCEPT ![o] = {}]
          /\ UNCHANGED <<seen, todo>>
       \/ /\ place[r] # "staging" \/ files[r] # {}
          /\ Abort(o)
          /\ UNCHANGED place
    /\ UNCHANGED <<files, buildVars>>

Kill(o) ==
    /\ ~ Idle(o)
    /\ Abort(o)
    /\ UNCHANGED <<storeVars, buildVars>>

-----------------------------------------------------------------------------
Next ==
    \/ \E r \in Run :
        \/ Begin(r) \/ Hash(r) \/ Seal(r) \/ Promote(r)
        \/ Fail(r) \/ Discard(r) \/ Die(r)
        \/ \E a \in Artifact : Write(r, a)
    \/ \E o \in Opener :
        \/ List(o) \/ Kill(o)
        \/ \E r \in Run :
            \/ Open(o, r) \/ Miss(o, r) \/ Remove(o, r)
            \/ \E f \in Artifact \cup {Manifest} : Unlink(o, r, f)

Spec == Init /\ [][Next]_vars

(* Processes that open the store keep coming, and not every one of them is *)
(* killed in the middle; a build that runs reaches its end.                *)
Fairness ==
    /\ \A r \in Run :
        WF_vars(\/ Hash(r) \/ Seal(r) \/ Promote(r) \/ Fail(r) \/ Discard(r) \/ Die(r)
                \/ \E a \in Artifact : Write(r, a))
    /\ \A o \in Opener :
        /\ SF_vars(List(o))
        /\ SF_vars(\E r \in Run : Open(o, r))
        /\ SF_vars(\E r \in Run, f \in Artifact \cup {Manifest} : Unlink(o, r, f))
        /\ SF_vars(\E r \in Run : Remove(o, r))

FairSpec == Spec /\ Fairness

-----------------------------------------------------------------------------
(* Properties.                                                             *)

TypeOK ==
    /\ place \in [Run -> {"none", "staging", "final"}]
    /\ files \in [Run -> SUBSET (Artifact \cup {Manifest})]
    /\ build \in [Run -> Building \cup {"idle", "done", "failed", "dead"}]
    /\ written \in [Run -> SUBSET Artifact]
    /\ seen \in [Opener -> SUBSET Run]
    /\ handle \in [Opener -> SUBSET Run]
    /\ todo \in [Opener -> SUBSET (Artifact \cup {Manifest})]

Complete(r) == files[r] = Artifact \cup {Manifest}

(* A run that get and list can see has its manifest and every artifact the *)
(* manifest names, so the integrity check that follows its creation passes;*)
(* that the store is opened during other builds does not matter.           *)
VisibleRunComplete ==
    \A r \in Run \ Exposed : place[r] = "final" => Complete(r)

(* A build that raised, at the latest in the rename of what it sealed,     *)
(* leaves no partial run behind, staged or visible, unless a process that  *)
(* opens the store deletes there at the same time.                         *)
FailedBuildLeavesNothing ==
    \A r \in Run \ Exposed : build[r] = "failed" => place[r] = "none" /\ files[r] = {}

(* Opening the store never starts on a run that is visible: whatever files *)
(* a visible run loses, it loses to an opener that had its directory open  *)
(* before the rename, and no later opener takes more.                      *)
NewOpenersHarmless ==
    [][\A r \in Run : place[r] = "final" =>
          /\ place'[r] = "final"
          /\ files'[r] # files[r] => \E o \in Opener : r \in handle[o]
          /\ \A o \in Opener : r \in handle'[o] => r \in handle[o]]_vars

(* What a dead build left in staging is removed in the end, even though an *)
(* open may give up half-way through and leave the rest to the next.       *)
StagingCleared ==
    \A r \in Run : build[r] = "dead" ~> place[r] # "staging"
=============================================================================
