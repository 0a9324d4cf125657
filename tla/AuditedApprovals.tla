-------------------------- MODULE AuditedApprovals --------------------------
(***************************************************************************)
(* Requests that approve a requirement set (Gate G-ENG), as the API serves *)
(* them: the middleware of create_app authenticates, lets the endpoint do  *)
(* its work, and appends an audit event before the answer leaves.  Several *)
(* processes serve one data directory; they crash, lose power and start    *)
(* again, which verifies the log.                                          *)
(***************************************************************************)
EXTENDS RequirementApprovals, AuditLog

CONSTANT Process

ASSUME EventAssumption == Event = Request
ASSUME NoneAssumption ==
    None \notin Request /\ Torn \notin Request /\ Torn # None /\ None # "created"
ASSUME LineAssumption ==
    Zero \notin Event /\ Cut \notin [event : Event, previous : Event \cup {Zero}]

VARIABLES
    up,         \* processes that run
    server,     \* the process that serves each request
    pc,         \* how far each request is
    previous,   \* the hash each append has read
    result,     \* what its endpoint made of each request
    cut,        \* history: a write was short
    dark,       \* history: power has failed
    shared,     \* history: two processes appended at the same time
    raced       \* history: two requests were in save at the same time

requestVars == <<up, server, pc, previous, result>>
history == <<cut, dark, shared, raced>>
vars == <<approvalVars, auditVars, requestVars, history>>

-----------------------------------------------------------------------------
Init ==
    /\ ApprovalInit /\ AuditInit
    /\ up = Process
    /\ server = [q \in Request |-> None]
    /\ pc = [q \in Request |-> "new"]
    /\ previous = [q \in Request |-> Zero]
    /\ result = [q \in Request |-> None]
    /\ cut = FALSE /\ dark = FALSE /\ shared = FALSE /\ raced = FALSE

InSave == {q \in Request : pc[q] \in {"checked", "opened", "written"}}
Appending == {q \in Request : pc[q] \in {"appending", "syncing"}}
Ended == {"answered", "failed", "lost"}

Moves(q, step) == pc' = [pc EXCEPT ![q] = step]

(* Requests end: nothing of them stays in a process. *)
End(requests, how) ==
    /\ pc' = [q \in Request |-> IF q \in requests THEN how ELSE pc[q]]
    /\ server' = [q \in Request |-> IF q \in requests THEN None ELSE server[q]]
    /\ previous' = [q \in Request |-> IF q \in requests THEN Zero ELSE previous[q]]

Makes(q, r) == result' = [result EXCEPT ![q] = r]

-----------------------------------------------------------------------------
(* The endpoint.                                                           *)

(* A request without the role is answered by the middleware itself.        *)
Deny(q, p) ==
    /\ pc[q] = "new" /\ p \in up
    /\ server' = [server EXCEPT ![q] = p]
    /\ Moves(q, "served") /\ Makes(q, "denied")
    /\ UNCHANGED <<approvalVars, auditVars, up, previous, history>>

(* Mutant: save does not look for an approval that is there. *)
CheckNothing(q, p) ==
    /\ pc[q] = "new" /\ p \in up
    /\ server' = [server EXCEPT ![q] = p]
    /\ raced' = (raced \/ InSave # {})
    /\ Moves(q, "checked")
    /\ UNCHANGED <<approvalVars, auditVars, up, previous, result, cut, dark, shared>>

(* save, up to its look at the path; an approved digest is a conflict.     *)
Check(q, p) ==
    /\ pc[q] = "new" /\ p \in up
    /\ server' = [server EXCEPT ![q] = p]
    /\ IF Exists THEN Moves(q, "served") /\ Makes(q, "conflict") /\ UNCHANGED raced
                 ELSE /\ Moves(q, "checked") /\ UNCHANGED result
                      /\ raced' = (raced \/ InSave # {})
    /\ UNCHANGED <<approvalVars, auditVars, up, previous, cut, dark, shared>>

Open(q) ==
    /\ pc[q] = "checked"
    /\ OpenStaging(q)
    /\ Moves(q, "opened")
    /\ UNCHANGED <<auditVars, up, server, previous, result, history>>

Write(q) ==
    /\ pc[q] = "opened"
    /\ WriteStaging(q)
    /\ Moves(q, "written")
    /\ UNCHANGED <<auditVars, up, server, previous, result, history>>

Place(q) ==
    /\ pc[q] = "written"
    /\ Replaceable
    /\ Replace
    /\ Moves(q, "served") /\ Makes(q, "created")
    /\ UNCHANGED <<auditVars, up, server, previous, history>>

(* The endpoint catches no FileNotFoundError: the exception passes through *)
(* the middleware, and no event is appended.                               *)
PlaceFails(q) ==
    /\ pc[q] = "written"
    /\ ~Replaceable
    /\ End({q}, "failed")
    /\ UNCHANGED <<approvalVars, auditVars, up, result, history>>

-----------------------------------------------------------------------------
(* append, with the lock of the process.                                   *)

Locked(p) == \E q \in Appending : server[q] = p

(* Mutant: the hash of the last line that can be read. *)
ReadHeadAnyway(q) ==
    /\ pc[q] = "served" /\ ~Locked(server[q])
    /\ LET parsed == SelectSeq(log.lines, LAMBDA line : line # Cut)
       IN  previous' = [previous EXCEPT ![q] =
                            IF parsed = <<>> THEN Zero ELSE Last(parsed).event]
    /\ Moves(q, "appending")
    /\ shared' = (shared \/ Appending # {})
    /\ UNCHANGED <<approvalVars, auditVars, up, server, result, cut, dark, raced>>

(* Mutant: the head is read before the lock is taken. *)
ReadHeadUnlocked(q) ==
    /\ pc[q] = "served"
    /\ HeadReadable(log)
    /\ previous' = [previous EXCEPT ![q] = HeadHash(log)]
    /\ Moves(q, "appending")
    /\ shared' = (shared \/ \E r \in Appending : server[r] # server[q])
    /\ UNCHANGED <<approvalVars, auditVars, up, server, result, cut, dark, raced>>

ReadHead(q) ==
    /\ pc[q] = "served" /\ ~Locked(server[q])
    /\ HeadReadable(log)
    /\ previous' = [previous EXCEPT ![q] = HeadHash(log)]
    /\ Moves(q, "appending")
    /\ shared' = (shared \/ Appending # {})
    /\ UNCHANGED <<approvalVars, auditVars, up, server, result, cut, dark, raced>>

NewLine(q) == [event |-> q, previous |-> previous[q]]

AppendWhole(q) ==
    /\ pc[q] = "appending"
    /\ WriteWhole(NewLine(q))
    /\ Moves(q, "syncing")
    /\ UNCHANGED <<approvalVars, disk, up, server, previous, result, history>>

AppendShort(q) ==
    /\ pc[q] = "appending"
    /\ WriteShort(NewLine(q))
    /\ Moves(q, "syncing")
    /\ cut' = TRUE
    /\ UNCHANGED <<approvalVars, disk, up, server, previous, result, dark, shared, raced>>

(* Mutant: append returns before the file is synced. *)
AnswerUnsynced(q) ==
    /\ pc[q] = "syncing"
    /\ End({q}, "answered")
    /\ UNCHANGED <<approvalVars, auditVars, up, result, history>>

Answer(q) ==
    /\ pc[q] = "syncing"
    /\ Sync
    /\ End({q}, "answered")
    /\ UNCHANGED <<approvalVars, log, up, result, history>>

(* The head cannot be read, or the write or fsync raises: the caller sees  *)
(* an error although the endpoint has done its work.                       *)
AppendFails(q) ==
    /\ \/ pc[q] = "served" /\ ~Locked(server[q]) /\ ~HeadReadable(log)
       \/ pc[q] \in {"appending", "syncing"}
    /\ End({q}, "failed")
    /\ UNCHANGED <<approvalVars, auditVars, up, result, history>>

-----------------------------------------------------------------------------
(* Processes.                                                              *)

Of(processes) == {q \in Request : server[q] \in processes}

Stop(processes) ==
    /\ up' = up \ processes
    /\ End(Of(processes), "lost")
    /\ CloseAll(Of(processes))
    /\ UNCHANGED <<result, cut, shared, raced>>

Crash(p) ==
    /\ p \in up
    /\ Stop({p})
    /\ UNCHANGED <<placed, staging, content, auditVars, dark>>

PowerFails ==
    /\ up # {}
    /\ Stop(up)
    /\ LoseUnsynced
    /\ log' \in Surviving
    /\ disk' = log'
    /\ dark' = TRUE

(* create_app opens the log, which verifies it, or does not start.         *)
Start(p) ==
    /\ p \notin up
    /\ Verifies(log)
    /\ up' = up \cup {p}
    /\ UNCHANGED <<approvalVars, auditVars, server, pc, previous, result, history>>

Next ==
    \/ \E q \in Request :
          \/ \E p \in Process : Deny(q, p) \/ Check(q, p)
          \/ Open(q) \/ Write(q) \/ Place(q) \/ PlaceFails(q)
          \/ ReadHead(q) \/ AppendWhole(q) \/ AppendShort(q) \/ Answer(q) \/ AppendFails(q)
    \/ \E p \in Process : Crash(p) \/ Start(p)
    \/ PowerFails

Spec == Init /\ [][Next]_vars

-----------------------------------------------------------------------------
(* Properties.                                                             *)

TypeOK ==
    /\ placed \in Request \cup {None} /\ staging \in Request \cup {None}
    /\ content \in [Request -> Request \cup {None, Torn}]
    /\ writes \in [Request -> Request \cup {None}]
    /\ log \in File /\ disk \in File
    /\ up \subseteq Process
    /\ server \in [Request -> Process \cup {None}]
    /\ pc \in [Request -> {"new", "checked", "opened", "written", "served",
                           "appending", "syncing"} \cup Ended]
    /\ previous \in [Request -> Event \cup {Zero}]
    /\ result \in [Request -> {None, "denied", "conflict", "created"}]
    /\ cut \in BOOLEAN /\ dark \in BOOLEAN /\ shared \in BOOLEAN /\ raced \in BOOLEAN

(* Whoever got an answer is in the log for good, whatever fails after it,  *)
(* or the log does not verify and says so.                                 *)
AnsweredRecorded ==
    \A q \in Request : pc[q] = "answered" => Records(disk, q) \/ ~Verifies(disk)

(* The log stops verifying only when a write was short, power failed, or   *)
(* two processes appended at the same time, which no lock prevents.        *)
ChainHolds == cut \/ dark \/ shared \/ Verifies(log)

(* Damage is not buried: as long as processes do not append at the same    *)
(* time, a line that does not parse is the last one, whoever tries to      *)
(* write after it.  Its own request may have been answered: append does    *)
(* not look at how much of a line was written.                             *)
DamageIsLast ==
    shared \/ \A i \in 1 .. Len(log.lines) - 1 : log.lines[i] # Cut

(* Of requests that do not overlap in save one creates the approval, and   *)
(* the file holds that one, whatever process died in save before.          *)
OneApproval ==
    ~raced /\ ~dark =>
        \A q \in Request : result[q] = "created" => placed # None /\ content[placed] = q
=============================================================================
