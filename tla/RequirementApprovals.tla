------------------------ MODULE RequirementApprovals ------------------------
(***************************************************************************)
(* RequirementApprovalRepository.save for one requirement digest: requests *)
(* that run in threads of one or several processes look whether the digest *)
(* is approved, write the same staging path and rename it into place.      *)
(* Nothing locks, so the file that is renamed need not be the one that was *)
(* written: files are inodes, named after the request that created them.   *)
(***************************************************************************)
EXTENDS Naturals

CONSTANTS
    Request,    \* requests to approve the digest
    Torn,       \* content that does not parse
    None        \* no file, no content

VARIABLES
    placed,     \* the inode at <digest>.json
    staging,    \* the inode at <digest>.json.tmp
    content,    \* what each inode holds: the approval of a request
    writes      \* the inode each request has open

approvalVars == <<placed, staging, content, writes>>

ApprovalInit ==
    /\ placed = None
    /\ staging = None
    /\ content = [i \in Request |-> None]
    /\ writes = [q \in Request |-> None]

Exists == placed # None

(* open(staging, "w") truncates the file that is there or creates one.     *)
OpenStaging(q) ==
    LET i == IF staging = None THEN q ELSE staging
    IN  /\ staging' = i
        /\ writes' = [writes EXCEPT ![q] = i]
        /\ content' = [content EXCEPT ![i] = None]
        /\ UNCHANGED placed

(* The text goes to the inode that was opened, wherever it is now; on top  *)
(* of another request's text the longer one shows behind the shorter.      *)
WriteStaging(q) ==
    LET i == writes[q]
    IN  /\ \E text \in IF content[i] = None THEN {q} ELSE {q, Torn} :
               content' = [content EXCEPT ![i] = text]
        /\ writes' = [writes EXCEPT ![q] = None]
        /\ UNCHANGED <<placed, staging>>

(* os.replace; it raises when another request has taken the file away.     *)
Replaceable == staging # None

Replace ==
    /\ placed' = staging
    /\ staging' = None
    /\ UNCHANGED <<content, writes>>

(* Descriptors are closed when a process ends. *)
CloseAll(gone) == writes' = [q \in Request |-> IF q \in gone THEN None ELSE writes[q]]

(* Nothing is synced: a power failure may undo the rename and lose texts.  *)
LoseUnsynced ==
    /\ placed' \in {placed, None}
    /\ \E lost \in SUBSET {i \in Request : content[i] # None} :
           content' = [i \in Request |-> IF i \in lost THEN Torn ELSE content[i]]
    /\ UNCHANGED staging
=============================================================================
