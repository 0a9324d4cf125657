------------------------------ MODULE AuditLog ------------------------------
(***************************************************************************)
(* AuditLog of security.py: one line per event, each holding the hash of   *)
(* the line before.  Every process appends under a lock of its own to the  *)
(* same file.  A hash stands for the line it is taken of, and an event is  *)
(* the request it records.                                                 *)
(***************************************************************************)
EXTENDS Naturals, Sequences, SequencesExt

CONSTANTS
    Event,
    Zero,       \* the hash before the first line
    Cut         \* a line that is not JSON

Line == [event : Event, previous : Event \cup {Zero}] \cup {Cut}

(* The file: its lines, and whether the last one ends in a newline.        *)
File == [lines : Seq(Line), ended : BOOLEAN]

VARIABLES
    log,        \* the file as processes see it
    disk        \* the file as of the last fsync

auditVars == <<log, disk>>

AuditInit ==
    /\ log = [lines |-> <<>>, ended |-> TRUE]
    /\ disk = log

(* The hash a new line has to name, and the one that the line at i has to. *)
HeadHash(f) == IF f.lines = <<>> THEN Zero ELSE Last(f.lines).event
Before(f, i) == IF i = 1 THEN Zero ELSE f.lines[i - 1].event

(* verify: every line parses and names the one before. *)
Verifies(f) ==
    /\ \A i \in DOMAIN f.lines : f.lines[i] # Cut
    /\ \A i \in DOMAIN f.lines : f.lines[i].previous = Before(f, i)

(* _last_hash raises when the last line is not JSON. *)
HeadReadable(f) == f.lines # <<>> => Last(f.lines) # Cut

Records(f, e) == \E i \in DOMAIN f.lines : f.lines[i] # Cut /\ f.lines[i].event = e

(* A line, or a part of one, behind what is there: on a line without a     *)
(* newline it makes one that is not JSON.                                  *)
Behind(f, line, ended) ==
    [lines |-> IF f.ended THEN Append(f.lines, line) ELSE Append(Front(f.lines), Cut),
     ended |-> ended]

(* os.write, whose result nobody looks at: on a full disk it may write     *)
(* less, down to all but the newline.                                      *)
WriteWhole(line) == log' = Behind(log, line, TRUE)
WriteShort(line) == log' \in {Behind(log, line, FALSE), Behind(log, Cut, FALSE)}

Sync == disk' = log

(* What a power failure may leave: at least what was synced, and of what   *)
(* was written since, whole lines and perhaps a part of the next.          *)
Surviving ==
    LET cuts == Len(disk.lines) .. Len(log.lines)
        upTo(k) == SubSeq(log.lines, 1, k)
    IN  {disk, log}
        \cup {[lines |-> upTo(k), ended |-> TRUE] : k \in cuts \ {Len(log.lines)}}
        \cup {[lines |-> Append(upTo(k), Cut), ended |-> FALSE] : k \in cuts \ {Len(log.lines)}}
=============================================================================
