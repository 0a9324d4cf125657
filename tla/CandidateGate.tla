--------------------------- MODULE CandidateGate ---------------------------
(***************************************************************************)
(* What a reviewer is promised of a candidate run: evidence is attached to *)
(* it lane by lane and never withdrawn, a failing report closes it, and a  *)
(* decision is taken once, on everything attached so far.                  *)
(***************************************************************************)
CONSTANT Lane

VARIABLES
    reports,    \* [Lane -> "none", "pass" or "fail"]
    decision    \* "failed", "ready", "approved" or "rejected"

gvars == <<reports, decision>>

Init ==
    /\ reports = [l \in Lane |-> "none"]
    /\ decision \in {"failed", "ready"}

Attach(l, report) ==
    /\ decision = "ready"
    /\ reports[l] = "none"
    /\ reports' = [reports EXCEPT ![l] = report]
    /\ decision' = IF report = "pass" THEN "ready" ELSE "failed"

Decide(d) ==
    /\ decision = "ready"
    /\ decision' = d
    /\ UNCHANGED reports

Next ==
    \/ \E l \in Lane, report \in {"pass", "fail"} : Attach(l, report)
    \/ \E d \in {"approved", "rejected"} : Decide(d)

Spec == Init /\ [][Next]_gvars
=============================================================================
