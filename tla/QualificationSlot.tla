------------------------- MODULE QualificationSlot -------------------------
(***************************************************************************)
(* What the durable qualification-job plane promises to the rest of the    *)
(* workbench: each candidate run is a lock that at most one job holds, a   *)
(* job holds it from its admission to its verdict, a verdict is final, and *)
(* a holder may start work at most once.  How the promise is kept -- file  *)
(* records, leases, a broker, cancellation -- is QualificationJobs.        *)
(***************************************************************************)
CONSTANTS Run, Job

VARIABLES
    holders,    \* [Run -> SUBSET Job]: who occupies the run's slot
    begun,      \* jobs whose work has started
    verdict     \* [Job -> final verdict, or "open"]

svars == <<holders, begun, verdict>>

Verdicts == {"canceled", "succeeded", "failed"}

Init ==
    /\ holders = [r \in Run |-> {}]
    /\ begun = {}
    /\ verdict = [j \in Job |-> "open"]

(* A fresh job occupies a free slot. *)
Admit(j, r) ==
    /\ verdict[j] = "open"
    /\ \A q \in Run : j \notin holders[q]
    /\ holders[r] = {}
    /\ holders' = [holders EXCEPT ![r] = {j}]
    /\ UNCHANGED <<begun, verdict>>

(* The holder starts its work, once. *)
Begin(j, r) ==
    /\ j \in holders[r]
    /\ j \notin begun
    /\ begun' = begun \cup {j}
    /\ UNCHANGED <<holders, verdict>>

(* The holder leaves the slot with its verdict; only begun work succeeds. *)
Conclude(j, r, v) ==
    /\ j \in holders[r]
    /\ v = "succeeded" => j \in begun
    /\ holders' = [holders EXCEPT ![r] = @ \ {j}]
    /\ verdict' = [verdict EXCEPT ![j] = v]
    /\ UNCHANGED begun

Next ==
    \E j \in Job, r \in Run :
        \/ Admit(j, r)
        \/ Begin(j, r)
        \/ \E v \in Verdicts : Conclude(j, r, v)

Spec == Init /\ [][Next]_svars
=============================================================================
