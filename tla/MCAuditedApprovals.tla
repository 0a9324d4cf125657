------------------------ MODULE MCAuditedApprovals -------------------------
(* Symmetry of the requests and of the processes.                          *)
EXTENDS AuditedApprovals, TLC

Peers == Permutations(Request) \cup Permutations(Process)
=============================================================================
