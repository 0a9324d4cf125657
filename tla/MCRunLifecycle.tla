-------------------------- MODULE MCRunLifecycle ---------------------------
(* Small instances of RunLifecycle for TLC.                                *)
EXTENDS RunLifecycle, TLC

Symmetry == Permutations(Handler)
=============================================================================
