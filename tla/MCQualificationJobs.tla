------------------------ MODULE MCQualificationJobs ------------------------
(* Small instances of QualificationJobs for TLC.                           *)
EXTENDS QualificationJobs, TLC

(* Jobs and runs are interchangeable in the safety runs. *)
Symmetry == Permutations(Job) \cup Permutations(Run)
=============================================================================
