--------------------------- MODULE MCProjectBuild ---------------------------
(* Symmetry of the handlers of a project.                                  *)
EXTENDS ProjectBuild, TLC

Handlers == Permutations(Handler)
=============================================================================
