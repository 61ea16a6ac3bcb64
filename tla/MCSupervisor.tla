----------------------------- MODULE MCSupervisor -----------------------------
(* Supervisor on small instances: the bounds are in the configurations. *)
EXTENDS Supervisor, TLC

WorkerSymmetry == Permutations(Workers)
ArtifactSymmetry == Permutations(Artifacts)
Symmetry == WorkerSymmetry \cup ArtifactSymmetry
===============================================================================
