---------------------------- MODULE MCCompensation ----------------------------
(* Compensation, and the broker under it, on a small instance: the bounds  *)
(* are in the configuration.                                               *)
EXTENDS Compensation, TLC

TicketSymmetry == Permutations(Tickets)
DeciderSymmetry == Permutations(Deciders)
ResumerSymmetry == Permutations(Resumers)
DeploymentSymmetry == Permutations(Deployments)
Symmetry ==
    TicketSymmetry \cup DeciderSymmetry \cup ResumerSymmetry \cup DeploymentSymmetry
===============================================================================
