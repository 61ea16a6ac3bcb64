----------------------------- MODULE MCHitlBroker -----------------------------
(* HitlBroker on small instances: the bounds are in the configurations. *)
EXTENDS HitlBroker, TLC

TicketSymmetry == Permutations(Tickets)
DeciderSymmetry == Permutations(Deciders)
Symmetry == TicketSymmetry \cup DeciderSymmetry
===============================================================================
