------------------------------- MODULE MCAgents -------------------------------
(* Agents on a small instance: the bounds are in the configuration. *)
EXTENDS Agents
===============================================================================
