------------------------------- MODULE MCPortal -------------------------------
(* Portal on a small instance: the bounds are in the configuration. *)
EXTENDS Portal
===============================================================================
