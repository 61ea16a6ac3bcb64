------------------------------ MODULE MCGatedRun ------------------------------
(* GatedRun on a small instance: the bounds are in the configuration. *)
EXTENDS GatedRun
===============================================================================
