---------------------------- MODULE MCRetryBackoff ----------------------------
(* RetryBackoff on a small instance: the bounds are in the configuration. *)
EXTENDS RetryBackoff
===============================================================================
