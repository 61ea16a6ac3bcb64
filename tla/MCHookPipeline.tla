--------------------------- MODULE MCHookPipeline ---------------------------
(* HookPipeline on small instances, with the first two task types of the   *)
(* code's sequence: DISCOVERY_COLLECT (HAIKU) and DISCOVERY_REASON         *)
(* (SONNET), both the Discovery agent's.                                   *)
EXTENDS HookPipeline, TLC

TwoTasks == 0 .. 1
TwoTaskPolicy == (0 :> "HAIKU") @@ (1 :> "SONNET")
TwoTaskAgents == (0 :> "discovery") @@ (1 :> "discovery")

(* A run started with less, or with more, than the default: a late read    *)
(* lets it go on, or halts it early.                                       *)
LargerDefault  == [steps |-> 2, opus |-> 1]
SmallerDefault == [steps |-> 0, opus |-> 1]

Symmetry == Permutations(Envs)
===============================================================================
