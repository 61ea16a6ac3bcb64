-------------------------- MODULE RunStateRepository --------------------------
(***************************************************************************)
(* The RunState item of one run and the writes RunStateRepository makes to *)
(* it.  Items of different runs share nothing (the key is runId), so one   *)
(* item is enough.  Each operator is one DynamoDB call, which DynamoDB     *)
(* applies atomically to the item; the callers interleave between calls.   *)
(*                                                                         *)
(* The task graph is a fixed sequence in which no task type occurs twice,  *)
(* so a step number stands for its node, its task type and the key of its  *)
(* output in task_outputs.  traceId, counters (never read back from this   *)
(* item) and the timestamps are left out.                                  *)
(***************************************************************************)
EXTENDS Integers

CONSTANTS
    NumSteps,    \* length of the task graph; the code's is 6
    Artifacts,   \* ArtifactRefs an agent may return
    NoArtifact   \* no entry in task_outputs

ASSUME StepsAssumption == NumSteps \in Nat \ {0}
ASSUME ArtifactAssumption == NoArtifact \notin Artifacts

Steps == 0 .. NumSteps - 1

Statuses == {"PENDING", "RUNNING", "AWAITING_HITL", "HALTED", "COMPLETED", "FAILED"}
Terminal == {"HALTED", "COMPLETED", "FAILED"}

RunStates ==
    [ exists    : BOOLEAN,
      status    : Statuses,
      idx       : 0 .. NumSteps,
      completed : SUBSET Steps,
      outputs   : [Steps -> Artifacts \cup {NoArtifact}] ]

(* The table before start_run: no item under this runId. *)
NoRun ==
    [ exists    |-> FALSE,
      status    |-> "PENDING",
      idx       |-> 0,
      completed |-> {},
      outputs   |-> [s \in Steps |-> NoArtifact] ]

(* The RunState start_run builds around build_task_graph. *)
NewRun == [NoRun EXCEPT !.exists = TRUE]

(* _DOWNSTREAM_INPUTS: the earlier steps whose outputs step s is given.    *)
(* MODERNIZATION_PLAN (step 2) reads the inventory of DISCOVERY_COLLECT    *)
(* (step 0), DEVOPS_EXEC (step 5) the blueprint of MODERNIZATION_PLAN.     *)
Upstream(s) ==
    CASE s = 2 -> {0}
      [] s = 5 -> {2}
      [] OTHER -> {}

(* TaskEnvelope.inputs of step s, built from the task_outputs of a state:  *)
(* an upstream type with no output yet gives no input.                     *)
Inputs(state, s) ==
    [u \in {v \in Upstream(s) : state.outputs[v] # NoArtifact} |-> state.outputs[u]]

(* Seeded fault: node.completed is left as it was. *)
AdvanceUncompleted(state, a) ==
    [state EXCEPT !.outputs[state.idx] = a, !.idx = @ + 1]

(* route_task's changes to the object it has read: the node at the current *)
(* index is completed with output a, and the index moves on.               *)
Advance(state, a) ==
    [state EXCEPT !.completed = @ \cup {state.idx},
                  !.outputs[state.idx] = a,
                  !.idx = @ + 1]

(* Seeded fault: a save of the step already recorded is let through.       *)
SaveAcceptedAgain(item, new) == ~item.exists \/ item.idx <= new.idx

(* Seeded fault: the sequence ends one node early. *)
FinishedEarly(state) == state.idx + 1 >= NumSteps

(* route_task's test for the end of the task graph. *)
Finished(state) == state.idx >= NumSteps

(* The condition expression of save: the item is absent, or its            *)
(* currentStepIndex is strictly below that of the state to be written.     *)
SaveAccepted(item, new) == ~item.exists \/ item.idx < new.idx

(* save: PutItem replaces the whole item, status included, or the          *)
(* condition fails and save returns False.                                 *)
Save(item, new) == IF SaveAccepted(item, new) THEN new ELSE item

(* update_status: an UpdateItem with no condition at all.                  *)
UpdateStatus(item, status) == [item EXCEPT !.status = status]
===============================================================================
