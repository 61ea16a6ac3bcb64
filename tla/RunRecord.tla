------------------------------- MODULE RunRecord -------------------------------
(***************************************************************************)
(* What a migration run promises of its record (design.md, "a run          *)
(* resumable per source 12.3", and Property 8): the steps of the task      *)
(* graph are executed as if one process executed them, one after the       *)
(* other and each of them once, handing every step the outputs of its      *)
(* upstream steps.  The status tells how the run stands; only a whole      *)
(* record is COMPLETED.                                                    *)
(***************************************************************************)
EXTENDS Integers, Sequences

CONSTANTS
    NumSteps,   \* length of the task graph
    Artifacts,  \* outputs of a step
    Sources     \* the steps whose outputs each step is given

VARIABLES
    record,  \* what was executed: the output of each step and its inputs
    status   \* "absent" until the run is created

vars == <<record, status>>

Open == {"PENDING", "RUNNING", "AWAITING_HITL"}

Init == record = <<>> /\ status = "absent"

Create ==
    /\ status = "absent"
    /\ status' = "PENDING"
    /\ UNCHANGED record

(* Steps are numbered from 0; the next one is as many as are recorded.     *)
Given(s) == [u \in Sources[s] |-> record[u + 1].output]

(* The next step is executed; the run is, or goes back to being, open.     *)
Execute ==
    /\ status # "absent" /\ Len(record) < NumSteps
    /\ \E a \in Artifacts :
          record' = Append(record, [output |-> a, inputs |-> Given(Len(record))])
    /\ status' \in Open

Halt ==
    /\ status # "absent"
    /\ status' = "HALTED"
    /\ UNCHANGED record

(* Started, waiting for an approval, or going on after one.                *)
Reopen ==
    /\ status # "absent"
    /\ status' \in {"RUNNING", "AWAITING_HITL"}
    /\ UNCHANGED record

Complete ==
    /\ Len(record) = NumSteps
    /\ status' = "COMPLETED"
    /\ UNCHANGED record

Next == Create \/ Execute \/ Halt \/ Reopen \/ Complete

Spec == Init /\ [][Next]_vars
===============================================================================
