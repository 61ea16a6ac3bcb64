-------------------------------- MODULE Router --------------------------------
(***************************************************************************)
(* The deterministic model router: resolve_model and record_outcome, as    *)
(* functions of a task's AttemptState.                                     *)
(*                                                                         *)
(* record_outcome is the only writer of an AttemptState and sets           *)
(* last_confidence and last_status together, so the two are one field:     *)
(* "failed" is a confidence below the threshold with status FAILED,        *)
(* "succeeded" one at or above it with SUCCESS.                            *)
(***************************************************************************)
EXTENDS Integers

CONSTANTS
    TaskTypes,         \* the task types an agent is registered for
    TASK_MODEL_POLICY, \* the default tier of each
    MAX_SONNET_RETRIES

Tiers == {"HAIKU", "SONNET", "OPUS"}

(* HAIKU <= SONNET <= OPUS *)
Rank(tier) == CASE tier = "HAIKU" -> 1 [] tier = "SONNET" -> 2 [] tier = "OPUS" -> 3

ASSUME PolicyAssumption ==
    /\ TASK_MODEL_POLICY \in [TaskTypes -> Tiers]
    /\ MAX_SONNET_RETRIES \in Nat \ {0}

AttemptStates == [number : Nat \ {0}, last : {"none", "failed", "succeeded"}]

FirstAttempt == [number |-> 1, last |-> "none"]

(* What resolve_model comes to: a tier, RunHalt, or the ValueError raised  *)
(* for a retry of a task that has not failed.                              *)
Resolutions == Tiers \cup {"RunHalt", "ValueError"}

(* Seeded fault: the third SONNET attempt falls back to the default tier.  *)
ResolveModelFallsBack(task, attempt, opusAllowed) ==
    CASE attempt.number = 1 -> TASK_MODEL_POLICY[task]
      [] attempt.number > 1 /\ attempt.last # "failed" -> "ValueError"
      [] attempt.number = 2 /\ attempt.last = "failed" -> "SONNET"
      [] attempt.number > 2 /\ attempt.last = "failed" -> TASK_MODEL_POLICY[task]

(* opusAllowed: the answer check_opus_gate would give. *)
ResolveModel(task, attempt, opusAllowed) ==
    LET default == TASK_MODEL_POLICY[task] IN
    CASE attempt.number = 1 -> default
      [] attempt.number > 1 /\ attempt.last # "failed" -> "ValueError"
      [] attempt.number > 1 /\ attempt.last = "failed" ->
            CASE default = "HAIKU"  -> "SONNET"
              [] default = "OPUS"   -> "RunHalt"
              [] default = "SONNET" ->
                    IF attempt.number <= MAX_SONNET_RETRIES THEN "SONNET"
                    ELSE IF opusAllowed THEN "OPUS" ELSE "RunHalt"

(* Seeded fault: a failure is noted, but the attempt is not counted. *)
RecordOutcomeUncounted(attempt, succeeded) ==
    [attempt EXCEPT !.last = IF succeeded THEN "succeeded" ELSE "failed"]

RecordOutcome(attempt, succeeded) ==
    IF succeeded
      THEN [attempt EXCEPT !.last = "succeeded"]
      ELSE [number |-> attempt.number + 1, last |-> "failed"]
===============================================================================
