----------------------------- MODULE HookPipeline -----------------------------
(***************************************************************************)
(* HookPipeline.invoke_spoke with the Cost/Budget hook and the Router, as  *)
(* build_worker_supervisor wires them: the counters of the run are a       *)
(* DynamoDB row every worker shares, while the kill switch, the            *)
(* idempotency keys, the step history, the failure counters and the        *)
(* attempt states are objects in the memory of one execution environment,  *)
(* which live from its cold start to its end.                              *)
(*                                                                         *)
(* One run is modelled.  The environments are those of the run-worker      *)
(* Lambda; route_task appears as what starts an invocation for the step    *)
(* the run has reached and, when a result that is not PARTIAL comes back,  *)
(* saves the next index (module Supervisor has the rest).                  *)
(*                                                                         *)
(* The step ceiling stands for the four ceilings of pre_check: the token   *)
(* and cost ceilings test the same row the same way with other amounts,    *)
(* and the wall-clock counter is never moved (wall_clock_ms is passed 0).  *)
(* The gate resolver of the worker never finds a gate.                     *)
(***************************************************************************)
EXTENDS Router, Sequences, FiniteSets

CONSTANTS
    Envs,                     \* execution environments of the run worker
    AgentOf,                  \* the agent registered for each task type
    MaxSteps,                 \* max_steps of the run's own BudgetCeiling
    MaxOpusInvocations,       \* and its max_opus_invocations
    DEFAULT_BUDGET_CEILING,   \* what a read that misses it falls back on
    NO_PROGRESS_LOOKBACK,
    MAX_CONSECUTIVE_FAILURES,
    MaxColdStarts,            \* bound: environments that die and are replaced
    MaxLag                    \* bound: versions of the row a read may miss

(* The task types are the steps of the run, in order. *)
NumSteps == Cardinality(TaskTypes)
Agents == {AgentOf[t] : t \in TaskTypes}

ASSUME PipelineAssumption ==
    /\ IsFiniteSet(Envs) /\ Envs # {}
    /\ TaskTypes = 0 .. NumSteps - 1 /\ IsFiniteSet(TaskTypes) /\ TaskTypes # {}
    /\ MaxSteps \in Nat /\ MaxOpusInvocations \in Nat /\ MaxColdStarts \in Nat
    /\ MaxLag \in Nat
    /\ DEFAULT_BUDGET_CEILING \in [steps : Nat, opus : Nat]
    /\ NO_PROGRESS_LOOKBACK \in Nat \ {0}
    /\ MAX_CONSECUTIVE_FAILURES \in Nat \ {0}

VARIABLES
    counters,   \* the RunCounters row: totalSteps and opusInvocations
    index,      \* RunState.currentStepIndex
    mem,        \* the in-memory stores of each environment
    pc,         \* where its invocation stands
    task,       \* the task type of the invocation
    tier,       \* the tier resolve_model chose for it
    result,     \* the SpokeResult at hand
    coldStarts  \* environments that died so far

(* History variables, read by no action: the tier each environment used    *)
(* last for a task, the OPUS calls of the run (counted up to one over the  *)
(* cap), the attempts whose validated result has been recorded, and, by    *)
(* environment and agent, whether each of the last results record_usage    *)
(* counted there, MAX_CONSECUTIVE_FAILURES of them at most, was FAILED.    *)
VARIABLES used, opusCalls, recorded, counted

vars == <<counters, index, mem, pc, task, tier, result, coldStarts,
          used, opusCalls, recorded, counted>>
history == <<used, opusCalls, recorded, counted>>

SpokeStatuses == {"SUCCESS", "PARTIAL", "FAILED"}

(* A validated SpokeResult: its status and whether its confidence reaches  *)
(* CONFIDENCE_THRESHOLD.  Invalid: one that fails schema validation.       *)
Validated == [status : SpokeStatuses, confident : BOOLEAN]
Invalid   == [status |-> "FAILED", confident |-> FALSE, schema |-> "invalid"]
NoResult  == [status |-> "none"]

Memories ==
    [ killSwitch : BOOLEAN,
      seen       : SUBSET (Agents \X (Nat \ {0})),
      window     : Seq([task : TaskTypes, progressed : BOOLEAN]),
      failures   : [Agents -> Nat],
      attempts   : [TaskTypes -> AttemptStates] ]

FreshMemory ==
    [ killSwitch |-> FALSE,
      seen       |-> {},
      window     |-> << >>,
      failures   |-> [a \in Agents |-> 0],
      attempts   |-> [t \in TaskTypes |-> FirstAttempt] ]

NothingCounted == [a \in Agents |-> << >>]

PipelinePC == {"idle", "precheck", "resolve", "execute", "record", "finish", "return"}

Init ==
    /\ counters   = [steps |-> 0, opus |-> 0]
    /\ index      = 0
    /\ mem        = [e \in Envs |-> FreshMemory]
    /\ pc         = [e \in Envs |-> "idle"]
    /\ task       = [e \in Envs |-> 0]
    /\ tier       = [e \in Envs |-> "none"]
    /\ result     = [e \in Envs |-> NoResult]
    /\ coldStarts = 0
    /\ used       = [e \in Envs |-> [t \in TaskTypes |-> "none"]]
    /\ opusCalls  = 0
    /\ recorded   = {}
    /\ counted    = [e \in Envs |-> NothingCounted]

Goto(e, place) == pc' = [pc EXCEPT ![e] = place]

Attempt(e) == mem[e].attempts[task[e]]

(* What the attempt holds in local variables ends with it. *)
DropLocals(e) ==
    /\ tier'   = [tier EXCEPT ![e] = "none"]
    /\ result' = [result EXCEPT ![e] = NoResult]

(* set_kill_switch(run_id, True) in this environment's store. *)
SetKillSwitch(e) == mem' = [mem EXCEPT ![e].killSwitch = TRUE]

-------------------------------------------------------------------------------
(* route_task invokes the pipeline for the step the run has reached. *)
Invoke(e) ==
    /\ pc[e] = "idle" /\ index < NumSteps
    /\ task' = [task EXCEPT ![e] = index]
    /\ Goto(e, "precheck")
    /\ UNCHANGED <<counters, index, mem, tier, result, coldStarts, history>>

(* RunCountersRepository.get does not ask for a consistent read: the row   *)
(* it returns may lack the last MaxLag increments, or the read may miss    *)
(* the row altogether (-1), which fails an assertion.                      *)
StepsRead == {-1} \cup {n \in counters.steps - MaxLag .. counters.steps : n >= 0}

(* get_budget_ceiling reads the item persist_budget_ceiling stored before  *)
(* the run was triggered, not consistently either: a read that misses it   *)
(* answers with the default ceiling, whatever was read before.             *)
CeilingsRead ==
    {[steps |-> MaxSteps, opus |-> MaxOpusInvocations], DEFAULT_BUDGET_CEILING}

(* Seeded faults of pre_check: the step at hand is not projected; the kill *)
(* switch is not looked at.                                                *)
PreCheckHaltsUnprojected(e, steps, ceiling) ==
    mem[e].killSwitch \/ steps > ceiling.steps
PreCheckHaltsCeilingOnly(e, steps, ceiling) ==
    steps + 1 > ceiling.steps

(* pre_check: the kill switch of this environment's memory, then the       *)
(* ceiling as it is read against the row as it is read.                    *)
PreCheckHalts(e, steps, ceiling) ==
    mem[e].killSwitch \/ steps + 1 > ceiling.steps

(* HALT sets the kill switch and raises HitlAlert out of the handler; a    *)
(* row that is not found only raises.                                      *)
PreCheck(e) ==
    /\ pc[e] = "precheck"
    /\ \E steps \in StepsRead, ceiling \in CeilingsRead :
          \/ PreCheckHalts(e, steps, ceiling) /\ SetKillSwitch(e) /\ Goto(e, "idle")
          \/ /\ ~PreCheckHalts(e, steps, ceiling)
             /\ Goto(e, IF steps < 0 THEN "idle" ELSE "resolve")
             /\ UNCHANGED mem
    /\ UNCHANGED <<counters, index, task, tier, result, coldStarts, history>>

(* check_opus_gate; every version of the row has the same Opus count.  It  *)
(* is asked where the answer matters, and reads the row again: a read that *)
(* misses it fails the assertion.                                          *)
OpusAllowed(ceiling) == counters.opus < ceiling.opus
OpusGateAsked(e) ==
    ResolveModel(task[e], Attempt(e), TRUE) # ResolveModel(task[e], Attempt(e), FALSE)

(* resolve_model: a tier, RunHalt (kill switch and HitlAlert), or the      *)
(* ValueError or failed assertion, which only leave the handler.           *)
Resolve(e) ==
    /\ pc[e] = "resolve"
    /\ \E ceiling \in CeilingsRead :
          LET resolution == ResolveModel(task[e], Attempt(e), OpusAllowed(ceiling)) IN
          \/ /\ resolution \in Tiers
             /\ tier' = [tier EXCEPT ![e] = resolution]
             /\ Goto(e, "execute")
             /\ UNCHANGED mem
          \/ /\ resolution = "RunHalt"
             /\ SetKillSwitch(e)
             /\ Goto(e, "idle")
             /\ UNCHANGED tier
          \/ /\ resolution = "ValueError" \/ OpusGateAsked(e)
             /\ Goto(e, "idle")
             /\ UNCHANGED <<tier, mem>>
    /\ UNCHANGED <<counters, index, task, result, coldStarts, history>>

(* agent.execute and validate_output_schema.  A result that fails the      *)
(* schema goes back to route_task at once, unrecorded.                     *)
Execute(e) ==
    /\ pc[e] = "execute"
    /\ \/ \E r \in Validated : result' = [result EXCEPT ![e] = r] /\ Goto(e, "record")
       \/ result' = [result EXCEPT ![e] = Invalid] /\ Goto(e, "return")
    /\ used' = [used EXCEPT ![e][task[e]] = tier[e]]
    /\ opusCalls' = IF tier[e] = "OPUS" /\ opusCalls <= MaxOpusInvocations
                      THEN opusCalls + 1 ELSE opusCalls
    /\ UNCHANGED <<counters, index, mem, task, tier, coldStarts, recorded, counted>>

(* The agent raises: nothing is recorded. *)
ExecuteFails(e) ==
    /\ pc[e] = "execute"
    /\ Goto(e, "idle")
    /\ DropLocals(e)
    /\ UNCHANGED <<counters, index, mem, task, coldStarts, history>>

(* Seeded fault: a deque without maxlen. *)
AppendUnbounded(window, entry) == Append(window, entry)

(* deque(maxlen=lookback).append *)
AppendBounded(window, entry) ==
    LET longer == Append(window, entry) IN
    IF Len(longer) > NO_PROGRESS_LOOKBACK THEN Tail(longer) ELSE longer

(* The tool call signature is "agent:task", so a task stands for both. *)
RepeatedNoProgress(window) ==
    /\ Len(window) = NO_PROGRESS_LOOKBACK
    /\ \A i \in 1 .. Len(window) : window[i].task = window[1].task /\ ~window[i].progressed

(* Seeded fault: the breaker opens one failure late. *)
ConsecutiveFailuresLate(n) == n > MAX_CONSECUTIVE_FAILURES

ConsecutiveFailures(n) == n >= MAX_CONSECUTIVE_FAILURES

(* What record_usage does to the stores, the atomic increment aside. *)
Recorded(m, t, status) ==
    LET agent    == AgentOf[t]
        window   == AppendBounded(m.window, [task |-> t, progressed |-> TRUE])
        failures == [m.failures EXCEPT ![agent] = IF status = "FAILED" THEN @ + 1 ELSE 0]
    IN  [m EXCEPT !.seen = @ \cup {<<agent, m.attempts[t].number>>},
                  !.window = window,
                  !.failures = failures,
                  !.killSwitch = @ \/ RepeatedNoProgress(window)
                                   \/ ConsecutiveFailures(failures[agent])]

(* record_usage under the key traceId:attemptNumber of this agent.  Not    *)
(* seen by this environment: one ADD to the shared row (of one step and no *)
(* OPUS invocation) and the private stores.  Seen before: nothing but a    *)
(* read of the row, and its assertion if that misses it.                   *)
LastCounted(results, failed) ==
    LET longer == Append(results, failed) IN
    IF Len(longer) > MAX_CONSECUTIVE_FAILURES THEN Tail(longer) ELSE longer
AlreadyRecorded(e) == <<AgentOf[task[e]], Attempt(e).number>> \in mem[e].seen
CountUsage(e) ==
    /\ ~AlreadyRecorded(e)
    /\ counters' = [counters EXCEPT !.steps = @ + 1]
    /\ mem' = [mem EXCEPT ![e] = Recorded(@, task[e], result[e].status)]
    /\ counted' = [counted EXCEPT ![e][AgentOf[task[e]]] =
                      LastCounted(@, result[e].status = "FAILED")]

RecordUsage(e) ==
    /\ pc[e] = "record"
    /\ \/ /\ CountUsage(e) \/ (AlreadyRecorded(e) /\ UNCHANGED <<counters, mem, counted>>)
          /\ recorded' = recorded \cup {<<task[e], Attempt(e).number>>}
          /\ Goto(e, "finish")
          /\ UNCHANGED <<tier, result>>
       \/ /\ AlreadyRecorded(e)
          /\ Goto(e, "idle")
          /\ DropLocals(e)
          /\ UNCHANGED <<counters, mem, recorded, counted>>
    /\ UNCHANGED <<index, task, coldStarts, used, opusCalls>>

(* The audit event and the memory hook (no state of the run), then         *)
(* record_outcome; a low confidence invokes the spoke again.               *)
FinishAttempt(e) ==
    /\ pc[e] = "finish"
    /\ mem' = [mem EXCEPT ![e].attempts[task[e]] = RecordOutcome(@, result[e].confident)]
    /\ \/ result[e].confident /\ Goto(e, "return") /\ UNCHANGED <<tier, result>>
       \/ ~result[e].confident /\ Goto(e, "precheck") /\ DropLocals(e)
    /\ UNCHANGED <<counters, index, task, coldStarts, history>>

(* Back in route_task: PARTIAL leaves the run where it is; any other       *)
(* result is saved as the step's, unless the save loses to another         *)
(* worker's or fails.                                                      *)
ReturnResult(e) ==
    /\ pc[e] = "return"
    /\ \/ UNCHANGED index
       \/ result[e].status # "PARTIAL" /\ index = task[e] /\ index' = index + 1
    /\ Goto(e, "idle")
    /\ DropLocals(e)
    /\ UNCHANGED <<counters, mem, task, coldStarts, history>>

(* The environment dies, wherever it stands, and a new one starts cold. *)
ColdStart(e) ==
    /\ coldStarts < MaxColdStarts
    /\ coldStarts' = coldStarts + 1
    /\ mem'  = [mem EXCEPT ![e] = FreshMemory]
    /\ used' = [used EXCEPT ![e] = [t \in TaskTypes |-> "none"]]
    /\ counted' = [counted EXCEPT ![e] = NothingCounted]
    /\ Goto(e, "idle")
    /\ DropLocals(e)
    /\ UNCHANGED <<counters, index, task, opusCalls, recorded>>

InvokeSpoke(e) ==
    \/ PreCheck(e)
    \/ Resolve(e)
    \/ Execute(e)
    \/ RecordUsage(e)
    \/ FinishAttempt(e)
    \/ ReturnResult(e)

Next == \E e \in Envs : Invoke(e) \/ InvokeSpoke(e) \/ ExecuteFails(e) \/ ColdStart(e)

Spec == Init /\ [][Next]_vars

(* A running invocation goes on; that one starts, fails or dies is never   *)
(* owed.                                                                   *)
FairSpec == Spec /\ \A e \in Envs : WF_vars(InvokeSpoke(e))
-------------------------------------------------------------------------------
(* Every variable keeps to its type. *)
TypeOK ==
    /\ counters \in [steps : Nat, opus : Nat]
    /\ index \in 0 .. NumSteps
    /\ mem \in [Envs -> Memories]
    /\ \A e \in Envs : Len(mem[e].window) <= NO_PROGRESS_LOOKBACK
    /\ pc \in [Envs -> PipelinePC]
    /\ task \in [Envs -> TaskTypes]
    /\ tier \in [Envs -> Tiers \cup {"none"}]
    /\ result \in [Envs -> Validated \cup {Invalid, NoResult}]
    /\ coldStarts \in 0 .. MaxColdStarts

(* pre_check and record_usage are separate calls and pre_check's reads may *)
(* be late, so a step ceiling can be overshot, but only by what the read   *)
(* of the row missed and what was in flight: each environment past its     *)
(* check adds at most one step.  The ceiling that holds is the higher of   *)
(* the run's own and the default a late read falls back on: environments   *)
(* that work under different ones do not add them up.                      *)
InFlight == {e \in Envs : pc[e] \in {"resolve", "execute", "record"}}
OvershootBounded ==
    \E ceiling \in CeilingsRead :
        counters.steps + Cardinality(InFlight) <=
            ceiling.steps + MaxLag + Cardinality(Envs) - 1

(* Whatever set it (a breached ceiling, the Opus gate, a circuit breaker   *)
(* in the middle of an invocation), the kill switch of an environment      *)
(* stops that environment: no tier is resolved, no model is called.        *)
KillSwitchHolds ==
    \A e \in Envs : mem[e].killSwitch => pc[e] \notin {"resolve", "execute"}

(* The failure breaker misses no result it is given: when the last         *)
(* MAX_CONSECUTIVE_FAILURES results counted for an agent in an environment *)
(* are FAILED, across its tasks and attempts, invocations and exceptions,  *)
(* the environment's kill switch is set.  It is given fewer than the       *)
(* environment sees: a result that fails the schema is FAILED and never    *)
(* recorded, and one whose idempotency key was seen is not counted.        *)
AllFailed(results) ==
    Len(results) = MAX_CONSECUTIVE_FAILURES /\ \A i \in 1 .. Len(results) : results[i]
FailuresTripBreaker ==
    \A e \in Envs : \A a \in Agents : AllFailed(counted[e][a]) => mem[e].killSwitch

(* Monotonic escalation, within the memory of an environment: no task is   *)
(* run on a tier below one it was already run on there, across retries,    *)
(* exceptions and renewed routings of the task.                            *)
EscalationMonotonic ==
    \A e \in Envs :
        pc[e] = "execute" /\ used[e][task[e]] # "none" =>
            Rank(tier[e]) >= Rank(used[e][task[e]])

(* The recursion of invoke_spoke on low confidence ends, though neither    *)
(* the HAIKU ladder nor the OPUS rung ever raises RunHalt: every attempt   *)
(* has a new idempotency key, so every attempt is counted in the end and   *)
(* the step ceiling stops it.                                              *)
InvocationTerminates ==
    \A e \in Envs : pc[e] = "precheck" ~> pc[e] = "idle"

(* Contradicted: "Once isKillSwitchActive(runId) = TRUE, no subsequent     *)
(* preCheck for that runId returns OK" (design.md, Property 6).            *)
KillSwitchStopsRun ==
    [][(\E e \in Envs : mem[e].killSwitch) =>
          ~ \E f \in Envs : pc[f] = "precheck" /\ pc'[f] = "resolve"]_vars

(* Contradicted: record_usage "SHALL atomically increment the run's        *)
(* counters" (Requirement 4.5).  The first validated result of an attempt  *)
(* is counted.                                                             *)
UsageCounted ==
    [][\A e \in Envs :
          pc[e] = "record" /\ pc'[e] = "finish"
             /\ <<task[e], Attempt(e).number>> \notin recorded
          => counters'.steps = counters.steps + 1]_vars

(* Contradicted: the Opus gate denies once "the run's Opus invocation      *)
(* count has reached the configured maximum" (Requirement 4.7).            *)
OpusWithinCap == opusCalls <= MaxOpusInvocations
===============================================================================
