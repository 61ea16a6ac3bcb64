------------------------------ MODULE Supervisor ------------------------------
(***************************************************************************)
(* One migration run driven by the Supervisor as it is deployed: the       *)
(* portal's start_run Lambda creates the run and sends an asynchronous     *)
(* event to the run-worker Lambda, whose handler loops over route_task;    *)
(* an operator may call kill_run.                                          *)
(*                                                                         *)
(* Every worker is one execution environment of the run-worker Lambda,     *)
(* which serves one event at a time.  Several may serve events of the same *)
(* run together: asynchronous delivery is at least once, and a failed      *)
(* invocation is delivered again while the first one's effects stand.      *)
(*                                                                         *)
(* HookPipeline.invoke_spoke is one step here: it returns a result that    *)
(* is not PARTIAL, returns a PARTIAL result, or raises (HitlAlert, an      *)
(* agent's error).  Module HookPipeline models what happens inside it.     *)
(* The wired gate resolver (_NoGateResolver) never raises a gate, so no    *)
(* action here moves the run to AWAITING_HITL.                             *)
(***************************************************************************)
EXTENDS RunStateRepository

CONSTANTS
    Workers,        \* environments of the run-worker Lambda
    MaxIterations,  \* _MAX_ITERATIONS; the code's is 20
    MaxRetries,     \* bound: redeliveries of the run's events, all together
    StaleReads      \* TRUE: a GetItem may return an earlier version

ASSUME WorkersAssumption ==
    MaxIterations \in Nat \ {0} /\ MaxRetries \in Nat /\ StaleReads \in BOOLEAN

VARIABLES
    item,      \* the RunState item
    stale,     \* an earlier version of it, which a read may still return
    counters,  \* TRUE once the RunCounters row exists
    starter,   \* progress of the start_run request that created the row
    events,    \* run-worker events waiting for delivery
    retries,   \* redeliveries the service may still make
    pc,        \* where each worker stands in run_worker_handler
    iter,      \* its loop counter
    snap,      \* the RunState object its route_task holds
    out        \* the output of the invocation it has just made

(* History variables, read by no action: the inputs the recorded output of *)
(* each step was computed from; TRUE once an event was given up or a       *)
(* PARTIAL result ended the handler, so that nobody works on the run.      *)
VARIABLES basis, abandoned

startVars  == <<counters, starter>>
queueVars  == <<events, retries, abandoned>>
workerVars == <<pc, iter, snap, out>>
vars == <<item, stale, basis, startVars, queueVars, workerVars>>

NoInputs == [s \in {} |-> NoArtifact]

(* In "gate" a worker is in raise_gate, where only module GatedRun has it. *)
WorkerPC == {"idle", "check", "route", "invoke", "gate", "save", "complete"}

Init ==
    /\ item      = NoRun
    /\ stale     = NoRun
    /\ basis     = [s \in Steps |-> NoInputs]
    /\ counters  = FALSE
    /\ starter   = "idle"
    /\ events    = 0
    /\ retries   = MaxRetries
    /\ abandoned = FALSE
    /\ pc        = [w \in Workers |-> "idle"]
    /\ iter      = [w \in Workers |-> 0]
    /\ snap      = [w \in Workers |-> NoRun]
    /\ out       = [w \in Workers |-> NoArtifact]

-------------------------------------------------------------------------------
(* RunStateRepository.get does not ask for a consistent read, so DynamoDB  *)
(* may answer with a version some replica still has.  Replicas only ever   *)
(* move forward.                                                           *)
Get == IF StaleReads THEN {item, stale} ELSE {item}

Replicate ==
    /\ StaleReads /\ stale # item
    /\ stale' = item
    /\ UNCHANGED <<item, basis, startVars, queueVars, workerVars>>

-------------------------------------------------------------------------------
(* The start_run Lambda: Supervisor.start_run, then the worker's trigger.  *)

(* The counters row is created under attribute_not_exists(runId); a second *)
(* request for the same runId fails here and changes nothing.              *)
StartInitialize ==
    /\ starter = "idle" /\ ~counters
    /\ counters' = TRUE
    /\ starter'  = "initialized"
    /\ UNCHANGED <<item, stale, basis, queueVars, workerVars>>

StartSave ==
    /\ starter = "initialized"
    /\ item'    = Save(item, NewRun)
    /\ starter' = "saved"
    /\ UNCHANGED <<stale, basis, counters, queueVars, workerVars>>

StartRunning ==
    /\ starter = "saved"
    /\ item'    = UpdateStatus(item, "RUNNING")
    /\ starter' = "running"
    /\ UNCHANGED <<stale, basis, counters, queueVars, workerVars>>

(* persist_budget_ceiling writes an item nobody reads before the event     *)
(* that trigger_run_worker sends next, so the two calls are one step.      *)
StartTrigger ==
    /\ starter = "running"
    /\ events'  = events + 1
    /\ starter' = "triggered"
    /\ UNCHANGED <<item, stale, basis, counters, retries, abandoned, workerVars>>

(* The portal Lambda dies between two of its calls. *)
StartCrash ==
    /\ starter \in {"initialized", "saved", "running"}
    /\ starter' = "crashed"
    /\ UNCHANGED <<item, stale, basis, counters, queueVars, workerVars>>

(* kill_run: the run must exist.  Its kill switch is memory of the process *)
(* that called it, which no worker reads; HALTED is what the workers see.  *)
KillRun ==
    /\ item.exists
    /\ item' = UpdateStatus(item, "HALTED")
    /\ UNCHANGED <<stale, basis, counters, starter, queueVars, workerVars>>

-------------------------------------------------------------------------------
(* The run-worker Lambda.                                                  *)

(* The handler returns: the event is done with. *)
Return(w) == pc' = [pc EXCEPT ![w] = "idle"]

(* The locals of route_task go out of scope. *)
Forget(w) ==
    /\ snap' = [snap EXCEPT ![w] = NoRun]
    /\ out'  = [out EXCEPT ![w] = NoArtifact]

(* The loop body ended without returning. *)
NextIteration(w) ==
    /\ iter' = [iter EXCEPT ![w] = @ + 1]
    /\ pc'   = [pc EXCEPT ![w] = IF iter[w] + 1 < MaxIterations THEN "check" ELSE "idle"]

(* Seeded fault: the handler catches the exception and returns. *)
FailSwallowed(w) ==
    /\ pc' = [pc EXCEPT ![w] = "idle"]
    /\ UNCHANGED <<events, retries, abandoned>>

(* An exception leaves the handler, or the environment dies: the service   *)
(* delivers the event again, until it gives it up.                         *)
Fail(w) ==
    /\ pc' = [pc EXCEPT ![w] = "idle"]
    /\ IF retries > 0
         THEN events' = events + 1 /\ retries' = retries - 1 /\ UNCHANGED abandoned
         ELSE abandoned' = TRUE /\ UNCHANGED <<events, retries>>

Deliver(w) ==
    /\ pc[w] = "idle" /\ events > 0
    /\ events' = events - 1
    /\ pc'     = [pc EXCEPT ![w] = "check"]
    /\ iter'   = [iter EXCEPT ![w] = 0]
    /\ UNCHANGED <<item, stale, basis, startVars, retries, abandoned, snap, out>>

(* At-least-once delivery: a waiting event turns out to be there twice. *)
Duplicate ==
    /\ events > 0 /\ retries > 0
    /\ events'  = events + 1
    /\ retries' = retries - 1
    /\ UNCHANGED <<item, stale, basis, startVars, abandoned, workerVars>>

(* get_run_status at the head of the loop; RunNotFoundError is caught. *)
CheckStatus(w) ==
    /\ pc[w] = "check"
    /\ \E seen \in Get :
          IF ~seen.exists \/ seen.status \in Terminal
            THEN Return(w)
            ELSE pc' = [pc EXCEPT ![w] = "route"]
    /\ UNCHANGED <<item, stale, basis, startVars, queueVars, iter, snap, out>>

(* Seeded fault: route_task relies on the loop's check of the status. *)
RouteTaskUnchecked(w) ==
    /\ pc[w] = "route"
    /\ item.idx < NumSteps
    /\ snap' = [snap EXCEPT ![w] = item]
    /\ pc'   = [pc EXCEPT ![w] = "invoke"]
    /\ UNCHANGED <<item, stale, basis, startVars, queueVars, iter, out>>

(* route_task up to invoke_spoke.  A terminal status ends the handler; a   *)
(* run it does not find is an error, an index past the last node is an     *)
(* IndexError, and nobody catches those.                                   *)
RouteTask(w) ==
    /\ pc[w] = "route"
    /\ \E seen \in Get :
          \/ /\ seen.exists /\ seen.status \in Terminal
             /\ Return(w)
             /\ UNCHANGED <<queueVars, snap>>
          \/ /\ ~seen.exists \/ (seen.status \notin Terminal /\ seen.idx = NumSteps)
             /\ Fail(w)
             /\ UNCHANGED snap
          \/ /\ seen.exists /\ seen.status \notin Terminal /\ seen.idx < NumSteps
             /\ snap' = [snap EXCEPT ![w] = seen]
             /\ pc'   = [pc EXCEPT ![w] = "invoke"]
             /\ UNCHANGED queueVars
    /\ UNCHANGED <<item, stale, basis, startVars, iter, out>>

(* invoke_spoke returns a result that is not PARTIAL. *)
InvokeSpoke(w) ==
    /\ pc[w] = "invoke"
    /\ \E a \in Artifacts : out' = [out EXCEPT ![w] = a]
    /\ pc' = [pc EXCEPT ![w] = "save"]
    /\ UNCHANGED <<item, stale, basis, startVars, queueVars, iter, snap>>

(* A PARTIAL result: route_task leaves the graph alone, the handler ends.  *)
InvokePartial(w) ==
    /\ pc[w] = "invoke"
    /\ Return(w)
    /\ Forget(w)
    /\ abandoned' = TRUE
    /\ UNCHANGED <<item, stale, basis, startVars, events, retries, iter>>

(* route_task's save of the state it read, advanced.  The result of save   *)
(* is ignored: COMPLETED depends on the worker's own index.                *)
SaveStep(w) ==
    LET new == Advance(snap[w], out[w]) IN
    /\ pc[w] = "save"
    /\ item' = Save(item, new)
    /\ Forget(w)
    /\ basis' = IF SaveAccepted(item, new)
                  THEN [basis EXCEPT ![snap[w].idx] = Inputs(snap[w], snap[w].idx)]
                  ELSE basis
    /\ IF Finished(new)
         THEN pc' = [pc EXCEPT ![w] = "complete"] /\ UNCHANGED iter
         ELSE NextIteration(w)
    /\ UNCHANGED <<stale, startVars, queueVars>>

CompleteRun(w) ==
    /\ pc[w] = "complete"
    /\ item' = UpdateStatus(item, "COMPLETED")
    /\ NextIteration(w)
    /\ UNCHANGED <<stale, basis, startVars, queueVars, snap, out>>

(* The invocation raises inside invoke_spoke, or the environment dies or   *)
(* times out anywhere in the handler.                                      *)
WorkerFails(w) ==
    /\ pc[w] # "idle"
    /\ Fail(w)
    /\ Forget(w)
    /\ UNCHANGED <<item, stale, basis, startVars, iter>>

-------------------------------------------------------------------------------
Handler(w) ==
    \/ CheckStatus(w)
    \/ RouteTask(w)
    \/ InvokeSpoke(w)
    \/ SaveStep(w)
    \/ CompleteRun(w)

Next ==
    \/ StartInitialize \/ StartSave \/ StartRunning \/ StartTrigger \/ StartCrash
    \/ KillRun
    \/ Duplicate \/ Replicate
    \/ \E w \in Workers : Deliver(w) \/ Handler(w) \/ InvokePartial(w) \/ WorkerFails(w)

Spec == Init /\ [][Next]_vars

(* Lambda delivers a waiting event eventually, and a running handler goes  *)
(* on.  Failures, kills and PARTIAL results are never owed.                *)
FairSpec ==
    /\ Spec
    /\ WF_vars(\E w \in Workers : Deliver(w))
    /\ \A w \in Workers : WF_vars(Handler(w))
-------------------------------------------------------------------------------
(* Every variable keeps to its type: the persisted item always decodes to  *)
(* a RunState, and a worker that is past its read of the item holds the    *)
(* object of an unfinished run that exists.                                *)
TypeOK ==
    /\ item \in RunStates /\ stale \in RunStates
    /\ basis \in [Steps -> {NoInputs} \cup UNION {[{u} -> Artifacts] : u \in Steps}]
    /\ counters \in BOOLEAN /\ abandoned \in BOOLEAN
    /\ starter \in {"idle", "initialized", "saved", "running", "triggered", "crashed"}
    /\ events \in Nat /\ retries \in 0 .. MaxRetries
    /\ pc \in [Workers -> WorkerPC]
    /\ iter \in [Workers -> 0 .. MaxIterations]
    /\ snap \in [Workers -> RunStates]
    /\ out \in [Workers -> Artifacts \cup {NoArtifact}]
    /\ \A w \in Workers : pc[w] \in {"invoke", "save"} =>
          snap[w].exists /\ snap[w].status \notin Terminal /\ snap[w].idx < NumSteps

(* Resumability (RunStateRepository's conditional save): what the item     *)
(* records is always a whole prefix of the task graph.  However many       *)
(* workers race, crash and are redelivered, no recorded step is missing,   *)
(* and no step is recorded before those that precede it.                   *)
Prefix(state) ==
    /\ state.completed = 0 .. state.idx - 1
    /\ \A s \in Steps : state.outputs[s] # NoArtifact <=> s < state.idx

RecordedPrefix == Prefix(item)

(* What makes the conditional save enough: a worker's copy of the run, how *)
(* long ago and from whichever replica it was read, is a past of the item  *)
(* and never a rival of it.  Its recorded steps are a prefix of the        *)
(* item's, with the same outputs.                                          *)
Past(old) ==
    /\ Prefix(old)
    /\ old.idx <= item.idx
    /\ \A s \in Steps : s < old.idx => old.outputs[s] = item.outputs[s]

SnapshotsArePasts ==
    /\ stale.exists => item.exists
    /\ Past(stale)
    /\ \A w \in Workers : pc[w] \in {"invoke", "save"} => item.exists /\ Past(snap[w])

(* COMPLETED is written on the strength of the worker's own index, after a *)
(* save whose result nobody looks at.  It is still only ever stored on a   *)
(* run whose every step is recorded.                                       *)
CompletedMeansAllRecorded == item.status = "COMPLETED" => item.idx = NumSteps

(* Handoff through the hub: a recorded output was computed from the very   *)
(* outputs that are recorded for its upstream steps, never from those of   *)
(* another worker's duplicate execution (route_task builds the inputs from *)
(* the object it later saves over the item).                               *)
LineageConsistent ==
    \A s \in Steps : item.outputs[s] # NoArtifact => basis[s] = Inputs(item, s)

(* Run resumability: workers that race, die, are redelivered and read late *)
(* versions leave the record that one process would, executing each step   *)
(* once and in order.                                                      *)
RecordOf == [i \in 1 .. item.idx |-> [output |-> item.outputs[i - 1], inputs |-> basis[i - 1]]]
StatusOf == IF item.exists THEN item.status ELSE "absent"

Record == INSTANCE RunRecord WITH
    Sources <- [s \in Steps |-> Upstream(s)],
    record  <- RecordOf,
    status  <- StatusOf

ImplementsRecord == Record!Spec

(* kill_run is final when nothing is in flight: if every read of the run   *)
(* says HALTED while no start_run is between its writes and no worker is   *)
(* between its read of the item and its last write, the run stays HALTED   *)
(* for ever.                                                               *)
Drained ==
    /\ starter # "saved"
    /\ \A seen \in Get : seen.exists /\ seen.status = "HALTED"
    /\ \A w \in Workers : pc[w] \in {"idle", "check", "route"}
HaltFinalOnceDrained ==
    [](Drained => [](item.status = "HALTED"))

(* A triggered run is worked off, if reads are consistent: every step gets *)
(* recorded, or the run reaches a terminal status, or the service has      *)
(* given up an event (or a PARTIAL result has parked the run).             *)
TriggeredRunWorkedOff ==
    starter = "triggered" ~> (item.idx = NumSteps \/ item.status \in Terminal \/ abandoned)

(* Contradicted: "Stop further routing" (kill_run).  Recording a step      *)
(* never takes a run that was HALTED out of HALTED.                        *)
KillSurvivesSave ==
    [][item.status = "HALTED" /\ item'.idx > item.idx => item'.status = "HALTED"]_vars
===============================================================================
