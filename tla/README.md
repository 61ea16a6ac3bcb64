# A verification project for the DevOps Agentic Framework (Bedrock)

TLA+ models of the control core of `backend/src/daf`, the TLC configurations that
check them on small instances, and theorems about them that TLAPS proves for every
value of their constants. The code is the reference; the requirements and the design
under `.kiro/specs/daf-phase1-foundations` are what it is compared with.

- [The system](#the-system)
- [The modules](#the-modules)
- [What is checked](#what-is-checked)
- [What is proved](#what-is-proved)
- [Where code and documents disagree](#where-code-and-documents-disagree)
- [What is not modelled](#what-is-not-modelled)
- [Plan](#plan)

## The system

A *migration run* is a fixed sequence of six tasks (discovery, planning, portfolio
assessment, security review, DevOps execution), each done by an agent that calls a
model. A portal starts runs, shows their status and decides approval gates. Everything
runs in AWS Lambda functions; what survives an invocation is in DynamoDB.

| Component | State it keeps | Operations | Interacts with |
|---|---|---|---|
| Supervisor (`supervisor/`) | none of its own; the `RunState` item | `start_run`, `route_task`, `get_run_status`, `get_run_state`, `kill_run` | repositories, pipeline, hook |
| Run worker (`portal_api/orchestrator.py`) | the loop counter | `run_worker_handler` | called by an asynchronous event, calls the Supervisor |
| Repositories (`persistence/`) | `RunState`, `RunCounters`, `GateTicket`, dead letters in DynamoDB | conditional and unconditional writes, one item at a time | all |
| Hook pipeline (`pipeline/pipeline.py`) | attempt states, in memory | `invoke_spoke` | hook, Router, agent, broker |
| Cost/Budget hook (`budget/`) | kill switch, idempotency keys, step history, failure counters, in memory; the counters row | `pre_check`, `check_opus_gate`, `record_usage`, `set_kill_switch` | counters repository |
| Router (`router/`) | none | `resolve_model`, `record_outcome` | the Opus gate |
| HITL broker (`hitl/broker.py`) | tickets | `raise_gate`, `decide`, `get_pending_gates` | Step Functions, run state, audit log |
| Portal API (`portal_api/`) | none | `start_run`, `get_run_status`, `list_pending_gates`, `decide_gate` | Supervisor, broker, the worker's event |
| Agents (`agents/`), allowlist (`tools/`) | none | `execute`, `enforce_tool_allowlist` | tools, GitHub, artifact store, audit log |
| Artifact store (`artifacts/`) | objects in S3, under `traceId/filename` | `write`, `read_text`, `presign_url` | agents, status handler |
| Retry, dead letters, credentials | dead letters | `retry_with_backoff`, `create`, `list_by_run`, `get_secret`, `get_secret_fields`, `get_credential` | Secrets Manager, the tool behind a call |
| CI/CD (`cicd/`) | none | `run_smoke_test`, `compensate`, `resume_compensation_after_approval` | HITL broker, audit log |
| Observability | logs | audit events, metrics, traces | all |
| Portal SPA (`src/portal`) | React state, tokens, calls in flight | start, polling, decisions, sign-in | Portal API |

What is hard about it:

- *The worker is not alone.* The event that starts it is delivered at least once, a
  failed invocation is retried while its writes stand, and every approval sends another
  event. The only protection is the condition of `RunStateRepository.save`.
- *State is read, then a model is called for minutes, then state is written.*
  `route_task` writes back the object it read, status included.
- *Half of the hook's state is memory of one process*, half of it is shared.
- *No read asks for consistency.* `get_item` is never passed `ConsistentRead`, so the run,
  the counters and the tickets may come back as they were before the last writes.
- *Each operation is several calls to several stores*, and a process may die between
  any two of them. None of them is rolled back.
- *Decisions race*: `decide` reads, tests and writes in three steps.
- *One item has several writers.* Worker, broker and operator each write the status of
  the same `RunState`, all but the worker's save without a condition.
- *The world outside does not roll back.* A step that is executed again puts its
  artifact over the old one and calls GitHub again.
- *A page has several calls in flight*, answered in any order while its user goes on.

What makes each component correct is stated with its module below. `PROJECT.json` lists
every hazard with the line where it bites and the properties that cover it.

## The modules

### RunStateRepository, Supervisor, RunRecord

`RunStateRepository` holds the `RunState` item as a record and each DynamoDB call on it
as an operator: `Save` with its condition (`SaveAccepted`: absent, or a smaller step
index), `UpdateStatus` with none. The task types of the sequence are distinct, so a step
number stands for a node, its type and its key in `task_outputs`. An output is an
element of `Artifacts`; two are enough to tell one execution of a step from another.

`Supervisor` is one run from its `start_run` on.

| Action | Code |
|---|---|
| `StartInitialize`, `StartSave`, `StartRunning`, `StartTrigger`, `StartCrash` | the calls of `start_run` and of the Lambda around it, one step each, any of which may be the last |
| `Get`, `Replicate` | `RunStateRepository.get`: the item, or the version a replica still has (`stale`) |
| `Deliver`, `Duplicate`, `Fail` | the Lambda service: delivery, duplication and retry of the worker's event (external) |
| `CheckStatus` | `get_run_status` at the head of the worker's loop |
| `RouteTask` | `route_task` up to the invocation: read, terminal check, the node (or the error for a run that is not found, or the `IndexError` behind the last node) |
| `InvokeSpoke`, `InvokePartial`, `WorkerFails` | the invocation returns, returns PARTIAL, or raises; the environment may also die anywhere |
| `SaveStep`, `CompleteRun` | the save of the object read, advanced by one step; the COMPLETED update |
| `KillRun` | `kill_run` |

A second `start_run` for the same run id fails at the counters row and changes nothing,
so one is modelled. History variables `basis` (what each recorded output was computed
from) and `abandoned` (nobody is coming back) are read by no action.

`RunRecord` is the abstract specification: what "resumable" promises of a run (design.md,
Property 8). One process executes the steps, in order and each once (`Execute`), and hands
every step the recorded outputs of its upstream steps; `Halt`, `Reopen` and `Complete`
write the status, COMPLETED only behind the last step. It does not say that HALTED is
final, because it is not ([below](#where-code-and-documents-disagree)). The refinement
mapping (`Record` in `Supervisor`) reads the sequence off the item's outputs up to its
index, with `basis` for the inputs. Workers, events, copies and refused saves are what it
hides.

### Router, HookPipeline

`Router` is pure: `ResolveModel` and `RecordOutcome` over an attempt state. An attempt
state's confidence and status are always set together, so they are one field.

`HookPipeline` is `invoke_spoke` with the hook and the Router as the worker wires them.
`mem[e]` is what lives in environment `e`; `counters` is the row they share. Every place
where the code calls a shared store, or may be overtaken, is a step boundary:

| Action | Code |
|---|---|
| `Invoke` | `route_task` starts an invocation for the step the run has reached |
| `PreCheck` | `pre_check` on a read of the counters that may miss `MaxLag` increments, or the row, and a read of the ceiling that may miss it (`CeilingsRead`: the default then); on HALT the kill switch and `HitlAlert` (the gate resolver finds nothing) |
| `Resolve` | `resolve_model` with the answer of `check_opus_gate`, under either ceiling; `RunHalt`, `ValueError`, the assertion of a read that misses the row |
| `Execute`, `ExecuteFails` | the agent and the schema check: any validated result, an invalid one, an exception |
| `RecordUsage` | `record_usage` whole: idempotency (and the assertion of its read of the row), counters, history, failures, both breakers |
| `FinishAttempt` | `record_outcome`, then the recursion on low confidence |
| `ReturnResult` | back in `route_task`: the step is recorded, or it is not |
| `ColdStart` | the environment ends; its memory is lost |

The step ceiling stands for the four ceilings (the same test on the same row; the
wall-clock one is dead, because `wall_clock_ms=0` is what is recorded). History variables
`used`, `opusCalls`, `recorded` and `counted` are read by no action. The last one keeps, by
environment and agent, the last results that `record_usage` counted: `FailuresTripBreaker`
compares the kill switch with these results and not with the counter of the code, which a
misplaced reset would spoil. It is about counted results because the code is: a result that
fails its schema, and one whose idempotency key collides, reach no counter.

### HitlBroker, GateLedger

`GateLedger` is the abstract specification, for requests that race: a ticket is raised
once, behind its wait; it is decided by a request that found it undecided, and each such
finding is good for one decision; a decision is logged only if it was stored; the blocked
task is released once, on a logged decision and as that decision says. design.md's
Algorithm 3 asks for more, that a decided ticket stays as it is, and the code does not give
it (`DecidedOnce`, [below](#where-code-and-documents-disagree)). With `LateReads` a decided
ticket may be found undecided.

`HitlBroker` is `raise_gate` and `decide` call by call, with a crash possible between any
two. `Tickets` are the gates of one run, `Deciders` the environments of the `decide_gate`
Lambda. The Step Functions execution behind a ticket is external: it waits, takes one
answer, and refuses a second one with an exception that ends the request. (Whether Step
Functions accepts the form of the answer is not modelled.) After a rejection the
request ends with an error: the wired notifier has no `notify_run_halted`.

With `StaleReads` the ticket a request loads, or looks up to wake its run, may be as it was
before its decision or its creation.

The refinement mapping (`Ledger`) reads the ledger off the tickets, the findings and the
decisions still to be logged off the requests past their check and past their store, the log
off the audit events, and the releases off the executions. It holds of `Spec`: any number of
racing requests, late reads and crashes.

`DecidedTakesEffect` ties the outcome to the stored decision: the task is released the way it
says and, after an approval, a worker is triggered; or else the opposite decision, which is in
the audit log as well, took effect in its place. That a race may end so, with REJECTED stored
and the run going on, is what `DecidedOnce` is about.

As the repository wires them, no caller reaches `raise_gate`: the worker's gate
resolver finds no gate and the client's `start_execution_and_wait_for_task_token` raises
`NotImplementedError`. The broker is modelled for the callers it is written for.

As the repository wires them nobody decides a ticket that a worker raised; how the two
halves fit when a resolver does find a gate is the next module.

### GatedRun

The composition. It extends `Supervisor`, instantiates `HitlBroker` with the status of
the run's item for the broker's `status`, and conjoins actions that touch both.

| Action | Code |
|---|---|
| `RaiseStart`, `RaiseContinue`, `RaiseReturn` | `invoke_spoke` finds a gate, calls `raise_gate` (the broker's steps) and returns PARTIAL, on which `route_task` changes nothing and the handler ends |
| `Work` | every other step of a worker; `invoke_spoke` runs the agent only if nothing blocks the step |
| `Fails` | the worker fails, also in the middle of `raise_gate`; the event is retried, and the next worker may raise a second ticket |
| `Request`, `Decide` | `decide_gate`, whose `trigger_run_worker` puts one more event in the queue |
| `Portal` | `start_run`, `kill_run`, a duplicated event |

The gate resolver is a protocol whose only implementation finds nothing
(`wiring.py:210`). The one here blocks `GatedStep` until a ticket of the run is stored as
APPROVED; any other reading of `find_blocking_gate` would never let the run go on.

### ToolAllowlist, Agents

`Agents` is what the six agents of `build_agent_registry` do outside the process, one
step per call that others can see or that can fail. Workers come from the same
`route_task`; the module uses the operators of `RunStateRepository` for the item.

| Action | Code |
|---|---|
| `Route`, `SaveStep` | `route_task` before and after the agent |
| `CallTools` | one disjunct per agent (`Collect`, `Reason`, `Modernize`, `Assess`, `Review`, `Deploy`): its tool calls, each behind `enforce_tool_allowlist` |
| `FlagConflict` | `detect_kb_conflict` and its audit event |
| `ReadInventory` | `_read_inventory` with its silent fallback |
| `ReadRepository`, `CreateBranch`, `OpenPull` | `open_pull_request`, request by request; an `HTTPError` at any of them is "not created" |
| `WriteArtifact` | the document is put under `traceId/filename`, over what is there |
| `WorkerFails` | the agent raises or the environment dies; what it did stands |

A document is the step that wrote it and the document it was built from. That is all
the properties ask: sources and guidance are constants of the program.

### RetryBackoff

`retry_with_backoff` around a call that asks `CredentialsClient` for a credential and
uses a tool, with a `DeadLetterRecord` at the end. `Loop`, `Fetch`, `UseTool`,
`CreateLetter` and `Raise` are the places where it can be overtaken by a `Rotate` or end with
a `Crash`; `Fail` is its `except` clause. A put that fails may have stored the letter (its
answer was lost), and a call may die between the letter and the raise: `FailureRecorded` is
stated so that it holds for these, and says what a letter is worth to its reader. Nothing deployed calls it, so the composition of
the two (a credential per attempt) is the one their docstrings describe.

### Compensation

Extends `HitlBroker`: `RunChecks` and `ReportChecks` are `run_smoke_test`, `Compensate` its
alert calling `compensate`, which raises the gate (`RaiseFor`), `RaiseOther` any other gate of
the run, and `ReadTicket` and `Resume` a process that calls
`resume_compensation_after_approval`, with a ticket it read earlier and a deployment it
chooses: the function looks at the ticket's status and at nothing else, so a deployment may
be destroyed with the ticket of another one, or of another gate. `purpose` is the gate type
and the context a ticket was raised with. `DestroyedOnlyIfApproved` says what is left:
whatever ticket is used was stored as APPROVED; and *if* it is the deployment's own, its
failure is on record. The other steps of the broker are those of its module.

### Portal

One browser page: `DafPortalApp` (tab, run id), the three views, and the calls they have
in flight, with the handlers behind them.

| Action | Code |
|---|---|
| `Go` | the user picks a tab or edits the run id; `Show` is what React then does: cleanups, unmounting, effects |
| `Poll`, `Click`, `Submit` | the timer of `RunStatusView`, Approve/Reject, the kick-off form |
| `Serve` | a handler answers or raises: `ServeStatus` reads the item twice (`ReadNext`), `ServeList` queries the index, `ServeDecide` reads the ticket and stores, `ServeStart` stores |
| `RunReads`, `TicketReads`, `Replicate` | what a read may return: the current version, or one from before writes that have not yet arrived everywhere |
| `Fail` | the call fails on its way: network, session, Lambda |
| `Deliver`, `DeliverDecision`, `DeliverStart` | the answer reaches the closure that asked: shown unless `cancelled`, followed by a refresh, or taking the page to the run |
| `WriteRun`, `RaiseGate` | what the other modules write: the index goes up, COMPLETED only behind the last step |

Nothing makes the second read of a call, or a later call, see as much as an earlier one did.
So an answer can be behind the page for two reasons, and `late` records both of the answer
that is shown: `overtaken` (another call of the view, in flight with it, was shown before)
and `lagged` (its last read missed a write). What is shown then is not promised to be
anything; `CompletedShownWhole` and `BackOnlyIfLate` say that these are the only ways to go
wrong, and that the first read may be as late as it likes.

### MC and proof modules

The `MC` modules add symmetry sets and the constants a configuration cannot write. The
theorems are in a `...Proofs` module beside each component. Operators introduced as *seeded fault* change one
definition the way a plausible bug would; no specification uses them. Each is known to
break the property that `PROJECT.json` pairs it with.

## What is checked

| Run | Instance | Checks |
|---|---|---|
| `Supervisor_safety` | 4 steps, 5 iterations, 2 workers, 2 artifacts, 1 redelivery, late reads | types, `RecordedPrefix`, `SnapshotsArePasts`, `CompletedMeansAllRecorded`, `LineageConsistent` |
| `Supervisor_steps` | 3 steps, 4 iterations, 2 workers, 2 artifacts, 2 redeliveries, consistent reads | `ImplementsRecord`, `HaltFinalOnceDrained`, `TriggeredRunWorkedOff` |
| `Pipeline_safety` | 2 environments, 2 tasks (HAIKU, SONNET) of one agent, a ceiling of 1 step and no OPUS under a default of 2 and 1, 1 cold start, reads late by 1 | types, `OvershootBounded`, `KillSwitchHolds`, `FailuresTripBreaker`, `EscalationMonotonic` |
| `Pipeline_liveness` | the same, a ceiling of 1 step over a default of 0, no cold start | `InvocationTerminates` |
| `Compensation_safety` | 1 deployment, 2 tickets (its own, or another purpose's), 1 decider, 1 resumer with 1 read, no crash, late reads | `DestroyedOnlyIfApproved`, `GateOnlyAfterFailure` |
| `Hitl_ledger` | 2 tickets, 2 deciders that race, 1 crash, late reads | types, `ResumedIsAudited`, `ImplementsLedger` |
| `Hitl_liveness` | 2 tickets, 2 deciders, no crash, consistent reads | `DecidedTakesEffect` |
| `Gated_run` | 2 steps, the first one gated, 2 workers, 2 tickets, 1 decider, 2 iterations, 1 redelivery, consistent reads | `GatedStepApproved`, `GatedPrefix`, `ApprovedRunGoesOn` |
| `Agents_effects` | the 6 steps, 2 workers, 3 faults, with and without bucket and GitHub | types, `RecordedArtifactsStored`, `RecordedBytesKept`, `BlueprintGrounded`, `ConflictFlaggedFirst`, `OnePullRequest`, `RunFinishes` |
| `Retry_calls` | 2 callers, up to 3 attempts, 1 rotation, 1 crash | types, `FailureRecorded`, `RetriesBounded`, `CredentialFresh`, `CallEnds` |
| `Portal_page` | 2 runs of 1 step, 1 of them with a gate, 2 calls in flight, 2 writes by others, 1 fault (a call that fails or a write that reads may miss) | types, `CompletedShownWhole`, `ShownIsCurrent`, `BackOnlyIfLate`, `PageCatchesUp` |
| `Supervisor_kill` | the smallest that shows it | a documented promise the code breaks ([below](#where-code-and-documents-disagree)) |

What they show. The conditional save is enough for everything that concerns *progress*:
however many workers race, die and come back, the persisted run is a whole prefix of the
task graph, each output computed from the outputs recorded before it, nothing recorded is
ever replaced, and COMPLETED is never early, although it is written on the strength of a
stale index; late reads change nothing of this. In one sentence, which is the module
`RunRecord`: the item is what a single process would have left. It is not enough for the
*status*, which travels with it. In the pipeline the ceilings hold up to what is in flight
and what a read of the counters missed; when a read misses the run's own ceiling, only the
default one holds (`wiring.py:204`). And every recursion ends, but only thanks to the step
ceiling and the breakers. In the broker no task is released unaudited, and a decision
is only ever made by a request that saw the ticket undecided; a stored decision takes effect,
unless its request dies, a read misses the ticket, or an opposite decision that raced with it
takes effect instead.

Put together (`Gated_run`), they keep what each of them promises, although every writer
overwrites the status of the others: the gated step waits for an approval, and an approval
reaches it as long as the run is never halted. The effects outside the run survive
repetition because they are deterministic (the same file name, the same document, the same
branch), not because anything is checked; a failed read breaks that, and `RecordedBytesKept`
and `BlueprintGrounded` say so. The page is right about *which* run it shows; it shows
COMPLETED over an open step only when the second of two reads was late, and goes back only
when its calls overlapped or a read was late.

**Bounds, and why they are enough.**

- Two workers, environments or deciders: every race in the code is between one stale
  actor and the current state of a row; a second stale actor is another instance of
  the first. The theorems remove this bound for the safety properties.
- `MaxRetries`, `MaxCrashes`, `MaxColdStarts` cap failures. One redelivery puts a second
  worker on the run, two let a stale worker be overtaken and then fail itself; one crash
  lets a raise or a decision die while another decision goes on.
- Two artifacts tell two executions of a step apart. Outputs are never compared otherwise.
- The code has six steps and twenty iterations. Three steps are the fewest where a step
  has an upstream one (step 2 reads step 0) and one between. Four let a worker save after
  another one has repeated such a step, which is what it takes to break the lineage. The
  iterations are one more than the steps, so that a worker can lose a race and still
  have one left. The theorems hold for six and twenty.
- Late reads of the run return the item or one earlier version, which `Replicate` renews
  at any time: each read alone can meet any version at least as new as the last stale
  one. `MaxLag` bounds how many increments a read of the counters misses; one is enough
  for an environment to miss the only other one's.
- In `Pipeline_safety` the run's ceiling is 1 step and no OPUS, and the default one that a late
  read falls back on 2 steps and 1 OPUS; with a lag of 1, the look-back (2) and the failure
  limit (2) are reached together with the ladder's last rung, with OPUS granted and denied.
  `Pipeline_liveness` has the default below the run's ceiling (0 and 1).
- `Gated_run` needs two steps (one gated, one behind it), two tickets (a worker that fails
  in `raise_gate` raises another) and one decider; that two deciders may replace each
  other's decision is in `HitlBroker`. `MaxIterations` is 2, so that a worker can record
  the gated step and go on.
- Three faults in `Agents_effects` are two deaths and a failed read or a refused request, or
  three deaths of one execution. The portfolio of steps is the code's.
- `MaxAttempts` 3 gives two sleeps of different length; 0, 1 and 2 are tried as well. One
  rotation hits an attempt between its fetch and its use.
- One deployment and two tickets let it be destroyed with its own ticket or with one that is
  not. One decider is enough to replace a decision there, because its reads may be late.
- Two calls in flight are the fewest that can be answered in the wrong order; two writes
  let the run go on between two reads and again between two answers. A step's count is
  compared only, so one step is enough; the page tells the statuses of an open run apart by
  words only, so one stands for them, and a run that was COMPLETED may be open again.
- Symmetry is used where the checked formulas are invariants, and in `Hitl_ledger`, whose
  refinement is a formula about single steps that treats all tickets and all deciders alike.
  The runs of liveness properties have none.
- Deadlock: a run that is finished, or whose start died before its first item, has
  nothing left to do, and so has a pipeline at the end of the sequence. Those
  configurations do not check for deadlock, nor do those of the composition, of the agents
  and of the retried calls, which end. The broker's, the compensation's and the page's do.

- *Consistent reads* are assumed where a property needs them, and said so: in the runs of
  `TriggeredRunWorkedOff`, `DecidedTakesEffect` and `ApprovedRunGoesOn` (a single read that
  misses what was just written loses the wake-up), and in module `Agents`. `ImplementsRecord`
  and `HaltFinalOnceDrained` share a run with the first, `GatedStepApproved` and `GatedPrefix`
  with the third; their theorems do not assume it. Every other run has late reads, where its
  code reads DynamoDB.

**Fairness.** Weak fairness is assumed of what the platform or the interpreter does: a
waiting event is delivered, a running handler takes its next step, a request being
served goes on. Nothing is assumed of users, kills, crashes, duplication, or of an agent's
result; so `TriggeredRunWorkedOff` holds although every invocation may fail, because the
service gives up in the end (`abandoned`), and `InvocationTerminates` holds for an agent
that never reaches the confidence threshold. In `Agents` an event is redelivered as long as
faults are fewer than redeliveries; in `Portal` the timer fires and the oldest call is
answered or fails, in whatever order, and a write reaches every replica in the end; in
`RetryBackoff` a call takes its next step.

## What is proved

Each theorem holds for every value of the constants that satisfies the named assumptions
of the modules (`StepsAssumption`, `ArtifactAssumption`, `WorkersAssumption`,
`PolicyAssumption`, `PipelineAssumption`, `CrashesAssumption`, `ResumesAssumption`,
`GateAssumption`, `FaultsAssumption`, `AttemptsAssumption`, `PortalAssumption`), which TLC
evaluates on the runs.

**SupervisorProofs.** The item alone is not inductive: that a save keeps the prefix whole
depends on what the saving worker holds. The invariant therefore has three more parts: the
copy of each worker between its read and its save is a past of the item
(`SnapshotsArePasts`), and so is every version a late read may return; a worker about to
write COMPLETED is about a finished run; and what a copy's inputs would be has not changed
since it was read (lineage). With `SnapshotsArePasts` the argument is short: if
`SaveAccepted`, the copy is at the item's own index, hence *equal* to it in everything
recorded, so the save adds exactly one step. `TypeCorrect`, `PrefixRecorded`,
`CopiesArePasts`, `CompletedIsComplete` and `LineageKept` are its conjuncts;
`RecordedForGood` is an action property that follows from it; `HaltIsFinal` uses that
"drained, and HALTED by every read" is itself inductive. `RunImplementsRecord` is the
refinement of `RunRecord`. Its record is the sequence of the outputs with the inputs they
were computed from (`RecordOf`): a save that is let through appends one entry to it, whose
inputs are those that the record gives (`InputsGiven`); one that is refused is a stutter,
and so is every other step but the writes of the status. Nothing is assumed of reads or of
the number of workers.

**HookPipelineProofs.** `PInv` is the conjunction of the safety properties, strengthened by
`TierInv`: which tier an attempt number implies (`TierOfAttempt`), that what was used never
exceeds what the next attempt will be given (`UsedBelowFloor`), and that what was used is a
tier. `OvershootIsBounded` counts: the steps recorded plus the environments past their check
stay within the higher of the two ceilings a read may return, plus `MaxLag` plus all
environments but one, because the check that lets the last one in still saw a step to spare
in a row at most `MaxLag` increments old. The counting rests on lemmas about the cardinality
of the set `InFlight` when one environment joins or leaves. `BreakerTrips` follows from
`FailuresCounted` (`KeepsUp`: when the last *k* counted results of an agent are FAILED, its
failure counter has reached *k*) and `SwitchFollowsCounter`. `EscalationIsMonotonic` holds
for any policy table.

**HitlBrokerProofs.** The invariant says how far a ticket is (`NotYetRaised`) and what a
request past each step knows (`RequestsTrack`: the ticket is decided by *somebody*; its own
decision is in the audit log). `ResumptionIsAudited` follows for any number of racing
deciders: although a decision may be replaced, the one that released the task was audited.
`BrokerImplementsLedger` is the refinement, of `Spec` itself: requests for one ticket may
race, reads may be late and every process may die. A step of a request moves its own entry of
`Finding` or `Unlogged` and no other (`EntriesMoved`, `EntriesAbsent`, `EntriesKept`), and
`RequestsTrack` gives the guards of the ledger's `Decide` and `Release`.

**CompensationProofs.** `CompensationImplementsBroker` says that a compensation is a user of
the broker: its specification implies the broker's, step by step, so
`AuditedUnderCompensation` is the broker's theorem. `DestructionIsApproved` needs two more
facts: a gate raised for a deployment is behind its failure on record (`GatesTrack`), and
whoever holds a ticket as APPROVED, however old the read, holds one that was stored so
(`ApprovalsTrack`). Nothing in it says whose ticket it is, because nothing in the code does.

**GatedRunProofs.** The worker's whole invariant (that of `SupervisorProofs`) is shown to
hold in the composition: the worker's actions keep it by the same lemmas, and every write of
the broker is a write of the status to something other than COMPLETED, which `StatusStep`
covers. `PrefixBesideBroker` follows. `GateHolds` adds `ApprovalsAudited`: a ticket stored
as APPROVED is in the audit log or its decider is about to put it there, and no step takes
that back. `GatePassed` shows that a run gets past the gate by `invoke_spoke` alone, when a
ticket is approved. No bound on reads: `StaleReads` may be TRUE. Both abstract
specifications are implemented by the composition too. `GatedRunImplementsRecord` adds
`RunPresent` (a gate, a ticket or a request is there only for a run that exists), so that
every status the broker writes is one that the record may take. `AuditedBesideWorker` and
`GatedRunImplementsLedger` instantiate the lemmas of `HitlBrokerProofs` (`Gates`): each step
of the composition is one of the broker or leaves the broker's state alone
(`BrokerStepOrNone`), so no more is assumed of requests or reads than there. TLC agreed on the instance of `Gated_run` before the proofs were
written.

**AgentsProofs.** `AInv` follows an execution: where it stands, what it has read
(`PlacesMatch`), and that the one object at a step's location is of that step, and the
original unless a read has failed (`StoreInOrder`). That all executions write *the same*
document at *their own* location is what makes `RecordedBytesKept` true without any check in
the code. `OneBranchOnePull` counts: whoever stands before the pull request created the
branch, is alone there, and there is no pull request yet.

**RetryBackoffProofs.** A call has no letter before it gives up, at most one after
(`ResultsTrack`, `LetterPreserves`), and a credential lives inside one attempt. `RetriesAreBounded` needs `RetryInv`: after `n`
attempts that slept, the sum of the delays is `Backoff[n] - 1`. The provers know nothing of
powers, and induction over an operator is out of their reach, so `Backoff` is a recursive
function and the induction is made by hand, once each for the existence of the function
(`BackoffTo`) and its uniqueness (`BackoffAgree`): the set of counterexamples would have a
least element (`LeastElement`, from the well-foundedness of the subset ordering of finite
sets). `BackoffRec`, `BackoffDoubles` and `BackoffGrows` are what the proof then uses.

**PortalProofs.** `PInv` says of every call in flight, wherever in the queue, that it is
`Honest`: if it still counts it is for the run the page is at, what it has read as COMPLETED
is complete; and if it was neither overtaken nor read late it is at least as fresh as what the
view shows. Facts about time carry the last part: the runs only go on (`RunsGoOn`), also under
writes that reads may miss (`PutRunGoesOn`, `PutTicketGoesOn`), whatever a read returns the run
has reached (`RunsTyped`), and so has whatever a view has shown (`SeenIsReached`).
`ShowTakesAlong` is the lemma about navigation: after it, no status call
of before counts. The queue is taken apart by lemmas about sequences (`RemoveAtIsSeq`,
`JoinedIsSeq`).

**Only model-checked.** `TriggeredRunWorkedOff`, `InvocationTerminates`,
`DecidedTakesEffect`, `ApprovedRunGoesOn`, `RunFinishes`, `CallEnds` and `PageCatchesUp`:
liveness under fairness (and ENABLED) is out of the prover's reach. Every safety property
that a passing run checks is a theorem.

## Where code and documents disagree

The first has a run that TLC finds violated (`Supervisor_kill`) and an entry under
`findings`: a step saved after `kill_run` writes the status read before it over HALTED,
and routing goes on (`supervisor.py:147`, against Requirement 1.5).

Five more are stated as properties in the modules, marked *Contradicted*; TLC refutes each
on the instance of `Pipeline_safety`, of `Hitl_ledger` or of `Compensation_safety`, when it is
added to a configuration.

- `KillSwitchStopsRun` (`HookPipeline`): the kill switch stops only the environment that
  set it (`wiring.py:492`, against design.md, Property 6).
- `UsageCounted`: the usage of a second task of the same agent is dropped, because the
  idempotency key is `traceId:attemptNumber` (`pipeline.py:190`, against Requirement 4.5).
- `OpusWithinCap`: OPUS calls are never counted, so their cap never binds
  (`pipeline.py:184`, against Requirement 4.7).
- `DecidedOnce` (`HitlBroker`): two racing decisions of a ticket are both accepted
  (`gate_ticket_repository.py:46`, against Requirement 5.4).
- `DestroyedWithOwnGate` (`Compensation`): a deployment is destroyed with any approved
  ticket, another deployment's or another gate's (`compensation.py:76`, against the module's
  own docstring: the destroy "of a just-applied module" is "gated behind the
  `DESTRUCTIVE_ACTION` HITL gate").

The following can also be reached in the models.

- A worker that dies between the save of the last step and the COMPLETED update leaves a
  finished run RUNNING. Each redelivery then fails with `IndexError`
  (`supervisor.py:123`). Requirement 1.4 wants the true current state.
- A result that fails its schema comes back FAILED, and `route_task` records the step as
  done all the same (Requirement 6.6).
- FAILED results that fail the schema, or whose idempotency key collides, are not counted:
  an agent may fail more often in a row than the breaker allows (Requirement 4.12).
- An attempt that is repeated after a cold start is counted again: the idempotency keys
  were in memory (Requirement 8.5).
- `progressed=True` is passed always, so the no-progress breaker cannot open
  (Requirement 4.10).
- A HAIKU task that keeps failing gets SONNET on every retry, so the ladder has no bound
  of its own (design.md, Property 4).
- A decider that dies after the ticket is stored leaves the task blocked: the request
  cannot be repeated (Requirement 5.5).
- Each rejection ends in `AttributeError` at `broker.py:135`, after it took effect; the
  worker is then not triggered (`wiring.py:180`: "after each HITL gate decision").
- A worker whose first read misses the item `start_run` has just written returns
  `not_found`, and nobody triggers the run again; a decision whose look-up misses the
  ticket wakes no worker. No read of the code asks for consistency.
- With two tickets, approving one sets the run RUNNING over the other, be it PENDING
  (design.md, Algorithm 3) or REJECTED (Requirement 5.6). A late decision of a second
  ticket even writes RUNNING or HALTED over COMPLETED.
- A rejection, or a kill, that comes before `raise_gate` writes AWAITING_HITL is hidden by
  it: the run looks open (Requirement 5.6), and the worker of a later event goes on.
- `DISCOVERY_REASON` gets no inputs, so its findings are always about an empty inventory,
  though its comment says it reasons over the collected one (`discovery.py:119`).
- A read of the inventory that fails in a repeated execution puts a blueprint built from
  nothing over the recorded one, without a word.
- A death after GitHub opened the pull request makes the next execution report "not
  created"; an error between branch and pull request leaves the branch, and no pull
  request is ever opened for the run. Without a bucket the references name objects that
  do not exist, and the portfolio's key names an item that nobody writes.
- `"portfolio-assessment"` and `"pr-reviewer"`, two ids that agents carry, resolve to no
  role, so an agent named by its id would be refused everything (`allowlist.py:147`).
- An exception without a message leaves no dead letter: the record's validation error
  replaces it (Requirement 8.3). `retry_count` is `max_attempts` whatever was tried, and
  `max_attempts = 0` is an `AssertionError`.
- A compensation may run twice on one approval, on an approval replaced since, and before
  the audit event of the decision is written.
- `HitlApprovalView` cancels nothing: the answer of a refresh for the previous run id may
  list that run's tickets, and stays until the next decision.
- Decisions that race may end with REJECTED stored and the task released as approved, or the
  other way round, both of them in the audit log (Requirement 5.4).
- The status handler reads the item twice, neither time consistently: it may answer COMPLETED
  over a graph with an open step (`handlers.py:103`, Requirement 1.4). The list of pending
  gates is a query of an index and may list a decided ticket (`gate_ticket_repository.py:59`).
- Overlapping polls, and reads that are late, may show an older state again for a while. An answer of `startRun`
  that is late takes the page away from where its user went; one that is lost leaves a
  run whose generated id nobody knows.

## What is not modelled

- What the agents' documents say, and how a schema is validated: in `HookPipeline` a result
  is any result. `pr_reviewer` (in no registry).
- The other ceilings, token and cost estimation, wall-clock time.
- Request parsing, authorisation claims and sign-in (in `Portal` a call without a session
  is a call that fails), presigned links, the page's error line and form fields.
- Serialization, metrics, traces: no state.
- In `Portal` a run has one ticket, and its runs are written as the other modules allow,
  not by them.
- DynamoDB itself: each call is atomic on its item, writes and conditions see the
  current item, and plain reads may be late (except where `StaleReads` is FALSE).
- Late reads of `kill_run`'s look-up (which can only fail).

`PROJECT.json` lists all components with their status.

## Plan

Done, in this order: `RunStateRepository` and `Supervisor` with their proofs; `Router`
and `HookPipeline` with theirs; `GateLedger`, `HitlBroker` and theirs; `Agents`,
`RetryBackoff`, `Compensation`, `GatedRun` and `Portal` with theirs; `RunRecord`, and that
`Supervisor` and `GatedRun` implement it; the ledger for racing requests and late reads, and
that the broker and the composition implement it; late reads in `Portal`.

To do:

1. The pipeline's memory in the composition: a HALT that never reaches the item.
2. That `Agents` implements the run record too, with documents for outputs.
3. The safety half of the liveness properties: what decreases with each step of a worker,
   of a retried call, and of the recursion of `invoke_spoke`.
