--------------------------- MODULE SupervisorProofs ---------------------------
(***************************************************************************)
(* The safety properties of Supervisor, for every task graph, every number *)
(* of workers and every number of redeliveries.                            *)
(***************************************************************************)
EXTENDS Supervisor, Sequences, TLAPS

(* What the writers of the item rely on, beyond the properties themselves. *)
OutputHeld ==
    \A w \in Workers : pc[w] = "save" => out[w] \in Artifacts
LastStepRecorded ==
    \A w \in Workers : pc[w] = "complete" => item.idx = NumSteps
RoutedRunExists ==
    \A w \in Workers : pc[w] = "route" => item.exists
LoopBounded ==
    \A w \in Workers : pc[w] # "idle" => iter[w] < MaxIterations
AbsentIsFresh ==
    ~item.exists => item.idx = 0

IInv ==
    /\ TypeOK
    /\ RecordedPrefix
    /\ SnapshotsArePasts
    /\ CompletedMeansAllRecorded
    /\ LineageConsistent
    /\ OutputHeld
    /\ LastStepRecorded
    /\ LoopBounded
    /\ RoutedRunExists
    /\ AbsentIsFresh
-------------------------------------------------------------------------------
(* Facts about the operators of RunStateRepository.                        *)

BasisType == {NoInputs} \cup UNION {[{u} -> Artifacts] : u \in Steps}

(* _DOWNSTREAM_INPUTS only names steps that come earlier.                  *)
LEMMA UpstreamEarlier ==
    ASSUME NEW s \in Steps, NEW v \in Upstream(s)
    PROVE  v \in Steps /\ v < s
  BY StepsAssumption DEF Steps, Upstream

(* So the inputs of a step depend on the outputs of earlier steps only.    *)
LEMMA InputsAgree ==
    ASSUME NEW state, NEW other, NEW s \in Steps,
           \A v \in Steps : v < s => state.outputs[v] = other.outputs[v]
    PROVE  Inputs(state, s) = Inputs(other, s)
<1>1. \A v \in Upstream(s) : state.outputs[v] = other.outputs[v]
  BY UpstreamEarlier
<1>2. {v \in Upstream(s) : state.outputs[v] # NoArtifact}
        = {v \in Upstream(s) : other.outputs[v] # NoArtifact}
  BY <1>1
<1> QED
  BY <1>1, <1>2 DEF Inputs

(* A step has at most one upstream step.                                   *)
LEMMA InputsType ==
    ASSUME NEW state \in RunStates, NEW s \in Steps
    PROVE  Inputs(state, s) \in BasisType
<1> DEFINE given == {v \in Upstream(s) : state.outputs[v] # NoArtifact}
<1>1. Inputs(state, s) = [u \in given |-> state.outputs[u]]
  BY DEF Inputs
<1>2. given = {} \/ \E u \in Steps : given = {u}
  <2>1. Upstream(s) = {} \/ \E u \in Steps : Upstream(s) = {u}
    <3>1. CASE s = 2
      BY <3>1, StepsAssumption DEF Upstream, Steps
    <3>2. CASE s = 5
      BY <3>2, StepsAssumption DEF Upstream, Steps
    <3>3. CASE s # 2 /\ s # 5
      BY <3>3 DEF Upstream
    <3> QED
      BY <3>1, <3>2, <3>3
  <2> QED
    BY <2>1
<1>3. \A u \in given : state.outputs[u] \in Artifacts
  BY UpstreamEarlier DEF RunStates
<1>4. CASE given = {}
  BY <1>1, <1>4 DEF BasisType, NoInputs
<1>5. CASE \E u \in Steps : given = {u}
  <2>1. PICK u \in Steps : given = {u}
    BY <1>5
  <2>2. Inputs(state, s) \in [{u} -> Artifacts]
    BY <1>1, <1>3, <2>1
  <2> QED
    BY <2>2 DEF BasisType
<1> QED
  BY <1>2, <1>4, <1>5

(* Advancing an unfinished state whose record is a prefix yields such a    *)
(* state again, one step longer and with the earlier outputs untouched.    *)
LEMMA AdvanceExtends ==
    ASSUME NEW state \in RunStates, NEW a \in Artifacts,
           Prefix(state), state.idx < NumSteps
    PROVE  /\ Advance(state, a) \in RunStates
           /\ Prefix(Advance(state, a))
           /\ Advance(state, a).idx = state.idx + 1
           /\ Advance(state, a).status = state.status
           /\ Advance(state, a).exists = state.exists
           /\ Advance(state, a).completed = state.completed \cup {state.idx}
           /\ \A s \in Steps : s # state.idx =>
                 Advance(state, a).outputs[s] = state.outputs[s]
<1> DEFINE new == Advance(state, a)
<1>1. state.idx \in Steps
  BY StepsAssumption DEF RunStates, Steps
<1>2. /\ new.exists = state.exists
      /\ new.status = state.status
      /\ new.idx = state.idx + 1
      /\ new.completed = state.completed \cup {state.idx}
      /\ new.outputs = [state.outputs EXCEPT ![state.idx] = a]
  BY DEF Advance, RunStates
<1>3. new \in RunStates
  <2>1. /\ state.idx + 1 \in 0 .. NumSteps
        /\ state.completed \cup {state.idx} \in SUBSET Steps
        /\ [state.outputs EXCEPT ![state.idx] = a]
              \in [Steps -> Artifacts \cup {NoArtifact}]
    BY <1>1, StepsAssumption DEF RunStates, Steps
  <2> QED
    BY <1>2, <2>1 DEF RunStates, Advance
<1>4. Prefix(new)
  <2>1. new.completed = 0 .. new.idx - 1
    BY <1>1, <1>2 DEF Prefix, RunStates, Steps
  <2>2. ASSUME NEW s \in Steps
        PROVE  new.outputs[s] # NoArtifact <=> s < new.idx
    <3>1. state.outputs[s] # NoArtifact <=> s < state.idx
      BY DEF Prefix
    <3>2. state.idx \in Int /\ s \in Int
      BY <1>1, StepsAssumption DEF Steps
    <3>3. CASE s = state.idx
      BY <1>1, <1>2, <3>2, <3>3, ArtifactAssumption DEF RunStates
    <3>4. CASE s # state.idx
      BY <1>2, <3>1, <3>2, <3>4 DEF RunStates
    <3> QED
      BY <3>3, <3>4
  <2> QED
    BY <2>1, <2>2 DEF Prefix
<1> QED
  BY <1>1, <1>2, <1>3, <1>4 DEF RunStates

(* update_status touches the status and nothing else.                      *)
LEMMA UpdateStatusFrame ==
    ASSUME NEW state \in RunStates, NEW status \in Statuses
    PROVE  /\ UpdateStatus(state, status) \in RunStates
           /\ UpdateStatus(state, status).status = status
           /\ UpdateStatus(state, status).exists = state.exists
           /\ UpdateStatus(state, status).idx = state.idx
           /\ UpdateStatus(state, status).completed = state.completed
           /\ UpdateStatus(state, status).outputs = state.outputs
  BY DEF UpdateStatus, RunStates

(* The item start_run builds.                                              *)
LEMMA NewRunFresh ==
    /\ NoRun \in RunStates /\ Prefix(NoRun) /\ NoRun.idx = 0 /\ ~NoRun.exists
    /\ NewRun \in RunStates /\ Prefix(NewRun) /\ NewRun.idx = 0 /\ NewRun.exists
    /\ NoRun.status = "PENDING" /\ NewRun.status = "PENDING"
    /\ \A s \in Steps : NewRun.outputs[s] = NoArtifact /\ NoRun.outputs[s] = NoArtifact
<1>1. 0 \in 0 .. NumSteps /\ 0 .. 0 - 1 = {} /\ \A s \in Steps : ~(s < 0)
  BY StepsAssumption DEF Steps
<1>2. NoRun \in RunStates
  BY <1>1 DEF NoRun, RunStates, Statuses
<1>3. Prefix(NoRun)
  BY <1>1 DEF NoRun, Prefix
<1>4. /\ NewRun.exists
      /\ NewRun.status = NoRun.status
      /\ NewRun.idx = NoRun.idx
      /\ NewRun.completed = NoRun.completed
      /\ NewRun.outputs = NoRun.outputs
  BY DEF NewRun, NoRun
<1>5. NewRun \in RunStates
  BY <1>2 DEF NewRun, RunStates
<1>6. Prefix(NewRun)
  BY <1>3, <1>4 DEF Prefix
<1> QED
  BY <1>2, <1>3, <1>4, <1>5, <1>6 DEF NoRun
-------------------------------------------------------------------------------
(* The inductive invariant.                                                *)

(* The inductive invariant holds before the run is started.                *)
LEMMA InitEstablishes == Init => IInv
<1> SUFFICES ASSUME Init PROVE IInv
  OBVIOUS
<1> USE NewRunFresh DEF Init
<1>1. TypeOK
  <2>1. basis \in [Steps -> BasisType]
    BY DEF BasisType
  <2>2. /\ pc \in [Workers -> WorkerPC]
        /\ iter \in [Workers -> 0 .. MaxIterations]
        /\ snap \in [Workers -> RunStates]
        /\ out \in [Workers -> Artifacts \cup {NoArtifact}]
    BY WorkersAssumption DEF WorkerPC
  <2>3. events \in Nat /\ retries \in 0 .. MaxRetries
    BY WorkersAssumption
  <2> QED
    BY <2>1, <2>2, <2>3 DEF TypeOK, BasisType
<1>2. RecordedPrefix /\ CompletedMeansAllRecorded /\ AbsentIsFresh
  BY DEF RecordedPrefix, CompletedMeansAllRecorded, AbsentIsFresh
<1>3. SnapshotsArePasts /\ OutputHeld /\ LastStepRecorded /\ LoopBounded /\ RoutedRunExists
  BY DEF SnapshotsArePasts, Past, OutputHeld, LastStepRecorded, LoopBounded, RoutedRunExists
<1>4. LineageConsistent
  BY DEF LineageConsistent
<1> QED
  BY <1>1, <1>2, <1>3, <1>4 DEF IInv

(* What a step needs to leave alone for the invariant's parts about the    *)
(* record to carry over: everything but the status, and the stale version. *)
SameRecord ==
    /\ item'.exists = item.exists
    /\ item'.idx = item.idx
    /\ item'.completed = item.completed
    /\ item'.outputs = item.outputs
    /\ basis' = basis
    /\ stale' = stale

(* No worker gains a copy of the run, an output or a claim to be done.     *)
ClaimsCarryOver ==
    \A w \in Workers :
        /\ pc'[w] \in {"invoke", "save"} =>
              pc[w] \in {"invoke", "save"} /\ snap'[w] = snap[w]
        /\ pc'[w] = "save" => out'[w] \in Artifacts
        /\ pc'[w] = "complete" => pc[w] = "complete"
        /\ pc'[w] = "route" => item.exists
        /\ pc'[w] # "idle" => iter'[w] < MaxIterations

(* A step that changes no more than the status of the item, and gives no   *)
(* worker a copy or a claim it did not have, preserves them.               *)
LEMMA StatusStep ==
    ASSUME IInv, SameRecord, TypeOK',
           item'.status = "COMPLETED" =>
              item.status = "COMPLETED" \/ item.idx = NumSteps,
           ClaimsCarryOver
    PROVE  IInv'
<1>1. RecordedPrefix'
  BY DEF IInv, SameRecord, ClaimsCarryOver, RecordedPrefix, Prefix
<1>2. SnapshotsArePasts'
  BY DEF IInv, SameRecord, ClaimsCarryOver, SnapshotsArePasts, Past, Prefix
<1>3. CompletedMeansAllRecorded'
  BY DEF IInv, SameRecord, CompletedMeansAllRecorded
<1>4. LineageConsistent'
  <2>1. ASSUME NEW s \in Steps PROVE Inputs(item', s) = Inputs(item, s)
    BY InputsAgree DEF SameRecord
  <2> QED
    BY <2>1 DEF IInv, SameRecord, LineageConsistent
<1>5. OutputHeld' /\ LastStepRecorded' /\ LoopBounded'
  BY DEF IInv, SameRecord, ClaimsCarryOver, OutputHeld, LastStepRecorded, LoopBounded
<1>6. RoutedRunExists' /\ AbsentIsFresh'
  BY DEF IInv, SameRecord, ClaimsCarryOver, RoutedRunExists, AbsentIsFresh
<1> QED
  BY <1>1, <1>2, <1>3, <1>4, <1>5, <1>6 DEF IInv
-------------------------------------------------------------------------------
(* One lemma per group of actions: the start_run request and kill_run.     *)

(* The calls of start_run that do not save, kill_run and a duplicated      *)
(* event touch no record.                                                  *)
LEMMA StartPreserves ==
    ASSUME IInv,
           \/ StartInitialize \/ StartRunning \/ StartTrigger \/ StartCrash
           \/ KillRun \/ Duplicate
    PROVE  IInv'
<1> USE DEF startVars, queueVars, workerVars
<1>1. /\ item' = item \/ \E st \in {"RUNNING", "HALTED"} : item' = UpdateStatus(item, st)
      /\ UNCHANGED <<stale, basis, workerVars>>
  BY DEF StartInitialize, StartRunning, StartTrigger, StartCrash, KillRun, Duplicate
<1>2. item \in RunStates
  BY DEF IInv, TypeOK
<1>3. SameRecord /\ item' \in RunStates
  BY <1>1, <1>2, UpdateStatusFrame DEF SameRecord, Statuses
<1>4. item'.status = "COMPLETED" => item.status = "COMPLETED"
  BY <1>1, <1>2, UpdateStatusFrame DEF Statuses
<1>5. TypeOK'
  <2>1. /\ starter' \in {"idle", "initialized", "saved", "running", "triggered", "crashed"}
        /\ counters' \in BOOLEAN /\ abandoned' \in BOOLEAN
    BY DEF IInv, TypeOK, StartInitialize, StartRunning, StartTrigger, StartCrash,
           KillRun, Duplicate
  <2>2. events' \in Nat /\ retries' \in 0 .. MaxRetries
    BY WorkersAssumption
       DEF IInv, TypeOK, StartInitialize, StartRunning, StartTrigger, StartCrash,
           KillRun, Duplicate
  <2> QED
    BY <1>1, <1>3, <2>1, <2>2 DEF IInv, TypeOK
<1> QED
  BY <1>1, <1>3, <1>4, <1>5, StatusStep DEF IInv, ClaimsCarryOver, OutputHeld, LoopBounded, RoutedRunExists

(* start_run's save puts a fresh record in the place of none.              *)
LEMMA StartSavePreserves ==
    ASSUME IInv, StartSave
    PROVE  IInv'
<1> USE DEF startVars, queueVars, workerVars
<1>1. item \in RunStates
  BY DEF IInv, TypeOK
<1>2. CASE item.exists
  <2>1. item' = item
    BY <1>1, <1>2, NewRunFresh DEF StartSave, Save, SaveAccepted, RunStates
  <2>2. SameRecord
    BY <2>1 DEF SameRecord, StartSave
  <2>3. TypeOK'
    BY <2>1 DEF IInv, TypeOK, StartSave
  <2> QED
    BY <2>1, <2>2, <2>3, StatusStep DEF IInv, ClaimsCarryOver, OutputHeld, LoopBounded, RoutedRunExists, StartSave
<1>3. CASE ~item.exists
  <2>1. item' = NewRun /\ UNCHANGED <<stale, basis, workerVars>>
    BY <1>3 DEF StartSave, Save, SaveAccepted
  <2>2. TypeOK'
    BY <2>1, NewRunFresh DEF IInv, TypeOK, StartSave
  <2>3. RecordedPrefix' /\ CompletedMeansAllRecorded' /\ AbsentIsFresh'
    BY <2>1, NewRunFresh DEF RecordedPrefix, Prefix, CompletedMeansAllRecorded, AbsentIsFresh
  <2>4. OutputHeld' /\ LoopBounded' /\ RoutedRunExists'
    BY <1>3, <2>1, NewRunFresh DEF IInv, OutputHeld, LoopBounded, RoutedRunExists
  <2>7. SnapshotsArePasts'
    <3>1. stale.idx = 0 /\ Prefix(stale) /\ stale' = stale
      BY <1>3, <2>1, StepsAssumption
         DEF IInv, TypeOK, RunStates, SnapshotsArePasts, Past, AbsentIsFresh
    <3>2. Past(stale)'
      BY <2>1, <3>1, NewRunFresh DEF Past, Prefix, Steps
    <3>3. \A v \in Workers : pc'[v] \notin {"invoke", "save"}
      BY <1>3, <2>1 DEF IInv, SnapshotsArePasts
    <3> QED
      BY <2>1, <3>2, <3>3, NewRunFresh DEF SnapshotsArePasts
  <2>5. LastStepRecorded'
    <3>1. item'.idx = item.idx
      BY <1>3, <2>1, NewRunFresh DEF IInv, AbsentIsFresh
    <3> QED
      BY <2>1, <3>1 DEF IInv, LastStepRecorded
  <2>6. LineageConsistent'
    BY <2>1, NewRunFresh DEF LineageConsistent
  <2> QED
    BY <2>2, <2>3, <2>4, <2>5, <2>6, <2>7 DEF IInv
<1> QED
  BY <1>2, <1>3

(* A replica that catches up holds the present, which is a past as well.   *)
LEMMA ReplicatePreserves ==
    ASSUME IInv, Replicate
    PROVE  IInv'
<1>1. stale' = item /\ UNCHANGED <<item, basis, startVars, queueVars, workerVars>>
  BY DEF Replicate
<1>2. TypeOK'
  BY <1>1 DEF IInv, TypeOK, startVars, queueVars, workerVars
<1>3. SnapshotsArePasts'
  <2>1. item \in RunStates
    BY DEF IInv, TypeOK
  <2>2. item'.idx <= item'.idx
    BY <1>1, <2>1, StepsAssumption DEF RunStates
  <2> QED
    BY <1>1, <2>2 DEF IInv, SnapshotsArePasts, Past, RecordedPrefix, Prefix, workerVars
<1>4. RecordedPrefix' /\ CompletedMeansAllRecorded' /\ AbsentIsFresh' /\ LineageConsistent'
  BY <1>1 DEF IInv, RecordedPrefix, Prefix, CompletedMeansAllRecorded, AbsentIsFresh,
              LineageConsistent, Inputs
<1>5. OutputHeld' /\ LastStepRecorded' /\ LoopBounded' /\ RoutedRunExists'
  BY <1>1 DEF IInv, OutputHeld, LastStepRecorded, LoopBounded, RoutedRunExists, workerVars
<1> QED
  BY <1>2, <1>3, <1>4, <1>5 DEF IInv
-------------------------------------------------------------------------------
(* The run worker.                                                         *)

(* A failed invocation leaves the queue and the workers typed.             *)
LEMMA FailTyped ==
    ASSUME TypeOK, NEW w \in Workers, Fail(w)
    PROVE  /\ events' \in Nat /\ retries' \in 0 .. MaxRetries /\ abandoned' \in BOOLEAN
           /\ pc' \in [Workers -> WorkerPC]
           /\ pc' = [pc EXCEPT ![w] = "idle"]
<1>1. pc' = [pc EXCEPT ![w] = "idle"] /\ pc' \in [Workers -> WorkerPC]
  BY DEF TypeOK, Fail, WorkerPC
<1>2. events' \in Nat /\ retries' \in 0 .. MaxRetries
  <2>1. CASE retries > 0
    BY <2>1, WorkersAssumption DEF TypeOK, Fail
  <2>2. CASE ~(retries > 0)
    BY <2>2 DEF TypeOK, Fail
  <2> QED
    BY <2>1, <2>2
<1>3. abandoned' \in BOOLEAN
  BY DEF TypeOK, Fail
<1> QED
  BY <1>1, <1>2, <1>3

(* So does the end of route_task for its locals.                           *)
LEMMA ForgetTyped ==
    ASSUME TypeOK, NEW w \in Workers, Forget(w)
    PROVE  /\ snap' \in [Workers -> RunStates]
           /\ out' \in [Workers -> Artifacts \cup {NoArtifact}]
           /\ \A v \in Workers : v # w => snap'[v] = snap[v] /\ out'[v] = out[v]
  BY NewRunFresh DEF TypeOK, Forget

(* The loop counter stays within its bound from one iteration to the next. *)
LEMMA NextIterationTyped ==
    ASSUME TypeOK, NEW w \in Workers, iter[w] < MaxIterations, NextIteration(w)
    PROVE  /\ iter' \in [Workers -> 0 .. MaxIterations]
           /\ pc' \in [Workers -> WorkerPC]
           /\ pc'[w] \in {"idle", "check"}
           /\ pc'[w] # "idle" => iter'[w] < MaxIterations
           /\ \A v \in Workers : v # w => pc'[v] = pc[v] /\ iter'[v] = iter[v]
<1>1. iter[w] + 1 \in 0 .. MaxIterations /\ 0 <= iter[w]
  BY WorkersAssumption DEF TypeOK
<1>2. /\ iter' = [iter EXCEPT ![w] = iter[w] + 1]
      /\ iter' \in [Workers -> 0 .. MaxIterations]
  BY <1>1 DEF TypeOK, NextIteration
<1>3. /\ pc' \in [Workers -> WorkerPC]
      /\ pc'[w] \in {"idle", "check"}
      /\ \A v \in Workers : v # w => pc'[v] = pc[v]
  BY DEF TypeOK, NextIteration, WorkerPC
<1>4. pc'[w] # "idle" => iter[w] + 1 < MaxIterations
  BY DEF TypeOK, NextIteration
<1> QED
  BY <1>1, <1>2, <1>3, <1>4 DEF TypeOK

(* What a read returns, consistent or not, is a past of the item.          *)
LEMMA GetIsPast ==
    ASSUME IInv, NEW seen \in Get
    PROVE  seen \in RunStates /\ Past(seen) /\ (seen.exists => item.exists)
<1>1. item \in RunStates /\ stale \in RunStates
  BY DEF IInv, TypeOK
<1>2. Past(item)
  BY <1>1, StepsAssumption DEF IInv, RecordedPrefix, Past, RunStates
<1> QED
  BY <1>1, <1>2 DEF IInv, SnapshotsArePasts, Get

(* The handler's steps that leave the record and the other workers alone.  *)
LEMMA WorkerPreserves ==
    ASSUME IInv, NEW w \in Workers,
           \/ Deliver(w) \/ CheckStatus(w) \/ InvokeSpoke(w) \/ InvokePartial(w)
           \/ WorkerFails(w) \/ CompleteRun(w)
    PROVE  IInv'
<1> USE DEF startVars, queueVars, workerVars
<1>0. TypeOK /\ item \in RunStates
  BY DEF IInv, TypeOK
<1>1. CASE Deliver(w)
  <2>1. TypeOK'
    <3>1. events' \in Nat
      BY <1>0, <1>1 DEF Deliver, TypeOK
    <3>2. 0 \in 0 .. MaxIterations
      BY WorkersAssumption
    <3>3. pc' \in [Workers -> WorkerPC] /\ iter' \in [Workers -> 0 .. MaxIterations]
      BY <1>0, <1>1, <3>2 DEF Deliver, TypeOK, WorkerPC
    <3>4. \A v \in Workers : pc'[v] \in {"invoke", "save"} => pc[v] = pc'[v]
      BY <1>0, <1>1 DEF Deliver, TypeOK
    <3> QED
      BY <1>0, <1>1, <3>1, <3>3, <3>4 DEF Deliver, TypeOK
  <2>2. SameRecord /\ UNCHANGED <<item, snap, out>>
    BY <1>1 DEF Deliver, SameRecord
  <2>3. /\ pc' = [pc EXCEPT ![w] = "check"]
        /\ iter' = [iter EXCEPT ![w] = 0]
    BY <1>1 DEF Deliver
  <2>4. ClaimsCarryOver
    <3>1. 0 < MaxIterations
      BY WorkersAssumption
    <3> QED
      BY <1>0, <2>2, <2>3, <3>1 DEF IInv, ClaimsCarryOver, OutputHeld, LoopBounded, RoutedRunExists, TypeOK
  <2> QED
    BY <2>1, <2>2, <2>4, StatusStep DEF IInv
<1>2. CASE CheckStatus(w)
  <2>1. TypeOK'
    BY <1>0, <1>2 DEF CheckStatus, Return, TypeOK, WorkerPC
  <2>2. SameRecord /\ UNCHANGED <<item, iter, snap, out>>
    BY <1>2 DEF CheckStatus, SameRecord
  <2>3. /\ pc[w] = "check"
        /\ \/ pc' = [pc EXCEPT ![w] = "idle"]
           \/ pc' = [pc EXCEPT ![w] = "route"] /\ item.exists
    <3>1. PICK seen \in Get :
             IF ~seen.exists \/ seen.status \in Terminal
               THEN Return(w)
               ELSE pc' = [pc EXCEPT ![w] = "route"]
      BY <1>2 DEF CheckStatus
    <3>2. seen.exists => item.exists
      BY GetIsPast
    <3> QED
      BY <1>2, <3>1, <3>2 DEF CheckStatus, Return
  <2> QED
    BY <1>0, <2>1, <2>2, <2>3, StatusStep
       DEF IInv, ClaimsCarryOver, OutputHeld, LoopBounded, RoutedRunExists, TypeOK
<1>3. CASE InvokeSpoke(w)
  <2>1. TypeOK'
    BY <1>0, <1>3 DEF InvokeSpoke, TypeOK, WorkerPC
  <2>2. SameRecord /\ UNCHANGED <<item, iter, snap>>
    BY <1>3 DEF InvokeSpoke, SameRecord
  <2>3. /\ pc[w] = "invoke" /\ pc' = [pc EXCEPT ![w] = "save"]
        /\ \E a \in Artifacts : out' = [out EXCEPT ![w] = a]
    BY <1>3 DEF InvokeSpoke
  <2>4. ASSUME NEW v \in Workers
        PROVE  /\ pc'[v] = "save" => out'[v] \in Artifacts
               /\ pc'[v] \in {"invoke", "save"} => pc[v] \in {"invoke", "save"}
               /\ pc'[v] \in {"route", "complete"} => pc[v] = pc'[v]
               /\ pc'[v] # "idle" => pc[v] # "idle"
    BY <1>0, <2>3 DEF IInv, OutputHeld, TypeOK
  <2>5. ClaimsCarryOver
    BY <2>2, <2>4 DEF IInv, ClaimsCarryOver, LoopBounded, RoutedRunExists
  <2> QED
    BY <1>0, <2>1, <2>2, <2>5, StatusStep
<1>4. CASE InvokePartial(w)
  <2>1. SameRecord /\ UNCHANGED <<item, iter>> /\ Forget(w)
    BY <1>4 DEF InvokePartial, SameRecord
  <2>2. pc' = [pc EXCEPT ![w] = "idle"]
    BY <1>4 DEF InvokePartial, Return
  <2>3. TypeOK'
    BY <1>0, <1>4, <2>1, <2>2, ForgetTyped DEF InvokePartial, TypeOK, WorkerPC
  <2> QED
    BY <1>0, <2>1, <2>2, <2>3, ForgetTyped, StatusStep
       DEF IInv, ClaimsCarryOver, OutputHeld, LoopBounded, RoutedRunExists, TypeOK
<1>5. CASE WorkerFails(w)
  <2>1. SameRecord /\ UNCHANGED <<item, iter>> /\ Forget(w) /\ Fail(w)
    BY <1>5 DEF WorkerFails, SameRecord
  <2>2. ASSUME NEW v \in Workers, pc'[v] # "idle"
        PROVE  v # w /\ pc'[v] = pc[v] /\ snap'[v] = snap[v] /\ out'[v] = out[v]
    BY <1>0, <2>1, <2>2, ForgetTyped, FailTyped DEF TypeOK
  <2>3. TypeOK'
    <3>1. /\ events' \in Nat /\ retries' \in 0 .. MaxRetries /\ abandoned' \in BOOLEAN
          /\ pc' \in [Workers -> WorkerPC]
          /\ snap' \in [Workers -> RunStates]
          /\ out' \in [Workers -> Artifacts \cup {NoArtifact}]
      BY <1>0, <2>1, ForgetTyped, FailTyped
    <3> QED
      BY <1>0, <1>5, <2>1, <2>2, <3>1 DEF WorkerFails, TypeOK
  <2>4. ClaimsCarryOver
    BY <2>1, <2>2 DEF IInv, ClaimsCarryOver, OutputHeld, LoopBounded, RoutedRunExists
  <2> QED
    BY <1>0, <2>1, <2>3, <2>4, StatusStep
<1>6. CASE CompleteRun(w)
  <2>1. /\ item' = UpdateStatus(item, "COMPLETED") /\ UNCHANGED <<stale, basis, snap, out>>
        /\ NextIteration(w) /\ pc[w] = "complete"
    BY <1>6 DEF CompleteRun
  <2>2. SameRecord /\ item' \in RunStates
    BY <1>0, <2>1, UpdateStatusFrame DEF SameRecord, Statuses
  <2>3. iter[w] < MaxIterations /\ item.idx = NumSteps
    BY <2>1 DEF IInv, LoopBounded, LastStepRecorded
  <2>4. TypeOK'
    BY <1>0, <1>6, <2>1, <2>2, <2>3, NextIterationTyped DEF CompleteRun, TypeOK
  <2> QED
    BY <1>0, <2>1, <2>2, <2>3, <2>4, NextIterationTyped, StatusStep
       DEF IInv, ClaimsCarryOver, OutputHeld, LoopBounded, RoutedRunExists, TypeOK
<1> QED
  BY <1>1, <1>2, <1>3, <1>4, <1>5, <1>6

(* route_task reads the item: the copy is a past of it.                    *)
LEMMA RouteTaskPreserves ==
    ASSUME IInv, NEW w \in Workers, RouteTask(w)
    PROVE  IInv'
<1> USE DEF startVars, queueVars
<1>0. TypeOK /\ item \in RunStates
  BY DEF IInv, TypeOK
<1>1. SameRecord /\ UNCHANGED <<item, counters, starter, iter, out>> /\ pc[w] = "route"
  BY DEF RouteTask, SameRecord
<1>2. CASE /\ snap' = snap /\ pc' = [pc EXCEPT ![w] = "idle"]
           /\ UNCHANGED queueVars \/ Fail(w)
  <2>1. /\ events' \in Nat /\ retries' \in 0 .. MaxRetries /\ abandoned' \in BOOLEAN
    BY <1>0, <1>2, FailTyped DEF TypeOK
  <2>2. TypeOK'
    BY <1>0, <1>1, <1>2, <2>1 DEF SameRecord, TypeOK, WorkerPC
  <2>3. ClaimsCarryOver
    BY <1>0, <1>1, <1>2 DEF IInv, ClaimsCarryOver, OutputHeld, LoopBounded, RoutedRunExists, TypeOK
  <2> QED
    BY <1>1, <2>2, <2>3, StatusStep DEF IInv
<1>3. ASSUME NEW seen \in Get,
             seen.exists, seen.status \notin Terminal, seen.idx < NumSteps,
             snap' = [snap EXCEPT ![w] = seen],
             pc' = [pc EXCEPT ![w] = "invoke"],
             UNCHANGED queueVars
      PROVE  IInv'
  <2>1. seen \in RunStates /\ Past(seen) /\ item.exists
    BY <1>3, GetIsPast
  <2>2. TypeOK'
    BY <1>0, <1>1, <1>3, <2>1 DEF SameRecord, TypeOK, WorkerPC
  <2>3. SnapshotsArePasts'
    <3>1. ASSUME NEW v \in Workers, pc'[v] \in {"invoke", "save"}
          PROVE  item.exists /\ Past(snap'[v])
      <4>1. CASE v = w
        BY <1>0, <1>3, <2>1, <4>1 DEF TypeOK
      <4>2. CASE v # w
        BY <1>0, <1>3, <3>1, <4>2 DEF IInv, SnapshotsArePasts, TypeOK
      <4> QED
        BY <4>1, <4>2
    <3>2. item' = item /\ stale' = stale
      BY <1>1 DEF SameRecord
    <3> QED
      BY <3>1, <3>2 DEF IInv, SnapshotsArePasts, Past, Prefix
  <2>4. RecordedPrefix' /\ CompletedMeansAllRecorded' /\ AbsentIsFresh'
    BY <1>1 DEF IInv, RecordedPrefix, Prefix, CompletedMeansAllRecorded, AbsentIsFresh
  <2>5. OutputHeld' /\ LastStepRecorded' /\ LoopBounded' /\ RoutedRunExists'
    BY <1>0, <1>1, <1>3
       DEF IInv, OutputHeld, LastStepRecorded, LoopBounded, RoutedRunExists, TypeOK
  <2>6. LineageConsistent'
    <3>1. basis' = basis /\ item' = item
      BY <1>1 DEF SameRecord
    <3> QED
      BY <3>1 DEF IInv, LineageConsistent, Inputs
  <2> QED
    BY <2>2, <2>3, <2>4, <2>5, <2>6 DEF IInv
<1> QED
  BY <1>2, <1>3 DEF RouteTask, Return, Fail

(* route_task saves.  The condition lets the write through only if nothing *)
(* was recorded since the read, so it extends the item by exactly one step.*)
LEMMA SaveStepEffect ==
    ASSUME IInv, NEW w \in Workers, SaveStep(w)
    PROVE  \/ item' = item /\ basis' = basis /\ snap[w].idx < item.idx
           \/ /\ item.exists /\ item.idx = snap[w].idx /\ item.idx \in Steps
              /\ item' \in RunStates /\ Prefix(item')
              /\ item'.exists /\ item'.idx = item.idx + 1
              /\ item'.status \notin Terminal
              /\ item.completed \subseteq item'.completed
              /\ \A s \in Steps : s < item.idx => item'.outputs[s] = item.outputs[s]
              /\ basis' = [basis EXCEPT ![item.idx] = Inputs(snap[w], item.idx)]
              /\ \A s \in Steps : s < item.idx => snap[w].outputs[s] = item'.outputs[s]
<1> DEFINE new == Advance(snap[w], out[w])
<1>0. TypeOK /\ item \in RunStates /\ snap[w] \in RunStates /\ pc[w] = "save"
  BY DEF IInv, TypeOK, SaveStep
<1>1. /\ snap[w].idx < NumSteps /\ snap[w].status \notin Terminal /\ snap[w].exists
      /\ out[w] \in Artifacts /\ Prefix(snap[w])
  BY <1>0 DEF IInv, TypeOK, OutputHeld, SnapshotsArePasts, Past
<1>2. /\ item.exists /\ snap[w].idx <= item.idx
      /\ \A s \in Steps : s < snap[w].idx => snap[w].outputs[s] = item.outputs[s]
  BY <1>0 DEF IInv, SnapshotsArePasts, Past
<1>3. /\ new \in RunStates /\ Prefix(new)
      /\ new.idx = snap[w].idx + 1
      /\ new.status = snap[w].status /\ new.exists = snap[w].exists
      /\ new.completed = snap[w].completed \cup {snap[w].idx}
      /\ \A s \in Steps : s # snap[w].idx => new.outputs[s] = snap[w].outputs[s]
  BY <1>0, <1>1, AdvanceExtends
<1>4. snap[w].idx \in Nat /\ item.idx \in Nat
  BY <1>0, StepsAssumption DEF RunStates
<1>5. CASE ~SaveAccepted(item, new)
  <2>1. item' = item /\ basis' = basis
    BY <1>5 DEF SaveStep, Save
  <2>2. snap[w].idx < item.idx
    BY <1>2, <1>3, <1>4, <1>5 DEF SaveAccepted
  <2> QED
    BY <2>1, <2>2
<1>6. CASE SaveAccepted(item, new)
  <2>1. item' = new /\ basis' = [basis EXCEPT ![snap[w].idx] = Inputs(snap[w], snap[w].idx)]
    BY <1>6 DEF SaveStep, Save
  <2>2. item.idx = snap[w].idx
    BY <1>2, <1>3, <1>4, <1>6 DEF SaveAccepted
  <2>3. item.idx \in Steps
    BY <1>1, <1>4, <2>2, StepsAssumption DEF Steps
  <2>4. item.completed = snap[w].completed
    BY <1>1, <2>2 DEF IInv, RecordedPrefix, Prefix
  <2>5. \A s \in Steps : s < item.idx => s # snap[w].idx
    BY <1>4, <2>2 DEF Steps
  <2> QED
    BY <1>1, <1>2, <1>3, <2>1, <2>2, <2>3, <2>4, <2>5
<1> QED
  BY <1>5, <1>6

(* A save of route_task, applied or refused, keeps the types.              *)
LEMMA SaveStepTyped ==
    ASSUME IInv, NEW w \in Workers, SaveStep(w)
    PROVE  /\ TypeOK' /\ LoopBounded'
           /\ \A v \in Workers :
                /\ v # w => pc'[v] = pc[v] /\ snap'[v] = snap[v] /\ out'[v] = out[v]
                /\ pc'[w] \in {"idle", "check", "complete"}
                /\ pc'[w] = "complete" => snap[w].idx + 1 >= NumSteps
<1> DEFINE new == Advance(snap[w], out[w])
<1>0. TypeOK /\ pc[w] = "save" /\ Forget(w) /\ UNCHANGED <<stale, startVars, queueVars>>
  BY DEF IInv, SaveStep
<1>1. iter[w] < MaxIterations
  BY <1>0 DEF IInv, LoopBounded
<1>2. new.idx = snap[w].idx + 1
  BY <1>0, AdvanceExtends DEF IInv, TypeOK, OutputHeld, SnapshotsArePasts, Past
<1>3. /\ iter' \in [Workers -> 0 .. MaxIterations]
      /\ pc' \in [Workers -> WorkerPC]
      /\ pc'[w] \in {"idle", "check", "complete"}
      /\ pc'[w] # "idle" => iter'[w] < MaxIterations
      /\ \A v \in Workers : v # w => pc'[v] = pc[v] /\ iter'[v] = iter[v]
      /\ pc'[w] = "complete" => snap[w].idx + 1 >= NumSteps
  <2>1. CASE Finished(new)
    <3>1. pc' = [pc EXCEPT ![w] = "complete"] /\ UNCHANGED iter
      BY <2>1 DEF SaveStep
    <3> QED
      BY <1>0, <1>1, <1>2, <2>1, <3>1 DEF TypeOK, WorkerPC, Finished
  <2>2. CASE ~Finished(new)
    <3>1. NextIteration(w)
      BY <2>2 DEF SaveStep
    <3> QED
      BY <1>0, <1>1, <3>1, NextIterationTyped
  <2> QED
    BY <2>1, <2>2
<1>4. item' \in RunStates
  BY <1>0, SaveStepEffect DEF TypeOK
<1>5. basis' \in [Steps -> BasisType]
  <2>1. basis \in [Steps -> BasisType] /\ snap[w] \in RunStates
    BY <1>0 DEF TypeOK, BasisType
  <2> QED
    BY <2>1, SaveStepEffect, InputsType
<1>6. /\ snap' \in [Workers -> RunStates]
      /\ out' \in [Workers -> Artifacts \cup {NoArtifact}]
      /\ \A v \in Workers : v # w => snap'[v] = snap[v] /\ out'[v] = out[v]
  BY <1>0, ForgetTyped
<1>7. \A v \in Workers : pc'[v] \in {"invoke", "save"} =>
         snap'[v].exists /\ snap'[v].status \notin Terminal /\ snap'[v].idx < NumSteps
  BY <1>0, <1>3, <1>6 DEF TypeOK
<1>8. TypeOK'
  BY <1>0, <1>3, <1>4, <1>5, <1>6, <1>7 DEF TypeOK, BasisType, startVars, queueVars
<1>9. LoopBounded'
  BY <1>3 DEF IInv, LoopBounded
<1> QED
  BY <1>3, <1>6, <1>8, <1>9

(* A save of route_task, applied or refused, keeps the whole invariant.    *)
LEMMA SaveStepPreserves ==
    ASSUME IInv, NEW w \in Workers, SaveStep(w)
    PROVE  IInv'
<1>0. TypeOK /\ item \in RunStates /\ snap[w] \in RunStates /\ pc[w] = "save"
  BY DEF IInv, TypeOK, SaveStep
<1>1. TypeOK' /\ LoopBounded'
  BY SaveStepTyped
<1>2. /\ \A v \in Workers : v # w => pc'[v] = pc[v] /\ snap'[v] = snap[v] /\ out'[v] = out[v]
      /\ pc'[w] \in {"idle", "check", "complete"}
      /\ pc'[w] = "complete" => snap[w].idx + 1 >= NumSteps
  BY SaveStepTyped
<1>3. OutputHeld'
  BY <1>2 DEF IInv, OutputHeld
<1>4. item.exists /\ snap[w].idx <= item.idx /\ item.idx \in 0 .. NumSteps
      /\ snap[w].idx \in 0 .. NumSteps
  BY <1>0 DEF IInv, SnapshotsArePasts, Past, RunStates
<1>7. stale' = stale /\ stale \in RunStates
  BY DEF IInv, TypeOK, SaveStep
<1>5. CASE item' = item /\ basis' = basis /\ snap[w].idx < item.idx
  <2>1. RecordedPrefix' /\ CompletedMeansAllRecorded' /\ AbsentIsFresh'
    BY <1>5 DEF IInv, RecordedPrefix, Prefix, CompletedMeansAllRecorded, AbsentIsFresh
  <2>2. LineageConsistent'
    BY <1>5 DEF IInv, LineageConsistent, Inputs
  <2>3. SnapshotsArePasts'
    BY <1>2, <1>5, <1>7 DEF IInv, SnapshotsArePasts, Past, Prefix
  <2>4. RoutedRunExists'
    BY <1>4, <1>5 DEF RoutedRunExists
  <2>5. LastStepRecorded'
    <3>1. pc'[w] = "complete" => item.idx = NumSteps
      BY <1>2, <1>4, <1>5, StepsAssumption
    <3> QED
      BY <1>2, <1>5, <3>1 DEF IInv, LastStepRecorded
  <2> QED
    BY <1>1, <1>3, <2>1, <2>2, <2>3, <2>4, <2>5 DEF IInv
<1>6. CASE item'.idx = item.idx + 1
  <2>1. /\ item.idx = snap[w].idx /\ item.idx \in Steps
        /\ item' \in RunStates /\ Prefix(item')
        /\ item'.exists /\ item'.status \notin Terminal
        /\ \A s \in Steps : s < item.idx => item'.outputs[s] = item.outputs[s]
        /\ basis' = [basis EXCEPT ![item.idx] = Inputs(snap[w], item.idx)]
        /\ \A s \in Steps : s < item.idx => snap[w].outputs[s] = item'.outputs[s]
    BY <1>4, <1>6, SaveStepEffect
  <2>2. RecordedPrefix' /\ AbsentIsFresh' /\ RoutedRunExists'
    BY <2>1 DEF RecordedPrefix, Prefix, AbsentIsFresh, RoutedRunExists
  <2>3. CompletedMeansAllRecorded'
    BY <2>1 DEF CompletedMeansAllRecorded, Terminal
  <2>4. SnapshotsArePasts'
    <3>1. ASSUME NEW v \in Workers, pc'[v] \in {"invoke", "save"}
          PROVE  /\ item'.exists
                 /\ Prefix(snap'[v])
                 /\ snap'[v].idx <= item'.idx
                 /\ \A s \in Steps : s < snap'[v].idx =>
                       snap'[v].outputs[s] = item'.outputs[s]
      <4>1. v # w /\ pc[v] \in {"invoke", "save"} /\ snap'[v] = snap[v]
        BY <1>2, <3>1
      <4>2. /\ Prefix(snap[v]) /\ snap[v].idx <= item.idx
            /\ \A s \in Steps : s < snap[v].idx => snap[v].outputs[s] = item.outputs[s]
        BY <4>1 DEF IInv, SnapshotsArePasts, Past
      <4>3. snap[v].idx \in Int
        BY <1>0 DEF TypeOK, RunStates
      <4> QED
        BY <1>4, <1>6, <2>1, <4>1, <4>2, <4>3, StepsAssumption DEF Steps
    <3>2. /\ stale.exists => item'.exists
          /\ Prefix(stale)
          /\ stale.idx <= item'.idx
          /\ \A s \in Steps : s < stale.idx => stale.outputs[s] = item'.outputs[s]
      <4>1. /\ Prefix(stale) /\ stale.idx <= item.idx
            /\ \A s \in Steps : s < stale.idx => stale.outputs[s] = item.outputs[s]
        BY DEF IInv, SnapshotsArePasts, Past
      <4>2. stale.idx \in Int
        BY <1>7 DEF RunStates
      <4> QED
        BY <1>4, <1>6, <2>1, <4>1, <4>2, StepsAssumption DEF Steps
    <3> QED
      BY <1>7, <3>1, <3>2 DEF SnapshotsArePasts, Past, Prefix
  <2>5. LastStepRecorded'
    <3>1. \A v \in Workers : v # w => pc'[v] # "complete"
      BY <1>2, <2>1, StepsAssumption DEF IInv, LastStepRecorded, Steps
    <3>2. pc'[w] = "complete" => item'.idx = NumSteps
      BY <1>2, <1>4, <1>6, <2>1, StepsAssumption DEF Steps
    <3> QED
      BY <3>1, <3>2 DEF LastStepRecorded
  <2>6. LineageConsistent'
    <3>1. ASSUME NEW s \in Steps, item'.outputs[s] # NoArtifact
          PROVE  basis'[s] = Inputs(item', s)
      <4>1. s < item.idx \/ s = item.idx
        BY <1>4, <1>6, <2>1, <3>1, StepsAssumption DEF Prefix, Steps
      <4>2. basis \in [Steps -> BasisType]
        BY <1>0 DEF TypeOK, BasisType
      <4>3. CASE s < item.idx
        <5>1. basis'[s] = basis[s]
          BY <1>4, <2>1, <4>2, <4>3
        <5>2. basis[s] = Inputs(item, s)
          BY <4>3 DEF IInv, LineageConsistent, RecordedPrefix, Prefix
        <5>3. \A v \in Steps : v < s => item'.outputs[v] = item.outputs[v]
          BY <1>4, <2>1, <4>3, StepsAssumption DEF Steps
        <5>4. Inputs(item', s) = Inputs(item, s)
          BY <5>3, InputsAgree
        <5> QED
          BY <5>1, <5>2, <5>4
      <4>4. CASE s = item.idx
        <5>1. basis'[s] = Inputs(snap[w], s)
          BY <2>1, <4>2, <4>4
        <5>2. \A v \in Steps : v < s => item'.outputs[v] = snap[w].outputs[v]
          BY <2>1, <4>4
        <5>3. Inputs(item', s) = Inputs(snap[w], s)
          BY <5>2, InputsAgree
        <5> QED
          BY <5>1, <5>3
      <4> QED
        BY <4>1, <4>3, <4>4
    <3> QED
      BY <3>1 DEF LineageConsistent, Inputs
  <2> QED
    BY <1>1, <1>3, <2>2, <2>3, <2>4, <2>5, <2>6 DEF IInv
<1> QED
  BY <1>5, <1>6, SaveStepEffect

(* Every step of the system keeps the invariant.                           *)
LEMMA NextPreserves == IInv /\ [Next]_vars => IInv'
<1> SUFFICES ASSUME IInv, [Next]_vars PROVE IInv'
  OBVIOUS
<1>1. CASE UNCHANGED vars
  <2>1. SameRecord /\ UNCHANGED <<item, pc, iter, snap, out>>
    BY <1>1 DEF vars, workerVars, SameRecord
  <2>2. TypeOK'
    BY <1>1 DEF IInv, TypeOK, vars, startVars, queueVars, workerVars
  <2>3. ClaimsCarryOver
    BY <2>1 DEF IInv, ClaimsCarryOver, OutputHeld, LoopBounded, RoutedRunExists
  <2> QED
    BY <2>1, <2>2, <2>3, StatusStep DEF IInv
<1>2. CASE \/ StartInitialize \/ StartRunning \/ StartTrigger \/ StartCrash
           \/ KillRun \/ Duplicate
  BY <1>2, StartPreserves
<1>3. CASE StartSave
  BY <1>3, StartSavePreserves
<1>4. CASE \E w \in Workers : Deliver(w) \/ Handler(w) \/ InvokePartial(w) \/ WorkerFails(w)
  <2>1. PICK w \in Workers : Deliver(w) \/ Handler(w) \/ InvokePartial(w) \/ WorkerFails(w)
    BY <1>4
  <2>2. CASE \/ Deliver(w) \/ CheckStatus(w) \/ InvokeSpoke(w) \/ InvokePartial(w)
             \/ WorkerFails(w) \/ CompleteRun(w)
    BY <2>2, WorkerPreserves
  <2>3. CASE RouteTask(w)
    BY <2>3, RouteTaskPreserves
  <2>4. CASE SaveStep(w)
    BY <2>4, SaveStepPreserves
  <2> QED
    BY <2>1, <2>2, <2>3, <2>4 DEF Handler
<1>5. CASE Replicate
  BY <1>5, ReplicatePreserves
<1> QED
  BY <1>1, <1>2, <1>3, <1>4, <1>5 DEF Next

(* So it holds in every reachable state.                                   *)
LEMMA IInvHolds == Spec => []IInv
<1>1. Init => IInv
  BY InitEstablishes
<1>2. IInv /\ [Next]_vars => IInv'
  BY NextPreserves
<1> QED
  BY <1>1, <1>2, PTL DEF Spec
-------------------------------------------------------------------------------
(* Every reachable state is well typed.                                    *)
THEOREM TypeCorrect == Spec => []TypeOK
<1>1. IInv => TypeOK
  BY DEF IInv
<1> QED
  BY <1>1, IInvHolds, PTL

(* However many workers race, crash and are redelivered, the item records  *)
(* a whole prefix of the task graph.                                       *)
THEOREM PrefixRecorded == Spec => []RecordedPrefix
<1>1. IInv => RecordedPrefix
  BY DEF IInv
<1> QED
  BY <1>1, IInvHolds, PTL

(* Every copy of the run a worker works on is a past of the item.          *)
THEOREM CopiesArePasts == Spec => []SnapshotsArePasts
<1>1. IInv => SnapshotsArePasts
  BY DEF IInv
<1> QED
  BY <1>1, IInvHolds, PTL

(* COMPLETED is only ever stored on a run whose every step is recorded,    *)
(* though the worker that stores it has ignored the result of its save.    *)
THEOREM CompletedIsComplete == Spec => []CompletedMeansAllRecorded
<1>1. IInv => CompletedMeansAllRecorded
  BY DEF IInv
<1> QED
  BY <1>1, IInvHolds, PTL

(* Every recorded output was computed from the recorded outputs of its     *)
(* upstream steps.                                                         *)
THEOREM LineageKept == Spec => []LineageConsistent
<1>1. IInv => LineageConsistent
  BY DEF IInv
<1> QED
  BY <1>1, IInvHolds, PTL

(* What a step of the system does to what is recorded.                     *)
LEMMA StepKeepsRecord ==
    ASSUME IInv, [Next]_vars
    PROVE  /\ item.exists => item'.exists
           /\ item'.idx >= item.idx
           /\ item.completed \subseteq item'.completed
           /\ \A s \in Steps : item.outputs[s] # NoArtifact =>
                 item'.outputs[s] = item.outputs[s]
<1>0. item \in RunStates /\ item.idx \in Int
  BY DEF IInv, TypeOK, RunStates
<1>1. CASE item' = item \/ \E st \in Statuses : item' = UpdateStatus(item, st)
  BY <1>0, <1>1, UpdateStatusFrame
<1>2. CASE StartSave
  <2>1. CASE item.exists
    BY <1>0, <1>1, <1>2, <2>1, NewRunFresh DEF StartSave, Save, SaveAccepted, RunStates
  <2>2. CASE ~item.exists
    <3>1. item' = NewRun
      BY <1>2, <2>2 DEF StartSave, Save, SaveAccepted
    <3>2. item.idx = 0 /\ Prefix(item)
      BY <2>2 DEF IInv, AbsentIsFresh, RecordedPrefix
    <3>3. item.completed = {} /\ \A s \in Steps : item.outputs[s] = NoArtifact
      BY <3>2, StepsAssumption DEF Prefix, Steps
    <3> QED
      BY <2>2, <3>1, <3>2, <3>3, NewRunFresh
  <2> QED
    BY <2>1, <2>2
<1>3. ASSUME NEW w \in Workers, SaveStep(w)
      PROVE  /\ item.exists => item'.exists
             /\ item'.idx >= item.idx
             /\ item.completed \subseteq item'.completed
             /\ \A s \in Steps : item.outputs[s] # NoArtifact =>
                   item'.outputs[s] = item.outputs[s]
  <2>1. \A s \in Steps : item.outputs[s] # NoArtifact => s < item.idx
    BY DEF IInv, RecordedPrefix, Prefix
  <2> QED
    BY <1>0, <1>3, <2>1, SaveStepEffect
<1>4. \/ item' = item \/ \E st \in Statuses : item' = UpdateStatus(item, st)
      \/ StartSave
      \/ \E w \in Workers : SaveStep(w)
  BY DEF Next, vars, StartInitialize, StartRunning, StartTrigger, StartCrash, KillRun,
         Duplicate, Replicate, Deliver, Handler, CheckStatus, RouteTask, InvokeSpoke,
         CompleteRun, InvokePartial, WorkerFails, Statuses
<1> QED
  BY <1>1, <1>2, <1>3, <1>4

(* Step-boundary idempotency (save's condition): once a step is recorded   *)
(* no write of any worker, however late, regresses the index or replaces   *)
(* what was recorded for it.                                               *)
RecordedOnce ==
    [][ /\ item.exists => item'.exists
        /\ item'.idx >= item.idx
        /\ item.completed \subseteq item'.completed
        /\ \A s \in Steps : item.outputs[s] # NoArtifact =>
              item'.outputs[s] = item.outputs[s] ]_vars

(* Once a step is recorded, no later write regresses the index or replaces *)
(* what was recorded: a duplicate execution is discarded.                  *)
THEOREM RecordedForGood == Spec => RecordedOnce
<1>1. IInv /\ [Next]_vars => [ /\ item.exists => item'.exists
                             /\ item'.idx >= item.idx
                             /\ item.completed \subseteq item'.completed
                             /\ \A s \in Steps : item.outputs[s] # NoArtifact =>
                                   item'.outputs[s] = item.outputs[s] ]_vars
  BY StepKeepsRecord
<1> QED
  BY <1>1, IInvHolds, PTL DEF Spec, RecordedOnce

-------------------------------------------------------------------------------
(* How far the start_run request has come, and what it has written by then.*)
StarterInv ==
    /\ starter # "idle" => counters
    /\ starter \in {"idle", "initialized"} => ~item.exists
    /\ starter \in {"saved", "running", "triggered"} => item.exists
    /\ ~item.exists => item.status = "PENDING"

(* Where start_run stands tells whether the item exists, after every step. *)
LEMMA StarterPreserved == IInv /\ StarterInv /\ [Next]_vars => StarterInv'
<1> SUFFICES ASSUME IInv, StarterInv, [Next]_vars PROVE StarterInv'
  OBVIOUS
<1> USE DEF StarterInv, startVars, queueVars, workerVars
<1>0. item \in RunStates
  BY DEF IInv, TypeOK
<1>1. CASE UNCHANGED vars
  BY <1>1 DEF vars
<1>2. CASE StartInitialize \/ StartTrigger \/ StartCrash \/ Duplicate \/ Replicate
  BY <1>2 DEF StartInitialize, StartTrigger, StartCrash, Duplicate, Replicate
<1>3. CASE StartSave
  BY <1>3, NewRunFresh DEF StartSave, Save, SaveAccepted
<1>4. CASE StartRunning \/ KillRun
  BY <1>0, <1>4, UpdateStatusFrame DEF StartRunning, KillRun, Statuses
<1>5. ASSUME NEW w \in Workers, SaveStep(w)
      PROVE  StarterInv'
  <2>1. UNCHANGED <<starter, counters>>
    BY <1>5 DEF SaveStep
  <2> QED
    BY <1>5, <2>1, SaveStepEffect
<1>6. ASSUME NEW w \in Workers, CompleteRun(w)
      PROVE  StarterInv'
  <2>1. item.exists
    BY <1>6, StepsAssumption DEF IInv, CompleteRun, LastStepRecorded, AbsentIsFresh
  <2> QED
    BY <1>0, <1>6, <2>1, UpdateStatusFrame DEF CompleteRun, Statuses
<1>7. CASE \E w \in Workers : \/ Deliver(w) \/ CheckStatus(w) \/ RouteTask(w)
                             \/ InvokeSpoke(w) \/ InvokePartial(w) \/ WorkerFails(w)
  BY <1>7 DEF Deliver, CheckStatus, RouteTask, InvokeSpoke, InvokePartial, WorkerFails
<1> QED
  BY <1>1, <1>2, <1>3, <1>4, <1>5, <1>6, <1>7 DEF Next, Handler

(* Once the run is HALTED and nothing that read the item before is still   *)
(* to write, it stays so.                                                  *)
HaltedForGood == Drained

(* No step takes a drained run out of HALTED, or undrains it.              *)
LEMMA HaltedStable ==
    IInv /\ StarterInv /\ HaltedForGood /\ [Next]_vars => HaltedForGood'
<1> SUFFICES ASSUME IInv, StarterInv, HaltedForGood, [Next]_vars PROVE HaltedForGood'
  OBVIOUS
<1> USE DEF HaltedForGood, Drained, Get
<1>0. /\ item \in RunStates /\ pc \in [Workers -> WorkerPC]
      /\ starter \notin {"idle", "initialized", "saved"}
  BY DEF IInv, TypeOK, StarterInv
<1>1. CASE UNCHANGED vars
  BY <1>1 DEF vars, startVars, workerVars
<1>2. CASE StartInitialize \/ StartSave \/ StartRunning
  BY <1>0, <1>2 DEF StartInitialize, StartSave, StartRunning
<1>3. CASE StartTrigger \/ StartCrash \/ Duplicate
  BY <1>3 DEF StartTrigger, StartCrash, Duplicate, startVars, workerVars
<1>6. CASE Replicate
  BY <1>6 DEF Replicate, startVars, workerVars
<1>4. CASE KillRun
  BY <1>0, <1>4, UpdateStatusFrame DEF KillRun, Statuses, workerVars
<1>5. ASSUME NEW w \in Workers,
             Deliver(w) \/ Handler(w) \/ InvokePartial(w) \/ WorkerFails(w)
      PROVE  HaltedForGood'
  <2>1. pc[w] \in {"idle", "check", "route"}
    OBVIOUS
  <2>2. UNCHANGED <<item, stale, starter>>
    BY <1>5, <2>1 DEF Deliver, Handler, CheckStatus, RouteTask, InvokeSpoke, SaveStep,
          CompleteRun, InvokePartial, WorkerFails, startVars
  <2>3. \E p \in {"idle", "check", "route"} : pc' = [pc EXCEPT ![w] = p]
    BY <1>5, <2>1 DEF Deliver, Handler, CheckStatus, RouteTask, InvokeSpoke, SaveStep,
          CompleteRun, InvokePartial, WorkerFails, Return, Fail, Terminal
  <2> QED
    BY <1>0, <2>2, <2>3
<1> QED
  BY <1>1, <1>2, <1>3, <1>4, <1>5, <1>6 DEF Next

(* kill_run is final once nothing is in flight.                            *)
THEOREM HaltIsFinal == Spec => HaltFinalOnceDrained
<1>1. Init => StarterInv
  BY NewRunFresh DEF Init, StarterInv
<1>2. IInv /\ StarterInv /\ [Next]_vars => StarterInv'
  BY StarterPreserved
<1>3. IInv /\ StarterInv /\ HaltedForGood /\ [Next]_vars => HaltedForGood'
  BY HaltedStable
<1>4. HaltedForGood => item.status = "HALTED"
  BY DEF HaltedForGood, Drained, Get
<1>5. Drained => HaltedForGood
  BY DEF HaltedForGood
<1> QED
  BY <1>1, <1>2, <1>3, <1>4, <1>5, IInvHolds, PTL DEF Spec, HaltFinalOnceDrained
-------------------------------------------------------------------------------
(* The run implements its record: what each write of the item does to the  *)
(* record it stands for.                                                   *)

(* The record is as long as the index.                                     *)
LEMMA RecordLength ==
    ASSUME IInv
    PROVE  /\ item.idx \in 0 .. NumSteps
           /\ Len(RecordOf) = item.idx
           /\ DOMAIN RecordOf = 1 .. item.idx
<1>1. item.idx \in 0 .. NumSteps
  BY DEF IInv, TypeOK, RunStates
<1>2. item.idx \in Nat
  BY <1>1, StepsAssumption
<1> QED
  BY <1>1, <1>2 DEF RecordOf

(* A sequence with one more element at its end.                            *)
LEMMA ExtendedIsAppend ==
    ASSUME NEW T, NEW n \in Nat, NEW f \in [1 .. n -> T], NEW e \in T, NEW g,
           g = [i \in 1 .. n + 1 |-> g[i]],
           \A i \in 1 .. n : g[i] = f[i], g[n + 1] = e
    PROVE  g = Append(f, e)
<1>1. f \in Seq(T) /\ Len(f) = n
  OBVIOUS
<1>2. /\ Append(f, e) \in Seq(T) /\ Len(Append(f, e)) = n + 1
      /\ \A i \in 1 .. n : Append(f, e)[i] = f[i]
      /\ Append(f, e)[n + 1] = e
  BY <1>1
<1>3. Append(f, e) = [i \in 1 .. n + 1 |-> Append(f, e)[i]]
  <2>1. PICK h : h = Append(f, e)
    OBVIOUS
  <2>2. h \in Seq(T) /\ Len(h) = n + 1
    BY <1>2, <2>1
  <2>3. h \in [1 .. n + 1 -> T]
    BY <2>2
  <2> QED
    BY <2>1, <2>3
<1>4. \A i \in 1 .. n + 1 : i \in 1 .. n \/ i = n + 1
  OBVIOUS
<1>5. \A i \in 1 .. n + 1 : g[i] = Append(f, e)[i]
  BY <1>2, <1>4
<1> QED
  BY <1>3, <1>5

(* What leaves the outputs and their inputs alone leaves the record alone. *)
LEMMA RecordKept ==
    ASSUME item'.idx = item.idx, item'.outputs = item.outputs, basis' = basis
    PROVE  RecordOf' = RecordOf
  BY DEF RecordOf

(* A write of the status is the opening, halting or completing of the      *)
(* record, if the run exists.                                              *)
LEMMA StatusImplements ==
    ASSUME IInv, item.exists, basis' = basis, NEW st \in Statuses,
           item' = UpdateStatus(item, st),
           st \in {"RUNNING", "AWAITING_HITL", "HALTED"}
              \/ (st = "COMPLETED" /\ item.idx = NumSteps)
    PROVE  Record!Next
<1>1. /\ item'.exists = item.exists /\ item'.idx = item.idx
      /\ item'.outputs = item.outputs /\ item'.status = st
  BY UpdateStatusFrame DEF IInv, TypeOK
<1>2. RecordOf' = RecordOf
  BY <1>1, RecordKept
<1>3. StatusOf # "absent" /\ StatusOf' = st
  BY <1>1 DEF StatusOf, IInv, TypeOK, RunStates, Statuses
<1>4. CASE st \in {"RUNNING", "AWAITING_HITL"}
  BY <1>2, <1>3, <1>4 DEF Record!Next, Record!Reopen
<1>5. CASE st = "HALTED"
  BY <1>2, <1>3, <1>5 DEF Record!Next, Record!Halt
<1>6. CASE st = "COMPLETED" /\ item.idx = NumSteps
  BY <1>2, <1>3, <1>6, RecordLength DEF Record!Next, Record!Complete
<1> QED
  BY <1>4, <1>5, <1>6

(* start_run's save creates the record, or finds it there.                 *)
LEMMA StartSaveImplements ==
    ASSUME IInv, StartSave
    PROVE  Record!Next \/ UNCHANGED Record!vars
<1>0. item \in RunStates /\ basis' = basis
  BY DEF IInv, TypeOK, StartSave
<1>1. CASE item.exists
  <2>1. item' = item
    BY <1>0, <1>1, NewRunFresh DEF StartSave, Save, SaveAccepted, RunStates
  <2> QED
    BY <1>0, <2>1 DEF Record!vars, RecordOf, StatusOf
<1>2. CASE ~item.exists
  <2>1. item' = NewRun /\ item.idx = 0 /\ item'.idx = 0
    BY <1>2, NewRunFresh DEF StartSave, Save, SaveAccepted, IInv, AbsentIsFresh
  <2>2. RecordOf' = RecordOf
    BY <2>1 DEF RecordOf
  <2>3. StatusOf = "absent" /\ StatusOf' = "PENDING"
    BY <1>2, <2>1, NewRunFresh DEF StatusOf
  <2> QED
    BY <2>2, <2>3 DEF Record!Next, Record!Create
<1> QED
  BY <1>1, <1>2

(* The inputs of a step whose predecessors are all recorded are the        *)
(* outputs the record has for its upstream steps.                          *)
LEMMA InputsGiven ==
    ASSUME IInv, NEW state, item.idx \in Steps, Prefix(state), state.idx = item.idx,
           \A s \in Steps : s < item.idx => state.outputs[s] = item.outputs[s]
    PROVE  Inputs(state, item.idx) = Record!Given(item.idx)
<1>1. \A v \in Upstream(item.idx) : v \in Steps /\ v < item.idx
  BY UpstreamEarlier
<1>2. \A v \in Upstream(item.idx) : v + 1 \in 1 .. item.idx /\ (v + 1) - 1 = v
  BY <1>1, StepsAssumption DEF Steps
<1>3. \A v \in Upstream(item.idx) : state.outputs[v] # NoArtifact
  BY <1>1 DEF Prefix
<1>4. {v \in Upstream(item.idx) : state.outputs[v] # NoArtifact} = Upstream(item.idx)
  BY <1>3
<1>5. \A v \in Upstream(item.idx) : RecordOf[v + 1].output = state.outputs[v]
  BY <1>1, <1>2 DEF RecordOf
<1>6. Inputs(state, item.idx) = [u \in Upstream(item.idx) |-> state.outputs[u]]
  BY <1>4 DEF Inputs
<1>7. Record!Given(item.idx) = [u \in Upstream(item.idx) |-> RecordOf[u + 1].output]
  BY DEF Record!Given
<1> QED
  BY <1>5, <1>6, <1>7

(* A save of route_task that is let through executes the next step; one    *)
(* that is refused leaves the record alone.                                *)
LEMMA SaveStepImplements ==
    ASSUME IInv, NEW w \in Workers, SaveStep(w)
    PROVE  Record!Next \/ UNCHANGED Record!vars
<1>1. CASE item' = item /\ basis' = basis
  BY <1>1 DEF Record!vars, RecordOf, StatusOf
<1>2. CASE ~(item' = item /\ basis' = basis)
  <2> DEFINE n == item.idx
             entry == [output |-> item'.outputs[n], inputs |-> Inputs(snap[w], n)]
  <2>1. /\ item.exists /\ n = snap[w].idx /\ n \in Steps
        /\ item' \in RunStates /\ Prefix(item')
        /\ item'.exists /\ item'.idx = n + 1
        /\ item'.status \notin Terminal
        /\ \A s \in Steps : s < n => item'.outputs[s] = item.outputs[s]
        /\ basis' = [basis EXCEPT ![n] = Inputs(snap[w], n)]
        /\ \A s \in Steps : s < n => snap[w].outputs[s] = item'.outputs[s]
    BY <1>2, SaveStepEffect
  <2>2. /\ n \in Nat /\ n < NumSteps /\ Len(RecordOf) = n /\ DOMAIN RecordOf = 1 .. n
        /\ \A i \in 1 .. n : i - 1 \in Steps /\ i - 1 < n
    BY <2>1, RecordLength, StepsAssumption DEF Steps
  <2>3. Inputs(snap[w], n) = Record!Given(n)
    <3>1. Prefix(snap[w])
      BY DEF IInv, SnapshotsArePasts, Past, SaveStep
    <3> QED
      BY <2>1, <3>1, InputsGiven
  <2>4. basis'[n] = Inputs(snap[w], n) /\ \A s \in Steps : s < n => basis'[s] = basis[s]
    BY <2>1, <2>2 DEF IInv, TypeOK
  <2>5. item'.outputs[n] \in Artifacts
    BY <2>1, <2>2 DEF Prefix, RunStates
  <2>6. RecordOf' = Append(RecordOf, entry)
    <3>1. RecordOf' = [i \in 1 .. n + 1 |->
                         [output |-> item'.outputs[i - 1], inputs |-> basis'[i - 1]]]
      BY <2>1 DEF RecordOf
    <3>2. \A i \in 1 .. n : RecordOf'[i] = RecordOf[i]
      BY <2>1, <2>2, <2>4, <3>1 DEF RecordOf
    <3>3. RecordOf'[n + 1] = entry
      BY <2>2, <2>4, <3>1
    <3> DEFINE T == {RecordOf[i] : i \in 1 .. n} \cup {entry}
    <3>4. RecordOf \in [1 .. n -> T] /\ entry \in T
      BY <2>2 DEF RecordOf
    <3>5. RecordOf' = [i \in 1 .. n + 1 |-> RecordOf'[i]]
      BY <3>1
    <3> HIDE DEF n, entry, T
    <3> QED
      BY <2>2, <3>2, <3>3, <3>4, <3>5, ExtendedIsAppend
  <2>7. StatusOf # "absent" /\ StatusOf' \in Record!Open
    BY <2>1 DEF StatusOf, Record!Open, Terminal, RunStates, Statuses, IInv, TypeOK
  <2>8. Record!Execute
    BY <2>2, <2>3, <2>5, <2>6, <2>7 DEF Record!Execute
  <2> QED
    BY <2>8 DEF Record!Next
<1> QED
  BY <1>1, <1>2

(* Every step of the run is a step of its record, or leaves it alone.      *)
LEMMA StepImplements ==
    ASSUME IInv, starter = "saved" => item.exists, [Next]_vars
    PROVE  Record!Next \/ UNCHANGED Record!vars
<1>1. CASE UNCHANGED <<item, basis>>
  BY <1>1 DEF Record!vars, RecordOf, StatusOf
<1>2. CASE StartSave
  BY <1>2, StartSaveImplements
<1>3. CASE StartRunning \/ KillRun
  BY <1>3, StatusImplements DEF StartRunning, KillRun, Statuses
<1>4. ASSUME NEW w \in Workers, SaveStep(w) PROVE Record!Next \/ UNCHANGED Record!vars
  BY <1>4, SaveStepImplements
<1>5. ASSUME NEW w \in Workers, CompleteRun(w) PROVE Record!Next
  <2>1. item.idx = NumSteps /\ item.exists
    BY <1>5, StepsAssumption DEF IInv, CompleteRun, LastStepRecorded, AbsentIsFresh
  <2> QED
    BY <1>5, <2>1, StatusImplements DEF CompleteRun, Statuses
<1>6. \/ UNCHANGED <<item, basis>> \/ StartSave \/ StartRunning \/ KillRun
      \/ \E w \in Workers : SaveStep(w) \/ CompleteRun(w)
  BY DEF Next, vars, StartInitialize, StartTrigger, StartCrash, Duplicate, Replicate,
         Deliver, Handler, CheckStatus, RouteTask, InvokeSpoke, InvokePartial, WorkerFails
<1> QED
  BY <1>1, <1>2, <1>3, <1>4, <1>5, <1>6

(* However many workers race, die, are redelivered and read late versions, *)
(* the record is one that a single process could have made: each step      *)
(* executed once, in order, on what is recorded for its upstream steps.    *)
THEOREM RunImplementsRecord == Spec => ImplementsRecord
<1>1. Init => Record!Init
  BY NewRunFresh DEF Init, Record!Init, RecordOf, StatusOf
<1>2. Init => StarterInv
  BY NewRunFresh DEF Init, StarterInv
<1>3. ASSUME IInv, StarterInv, [Next]_vars
      PROVE  [Record!Next]_(Record!vars)
  BY <1>3, StepImplements DEF StarterInv
<1> QED
  BY <1>1, <1>2, <1>3, StarterPreserved, IInvHolds, PTL
     DEF Spec, ImplementsRecord, Record!Spec
===============================================================================
