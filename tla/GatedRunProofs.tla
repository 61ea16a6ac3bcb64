---------------------------- MODULE GatedRunProofs ----------------------------
(***************************************************************************)
(* The composition of worker and broker, for any task graph, gated step,   *)
(* and number of workers, tickets and deciders: the broker's writes of the *)
(* status disturb nothing the worker relies on, and the gate holds.        *)
(***************************************************************************)
EXTENDS GatedRun, SupervisorProofs

(* What has been approved is audited, or its decider is about to audit it. *)
Audited(t) ==
    \/ <<t, "APPROVED">> \in audit
    \/ \E d \in Deciders :
          decider[d] = "audit" /\ request[d] = [ticket |-> t, decision |-> "APPROVED"]

GatesTyped ==
    /\ tickets \in [Tickets -> {"none", "PENDING", "APPROVED", "REJECTED"}]
    /\ decider \in [Deciders -> {"idle", "load", "update", "audit", "status", "send", "trigger"}]
    /\ request \in [Deciders -> [ticket : Tickets, decision : {"APPROVED", "REJECTED"}]
                                   \cup {Broker!NoRequest}]
    /\ \A d \in Deciders : decider[d] # "idle" => request[d] # Broker!NoRequest

ApprovalsAudited == \A t \in Tickets : tickets[t] = "APPROVED" => Audited(t)

GInv == IInv /\ GatesTyped /\ ApprovalsAudited /\ GatedStepApproved

(* The invariant of the composition holds at first.                        *)
LEMMA InitiallyG == GatedInit => GInv
<1> SUFFICES ASSUME GatedInit PROVE GInv
  OBVIOUS
<1>1. IInv
  BY InitEstablishes DEF GatedInit
<1>2. GatesTyped /\ ApprovalsAudited
  BY DEF GatedInit, GatesTyped, ApprovalsAudited, Broker!NoRequest
<1>3. GatedStepApproved
  BY NewRunFresh, GateAssumption, StepsAssumption
     DEF GatedInit, Init, GatedStepApproved, Steps
<1> QED
  BY <1>1, <1>2, <1>3 DEF GInv

-------------------------------------------------------------------------------
(* The invariant of the worker.                                            *)

(* A write of the broker leaves the record as it is.                       *)
LEMMA StatusWrittenFrame ==
    ASSUME IInv, StatusWritten \/ item' = item
    PROVE  /\ item' \in RunStates
           /\ item'.exists = item.exists /\ item'.idx = item.idx
           /\ item'.completed = item.completed /\ item'.outputs = item.outputs
<1>1. item \in RunStates
  BY DEF IInv, TypeOK
<1> QED
  BY <1>1, UpdateStatusFrame DEF StatusWritten

(* The worker's steps of raise_gate, and those of the deciders: whatever   *)
(* status they write, it is not COMPLETED.                                 *)
LEMMA GateStepKeepsWorker ==
    ASSUME IInv, StatusWritten \/ item' = item, UNCHANGED <<stale, basis, startVars>>,
           item'.status # "COMPLETED" \/ item'.status = item.status,
           events' \in Nat, UNCHANGED <<retries, abandoned, iter>>,
           \/ UNCHANGED <<pc, snap, out>>
           \/ \E w \in Workers :
                 pc' = [pc EXCEPT ![w] = "gate"] /\ pc[w] # "idle" /\ UNCHANGED <<snap, out>>
           \/ \E w \in Workers : pc' = [pc EXCEPT ![w] = "idle"] /\ Forget(w)
    PROVE  IInv'
<1>1. SameRecord
  BY StatusWrittenFrame DEF SameRecord
<1>2. pc' \in [Workers -> WorkerPC]
  BY DEF IInv, TypeOK, WorkerPC, Forget
<1>3. /\ snap' \in [Workers -> RunStates]
      /\ out' \in [Workers -> Artifacts \cup {NoArtifact}]
  BY ForgetTyped DEF IInv, TypeOK
<1>4. \A v \in Workers :
         pc'[v] # "idle" =>
            /\ snap'[v] = snap[v] /\ out'[v] = out[v] /\ pc[v] # "idle"
            /\ pc'[v] # "gate" => pc'[v] = pc[v]
  BY ForgetTyped DEF IInv, TypeOK
<1>5. TypeOK'
  BY <1>2, <1>3, <1>4, StatusWrittenFrame DEF IInv, TypeOK, startVars
<1>6. ClaimsCarryOver
  BY <1>4 DEF IInv, ClaimsCarryOver, OutputHeld, LoopBounded, RoutedRunExists
<1> QED
  BY <1>1, <1>5, <1>6, StatusStep DEF IInv, CompletedMeansAllRecorded

(* Every step of the composition keeps the worker's invariant.             *)
LEMMA WorkerInvariantKept ==
    ASSUME GInv, [GatedNext]_gatedVars
    PROVE  IInv'
<1> USE DEF GInv
<1>1. CASE UNCHANGED gatedVars
  BY <1>1, NextPreserves DEF gatedVars
<1>2. CASE Portal
  BY <1>2, NextPreserves DEF Portal, Next
<1>3. ASSUME NEW w \in Workers, Work(w) PROVE IInv'
  BY <1>3, NextPreserves DEF Work, Next, Handler
<1>4. ASSUME NEW w \in Workers, Fails(w) PROVE IInv'
  BY <1>4, NextPreserves DEF Fails, Next
<1>5. ASSUME NEW w \in Workers, RaiseStart(w) PROVE IInv'
  <2>1. events' \in Nat /\ events' = events
    BY <1>5 DEF RaiseStart, IInv, TypeOK, queueVars
  <2> QED
    BY <1>5, <2>1, GateStepKeepsWorker DEF RaiseStart, startVars, queueVars
<1>6. ASSUME NEW w \in Workers, RaiseContinue(w) PROVE IInv'
  <2>1. events' \in Nat /\ events' = events
    BY <1>6 DEF RaiseContinue, IInv, TypeOK, queueVars
  <2>2. item'.status = "AWAITING_HITL" \/ item'.status = item.status
    BY <1>6 DEF RaiseContinue, Broker!CreateTicket, Broker!AwaitHitl, Broker!NotifyRaised
  <2> QED
    BY <1>6, <2>1, <2>2, GateStepKeepsWorker DEF RaiseContinue, startVars, queueVars, workerVars
<1>7. ASSUME NEW w \in Workers, RaiseReturn(w) PROVE IInv'
  <2>1. events' \in Nat /\ events' = events
    BY <1>7 DEF RaiseReturn, IInv, TypeOK, queueVars
  <2> QED
    BY <1>7, <2>1, GateStepKeepsWorker DEF RaiseReturn, Return, startVars, queueVars
<1>8. ASSUME NEW d \in Deciders, Request(d) PROVE IInv'
  <2>1. UNCHANGED vars
    BY <1>8 DEF Request, vars
  <2> QED
    BY <2>1, NextPreserves
<1>9. ASSUME NEW d \in Deciders, Decide(d) PROVE IInv'
  <2>1. events' \in Nat
    BY <1>9 DEF Decide, IInv, TypeOK
  <2>2. item'.status \in {"RUNNING", "HALTED"} \/ item'.status = item.status
    BY <1>9 DEF Decide, Broker!Decide, Broker!LoadTicket, Broker!UpdateTicket,
                Broker!AuditDecision, Broker!SetRunStatus, Broker!SendTask,
                Broker!TriggerWorker, Broker!RunStatusAfter
  <2> QED
    BY <1>9, <2>1, <2>2, GateStepKeepsWorker DEF Decide, startVars, workerVars
<1> QED
  BY <1>1, <1>2, <1>3, <1>4, <1>5, <1>6, <1>7, <1>8, <1>9 DEF GatedNext

-------------------------------------------------------------------------------
(* The stores behind the gate.                                             *)

(* Only raise_gate and the deciders touch tickets, audit and requests.     *)
GatesLeftAlone == UNCHANGED <<tickets, audit, decider, request>>

(* A step that does not touch them keeps what is known of them.            *)
LEMMA GatesAlone ==
    ASSUME GatesTyped, ApprovalsAudited, GatesLeftAlone
    PROVE  /\ GatesTyped' /\ ApprovalsAudited'
           /\ \A t \in Tickets : Audited(t) => Audited(t)'
  BY DEF GatesLeftAlone, GatesTyped, ApprovalsAudited, Audited

(* Creating a ticket approves none. *)
LEMMA TicketCreated ==
    ASSUME GatesTyped, ApprovalsAudited, NEW t, Broker!CreateTicket(t)
    PROVE  /\ GatesTyped' /\ ApprovalsAudited'
           /\ \A u \in Tickets : Audited(u) => Audited(u)'
<1> USE DEF Broker!CreateTicket
<1>1. GatesTyped'
  BY DEF GatesTyped
<1>2. \A u \in Tickets : Audited(u) => Audited(u)'
  BY DEF Audited
<1>3. \A u \in Tickets : tickets'[u] = "APPROVED" => tickets[u] = "APPROVED"
  BY DEF GatesTyped
<1> QED
  BY <1>1, <1>2, <1>3 DEF ApprovalsAudited

(* A decider writes the decision and then audits it; no decider takes the  *)
(* audit of another one back.                                              *)
LEMMA DecisionAudited ==
    ASSUME GatesTyped, ApprovalsAudited, NEW d \in Deciders, Broker!Decide(d)
    PROVE  /\ GatesTyped' /\ ApprovalsAudited'
           /\ \A t \in Tickets : Audited(t) => Audited(t)'
<1> USE DEF Broker!Goto, Broker!Reply, Broker!Ticket, Broker!Decision, Broker!ticketVars
<1>1. CASE Broker!UpdateTicket(d)
  <2> USE <1>1 DEF Broker!UpdateTicket
  <2>1. request[d].ticket \in Tickets /\ request[d].decision \in {"APPROVED", "REJECTED"}
        /\ request[d] = [ticket |-> request[d].ticket, decision |-> request[d].decision]
    <3>1. request[d] \in [ticket : Tickets, decision : {"APPROVED", "REJECTED"}]
      BY DEF GatesTyped
    <3> QED
      BY <3>1
  <2>2. GatesTyped'
    BY <2>1 DEF GatesTyped
  <2>3. \A t \in Tickets : Audited(t) => Audited(t)'
    BY DEF Audited, GatesTyped
  <2>4. \A t \in Tickets : tickets'[t] = "APPROVED" =>
           tickets[t] = "APPROVED"
           \/ (request[d] = [ticket |-> t, decision |-> "APPROVED"] /\ decider'[d] = "audit")
    BY <2>1 DEF GatesTyped
  <2> QED
    BY <2>2, <2>3, <2>4 DEF ApprovalsAudited, Audited
<1>2. CASE Broker!AuditDecision(d)
  <2> USE <1>2 DEF Broker!AuditDecision
  <2>1. GatesTyped'
    BY DEF GatesTyped
  <2>2. \A t \in Tickets : Audited(t) => Audited(t)'
    BY DEF Audited, GatesTyped
  <2> QED
    BY <2>1, <2>2 DEF ApprovalsAudited
<1>3. CASE Broker!LoadTicket(d) \/ Broker!SetRunStatus(d) \/ Broker!SendTask(d)
           \/ Broker!TriggerWorker(d)
  <2> USE DEF Broker!LoadTicket, Broker!SetRunStatus, Broker!SendTask, Broker!TriggerWorker
  <2>1. /\ decider[d] \notin {"audit", "idle"} /\ UNCHANGED <<tickets, audit>>
        /\ \/ request' = request
           \/ request' = [request EXCEPT ![d] = Broker!NoRequest] /\ decider' = [decider EXCEPT ![d] = "idle"]
        /\ \E place \in {"idle", "update", "send", "trigger"} :
              decider' = [decider EXCEPT ![d] = place]
    BY <1>3
  <2>2. GatesTyped'
    BY <2>1 DEF GatesTyped
  <2>3. \A t \in Tickets : Audited(t) => Audited(t)'
    BY <2>1 DEF Audited, GatesTyped
  <2> QED
    BY <2>1, <2>2, <2>3 DEF ApprovalsAudited
<1> QED
  BY <1>1, <1>2, <1>3 DEF Broker!Decide

(* A new request decides nothing yet. *)
LEMMA RequestMade ==
    ASSUME GatesTyped, ApprovalsAudited, NEW d \in Deciders, Broker!Request(d)
    PROVE  /\ GatesTyped' /\ ApprovalsAudited'
           /\ \A t \in Tickets : Audited(t) => Audited(t)'
<1> USE DEF Broker!Request, Broker!Goto, Broker!ticketVars
<1>1. PICK t \in Tickets, decision \in {"APPROVED", "REJECTED"} :
         request' = [request EXCEPT ![d] = [ticket |-> t, decision |-> decision]]
  BY DEF Broker!Decisions
<1>2. GatesTyped'
  <2>1. [ticket |-> t, decision |-> decision].decision # Broker!NoRequest.decision
    BY DEF Broker!NoRequest
  <2> QED
    BY <1>1, <2>1 DEF GatesTyped
<1>3. \A u \in Tickets : Audited(u) => Audited(u)'
  BY <1>1 DEF Audited, GatesTyped
<1> QED
  BY <1>2, <1>3 DEF ApprovalsAudited

(* Every step of the composition keeps what is known of the gates.         *)
LEMMA GatesKept ==
    ASSUME GInv, [GatedNext]_gatedVars
    PROVE  /\ GatesTyped' /\ ApprovalsAudited'
           /\ \A t \in Tickets : Audited(t) => Audited(t)'
<1>0. GatesTyped /\ ApprovalsAudited
  BY DEF GInv
<1>1. CASE \/ UNCHANGED gatedVars \/ Portal
           \/ \E w \in Workers : Work(w) \/ RaiseStart(w) \/ RaiseReturn(w) \/ Fails(w)
  <2>1. GatesLeftAlone
    BY <1>1 DEF GatesLeftAlone, gatedVars, gateVars, Portal, Work, RaiseStart, RaiseReturn,
                Fails, Broker!StartExecution
  <2> QED
    BY <1>0, <2>1, GatesAlone
<1>2. ASSUME NEW w \in Workers, RaiseContinue(w)
      PROVE  /\ GatesTyped' /\ ApprovalsAudited'
             /\ \A t \in Tickets : Audited(t) => Audited(t)'
  <2>1. CASE Broker!AwaitHitl(ticketOf[w]) \/ Broker!NotifyRaised(ticketOf[w])
    <3>1. GatesLeftAlone
      BY <2>1 DEF GatesLeftAlone, Broker!AwaitHitl, Broker!NotifyRaised, Broker!ticketVars
    <3> QED
      BY <1>0, <3>1, GatesAlone
  <2> QED
    BY <1>0, <1>2, <2>1, TicketCreated DEF RaiseContinue
<1>3. ASSUME NEW d \in Deciders, Request(d) \/ Decide(d)
      PROVE  /\ GatesTyped' /\ ApprovalsAudited'
             /\ \A t \in Tickets : Audited(t) => Audited(t)'
  BY <1>0, <1>3, RequestMade, DecisionAudited DEF Request, Decide
<1> QED
  BY <1>1, <1>2, <1>3 DEF GatedNext

-------------------------------------------------------------------------------
(* The gated step.                                                         *)

(* A worker gets past the gate by invoke_spoke, when no gate is found, and *)
(* the run by a save of that worker.                                       *)
PastGate ==
    item.idx > GatedStep \/ \E w \in Workers : pc[w] = "save" /\ snap[w].idx = GatedStep

(* No other step takes a worker or the run past the gate.                  *)
LEMMA GatePassed ==
    ASSUME GInv, [GatedNext]_gatedVars, PastGate'
    PROVE  PastGate \/ Approved
<1>0. /\ IInv /\ TypeOK
      /\ item.idx \in Int /\ GatedStep \in Nat
  <2>1. IInv /\ TypeOK
    BY DEF GInv, IInv
  <2>2. item.idx \in Int
    BY <2>1, StepsAssumption DEF TypeOK, RunStates
  <2>3. GatedStep \in Nat
    BY GateAssumption, StepsAssumption DEF Steps
  <2> QED
    BY <2>1, <2>2, <2>3
<1> DEFINE Places == \A v \in Workers : pc'[v] = "save" => pc[v] = "save" /\ snap'[v] = snap[v]
<1>1. Places /\ item'.idx = item.idx => PastGate
  BY DEF PastGate
<1>2. CASE UNCHANGED gatedVars
  BY <1>1, <1>2 DEF gatedVars, vars, workerVars
<1>3. CASE Portal
  <2>1. Places
    BY <1>3 DEF Portal, StartInitialize, StartSave, StartRunning, StartTrigger, KillRun,
                Duplicate, workerVars
  <2>2. item'.idx = item.idx \/ item'.idx = 0
    BY <1>0, <1>3, NewRunFresh
       DEF Portal, StartInitialize, StartSave, StartRunning, StartTrigger, KillRun,
           Duplicate, Save, UpdateStatus, TypeOK, RunStates
  <2> QED
    BY <1>0, <1>1, <2>1, <2>2 DEF PastGate
<1>4. ASSUME NEW w \in Workers, Work(w) PROVE PastGate \/ Approved
  <2>1. CASE Deliver(w) \/ CheckStatus(w) \/ RouteTask(w) \/ CompleteRun(w)
    <3>1. item'.idx = item.idx
      BY <1>0, <2>1 DEF Deliver, CheckStatus, RouteTask, CompleteRun, UpdateStatus, TypeOK, RunStates
    <3>2. Places
      BY <1>0, <2>1 DEF Deliver, CheckStatus, RouteTask, CompleteRun, Return, Fail, NextIteration, TypeOK
    <3> QED
      BY <1>1, <3>1, <3>2
  <2>2. CASE SaveStep(w)
    <3>1. item'.idx = item.idx \/ (item'.idx = item.idx + 1 /\ item.idx = snap[w].idx)
      BY <1>0, <2>2, SaveStepEffect
    <3>2. Places
      BY <1>0, <2>2, SaveStepTyped
    <3>3. pc[w] = "save"
      BY <2>2 DEF SaveStep
    <3> QED
      BY <1>0, <1>1, <3>1, <3>2, <3>3 DEF PastGate
  <2>3. CASE InvokeSpoke(w) /\ ~Blocked(snap[w].idx)
    <3>1. /\ pc' = [pc EXCEPT ![w] = "save"] /\ UNCHANGED <<item, snap>>
      BY <2>3 DEF InvokeSpoke
    <3>2. snap[w].idx # GatedStep \/ Approved
      BY <2>3 DEF Blocked
    <3> QED
      BY <1>0, <3>1, <3>2 DEF PastGate, TypeOK
  <2> QED
    BY <1>4, <2>1, <2>2, <2>3 DEF Work
<1>5. ASSUME NEW w \in Workers, Fails(w) PROVE PastGate \/ Approved
  <2>0. Fail(w) /\ Forget(w) /\ item' = item
    BY <1>5 DEF Fails, WorkerFails
  <2>1. Places /\ item' = item
    <3>1. pc' = [pc EXCEPT ![w] = "idle"] /\ \A v \in Workers : v # w => snap'[v] = snap[v]
      BY <1>0, <2>0, FailTyped, ForgetTyped
    <3> QED
      BY <1>0, <2>0, <3>1 DEF TypeOK
  <2> QED
    BY <1>1, <2>1
<1>6. ASSUME NEW w \in Workers, RaiseStart(w) \/ RaiseContinue(w) \/ RaiseReturn(w)
      PROVE  PastGate \/ Approved
  <2>1. Places
    <3>1. CASE RaiseStart(w)
      BY <1>0, <3>1 DEF RaiseStart, TypeOK
    <3>2. CASE RaiseContinue(w)
      BY <3>2 DEF RaiseContinue, workerVars
    <3>3. CASE RaiseReturn(w)
      <4>1. pc' = [pc EXCEPT ![w] = "idle"] /\ \A v \in Workers : v # w => snap'[v] = snap[v]
        BY <1>0, <3>3, ForgetTyped DEF RaiseReturn, Return
      <4> QED
        BY <1>0, <4>1 DEF TypeOK
    <3> QED
      BY <1>6, <3>1, <3>2, <3>3
  <2>2. item'.idx = item.idx
    BY <1>0, <1>6, StatusWrittenFrame DEF RaiseStart, RaiseContinue, RaiseReturn
  <2> QED
    BY <1>1, <2>1, <2>2
<1>7. ASSUME NEW d \in Deciders, Request(d) \/ Decide(d) PROVE PastGate \/ Approved
  <2>1. Places
    BY <1>7 DEF Request, Decide, workerVars
  <2>2. item'.idx = item.idx
    BY <1>0, <1>7, StatusWrittenFrame DEF Request, Decide
  <2> QED
    BY <1>1, <2>1, <2>2
<1> QED
  BY <1>2, <1>3, <1>4, <1>5, <1>6, <1>7 DEF GatedNext

(* The invariant holds in every reachable state.                           *)
LEMMA GInvHolds == GatedSpec => []GInv
<1>1. ASSUME GInv, [GatedNext]_gatedVars PROVE GInv'
  <2>1. IInv' /\ GatesTyped' /\ ApprovalsAudited'
    BY <1>1, WorkerInvariantKept, GatesKept
  <2>2. PastGate \/ Approved => \E t \in Tickets : Audited(t)
    BY <1>1 DEF GInv, ApprovalsAudited, Approved, GatedStepApproved, PastGate, Audited
  <2>3. PastGate' => \E t \in Tickets : Audited(t)'
    BY <1>1, <2>2, GatePassed, GatesKept
  <2>4. GatedStepApproved'
    BY <2>3 DEF GatedStepApproved, PastGate, Audited
  <2> QED
    BY <2>1, <2>4 DEF GInv
<1> QED
  BY InitiallyG, <1>1, PTL DEF GatedSpec

(* No output of the gated step without an approval that is in the audit    *)
(* log, or about to be.                                                    *)
THEOREM GateHolds == GatedSpec => []GatedStepApproved
<1>1. GInv => GatedStepApproved
  BY DEF GInv
<1> QED
  BY <1>1, GInvHolds, PTL

(* What the worker's saves keep of the record, they keep beside a broker   *)
(* that writes the status whenever it likes.                               *)
THEOREM PrefixBesideBroker == GatedSpec => []GatedPrefix
<1>1. GInv => GatedPrefix
  BY DEF GInv, IInv, GatedPrefix
<1> QED
  BY <1>1, GInvHolds, PTL
-------------------------------------------------------------------------------
(* The composition implements the record of the run, as the worker alone   *)
(* does.                                                                   *)

(* A gate, a ticket and a decision there are only for a run that exists.   *)
RunPresent ==
    ( \/ starter = "saved"
      \/ \E w \in Workers : pc[w] = "gate"
      \/ \E t \in Tickets : tickets[t] # "none"
      \/ \E d \in Deciders : decider[d] # "idle" ) => item.exists

(* The step is one of the worker's module, or writes at most the status.   *)
LEMMA WorkerOrBroker ==
    ASSUME GatedNext
    PROVE  \/ Next
           \/ (StatusWritten \/ item' = item) /\ UNCHANGED <<basis, starter>>
<1>1. CASE Portal
  BY <1>1 DEF Portal, Next
<1>2. ASSUME NEW w \in Workers, Work(w) \/ Fails(w) PROVE Next
  BY <1>2 DEF Work, Fails, Next, Handler
<1>3. ASSUME NEW w \in Workers, RaiseStart(w) \/ RaiseContinue(w) \/ RaiseReturn(w)
      PROVE  (StatusWritten \/ item' = item) /\ UNCHANGED <<basis, starter>>
  BY <1>3 DEF RaiseStart, RaiseContinue, RaiseReturn, startVars
<1>4. ASSUME NEW d \in Deciders, Request(d) \/ Decide(d)
      PROVE  (StatusWritten \/ item' = item) /\ UNCHANGED <<basis, starter>>
  BY <1>4 DEF Request, Decide, startVars
<1> QED
  BY <1>1, <1>2, <1>3, <1>4 DEF GatedNext

(* The run, once there, stays.                                             *)
LEMMA RunStays ==
    ASSUME GInv, GatedNext, item.exists
    PROVE  item'.exists
<1>1. CASE Next
  BY <1>1, StepKeepsRecord DEF GInv
<1>2. CASE StatusWritten \/ item' = item
  BY <1>2, StatusWrittenFrame DEF GInv
<1> QED
  BY <1>1, <1>2, WorkerOrBroker

(* While there is no run there is no gate, ticket or request: only a       *)
(* worker that has read the run raises one.                                *)
LEMMA RunPresentKept ==
    ASSUME GInv, RunPresent, [GatedNext]_gatedVars
    PROVE  RunPresent'
<1>1. CASE UNCHANGED gatedVars
  BY <1>1 DEF gatedVars, gateVars, vars, startVars, workerVars, RunPresent
<1>2. CASE GatedNext /\ item.exists
  BY <1>2, RunStays DEF RunPresent
<1>3. CASE GatedNext /\ ~item.exists
  <2>1. /\ starter # "saved"
        /\ \A w \in Workers : pc[w] \notin {"gate", "invoke"}
        /\ \A t \in Tickets : tickets[t] = "none"
        /\ \A d \in Deciders : decider[d] = "idle"
    BY <1>3 DEF RunPresent, GInv, IInv, SnapshotsArePasts
  <2>2. \A w \in Workers : ~RaiseStart(w) /\ ~RaiseContinue(w) /\ ~RaiseReturn(w)
    BY <2>1 DEF RaiseStart, RaiseContinue, RaiseReturn
  <2>3. \A d \in Deciders : ~Request(d) /\ ~Decide(d)
    BY <2>1 DEF Request, Decide, Broker!Request, Broker!Decide, Broker!LoadTicket,
                Broker!UpdateTicket, Broker!AuditDecision, Broker!SetRunStatus,
                Broker!SendTask, Broker!TriggerWorker
  <2>4. CASE Portal
    <3>1. UNCHANGED <<pc, tickets, decider>>
      BY <2>4 DEF Portal, StartInitialize, StartSave, StartRunning, StartTrigger,
                  KillRun, Duplicate, gateVars, workerVars
    <3>2. starter' = "saved" => item'.exists
      <4>1. CASE StartSave
        BY <1>3, <4>1, NewRunFresh DEF StartSave, Save, SaveAccepted
      <4>2. CASE \/ StartInitialize \/ StartRunning \/ StartTrigger \/ KillRun
                 \/ Duplicate
        BY <2>1, <4>2 DEF StartInitialize, StartRunning, StartTrigger, KillRun,
                          Duplicate, startVars
      <4> QED
        BY <2>4, <4>1, <4>2 DEF Portal
    <3> QED
      BY <2>1, <3>1, <3>2 DEF RunPresent
  <2>5. ASSUME NEW w \in Workers, Work(w) \/ Fails(w) PROVE RunPresent'
    <3>1. UNCHANGED <<starter, tickets, decider>>
      BY <2>5 DEF Work, Fails, WorkerFails, Deliver, CheckStatus, RouteTask, InvokeSpoke,
                  SaveStep, CompleteRun, startVars, gateVars
    <3>2. \E place \in WorkerPC \ {"gate"} : pc' = [pc EXCEPT ![w] = place]
      BY <2>5 DEF Work, Fails, WorkerFails, Fail, Deliver, CheckStatus, RouteTask,
                  InvokeSpoke, SaveStep, CompleteRun, Return, NextIteration, WorkerPC
    <3>3. pc \in [Workers -> WorkerPC]
      BY DEF GInv, IInv, TypeOK
    <3> QED
      BY <2>1, <3>1, <3>2, <3>3 DEF RunPresent
  <2> QED
    BY <1>3, <2>2, <2>3, <2>4, <2>5 DEF GatedNext
<1> QED
  BY <1>1, <1>2, <1>3

(* A step that writes the status at most, of a run that exists, is one of  *)
(* the record that executes nothing.                                       *)
LEMMA BrokerImplements ==
    ASSUME IInv, item.exists, basis' = basis, StatusWritten,
           item'.status \in {"RUNNING", "AWAITING_HITL", "HALTED"}
              \/ item'.status = item.status
    PROVE  Record!Next \/ UNCHANGED Record!vars
<1>1. PICK st \in Statuses : item' = UpdateStatus(item, st)
  BY DEF StatusWritten
<1>2. item'.status = st
  BY <1>1, UpdateStatusFrame DEF IInv, TypeOK
<1>3. CASE st \in {"RUNNING", "AWAITING_HITL", "HALTED"}
  BY <1>1, <1>3, StatusImplements
<1>4. CASE item'.status = item.status
  BY <1>4, StatusWrittenFrame, RecordKept DEF Record!vars, StatusOf
<1> QED
  BY <1>2, <1>3, <1>4

(* Every step of the composition is one of the record, or leaves it alone. *)
LEMMA GatedStepImplements ==
    ASSUME GInv, RunPresent, [GatedNext]_gatedVars
    PROVE  [Record!Next]_(Record!vars)
<1> USE DEF GInv
<1>1. CASE UNCHANGED <<item, basis>>
  BY <1>1 DEF Record!vars, RecordOf, StatusOf
<1>2. CASE Next
  BY <1>2, StepImplements DEF RunPresent
<1>3. ASSUME NEW w \in Workers, RaiseContinue(w) PROVE Record!Next \/ UNCHANGED Record!vars
  <2>1. item.exists /\ basis' = basis /\ StatusWritten
    BY <1>3 DEF RaiseContinue, RunPresent
  <2>2. item'.status = "AWAITING_HITL" \/ item'.status = item.status
    BY <1>3 DEF RaiseContinue, Broker!CreateTicket, Broker!AwaitHitl, Broker!NotifyRaised
  <2> QED
    BY <2>1, <2>2, BrokerImplements
<1>4. ASSUME NEW d \in Deciders, Decide(d) PROVE Record!Next \/ UNCHANGED Record!vars
  <2>1. decider[d] # "idle"
    BY <1>4 DEF Decide, Broker!Decide, Broker!LoadTicket, Broker!UpdateTicket,
                Broker!AuditDecision, Broker!SetRunStatus, Broker!SendTask,
                Broker!TriggerWorker
  <2>2. item.exists /\ basis' = basis /\ StatusWritten
    BY <1>4, <2>1 DEF Decide, RunPresent
  <2>3. item'.status \in {"RUNNING", "HALTED"} \/ item'.status = item.status
    BY <1>4 DEF Decide, Broker!Decide, Broker!LoadTicket, Broker!UpdateTicket,
                Broker!AuditDecision, Broker!SetRunStatus, Broker!SendTask,
                Broker!TriggerWorker, Broker!RunStatusAfter
  <2> QED
    BY <2>2, <2>3, BrokerImplements
<1>5. \/ UNCHANGED <<item, basis>> \/ Next
      \/ \E w \in Workers : RaiseContinue(w)
      \/ \E d \in Deciders : Decide(d)
  BY DEF GatedNext, gatedVars, vars, Portal, Next, Work, Fails, Handler, RaiseStart,
         RaiseReturn, Request
<1> QED
  BY <1>1, <1>2, <1>3, <1>4, <1>5

(* Neither the gates, nor several tickets, nor the status the broker       *)
(* writes at any moment let two workers leave a record that a single       *)
(* process would not.                                                      *)
THEOREM GatedRunImplementsRecord == GatedSpec => ImplementsRecord
<1>1. GatedInit => Record!Init /\ RunPresent
  BY NewRunFresh DEF GatedInit, Init, Record!Init, RecordOf, StatusOf, RunPresent
<1>2. GInv /\ RunPresent /\ [GatedNext]_gatedVars => RunPresent'
  BY RunPresentKept
<1>3. GInv /\ RunPresent /\ [GatedNext]_gatedVars => [Record!Next]_(Record!vars)
  BY GatedStepImplements
<1> QED
  BY <1>1, <1>2, <1>3, GInvHolds, PTL DEF GatedSpec, ImplementsRecord, Record!Spec
-------------------------------------------------------------------------------
(* The composition keeps what the broker keeps, and implements its ledger: *)
(* the broker's lemmas, instantiated.                                      *)

(* The status of the run as module HitlBroker knows it: PENDING and        *)
(* COMPLETED are the worker's, and no step of the broker reads a status.   *)
SeenStatus ==
    IF item.status \in {"AWAITING_HITL", "HALTED"} THEN item.status ELSE "RUNNING"

Gates == INSTANCE HitlBrokerProofs WITH
    status <- SeenStatus, pc <- decider,
    MaxCrashes <- 0, crashes <- 0, StaleReads <- FALSE

(* The steps of raise_gate in the composition are those of the broker.     *)
LEMMA RaiseIsRaise ==
    ASSUME NEW t,
           \/ Broker!StartExecution(t) \/ Broker!CreateTicket(t)
           \/ Broker!AwaitHitl(t) \/ Broker!NotifyRaised(t)
    PROVE  Gates!RaiseGate(t)
<1> USE DEF Broker!Raised, Gates!Raised, Broker!ticketVars, Gates!ticketVars, SeenStatus
<1>1. CASE Broker!StartExecution(t)
  BY <1>1 DEF Broker!StartExecution, Gates!StartExecution, Gates!RaiseGate
<1>2. CASE Broker!CreateTicket(t)
  BY <1>2 DEF Broker!CreateTicket, Gates!CreateTicket, Gates!RaiseGate
<1>3. CASE Broker!AwaitHitl(t)
  BY <1>3 DEF Broker!AwaitHitl, Gates!AwaitHitl, Gates!RaiseGate
<1>4. CASE Broker!NotifyRaised(t)
  BY <1>4 DEF Broker!NotifyRaised, Gates!NotifyRaised, Gates!RaiseGate
<1> QED
  BY <1>1, <1>2, <1>3, <1>4

(* So are those of decide and of a request for it.                         *)
LEMMA DecideIsDecide ==
    ASSUME NEW d, Broker!Request(d) \/ Broker!Decide(d)
    PROVE  Gates!Request(d) \/ Gates!Decide(d)
<1> USE DEF Broker!Goto, Gates!Goto, Broker!Reply, Gates!Reply,
        Broker!NoRequest, Gates!NoRequest, Broker!Ticket, Gates!Ticket,
        Broker!Decision, Gates!Decision, Broker!Get, Gates!Get,
        Broker!ticketVars, Gates!ticketVars, SeenStatus
<1>1. CASE Broker!Request(d)
  BY <1>1 DEF Broker!Request, Gates!Request, Broker!Decisions, Gates!Decisions
<1>2. CASE Broker!LoadTicket(d)
  BY <1>2 DEF Broker!LoadTicket, Gates!LoadTicket, Gates!Decide
<1>3. CASE Broker!UpdateTicket(d)
  BY <1>3 DEF Broker!UpdateTicket, Gates!UpdateTicket, Gates!Decide
<1>4. CASE Broker!AuditDecision(d)
  BY <1>4 DEF Broker!AuditDecision, Gates!AuditDecision, Gates!Decide
<1>5. CASE Broker!SetRunStatus(d)
  BY <1>5 DEF Broker!SetRunStatus, Gates!SetRunStatus, Broker!RunStatusAfter,
              Gates!RunStatusAfter, Gates!Decide
<1>6. CASE Broker!SendTask(d)
  BY <1>6 DEF Broker!SendTask, Gates!SendTask, Broker!Answer, Gates!Answer, Gates!Decide
<1>7. CASE Broker!TriggerWorker(d)
  BY <1>7 DEF Broker!TriggerWorker, Gates!TriggerWorker, Gates!Decide
<1> QED
  BY <1>1, <1>2, <1>3, <1>4, <1>5, <1>6, <1>7 DEF Broker!Decide

(* A worker in raise_gate raises a ticket of the run.                      *)
RaisesTicket ==
    /\ ticketOf \in [Workers -> Tickets \cup {"none"}]
    /\ \A w \in Workers : pc[w] = "gate" => ticketOf[w] \in Tickets

(* It enters raise_gate with one, and drops it when it leaves.             *)
LEMMA RaisesTicketKept ==
    ASSUME GInv, RaisesTicket, [GatedNext]_gatedVars
    PROVE  RaisesTicket'
<1> USE DEF RaisesTicket
<1>0. pc \in [Workers -> WorkerPC]
  BY DEF GInv, IInv, TypeOK
<1>1. CASE UNCHANGED gatedVars
  BY <1>1 DEF gatedVars, vars, workerVars
<1>2. CASE Portal
  BY <1>2 DEF Portal, StartInitialize, StartSave, StartRunning, StartTrigger, KillRun,
              Duplicate, workerVars
<1>3. ASSUME NEW w \in Workers, Work(w) PROVE RaisesTicket'
  <2>1. \E place \in WorkerPC \ {"gate"} : pc' = [pc EXCEPT ![w] = place]
    BY <1>3 DEF Work, Deliver, CheckStatus, RouteTask, InvokeSpoke, Fail,
                SaveStep, CompleteRun, Return, NextIteration, WorkerPC
  <2> QED
    BY <1>0, <1>3, <2>1 DEF Work
<1>4. ASSUME NEW w \in Workers, Fails(w) \/ RaiseReturn(w) PROVE RaisesTicket'
  <2>1. pc' = [pc EXCEPT ![w] = "idle"] /\ ticketOf' = [ticketOf EXCEPT ![w] = "none"]
    BY <1>4 DEF Fails, WorkerFails, Fail, RaiseReturn, Return
  <2> QED
    BY <1>0, <2>1
<1>5. ASSUME NEW w \in Workers, RaiseStart(w) PROVE RaisesTicket'
  BY <1>0, <1>5 DEF RaiseStart
<1>6. CASE UNCHANGED <<pc, ticketOf>>
  BY <1>6
<1> QED
  BY <1>1, <1>2, <1>3, <1>4, <1>5, <1>6
     DEF GatedNext, RaiseContinue, Request, Decide, workerVars

(* What the worker does beside the broker leaves the broker's state alone. *)
BrokerAlone ==
    UNCHANGED <<tickets, execution, notified, audit, woken, raising, decider, request>>

(* Every step is one of the broker, or such a step.                        *)
LEMMA BrokerStepOrNone ==
    ASSUME RaisesTicket, [GatedNext]_gatedVars
    PROVE  \/ \E t \in Tickets : Gates!RaiseGate(t)
           \/ \E d \in Deciders : Gates!Request(d) \/ Gates!Decide(d)
           \/ BrokerAlone
<1>1. CASE \/ UNCHANGED gatedVars \/ Portal
           \/ \E w \in Workers : Work(w) \/ Fails(w) \/ RaiseReturn(w)
  BY <1>1 DEF gatedVars, gateVars, Portal, Work, Fails, RaiseReturn, BrokerAlone
<1>2. ASSUME NEW w \in Workers, RaiseStart(w) PROVE \E t \in Tickets : Gates!RaiseGate(t)
  BY <1>2, RaiseIsRaise DEF RaiseStart
<1>3. ASSUME NEW w \in Workers, RaiseContinue(w) PROVE \E t \in Tickets : Gates!RaiseGate(t)
  BY <1>3, RaiseIsRaise DEF RaiseContinue, RaisesTicket
<1>4. ASSUME NEW d \in Deciders, Request(d) \/ Decide(d)
      PROVE  Gates!Request(d) \/ Gates!Decide(d)
  BY <1>4, DecideIsDecide DEF Request, Decide
<1> QED
  BY <1>1, <1>2, <1>3, <1>4 DEF GatedNext

(* So the invariant of the broker's proofs holds here too.                 *)
LEMMA BrokerInvariantKept ==
    ASSUME Gates!BInv, RaisesTicket, [GatedNext]_gatedVars
    PROVE  Gates!BInv'
<1>1. ASSUME NEW t \in Tickets, Gates!RaiseGate(t) PROVE Gates!BInv'
  BY <1>1, Gates!RaisePreserves
<1>2. ASSUME NEW d \in Deciders, Gates!Request(d) \/ Gates!Decide(d) PROVE Gates!BInv'
  BY <1>2, Gates!DecidePreserves
<1>3. CASE BrokerAlone
  <2>1. Gates!TypeOK'
    BY <1>3 DEF BrokerAlone, Gates!BInv, Gates!TypeOK, SeenStatus
  <2>2. Gates!NotYetRaised' /\ Gates!RequestsTrack' /\ Gates!ResumedIsAudited'
    BY <1>3 DEF BrokerAlone, Gates!BInv, Gates!NotYetRaised, Gates!RequestsTrack,
                Gates!ResumedIsAudited, Gates!Ticket, Gates!Decision
  <2> QED
    BY <2>1, <2>2 DEF Gates!BInv
<1> QED
  BY <1>1, <1>2, <1>3, BrokerStepOrNone

(* In every reachable state.                                               *)
LEMMA BrokerInvariantHolds == GatedSpec => [](RaisesTicket /\ Gates!BInv)
<1>1. GatedInit => RaisesTicket
  BY DEF GatedInit, Init, RaisesTicket
<1>2. GatedInit => Gates!BInv
  BY DEF GatedInit, Gates!BInv, Gates!TypeOK, Gates!NotYetRaised, Gates!RequestsTrack,
         Gates!ResumedIsAudited, Gates!Decisions, SeenStatus, Broker!NoRequest, Gates!NoRequest
<1>3. GInv /\ RaisesTicket /\ [GatedNext]_gatedVars => RaisesTicket'
  BY RaisesTicketKept
<1>4. Gates!BInv /\ RaisesTicket /\ [GatedNext]_gatedVars => Gates!BInv'
  BY BrokerInvariantKept
<1> QED
  BY <1>1, <1>2, <1>3, <1>4, GInvHolds, PTL DEF GatedSpec

(* No blocked task is released on a decision that is not stored and        *)
(* audited, though its raise_gate is run by a worker that may die in it    *)
(* and raise another ticket when its event is delivered again.             *)
THEOREM AuditedBesideWorker == GatedSpec => []Broker!ResumedIsAudited
<1>1. Gates!BInv => Broker!ResumedIsAudited
  BY DEF Gates!BInv, Gates!ResumedIsAudited, Broker!ResumedIsAudited, Gates!Decisions,
         Broker!Decisions
<1> QED
  BY <1>1, BrokerInvariantHolds, PTL

(* The gates of the composition implement the ledger too, with every       *)
(* worker of the run raising tickets and the requests in any interleaving. *)
THEOREM GatedRunImplementsLedger == GatedSpec => Broker!ImplementsLedger
<1>1. GatedInit => Gates!Ledger!Init
  BY DEF GatedInit, Gates!Ledger!Init, Gates!Finding, Gates!Unlogged
<1>2. ASSUME Gates!BInv, RaisesTicket, [GatedNext]_gatedVars
      PROVE  [Gates!Ledger!Next]_(Gates!Ledger!vars)
  <2>1. CASE BrokerAlone
    BY <2>1 DEF BrokerAlone, Gates!Finding, Gates!Unlogged, Gates!Ticket, Gates!Decision,
                Gates!Ledger!vars
  <2>2. ASSUME NEW t \in Tickets, Gates!RaiseGate(t)
        PROVE  [Gates!Ledger!Next]_(Gates!Ledger!vars)
    BY <1>2, <2>2, Gates!RaiseLedgerStep
  <2>3. ASSUME NEW d \in Deciders, Gates!Request(d) \/ Gates!Decide(d)
        PROVE  [Gates!Ledger!Next]_(Gates!Ledger!vars)
    BY <1>2, <2>3, Gates!DecideLedgerStep
  <2> QED
    BY <1>2, <2>1, <2>2, <2>3, BrokerStepOrNone
<1>3. /\ Gates!Finding = Broker!Finding /\ (Gates!Finding = Broker!Finding)'
      /\ Gates!Unlogged = Broker!Unlogged /\ (Gates!Unlogged = Broker!Unlogged)'
  BY DEF Gates!Finding, Broker!Finding, Gates!Unlogged, Broker!Unlogged,
         Gates!Ticket, Broker!Ticket, Gates!Decision, Broker!Decision
<1>4. Gates!Ledger!Init => Broker!Ledger!Init
  BY <1>3 DEF Gates!Ledger!Init, Broker!Ledger!Init
<1>5. [Gates!Ledger!Next]_(Gates!Ledger!vars) => [Broker!Ledger!Next]_(Broker!Ledger!vars)
  <2>1. Gates!Ledger!vars = Broker!Ledger!vars /\ (Gates!Ledger!vars = Broker!Ledger!vars)'
    BY <1>3 DEF Gates!Ledger!vars, Broker!Ledger!vars
  <2>2. Gates!Ledger!Next => Broker!Ledger!Next
    BY <1>3 DEF Gates!Ledger!Next, Gates!Ledger!Wait, Gates!Ledger!Raise, Gates!Ledger!Find,
           Gates!Ledger!Decide, Gates!Ledger!Log, Gates!Ledger!Die, Gates!Ledger!Release,
           Gates!Ledger!Decisions,
           Broker!Ledger!Next, Broker!Ledger!Wait, Broker!Ledger!Raise, Broker!Ledger!Find,
           Broker!Ledger!Decide, Broker!Ledger!Log, Broker!Ledger!Die, Broker!Ledger!Release,
           Broker!Ledger!Decisions
  <2> QED
    BY <2>1, <2>2
<1> QED
  BY <1>1, <1>2, <1>4, <1>5, BrokerInvariantHolds, PTL
     DEF GatedSpec, Broker!ImplementsLedger, Broker!Ledger!Spec
===============================================================================
