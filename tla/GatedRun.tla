------------------------------- MODULE GatedRun -------------------------------
(***************************************************************************)
(* The composition: the worker of module Supervisor, whose pipeline raises *)
(* a gate before one step of the run, and the broker of module HitlBroker, *)
(* whose decisions write the same RunState item and wake the worker.       *)
(*                                                                         *)
(* invoke_spoke asks the gate resolver before it calls the agent.  The     *)
(* resolver is the caller's: here it finds the gate of GatedStep until a   *)
(* ticket of the run is stored as APPROVED, which is the only way the code *)
(* leaves it to let a run go on.  (The wired one finds no gate at all.)    *)
(* Reads are consistent and the portal's Lambdas do not die here; modules  *)
(* Supervisor and HitlBroker have those.                                   *)
(***************************************************************************)
EXTENDS Supervisor

CONSTANTS
    GatedStep,  \* the step whose task type must clear a gate
    Tickets,    \* bound: tickets the run may raise
    Deciders    \* environments of the decide_gate Lambda

ASSUME GateAssumption == GatedStep \in Steps

VARIABLES
    tickets, execution, notified, audit, woken, raising,  \* as in HitlBroker
    decider,   \* progress of each decider's request (its pc)
    request,
    ticketOf   \* the ticket whose raise_gate a worker is in

Broker == INSTANCE HitlBroker WITH
    status <- item.status, pc <- decider,
    MaxCrashes <- 0, crashes <- 0, StaleReads <- FALSE

gateVars == <<tickets, execution, notified, audit, woken, raising, decider, request>>
gatedVars == <<vars, gateVars, ticketOf>>

GatedInit ==
    /\ Init
    /\ tickets   = [t \in Tickets |-> "none"]
    /\ execution = [t \in Tickets |-> "none"]
    /\ notified  = {} /\ audit = {} /\ woken = {}
    /\ raising   = [t \in Tickets |-> "none"]
    /\ decider   = [d \in Deciders |-> "idle"]
    /\ request   = [d \in Deciders |-> Broker!NoRequest]
    /\ ticketOf  = [w \in Workers |-> "none"]

(* find_blocking_gate: see the head of the module. *)
Approved == \E t \in Tickets : tickets[t] = "APPROVED"

(* Seeded fault: a gate blocks only while nobody has decided. *)
BlockedWhilePending(s) == s = GatedStep /\ \A t \in Tickets : tickets[t] \in {"none", "PENDING"}

Blocked(s) == s = GatedStep /\ ~Approved

-------------------------------------------------------------------------------
(* A step of the broker writes at most the status of the item. *)
StatusWritten == \E status \in Statuses : item' = UpdateStatus(item, status)

(* invoke_spoke finds the gate and calls raise_gate. *)
RaiseStart(w) ==
    /\ pc[w] = "invoke" /\ Blocked(snap[w].idx)
    /\ \E t \in Tickets :
          /\ item' = item /\ Broker!StartExecution(t)
          /\ ticketOf' = [ticketOf EXCEPT ![w] = t]
    /\ pc' = [pc EXCEPT ![w] = "gate"]
    /\ UNCHANGED <<stale, basis, startVars, queueVars, iter, snap, out>>

RaiseContinue(w) ==
    /\ pc[w] = "gate"
    /\ StatusWritten
    /\ \/ Broker!CreateTicket(ticketOf[w])
       \/ Broker!AwaitHitl(ticketOf[w])
       \/ Broker!NotifyRaised(ticketOf[w])
    /\ UNCHANGED <<stale, basis, startVars, queueVars, workerVars, ticketOf>>

(* The PARTIAL result: route_task leaves the run alone, the handler ends.  *)
RaiseReturn(w) ==
    /\ pc[w] = "gate" /\ raising[ticketOf[w]] = "done"
    /\ Return(w) /\ Forget(w)
    /\ ticketOf' = [ticketOf EXCEPT ![w] = "none"]
    /\ UNCHANGED <<item, stale, basis, startVars, queueVars, iter, gateVars>>

(* Every other step of a worker. *)
Work(w) ==
    /\ \/ Deliver(w) \/ CheckStatus(w) \/ RouteTask(w) \/ SaveStep(w) \/ CompleteRun(w)
       \/ ~Blocked(snap[w].idx) /\ InvokeSpoke(w)
    /\ UNCHANGED <<gateVars, ticketOf>>

(* The worker fails, in raise_gate too: what it has raised stands. *)
Fails(w) ==
    /\ WorkerFails(w)
    /\ ticketOf' = [ticketOf EXCEPT ![w] = "none"]
    /\ UNCHANGED gateVars

-------------------------------------------------------------------------------
(* A request for a ticket, and its service; what wakes the worker is one   *)
(* more event for it.                                                      *)
Request(d) ==
    /\ item' = item /\ Broker!Request(d)
    /\ UNCHANGED <<stale, basis, startVars, queueVars, workerVars, ticketOf>>

(* Seeded fault: a run that is RUNNING is taken to have a worker. *)
WakesUnlessRunning == woken' # woken /\ item.status # "RUNNING"

Wakes == woken' # woken

Decide(d) ==
    /\ StatusWritten
    /\ Broker!Decide(d)
    /\ events' = IF Wakes THEN events + 1 ELSE events
    /\ UNCHANGED <<stale, basis, startVars, retries, abandoned, workerVars, ticketOf>>

Portal ==
    /\ \/ StartInitialize \/ StartSave \/ StartRunning \/ StartTrigger
       \/ KillRun
       \/ Duplicate
    /\ UNCHANGED <<gateVars, ticketOf>>

GatedNext ==
    \/ Portal
    \/ \E w \in Workers : Work(w) \/ RaiseStart(w) \/ RaiseContinue(w) \/ RaiseReturn(w) \/ Fails(w)
    \/ \E d \in Deciders : Request(d) \/ Decide(d)

GatedSpec == GatedInit /\ [][GatedNext]_gatedVars

(* Events are delivered, and what has begun goes on. *)
GatedFairSpec ==
    /\ GatedSpec
    /\ \A w \in Workers : WF_gatedVars(Work(w) \/ RaiseStart(w) \/ RaiseContinue(w) \/ RaiseReturn(w))
    /\ \A d \in Deciders : WF_gatedVars(Decide(d))
-------------------------------------------------------------------------------
(* The gate holds in the composition, though update_status overwrites the  *)
(* status of every other writer: whatever AWAITING_HITL, RUNNING or HALTED *)
(* several tickets, a kill and the saves of racing workers leave on the    *)
(* item, no output of the gated step is recorded, or even computed, unless *)
(* a ticket of the run was approved, and that is in the audit log or about *)
(* to be.                                                                  *)
GatedStepApproved ==
    item.idx > GatedStep \/ (\E w \in Workers : pc[w] = "save" /\ snap[w].idx = GatedStep) =>
        \E t \in Tickets :
            \/ <<t, "APPROVED">> \in audit
            \/ \E d \in Deciders :
                  decider[d] = "audit" /\ request[d] = [ticket |-> t, decision |-> "APPROVED"]

(* What is recorded is a whole prefix whatever the broker writes between   *)
(* a worker's read and its save (RecordedPrefix), and COMPLETED, which a   *)
(* late decision may overwrite, is still never early.                      *)
GatedPrefix == RecordedPrefix /\ CompletedMeansAllRecorded

(* An approval is not lost on its way through the stores, the task token,  *)
(* the event and the worker: in a run that is never halted (killed, or     *)
(* another of its tickets rejected) the gated step is recorded in the end, *)
(* or the service gave an event up.  Not even the AWAITING_HITL that a     *)
(* raise_gate still under way writes over the approval's RUNNING stops it. *)
(* (A kill in between does: the same AWAITING_HITL then hides HALTED.)     *)
ApprovedRunGoesOn ==
    [](item.status # "HALTED") => (Approved ~> (item.idx > GatedStep \/ abandoned))
===============================================================================
