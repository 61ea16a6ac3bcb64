------------------------------ MODULE HitlBroker ------------------------------
(***************************************************************************)
(* HitlApprovalBroker: raise_gate and decide, each a sequence of calls to  *)
(* different stores, for the gates of one run.  Every ticket has the one   *)
(* raise_gate call that made its id; a decider is an execution environment *)
(* of the decide_gate Lambda, which serves one request at a time.          *)
(*                                                                         *)
(* The run status is written here by the broker and by kill_run only; the  *)
(* worker's own writes are in module Supervisor.  decide's ValueErrors (a  *)
(* decision that is neither APPROVED nor REJECTED, a ticket never raised)  *)
(* change nothing and are left out.  The Step Functions execution behind a *)
(* ticket is external: it waits for its task token, takes one answer, and  *)
(* refuses a second one with an exception.                                 *)
(***************************************************************************)
EXTENDS Naturals

CONSTANTS
    Tickets,    \* tickets raised for the run
    Deciders,   \* environments of the decide_gate Lambda
    MaxCrashes, \* bound: calls that die between two of their steps
    StaleReads  \* TRUE: a GetItem may return an earlier version

ASSUME CrashesAssumption == MaxCrashes \in Nat /\ StaleReads \in BOOLEAN

Decisions == {"APPROVED", "REJECTED"}

VARIABLES
    status,     \* RunState.status
    tickets,    \* GateTicket.status; "none" before create
    execution,  \* the Step Functions execution waiting on the ticket's token
    notified,   \* tickets the portal has been notified of
    audit,      \* hitl_gate_decided events
    woken,      \* tickets after whose decision the run worker was triggered
    raising,    \* progress of each ticket's raise_gate
    pc,         \* progress of each decider's request
    request,    \* its ticket and decision
    crashes

ticketVars == <<tickets, execution, notified, audit, woken>>
vars == <<status, ticketVars, raising, pc, request, crashes>>

NoRequest == [ticket |-> "none", decision |-> "none"]

Init ==
    /\ status    = "RUNNING"
    /\ tickets   = [t \in Tickets |-> "none"]
    /\ execution = [t \in Tickets |-> "none"]
    /\ notified  = {}
    /\ audit     = {}
    /\ woken     = {}
    /\ raising   = [t \in Tickets |-> "none"]
    /\ pc        = [d \in Deciders |-> "idle"]
    /\ request   = [d \in Deciders |-> NoRequest]
    /\ crashes   = 0

-------------------------------------------------------------------------------
(* raise_gate *)

Raised(t, place) == raising' = [raising EXCEPT ![t] = place]

StartExecution(t) ==
    /\ raising[t] = "none"
    /\ execution' = [execution EXCEPT ![t] = "waiting"]
    /\ Raised(t, "started")
    /\ UNCHANGED <<status, tickets, notified, audit, woken, pc, request, crashes>>

CreateTicket(t) ==
    /\ raising[t] = "started"
    /\ tickets' = [tickets EXCEPT ![t] = "PENDING"]
    /\ Raised(t, "created")
    /\ UNCHANGED <<status, execution, notified, audit, woken, pc, request, crashes>>

AwaitHitl(t) ==
    /\ raising[t] = "created"
    /\ status' = "AWAITING_HITL"
    /\ Raised(t, "awaiting")
    /\ UNCHANGED <<ticketVars, pc, request, crashes>>

(* notify_gate_raised, then the audit event hitl_gate_raised. *)
NotifyRaised(t) ==
    /\ raising[t] = "awaiting"
    /\ notified' = notified \cup {t}
    /\ Raised(t, "done")
    /\ UNCHANGED <<status, tickets, execution, audit, woken, pc, request, crashes>>

RaiseCrash(t) ==
    /\ raising[t] \in {"started", "created", "awaiting"} /\ crashes < MaxCrashes
    /\ crashes' = crashes + 1
    /\ Raised(t, "crashed")
    /\ UNCHANGED <<status, ticketVars, pc, request>>

-------------------------------------------------------------------------------
(* decide, as the decide_gate Lambda calls it *)

Goto(d, place) == pc' = [pc EXCEPT ![d] = place]

Reply(d) == Goto(d, "idle") /\ request' = [request EXCEPT ![d] = NoRequest]

Ticket(d)   == request[d].ticket
Decision(d) == request[d].decision

(* A portal user decides a ticket; the portal lists a ticket as soon as it *)
(* is stored.                                                              *)
Request(d) ==
    /\ pc[d] = "idle"
    /\ \E t \in Tickets, decision \in Decisions :
          /\ tickets[t] # "none"
          /\ request' = [request EXCEPT ![d] = [ticket |-> t, decision |-> decision]]
    /\ Goto(d, "load")
    /\ UNCHANGED <<status, ticketVars, raising, crashes>>

(* GateTicketRepository.get does not ask for a consistent read: a version  *)
(* of the ticket from before its decision, or before its creation, may     *)
(* come back.                                                              *)
Get(t) == {tickets[t]} \cup IF StaleReads THEN {"none", "PENDING"} ELSE {}

(* Seeded fault: the decision is audited before it is stored. *)
LoadTicketAudits(d) ==
    /\ pc[d] = "load"
    /\ \E seen \in Get(Ticket(d)) :
          IF seen = "PENDING"
            THEN /\ Goto(d, "update") /\ UNCHANGED request
                 /\ audit' = audit \cup {<<Ticket(d), Decision(d)>>}
            ELSE Reply(d) /\ UNCHANGED audit
    /\ UNCHANGED <<status, tickets, execution, notified, woken, raising, crashes>>

(* The read and the PENDING check: GateAlreadyDecidedError, or the error   *)
(* for an unknown ticket, ends the call.                                   *)
LoadTicket(d) ==
    /\ pc[d] = "load"
    /\ \E seen \in Get(Ticket(d)) :
          IF seen = "PENDING"
            THEN Goto(d, "update") /\ UNCHANGED request
            ELSE Reply(d)
    /\ UNCHANGED <<status, ticketVars, raising, crashes>>

(* Seeded fault: the decision is not audited. *)
UpdateTicketUnaudited(d) ==
    /\ pc[d] = "update"
    /\ tickets' = [tickets EXCEPT ![Ticket(d)] = Decision(d)]
    /\ Goto(d, "status")
    /\ UNCHANGED <<status, execution, notified, audit, woken, raising, request, crashes>>

(* update: a PutItem conditioned on the ticket's existence alone. *)
UpdateTicket(d) ==
    /\ pc[d] = "update"
    /\ tickets' = [tickets EXCEPT ![Ticket(d)] = Decision(d)]
    /\ Goto(d, "audit")
    /\ UNCHANGED <<status, execution, notified, audit, woken, raising, request, crashes>>

AuditDecision(d) ==
    /\ pc[d] = "audit"
    /\ audit' = audit \cup {<<Ticket(d), Decision(d)>>}
    /\ Goto(d, "status")
    /\ UNCHANGED <<status, tickets, execution, notified, woken, raising, request, crashes>>

(* Seeded fault: the ticket's status is written as the run's. *)
RunStatusIsDecision(decision) == decision

RunStatusAfter(decision) == IF decision = "APPROVED" THEN "RUNNING" ELSE "HALTED"

SetRunStatus(d) ==
    /\ pc[d] = "status"
    /\ status' = RunStatusAfter(Decision(d))
    /\ Goto(d, "send")
    /\ UNCHANGED <<ticketVars, raising, request, crashes>>

Answer(decision) == IF decision = "APPROVED" THEN "succeeded" ELSE "failed"

(* send_task_success or send_task_failure; a token that was answered       *)
(* before raises, which ends the request with an error.  So does the call  *)
(* of notify_run_halted that follows a failure: the wired notifier,        *)
(* _NoOpPortalNotifier, has no such method.                                *)
SendTask(d) ==
    /\ pc[d] = "send"
    /\ \/ /\ execution[Ticket(d)] = "waiting"
          /\ execution' = [execution EXCEPT ![Ticket(d)] = Answer(Decision(d))]
          /\ IF Decision(d) = "APPROVED"
               THEN Goto(d, "trigger") /\ UNCHANGED request
               ELSE Reply(d)
       \/ /\ execution[Ticket(d)] # "waiting"
          /\ Reply(d)
          /\ UNCHANGED execution
    /\ UNCHANGED <<status, tickets, notified, audit, woken, raising, crashes>>

(* Seeded fault: the run of the ticket is not found. *)
TriggerWorkerLost(d) ==
    /\ pc[d] = "trigger"
    /\ Reply(d)
    /\ UNCHANGED <<status, ticketVars, raising, crashes>>

(* decide_gate: look the run up by the ticket, trigger its worker, answer. *)
(* A look-up that does not find the ticket triggers nothing.               *)
TriggerWorker(d) ==
    /\ pc[d] = "trigger"
    /\ \/ woken' = woken \cup {Ticket(d)}
       \/ "none" \in Get(Ticket(d)) /\ UNCHANGED woken
    /\ Reply(d)
    /\ UNCHANGED <<status, tickets, execution, notified, audit, raising, crashes>>

DecideCrash(d) ==
    /\ pc[d] # "idle" /\ crashes < MaxCrashes
    /\ crashes' = crashes + 1
    /\ Reply(d)
    /\ UNCHANGED <<status, ticketVars, raising>>

(* kill_run *)
KillRun ==
    /\ status' = "HALTED"
    /\ UNCHANGED <<ticketVars, raising, pc, request, crashes>>

-------------------------------------------------------------------------------
RaiseGate(t) ==
    StartExecution(t) \/ CreateTicket(t) \/ AwaitHitl(t) \/ NotifyRaised(t)

Decide(d) ==
    \/ LoadTicket(d)
    \/ UpdateTicket(d)
    \/ AuditDecision(d)
    \/ SetRunStatus(d)
    \/ SendTask(d)
    \/ TriggerWorker(d)

Next ==
    \/ \E t \in Tickets : RaiseGate(t) \/ RaiseCrash(t)
    \/ \E d \in Deciders : Request(d) \/ Decide(d) \/ DecideCrash(d)
    \/ KillRun

Spec == Init /\ [][Next]_vars

(* A request that is being served goes on; users, kills and crashes are    *)
(* never owed.                                                             *)
FairSpec == Spec /\ \A d \in Deciders : WF_vars(Decide(d))
-------------------------------------------------------------------------------
(* Every variable keeps to its type. *)
TypeOK ==
    /\ status \in {"RUNNING", "AWAITING_HITL", "HALTED"}
    /\ tickets \in [Tickets -> {"none", "PENDING"} \cup Decisions]
    /\ execution \in [Tickets -> {"none", "waiting", "succeeded", "failed"}]
    /\ notified \subseteq Tickets /\ woken \subseteq Tickets
    /\ audit \subseteq Tickets \X Decisions
    /\ raising \in [Tickets ->
          {"none", "started", "created", "awaiting", "done", "crashed"}]
    /\ pc \in [Deciders ->
          {"idle", "load", "update", "audit", "status", "send", "trigger"}]
    /\ request \in [Deciders -> [ticket : Tickets, decision : Decisions] \cup {NoRequest}]
    /\ crashes \in 0 .. MaxCrashes

(* Requirement 5.7, for any number of deciders in any order, with any      *)
(* crash and any late read: a task that resumes (or is failed) does so on  *)
(* a decision that is already in the audit log, of a ticket that is stored *)
(* as decided.                                                             *)
ResumedIsAudited ==
    \A t \in Tickets :
        /\ execution[t] = "succeeded" => <<t, "APPROVED">> \in audit
        /\ execution[t] = "failed"    => <<t, "REJECTED">> \in audit
        /\ execution[t] \in {"succeeded", "failed"} => tickets[t] \in Decisions

(* The broker implements the ledger of gates, whatever the requests, those *)
(* for one ticket too, interleave, whatever version of a ticket their      *)
(* reads return and whoever dies on the way: a ticket is decided only by a *)
(* request that read it as PENDING, and each such read is good for one     *)
(* decision; no decision is logged that was not stored; the blocked task   *)
(* is released once, on a logged decision and as that decision says.       *)
Finding  == {<<d, Ticket(d)>> : d \in {e \in Deciders : pc[e] = "update"}}
Unlogged == {<<d, Ticket(d), Decision(d)>> : d \in {e \in Deciders : pc[e] = "audit"}}
Ledger == INSTANCE GateLedger WITH
    Requests <- Deciders, LateReads <- StaleReads,
    ledger <- tickets, found <- Finding, unlogged <- Unlogged,
    logged <- audit, released <- execution
ImplementsLedger == Ledger!Spec

(* A stored decision takes effect: the task it blocks is released as the   *)
(* decision says, and after an approval the run's worker is triggered      *)
(* again; or an opposite decision that raced with it does, and that one is *)
(* in the audit log too.  For requests that do not die, with consistent    *)
(* reads; what becomes of the run's status is not said.                    *)
TakesEffect(t, decision) ==
    /\ execution[t] = Answer(decision)
    /\ decision = "APPROVED" => t \in woken
DecidedTakesEffect ==
    \A t \in Tickets, decision \in Decisions :
        tickets[t] = decision ~>
            \/ TakesEffect(t, decision)
            \/ \E other \in Decisions \ {decision} :
                  <<t, other>> \in audit /\ TakesEffect(t, other)

(* Contradicted: decide on a ticket that is not PENDING is rejected        *)
(* (Requirement 5.4).  A stored decision is never replaced.                *)
DecidedOnce ==
    [][\A t \in Tickets : tickets[t] \in Decisions => tickets'[t] = tickets[t]]_vars
===============================================================================
