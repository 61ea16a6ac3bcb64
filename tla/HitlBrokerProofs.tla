--------------------------- MODULE HitlBrokerProofs ---------------------------
(***************************************************************************)
(* What the broker keeps for any number of tickets, deciders and crashes,  *)
(* and that it implements the ledger of gates, whatever interleaves and    *)
(* whatever its reads miss.                                                *)
(***************************************************************************)
EXTENDS HitlBroker, TLAPS

(* A ticket that is not created yet is absent, and its wait is not over.   *)
NotYetRaised ==
    \A t \in Tickets :
        /\ raising[t] = "none" => tickets[t] = "none" /\ execution[t] = "none"
        /\ raising[t] = "started" => tickets[t] = "none" /\ execution[t] = "waiting"

(* A request is about a stored ticket; past its write the ticket is        *)
(* decided, and past its audit event the decision is in the audit log.     *)
RequestsTrack ==
    \A d \in Deciders :
        /\ pc[d] # "idle" =>
              /\ Ticket(d) \in Tickets /\ Decision(d) \in Decisions
              /\ tickets[Ticket(d)] # "none"
        /\ pc[d] \in {"audit", "status", "send", "trigger"} =>
              tickets[Ticket(d)] \in Decisions
        /\ pc[d] \in {"status", "send", "trigger"} =>
              <<Ticket(d), Decision(d)>> \in audit

BInv == TypeOK /\ NotYetRaised /\ RequestsTrack /\ ResumedIsAudited
-------------------------------------------------------------------------------
(* The actions of raise_gate keep the invariant: only CreateTicket writes  *)
(* a ticket, and only one that was not there.                              *)
LEMMA RaisePreserves ==
    ASSUME BInv, NEW t \in Tickets, RaiseGate(t) \/ RaiseCrash(t)
    PROVE  BInv'
<1> USE DEF Raised
<1>1. TypeOK'
  <2>1. CASE StartExecution(t)
    BY <2>1 DEF BInv, TypeOK, StartExecution
  <2>2. CASE CreateTicket(t)
    BY <2>2 DEF BInv, TypeOK, CreateTicket
  <2>3. CASE AwaitHitl(t)
    BY <2>3 DEF BInv, TypeOK, AwaitHitl, ticketVars
  <2>4. CASE NotifyRaised(t)
    BY <2>4 DEF BInv, TypeOK, NotifyRaised
  <2>5. CASE RaiseCrash(t)
    BY <2>5, CrashesAssumption DEF BInv, TypeOK, RaiseCrash, ticketVars
  <2> QED
    BY <2>1, <2>2, <2>3, <2>4, <2>5 DEF RaiseGate
<1>2. NotYetRaised'
  <2>1. CASE StartExecution(t)
    BY <2>1 DEF BInv, TypeOK, NotYetRaised, StartExecution
  <2>2. CASE CreateTicket(t)
    BY <2>2 DEF BInv, TypeOK, NotYetRaised, CreateTicket
  <2>3. CASE AwaitHitl(t) \/ NotifyRaised(t) \/ RaiseCrash(t)
    BY <2>3 DEF BInv, TypeOK, NotYetRaised, AwaitHitl, NotifyRaised, RaiseCrash, ticketVars
  <2> QED
    BY <2>1, <2>2, <2>3 DEF RaiseGate
<1>3. RequestsTrack'
  <2>1. UNCHANGED <<pc, request, audit>>
    BY DEF RaiseGate, StartExecution, CreateTicket, AwaitHitl, NotifyRaised, RaiseCrash, ticketVars
  <2>2. \/ UNCHANGED tickets
        \/ tickets[t] = "none" /\ tickets' = [tickets EXCEPT ![t] = "PENDING"]
    BY DEF BInv, NotYetRaised, RaiseGate, StartExecution, CreateTicket, AwaitHitl,
           NotifyRaised, RaiseCrash, ticketVars
  <2> QED
    BY <2>1, <2>2 DEF BInv, TypeOK, RequestsTrack, Ticket, Decision, Decisions
<1>4. ResumedIsAudited'
  BY DEF BInv, TypeOK, NotYetRaised, ResumedIsAudited, RaiseGate, StartExecution,
         CreateTicket, AwaitHitl, NotifyRaised, RaiseCrash, ticketVars
<1> QED
  BY <1>1, <1>2, <1>3, <1>4 DEF BInv

(* So do the actions of decide, at every place it may have reached.        *)
LEMMA DecidePreserves ==
    ASSUME BInv, NEW d \in Deciders, Request(d) \/ Decide(d) \/ DecideCrash(d)
    PROVE  BInv'
<1> USE DEF Goto, Reply
<1> DEFINE t == Ticket(d)
<1>1. TypeOK'
  <2>1. CASE Request(d)
    BY <2>1 DEF BInv, TypeOK, Request, ticketVars, Decisions
  <2>2. CASE LoadTicket(d)
    BY <2>2 DEF BInv, TypeOK, LoadTicket, ticketVars
  <2>3. CASE UpdateTicket(d)
    BY <2>3 DEF BInv, TypeOK, RequestsTrack, UpdateTicket
  <2>4. CASE AuditDecision(d)
    BY <2>4 DEF BInv, TypeOK, RequestsTrack, AuditDecision
  <2>5. CASE SetRunStatus(d)
    BY <2>5 DEF BInv, TypeOK, SetRunStatus, RunStatusAfter, ticketVars
  <2>6. CASE SendTask(d)
    BY <2>6 DEF BInv, TypeOK, RequestsTrack, SendTask, Answer
  <2>7. CASE TriggerWorker(d)
    BY <2>7 DEF BInv, TypeOK, RequestsTrack, TriggerWorker
  <2>8. CASE DecideCrash(d)
    BY <2>8, CrashesAssumption DEF BInv, TypeOK, DecideCrash, ticketVars
  <2> QED
    BY <2>1, <2>2, <2>3, <2>4, <2>5, <2>6, <2>7, <2>8 DEF Decide
<1>2. NotYetRaised'
  <2>1. CASE UpdateTicket(d)
    BY <2>1 DEF BInv, TypeOK, NotYetRaised, RequestsTrack, UpdateTicket
  <2>2. CASE SendTask(d)
    BY <2>2 DEF BInv, TypeOK, NotYetRaised, RequestsTrack, SendTask
  <2>3. CASE UNCHANGED <<tickets, execution, raising>>
    BY <2>3 DEF BInv, NotYetRaised
  <2> QED
    BY <2>1, <2>2, <2>3
       DEF Decide, Request, LoadTicket, AuditDecision, SetRunStatus, TriggerWorker,
           DecideCrash, ticketVars
<1>3. RequestsTrack'
  <2>1. CASE Request(d)
    BY <2>1 DEF BInv, TypeOK, RequestsTrack, Request, Ticket, Decision, ticketVars
  <2>2. CASE LoadTicket(d) \/ SetRunStatus(d) \/ TriggerWorker(d) \/ DecideCrash(d)
    BY <2>2 DEF BInv, TypeOK, RequestsTrack, LoadTicket, SetRunStatus, TriggerWorker,
                DecideCrash, Ticket, Decision, ticketVars
  <2>3. CASE UpdateTicket(d)
    BY <2>3 DEF BInv, TypeOK, RequestsTrack, UpdateTicket, Ticket, Decision, Decisions
  <2>4. CASE AuditDecision(d)
    BY <2>4 DEF BInv, TypeOK, RequestsTrack, AuditDecision, Ticket, Decision
  <2>5. CASE SendTask(d)
    BY <2>5 DEF BInv, TypeOK, RequestsTrack, SendTask, Ticket, Decision
  <2> QED
    BY <2>1, <2>2, <2>3, <2>4, <2>5 DEF Decide
<1>4. ResumedIsAudited'
  <2>1. CASE UpdateTicket(d)
    BY <2>1 DEF BInv, TypeOK, RequestsTrack, ResumedIsAudited, UpdateTicket
  <2>2. CASE AuditDecision(d)
    BY <2>2 DEF BInv, ResumedIsAudited, AuditDecision
  <2>3. CASE SendTask(d)
    BY <2>3 DEF BInv, TypeOK, RequestsTrack, ResumedIsAudited, SendTask, Answer, Decisions
  <2>4. CASE UNCHANGED <<tickets, execution, audit>>
    BY <2>4 DEF BInv, ResumedIsAudited
  <2> QED
    BY <2>1, <2>2, <2>3, <2>4
       DEF Decide, Request, LoadTicket, SetRunStatus, TriggerWorker, DecideCrash, ticketVars
<1> QED
  BY <1>1, <1>2, <1>3, <1>4 DEF BInv

(* The invariant holds in every reachable state.                           *)
LEMMA BInvHolds == Spec => []BInv
<1>1. Init => BInv
  BY CrashesAssumption
     DEF Init, BInv, TypeOK, NotYetRaised, RequestsTrack, ResumedIsAudited, Decisions
<1>2. ASSUME BInv, [Next]_vars PROVE BInv'
  <2>1. CASE UNCHANGED vars
    BY <1>2, <2>1 DEF BInv, TypeOK, NotYetRaised, RequestsTrack, ResumedIsAudited, vars,
                      ticketVars, Ticket, Decision
  <2>2. CASE KillRun
    BY <1>2, <2>2 DEF BInv, TypeOK, NotYetRaised, RequestsTrack, ResumedIsAudited, KillRun,
                      ticketVars, Ticket, Decision
  <2> QED
    BY <1>2, <2>1, <2>2, RaisePreserves, DecidePreserves DEF Next
<1> QED
  BY <1>1, <1>2, PTL DEF Spec

(* Every reachable state is well typed.                                    *)
THEOREM BrokerTypeCorrect == Spec => []TypeOK
<1>1. BInv => TypeOK
  BY DEF BInv
<1> QED
  BY <1>1, BInvHolds, PTL

(* No blocked task resumes, or is failed, on a decision that is not stored *)
(* and in the audit log.                                                   *)
THEOREM ResumptionIsAudited == Spec => []ResumedIsAudited
<1>1. BInv => ResumedIsAudited
  BY DEF BInv
<1> QED
  BY <1>1, BInvHolds, PTL
-------------------------------------------------------------------------------
(* The refinement                                                          *)

(* A step of one request moves that request's entries and no other's.      *)
LEMMA EntriesMoved ==
    ASSUME NEW d \in Deciders,
           \A e \in Deciders \ {d} : pc'[e] = pc[e] /\ request'[e] = request[e]
    PROVE  /\ pc'[d] # "update" => Finding' = {f \in Finding : f[1] # d}
           /\ pc'[d] = "update" =>
                 Finding' = {f \in Finding : f[1] # d} \cup {<<d, Ticket(d)'>>}
           /\ pc'[d] # "audit" => Unlogged' = {u \in Unlogged : u[1] # d}
           /\ pc'[d] = "audit" =>
                 Unlogged' = {u \in Unlogged : u[1] # d} \cup {<<d, Ticket(d)', Decision(d)'>>}
BY DEF Finding, Unlogged, Ticket, Decision

(* A request has an entry only where it stands.                            *)
LEMMA EntriesAbsent ==
    ASSUME NEW d \in Deciders
    PROVE  /\ pc[d] # "update" => {f \in Finding : f[1] # d} = Finding
           /\ pc[d] # "audit" => {u \in Unlogged : u[1] # d} = Unlogged
           /\ pc[d] = "update" =>
                 /\ <<d, Ticket(d)>> \in Finding
                 /\ {f \in Finding : f[1] # d} = Finding \ {<<d, Ticket(d)>>}
           /\ pc[d] = "audit" =>
                 /\ <<d, Ticket(d), Decision(d)>> \in Unlogged
                 /\ {u \in Unlogged : u[1] # d} =
                       Unlogged \ {<<d, Ticket(d), Decision(d)>>}
BY DEF Finding, Unlogged

(* Steps beside the requests leave the entries alone.                      *)
LEMMA EntriesKept ==
    ASSUME UNCHANGED <<pc, request>>
    PROVE  UNCHANGED <<Finding, Unlogged>>
BY DEF Finding, Unlogged, Ticket, Decision

(* Each step of raise_gate is a step of the ledger, or none.               *)
LEMMA RaiseLedgerStep ==
    ASSUME BInv, NEW t \in Tickets, RaiseGate(t) \/ RaiseCrash(t)
    PROVE  Ledger!Next \/ UNCHANGED Ledger!vars
<1>0. UNCHANGED <<Finding, Unlogged>>
  BY EntriesKept DEF RaiseGate, StartExecution, CreateTicket, AwaitHitl, NotifyRaised, RaiseCrash
<1>1. CASE StartExecution(t)
  <2>1. Ledger!Wait(t)
    BY <1>0, <1>1 DEF StartExecution, Ledger!Wait, BInv, NotYetRaised
  <2> QED
    BY <2>1 DEF Ledger!Next
<1>2. CASE CreateTicket(t)
  <2>1. Ledger!Raise(t)
    BY <1>0, <1>2 DEF CreateTicket, Ledger!Raise, BInv, NotYetRaised
  <2> QED
    BY <2>1 DEF Ledger!Next
<1>3. CASE AwaitHitl(t) \/ NotifyRaised(t) \/ RaiseCrash(t)
  BY <1>0, <1>3 DEF AwaitHitl, NotifyRaised, RaiseCrash, ticketVars, Ledger!vars
<1> QED
  BY <1>1, <1>2, <1>3 DEF RaiseGate

(* So is each step of a request, at every place it may have reached.       *)
LEMMA DecideLedgerStep ==
    ASSUME BInv, NEW d \in Deciders, Request(d) \/ Decide(d) \/ DecideCrash(d)
    PROVE  Ledger!Next \/ UNCHANGED Ledger!vars
<1> USE DEF Goto, Reply
<1> DEFINE t == Ticket(d)
           decision == Decision(d)
<1>1. \A e \in Deciders \ {d} : pc'[e] = pc[e] /\ request'[e] = request[e]
  BY DEF Request, Decide, LoadTicket, UpdateTicket, AuditDecision, SetRunStatus, SendTask,
         TriggerWorker, DecideCrash, BInv, TypeOK
<1>2. pc[d] # "idle" => /\ t \in Tickets /\ decision \in Ledger!Decisions
                        /\ tickets[t] # "none"
  BY DEF BInv, RequestsTrack, Decisions, Ledger!Decisions
<1>3. ASSUME pc[d] \notin {"update", "audit"}, pc'[d] \notin {"update", "audit"}
      PROVE  UNCHANGED <<Finding, Unlogged>>
  BY <1>1, <1>3, EntriesMoved, EntriesAbsent
<1>4. CASE Request(d) \/ SetRunStatus(d) \/ TriggerWorker(d)
  <2>1. UNCHANGED <<Finding, Unlogged>>
    BY <1>3, <1>4 DEF Request, SetRunStatus, TriggerWorker, BInv, TypeOK
  <2> QED
    BY <1>4, <2>1 DEF Request, SetRunStatus, TriggerWorker, ticketVars, Ledger!vars
<1>5. CASE LoadTicket(d)
  <2>1. CASE pc'[d] # "update"
    <3>1. UNCHANGED <<Finding, Unlogged>>
      BY <1>3, <1>5, <2>1 DEF LoadTicket, BInv, TypeOK
    <3> QED
      BY <1>5, <3>1 DEF LoadTicket, ticketVars, Ledger!vars
  <2>2. CASE pc'[d] = "update"
    <3>1. pc[d] = "load" /\ UNCHANGED ticketVars /\ "PENDING" \in Get(t) /\ UNCHANGED request
      BY <1>5, <2>2 DEF LoadTicket, BInv, TypeOK
    <3>2. Finding' = Finding \cup {<<d, t>>} /\ Unlogged' = Unlogged
      BY <1>1, <2>2, <3>1, EntriesMoved, EntriesAbsent DEF Ticket
    <3>3. tickets[t] = "PENDING" \/ (StaleReads /\ tickets[t] \in Ledger!Decisions)
      BY <1>2, <3>1 DEF Get, BInv, TypeOK, Decisions, Ledger!Decisions
    <3>4. Ledger!Find(d, t)
      BY <3>1, <3>2, <3>3 DEF Ledger!Find, ticketVars
    <3> QED
      BY <1>2, <3>1, <3>4 DEF Ledger!Next
  <2> QED
    BY <2>1, <2>2
<1>6. CASE UpdateTicket(d)
  <2>1. pc[d] = "update" /\ pc'[d] = "audit" /\ UNCHANGED <<request, execution, audit>>
        /\ tickets' = [tickets EXCEPT ![t] = decision]
    BY <1>6 DEF UpdateTicket, BInv, TypeOK
  <2>2. <<d, t>> \in Finding /\ Finding' = Finding \ {<<d, t>>}
        /\ Unlogged' = Unlogged \cup {<<d, t, decision>>}
    BY <1>1, <2>1, EntriesMoved, EntriesAbsent DEF Ticket, Decision
  <2>3. Ledger!Decide(d, t, decision)
    BY <2>1, <2>2 DEF Ledger!Decide
  <2> HIDE DEF t, decision
  <2> QED
    BY <1>2, <2>1, <2>3 DEF Ledger!Next
<1>7. CASE AuditDecision(d)
  <2>1. pc[d] = "audit" /\ pc'[d] = "status" /\ UNCHANGED <<request, execution, tickets>>
        /\ audit' = audit \cup {<<t, decision>>}
    BY <1>7 DEF AuditDecision, BInv, TypeOK
  <2>2. <<d, t, decision>> \in Unlogged /\ Unlogged' = Unlogged \ {<<d, t, decision>>}
        /\ Finding' = Finding
    BY <1>1, <2>1, EntriesMoved, EntriesAbsent
  <2>3. Ledger!Log(d, t, decision)
    BY <2>1, <2>2 DEF Ledger!Log
  <2> HIDE DEF t, decision
  <2> QED
    BY <1>2, <2>1, <2>3 DEF Ledger!Next
<1>8. CASE SendTask(d)
  <2>1. pc[d] = "send" /\ UNCHANGED <<tickets, audit>> /\ UNCHANGED <<Finding, Unlogged>>
    BY <1>3, <1>8 DEF SendTask, BInv, TypeOK
  <2>2. CASE execution[t] = "waiting" /\ execution' = [execution EXCEPT ![t] = Answer(decision)]
    <3>1. <<t, decision>> \in audit
      BY <2>1 DEF BInv, RequestsTrack
    <3>2. Ledger!Release(t, decision)
      BY <2>1, <2>2, <3>1 DEF Ledger!Release, Answer
    <3> HIDE DEF t, decision
    <3> QED
      BY <1>2, <2>1, <3>2 DEF Ledger!Next
  <2>3. CASE UNCHANGED execution
    BY <2>1, <2>3 DEF Ledger!vars
  <2> QED
    BY <1>8, <2>2, <2>3 DEF SendTask
<1>9. CASE DecideCrash(d)
  <2>1. pc'[d] = "idle" /\ UNCHANGED ticketVars
    BY <1>9 DEF DecideCrash, BInv, TypeOK
  <2>2. Finding' = {f \in Finding : f[1] # d} /\ Unlogged' = {u \in Unlogged : u[1] # d}
    BY <1>1, <2>1, EntriesMoved
  <2>3. Ledger!Die(d)
    BY <2>1, <2>2 DEF Ledger!Die, ticketVars
  <2> QED
    BY <2>3 DEF Ledger!Next
<1> QED
  BY <1>4, <1>5, <1>6, <1>7, <1>8, <1>9 DEF Decide

(* Each step of the broker is a step of the ledger, or none.               *)
LEMMA LedgerStep ==
    ASSUME BInv, [Next]_vars
    PROVE  [Ledger!Next]_(Ledger!vars)
<1>1. CASE UNCHANGED vars \/ KillRun
  <2>1. UNCHANGED <<Finding, Unlogged, ticketVars>>
    BY <1>1, EntriesKept DEF vars, KillRun
  <2> QED
    BY <2>1 DEF ticketVars, Ledger!vars
<1> QED
  BY <1>1, RaiseLedgerStep, DecideLedgerStep DEF Next

(* The ledger begins empty.                                                *)
LEMMA LedgerInit == Init => Ledger!Init
BY DEF Init, Ledger!Init, Finding, Unlogged

(* The broker implements the ledger, for any number of tickets and         *)
(* deciders, in any interleaving, with consistent or late reads, whatever  *)
(* dies on the way.                                                        *)
THEOREM BrokerImplementsLedger == Spec => ImplementsLedger
<1> QED
  BY LedgerInit, LedgerStep, BInvHolds, PTL DEF Spec, ImplementsLedger, Ledger!Spec
===============================================================================
