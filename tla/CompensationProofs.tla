-------------------------- MODULE CompensationProofs --------------------------
(***************************************************************************)
(* The compensation uses the broker and nothing but the broker, so what is *)
(* proved of the broker holds under it; and nothing is destroyed without a *)
(* stored approval, nor with its own gate without a failure on record, for *)
(* any number of deployments, gates, deciders, resumers and crashes, and   *)
(* with late reads.                                                        *)
(***************************************************************************)
EXTENDS Compensation, HitlBrokerProofs

(* The specification of the broker, step by step.                          *)
THEOREM CompensationImplementsBroker == CompensationSpec => Spec
<1>1. CompensationInit => Init
  BY DEF CompensationInit
<1>2. [CompensationNext]_compensationVars => [Next]_vars
  <2>1. UNCHANGED compensationVars => UNCHANGED vars
    BY DEF compensationVars
  <2>2. BrokerStep => Next
    BY DEF BrokerStep, Next, RaiseGate
  <2>3. ASSUME NEW s \in Deployments, RunChecks(s) \/ ReportChecks(s)
        PROVE  UNCHANGED vars
    BY <2>3 DEF RunChecks, ReportChecks
  <2>4. ASSUME (\E s \in Deployments : Compensate(s)) \/ \E t \in Tickets : RaiseOther(t)
        PROVE  Next
    BY <2>4 DEF Compensate, RaiseOther, RaiseFor, Next, RaiseGate
  <2>5. ASSUME NEW r \in Resumers, ReadTicket(r) \/ Resume(r)
        PROVE  UNCHANGED vars
    BY <2>5 DEF ReadTicket, Resume
  <2> QED
    BY <2>1, <2>2, <2>3, <2>4, <2>5 DEF CompensationNext
<1> QED
  BY <1>1, <1>2, PTL DEF CompensationSpec, Spec

(* What the broker keeps it keeps here.                                    *)
THEOREM AuditedUnderCompensation == CompensationSpec => []ResumedIsAudited
  BY CompensationImplementsBroker, ResumptionIsAudited, PTL
-------------------------------------------------------------------------------
(* A ticket has a purpose from the moment raise_gate begins, and that of a *)
(* compensation is a failure on record.                                    *)
GatesTrack ==
    /\ \A s \in Deployments : smoke[s] = "alert" => <<s, "failed">> \in reports
    /\ \A t \in Tickets :
          /\ raising[t] # "none" => purpose[t] # "none"
          /\ purpose[t] \in Deployments => <<purpose[t], "failed">> \in reports

(* Whoever holds a ticket as APPROVED holds one that was stored so, and a  *)
(* ticket that was ever approved has been raised.                          *)
ApprovalsTrack ==
    /\ \A t \in Tickets : tickets[t] = "APPROVED" => t \in approved
    /\ \A t \in approved : purpose[t] # "none"
    /\ \A r \in Resumers :
          snapshot[r].status = "APPROVED" => snapshot[r].ticket \in approved

CInv == BInv /\ CompensationTypeOK /\ GatesTrack /\ ApprovalsTrack /\ DestroyedOnlyIfApproved

(* A step of the broker other than the beginning of raise_gate.            *)
LEMMA BrokerStepPreserves ==
    ASSUME CInv, BInv', BrokerStep, UNCHANGED ciVars,
           approved' = approved \cup {t \in Tickets : tickets'[t] = "APPROVED"}
    PROVE  CInv'
<1> USE DEF CInv, ciVars
<1>1. CompensationTypeOK'
  BY DEF CompensationTypeOK
<1>2. \A t \in Tickets : raising'[t] # "none" => raising[t] # "none"
  <2>1. ASSUME NEW u \in Tickets, CreateTicket(u) \/ AwaitHitl(u) \/ NotifyRaised(u) \/ RaiseCrash(u)
        PROVE  \A t \in Tickets : raising'[t] # "none" => raising[t] # "none"
    BY <2>1 DEF CreateTicket, AwaitHitl, NotifyRaised, RaiseCrash, Raised, BInv, TypeOK
  <2>2. ASSUME NEW d \in Deciders, Request(d) \/ Decide(d) \/ DecideCrash(d)
        PROVE  UNCHANGED raising
    BY <2>2 DEF Request, Decide, LoadTicket, UpdateTicket, AuditDecision, SetRunStatus,
                SendTask, TriggerWorker, DecideCrash
  <2> QED
    BY <2>1, <2>2 DEF BrokerStep, KillRun
<1>3. GatesTrack'
  BY <1>2 DEF GatesTrack
<1>4. ApprovalsTrack'
  <2>1. \A t \in Tickets : tickets'[t] = "APPROVED" => raising'[t] # "none"
    BY DEF BInv, NotYetRaised
  <2>2. \A t \in Tickets : tickets'[t] = "APPROVED" => purpose'[t] # "none"
    BY <1>2, <2>1 DEF GatesTrack
  <2> QED
    BY <2>2 DEF ApprovalsTrack, CompensationTypeOK
<1>5. DestroyedOnlyIfApproved'
  BY DEF DestroyedOnlyIfApproved
<1> QED
  BY <1>1, <1>3, <1>4, <1>5

(* The smoke test writes its event before it alerts.                       *)
LEMMA SmokeTestPreserves ==
    ASSUME CInv, BInv', NEW s \in Deployments, RunChecks(s) \/ ReportChecks(s)
    PROVE  CInv'
<1> USE DEF CInv
<1>1. CASE RunChecks(s)
  BY <1>1 DEF RunChecks, CompensationTypeOK, GatesTrack, ApprovalsTrack,
              DestroyedOnlyIfApproved, vars, ticketVars
<1>2. CASE ReportChecks(s)
  BY <1>2 DEF ReportChecks, CompensationTypeOK, GatesTrack, ApprovalsTrack,
              DestroyedOnlyIfApproved, vars, ticketVars
<1> QED
  BY <1>1, <1>2

(* A gate begins, for a compensation after its alert, or for another       *)
(* purpose; the ticket had none before.                                    *)
LEMMA RaisePurposePreserves ==
    ASSUME CInv, BInv', NEW t \in Tickets, NEW what \in Purposes \ {"none"}, RaiseFor(t, what),
           smoke' \in [Deployments -> {"none", "passed", "failed", "alert", "done"}],
           \A s \in Deployments : smoke'[s] = "alert" => smoke[s] = "alert",
           what \in Deployments => <<what, "failed">> \in reports
    PROVE  CInv'
<1> USE DEF CInv
<1>1. /\ UNCHANGED <<reports, snapshot, resumes, destroyed, approved, tickets>>
      /\ purpose' = [purpose EXCEPT ![t] = what] /\ purpose \in [Tickets -> Purposes]
      /\ raising' = [raising EXCEPT ![t] = "started"] /\ raising[t] = "none"
      /\ what # "none"
  BY DEF RaiseFor, StartExecution, Raised, CompensationTypeOK
<1>2. CompensationTypeOK'
  BY <1>1 DEF CompensationTypeOK
<1>3. GatesTrack'
  BY <1>1 DEF GatesTrack, BInv, TypeOK
<1>4. ApprovalsTrack'
  BY <1>1 DEF ApprovalsTrack
<1>5. DestroyedOnlyIfApproved'
  BY <1>1 DEF DestroyedOnlyIfApproved
<1> QED
  BY <1>2, <1>3, <1>4, <1>5

(* The two ways a gate begins.                                             *)
LEMMA GatesPreserve ==
    ASSUME CInv, BInv',
           (\E s \in Deployments : Compensate(s)) \/ (\E t \in Tickets : RaiseOther(t))
    PROVE  CInv'
<1>1. ASSUME NEW s \in Deployments, Compensate(s) PROVE CInv'
  <2>1. PICK t \in Tickets : RaiseFor(t, s)
    BY <1>1 DEF Compensate
  <2>2. s \in Purposes \ {"none"}
    BY ResumesAssumption DEF Purposes
  <2>3. <<s, "failed">> \in reports
    BY <1>1 DEF Compensate, CInv, GatesTrack
  <2>4. /\ smoke' \in [Deployments -> {"none", "passed", "failed", "alert", "done"}]
        /\ \A d \in Deployments : smoke'[d] = "alert" => smoke[d] = "alert"
    BY <1>1 DEF Compensate, CInv, CompensationTypeOK
  <2> QED
    BY <2>1, <2>2, <2>3, <2>4, RaisePurposePreserves
<1>2. ASSUME NEW t \in Tickets, RaiseOther(t) PROVE CInv'
  <2>1. "other" \in Purposes \ {"none"} /\ "other" \notin Deployments
    BY ResumesAssumption DEF Purposes
  <2>2. RaiseFor(t, "other") /\ UNCHANGED smoke
    BY <1>2 DEF RaiseOther
  <2>3. smoke \in [Deployments -> {"none", "passed", "failed", "alert", "done"}]
    BY DEF CInv, CompensationTypeOK
  <2> QED
    BY <2>1, <2>2, <2>3, RaisePurposePreserves
<1> QED
  BY <1>1, <1>2

(* The processes that resume.                                              *)
LEMMA ResumerPreserves ==
    ASSUME CInv, BInv', NEW r \in Resumers, ReadTicket(r) \/ Resume(r)
    PROVE  CInv'
<1> USE DEF CInv, vars, ticketVars
<1>1. CASE ReadTicket(r)
  <2>1. PICK t \in Tickets : \E seen \in Get(t) :
           snapshot' = [snapshot EXCEPT ![r] =
              IF seen = "none" THEN NoSnapshot ELSE [ticket |-> t, status |-> seen]]
    BY <1>1 DEF ReadTicket
  <2>5. PICK seen \in Get(t) :
           snapshot' = [snapshot EXCEPT ![r] =
              IF seen = "none" THEN NoSnapshot ELSE [ticket |-> t, status |-> seen]]
    BY <2>1
  <2>2. seen \in {"none", "PENDING"} \cup Decisions /\ (seen = "APPROVED" => tickets[t] = "APPROVED")
    BY DEF Get, BInv, TypeOK, Decisions
  <2>3. CompensationTypeOK'
    BY <1>1, <2>5, <2>2, ResumesAssumption DEF ReadTicket, CompensationTypeOK
  <2>4. ApprovalsTrack'
    BY <1>1, <2>5, <2>2 DEF ReadTicket, CompensationTypeOK, ApprovalsTrack, NoSnapshot
  <2> QED
    BY <1>1, <2>3, <2>4 DEF ReadTicket, GatesTrack, DestroyedOnlyIfApproved
<1>2. CASE Resume(r)
  <2>1. CompensationTypeOK'
    BY <1>2 DEF Resume, CompensationTypeOK
  <2>2. ApprovalsTrack'
    BY <1>2 DEF Resume, CompensationTypeOK, ApprovalsTrack, NoSnapshot
  <2>3. DestroyedOnlyIfApproved'
    <3>1. MayResume(snapshot[r]) =>
             /\ snapshot[r].ticket \in approved
             /\ purpose[snapshot[r].ticket] # "none"
      BY DEF MayResume, ApprovalsTrack
    <3> QED
      BY <1>2, <3>1 DEF Resume, CompensationTypeOK, GatesTrack, DestroyedOnlyIfApproved
  <2> QED
    BY <1>2, <2>1, <2>2, <2>3 DEF Resume, GatesTrack
<1> QED
  BY <1>1, <1>2

(* The invariant holds in every reachable state.                           *)
LEMMA CInvHolds == CompensationSpec => []CInv
<1>1. CompensationInit /\ BInv => CInv
  BY ResumesAssumption
     DEF CompensationInit, Init, CInv, CompensationTypeOK, GatesTrack, ApprovalsTrack,
         DestroyedOnlyIfApproved, NoSnapshot, Purposes
<1>2. ASSUME CInv, BInv', [CompensationNext]_compensationVars PROVE CInv'
  <2>1. CASE UNCHANGED compensationVars
    BY <1>2, <2>1 DEF compensationVars, ciVars, vars, ticketVars, CInv, CompensationTypeOK,
                      GatesTrack, ApprovalsTrack, DestroyedOnlyIfApproved
  <2> QED
    BY <1>2, <2>1, BrokerStepPreserves, SmokeTestPreserves, GatesPreserve, ResumerPreserves
       DEF CompensationNext
<1>3. CompensationSpec => []BInv
  BY CompensationImplementsBroker, BInvHolds, PTL
<1> QED
  BY <1>1, <1>2, <1>3, PTL DEF CompensationSpec

(* Every reachable state of the compensation is well typed.                *)
THEOREM CompensationTypeCorrect == CompensationSpec => [](TypeOK /\ CompensationTypeOK)
<1>1. CInv => TypeOK /\ CompensationTypeOK
  BY DEF CInv, BInv
<1> QED
  BY <1>1, CInvHolds, PTL

(* Nothing is destroyed but with a ticket stored as APPROVED, and with the *)
(* ticket of its own compensation only after a failure on record.          *)
THEOREM DestructionIsApproved == CompensationSpec => []DestroyedOnlyIfApproved
<1>1. CInv => DestroyedOnlyIfApproved
  BY DEF CInv
<1> QED
  BY <1>1, CInvHolds, PTL

(* The gate of a compensation opens for a failure on record only.          *)
THEOREM GatesFollowFailures == CompensationSpec => []GateOnlyAfterFailure
<1>1. CInv => GateOnlyAfterFailure
  BY DEF CInv, BInv, NotYetRaised, GatesTrack, GateOnlyAfterFailure
<1> QED
  BY <1>1, CInvHolds, PTL
===============================================================================
