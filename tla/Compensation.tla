----------------------------- MODULE Compensation -----------------------------
(***************************************************************************)
(* The CI/CD side of a run on top of the HITL broker: after a deployment   *)
(* the smoke test runs, a failure alerts the caller, the caller asks for   *)
(* the deployment to be destroyed (compensate, a DESTRUCTIVE_ACTION gate), *)
(* and somebody who reads a ticket as APPROVED resumes the compensation of *)
(* a deployment with it.  Each deployment has one smoke test, whose alert  *)
(* compensates once; the run raises gates for other purposes as well.      *)
(*                                                                         *)
(* Nothing deployed calls these functions; their callers are modelled as   *)
(* their docstrings describe them.  The destructive action is external.    *)
(***************************************************************************)
EXTENDS HitlBroker

CONSTANTS
    Deployments, \* the sequences deployed by the run
    Resumers,    \* processes that resume compensations
    MaxResumes   \* bound: reads of a ticket by resumers, all together

ASSUME ResumesAssumption ==
    MaxResumes \in Nat /\ "none" \notin Deployments /\ "other" \notin Deployments

VARIABLES
    smoke,     \* progress of each deployment's smoke test
    reports,   \* smoke_test_passed and smoke_test_failed events
    purpose,   \* what each ticket's gate type and context say it is for
    snapshot,  \* the ticket each resumer has read, and its status then
    resumes,   \* reads made by resumers so far
    destroyed  \* <<deployment, ticket>> the destructive action ran with

(* History: tickets that have ever been stored as APPROVED. *)
VARIABLE approved

ciVars == <<smoke, reports, purpose, snapshot, resumes, destroyed>>
compensationVars == <<vars, ciVars, approved>>

NoSnapshot == [ticket |-> "none", status |-> "none"]

(* "none" before raise_gate, "other" for every gate but a compensation's. *)
Purposes == {"none", "other"} \cup Deployments

CompensationInit ==
    /\ Init
    /\ smoke     = [s \in Deployments |-> "none"]
    /\ reports   = {}
    /\ purpose   = [t \in Tickets |-> "none"]
    /\ snapshot  = [r \in Resumers |-> NoSnapshot]
    /\ resumes   = 0
    /\ destroyed = {}
    /\ approved  = {}

-------------------------------------------------------------------------------
(* The health check, then, only if it passed, the functional check. *)
RunChecks(s) ==
    /\ smoke[s] = "none"
    /\ \E health, functional \in BOOLEAN :
          smoke' = [smoke EXCEPT ![s] = IF health /\ functional THEN "passed" ELSE "failed"]
    /\ UNCHANGED <<vars, reports, purpose, snapshot, resumes, destroyed, approved>>

(* Seeded fault: the failure is not audited before the alert. *)
ReportChecksNot(s) ==
    /\ smoke[s] \in {"passed", "failed"}
    /\ smoke' = [smoke EXCEPT ![s] = IF @ = "passed" THEN "done" ELSE "alert"]
    /\ UNCHANGED <<vars, reports, purpose, snapshot, resumes, destroyed, approved>>

(* Exactly one audit event, and the alert of a failure. *)
ReportChecks(s) ==
    /\ smoke[s] \in {"passed", "failed"}
    /\ reports' = reports \cup {<<s, smoke[s]>>}
    /\ smoke' = [smoke EXCEPT ![s] = IF @ = "passed" THEN "done" ELSE "alert"]
    /\ UNCHANGED <<vars, purpose, snapshot, resumes, destroyed, approved>>

RaiseFor(t, what) ==
    /\ StartExecution(t)
    /\ purpose' = [purpose EXCEPT ![t] = what]
    /\ UNCHANGED <<reports, snapshot, resumes, destroyed, approved>>

(* on_failure_alert: compensate calls raise_gate and executes nothing. *)
Compensate(s) ==
    /\ smoke[s] = "alert"
    /\ smoke' = [smoke EXCEPT ![s] = "done"]
    /\ \E t \in Tickets : RaiseFor(t, s)

(* The run's other gates: of a step, of a deployment, of an agent. *)
RaiseOther(t) == RaiseFor(t, "other") /\ UNCHANGED smoke

(* A resumer reads a ticket (the read may be late) and keeps the object. *)
ReadTicket(r) ==
    /\ resumes < MaxResumes /\ resumes' = resumes + 1
    /\ \E t \in Tickets : \E seen \in Get(t) :
          snapshot' = [snapshot EXCEPT ![r] =
              IF seen = "none" THEN NoSnapshot ELSE [ticket |-> t, status |-> seen]]
    /\ UNCHANGED <<vars, smoke, reports, purpose, destroyed, approved>>

(* Seeded fault: whatever is no refusal is an approval. *)
MayResumeUnlessRejected(ticket) == ticket.status # "REJECTED"

MayResume(ticket) == ticket.status = "APPROVED"

(* resume_compensation_after_approval on the object read before, for the   *)
(* sequence its caller names: the ticket's status is all it looks at.      *)
Resume(r) ==
    /\ snapshot[r] # NoSnapshot
    /\ \E s \in Deployments :
          destroyed' = IF MayResume(snapshot[r])
                         THEN destroyed \cup {<<s, snapshot[r].ticket>>}
                         ELSE destroyed
    /\ snapshot' = [snapshot EXCEPT ![r] = NoSnapshot]
    /\ UNCHANGED <<vars, smoke, reports, purpose, resumes, approved>>

-------------------------------------------------------------------------------
(* Every other step of the broker: raise_gate begins with RaiseFor. *)
BrokerStep ==
    \/ \E t \in Tickets : CreateTicket(t) \/ AwaitHitl(t) \/ NotifyRaised(t) \/ RaiseCrash(t)
    \/ \E d \in Deciders : Request(d) \/ Decide(d) \/ DecideCrash(d)
    \/ KillRun

CompensationNext ==
    \/ /\ BrokerStep
       /\ approved' = approved \cup {t \in Tickets : tickets'[t] = "APPROVED"}
       /\ UNCHANGED ciVars
    \/ \E s \in Deployments : RunChecks(s) \/ ReportChecks(s) \/ Compensate(s)
    \/ \E t \in Tickets : RaiseOther(t)
    \/ \E r \in Resumers : ReadTicket(r) \/ Resume(r)

CompensationSpec == CompensationInit /\ [][CompensationNext]_compensationVars
-------------------------------------------------------------------------------
(* Every variable keeps to its type. *)
CompensationTypeOK ==
    /\ smoke \in [Deployments -> {"none", "passed", "failed", "alert", "done"}]
    /\ reports \subseteq Deployments \X {"passed", "failed"}
    /\ purpose \in [Tickets -> Purposes]
    /\ snapshot \in [Resumers -> {NoSnapshot} \cup
          [ticket : Tickets, status : {"PENDING"} \cup Decisions]]
    /\ resumes \in 0 .. MaxResumes
    /\ destroyed \subseteq Deployments \X Tickets
    /\ approved \subseteq Tickets

(* Nothing is destroyed but with a ticket that has been stored as APPROVED *)
(* and that opened for a purpose; with the ticket of its own compensation, *)
(* only after its smoke test has failed, which is in the audit log.  This  *)
(* whatever deciders and resumers race, whatever dies, and on whatever     *)
(* version of the ticket the resumer acts.  That the ticket is the one of  *)
(* the deployment's own compensation is for the caller to see to.          *)
DestroyedOnlyIfApproved ==
    \A s \in Deployments, t \in Tickets :
        <<s, t>> \in destroyed =>
            /\ t \in approved /\ purpose[t] # "none"
            /\ purpose[t] = s => <<s, "failed">> \in reports

(* The gate of a compensation opens for a failure on record only.          *)
GateOnlyAfterFailure ==
    \A t \in Tickets :
        tickets[t] # "none" /\ purpose[t] \in Deployments =>
            <<purpose[t], "failed">> \in reports

(* Contradicted: the destroy "of a just-applied module" is "gated behind   *)
(* the DESTRUCTIVE_ACTION HITL gate" (compensation.py:1-2).  Each one runs *)
(* with the ticket raised for it.                                          *)
DestroyedWithOwnGate == \A d \in destroyed : purpose[d[2]] = d[1]
===============================================================================
