------------------------------ MODULE GateLedger ------------------------------
(***************************************************************************)
(* What the HITL approval broker promises of its gates, whoever decides    *)
(* them at the same time and whoever dies on the way.  A ticket is raised  *)
(* once, after the wait of the task it blocks began.  It is decided by a   *)
(* request that found it undecided; two requests that both found it so may *)
(* both decide it, and the later decision replaces the earlier.  The       *)
(* blocked task is released once, on a decision that was stored and logged *)
(* before, and the way that decision says.                                 *)
(*                                                                         *)
(* design.md, Algorithm 3, asks for more: that a ticket once decided stays *)
(* as it is.  The broker promises that only to requests that do not race.  *)
(***************************************************************************)
CONSTANTS
    Tickets,
    Requests,  \* who may decide
    LateReads  \* TRUE: a decided ticket may still be found undecided

Decisions == {"APPROVED", "REJECTED"}

VARIABLES
    ledger,    \* the persisted status of each ticket
    found,     \* <<request, ticket>>: found undecided, to be decided
    unlogged,  \* <<request, ticket, decision>>: stored, to be logged
    logged,    \* <<ticket, decision>>: in the audit log
    released   \* the wait of each ticket's blocked task

vars == <<ledger, found, unlogged, logged, released>>

Init ==
    /\ ledger   = [t \in Tickets |-> "none"]
    /\ found    = {}
    /\ unlogged = {}
    /\ logged   = {}
    /\ released = [t \in Tickets |-> "none"]

(* The wait exists before the ticket that refers to it. *)
Wait(t) ==
    /\ released[t] = "none"
    /\ released' = [released EXCEPT ![t] = "waiting"]
    /\ UNCHANGED <<ledger, found, unlogged, logged>>

Raise(t) ==
    /\ ledger[t] = "none" /\ released[t] = "waiting"
    /\ ledger' = [ledger EXCEPT ![t] = "PENDING"]
    /\ UNCHANGED <<found, unlogged, logged, released>>

Find(r, t) ==
    /\ ledger[t] = "PENDING" \/ (LateReads /\ ledger[t] \in Decisions)
    /\ found' = found \cup {<<r, t>>}
    /\ UNCHANGED <<ledger, unlogged, logged, released>>

(* A finding is good for one decision. *)
Decide(r, t, decision) ==
    /\ <<r, t>> \in found
    /\ found' = found \ {<<r, t>>}
    /\ ledger' = [ledger EXCEPT ![t] = decision]
    /\ unlogged' = unlogged \cup {<<r, t, decision>>}
    /\ UNCHANGED <<logged, released>>

Log(r, t, decision) ==
    /\ <<r, t, decision>> \in unlogged
    /\ unlogged' = unlogged \ {<<r, t, decision>>}
    /\ logged' = logged \cup {<<t, decision>>}
    /\ UNCHANGED <<ledger, found, released>>

(* A request dies before it decides, or between the store and the log. *)
Die(r) ==
    /\ found' = {f \in found : f[1] # r}
    /\ unlogged' = {u \in unlogged : u[1] # r}
    /\ UNCHANGED <<ledger, logged, released>>

Release(t, decision) ==
    /\ <<t, decision>> \in logged /\ released[t] = "waiting"
    /\ released' = [released EXCEPT
            ![t] = IF decision = "APPROVED" THEN "succeeded" ELSE "failed"]
    /\ UNCHANGED <<ledger, found, unlogged, logged>>

Next ==
    \/ \E t \in Tickets : Wait(t) \/ Raise(t)
    \/ \E t \in Tickets, decision \in Decisions : Release(t, decision)
    \/ \E r \in Requests :
          \/ Die(r)
          \/ \E t \in Tickets :
                \/ Find(r, t)
                \/ \E decision \in Decisions : Decide(r, t, decision) \/ Log(r, t, decision)

Spec == Init /\ [][Next]_vars
===============================================================================
