-------------------------------- MODULE Portal --------------------------------
(***************************************************************************)
(* One browser page of the portal (DafPortalApp with its three views) and  *)
(* the Lambdas behind it.  Calls of the page are answered in any order or  *)
(* fail (network, session, a dying Lambda); the user goes anywhere at any  *)
(* time, also while calls are in flight.                                   *)
(*                                                                         *)
(* The runs are written by modules Supervisor and HitlBroker; here a write *)
(* is anything these allow: the index goes on, the status changes, and     *)
(* COMPLETED comes only after every step.  A run has one gate ticket at    *)
(* most, named like the run.  No read asks for consistency, and the list   *)
(* of a run's tickets is a query of an index, which cannot: a read may     *)
(* miss what was written last, until the write has arrived everywhere.     *)
(***************************************************************************)
EXTENDS Naturals, Sequences, SequencesExt

CONSTANTS
    Runs,         \* runs the page may start or name
    Open,         \* statuses of a run that may have steps to do; the page
                  \* tells them apart by words only
    Gated,        \* runs that raise a gate
    Blank,        \* the empty run id, and the empty view
    NumSteps,     \* steps of the task graph
    MaxCalls,     \* bound: calls of the page in flight
    MaxWrites,    \* bound: writes of the runs by others
    MaxFaults     \* bound: calls that fail and writes that reads may miss

ASSUME PortalAssumption ==
    /\ "RUNNING" \in Open /\ "COMPLETED" \notin Open /\ "none" \notin Open
    /\ Gated \subseteq Runs /\ Blank \notin Runs
    /\ NumSteps \in Nat /\ MaxCalls \in Nat /\ MaxWrites \in Nat /\ MaxFaults \in Nat

Terminal == {"COMPLETED", "FAILED", "HALTED"}
Status   == Open \cup {"COMPLETED"}
Tabs     == {"kickoff", "status", "approval"}
Unread   == NumSteps + 1

VARIABLES
    run,        \* status and current index of each run's item
    ticket,     \* status of its gate ticket
    pastRun,    \* versions of the run's item from before its last writes,
                \* which a read may still return
    pastTicket, \* the same of its ticket
    writes, faults,
    tab, runId, \* DafPortalApp
    submitting, \* RunKickoffView
    shown,      \* what RunStatusView shows, and of which run
    listed,     \* tickets HitlApprovalView lists
    calls       \* calls in flight, oldest first

(* History: the furthest index and the tickets found decided that the view *)
(* has shown; in which ways the answer it shows was late: "overtaken" by   *)
(* that of another call, in flight with it and shown before, or "lagged",  *)
(* when its last read missed a write.                                      *)
VARIABLES furthest, gone, late

store  == <<run, ticket, pastRun, pastTicket>>
server == <<store, writes>>
page   == <<tab, runId, submitting>>
view   == <<shown, listed, furthest, gone, late>>
vars   == <<server, page, view, calls, faults>>

Init ==
    /\ run    = [r \in Runs |-> [status |-> "none", idx |-> 0]]
    /\ ticket = [r \in Runs |-> "none"]
    /\ pastRun = [r \in Runs |-> {}] /\ pastTicket = [r \in Runs |-> {}]
    /\ writes = 0 /\ faults = 0
    /\ tab = "kickoff" /\ runId = Blank /\ submitting = FALSE
    /\ shown = Blank /\ listed = {}
    /\ furthest = 0 /\ gone = {} /\ late = {}
    /\ calls = <<>>

-------------------------------------------------------------------------------
(* A write: for a while reads may miss it and return what it replaces, or  *)
(* it arrives at every replica at once.                                    *)
PutRun(r, item) ==
    /\ run' = [run EXCEPT ![r] = item]
    /\ \/ UNCHANGED <<pastRun, faults>>
       \/ /\ faults < MaxFaults /\ faults' = faults + 1
          /\ pastRun' = [pastRun EXCEPT ![r] = @ \cup {run[r]}]
    /\ UNCHANGED <<ticket, pastTicket>>

PutTicket(r, status) ==
    /\ ticket' = [ticket EXCEPT ![r] = status]
    /\ \/ UNCHANGED <<pastTicket, faults>>
       \/ /\ faults < MaxFaults /\ faults' = faults + 1
          /\ pastTicket' = [pastTicket EXCEPT ![r] = @ \cup {ticket[r]}]
    /\ UNCHANGED <<run, pastRun>>

(* What a read may return. *)
RunReads(r)    == pastRun[r] \cup {run[r]}
TicketReads(r) == pastTicket[r] \cup {ticket[r]}

(* The runs, as others write them. *)
WriteRun(r) ==
    /\ run[r].status # "none" /\ writes < MaxWrites
    /\ writes' = writes + 1
    /\ \E status \in Status, idx \in {run[r].idx, run[r].idx + 1} \cap (0 .. NumSteps) :
          /\ status = "COMPLETED" => idx = NumSteps
          /\ <<status, idx>> # <<run[r].status, run[r].idx>>
          /\ PutRun(r, [status |-> status, idx |-> idx])
    /\ UNCHANGED <<page, view, calls>>

RaiseGate(r) ==
    /\ r \in Gated /\ run[r].status # "none" /\ ticket[r] = "none" /\ writes < MaxWrites
    /\ writes' = writes + 1
    /\ PutTicket(r, "PENDING")
    /\ UNCHANGED <<page, view, calls>>

(* The writes of a run or of its ticket have arrived at every replica. *)
Replicate(r) ==
    /\ \/ pastRun[r] # {} /\ pastRun' = [pastRun EXCEPT ![r] = {}] /\ UNCHANGED pastTicket
       \/ pastTicket[r] # {} /\ pastTicket' = [pastTicket EXCEPT ![r] = {}] /\ UNCHANGED pastRun
    /\ UNCHANGED <<run, ticket, writes, page, view, calls, faults>>

-------------------------------------------------------------------------------
(* Calls.  live is what a closure knows of its view: RunStatusView's       *)
(* cancelled flag, or for the others that the component is still mounted.  *)
Call(kind, r, t, live) ==
    [kind |-> kind, run |-> r, ticket |-> t, live |-> live, place |-> "sent",
     status |-> "none", idx |-> Unread, pending |-> {}, overtaken |-> FALSE, lagged |-> FALSE]

Room == Len(calls) < MaxCalls

(* The page shows tab t for run r: effects that depend on what has changed *)
(* are cleaned up and run again; a view that is mounted anew is empty, one *)
(* that stays keeps what it shows.  Nothing cancels a refresh when HITL-   *)
(* ApprovalView stays mounted for another run.                             *)
Show(t, r, cs) ==
    LET mounted(v, t2, r2) == t2 = v /\ r2 # Blank
        stays(v) == mounted(v, tab, runId) /\ mounted(v, t, r)
        keeps(kind) == CASE kind = "status" -> FALSE
                         [] kind = "start"  -> t = "kickoff"
                         [] OTHER           -> stays("approval")
        kept == [i \in DOMAIN cs |-> [cs[i] EXCEPT !.live = @ /\ keeps(cs[i].kind)]]
        new == IF r = Blank THEN <<>>
               ELSE CASE t = "status"   -> <<Call("status", r, r, TRUE)>>
                      [] t = "approval" -> <<Call("list", r, r, TRUE)>>
                      [] OTHER          -> <<>>
    IN /\ tab' = t /\ runId' = r
       /\ submitting' = (submitting /\ t = "kickoff")
       /\ calls' = kept \o new
       /\ shown' = IF stays("status") THEN shown ELSE Blank
       /\ listed' = IF stays("approval") THEN listed ELSE {}
       /\ furthest' = 0 /\ gone' = {}
       /\ late' = IF stays("status") \/ stays("approval") THEN late ELSE {}

(* The user picks a tab or edits the run id. *)
Go ==
    /\ Room
    /\ \E t \in Tabs, r \in Runs \cup {Blank} :
          <<t, r>> # <<tab, runId>> /\ (t = tab \/ r = runId) /\ Show(t, r, calls)
    /\ UNCHANGED <<server, faults>>

(* Seeded fault: nothing more is asked once the run looks finished. *)
PollingUntilTerminal ==
    tab = "status" /\ runId # Blank /\ ~(shown # Blank /\ shown.status \in Terminal)

(* The timer runs as long as the view is mounted, whatever the status. *)
Polling == tab = "status" /\ runId # Blank

Poll ==
    /\ Polling /\ Room
    /\ calls' = Append(calls, Call("status", runId, runId, TRUE))
    /\ UNCHANGED <<server, page, view, faults>>

(* Approve or Reject: the click keeps the refresh of the run id it saw. *)
Click ==
    /\ tab = "approval" /\ runId # Blank /\ Room
    /\ \E t \in listed : calls' = Append(calls, Call("decide", runId, t, TRUE))
    /\ UNCHANGED <<server, page, view, faults>>

(* handleSubmit, under a fresh run id. *)
Submit ==
    /\ tab = "kickoff" /\ ~submitting /\ Room
    /\ \E r \in Runs :
          /\ run[r].status = "none" /\ \A i \in DOMAIN calls : calls[i].run # r
          /\ calls' = Append(calls, Call("start", r, r, TRUE))
    /\ submitting' = TRUE
    /\ UNCHANGED <<server, tab, runId, view, faults>>

-------------------------------------------------------------------------------
(* The handlers. *)

(* Seeded fault: the state is read before the status. *)
ReadNextSwapped(c, item) ==
    IF c.place = "sent"
      THEN [c EXCEPT !.place = "half", !.idx = item.idx, !.lagged = item # run[c.run]]
      ELSE [c EXCEPT !.place = "answered", !.status = item.status]

(* get_run_status_handler: get_run_status, then get_run_state, two reads.  *)
(* lagged is about the later one.                                          *)
ReadNext(c, item) ==
    IF c.place = "sent"
      THEN [c EXCEPT !.place = "half", !.status = item.status]
      ELSE [c EXCEPT !.place = "answered", !.idx = item.idx, !.lagged = item # run[c.run]]

Finish(i, new) ==
    /\ calls' = RemoveAt(calls, i) \o new
    /\ submitting' = (submitting /\ ~(calls[i].kind = "start" /\ calls[i].live))

Reply(i, c) == calls' = [calls EXCEPT ![i] = c] /\ UNCHANGED submitting

(* A run that is not found raises, at either read: the page gets an error, *)
(* which leaves what it shows.                                             *)
ServeStatus(i) ==
    /\ calls[i].kind = "status"
    /\ \E item \in RunReads(calls[i].run) :
          IF item.status = "none" THEN Finish(i, <<>>) ELSE Reply(i, ReadNext(calls[i], item))
    /\ UNCHANGED <<store, faults>>

(* get_pending_gates, of the index. *)
ServeList(i) ==
    /\ calls[i].kind = "list"
    /\ \E status \in TicketReads(calls[i].run) :
          Reply(i, [calls[i] EXCEPT !.place = "answered",
                                    !.pending = {t \in {calls[i].run} : status = "PENDING"},
                                    !.lagged = status # ticket[calls[i].run]])
    /\ UNCHANGED <<store, faults>>

(* HitlApprovalBroker.decide, for the ticket: one that it does not find    *)
(* PENDING raises, and a late read may find a decided one so.              *)
ServeDecide(i) ==
    /\ calls[i].kind = "decide"
    /\ \E status \in TicketReads(calls[i].ticket) :
          IF status # "PENDING"
            THEN Finish(i, <<>>) /\ UNCHANGED <<store, faults>>
            ELSE /\ PutTicket(calls[i].ticket, "decided")
                 /\ Reply(i, [calls[i] EXCEPT !.place = "answered"])

ServeStart(i) ==
    /\ calls[i].kind = "start"
    /\ PutRun(calls[i].run, [run[calls[i].run] EXCEPT !.status = "RUNNING"])
    /\ Reply(i, [calls[i] EXCEPT !.place = "answered"])

Serve(i) ==
    /\ calls[i].place # "answered"
    /\ ServeStatus(i) \/ ServeList(i) \/ ServeDecide(i) \/ ServeStart(i)
    /\ UNCHANGED <<writes, tab, runId, view>>

(* The call fails on its way, before or after it was served. *)
Fail(i) ==
    /\ faults < MaxFaults /\ faults' = faults + 1
    /\ Finish(i, <<>>)
    /\ UNCHANGED <<server, tab, runId, view>>

-------------------------------------------------------------------------------
(* Answers. *)

(* Seeded fault: an answer is shown without a look at cancelled. *)
CountsAlways(c) == TRUE

Counts(c) == c.live

(* The other calls in flight; the one that is shown overtakes those of the *)
(* same view.                                                              *)
Others(i) ==
    LET c == calls[i] IN
    RemoveAt([j \in DOMAIN calls |->
        IF c.live /\ calls[j].live /\ calls[j].kind = c.kind
          THEN [calls[j] EXCEPT !.overtaken = TRUE] ELSE calls[j]], i)

Lateness(c) == {how \in {"overtaken", "lagged"} : c[how]}

ShowStatus(c) ==
    /\ shown' = [run |-> c.run, status |-> c.status, idx |-> c.idx]
    /\ furthest' = IF c.idx > furthest THEN c.idx ELSE furthest
    /\ late' = Lateness(c)
    /\ UNCHANGED <<listed, gone>>

ShowList(c) ==
    /\ listed' = c.pending
    /\ gone' = gone \cup {t \in {c.run} : t \notin c.pending /\ ticket[t] = "decided"}
    /\ late' = Lateness(c)
    /\ UNCHANGED <<shown, furthest>>

Deliver(i) ==
    LET c == calls[i] IN
    /\ c.place = "answered" /\ c.kind \in {"status", "list"}
    /\ \/ Counts(c) /\ c.kind = "status" /\ ShowStatus(c)
       \/ Counts(c) /\ c.kind = "list" /\ ShowList(c)
       \/ ~Counts(c) /\ UNCHANGED view
    /\ calls' = Others(i)
    /\ UNCHANGED <<server, page, faults>>

(* A decision is followed by a refresh, an unmounted view's too. *)
DeliverDecision(i) ==
    LET c == calls[i] IN
    /\ c.place = "answered" /\ c.kind = "decide"
    /\ Finish(i, <<Call("list", c.run, c.run, c.live)>>)
    /\ UNCHANGED <<server, tab, runId, view, faults>>

(* onRunStarted takes the page to the run, wherever it is by now. *)
DeliverStart(i) ==
    LET c == calls[i] IN
    /\ c.place = "answered" /\ c.kind = "start"
    /\ IF <<tab, runId>> = <<"status", c.run>>
         THEN Finish(i, <<>>) /\ UNCHANGED <<tab, runId, view>>
         ELSE Show("status", c.run, RemoveAt(calls, i))
    /\ UNCHANGED <<server, faults>>

Answer(i) == Serve(i) \/ Deliver(i) \/ DeliverDecision(i) \/ DeliverStart(i)

Next ==
    \/ \E r \in Runs : WriteRun(r) \/ RaiseGate(r) \/ Replicate(r)
    \/ Go \/ Poll \/ Click \/ Submit
    \/ \E i \in DOMAIN calls : Answer(i) \/ Fail(i)

Spec == Init /\ [][Next]_vars

(* The timer goes off again and again, the oldest call is answered and     *)
(* each write arrives eventually; what users and other writers do is never *)
(* owed.                                                                   *)
FairSpec ==
    /\ Spec
    /\ WF_vars(Poll) /\ WF_vars(calls # <<>> /\ Answer(1))
    /\ WF_vars(\E r \in Runs : Replicate(r))
-------------------------------------------------------------------------------
(* Every variable keeps to its type, and no half-read answer is delivered. *)
TypeOK ==
    /\ run \in [Runs -> [status : Status \cup {"none"}, idx : 0 .. NumSteps]]
    /\ ticket \in [Runs -> {"none", "PENDING", "decided"}]
    /\ \A r \in Runs : /\ pastRun[r] \subseteq [status : Status \cup {"none"}, idx : 0 .. NumSteps]
                        /\ pastTicket[r] \subseteq {"none", "PENDING", "decided"}
    /\ writes \in 0 .. MaxWrites /\ faults \in 0 .. MaxFaults
    /\ tab \in Tabs /\ runId \in Runs \cup {Blank} /\ submitting \in BOOLEAN
    /\ shown \in {Blank} \cup [run : Runs, status : Status, idx : 0 .. NumSteps]
    /\ listed \subseteq Runs /\ gone \subseteq Runs
    /\ furthest \in 0 .. NumSteps /\ late \subseteq {"overtaken", "lagged"}
    /\ Len(calls) <= MaxCalls
    /\ \A i \in DOMAIN calls :
          /\ calls[i].run \in Runs /\ calls[i].ticket \in Runs
          /\ calls[i].kind = "status" =>
                /\ calls[i].place = "sent" <=> calls[i].status = "none"
                /\ calls[i].place = "answered" <=> calls[i].idx # Unread

(* get_run_status_handler reads the item twice, and the run goes on in     *)
(* between.  A page that shows COMPLETED shows every step done, whatever   *)
(* the first read missed, unless the second one missed a write: then the   *)
(* code may show COMPLETED over an open step.                              *)
CompletedShownWhole ==
    shown # Blank /\ shown.status = "COMPLETED" /\ "lagged" \notin late => shown.idx = NumSteps

(* Whatever is in flight when the user changes the run id, leaves and      *)
(* comes back, or is taken to a run just started: what RunStatusView newly *)
(* shows is of the run the page is at.                                     *)
ShownIsCurrent ==
    [][shown' # shown /\ shown' # Blank => tab' = "status" /\ shown'.run = runId']_vars

(* What a view shows has gone backwards (a done step is pending again, a   *)
(* ticket it has shown as decided is listed again) only while the answer   *)
(* it shows was overtaken by another, to a call of this very view, or had  *)
(* its read miss a write.  Any other answer brings back all of it.         *)
BackOnlyIfLate ==
    late = {} => /\ shown # Blank /\ shown.run = runId /\ furthest > 0 => shown.idx = furthest
                 /\ listed \cap gone = {}

(* A page left at a run shows its last state in the end, whatever failed,  *)
(* was answered out of order, or brought the run back from a terminal      *)
(* status after the page had shown it.                                     *)
PageCatchesUp ==
    \A r \in Runs :
        <>[](tab = "status" /\ runId = r /\ run[r].status # "none") =>
            <>[](shown = [run |-> r, status |-> run[r].status, idx |-> run[r].idx])
===============================================================================
