----------------------------- MODULE PortalProofs -----------------------------
(***************************************************************************)
(* What RunStatusView shows is of the run the page is at; it is torn only  *)
(* while its last read missed a write, and has gone back only then or when *)
(* another call overtook it, for any number of runs, steps, statuses,      *)
(* calls in flight, faults and writes.                                     *)
(***************************************************************************)
EXTENDS Portal, TLAPS

CallType ==
    [kind : {"status", "list", "decide", "start"}, run : Runs, ticket : Runs, live : BOOLEAN,
     place : {"sent", "half", "answered"}, status : Status \cup {"none"}, idx : 0 .. Unread,
     pending : SUBSET Runs, overtaken : BOOLEAN, lagged : BOOLEAN]

(* A call of a view that still counts is for the tab the page is at, one   *)
(* of the status view for its run too.  A run that was read as COMPLETED   *)
(* is complete, and its index was read so by a read that missed nothing.   *)
(* A call no other has overtaken was made after all that the view shows,   *)
(* and so has read nothing older unless it missed a write.                 *)
Honest(c) ==
    /\ c.kind = "status" =>
          /\ c.place = "sent" <=> c.status = "none"
          /\ c.place = "answered" <=> c.idx # Unread
          /\ c.live => tab = "status" /\ runId = c.run
          /\ c.place # "sent" /\ c.status = "COMPLETED" => run[c.run].idx = NumSteps
          /\ c.place = "answered" /\ c.status = "COMPLETED" /\ ~c.lagged => c.idx = NumSteps
          /\ c.place = "answered" => c.idx <= run[c.run].idx
          /\ c.place = "answered" /\ c.live /\ ~c.overtaken /\ ~c.lagged => furthest <= c.idx
    /\ c.kind = "list" /\ c.place = "answered" /\ c.live /\ ~c.overtaken /\ ~c.lagged =>
          c.pending \cap gone = {}
    /\ c.kind \in {"list", "decide"} /\ c.live => tab = "approval"

HonestCalls == {c \in CallType : Honest(c)}

Items == [status : Status \cup {"none"}, idx : 0 .. NumSteps]

(* TypeOK but for the calls in flight; and the past of a run is past.      *)
RunsTyped ==
    /\ run \in [Runs -> Items] /\ pastRun \in [Runs -> SUBSET Items]
    /\ ticket \in [Runs -> {"none", "PENDING", "decided"}]
    /\ pastTicket \in [Runs -> SUBSET {"none", "PENDING", "decided"}]
    /\ \A r \in Runs : \A item \in RunReads(r) :
          /\ item.status = "COMPLETED" => item.idx = NumSteps
          /\ item.idx <= run[r].idx

PageTyped ==
    /\ tab \in Tabs /\ runId \in Runs \cup {Blank} /\ submitting \in BOOLEAN
    /\ shown \in {Blank} \cup [run : Runs, status : Status, idx : 0 .. NumSteps]
    /\ shown # Blank => tab = "status"
    /\ listed \subseteq Runs /\ gone \subseteq Runs
    /\ furthest \in 0 .. NumSteps /\ late \subseteq {"overtaken", "lagged"}

(* What the view has shown, the run has reached. *)
SeenIsReached ==
    /\ furthest > 0 => tab = "status" /\ runId \in Runs /\ furthest <= run[runId].idx
    /\ \A t \in gone : tab = "approval" /\ ticket[t] = "decided"

PInv ==
    /\ RunsTyped /\ PageTyped
    /\ writes \in 0 .. MaxWrites /\ faults \in 0 .. MaxFaults
    /\ calls \in Seq(HonestCalls) /\ Len(calls) <= MaxCalls
    /\ SeenIsReached
    /\ CompletedShownWhole /\ BackOnlyIfLate

-------------------------------------------------------------------------------
(* Sequences by their elements.                                            *)
LEMMA FunctionIsSeq ==
    ASSUME NEW S, NEW n \in Nat, NEW f \in [1 .. n -> S]
    PROVE  f \in Seq(S) /\ Len(f) = n
  OBVIOUS

(* Joined sequences have the elements of both.                             *)
LEMMA JoinedIsSeq ==
    ASSUME NEW S, NEW a \in Seq(S), NEW b \in Seq(S)
    PROVE  a \o b \in Seq(S) /\ Len(a \o b) = Len(a) + Len(b)
  OBVIOUS

(* Taking a call out of the queue leaves a queue, one shorter.             *)
LEMMA RemoveAtIsSeq ==
    ASSUME NEW S, NEW s \in Seq(S), NEW i \in DOMAIN s
    PROVE  RemoveAt(s, i) \in Seq(S) /\ Len(RemoveAt(s, i)) = Len(s) - 1
<1>1. i \in 1 .. Len(s) /\ Len(s) \in Nat /\ \A j \in 1 .. Len(s) : s[j] \in S
  OBVIOUS
<1>2. SubSeq(s, 1, i - 1) \in Seq(S) /\ Len(SubSeq(s, 1, i - 1)) = i - 1
  BY <1>1
<1>3. SubSeq(s, i + 1, Len(s)) \in Seq(S) /\ Len(SubSeq(s, i + 1, Len(s))) = Len(s) - i
  BY <1>1
<1>4. PICK a, b : a = SubSeq(s, 1, i - 1) /\ b = SubSeq(s, i + 1, Len(s))
  OBVIOUS
<1>5. a \o b \in Seq(S) /\ Len(a \o b) = i - 1 + (Len(s) - i)
  BY <1>2, <1>3, <1>4, JoinedIsSeq
<1>6. RemoveAt(s, i) = a \o b
  BY <1>4 DEF RemoveAt
<1> QED
  BY <1>1, <1>5, <1>6

(* A sequence over a set is one over every larger set.                     *)
LEMMA SeqOfLarger ==
    ASSUME NEW S, NEW T, S \subseteq T, NEW s \in Seq(S)
    PROVE  s \in Seq(T)
<1>1. Len(s) \in Nat /\ s \in [1 .. Len(s) -> T]
  OBVIOUS
<1> QED
  BY <1>1, FunctionIsSeq

-------------------------------------------------------------------------------
(* A new call has read nothing.                                            *)
LEMMA NewCall ==
    ASSUME NEW kind \in {"status", "list", "decide", "start"}, NEW r \in Runs, NEW t \in Runs,
           NEW live \in BOOLEAN,
           kind = "status" /\ live => tab' = "status" /\ runId' = r,
           kind \in {"list", "decide"} /\ live => tab' = "approval"
    PROVE  Call(kind, r, t, live) \in HonestCalls'
<1>1. Unread \in 0 .. Unread
  BY PortalAssumption DEF Unread
<1>2. Call(kind, r, t, live) \in CallType
  BY <1>1 DEF Call, CallType
<1>3. Honest(Call(kind, r, t, live))'
  BY DEF Call, Honest
<1> QED
  BY <1>2, <1>3 DEF HonestCalls

(* Runs go on, and a decided ticket stays decided. *)
RunsGoOn ==
    /\ RunsTyped'
    /\ \A r \in Runs : run[r].idx <= run'[r].idx
    /\ \A r \in Runs : ticket[r] = "decided" => ticket'[r] = "decided"

(* A step that writes no run lets the runs go on trivially.                *)
LEMMA RunsStay ==
    ASSUME RunsTyped, UNCHANGED store
    PROVE  RunsGoOn
<1>1. RunsTyped'
  BY DEF RunsTyped, RunReads, store
<1>2. \A r \in Runs : run[r].idx <= run'[r].idx
  BY DEF RunsTyped, RunReads, store
<1> QED
  BY <1>1, <1>2 DEF RunsGoOn, store

(* So does a write that leaves a run no less complete than it was.           *)
LEMMA PutRunGoesOn ==
    ASSUME RunsTyped, NEW r \in Runs, NEW item \in Items, run[r].idx <= item.idx,
           item.status = "COMPLETED" => item.idx = NumSteps, PutRun(r, item)
    PROVE  RunsGoOn
<1>1. /\ run' = [run EXCEPT ![r] = item] /\ UNCHANGED <<ticket, pastTicket>>
      /\ pastRun' \in [Runs -> SUBSET Items]
      /\ \A q \in Runs : pastRun'[q] \subseteq RunReads(q)
  BY DEF PutRun, RunsTyped, RunReads
<1>2. run' \in [Runs -> Items]
  BY <1>1 DEF RunsTyped
<1>3. ASSUME NEW q \in Runs
      PROVE  /\ run[q].idx <= run'[q].idx
             /\ \A i \in RunReads(q)' : /\ i.status = "COMPLETED" => i.idx = NumSteps
                                        /\ i.idx <= run'[q].idx
  <2>1. /\ run[q] \in Items /\ run'[q] \in Items /\ run[q].idx \in Nat /\ run'[q].idx \in Nat
        /\ run'[q] = IF q = r THEN item ELSE run[q]
    BY <1>1, <1>2, PortalAssumption DEF RunsTyped, Items
  <2>2. run[q].idx <= run'[q].idx
    BY <2>1
  <2>3. ASSUME NEW i \in RunReads(q)
        PROVE  /\ i.status = "COMPLETED" => i.idx = NumSteps
               /\ i.idx <= run'[q].idx
    <3>1. i \in Items /\ i.idx \in Nat /\ i.idx <= run[q].idx
      BY <2>1, PortalAssumption DEF RunsTyped, RunReads, Items
    <3> QED
      BY <2>1, <2>2, <3>1 DEF RunsTyped
  <2>4. run'[q].status = "COMPLETED" => run'[q].idx = NumSteps
    BY <2>1 DEF RunsTyped, RunReads
  <2> QED
    BY <1>1, <2>1, <2>2, <2>3, <2>4 DEF RunReads
<1> QED
  BY <1>1, <1>2, <1>3 DEF RunsGoOn, RunsTyped

(* And a write of a ticket that takes no decision back.                     *)
LEMMA PutTicketGoesOn ==
    ASSUME RunsTyped, NEW r \in Runs, NEW status \in {"PENDING", "decided"},
           ticket[r] = "decided" => status = "decided", PutTicket(r, status)
    PROVE  RunsGoOn
<1>1. /\ ticket' = [ticket EXCEPT ![r] = status] /\ UNCHANGED <<run, pastRun>>
      /\ pastTicket' \in [Runs -> SUBSET {"none", "PENDING", "decided"}]
  BY DEF PutTicket, RunsTyped
<1>2. RunsTyped' /\ \A q \in Runs : ticket[q] = "decided" => ticket'[q] = "decided"
  BY <1>1 DEF RunsTyped, RunReads
<1>3. \A q \in Runs : run[q].idx <= run'[q].idx
  BY <1>1 DEF RunsTyped, RunReads
<1> QED
  BY <1>2, <1>3 DEF RunsGoOn

(* Calls stay honest while the page stays as it is and the runs go on.     *)
LEMMA HonestKept ==
    ASSUME RunsTyped, RunsGoOn, UNCHANGED <<tab, runId, furthest, gone>>
    PROVE  HonestCalls \subseteq HonestCalls'
<1> SUFFICES ASSUME NEW c \in HonestCalls PROVE c \in HonestCalls'
  OBVIOUS
<1>1. c \in CallType /\ Honest(c) /\ c.run \in Runs /\ (c.idx # Unread => c.idx \in 0 .. NumSteps)
  BY PortalAssumption DEF HonestCalls, CallType, Unread
<1>2. /\ run[c.run].idx \in 0 .. NumSteps /\ run'[c.run].idx \in 0 .. NumSteps
      /\ run[c.run].idx <= run'[c.run].idx
  BY <1>1 DEF RunsTyped, RunsGoOn, Items
<1>3. Honest(c)'
  BY <1>1, <1>2, PortalAssumption DEF Honest
<1> QED
  BY <1>1, <1>3 DEF HonestCalls

(* A step that leaves the page at its run, and what it shows, as they are. *)
LEMMA ViewKept ==
    ASSUME PInv, UNCHANGED <<tab, runId, view>>, RunsGoOn, submitting' \in BOOLEAN,
           writes' \in 0 .. MaxWrites, faults' \in 0 .. MaxFaults,
           calls' \in Seq(HonestCalls'), Len(calls') <= MaxCalls
    PROVE  PInv'
<1>1. UNCHANGED <<shown, listed, furthest, gone, late>> /\ PageTyped'
  BY DEF PInv, PageTyped, view
<1>2. SeenIsReached'
  <2>1. furthest > 0 => /\ furthest \in Nat /\ runId \in Runs /\ run[runId].idx \in Nat
                        /\ run'[runId].idx \in Nat /\ run[runId].idx <= run'[runId].idx
    BY PortalAssumption DEF PInv, SeenIsReached, PageTyped, RunsTyped, RunsGoOn, Items
  <2> QED
    BY <1>1, <2>1 DEF PInv, SeenIsReached, RunsGoOn, PageTyped
<1>3. CompletedShownWhole' /\ BackOnlyIfLate'
  BY <1>1 DEF PInv, CompletedShownWhole, BackOnlyIfLate
<1> QED
  BY <1>1, <1>2, <1>3 DEF PInv, RunsGoOn

-------------------------------------------------------------------------------
(* The page goes to another view or run: no status call of before counts   *)
(* any more, and nothing is shown of the run it comes to.                  *)
LEMMA ShowTakesAlong ==
    ASSUME PInv, NEW t \in Tabs, NEW r \in Runs \cup {Blank}, NEW cs \in Seq(HonestCalls),
           Len(cs) < MaxCalls, Show(t, r, cs), UNCHANGED store,
           writes' \in 0 .. MaxWrites, faults' \in 0 .. MaxFaults
    PROVE  PInv' /\ shown' \in {shown, Blank}
<1> DEFINE mounted(v, t2, r2) == t2 = v /\ r2 # Blank
           stays(v) == mounted(v, tab, runId) /\ mounted(v, t, r)
           keeps(kind) == CASE kind = "status" -> FALSE
                            [] kind = "start"  -> t = "kickoff"
                            [] OTHER           -> stays("approval")
           kept == [i \in DOMAIN cs |-> [cs[i] EXCEPT !.live = @ /\ keeps(cs[i].kind)]]
           new == IF r = Blank THEN <<>>
                  ELSE CASE t = "status"   -> <<Call("status", r, r, TRUE)>>
                         [] t = "approval" -> <<Call("list", r, r, TRUE)>>
                         [] OTHER          -> <<>>
<1>1. /\ tab' = t /\ runId' = r /\ calls' = kept \o new
      /\ submitting' = (submitting /\ t = "kickoff")
      /\ shown' \in {shown, Blank} /\ listed' \in {listed, {}}
      /\ furthest' = 0 /\ gone' = {} /\ late' \in {late, {}}
      /\ shown' # Blank => t = "status" /\ shown' = shown /\ late' = late
  BY DEF Show
<1>2. ASSUME NEW c \in HonestCalls, NEW d, d = [c EXCEPT !.live = @ /\ keeps(c.kind)]
      PROVE  d \in HonestCalls'
  <2>1. c \in CallType /\ Honest(c)
    BY DEF HonestCalls
  <2>2. /\ keeps(c.kind) \in BOOLEAN /\ (c.kind = "status" => ~keeps(c.kind))
        /\ c.kind \in {"list", "decide"} /\ keeps(c.kind) => t = "approval"
    BY <2>1 DEF CallType
  <2> HIDE DEF keeps
  <2>3. d \in CallType
    BY <1>2, <2>1, <2>2 DEF CallType
  <2>4. /\ d.kind = c.kind /\ d.run = c.run /\ d.place = c.place /\ d.status = c.status
        /\ d.idx = c.idx /\ d.lagged = c.lagged /\ (c.kind = "status" => ~d.live)
        /\ d.kind \in {"list", "decide"} /\ d.live => t = "approval"
    BY <1>2, <2>1, <2>2 DEF CallType
  <2>5. Honest(d)'
    BY <1>1, <2>1, <2>4 DEF Honest, store
  <2> QED
    BY <2>3, <2>5 DEF HonestCalls
<1>3. kept \in Seq(HonestCalls') /\ Len(kept) = Len(cs)
  <2>1. Len(cs) \in Nat /\ DOMAIN cs = 1 .. Len(cs) /\ \A i \in DOMAIN cs : cs[i] \in HonestCalls
    OBVIOUS
  <2>2. kept \in [1 .. Len(cs) -> HonestCalls'] /\ DOMAIN kept = 1 .. Len(cs)
    BY <1>2, <2>1
  <2> HIDE DEF kept
  <2> QED
    BY <2>1, <2>2, FunctionIsSeq
<1>4. new \in Seq(HonestCalls') /\ Len(new) \in {0, 1}
  <2>1. <<>> \in Seq(HonestCalls') /\ Len(<<>>) = 0
    OBVIOUS
  <2>2. CASE r = Blank \/ t \notin {"status", "approval"}
    <3>1. new = <<>>
      BY <2>2
    <3> QED
      BY <2>1, <3>1
  <2>3. ASSUME NEW c \in HonestCalls' PROVE <<c>> \in Seq(HonestCalls') /\ Len(<<c>>) = 1
    OBVIOUS
  <2>4. CASE r # Blank /\ t \in {"status", "approval"}
    <3>1. /\ Call("status", r, r, TRUE) \in HonestCalls' \/ t # "status"
          /\ Call("list", r, r, TRUE) \in HonestCalls' \/ t # "approval"
      BY <1>1, <2>4, NewCall
    <3>2. \/ t = "status" /\ new = <<Call("status", r, r, TRUE)>>
          \/ t = "approval" /\ new = <<Call("list", r, r, TRUE)>>
      BY <2>4
    <3> QED
      BY <2>3, <3>1, <3>2
  <2> QED
    BY <2>2, <2>4
<1> HIDE DEF kept, new
<1>5. calls' \in Seq(HonestCalls') /\ Len(calls') <= MaxCalls
  BY <1>1, <1>3, <1>4, PortalAssumption
<1>6. RunsTyped'
  BY RunsStay DEF PInv, RunsGoOn
<1>7. PageTyped' /\ SeenIsReached'
  <2>1. submitting' \in BOOLEAN /\ late' \subseteq {"overtaken", "lagged"}
    BY <1>1 DEF PInv, PageTyped
  <2>2. furthest' \in 0 .. NumSteps /\ ~(furthest' > 0)
    BY <1>1, PortalAssumption
  <2> QED
    BY <1>1, <2>1, <2>2 DEF PInv, PageTyped, SeenIsReached
<1>8. CompletedShownWhole' /\ BackOnlyIfLate'
  BY <1>1 DEF PInv, CompletedShownWhole, BackOnlyIfLate
<1> QED
  BY <1>1, <1>5, <1>6, <1>7, <1>8 DEF PInv

(* What the user and the timer do. *)
LEMMA UserPreserves ==
    ASSUME PInv, Go \/ Poll \/ Click \/ Submit
    PROVE  PInv' /\ shown' \in {shown, Blank}
<1>0. Len(calls) \in Nat /\ Len(calls) < MaxCalls
  <2>1. Len(calls) < MaxCalls
    BY DEF Go, Poll, Click, Submit, Room
  <2> QED
    BY <2>1 DEF PInv
<1>1. CASE Go
  <2>1. PICK t \in Tabs, r \in Runs \cup {Blank} : Show(t, r, calls)
    BY <1>1 DEF Go
  <2>2. UNCHANGED <<store, writes, faults>>
    BY <1>1 DEF Go, server
  <2> QED
    BY <1>0, <2>1, <2>2, ShowTakesAlong DEF PInv
<1>2. CASE Poll \/ Click \/ Submit
  <2>1. UNCHANGED <<store, writes, faults, tab, runId, view>> /\ submitting' \in BOOLEAN
    BY <1>2 DEF Poll, Click, Submit, page, server, PInv, PageTyped
  <2>2. \E c \in HonestCalls' : calls' = Append(calls, c)
    <3>1. CASE Poll
      BY <2>1, <3>1, NewCall DEF Poll, Polling, PInv, PageTyped
    <3>2. CASE Click
      BY <2>1, <3>2, NewCall DEF Click, PInv, PageTyped
    <3>3. CASE Submit
      BY <2>1, <3>3, NewCall DEF Submit
    <3> QED
      BY <1>2, <3>1, <3>2, <3>3
  <2>3. RunsGoOn /\ calls \in Seq(HonestCalls')
    BY <2>1, RunsStay, HonestKept, SeqOfLarger DEF PInv, view
  <2>4. calls' \in Seq(HonestCalls') /\ Len(calls') <= MaxCalls
    BY <1>0, <2>2, <2>3, PortalAssumption
  <2> QED
    BY <2>1, <2>3, <2>4, ViewKept DEF PInv, view
<1> QED
  BY <1>1, <1>2

(* Writes of others. *)
LEMMA WritePreserves ==
    ASSUME PInv, NEW r \in Runs, WriteRun(r) \/ RaiseGate(r)
    PROVE  PInv' /\ shown' = shown
<1>1. /\ UNCHANGED <<page, view, calls>> /\ writes' \in 0 .. MaxWrites
      /\ faults' \in 0 .. MaxFaults
  BY PortalAssumption DEF WriteRun, RaiseGate, PInv, PutRun, PutTicket
<1>2. RunsGoOn
  <2>1. CASE RaiseGate(r)
    BY <2>1, PutTicketGoesOn DEF RaiseGate, PInv
  <2>2. CASE WriteRun(r)
    <3>1. PICK status \in Status, idx \in {run[r].idx, run[r].idx + 1} \cap (0 .. NumSteps) :
             /\ status = "COMPLETED" => idx = NumSteps
             /\ PutRun(r, [status |-> status, idx |-> idx])
      BY <2>2 DEF WriteRun
    <3>2. run[r].idx \in 0 .. NumSteps /\ run[r].idx <= idx
      BY PortalAssumption DEF PInv, RunsTyped, Items
    <3>3. PICK item : item = [status |-> status, idx |-> idx]
      OBVIOUS
    <3>4. item \in Items /\ item.status = status /\ item.idx = idx
      BY <3>3 DEF Items
    <3> QED
      BY <3>1, <3>2, <3>3, <3>4, PutRunGoesOn DEF PInv
  <2> QED
    BY <2>1, <2>2
<1>3. calls' \in Seq(HonestCalls')
  BY <1>1, <1>2, HonestKept, SeqOfLarger DEF PInv, page, view
<1> QED
  BY <1>1, <1>2, <1>3, ViewKept DEF PInv, PageTyped, page, view

(* The writes have arrived: there is less of the past to read.             *)
LEMMA ReplicatePreserves ==
    ASSUME PInv, NEW r \in Runs, Replicate(r)
    PROVE  PInv' /\ shown' = shown
<1>1. UNCHANGED <<run, ticket, writes, faults, page, view, calls>>
  BY DEF Replicate
<1>2. RunsGoOn
  <2>1. /\ pastRun' \in [Runs -> SUBSET Items]
        /\ pastTicket' \in [Runs -> SUBSET {"none", "PENDING", "decided"}]
        /\ \A q \in Runs : pastRun'[q] \subseteq pastRun[q]
    BY DEF Replicate, PInv, RunsTyped
  <2>2. RunsTyped'
    BY <1>1, <2>1 DEF PInv, RunsTyped, RunReads
  <2>3. \A q \in Runs : run[q].idx <= run'[q].idx
    BY <1>1 DEF PInv, RunsTyped, RunReads
  <2> QED
    BY <1>1, <2>2, <2>3 DEF RunsGoOn
<1>3. calls' \in Seq(HonestCalls')
  BY <1>1, <1>2, HonestKept, SeqOfLarger DEF PInv, page, view
<1> QED
  BY <1>1, <1>2, <1>3, ViewKept DEF PInv, PageTyped, page, view

(* A call that is over is forgotten.                                       *)
LEMMA FinishPreserves ==
    ASSUME PInv, NEW i \in DOMAIN calls, NEW new \in Seq(HonestCalls'), Len(new) <= 1,
           Finish(i, new), UNCHANGED <<store, tab, runId, view>>,
           writes' \in 0 .. MaxWrites, faults' \in 0 .. MaxFaults
    PROVE  PInv'
<1>1. RemoveAt(calls, i) \in Seq(HonestCalls) /\ Len(RemoveAt(calls, i)) = Len(calls) - 1
  BY RemoveAtIsSeq DEF PInv
<1>2. RunsGoOn
  BY RunsStay DEF PInv
<1>3. RemoveAt(calls, i) \in Seq(HonestCalls')
  BY <1>1, <1>2, HonestKept, SeqOfLarger DEF PInv, view
<1>4. calls' \in Seq(HonestCalls') /\ Len(calls') = Len(calls) - 1 + Len(new)
  BY <1>1, <1>3 DEF Finish
<1>5. Len(calls') <= MaxCalls /\ submitting' \in BOOLEAN
  <2>1. Len(calls) \in Nat /\ Len(new) \in Nat /\ Len(calls) <= MaxCalls /\ submitting \in BOOLEAN
    BY DEF PInv, PageTyped
  <2> QED
    BY <1>4, <2>1, PortalAssumption DEF Finish
<1> QED
  BY <1>2, <1>4, <1>5, ViewKept

(* A handler's step that answers, or reads on, leaves the rest as it is.   *)
LEMMA ReplyPreserves ==
    ASSUME PInv, NEW i \in DOMAIN calls, NEW d \in HonestCalls', Reply(i, d), RunsGoOn,
           UNCHANGED <<tab, runId, view>>,
           writes' \in 0 .. MaxWrites, faults' \in 0 .. MaxFaults
    PROVE  PInv'
<1>1. Len(calls) \in Nat /\ DOMAIN calls = 1 .. Len(calls)
  BY DEF PInv
<1>2. HonestCalls \subseteq HonestCalls'
  BY HonestKept DEF PInv, view
<1>3. calls' \in [1 .. Len(calls) -> HonestCalls']
  BY <1>1, <1>2 DEF PInv, Reply
<1>4. calls' \in Seq(HonestCalls') /\ Len(calls') = Len(calls)
  BY <1>1, <1>3, FunctionIsSeq
<1> QED
  BY <1>4, ViewKept DEF PInv, PageTyped, Reply

(* get_run_status_handler reads the status before the index: a run it has  *)
(* read as COMPLETED is complete when it reads on, and an index read by a  *)
(* read that misses nothing is no older than what was shown before.        *)
LEMMA ReadOnHonest ==
    ASSUME PInv, NEW c \in HonestCalls, c.kind = "status", c.place # "answered",
           NEW item \in RunReads(c.run), item.status # "none"
    PROVE  ReadNext(c, item) \in HonestCalls
<1>1. c \in CallType /\ Honest(c) /\ c.run \in Runs
  BY DEF HonestCalls, CallType
<1>2. PICK now : now = run[c.run]
  OBVIOUS
<1>3. /\ item \in Items /\ now \in Items
      /\ item.status = "COMPLETED" => item.idx = NumSteps
      /\ item.idx <= now.idx
  BY <1>1, <1>2 DEF PInv, RunsTyped, RunReads
<1>4. /\ item.status \in Status /\ item.idx \in 0 .. NumSteps /\ now.idx \in 0 .. NumSteps
      /\ item.idx \in 0 .. Unread /\ item.idx # Unread
  BY <1>3, PortalAssumption DEF Items, Unread
<1>5. "none" \notin Status
  BY PortalAssumption DEF Status
<1>6. c.live => furthest <= now.idx
  BY <1>1, <1>2, <1>4, PortalAssumption DEF Honest, PInv, SeenIsReached, PageTyped
<1>7. PICK lagged \in BOOLEAN : lagged = (item # now)
  OBVIOUS
<1>8. CASE c.place = "sent"
  <2>1. PICK d : d = [c EXCEPT !.place = "half", !.status = item.status]
    OBVIOUS
  <2>2. /\ d \in CallType /\ d.kind = "status" /\ d.run = c.run /\ d.live = c.live
        /\ d.place = "half" /\ d.status = item.status /\ d.idx = c.idx
    BY <1>1, <1>4, <2>1 DEF CallType
  <2>3. item.status = "COMPLETED" => now.idx = NumSteps
    BY <1>3, <1>4, PortalAssumption
  <2>4. Honest(d)
    BY <1>1, <1>2, <1>4, <1>5, <1>8, <2>2, <2>3 DEF Honest
  <2> QED
    BY <1>8, <2>1, <2>2, <2>4 DEF ReadNext, HonestCalls
<1>9. CASE c.place = "half"
  <2>1. PICK d : d = [c EXCEPT !.place = "answered", !.idx = item.idx, !.lagged = lagged]
    OBVIOUS
  <2>2. /\ d \in CallType /\ d.kind = "status" /\ d.run = c.run /\ d.live = c.live
        /\ d.place = "answered" /\ d.status = c.status /\ d.idx = item.idx /\ d.lagged = lagged
        /\ d.overtaken = c.overtaken
    BY <1>1, <1>4, <2>1 DEF CallType
  <2>3. ~lagged => item.idx = now.idx
    BY <1>7
  <2>4. Honest(d)
    BY <1>1, <1>2, <1>3, <1>4, <1>6, <1>9, <2>2, <2>3 DEF Honest
  <2> QED
    BY <1>2, <1>7, <1>9, <2>1, <2>2, <2>4 DEF ReadNext, HonestCalls
<1> QED
  BY <1>1, <1>8, <1>9 DEF CallType

(* Every handler's step. *)
LEMMA ServePreserves ==
    ASSUME PInv, NEW i \in DOMAIN calls, Serve(i)
    PROVE  PInv' /\ shown' = shown
<1> SUFFICES PInv'
  BY DEF Serve, view
<1> DEFINE c == calls[i]
<1>1. /\ c \in HonestCalls /\ c \in CallType /\ Honest(c) /\ c.run \in Runs /\ c.ticket \in Runs
  BY DEF PInv, HonestCalls, CallType
<1>2. /\ UNCHANGED <<tab, runId, view, writes>> /\ shown' = shown
      /\ furthest' = furthest /\ gone' = gone /\ writes' \in 0 .. MaxWrites
      /\ c.place # "answered"
  BY DEF Serve, view, PInv
<1>3. CASE Finish(i, <<>>) /\ UNCHANGED <<store, faults>>
  <2>1. <<>> \in Seq(HonestCalls') /\ Len(<<>>) <= 1
    OBVIOUS
  <2> QED
    BY <1>2, <1>3, <2>1, FinishPreserves DEF PInv
<1>4. ASSUME c.kind = "status", UNCHANGED <<store, faults>>,
             NEW item \in RunReads(c.run), item.status # "none", Reply(i, ReadNext(c, item))
      PROVE  PInv'
  <2>1. ReadNext(c, item) \in HonestCalls
    BY <1>1, <1>2, <1>4, ReadOnHonest
  <2>2. RunsGoOn
    BY <1>4, RunsStay DEF PInv
  <2>3. ReadNext(c, item) \in HonestCalls'
    BY <1>2, <2>1, <2>2, HonestKept DEF PInv
  <2> QED
    BY <1>2, <1>4, <2>2, <2>3, ReplyPreserves DEF PInv
<1>5. ASSUME c.kind = "list", UNCHANGED <<store, faults>>, NEW status \in TicketReads(c.run),
             NEW pending, pending = {t \in {c.run} : status = "PENDING"},
             NEW lagged, lagged = (status # ticket[c.run]),
             Reply(i, [c EXCEPT !.place = "answered", !.pending = pending, !.lagged = lagged])
      PROVE  PInv'
  <2>1. PICK d : d = [c EXCEPT !.place = "answered", !.pending = pending, !.lagged = lagged]
    OBVIOUS
  <2>2. pending \in SUBSET Runs /\ lagged \in BOOLEAN /\ (~lagged => pending \cap gone = {})
    BY <1>1, <1>5 DEF PInv, SeenIsReached
  <2>3. /\ d \in CallType /\ d.kind = "list" /\ d.pending = pending /\ d.lagged = lagged
        /\ d.live = c.live
    BY <1>1, <1>5, <2>1, <2>2 DEF CallType
  <2>4. d \in HonestCalls'
    BY <1>1, <1>2, <1>5, <2>2, <2>3 DEF HonestCalls, Honest
  <2>5. RunsGoOn
    BY <1>5, RunsStay DEF PInv
  <2> QED
    BY <1>2, <1>5, <2>1, <2>4, <2>5, ReplyPreserves DEF PInv
<1>6. ASSUME c.kind \in {"decide", "start"}, RunsGoOn, faults' \in 0 .. MaxFaults,
             Reply(i, [c EXCEPT !.place = "answered"])
      PROVE  PInv'
  <2>1. PICK d : d = [c EXCEPT !.place = "answered"]
    OBVIOUS
  <2>2. d \in CallType /\ d.kind = c.kind /\ d.live = c.live
    BY <1>1, <2>1 DEF CallType
  <2>3. d \in HonestCalls'
    BY <1>1, <1>2, <1>6, <2>2 DEF HonestCalls, Honest
  <2> QED
    BY <1>2, <1>6, <2>1, <2>3, ReplyPreserves
<1>7. CASE ServeStatus(i)
  BY <1>3, <1>4, <1>7 DEF ServeStatus
<1>8. CASE ServeList(i)
  BY <1>5, <1>8 DEF ServeList
<1>9. CASE ServeDecide(i)
  <2>1. CASE PutTicket(c.ticket, "decided") /\ Reply(i, [c EXCEPT !.place = "answered"])
    <3>1. RunsGoOn
      BY <1>1, <2>1, PutTicketGoesOn DEF PInv
    <3>2. faults' \in 0 .. MaxFaults
      BY <2>1, PortalAssumption DEF PutTicket, PInv
    <3> QED
      BY <1>6, <1>9, <2>1, <3>1, <3>2 DEF ServeDecide
  <2> QED
    BY <1>3, <1>9, <2>1 DEF ServeDecide
<1>10. CASE ServeStart(i)
  <2>1. PICK item : item = [run[c.run] EXCEPT !.status = "RUNNING"]
    OBVIOUS
  <2>2. item \in Items /\ item.status = "RUNNING" /\ run[c.run].idx <= item.idx
    <3>1. run[c.run] \in Items /\ "RUNNING" \in Status
      BY <1>1, PortalAssumption DEF PInv, RunsTyped, Status
    <3>2. item = [status |-> "RUNNING", idx |-> run[c.run].idx] /\ run[c.run].idx \in 0 .. NumSteps
      BY <2>1, <3>1 DEF Items
    <3> QED
      BY <3>1, <3>2, PortalAssumption DEF Items
  <2>3. PutRun(c.run, item) /\ Reply(i, [c EXCEPT !.place = "answered"]) /\ c.kind = "start"
    BY <1>10, <2>1 DEF ServeStart
  <2>4. RunsGoOn
    BY <1>1, <2>2, <2>3, PutRunGoesOn DEF PInv
  <2>5. faults' \in 0 .. MaxFaults
    BY <2>3, PortalAssumption DEF PutRun, PInv
  <2> QED
    BY <1>6, <2>3, <2>4, <2>5
<1> QED
  BY <1>2, <1>7, <1>8, <1>9, <1>10 DEF Serve

(* An answer is shown if its view still wants it; it is older than what    *)
(* the view has shown only if it was overtaken or missed a write, and      *)
(* those in flight beside it are overtaken by it.                          *)
LEMMA DeliverPreserves ==
    ASSUME PInv, NEW i \in DOMAIN calls, Deliver(i)
    PROVE  /\ PInv'
           /\ shown' # shown => tab' = "status" /\ shown'.run = runId'
<1> DEFINE c == calls[i]
           mark(d) == IF c.live /\ d.live /\ d.kind = c.kind
                        THEN [d EXCEPT !.overtaken = TRUE] ELSE d
           marked == [j \in DOMAIN calls |-> mark(calls[j])]
<1>1. /\ c \in CallType /\ Honest(c) /\ c.run \in Runs
      /\ Len(calls) \in Nat /\ DOMAIN calls = 1 .. Len(calls)
  BY DEF PInv, HonestCalls, CallType
<1>2. /\ UNCHANGED <<store, run, ticket, writes, tab, runId, submitting, faults>>
      /\ c.place = "answered" /\ c.kind \in {"status", "list"}
      /\ RunsTyped /\ RunsTyped'
  BY RunsStay DEF Deliver, server, store, page, PInv, RunsGoOn
<1>3. /\ UNCHANGED <<furthest, gone>> \/ c.live
      /\ c.kind # "status" => furthest' = furthest
      /\ c.kind # "list" => gone' = gone
  BY DEF Deliver, Counts, ShowStatus, ShowList, view
<1>4. ASSUME NEW d \in HonestCalls PROVE mark(d) \in HonestCalls'
  <2>1. d \in CallType /\ Honest(d)
    BY DEF HonestCalls
  <2>2. CASE c.live /\ d.live /\ d.kind = c.kind
    <3>1. PICK e : e = [d EXCEPT !.overtaken = TRUE]
      OBVIOUS
    <3>2. /\ e \in CallType /\ e.overtaken
          /\ e.kind = d.kind /\ e.run = d.run /\ e.live = d.live /\ e.place = d.place
          /\ e.status = d.status /\ e.idx = d.idx /\ e.lagged = d.lagged
      BY <2>1, <3>1 DEF CallType
    <3>3. e \in HonestCalls'
      BY <1>2, <2>1, <3>2 DEF HonestCalls, Honest
    <3> QED
      BY <2>2, <3>1, <3>3
  <2>3. CASE ~(c.live /\ d.live /\ d.kind = c.kind)
    <3>1. d \in HonestCalls'
      BY <1>2, <1>3, <2>1, <2>3 DEF HonestCalls, Honest
    <3> QED
      BY <2>3, <3>1
  <2> QED
    BY <2>2, <2>3
<1> HIDE DEF mark
<1>5. marked \in [1 .. Len(calls) -> HonestCalls']
  BY <1>1, <1>4 DEF PInv
<1>6. marked \in Seq(HonestCalls') /\ DOMAIN marked = DOMAIN calls /\ Len(marked) = Len(calls)
  BY <1>1, <1>5, FunctionIsSeq
<1>7. calls' = RemoveAt(marked, i)
  BY DEF Deliver, Others, mark
<1> HIDE DEF marked
<1>8. calls' \in Seq(HonestCalls') /\ Len(calls') <= MaxCalls
  <2>1. Len(calls) <= MaxCalls
    BY DEF PInv
  <2>2. calls' \in Seq(HonestCalls') /\ Len(calls') = Len(calls) - 1
    BY <1>6, <1>7, RemoveAtIsSeq
  <2> QED
    BY <1>1, <2>1, <2>2, PortalAssumption
<1>9. CASE ~c.live
  <2>1. UNCHANGED view
    BY <1>9 DEF Deliver, Counts
  <2> QED
    BY <1>2, <1>8, <2>1, RunsStay, ViewKept DEF PInv, PageTyped, view
<1>10. CASE c.live /\ c.kind = "list"
  <2>1. /\ listed' = c.pending
        /\ gone' = gone \cup {t \in {c.run} : t \notin c.pending /\ ticket[t] = "decided"}
        /\ late' = Lateness(c)
        /\ UNCHANGED <<shown, furthest>>
    BY <1>10 DEF Deliver, Counts, ShowList
  <2>2. PageTyped'
    BY <1>1, <1>2, <2>1 DEF PInv, PageTyped, CallType, Lateness
  <2>3. SeenIsReached' /\ tab = "approval" /\ shown' = Blank
    BY <1>1, <1>2, <1>10, <2>1 DEF PInv, SeenIsReached, PageTyped, Honest
  <2>4. late' = {} => listed' \cap gone' = {}
    BY <1>1, <1>2, <1>10, <2>1 DEF Honest, Lateness
  <2>5. BackOnlyIfLate' /\ CompletedShownWhole'
    BY <2>3, <2>4 DEF BackOnlyIfLate, CompletedShownWhole
  <2> QED
    BY <1>2, <1>8, <2>1, <2>2, <2>3, <2>5 DEF PInv
<1>11. CASE c.live /\ c.kind = "status"
  <2>1. /\ shown' = [run |-> c.run, status |-> c.status, idx |-> c.idx]
        /\ furthest' = IF c.idx > furthest THEN c.idx ELSE furthest
        /\ late' = Lateness(c)
        /\ UNCHANGED <<listed, gone>>
    BY <1>11 DEF Deliver, Counts, ShowStatus
  <2>2. /\ c.status \in Status /\ c.idx \in 0 .. NumSteps /\ furthest \in 0 .. NumSteps
        /\ tab = "status" /\ runId = c.run /\ c.idx <= run[c.run].idx
        /\ run[c.run].idx \in 0 .. NumSteps
    <3>1. run[c.run] \in Items /\ furthest \in 0 .. NumSteps
      BY <1>1, <1>2 DEF RunsTyped, PInv, PageTyped
    <3>2. run[c.run].idx \in 0 .. NumSteps
      BY <3>1 DEF Items
    <3>3. /\ c.status \in Status \cup {"none"} /\ c.status # "none"
          /\ c.idx \in 0 .. Unread /\ c.idx # Unread
      BY <1>1, <1>2, <1>11 DEF Honest, CallType
    <3> QED
      BY <1>1, <1>2, <1>11, <3>1, <3>2, <3>3, PortalAssumption DEF Honest, Unread
  <2>3. PageTyped'
    BY <1>1, <1>2, <2>1, <2>2 DEF PInv, PageTyped, CallType, Lateness
  <2>4. SeenIsReached' /\ gone' = {}
    BY <1>1, <1>2, <2>1, <2>2, PortalAssumption DEF PInv, SeenIsReached
  <2>5. CompletedShownWhole'
    BY <1>1, <1>2, <1>11, <2>1 DEF Honest, CompletedShownWhole, Lateness
  <2>6. late' = {} => furthest' = c.idx
    BY <1>1, <1>2, <1>11, <2>1, <2>2, PortalAssumption DEF Honest, Lateness
  <2>7. BackOnlyIfLate'
    BY <1>1, <2>1, <2>4, <2>6 DEF BackOnlyIfLate
  <2> QED
    BY <1>2, <1>8, <2>1, <2>2, <2>3, <2>4, <2>5, <2>7 DEF PInv
<1> QED
  BY <1>1, <1>2, <1>9, <1>10, <1>11 DEF CallType

(* A decision, and the run just started, by their answers; and failures. *)
LEMMA ReturnPreserves ==
    ASSUME PInv, NEW i \in DOMAIN calls, DeliverDecision(i) \/ DeliverStart(i) \/ Fail(i)
    PROVE  PInv' /\ shown' \in {shown, Blank}
<1> DEFINE c == calls[i]
<1>1. c.run \in Runs /\ c.live \in BOOLEAN /\ Honest(c)
  BY DEF PInv, HonestCalls, CallType
<1>2. /\ <<>> \in Seq(HonestCalls') /\ Len(<<>>) <= 1
      /\ \A d \in HonestCalls' : <<d>> \in Seq(HonestCalls') /\ Len(<<d>>) <= 1
  OBVIOUS
<1>3. CASE DeliverDecision(i)
  <2>1. c.live => tab' = "approval"
    BY <1>1, <1>3 DEF DeliverDecision, Honest
  <2>2. Call("list", c.run, c.run, c.live) \in HonestCalls'
    BY <1>1, <2>1, NewCall
  <2>3. /\ Finish(i, <<Call("list", c.run, c.run, c.live)>>)
        /\ UNCHANGED <<store, writes, faults, tab, runId, view>>
    BY <1>3 DEF DeliverDecision, server
  <2> QED
    BY <1>2, <2>2, <2>3, FinishPreserves DEF PInv, view
<1>4. CASE Fail(i)
  <2>1. /\ Finish(i, <<>>) /\ UNCHANGED <<store, writes, tab, runId, view>>
        /\ faults' \in 0 .. MaxFaults
    BY <1>4, PortalAssumption DEF Fail, server, PInv
  <2> QED
    BY <1>2, <2>1, FinishPreserves DEF PInv, view
<1>5. CASE DeliverStart(i) /\ Finish(i, <<>>) /\ UNCHANGED <<tab, runId, view>>
  <2>1. UNCHANGED <<store, writes, faults>>
    BY <1>5 DEF DeliverStart, server
  <2> QED
    BY <1>2, <1>5, <2>1, FinishPreserves DEF PInv, view
<1>6. CASE DeliverStart(i) /\ Show("status", c.run, RemoveAt(calls, i))
  <2>1. RemoveAt(calls, i) \in Seq(HonestCalls) /\ Len(RemoveAt(calls, i)) < MaxCalls
    <3>1. Len(calls) \in Nat /\ Len(calls) <= MaxCalls
      BY DEF PInv
    <3> QED
      BY <3>1, RemoveAtIsSeq, PortalAssumption DEF PInv
  <2>2. UNCHANGED <<store, writes, faults>>
    BY <1>6 DEF DeliverStart, server
  <2> QED
    BY <1>1, <1>6, <2>1, <2>2, ShowTakesAlong DEF Tabs, PInv
<1> QED
  BY <1>3, <1>4, <1>5, <1>6 DEF DeliverStart

-------------------------------------------------------------------------------
(* What a step may show, beyond the invariant.                             *)
ShowsCurrent == shown' # shown /\ shown' # Blank => tab' = "status" /\ shown'.run = runId'

(* Every step keeps the invariant, and what it newly shows is of the run   *)
(* that the page is at.                                                    *)
LEMMA StepShowsCurrent == PInv /\ [Next]_vars => PInv' /\ ShowsCurrent
<1> SUFFICES ASSUME PInv, [Next]_vars PROVE PInv' /\ ShowsCurrent
  OBVIOUS
<1>1. CASE UNCHANGED vars
  <2>1. /\ UNCHANGED <<store, writes, faults, tab, runId, submitting, view, calls>>
        /\ UNCHANGED <<shown, furthest, gone>>
    BY <1>1 DEF vars, server, page, view
  <2>2. RunsGoOn /\ calls' \in Seq(HonestCalls')
    BY <2>1, RunsStay, HonestKept, SeqOfLarger DEF PInv
  <2> QED
    BY <2>1, <2>2, ViewKept DEF PInv, PageTyped, ShowsCurrent
<1>2. CASE Next
  BY <1>2, WritePreserves, ReplicatePreserves, UserPreserves, ServePreserves, DeliverPreserves,
     ReturnPreserves DEF Next, Answer, ShowsCurrent
<1> QED
  BY <1>1, <1>2

(* The invariant holds in every reachable state.                           *)
LEMMA PInvHolds == Spec => []PInv
<1>1. Init => PInv
  <2> SUFFICES ASSUME Init PROVE PInv
    OBVIOUS
  <2>1. RunsTyped
    BY PortalAssumption DEF Init, RunsTyped, RunReads, Items
  <2>2. PageTyped
    <3>1. submitting \in BOOLEAN /\ late \subseteq {"overtaken", "lagged"}
      BY DEF Init
    <3>2. furthest \in 0 .. NumSteps
      BY PortalAssumption DEF Init
    <3> QED
      BY <3>1, <3>2 DEF Init, PageTyped, Tabs
  <2>3. calls \in Seq(HonestCalls) /\ Len(calls) <= MaxCalls
    BY PortalAssumption DEF Init
  <2>4. SeenIsReached /\ CompletedShownWhole /\ BackOnlyIfLate
    BY DEF Init, SeenIsReached, CompletedShownWhole, BackOnlyIfLate
  <2>5. writes \in 0 .. MaxWrites /\ faults \in 0 .. MaxFaults
    BY PortalAssumption DEF Init
  <2> QED
    BY <2>1, <2>2, <2>3, <2>4, <2>5 DEF PInv
<1> QED
  BY <1>1, StepShowsCurrent, PTL DEF Spec

(* Every variable keeps to its type, and a call that has not been answered *)
(* in full has no index to show.                                           *)
THEOREM PageWellTyped == Spec => []TypeOK
<1>1. PInv => TypeOK
  <2>1. ASSUME NEW c \in HonestCalls
        PROVE  /\ c.run \in Runs /\ c.ticket \in Runs
               /\ c.kind = "status" => /\ c.place = "sent" <=> c.status = "none"
                                       /\ c.place = "answered" <=> c.idx # Unread
    BY DEF HonestCalls, CallType, Honest
  <2> QED
    BY <2>1 DEF PInv, RunsTyped, PageTyped, Items, TypeOK
<1> QED
  BY <1>1, PInvHolds, PTL

(* COMPLETED is shown over a task graph with an open step only if the read *)
(* of that task graph missed a write.                                      *)
THEOREM NothingTorn == Spec => []CompletedShownWhole
<1>1. PInv => CompletedShownWhole
  BY DEF PInv
<1> QED
  BY <1>1, PInvHolds, PTL

(* What a view shows has gone back only while the answer it shows was      *)
(* overtaken by that of another of its calls, or its read missed a write.  *)
THEOREM NothingGoesBack == Spec => []BackOnlyIfLate
<1>1. PInv => BackOnlyIfLate
  BY DEF PInv
<1> QED
  BY <1>1, PInvHolds, PTL

(* Nothing newly shown is of another run than the page's.                  *)
THEOREM NothingForeign == Spec => ShownIsCurrent
<1>1. PInv /\ [Next]_vars =>
        [shown' # shown /\ shown' # Blank => tab' = "status" /\ shown'.run = runId']_vars
  BY StepShowsCurrent DEF ShowsCurrent
<1> QED
  BY <1>1, PInvHolds, PTL DEF Spec, ShownIsCurrent
===============================================================================
