----------------------------- MODULE AgentsProofs -----------------------------
(***************************************************************************)
(* What the agents leave behind is right for any number of racing workers  *)
(* and any number of deaths, refusals and failed reads: the references     *)
(* recorded, the bytes behind them, the order of the audit event and the   *)
(* blueprint, the one pull request.                                        *)
(***************************************************************************)
EXTENDS Agents, TLAPS

(* The one document each step writes, as long as no read fails. *)
Original(s) == [step |-> s, basis |-> IF s = 2 THEN 0 ELSE Nothing]

(* Every task has a location of its own, all but one of them in the bucket. *)
LEMMA LocationsDiffer ==
    /\ \A s \in Steps : Location(s) \in Locations
    /\ \A s, t \in Steps : Location(s) = Location(t) => s = t
    /\ \A s \in Steps : Location(s) \in Files <=> s # 3
    /\ "none" \notin Locations
<1>1. \A s \in Steps : s = 0 \/ s = 1 \/ s = 2 \/ s = 3 \/ s = 4 \/ s = 5
  BY DEF Steps
<1>2. /\ Location(0) = "inventory.json"
      /\ Location(1) = "inventory-findings.json"
      /\ Location(2) = "blueprint.json"
      /\ Location(3) = PortfolioKey
      /\ Location(4) = "security-review.json"
      /\ Location(5) = "tf-plan.tf"
  BY DEF Location
<1>3. \A s \in Steps : Location(s) \in Locations
  BY <1>1, <1>2 DEF Locations, Files
<1>4. \A s \in Steps : Location(s) \in Files <=> s # 3
  BY <1>1, <1>2 DEF Files, PortfolioKey
<1>5. \A s, t \in Steps : Location(s) = Location(t) => s = t
  BY <1>1, <1>2 DEF PortfolioKey
<1>6. "none" \notin Locations
  BY DEF Locations, Files, PortfolioKey
<1> QED
  BY <1>3, <1>4, <1>5, <1>6

-------------------------------------------------------------------------------
(* A prefix of the graph is recorded, each output at its own location.     *)
Recorded(state) ==
    \A s \in Steps : state.outputs[s] = IF s < state.idx THEN Location(s) ELSE "none"

RunsRecorded ==
    /\ Recorded(item) /\ item.exists
    /\ \A w \in Workers :
          /\ Recorded(snap[w]) /\ snap[w].idx <= item.idx
          /\ pc[w] # "idle" => snap[w].exists

(* A location holds nothing or a document of its step, and the original    *)
(* one unless a read has failed.                                           *)
StoreInOrder ==
    \A s \in Steps : s # 3 /\ store[Location(s)] # Absent =>
        /\ store[Location(s)].step = s
        /\ ~misread => store[Location(s)] = Original(s)

(* What is recorded, or about to be, is there. *)
RecordedIsStored ==
    /\ config.bucket => \A s \in Steps : s < item.idx /\ s # 3 => store[Location(s)] # Absent
    /\ \A w \in Workers : pc[w] = "save" =>
          /\ out[w] = Location(Task(w))
          /\ config.bucket /\ Task(w) # 3 => store[Location(Task(w))] # Absent

(* Where an execution of a step may stand, and what it has read by then.   *)
PlacesMatch ==
    \A w \in Workers :
        /\ pc[w] \in {"repo", "ref", "pull"} => Task(w) = 5
        /\ pc[w] = "flag" => Task(w) = 2
        /\ pc[w] = "read" => Task(w) \in {1, 2}
        /\ pc[w] = "write" => Task(w) # 3
        /\ pc[w] = "write" /\ Task(w) = 1 => text[w] = Nothing
        /\ pc[w] = "write" /\ Task(w) = 2 /\ config.bucket /\ ~misread => text[w] = 0

ConflictKnown ==
    /\ ConflictFlaggedFirst
    /\ \A w \in Workers : pc[w] \in {"read", "write"} /\ Task(w) = 2 => flagged

(* Whoever stands before the pull request is alone there, with a branch    *)
(* that has no pull request yet.                                           *)
OneBranchOnePull ==
    /\ OnePullRequest
    /\ branches = {} => pulls = 0
    /\ \A w \in Workers : pc[w] = "pull" =>
          branches # {} /\ pulls = 0 /\ \A v \in Workers : pc[v] = "pull" => v = w

AInv ==
    /\ TypeOK /\ RunsRecorded /\ StoreInOrder /\ RecordedIsStored
    /\ PlacesMatch /\ ConflictKnown /\ OneBranchOnePull

(* The invariant of the agents holds before the run is worked on.          *)
LEMMA InitiallyA == Init => AInv
<1> SUFFICES ASSUME Init PROVE AInv
  OBVIOUS
<1> USE DEF Init
<1>1. TypeOK
  <2>1. NoRun \in RunStates /\ NewRun \in RunStates
    <3>1. 0 \in 0 .. 6 /\ "PENDING" \in Statuses /\ {} \in SUBSET Steps
      BY DEF Statuses
    <3>2. [s \in Steps |-> "none"] \in [Steps -> Locations \cup {"none"}]
      OBVIOUS
    <3> QED
      BY <3>1, <3>2 DEF NewRun, NoRun, RunStates
  <2>2. 0 \in 0 .. MaxFaults
    BY FaultsAssumption
  <2> QED
    BY <2>1, <2>2 DEF TypeOK, AgentPC
<1>2. RunsRecorded
  BY DEF RunsRecorded, Recorded, NewRun, NoRun, Steps
<1>3. StoreInOrder /\ RecordedIsStored
  BY LocationsDiffer DEF StoreInOrder, RecordedIsStored, NewRun, NoRun, Steps
<1>4. PlacesMatch /\ ConflictKnown /\ OneBranchOnePull
  BY DEF PlacesMatch, ConflictKnown, ConflictFlaggedFirst, OneBranchOnePull, OnePullRequest, Files
<1> QED
  BY <1>1, <1>2, <1>3, <1>4 DEF AInv

-------------------------------------------------------------------------------
(* route_task takes a copy of a run that is not finished. *)
LEMMA RoutePreserves ==
    ASSUME AInv, NEW w \in Workers, Route(w)
    PROVE  AInv'
<1> USE DEF AInv, Route, Goto, world, Task
<1>1. TypeOK'
  BY DEF TypeOK, Finished, RunStates, Steps, AgentPC
<1>2. RunsRecorded'
  BY DEF RunsRecorded, Recorded, TypeOK, RunStates
<1>3. StoreInOrder' /\ RecordedIsStored'
  BY DEF StoreInOrder, RecordedIsStored, TypeOK
<1>4. PlacesMatch' /\ ConflictKnown' /\ OneBranchOnePull'
  BY DEF PlacesMatch, ConflictKnown, ConflictFlaggedFirst, OneBranchOnePull, OnePullRequest, TypeOK
<1> QED
  BY <1>1, <1>2, <1>3, <1>4

(* The tool calls lead each task to the place its agent goes on from.      *)
LEMMA CallToolsPreserves ==
    ASSUME AInv, NEW w \in Workers, CallTools(w)
    PROVE  AInv'
<1> USE DEF AInv, Goto, world, Task
<1>1. \/ Task(w) \in {0, 4} /\ pc' = [pc EXCEPT ![w] = "write"] /\ out' = out
      \/ Task(w) = 1 /\ pc' = [pc EXCEPT ![w] = "read"] /\ out' = out
      \/ Task(w) = 2 /\ pc' = [pc EXCEPT ![w] = "flag"] /\ out' = out
      \/ Task(w) = 5 /\ pc' = [pc EXCEPT ![w] = "repo"] /\ out' = out
      \/ /\ Task(w) = 3 /\ pc' = [pc EXCEPT ![w] = "save"]
         /\ out' = [out EXCEPT ![w] = Location(3)]
  BY DEF CallTools, Collect, Reason, Modernize, Review, Deploy, Assess, Calls, Location
<1>2. /\ pc[w] = "tools"
      /\ UNCHANGED <<item, config, world, snap, text, faults, misread>>
  BY DEF CallTools, Collect, Reason, Modernize, Review, Deploy, Assess, Calls
<1>3. TypeOK'
  BY <1>1, <1>2, LocationsDiffer DEF TypeOK, AgentPC, Steps
<1>4. RunsRecorded' /\ StoreInOrder'
  BY <1>1, <1>2 DEF RunsRecorded, Recorded, StoreInOrder, TypeOK
<1>5. RecordedIsStored'
  BY <1>1, <1>2 DEF RecordedIsStored, TypeOK
<1>6. PlacesMatch' /\ ConflictKnown' /\ OneBranchOnePull'
  BY <1>1, <1>2 DEF PlacesMatch, ConflictKnown, ConflictFlaggedFirst, OneBranchOnePull,
                    OnePullRequest, TypeOK
<1> QED
  BY <1>3, <1>4, <1>5, <1>6

(* The audit event of the conflict, which there always is. *)
LEMMA FlagConflictPreserves ==
    ASSUME AInv, NEW w \in Workers, FlagConflict(w)
    PROVE  AInv'
<1> USE DEF AInv, FlagConflict, Goto, Task
<1>1. flagged' = TRUE
  BY DEF KbConflict, CuratedS3Kb, CuratedAwsDocs, TypeOK
<1>2. TypeOK'
  BY <1>1 DEF TypeOK, AgentPC
<1>3. RunsRecorded' /\ StoreInOrder' /\ RecordedIsStored'
  BY DEF RunsRecorded, Recorded, StoreInOrder, RecordedIsStored, TypeOK
<1>4. PlacesMatch' /\ ConflictKnown' /\ OneBranchOnePull'
  BY <1>1 DEF PlacesMatch, ConflictKnown, ConflictFlaggedFirst, OneBranchOnePull,
              OnePullRequest, TypeOK
<1> QED
  BY <1>2, <1>3, <1>4

(* With a bucket and no failed read the blueprint's agent has the original *)
(* inventory; the findings' agent never has a document.                    *)
LEMMA ReadInventoryPreserves ==
    ASSUME AInv, NEW w \in Workers, ReadInventory(w)
    PROVE  AInv'
<1> USE DEF AInv
<1>1. /\ pc[w] = "read" /\ pc' = [pc EXCEPT ![w] = "write"]
      /\ UNCHANGED <<item, config, world, snap, out>>
  BY DEF ReadInventory, Goto
<1>2. \/ /\ text' = [text EXCEPT ![w] =
                IF 0 \in DOMAIN Inputs(snap[w], Task(w)) /\ config.bucket
                  THEN store[Inputs(snap[w], Task(w))[0]].step ELSE Nothing]
         /\ UNCHANGED <<faults, misread>>
      \/ /\ 0 \in DOMAIN Inputs(snap[w], Task(w))
         /\ Fault /\ misread' = TRUE /\ text' = text
  BY DEF ReadInventory
<1>3. snap[w].idx \in Steps /\ Task(w) = snap[w].idx /\ Task(w) \in {1, 2}
  BY <1>1 DEF TypeOK, PlacesMatch, Task
<1>4. Task(w) = 1 => 0 \notin DOMAIN Inputs(snap[w], Task(w))
  BY DEF Inputs, Upstream
<1>5. Task(w) = 2 =>
        /\ 0 \in DOMAIN Inputs(snap[w], Task(w))
        /\ Inputs(snap[w], Task(w))[0] = Location(0)
        /\ config.bucket => store[Location(0)].step = 0
  <2> SUFFICES ASSUME Task(w) = 2
               PROVE  /\ 0 \in DOMAIN Inputs(snap[w], Task(w))
                      /\ Inputs(snap[w], Task(w))[0] = Location(0)
                      /\ config.bucket => store[Location(0)].step = 0
    OBVIOUS
  <2>1. 0 \in Steps /\ snap[w].outputs[0] = Location(0) /\ snap[w].outputs[0] # "none"
    BY <1>3, LocationsDiffer DEF RunsRecorded, Recorded, Steps
  <2>2. Inputs(snap[w], 2) = [u \in {0} |-> snap[w].outputs[u]]
    BY <2>1 DEF Inputs, Upstream
  <2>3. config.bucket => store[Location(0)] # Absent
    BY <1>3, <2>1 DEF RunsRecorded, RecordedIsStored, TypeOK, RunStates, Steps
  <2> QED
    BY <2>1, <2>2, <2>3 DEF StoreInOrder
<1>6. TypeOK'
  <2>1. text' \in [Workers -> Steps \cup {Nothing}]
    BY <1>2, <1>3, <1>4, <1>5 DEF TypeOK, Steps
  <2>2. faults' \in 0 .. MaxFaults
    BY <1>2, FaultsAssumption DEF TypeOK, Fault
  <2>3. misread' \in BOOLEAN
    BY <1>2 DEF TypeOK
  <2> QED
    BY <1>1, <2>1, <2>2, <2>3 DEF TypeOK, AgentPC, world, Branch
<1>7. RunsRecorded' /\ RecordedIsStored'
  BY <1>1 DEF RunsRecorded, Recorded, RecordedIsStored, TypeOK, world, Task
<1>8. StoreInOrder'
  BY <1>1, <1>2 DEF StoreInOrder, world, TypeOK
<1>9. PlacesMatch'
  <2>1. ASSUME NEW v \in Workers, v # w
        PROVE  text'[v] = text[v] /\ pc'[v] = pc[v] /\ Task(v)' = Task(v)
    BY <1>1, <1>2, <2>1 DEF TypeOK, Task
  <2>2. pc'[w] = "write" /\ Task(w)' = Task(w)
    BY <1>1 DEF TypeOK, Task
  <2>3. Task(w) = 1 => text'[w] = Nothing
    BY <1>2, <1>4 DEF TypeOK
  <2>4. Task(w) = 2 /\ config.bucket /\ ~misread' => text'[w] = 0
    BY <1>2, <1>5 DEF TypeOK
  <2>5. misread => misread'
    BY <1>2
  <2> QED
    BY <1>1, <1>3, <2>1, <2>2, <2>3, <2>4, <2>5 DEF PlacesMatch
<1>10. ConflictKnown' /\ OneBranchOnePull'
  BY <1>1 DEF ConflictKnown, ConflictFlaggedFirst, OneBranchOnePull, OnePullRequest,
              TypeOK, world, Task
<1> QED
  BY <1>6, <1>7, <1>8, <1>9, <1>10

(* Of the executions of the last step, one creates the branch and may go   *)
(* on to the pull request; a death or a refusal takes it back from there.  *)
LEMMA OpenPullRequestPreserves ==
    ASSUME AInv, NEW w \in Workers, ReadRepository(w) \/ CreateBranch(w) \/ OpenPull(w)
    PROVE  AInv'
<1> USE DEF AInv, Goto, Refused, Fault
<1>1. /\ pc[w] \in {"repo", "ref", "pull"} /\ Task(w) = 5
      /\ \E place \in {"ref", "pull", "write"} : pc' = [pc EXCEPT ![w] = place]
      /\ UNCHANGED <<item, config, store, flagged, snap, text, out, misread>>
  BY DEF ReadRepository, CreateBranch, OpenPull, PlacesMatch
<1>2. TypeOK'
  <2>1. faults' \in 0 .. MaxFaults
    BY FaultsAssumption DEF ReadRepository, CreateBranch, OpenPull, TypeOK
  <2>2. branches' \subseteq {"daf"} /\ pulls' \in Nat
    BY DEF ReadRepository, CreateBranch, OpenPull, TypeOK, Branch
  <2> QED
    BY <1>1, <2>1, <2>2 DEF TypeOK, AgentPC, Branch
<1>3. RunsRecorded' /\ StoreInOrder' /\ RecordedIsStored'
  BY <1>1 DEF RunsRecorded, Recorded, StoreInOrder, RecordedIsStored, TypeOK, Task
<1>4. PlacesMatch' /\ ConflictKnown'
  BY <1>1 DEF PlacesMatch, ConflictKnown, ConflictFlaggedFirst, TypeOK, Task
<1>5. OneBranchOnePull'
  <2> USE DEF OneBranchOnePull, OnePullRequest, TypeOK
  <2>1. CASE ReadRepository(w)
    BY <2>1 DEF ReadRepository
  <2>2. CASE CreateBranch(w)
    <3>1. CASE pc' = [pc EXCEPT ![w] = "pull"] /\ branches' = {"daf"} /\ pulls' = pulls /\ branches = {}
      BY <3>1
    <3>2. CASE pc' = [pc EXCEPT ![w] = "write"] /\ branches' = branches /\ pulls' = pulls
      BY <3>2
    <3>3. \/ /\ pc' = [pc EXCEPT ![w] = "pull"] /\ pulls' = pulls
             /\ branches' = {"daf"} /\ branches = {}
          \/ pc' = [pc EXCEPT ![w] = "write"] /\ branches' = branches /\ pulls' = pulls
      BY <2>2 DEF CreateBranch, Branch
    <3> QED
      BY <3>1, <3>2, <3>3
  <2>3. CASE OpenPull(w)
    BY <2>3 DEF OpenPull
  <2> QED
    BY <2>1, <2>2, <2>3
<1> QED
  BY <1>2, <1>3, <1>4, <1>5

(* S3ArtifactStore.write: under a location of its own, the original over   *)
(* the original.                                                           *)
LEMMA WriteArtifactPreserves ==
    ASSUME AInv, NEW w \in Workers, WriteArtifact(w)
    PROVE  AInv'
<1> USE DEF AInv, WriteArtifact, Goto
<1>1. /\ Task(w) \in Steps /\ Task(w) # 3 /\ pc[w] = "write"
      /\ Location(Task(w)) \in Files
  BY LocationsDiffer DEF TypeOK, PlacesMatch, Task
<1>2. /\ Document(w) \in Documents /\ Document(w).step = Task(w)
      /\ config.bucket /\ ~misread => Document(w) = Original(Task(w))
      /\ Document(w) # Absent
  <2>1. Task(w) \in {0, 1, 2, 4, 5}
    BY <1>1 DEF Steps
  <2>2. text[w] \in Steps \cup {Nothing}
    BY DEF TypeOK
  <2>3. Document(w) = [step |-> Task(w), basis |-> IF Task(w) \in {1, 2} THEN text[w] ELSE Nothing]
    BY <2>1 DEF Document, Inventory, Findings, Blueprint, SecurityReport, TerraformPlan
  <2>4. /\ Task(w) = 1 => text[w] = Nothing
        /\ Task(w) = 2 /\ config.bucket /\ ~misread => text[w] = 0
    BY <1>1 DEF PlacesMatch
  <2> QED
    BY <1>1, <2>1, <2>2, <2>3, <2>4 DEF Documents, Original, Absent, Nothing, Steps
<1>3. /\ config.bucket => store' = [store EXCEPT ![Location(Task(w))] = Document(w)]
      /\ ~config.bucket => store' = store
  OBVIOUS
<1>4. TypeOK'
  BY <1>1, <1>2, <1>3, LocationsDiffer DEF TypeOK, AgentPC, Task
<1>5. RunsRecorded'
  BY DEF RunsRecorded, Recorded
<1>6. \A s \in Steps : s # 3 =>
        \/ store'[Location(s)] = store[Location(s)]
        \/ s = Task(w) /\ config.bucket /\ store'[Location(s)] = Document(w)
  BY <1>1, <1>3, LocationsDiffer DEF TypeOK
<1>7. StoreInOrder'
  BY <1>2, <1>6 DEF StoreInOrder, TypeOK
<1>8. RecordedIsStored'
  <2>1. \A s \in Steps : s # 3 /\ store[Location(s)] # Absent => store'[Location(s)] # Absent
    BY <1>2, <1>6
  <2>2. config.bucket => store'[Location(Task(w))] # Absent
    BY <1>1, <1>2, <1>3 DEF TypeOK
  <2> QED
    BY <1>1, <2>1, <2>2 DEF RecordedIsStored, TypeOK, Task
<1>9. ConflictKnown'
  <2>1. store'["blueprint.json"] # store["blueprint.json"] => Task(w) = 2
    BY <1>1, <1>3 DEF TypeOK, Location, Steps
  <2> QED
    BY <1>1, <2>1 DEF ConflictKnown, ConflictFlaggedFirst, TypeOK, Task
<1>10. PlacesMatch' /\ OneBranchOnePull'
  BY <1>1 DEF PlacesMatch, OneBranchOnePull, OnePullRequest, TypeOK, Task
<1> QED
  BY <1>4, <1>5, <1>7, <1>8, <1>9, <1>10

(* The conditional save: the run moves on by one step or not at all.       *)
LEMMA SaveStepPreserves ==
    ASSUME AInv, NEW w \in Workers, SaveStep(w)
    PROVE  AInv'
<1> USE DEF AInv, SaveStep, Goto
<1> DEFINE s == snap[w].idx
<1>1. s \in Steps /\ s <= item.idx /\ pc[w] = "save" /\ out[w] = Location(s)
  BY DEF TypeOK, RunsRecorded, RecordedIsStored, Task
<1>2. Advance(snap[w], out[w]).idx = s + 1
  BY DEF Advance, TypeOK, RunStates
<1>3. Advance(snap[w], out[w]) \in RunStates
  <2>1. s + 1 \in 0 .. 6
    BY <1>1 DEF Steps
  <2>2. snap[w].completed \cup {s} \in SUBSET Steps
    BY <1>1 DEF TypeOK, RunStates
  <2>3. [snap[w].outputs EXCEPT ![s] = out[w]] \in [Steps -> Locations \cup {"none"}]
    BY <1>1, LocationsDiffer DEF TypeOK, RunStates
  <2>4. snap[w] \in RunStates
    BY DEF TypeOK
  <2> QED
    BY <2>1, <2>2, <2>3, <2>4 DEF Advance, RunStates
<1>4. Recorded(Advance(snap[w], out[w]))
  BY <1>1 DEF Recorded, Advance, RunsRecorded, TypeOK, RunStates, Steps
<1>5. \/ item' = item
      \/ item' = Advance(snap[w], out[w])
  BY DEF Save
<1>6. item'.idx \in {item.idx, s + 1} /\ item'.idx >= item.idx
  <2>1. item.idx \in Int /\ s \in Int /\ item.exists
    BY <1>1 DEF TypeOK, RunStates, Steps, RunsRecorded
  <2>2. CASE SaveAccepted(item, Advance(snap[w], out[w]))
    BY <1>1, <1>2, <2>1, <2>2 DEF Save, SaveAccepted
  <2>3. CASE ~SaveAccepted(item, Advance(snap[w], out[w]))
    BY <2>1, <2>3 DEF Save
  <2> QED
    BY <2>2, <2>3
<1>7. TypeOK'
  BY <1>3, <1>5 DEF TypeOK, AgentPC, world
<1>8. RunsRecorded'
  <2>1. Recorded(item)' /\ item'.exists
    <3>1. Advance(snap[w], out[w]).exists
      BY <1>1 DEF RunsRecorded, Advance, TypeOK, RunStates
    <3>2. item.exists /\ Recorded(item)
      BY DEF RunsRecorded
    <3>3. \A new : Recorded(new) /\ item' = new => Recorded(item)'
      BY DEF Recorded
    <3> QED
      BY <1>4, <1>5, <3>1, <3>2, <3>3
  <2>2. ASSUME NEW v \in Workers
        PROVE  /\ Recorded(snap[v])' /\ snap'[v].idx <= item'.idx
               /\ pc'[v] # "idle" => snap'[v].exists
    <3>1. snap[v].idx \in Int /\ item.idx \in Int /\ item'.idx \in Int
      BY <1>7 DEF TypeOK, RunStates
    <3>2. snap[v].idx <= item.idx /\ Recorded(snap[v]) /\ (pc[v] # "idle" => snap[v].exists)
      BY DEF RunsRecorded
    <3>3. pc'[v] # "idle" => pc[v] # "idle"
      BY DEF TypeOK
    <3> QED
      BY <1>6, <3>1, <3>2, <3>3 DEF Recorded
  <2> QED
    BY <2>1, <2>2 DEF RunsRecorded
<1>9. StoreInOrder' /\ PlacesMatch' /\ ConflictKnown' /\ OneBranchOnePull'
  BY DEF StoreInOrder, PlacesMatch, ConflictKnown, ConflictFlaggedFirst, OneBranchOnePull,
         OnePullRequest, TypeOK, world, Task
<1>10. RecordedIsStored'
  <2>1. config.bucket /\ s # 3 => store[Location(s)] # Absent
    BY <1>1 DEF RecordedIsStored, Task
  <2>2. \A t \in Steps : t < item'.idx => t < item.idx \/ t = s
    BY <1>1, <1>6 DEF Steps, TypeOK, RunStates
  <2> QED
    BY <2>1, <2>2 DEF RecordedIsStored, TypeOK, world, Task
<1> QED
  BY <1>7, <1>8, <1>9, <1>10

(* The death of a worker takes it out of the way. *)
LEMMA WorkerFailsPreserves ==
    ASSUME AInv, NEW w \in Workers, WorkerFails(w)
    PROVE  AInv'
<1> USE DEF AInv, WorkerFails, Fault, Goto, world
<1>1. TypeOK'
  BY FaultsAssumption DEF TypeOK, AgentPC
<1>2. RunsRecorded' /\ StoreInOrder' /\ RecordedIsStored'
  BY DEF RunsRecorded, Recorded, StoreInOrder, RecordedIsStored, TypeOK, Task
<1>3. PlacesMatch' /\ ConflictKnown' /\ OneBranchOnePull'
  BY DEF PlacesMatch, ConflictKnown, ConflictFlaggedFirst, OneBranchOnePull, OnePullRequest,
         TypeOK, Task
<1> QED
  BY <1>1, <1>2, <1>3

-------------------------------------------------------------------------------
(* The invariant holds in every reachable state.                           *)
LEMMA AInvHolds == Spec => []AInv
<1>1. AInv /\ UNCHANGED vars => AInv'
  BY DEF AInv, vars, world, worker, TypeOK, RunsRecorded, Recorded, StoreInOrder,
         RecordedIsStored, PlacesMatch, ConflictKnown, ConflictFlaggedFirst,
         OneBranchOnePull, OnePullRequest, Task
<1>2. AInv /\ Next => AInv'
  BY RoutePreserves, CallToolsPreserves, FlagConflictPreserves, ReadInventoryPreserves,
     OpenPullRequestPreserves, WriteArtifactPreserves, SaveStepPreserves,
     WorkerFailsPreserves DEF Next, Execute
<1> QED
  BY InitiallyA, <1>1, <1>2, PTL DEF Spec

(* Every reachable state is well typed. *)
THEOREM AgentsTypeCorrect == Spec => []TypeOK
<1>1. AInv => TypeOK
  BY DEF AInv
<1> QED
  BY <1>1, AInvHolds, PTL

(* A recorded reference leads to a document of its step. *)
THEOREM ReferencesLead == Spec => []RecordedArtifactsStored
<1>1. AInv => RecordedArtifactsStored
  <2> SUFFICES ASSUME AInv, NEW s \in Steps, item.outputs[s] \in Files, config.bucket
               PROVE  store[item.outputs[s]].step = s
    BY DEF RecordedArtifactsStored
  <2>1. s < item.idx /\ item.outputs[s] = Location(s) /\ s # 3
    BY LocationsDiffer DEF AInv, RunsRecorded, Recorded, Locations
  <2> QED
    BY <2>1 DEF AInv, RecordedIsStored, StoreInOrder
<1> QED
  BY <1>1, AInvHolds, PTL

(* Every blueprint was built from the inventory, unless a read has failed. *)
THEOREM BlueprintsGrounded == Spec => []BlueprintGrounded
<1>1. AInv => BlueprintGrounded
  BY LocationsDiffer DEF AInv, StoreInOrder, BlueprintGrounded, Original, Location, Steps
<1> QED
  BY <1>1, AInvHolds, PTL

(* The conflict is in the audit log before any blueprint is in the bucket. *)
THEOREM ConflictFirst == Spec => []ConflictFlaggedFirst
<1>1. AInv => ConflictFlaggedFirst
  BY DEF AInv, ConflictKnown
<1> QED
  BY <1>1, AInvHolds, PTL

(* One run, one pull request.                                              *)
THEOREM PullRequestOnce == Spec => []OnePullRequest
<1>1. AInv => OnePullRequest
  BY DEF AInv, OneBranchOnePull
<1> QED
  BY <1>1, AInvHolds, PTL

(* A duplicate execution replaces a recorded document by the same one.     *)
THEOREM BytesKept == Spec => RecordedBytesKept
<1>1. ASSUME AInv, AInv', [Next]_vars,
             NEW s \in Steps, item.outputs[s] \in Files, config.bucket, ~misread'
      PROVE  store'[item.outputs[s]] = store[item.outputs[s]]
  <2>1. item.outputs[s] = Location(s) /\ s < item.idx /\ s # 3
    BY <1>1, LocationsDiffer DEF AInv, RunsRecorded, Recorded, Locations
  <2>2. ~misread /\ config' = config /\ item.idx <= item'.idx
    <3>1. CASE UNCHANGED vars
      BY <1>1, <3>1 DEF vars, AInv, TypeOK, RunStates
    <3>2. ASSUME NEW w \in Workers, Route(w) \/ Execute(w) \/ WorkerFails(w)
          PROVE  ~misread /\ config' = config /\ item' = item
      BY <1>1, <3>2 DEF Route, Execute, CallTools, FlagConflict, ReadInventory, ReadRepository,
                        CreateBranch, OpenPull, WriteArtifact, WorkerFails
    <3>3. ASSUME NEW w \in Workers, SaveStep(w)
          PROVE  ~misread /\ config' = config /\ item.idx <= item'.idx
      <4>1. TypeOK /\ RunsRecorded
        BY <1>1 DEF AInv
      <4>2. item \in RunStates /\ snap[w] \in RunStates
        BY <4>1 DEF TypeOK
      <4>3. item.idx \in Int /\ snap[w].idx \in Int /\ item.exists
        BY <4>1, <4>2 DEF RunStates, RunsRecorded
      <4>4. Advance(snap[w], out[w]).idx = snap[w].idx + 1
        BY <4>2 DEF Advance, RunStates
      <4> QED
        BY <1>1, <3>3, <4>3, <4>4 DEF SaveStep, Save, SaveAccepted, world
    <3> QED
      BY <1>1, <3>1, <3>2, <3>3 DEF Next, AInv, TypeOK, RunStates
  <2>3. store[Location(s)] = Original(s)
    BY <1>1, <2>1, <2>2 DEF AInv, RecordedIsStored, StoreInOrder
  <2>4. s < item'.idx
    BY <1>1, <2>1, <2>2 DEF AInv, TypeOK, RunStates, Steps
  <2>5. store'[Location(s)] = Original(s)
    BY <1>1, <2>1, <2>2, <2>4 DEF AInv, RecordedIsStored, StoreInOrder
  <2> QED
    BY <2>1, <2>3, <2>5
<1>2. AInv /\ AInv' /\ [Next]_vars =>
        [\A s \in Steps :
            item.outputs[s] \in Files /\ config.bucket /\ ~misread' =>
                store'[item.outputs[s]] = store[item.outputs[s]]]_vars
  BY <1>1
<1> QED
  BY <1>2, AInvHolds, PTL DEF Spec, RecordedBytesKept
===============================================================================
