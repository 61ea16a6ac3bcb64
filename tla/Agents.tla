-------------------------------- MODULE Agents --------------------------------
(***************************************************************************)
(* What the six agents of a run do to the world: the objects they put in   *)
(* the artifact bucket, the audit event of a knowledge-base conflict, the  *)
(* branch and the pull request on GitHub.  Workers race through the task   *)
(* graph with the conditional save of RunStateRepository; how they come to *)
(* be there is module Supervisor.                                          *)
(*                                                                         *)
(* The clients are those of build_agent_registry.  The sample sources and  *)
(* the curated guidance are constants of the program, so a document is     *)
(* told by the step that wrote it and by the document it was built from,   *)
(* if any.  The corporate and the AWS guidance are different texts, so     *)
(* detect_kb_conflict always finds a conflict, and KB guidance is used.    *)
(* An ArtifactRef is its location: the other fields are constants of the   *)
(* step, or a fresh artifact id that nobody reads.                         *)
(***************************************************************************)
EXTENDS Integers, ToolAllowlist

CONSTANTS
    Workers,   \* environments of the run-worker Lambda
    MaxFaults  \* bound: workers that die or raise, and calls that are refused

ASSUME FaultsAssumption == MaxFaults \in Nat

(* The files under the run's prefix of the bucket; the Portfolio           *)
(* Assessment agent names a DynamoDB key it never writes.                  *)
Files == {"inventory.json", "inventory-findings.json", "blueprint.json",
          "security-review.json", "tf-plan.tf"}
PortfolioKey == "dynamodb://portfolio-assessment"
Locations == Files \cup {PortfolioKey}

INSTANCE RunStateRepository WITH
    NumSteps <- 6, Artifacts <- Locations, NoArtifact <- "none"

(* Seeded fault: both tasks of the Discovery agent write one file. *)
LocationShared(s) ==
    CASE s \in {0, 1} -> "inventory.json"
      [] s = 2 -> "blueprint.json"
      [] s = 3 -> PortfolioKey
      [] s = 4 -> "security-review.json"
      [] s = 5 -> "tf-plan.tf"

(* The location of a step's output; one per run and step, whoever executes *)
(* it and however often.                                                   *)
Location(s) ==
    CASE s = 0 -> "inventory.json"
      [] s = 1 -> "inventory-findings.json"
      [] s = 2 -> "blueprint.json"
      [] s = 3 -> PortfolioKey
      [] s = 4 -> "security-review.json"
      [] s = 5 -> "tf-plan.tf"

Nothing == -1
Documents == [step : Steps, basis : Steps \cup {Nothing}]
Absent == [step |-> Nothing, basis |-> Nothing]

(* The guidance of the two curated clients, and detect_kb_conflict.        *)
CuratedS3Kb    == "corporate standard"
CuratedAwsDocs == "AWS guidance"
KbConflict(kb, docs) == kb # docs

VARIABLES
    item,      \* the RunState item
    config,    \* which of ARTIFACT_BUCKET_NAME and GITHUB_TOKEN are set
    store,     \* the objects under the run's prefix
    flagged,   \* kb_conflict_flagged is in the audit log
    branches,  \* branches created for the run on GitHub
    pulls,     \* pull requests opened for it
    pc,        \* where each worker stands
    snap,      \* the RunState object its route_task holds
    text,      \* the document its agent has read: its step, or Nothing
    out,       \* the location of the result's output
    faults,
    misread    \* history: a read of the inventory has failed

world  == <<store, flagged, branches, pulls>>
worker == <<pc, snap, text, out>>
vars   == <<item, config, world, worker, faults, misread>>

AgentPC == {"idle", "tools", "read", "flag", "repo", "ref", "pull", "write", "save"}

Init ==
    /\ item     = NewRun
    /\ config   \in [bucket : BOOLEAN, github : BOOLEAN]
    /\ store    = [f \in Files |-> Absent]
    /\ flagged  = FALSE
    /\ branches = {}
    /\ pulls    = 0
    /\ pc       = [w \in Workers |-> "idle"]
    /\ snap     = [w \in Workers |-> NoRun]
    /\ text     = [w \in Workers |-> Nothing]
    /\ out      = [w \in Workers |-> "none"]
    /\ faults   = 0
    /\ misread  = FALSE

Task(w) == snap[w].idx

Goto(w, place) == pc' = [pc EXCEPT ![w] = place]

Fault == faults < MaxFaults /\ faults' = faults + 1

-------------------------------------------------------------------------------
(* Seeded fault: a finished run is routed. *)
RouteFinished(w) ==
    /\ pc[w] = "idle"
    /\ snap' = [snap EXCEPT ![w] = item]
    /\ Goto(w, "tools")
    /\ UNCHANGED <<item, config, world, text, out, faults, misread>>

(* route_task reads the run and has the agent execute the current step. *)
Route(w) ==
    /\ pc[w] = "idle" /\ ~Finished(item)
    /\ snap' = [snap EXCEPT ![w] = item]
    /\ text' = [text EXCEPT ![w] = Nothing]
    /\ out'  = [out EXCEPT ![w] = "none"]
    /\ Goto(w, "tools")
    /\ UNCHANGED <<item, config, world, faults, misread>>

(* The agents, up to the end of their tool calls, each of which is behind  *)
(* enforce_tool_allowlist.  The bundled clients return constants; the one  *)
(* that leaves the process, for validate_credentials, may raise, which is  *)
(* WorkerFails.                                                            *)
Calls(w, task, role, tools) ==
    /\ pc[w] = "tools" /\ Task(w) = task
    /\ \A tool \in tools : Allowed(role, tool)

Collect(w) == Calls(w, 0, "DISCOVERY", {"AZURE", "FILESYSTEM"}) /\ Goto(w, "write")

Reason(w) == Calls(w, 1, "DISCOVERY", {}) /\ Goto(w, "read")

Modernize(w) ==
    Calls(w, 2, "MODERNIZATION", {"S3_KB", "AWS_DOCS", "FILESYSTEM"}) /\ Goto(w, "flag")

Review(w) == Calls(w, 4, "SECURITY", {"AWS_API_CLI", "S3_KB"}) /\ Goto(w, "write")

Deploy(w) ==
    Calls(w, 5, "DEVOPS", {"TERRAFORM", "AWS_API_CLI", "GITHUB"}) /\ Goto(w, "repo")

(* Its result refers to a key of a table that nobody writes. *)
Assess(w) ==
    /\ Calls(w, 3, "PORTFOLIO_ASSESSMENT", {"S3_KB"})
    /\ out' = [out EXCEPT ![w] = PortfolioKey]
    /\ Goto(w, "save")

CallTools(w) ==
    /\ \/ Collect(w) \/ Reason(w) \/ Modernize(w) \/ Review(w) \/ Deploy(w)
       \/ Assess(w)
    /\ Task(w) # 3 => UNCHANGED out
    /\ UNCHANGED <<item, config, world, snap, text, faults, misread>>

(* Seeded fault: the conflict is left to be reported after the blueprint.  *)
FlagConflictLate(w) ==
    /\ pc[w] = "flag"
    /\ Goto(w, "read")
    /\ UNCHANGED <<item, config, world, snap, text, out, faults, misread>>

(* The audit event of a conflict, before the blueprint is begun. *)
FlagConflict(w) ==
    /\ pc[w] = "flag"
    /\ flagged' = (flagged \/ KbConflict(CuratedS3Kb, CuratedAwsDocs))
    /\ Goto(w, "read")
    /\ UNCHANGED <<item, config, store, branches, pulls, snap, text, out, faults, misread>>

(* The agent reads the inventory through the reference among its inputs.   *)
(* No reference (the inputs of DISCOVERY_REASON are empty), no store, or   *)
(* any exception stands for an empty document.                             *)
ReadInventory(w) ==
    LET inputs == Inputs(snap[w], Task(w)) IN
    /\ pc[w] = "read"
    /\ \/ /\ text' = [text EXCEPT ![w] =
                 IF 0 \in DOMAIN inputs /\ config.bucket THEN store[inputs[0]].step ELSE Nothing]
          /\ UNCHANGED <<faults, misread>>
       \/ /\ 0 \in DOMAIN inputs /\ config.bucket
          /\ Fault
          /\ misread' = TRUE
          /\ UNCHANGED text
    /\ Goto(w, "write")
    /\ UNCHANGED <<item, config, world, snap, out>>

-------------------------------------------------------------------------------
(* _RealGithubMcpClient.open_pull_request.  Every HTTPError stands for     *)
(* "not created"; any other exception leaves the agent (WorkerFails).      *)

(* Seeded fault: a branch for each execution. *)
BranchPerExecution(w) == w

Branch(w) == "daf"

Refused(w) ==
    /\ Fault
    /\ Goto(w, "write")
    /\ UNCHANGED <<branches, pulls>>

(* The configuration, the default branch and its head. *)
ReadRepository(w) ==
    /\ pc[w] = "repo"
    /\ \/ Goto(w, IF config.github THEN "ref" ELSE "write") /\ UNCHANGED <<branches, pulls, faults>>
       \/ config.github /\ Refused(w)
    /\ UNCHANGED <<item, config, store, flagged, snap, text, out, misread>>

(* POST git/refs: GitHub creates a ref once and refuses it (422) then on. *)
CreateBranch(w) ==
    /\ pc[w] = "ref"
    /\ \/ /\ Branch(w) \notin branches
          /\ branches' = branches \cup {Branch(w)}
          /\ Goto(w, "pull")
          /\ UNCHANGED <<pulls, faults>>
       \/ /\ Branch(w) \in branches
          /\ Goto(w, "write")
          /\ UNCHANGED <<branches, pulls, faults>>
       \/ Refused(w)
    /\ UNCHANGED <<item, config, store, flagged, snap, text, out, misread>>

OpenPull(w) ==
    /\ pc[w] = "pull"
    /\ \/ pulls' = pulls + 1 /\ Goto(w, "write") /\ UNCHANGED <<branches, faults>>
       \/ Refused(w)
    /\ UNCHANGED <<item, config, store, flagged, snap, text, out, misread>>

-------------------------------------------------------------------------------
(* Seeded fault: the reference is made without waiting for the put. *)
WriteArtifactForgotten(w) ==
    /\ pc[w] = "write"
    /\ out' = [out EXCEPT ![w] = Location(Task(w))]
    /\ Goto(w, "save")
    /\ UNCHANGED <<item, config, world, snap, text, faults, misread>>

(* What each agent writes: of _build_inventory and the sample sources, of  *)
(* _build_findings and _build_blueprint over the document read, of the     *)
(* review and of the generated plan only the origin is kept.               *)
Inventory        == [step |-> 0, basis |-> Nothing]
Findings(read)   == [step |-> 1, basis |-> read]
Blueprint(read)  == [step |-> 2, basis |-> read]
SecurityReport   == [step |-> 4, basis |-> Nothing]
TerraformPlan    == [step |-> 5, basis |-> Nothing]

Document(w) ==
    CASE Task(w) = 0 -> Inventory
      [] Task(w) = 1 -> Findings(text[w])
      [] Task(w) = 2 -> Blueprint(text[w])
      [] Task(w) = 4 -> SecurityReport
      [] Task(w) = 5 -> TerraformPlan

(* S3ArtifactStore.write puts the document over whatever is under its key. *)
(* Without a bucket the agent makes up a reference (its name is the same   *)
(* here).                                                                  *)
WriteArtifact(w) ==
    /\ pc[w] = "write"
    /\ store' = IF config.bucket THEN [store EXCEPT ![Location(Task(w))] = Document(w)] ELSE store
    /\ out' = [out EXCEPT ![w] = Location(Task(w))]
    /\ Goto(w, "save")
    /\ UNCHANGED <<item, config, flagged, branches, pulls, snap, text, faults, misread>>

(* Back in route_task: the conditional save of the step's output. *)
SaveStep(w) ==
    /\ pc[w] = "save"
    /\ item' = Save(item, Advance(snap[w], out[w]))
    /\ Goto(w, "idle")
    /\ UNCHANGED <<config, world, snap, text, out, faults, misread>>

(* The agent raises, or the environment dies; what it did stands.  The     *)
(* event is delivered again (Route).                                       *)
WorkerFails(w) ==
    /\ pc[w] # "idle" /\ Fault
    /\ Goto(w, "idle")
    /\ UNCHANGED <<item, config, world, snap, text, out, misread>>

-------------------------------------------------------------------------------
Execute(w) ==
    \/ CallTools(w) \/ FlagConflict(w) \/ ReadInventory(w)
    \/ ReadRepository(w) \/ CreateBranch(w) \/ OpenPull(w)
    \/ WriteArtifact(w)

Next == \E w \in Workers : Route(w) \/ Execute(w) \/ SaveStep(w) \/ WorkerFails(w)

Spec == Init /\ [][Next]_vars

(* An execution goes on, and a run that is not finished is routed again as *)
(* long as faults are fewer than redeliveries.                             *)
FairSpec == Spec /\ \A w \in Workers : WF_vars(Route(w) \/ Execute(w) \/ SaveStep(w))
-------------------------------------------------------------------------------
(* Every variable keeps to its type. *)
TypeOK ==
    /\ item \in RunStates
    /\ config \in [bucket : BOOLEAN, github : BOOLEAN]
    /\ store \in [Files -> Documents \cup {Absent}]
    /\ flagged \in BOOLEAN /\ misread \in BOOLEAN
    /\ branches \subseteq {Branch(w) : w \in Workers}
    /\ pulls \in Nat
    /\ pc \in [Workers -> AgentPC]
    /\ snap \in [Workers -> RunStates]
    /\ text \in [Workers -> Steps \cup {Nothing}]
    /\ out \in [Workers -> Locations \cup {"none"}]
    /\ faults \in 0 .. MaxFaults
    /\ \A w \in Workers : pc[w] # "idle" => snap[w].idx \in Steps

(* What get_run_status_handler presigns: the location recorded for a step  *)
(* holds, from the moment it is recorded, a document of that very step,    *)
(* however many workers executed it, died between put and save, or lost    *)
(* the save (unless no bucket is configured, where the reference is made   *)
(* up).                                                                    *)
RecordedArtifactsStored ==
    \A s \in Steps :
        item.outputs[s] \in Files /\ config.bucket => store[item.outputs[s]].step = s

(* A late duplicate execution puts its document over the recorded one.     *)
(* The bytes behind a recorded reference stay what they were nevertheless, *)
(* as long as no read of the inventory has failed: every execution of a    *)
(* step builds the same document.                                          *)
RecordedBytesKept ==
    [][\A s \in Steps :
          item.outputs[s] \in Files /\ config.bucket /\ ~misread' =>
              store'[item.outputs[s]] = store[item.outputs[s]]]_vars

(* The silent fallback of _read_inventory hides no ordering error: without *)
(* a failed read, every stored blueprint was built from the inventory.     *)
BlueprintGrounded ==
    store["blueprint.json"] # Absent /\ ~misread => store["blueprint.json"].basis = 0

(* A blueprint that follows the knowledge base against the AWS guidance is *)
(* never to be seen before the conflict is in the audit log.               *)
ConflictFlaggedFirst == store["blueprint.json"] # Absent => flagged

(* DEVOPS_EXEC may be executed any number of times, by racing workers and  *)
(* after a death between the branch and the pull request: the run opens at *)
(* most one pull request, because only the execution that created the      *)
(* branch goes on.                                                         *)
OnePullRequest == pulls <= 1

(* Refused calls, failed reads and deaths, as long as they are fewer than  *)
(* the redeliveries, keep no run from recording all six outputs; no agent  *)
(* is ever stopped by its own allowlist.                                   *)
RunFinishes == <>Finished(item)
===============================================================================
