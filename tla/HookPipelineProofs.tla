-------------------------- MODULE HookPipelineProofs --------------------------
(***************************************************************************)
(* The safety properties of HookPipeline, for every set of environments,   *)
(* every routing policy and every ceiling.                                 *)
(***************************************************************************)
EXTENDS HookPipeline, FiniteSetTheorems, TLAPS

(* The lowest tier the ladder gives a task from its n-th attempt on.       *)
Floor(t, n) ==
    IF n = 1 THEN TASK_MODEL_POLICY[t]
    ELSE IF TASK_MODEL_POLICY[t] = "HAIKU" THEN "SONNET"
    ELSE IF TASK_MODEL_POLICY[t] = "SONNET" /\ n <= MAX_SONNET_RETRIES THEN "SONNET"
    ELSE "OPUS"

(* The tier of an invocation is the one its attempt calls for, and no task *)
(* was run on a tier above the one its next attempt calls for.             *)
TierOfAttempt ==
    \A e \in Envs : pc[e] = "execute" => tier[e] = Floor(task[e], Attempt(e).number)
UsedBelowFloor ==
    \A e \in Envs : \A t \in TaskTypes :
        used[e][t] # "none" =>
            Rank(used[e][t]) <= Rank(Floor(t, mem[e].attempts[t].number))
UsedType == used \in [Envs -> [TaskTypes -> Tiers \cup {"none"}]]
-------------------------------------------------------------------------------
(* Facts about the constants and the operators.                            *)

(* There is a task to run, and an environment to run it.                   *)
LEMMA Sizes ==
    /\ NumSteps \in Nat \ {0}
    /\ 0 \in TaskTypes
    /\ Cardinality(Envs) \in Nat \ {0}
<1>1. NumSteps \in Nat /\ Cardinality(Envs) \in Nat
  BY PipelineAssumption, FS_CardinalityType DEF NumSteps
<1>2. NumSteps # 0 /\ Cardinality(Envs) # 0
  BY PipelineAssumption, FS_EmptySet DEF NumSteps
<1> QED
  BY <1>1, <1>2, PipelineAssumption

(* The deque never outgrows its maxlen and keeps to its entries.           *)
LEMMA AppendBoundedType ==
    ASSUME NEW S, NEW window \in Seq(S), NEW entry \in S,
           Len(window) <= NO_PROGRESS_LOOKBACK
    PROVE  /\ AppendBounded(window, entry) \in Seq(S)
           /\ Len(AppendBounded(window, entry)) <= NO_PROGRESS_LOOKBACK
<1>1. /\ Append(window, entry) \in Seq(S)
      /\ Len(Append(window, entry)) = Len(window) + 1
      /\ Append(window, entry) # << >>
  OBVIOUS
<1>2. /\ Tail(Append(window, entry)) \in Seq(S)
      /\ Len(Tail(Append(window, entry))) = Len(window)
  BY <1>1
<1> QED
  BY <1>1, <1>2, PipelineAssumption DEF AppendBounded

(* A cold start's memory is well formed and below every threshold.         *)
LEMMA FreshMemoryType ==
    /\ FreshMemory \in Memories
    /\ FreshMemory.killSwitch = FALSE
    /\ Len(FreshMemory.window) = 0
    /\ \A a \in Agents : FreshMemory.failures[a] = 0
    /\ \A t \in TaskTypes : FreshMemory.attempts[t] = FirstAttempt
<1>1. FirstAttempt \in AttemptStates
  BY DEF FirstAttempt, AttemptStates
<1>2. << >> \in Seq([task : TaskTypes, progressed : BOOLEAN])
  OBVIOUS
<1> QED
  BY <1>1, <1>2 DEF FreshMemory, Memories

(* record_usage leaves the attempts alone, never clears the kill switch,   *)
(* and sets it when the agent's failures reach the threshold.              *)
LEMMA RecordedEffect ==
    ASSUME NEW m \in Memories, NEW t \in TaskTypes, NEW status,
           Len(m.window) <= NO_PROGRESS_LOOKBACK
    PROVE  LET r == Recorded(m, t, status) IN
           /\ r \in Memories
           /\ Len(r.window) <= NO_PROGRESS_LOOKBACK
           /\ r.attempts = m.attempts
           /\ m.killSwitch => r.killSwitch
           /\ \A a \in Agents : r.failures[a] >= MAX_CONSECUTIVE_FAILURES =>
                 r.killSwitch \/ r.failures[a] = m.failures[a]
<1> DEFINE agent == AgentOf[t]
           entry == [task |-> t, progressed |-> TRUE]
           window == AppendBounded(m.window, entry)
           failures == [m.failures EXCEPT ![agent] = IF status = "FAILED" THEN @ + 1 ELSE 0]
           kill == m.killSwitch \/ RepeatedNoProgress(window) \/ ConsecutiveFailures(failures[agent])
           r == Recorded(m, t, status)
<1>1. agent \in Agents /\ m.attempts[t].number \in Nat \ {0}
  BY DEF Agents, Memories, AttemptStates
<1>2. window \in Seq([task : TaskTypes, progressed : BOOLEAN])
      /\ Len(window) <= NO_PROGRESS_LOOKBACK
  <2>1. entry \in [task : TaskTypes, progressed : BOOLEAN]
    OBVIOUS
  <2> QED
    BY <2>1, AppendBoundedType DEF Memories
<1>3. failures \in [Agents -> Nat]
  BY <1>1 DEF Memories
<1>4. kill \in BOOLEAN
  BY DEF RepeatedNoProgress, ConsecutiveFailures, Memories
<1>5. r = [m EXCEPT !.seen = @ \cup {<<agent, m.attempts[t].number>>},
                    !.window = window, !.failures = failures, !.killSwitch = kill]
  BY DEF Recorded, Memories
<1>6. r = [ killSwitch |-> kill,
            seen       |-> m.seen \cup {<<agent, m.attempts[t].number>>},
            window     |-> window,
            failures   |-> failures,
            attempts   |-> m.attempts ]
  <2> HIDE DEF window, failures, kill, agent
  <2> QED
    BY <1>5 DEF Memories
<1>7. m.seen \cup {<<agent, m.attempts[t].number>>} \in SUBSET (Agents \X (Nat \ {0}))
  BY <1>1 DEF Memories
<1>8. r \in Memories /\ Len(r.window) <= NO_PROGRESS_LOOKBACK /\ r.attempts = m.attempts
  <2> HIDE DEF window, failures, kill, agent, r
  <2> QED
    BY <1>2, <1>3, <1>4, <1>6, <1>7 DEF Memories
<1>9. r.killSwitch = kill /\ r.failures = failures
  <2> HIDE DEF window, failures, kill, agent, r
  <2> QED
    BY <1>6
<1>10. m.killSwitch => r.killSwitch
  <2>1. m.killSwitch => kill
    OBVIOUS
  <2> HIDE DEF kill, r
  <2> QED
    BY <1>9, <2>1
<1>11. ASSUME NEW a \in Agents, r.failures[a] >= MAX_CONSECUTIVE_FAILURES
       PROVE  r.killSwitch \/ r.failures[a] = m.failures[a]
  <2>1. CASE a = agent
    <3>1. kill
      <4>1. failures[agent] >= MAX_CONSECUTIVE_FAILURES
        <5> HIDE DEF failures, r, agent
        <5> QED
          BY <1>9, <1>11, <2>1
      <4> QED
        BY <4>1 DEF ConsecutiveFailures
    <3> HIDE DEF kill, r
    <3> QED
      BY <1>9, <3>1
  <2>2. CASE a # agent
    <3>1. failures[a] = m.failures[a]
      BY <2>2 DEF Memories
    <3> HIDE DEF failures, r
    <3> QED
      BY <1>9, <3>1
  <2> QED
    BY <2>1, <2>2
<1> QED
  <2> HIDE DEF r
  <2>1. Recorded(m, t, status) = r
    BY DEF r
  <2> QED
    BY <1>8, <1>10, <1>11, <2>1

(* It moves the failure counter of one agent.                              *)
LEMMA RecordedFailures ==
    ASSUME NEW m \in Memories, NEW t \in TaskTypes, NEW status
    PROVE  Recorded(m, t, status).failures =
               [m.failures EXCEPT ![AgentOf[t]] = IF status = "FAILED" THEN @ + 1 ELSE 0]
<1> DEFINE agent == AgentOf[t]
           window == AppendBounded(m.window, [task |-> t, progressed |-> TRUE])
           failures == [m.failures EXCEPT ![agent] = IF status = "FAILED" THEN @ + 1 ELSE 0]
           seen == m.seen \cup {<<agent, m.attempts[t].number>>}
           kill == m.killSwitch \/ RepeatedNoProgress(window) \/ ConsecutiveFailures(failures[agent])
<1>1. Recorded(m, t, status) =
          [m EXCEPT !.seen = seen, !.window = window, !.failures = failures, !.killSwitch = kill]
  BY DEF Recorded
<1> HIDE DEF window, failures, seen, kill
<1>2. Recorded(m, t, status).failures = failures
  BY <1>1 DEF Memories
<1> QED
  BY <1>2 DEF failures
-------------------------------------------------------------------------------
(* Types                                                                   *)

(* What a step of environment e does to the memories: it touches its own,  *)
(* if any, and leaves a memory there.                                      *)
LEMMA MemoryReplaced ==
    ASSUME mem \in [Envs -> Memories],
           \A e \in Envs : Len(mem[e].window) <= NO_PROGRESS_LOOKBACK,
           NEW e \in Envs, NEW m \in Memories, Len(m.window) <= NO_PROGRESS_LOOKBACK,
           mem' = [mem EXCEPT ![e] = m]
    PROVE  /\ mem' \in [Envs -> Memories]
           /\ \A f \in Envs : Len(mem'[f].window) <= NO_PROGRESS_LOOKBACK
  OBVIOUS

(* A memory is made of its five fields.                                    *)
LEMMA MemoryFields ==
    ASSUME NEW r \in Memories
    PROVE  /\ [r EXCEPT !.killSwitch = TRUE] =
                  [ killSwitch |-> TRUE, seen |-> r.seen, window |-> r.window,
                    failures |-> r.failures, attempts |-> r.attempts ]
           /\ \A a : [r EXCEPT !.attempts = a] =
                  [ killSwitch |-> r.killSwitch, seen |-> r.seen, window |-> r.window,
                    failures |-> r.failures, attempts |-> a ]
<1>1. DOMAIN r = {"killSwitch", "seen", "window", "failures", "attempts"}
      /\ r = [d \in DOMAIN r |-> r[d]]
  BY DEF Memories
<1>2. \A k : [r EXCEPT !.killSwitch = k] =
              [ killSwitch |-> k, seen |-> r.seen, window |-> r.window,
                failures |-> r.failures, attempts |-> r.attempts ]
  BY <1>1
<1>3. \A a : [r EXCEPT !.attempts = a] =
              [ killSwitch |-> r.killSwitch, seen |-> r.seen, window |-> r.window,
                failures |-> r.failures, attempts |-> a ]
  BY <1>1
<1> QED
  BY <1>2, <1>3

(* Setting the kill switch changes nothing else in the memory.             *)
LEMMA SetKillSwitchEffect ==
    ASSUME mem \in [Envs -> Memories], NEW e \in Envs, SetKillSwitch(e)
    PROVE  \E m \in Memories :
              /\ mem' = [mem EXCEPT ![e] = m]
              /\ m.killSwitch = TRUE /\ m.window = mem[e].window
              /\ m.failures = mem[e].failures /\ m.attempts = mem[e].attempts
<1> DEFINE m == [ killSwitch |-> TRUE,
                  seen       |-> mem[e].seen,
                  window     |-> mem[e].window,
                  failures   |-> mem[e].failures,
                  attempts   |-> mem[e].attempts ]
<1>1. m \in Memories
  BY DEF Memories
<1>2. [mem[e] EXCEPT !.killSwitch = TRUE] = m
  BY MemoryFields
<1>3. mem' = [mem EXCEPT ![e] = m]
  BY <1>2 DEF SetKillSwitch
<1> QED
  BY <1>1, <1>3

(* record_outcome, and its store in the attempt states.                    *)
LEMMA FinishAttemptEffect ==
    ASSUME mem \in [Envs -> Memories], NEW e \in Envs, task[e] \in TaskTypes,
           mem' = [mem EXCEPT ![e].attempts[task[e]] = RecordOutcome(@, result[e].confident)]
    PROVE  \E m \in Memories :
              /\ mem' = [mem EXCEPT ![e] = m]
              /\ m.killSwitch = mem[e].killSwitch /\ m.window = mem[e].window
              /\ m.failures = mem[e].failures
              /\ \A t \in TaskTypes :
                    m.attempts[t].number \in
                        {mem[e].attempts[t].number, mem[e].attempts[t].number + 1}
<1> DEFINE old == mem[e].attempts
           new == [old EXCEPT ![task[e]] = RecordOutcome(old[task[e]], result[e].confident)]
           m == [ killSwitch |-> mem[e].killSwitch,
                  seen       |-> mem[e].seen,
                  window     |-> mem[e].window,
                  failures   |-> mem[e].failures,
                  attempts   |-> new ]
<1>1. old \in [TaskTypes -> AttemptStates]
  BY DEF Memories
<1>2. ASSUME NEW a \in AttemptStates, NEW b
      PROVE  /\ RecordOutcome(a, b) \in AttemptStates
             /\ RecordOutcome(a, b).number \in {a.number, a.number + 1}
  BY DEF RecordOutcome, AttemptStates
<1>3. /\ new \in [TaskTypes -> AttemptStates]
      /\ \A t \in TaskTypes : new[t].number \in {old[t].number, old[t].number + 1}
  BY <1>1, <1>2
<1>4. m \in Memories
  BY <1>3 DEF Memories
<1>5. mem' = [mem EXCEPT ![e] = m]
  <2>1. mem' = [mem EXCEPT ![e] = [mem[e] EXCEPT !.attempts = new]]
    OBVIOUS
  <2>2. [mem[e] EXCEPT !.attempts = new] = m
    <3> HIDE DEF new
    <3> QED
      BY MemoryFields
  <2> QED
    BY <2>1, <2>2
<1> QED
  BY <1>3, <1>4, <1>5

(* Every step keeps every variable in its type.                            *)
LEMMA TypeStep == TypeOK /\ [Next]_vars => TypeOK'
<1> SUFFICES ASSUME TypeOK, [Next]_vars PROVE TypeOK'
  OBVIOUS
<1> USE Sizes DEF TypeOK, PipelinePC, Goto, DropLocals
<1>1. CASE UNCHANGED vars
  BY <1>1 DEF vars, history
<1>2. ASSUME NEW e \in Envs, Invoke(e) PROVE TypeOK'
  BY <1>2, PipelineAssumption DEF Invoke
<1>3. ASSUME NEW e \in Envs, PreCheck(e) PROVE TypeOK'
  <2>1. /\ UNCHANGED <<counters, index, task, tier, result, coldStarts>>
        /\ pc' \in [Envs -> PipelinePC]
    BY <1>3 DEF PreCheck
  <2>2. CASE UNCHANGED mem
    BY <2>1, <2>2
  <2>3. CASE SetKillSwitch(e)
    <3>1. PICK m \in Memories : mem' = [mem EXCEPT ![e] = m] /\ m.window = mem[e].window
      BY <2>3, SetKillSwitchEffect
    <3> QED
      BY <2>1, <3>1, MemoryReplaced
  <2> QED
    BY <1>3, <2>2, <2>3 DEF PreCheck
<1>4. ASSUME NEW e \in Envs, Resolve(e) PROVE TypeOK'
  <2>1. /\ UNCHANGED <<counters, index, task, result, coldStarts>>
        /\ pc' \in [Envs -> PipelinePC]
        /\ tier' \in [Envs -> Tiers \cup {"none"}]
    BY <1>4 DEF Resolve
  <2>2. CASE UNCHANGED mem
    BY <2>1, <2>2
  <2>3. CASE SetKillSwitch(e)
    <3>1. PICK m \in Memories : mem' = [mem EXCEPT ![e] = m] /\ m.window = mem[e].window
      BY <2>3, SetKillSwitchEffect
    <3> QED
      BY <2>1, <3>1, MemoryReplaced
  <2> QED
    BY <1>4, <2>2, <2>3 DEF Resolve
<1>5. ASSUME NEW e \in Envs, Execute(e) PROVE TypeOK'
  BY <1>5 DEF Execute
<1>6. ASSUME NEW e \in Envs, ExecuteFails(e) PROVE TypeOK'
  BY <1>6 DEF ExecuteFails, history
<1>7. ASSUME NEW e \in Envs, RecordUsage(e) PROVE TypeOK'
  <2>1. /\ UNCHANGED <<index, task, coldStarts>>
        /\ pc' \in [Envs -> PipelinePC]
        /\ counters' \in [steps : Nat, opus : Nat]
        /\ tier' \in [Envs -> Tiers \cup {"none"}]
        /\ result' \in [Envs -> Validated \cup {Invalid, NoResult}]
    <3>1. counters' \in [steps : Nat, opus : Nat]
      BY <1>7 DEF RecordUsage, CountUsage
    <3> QED
      BY <1>7, <3>1 DEF RecordUsage
  <2>2. CASE UNCHANGED mem
    BY <2>1, <2>2
  <2>3. CASE mem' = [mem EXCEPT ![e] = Recorded(@, task[e], result[e].status)]
    <3>1. mem' = [mem EXCEPT ![e] = Recorded(mem[e], task[e], result[e].status)]
      BY <2>3
    <3> QED
      BY <2>1, <3>1, RecordedEffect, MemoryReplaced
  <2> QED
    BY <1>7, <2>2, <2>3 DEF RecordUsage, CountUsage
<1>8. ASSUME NEW e \in Envs, FinishAttempt(e) PROVE TypeOK'
  <2>1. /\ UNCHANGED <<counters, index, task, coldStarts>>
        /\ pc' \in [Envs -> PipelinePC]
        /\ tier' \in [Envs -> Tiers \cup {"none"}]
        /\ result' \in [Envs -> Validated \cup {Invalid, NoResult}]
    BY <1>8 DEF FinishAttempt
  <2>2. PICK m \in Memories : mem' = [mem EXCEPT ![e] = m] /\ m.window = mem[e].window
    BY <1>8, FinishAttemptEffect DEF FinishAttempt
  <2> QED
    BY <2>1, <2>2, MemoryReplaced
<1>9. ASSUME NEW e \in Envs, ReturnResult(e) PROVE TypeOK'
  <2>1. index' \in 0 .. NumSteps
    BY <1>9, PipelineAssumption DEF ReturnResult
  <2> QED
    BY <1>9, <2>1 DEF ReturnResult, history
<1>10. ASSUME NEW e \in Envs, ColdStart(e) PROVE TypeOK'
  <2>1. coldStarts' \in 0 .. MaxColdStarts
    BY <1>10, PipelineAssumption DEF ColdStart
  <2>2. Len(FreshMemory.window) <= NO_PROGRESS_LOOKBACK
    BY FreshMemoryType, PipelineAssumption
  <2>3. /\ mem' \in [Envs -> Memories]
        /\ \A f \in Envs : Len(mem'[f].window) <= NO_PROGRESS_LOOKBACK
    BY <1>10, <2>2, FreshMemoryType, MemoryReplaced DEF ColdStart
  <2> QED
    BY <1>10, <2>1, <2>3 DEF ColdStart
<1> QED
  BY <1>1, <1>2, <1>3, <1>4, <1>5, <1>6, <1>7, <1>8, <1>9, <1>10 DEF Next, InvokeSpoke
-------------------------------------------------------------------------------
(* The ceilings and the kill switch                                        *)

(* The environments past their check are finitely many.                    *)
LEMMA InFlightSize ==
    /\ IsFiniteSet(InFlight) /\ Cardinality(InFlight) \in Nat
    /\ Cardinality(InFlight) <= Cardinality(Envs)
<1>1. InFlight \in SUBSET Envs
  BY DEF InFlight
<1> QED
  BY <1>1, FS_Subset, FS_CardinalityType, PipelineAssumption

(* Whichever ceiling is read, it is a pair of naturals.                    *)
LEMMA CeilingTypes ==
    CeilingsRead # {} /\ \A ceiling \in CeilingsRead : ceiling \in [steps : Nat, opus : Nat]
BY PipelineAssumption DEF CeilingsRead

(* The bound, after a step: some ceiling that may be read keeps it.        *)
LEMMA PrimedOvershoot ==
    ASSUME NEW ceiling \in CeilingsRead,
           counters'.steps + Cardinality(InFlight') <=
               ceiling.steps + MaxLag + Cardinality(Envs) - 1
    PROVE  OvershootBounded'
BY DEF OvershootBounded, CeilingsRead

(* A step that lets no further environment past the check and counts       *)
(* nothing keeps the bound.                                                *)
LEMMA OvershootKept ==
    ASSUME TypeOK, OvershootBounded, counters' = counters, InFlight' \subseteq InFlight
    PROVE  OvershootBounded'
<1>1. /\ Cardinality(InFlight') \in Nat
      /\ Cardinality(InFlight') <= Cardinality(InFlight)
  BY InFlightSize, FS_Subset, FS_CardinalityType
<1>2. PICK ceiling \in CeilingsRead :
         counters.steps + Cardinality(InFlight) <=
             ceiling.steps + MaxLag + Cardinality(Envs) - 1
  BY DEF OvershootBounded
<1>3. counters'.steps + Cardinality(InFlight') <=
          ceiling.steps + MaxLag + Cardinality(Envs) - 1
  <2>1. ceiling.steps \in Nat /\ MaxLag \in Nat /\ Cardinality(Envs) \in Nat
    BY CeilingTypes, Sizes, PipelineAssumption
  <2>2. counters.steps \in Nat /\ counters'.steps = counters.steps
    BY DEF TypeOK
  <2>3. Cardinality(InFlight) \in Nat
    BY InFlightSize
  <2> QED
    BY <1>1, <1>2, <2>1, <2>2, <2>3
<1> QED
  BY <1>3, PrimedOvershoot

(* pre_check lets an environment past only if there is room for its step;  *)
(* record_usage turns a step in flight into a counted one.                 *)
LEMMA OvershootStep == TypeOK /\ OvershootBounded /\ [Next]_vars => OvershootBounded'
<1> SUFFICES ASSUME TypeOK, OvershootBounded, [Next]_vars PROVE OvershootBounded'
  OBVIOUS
<1>0. counters \in [steps : Nat, opus : Nat] /\ pc \in [Envs -> PipelinePC]
  BY DEF TypeOK
<1>1. CASE UNCHANGED vars
  BY <1>1, OvershootKept DEF vars, InFlight
<1>2. ASSUME NEW e \in Envs,
             Invoke(e) \/ Resolve(e) \/ Execute(e) \/ ExecuteFails(e)
               \/ FinishAttempt(e) \/ ReturnResult(e) \/ ColdStart(e)
      PROVE  OvershootBounded'
  <2>1. counters' = counters
    BY <1>2 DEF Invoke, Resolve, Execute, ExecuteFails, FinishAttempt, ReturnResult, ColdStart
  <2>2. \E place \in PipelinePC :
           /\ pc' = [pc EXCEPT ![e] = place]
           /\ place \in {"resolve", "execute", "record"} =>
                 pc[e] \in {"resolve", "execute", "record"}
    BY <1>2 DEF Invoke, Resolve, Execute, ExecuteFails, FinishAttempt, ReturnResult,
                ColdStart, Goto, PipelinePC
  <2>3. InFlight' \subseteq InFlight
    BY <1>0, <2>2 DEF InFlight
  <2> QED
    BY <2>1, <2>3, OvershootKept
<1>3. ASSUME NEW e \in Envs, PreCheck(e) PROVE OvershootBounded'
  <2>1. counters' = counters
    BY <1>3 DEF PreCheck
  <2>2. CASE Goto(e, "idle")
    <3>1. InFlight' \subseteq InFlight
      BY <1>0, <2>2 DEF InFlight, Goto
    <3> QED
      BY <2>1, <3>1, OvershootKept
  <2>3. ASSUME NEW steps \in StepsRead, NEW ceiling \in CeilingsRead,
               ~PreCheckHalts(e, steps, ceiling), ~(steps < 0)
        PROVE  OvershootBounded'
    <3>1. counters.steps <= steps + MaxLag /\ steps \in Int /\ steps + 1 <= ceiling.steps
      BY <1>0, <2>3, CeilingTypes, PipelineAssumption DEF PreCheckHalts, StepsRead
    <3>2. InFlight' \in SUBSET Envs
      BY DEF InFlight
    <3>3. Cardinality(InFlight') \in Nat /\ Cardinality(InFlight') <= Cardinality(Envs)
      BY <3>2, FS_Subset, FS_CardinalityType, PipelineAssumption
    <3>4. counters'.steps + Cardinality(InFlight') <=
              ceiling.steps + MaxLag + Cardinality(Envs) - 1
      <4>1. ceiling.steps \in Nat /\ MaxLag \in Nat /\ Cardinality(Envs) \in Nat
        BY CeilingTypes, Sizes, PipelineAssumption
      <4>2. counters.steps \in Nat /\ counters'.steps = counters.steps
        BY <1>0, <2>1
      <4> QED
        BY <3>1, <3>3, <4>1, <4>2
    <3> QED
      BY <3>4, PrimedOvershoot
  <2> QED
    BY <1>3, <2>2, <2>3 DEF PreCheck
<1>4. ASSUME NEW e \in Envs, RecordUsage(e) PROVE OvershootBounded'
  <2>1. e \in InFlight /\ InFlight' = InFlight \ {e}
    BY <1>0, <1>4 DEF RecordUsage, Goto, InFlight, PipelinePC
  <2>2. /\ Cardinality(InFlight') = Cardinality(InFlight) - 1
    BY <2>1, InFlightSize, FS_RemoveElement
  <2>3. counters'.steps \in {counters.steps, counters.steps + 1}
    BY <1>0, <1>4 DEF RecordUsage, CountUsage
  <2>4. PICK ceiling \in CeilingsRead :
           counters.steps + Cardinality(InFlight) <=
               ceiling.steps + MaxLag + Cardinality(Envs) - 1
    BY DEF OvershootBounded
  <2>5. counters'.steps + Cardinality(InFlight') <=
            ceiling.steps + MaxLag + Cardinality(Envs) - 1
    <3>1. ceiling.steps \in Nat /\ MaxLag \in Nat /\ Cardinality(Envs) \in Nat
      BY CeilingTypes, Sizes, PipelineAssumption
    <3>2. counters.steps \in Nat /\ Cardinality(InFlight) \in Nat
      BY <1>0, InFlightSize
    <3> QED
      BY <2>2, <2>3, <2>4, <3>1, <3>2
  <2> QED
    BY <2>5, PrimedOvershoot
<1> QED
  BY <1>1, <1>2, <1>3, <1>4 DEF Next, InvokeSpoke

(* The kill switch is only ever set by a step that takes the environment   *)
(* out of, or past, its model call; and pre_check reads it.                *)
LEMMA KillSwitchStep == TypeOK /\ KillSwitchHolds /\ [Next]_vars => KillSwitchHolds'
<1> SUFFICES ASSUME TypeOK, KillSwitchHolds, [Next]_vars PROVE KillSwitchHolds'
  OBVIOUS
<1> USE DEF Goto
<1>0. /\ mem \in [Envs -> Memories] /\ pc \in [Envs -> PipelinePC]
      /\ \A e \in Envs : Len(mem[e].window) <= NO_PROGRESS_LOOKBACK
  BY DEF TypeOK
<1>1. CASE UNCHANGED vars
  BY <1>1 DEF vars, KillSwitchHolds
<1>2. ASSUME NEW e \in Envs, Invoke(e) \/ Execute(e) \/ ExecuteFails(e) \/ ReturnResult(e)
      PROVE  KillSwitchHolds'
  BY <1>0, <1>2 DEF KillSwitchHolds, Invoke, Execute, ExecuteFails, ReturnResult
<1>3. ASSUME NEW e \in Envs, PreCheck(e) PROVE KillSwitchHolds'
  <2>1. CASE SetKillSwitch(e) /\ Goto(e, "idle")
    <3>1. PICK m \in Memories : mem' = [mem EXCEPT ![e] = m]
      BY <1>0, <2>1, SetKillSwitchEffect
    <3> QED
      BY <1>0, <2>1, <3>1 DEF KillSwitchHolds
  <2>2. ASSUME NEW steps, NEW ceiling, ~PreCheckHalts(e, steps, ceiling), UNCHANGED mem,
               Goto(e, "idle") \/ Goto(e, "resolve")
        PROVE  KillSwitchHolds'
    BY <1>0, <2>2 DEF KillSwitchHolds, PreCheckHalts
  <2> QED
    BY <1>3, <2>1, <2>2 DEF PreCheck
<1>4. ASSUME NEW e \in Envs, Resolve(e) PROVE KillSwitchHolds'
  <2>1. CASE SetKillSwitch(e) /\ Goto(e, "idle")
    <3>1. PICK m \in Memories : mem' = [mem EXCEPT ![e] = m]
      BY <1>0, <2>1, SetKillSwitchEffect
    <3> QED
      BY <1>0, <2>1, <3>1 DEF KillSwitchHolds
  <2>2. CASE UNCHANGED mem /\ pc[e] = "resolve" /\ (Goto(e, "execute") \/ Goto(e, "idle"))
    BY <1>0, <2>2 DEF KillSwitchHolds
  <2> QED
    BY <1>4, <2>1, <2>2 DEF Resolve
<1>5. ASSUME NEW e \in Envs, NEW m \in Memories, mem' = [mem EXCEPT ![e] = m],
             NEW place \in PipelinePC, Goto(e, place),
             place \in {"resolve", "execute"} => ~m.killSwitch
      PROVE  KillSwitchHolds'
  BY <1>0, <1>5 DEF KillSwitchHolds
<1>6. ASSUME NEW e \in Envs, RecordUsage(e) PROVE KillSwitchHolds'
  <2>1. CASE UNCHANGED mem
    BY <1>0, <1>6, <2>1 DEF KillSwitchHolds, RecordUsage
  <2>2. CASE mem' = [mem EXCEPT ![e] = Recorded(@, task[e], result[e].status)]
    <3>1. Recorded(mem[e], task[e], result[e].status) \in Memories
      BY <1>0, RecordedEffect DEF TypeOK
    <3>2. mem' = [mem EXCEPT ![e] = Recorded(mem[e], task[e], result[e].status)]
      BY <2>2
    <3> QED
      BY <1>5, <1>6, <3>1, <3>2 DEF RecordUsage, PipelinePC
  <2> QED
    BY <1>6, <2>1, <2>2 DEF RecordUsage, CountUsage
<1>7. ASSUME NEW e \in Envs, FinishAttempt(e) PROVE KillSwitchHolds'
  <2>1. PICK m \in Memories : mem' = [mem EXCEPT ![e] = m]
    BY <1>0, <1>7, FinishAttemptEffect DEF FinishAttempt, TypeOK
  <2>2. \E place \in {"return", "precheck"} : Goto(e, place)
    BY <1>7 DEF FinishAttempt
  <2> QED
    BY <1>5, <2>1, <2>2 DEF PipelinePC
<1>8. ASSUME NEW e \in Envs, ColdStart(e) PROVE KillSwitchHolds'
  BY <1>5, <1>8, FreshMemoryType DEF ColdStart, PipelinePC
<1> QED
  BY <1>1, <1>2, <1>3, <1>4, <1>6, <1>7, <1>8 DEF Next, InvokeSpoke

(* A failure counter keeps up with the results counted: when the last k of *)
(* them are FAILED it has reached k.                                       *)
KeepsUp(results, failures) ==
    /\ results \in Seq(BOOLEAN) /\ Len(results) <= MAX_CONSECUTIVE_FAILURES
    /\ \A k \in 0 .. Len(results) :
          (\A i \in Len(results) - k + 1 .. Len(results) : results[i]) => failures >= k
FailuresCounted ==
    /\ counted \in [Envs -> [Agents -> Seq(BOOLEAN)]]
    /\ \A e \in Envs : \A a \in Agents : KeepsUp(counted[e][a], mem[e].failures[a])
SwitchFollowsCounter ==
    \A e \in Envs : \A a \in Agents :
        mem[e].failures[a] >= MAX_CONSECUTIVE_FAILURES => mem[e].killSwitch
FailuresInv == FailuresCounted /\ SwitchFollowsCounter

(* One more result, and the counter it moves.                              *)
LEMMA KeepsUpStep ==
    ASSUME NEW results, NEW failures \in Nat, KeepsUp(results, failures), NEW failed \in BOOLEAN
    PROVE  KeepsUp(LastCounted(results, failed), IF failed THEN failures + 1 ELSE 0)
<1> DEFINE d == LastCounted(results, failed)
           n == Len(d)
           f == IF failed THEN failures + 1 ELSE 0
           l == Len(results)
           longer == Append(results, failed)
<1>0. results \in Seq(BOOLEAN) /\ l \in Nat /\ l <= MAX_CONSECUTIVE_FAILURES
      /\ MAX_CONSECUTIVE_FAILURES \in Nat \ {0}
  BY PipelineAssumption DEF KeepsUp
<1>1. /\ longer \in Seq(BOOLEAN) /\ Len(longer) = l + 1
      /\ longer[l + 1] = failed /\ \A i \in 1 .. l : longer[i] = results[i]
  BY <1>0
<1>2. /\ Tail(longer) \in Seq(BOOLEAN) /\ Len(Tail(longer)) = l
      /\ \A i \in 1 .. l : Tail(longer)[i] = longer[i + 1]
  <2> HIDE DEF longer, l
  <2>1. longer # << >>
    BY <1>0, <1>1
  <2> QED
    BY <1>0, <1>1, <2>1
<1>3. /\ d \in Seq(BOOLEAN) /\ n \in {l, l + 1} /\ n <= MAX_CONSECUTIVE_FAILURES
      /\ n > 0 /\ d[n] = failed
      /\ \A j \in l - n + 2 .. l : d[j - l + n - 1] = results[j]
  <2>1. CASE Len(longer) > MAX_CONSECUTIVE_FAILURES
    <3>1. d = Tail(longer) /\ l = MAX_CONSECUTIVE_FAILURES
      BY <1>0, <1>1, <2>1 DEF LastCounted
    <3> HIDE DEF longer, d, l
    <3>2. Len(d) = l /\ d \in Seq(BOOLEAN) /\ d[l] = failed
      BY <1>0, <1>1, <1>2, <3>1
    <3>3. ASSUME NEW j \in 2 .. l PROVE d[j - 1] = results[j]
      <4>1. j - 1 \in 1 .. l /\ j \in 1 .. l /\ (j - 1) + 1 = j
        BY <1>0
      <4> QED
        BY <1>1, <1>2, <3>1, <4>1
    <3> QED
      BY <1>0, <3>1, <3>2, <3>3
  <2>2. CASE ~(Len(longer) > MAX_CONSECUTIVE_FAILURES)
    <3>1. d = longer
      BY <2>2 DEF LastCounted
    <3> HIDE DEF longer, d, l
    <3> QED
      BY <1>0, <1>1, <2>2, <3>1
  <2> QED
    BY <2>1, <2>2
<1>4. ASSUME NEW k \in 0 .. n, \A i \in n - k + 1 .. n : d[i] PROVE f >= k
  <2> HIDE DEF d, l
  <2>1. CASE k = 0
    BY <2>1
  <2>2. CASE k > 0
    <3>1. n \in n - k + 1 .. n
      BY <1>0, <1>3, <2>2
    <3>2. failed
      BY <1>3, <1>4, <3>1
    <3>3. k - 1 \in 0 .. l
      BY <1>0, <1>3, <2>2
    <3>4. ASSUME NEW j \in l - (k - 1) + 1 .. l PROVE results[j]
      <4>1. j \in l - n + 2 .. l /\ j - l + n - 1 \in n - k + 1 .. n
        BY <1>0, <1>3, <2>2
      <4> QED
        BY <1>3, <1>4, <4>1
    <3>5. failures >= k - 1
      BY <3>3, <3>4 DEF KeepsUp, l
    <3> QED
      BY <3>2, <3>5
  <2> QED
    BY <2>1, <2>2
<1> QED
  <2> HIDE DEF d, f
  <2>1. KeepsUp(d, f)
    BY <1>3, <1>4 DEF KeepsUp
  <2> QED
    BY <2>1 DEF d, f

(* Nothing counted yet: every counter keeps up.                            *)
LEMMA KeepsUpFresh ==
    ASSUME NEW a \in Agents
    PROVE  /\ NothingCounted \in [Agents -> Seq(BOOLEAN)]
           /\ KeepsUp(NothingCounted[a], FreshMemory.failures[a])
<1>1. NothingCounted[a] = << >> /\ FreshMemory.failures[a] = 0
  BY FreshMemoryType DEF NothingCounted
<1>2. << >> \in Seq(BOOLEAN) /\ Len(<< >>) = 0
  OBVIOUS
<1>3. NothingCounted \in [Agents -> Seq(BOOLEAN)]
  BY <1>2 DEF NothingCounted
<1> QED
  BY <1>1, <1>2, <1>3, PipelineAssumption DEF KeepsUp

(* Only record_usage moves the failure counters; it counts each result     *)
(* once and checks the counter it moved.                                   *)
LEMMA FailuresStep == TypeOK /\ FailuresInv /\ [Next]_vars => FailuresInv'
<1> SUFFICES ASSUME TypeOK, FailuresInv, [Next]_vars PROVE FailuresInv'
  OBVIOUS
<1> USE DEF FailuresInv, FailuresCounted, SwitchFollowsCounter
<1>0. /\ mem \in [Envs -> Memories] /\ task \in [Envs -> TaskTypes]
      /\ \A e \in Envs : Len(mem[e].window) <= NO_PROGRESS_LOOKBACK
  BY DEF TypeOK
<1>1. ASSUME UNCHANGED <<mem, counted>> PROVE FailuresInv'
  BY <1>1
<1>2. ASSUME NEW e \in Envs, NEW m \in Memories, mem' = [mem EXCEPT ![e] = m],
             NEW c \in [Agents -> Seq(BOOLEAN)], counted' = [counted EXCEPT ![e] = c],
             \A a \in Agents : KeepsUp(c[a], m.failures[a]),
             \A a \in Agents : m.failures[a] >= MAX_CONSECUTIVE_FAILURES => m.killSwitch
      PROVE  FailuresInv'
  BY <1>0, <1>2
<1>3. ASSUME NEW e \in Envs, NEW m \in Memories, mem' = [mem EXCEPT ![e] = m],
             m.failures = mem[e].failures, mem[e].killSwitch => m.killSwitch,
             UNCHANGED counted
      PROVE  FailuresInv'
  BY <1>0, <1>3
<1>4. ASSUME NEW e \in Envs, SetKillSwitch(e), UNCHANGED counted PROVE FailuresInv'
  <2>1. PICK m \in Memories :
           /\ mem' = [mem EXCEPT ![e] = m]
           /\ m.killSwitch = TRUE /\ m.failures = mem[e].failures
    BY <1>0, <1>4, SetKillSwitchEffect
  <2> QED
    BY <1>3, <1>4, <2>1
<1>5. ASSUME NEW e \in Envs, CountUsage(e) PROVE FailuresInv'
  <2> DEFINE r == Recorded(mem[e], task[e], result[e].status)
             agent == AgentOf[task[e]]
             failed == result[e].status = "FAILED"
             c == [counted[e] EXCEPT ![agent] = LastCounted(counted[e][agent], failed)]
  <2>1. mem' = [mem EXCEPT ![e] = r] /\ counted' = [counted EXCEPT ![e] = c]
    BY <1>5 DEF CountUsage
  <2>2. /\ r \in Memories
        /\ mem[e].killSwitch => r.killSwitch
        /\ \A a \in Agents : r.failures[a] >= MAX_CONSECUTIVE_FAILURES =>
              r.killSwitch \/ r.failures[a] = mem[e].failures[a]
    BY <1>0, RecordedEffect
  <2>3. agent \in Agents /\ mem[e].failures \in [Agents -> Nat] /\ failed \in BOOLEAN
    BY <1>0 DEF Agents, Memories
  <2>4. r.failures = [mem[e].failures EXCEPT ![agent] =
                          IF failed THEN mem[e].failures[agent] + 1 ELSE 0]
    BY <1>0, RecordedFailures
  <2>5. KeepsUp(LastCounted(counted[e][agent], failed),
                IF failed THEN mem[e].failures[agent] + 1 ELSE 0)
    BY <2>3, KeepsUpStep
  <2> HIDE DEF r, agent, failed
  <2>6. \A a \in Agents : KeepsUp(c[a], r.failures[a])
    BY <2>3, <2>4, <2>5
  <2>7. c \in [Agents -> Seq(BOOLEAN)]
    BY <2>3, <2>5 DEF KeepsUp
  <2>8. \A a \in Agents : r.failures[a] >= MAX_CONSECUTIVE_FAILURES => r.killSwitch
    BY <2>2
  <2> HIDE DEF c
  <2> QED
    BY <1>2, <2>1, <2>2, <2>6, <2>7, <2>8
<1>6. ASSUME NEW e \in Envs, FinishAttempt(e) PROVE FailuresInv'
  <2>1. PICK m \in Memories :
           /\ mem' = [mem EXCEPT ![e] = m]
           /\ m.killSwitch = mem[e].killSwitch /\ m.failures = mem[e].failures
    BY <1>0, <1>6, FinishAttemptEffect DEF FinishAttempt
  <2> QED
    BY <1>3, <1>6, <2>1 DEF FinishAttempt, history
<1>7. ASSUME NEW e \in Envs, ColdStart(e) PROVE FailuresInv'
  <2>1. \A a \in Agents : ~(FreshMemory.failures[a] >= MAX_CONSECUTIVE_FAILURES)
    BY FreshMemoryType, PipelineAssumption
  <2>2. /\ NothingCounted \in [Agents -> Seq(BOOLEAN)]
        /\ \A a \in Agents : KeepsUp(NothingCounted[a], FreshMemory.failures[a])
    BY KeepsUpFresh DEF NothingCounted
  <2> QED
    BY <1>2, <1>7, <2>1, <2>2, FreshMemoryType DEF ColdStart
<1>8. \/ UNCHANGED <<mem, counted>>
      \/ \E e \in Envs : \/ SetKillSwitch(e) /\ UNCHANGED counted
                         \/ CountUsage(e) \/ FinishAttempt(e) \/ ColdStart(e)
  BY DEF Next, InvokeSpoke, vars, history, Invoke, PreCheck, Resolve, Execute,
         ExecuteFails, RecordUsage, ReturnResult
<1> QED
  BY <1>1, <1>4, <1>5, <1>6, <1>7, <1>8
-------------------------------------------------------------------------------
(* The ladder                                                              *)

(* A tier that resolve_model returns depends on the attempt number alone;  *)
(* the Opus gate only decides between OPUS and RunHalt.                    *)
LEMMA ResolvedIsFloor ==
    ASSUME NEW t \in TaskTypes, NEW attempt \in AttemptStates, NEW allowed \in BOOLEAN,
           ResolveModel(t, attempt, allowed) \in Tiers
    PROVE  ResolveModel(t, attempt, allowed) = Floor(t, attempt.number)
<1>1. TASK_MODEL_POLICY[t] \in {"HAIKU", "SONNET", "OPUS"}
  BY PolicyAssumption DEF Tiers
<1>2. attempt.number \in Nat \ {0} /\ MAX_SONNET_RETRIES \in Nat
  BY PolicyAssumption DEF AttemptStates
<1>3. CASE attempt.number = 1
  BY <1>3 DEF ResolveModel, Floor
<1>4. CASE attempt.number > 1 /\ attempt.last # "failed"
  BY <1>2, <1>4 DEF ResolveModel, Tiers
<1>5. CASE attempt.number > 1 /\ attempt.last = "failed"
  BY <1>1, <1>2, <1>5 DEF ResolveModel, Floor, Tiers
<1> QED
  BY <1>2, <1>3, <1>4, <1>5

(* The ladder has no step down.                                            *)
LEMMA FloorClimbs ==
    ASSUME NEW t \in TaskTypes, NEW n \in Nat \ {0}
    PROVE  /\ Floor(t, n) \in Tiers
           /\ Rank(Floor(t, n)) \in Nat
           /\ Rank(Floor(t, n)) <= Rank(Floor(t, n + 1))
<1>1. TASK_MODEL_POLICY[t] \in {"HAIKU", "SONNET", "OPUS"} /\ MAX_SONNET_RETRIES \in Nat
  BY PolicyAssumption DEF Tiers
<1>2. Rank("HAIKU") = 1 /\ Rank("SONNET") = 2 /\ Rank("OPUS") = 3
  BY DEF Rank
<1>3. n + 1 # 1
  OBVIOUS
<1> QED
  BY <1>1, <1>2, <1>3 DEF Floor, Tiers

TierInv == UsedType /\ TierOfAttempt /\ UsedBelowFloor

(* An attempt is run on the tier its number calls for, and counted only    *)
(* after that; so what a task was run on never exceeds what comes next.    *)
LEMMA TierStep == TypeOK /\ TierInv /\ [Next]_vars => TierInv'
<1> SUFFICES ASSUME TypeOK, TierInv, [Next]_vars PROVE TierInv'
  OBVIOUS
<1> USE DEF TierInv, UsedType, TierOfAttempt, UsedBelowFloor, Attempt, Goto, DropLocals
<1>0. /\ mem \in [Envs -> Memories] /\ task \in [Envs -> TaskTypes]
      /\ pc \in [Envs -> PipelinePC] /\ tier \in [Envs -> Tiers \cup {"none"}]
      /\ \A e \in Envs : mem[e].attempts \in [TaskTypes -> AttemptStates]
      /\ \A e \in Envs : Len(mem[e].window) <= NO_PROGRESS_LOOKBACK
  BY DEF TypeOK, Memories
<1>1. CASE UNCHANGED vars
  BY <1>1 DEF vars, history
<1>2. ASSUME NEW e \in Envs, Invoke(e) \/ ExecuteFails(e) \/ ReturnResult(e)
      PROVE  TierInv'
  BY <1>0, <1>2 DEF Invoke, ExecuteFails, ReturnResult, history
(* A new memory with the same attempt numbers, away from the model call.   *)
<1>3. ASSUME NEW e \in Envs, NEW m \in Memories, mem' = [mem EXCEPT ![e] = m],
             \A t \in TaskTypes : m.attempts[t].number = mem[e].attempts[t].number,
             pc' \in [Envs -> PipelinePC], pc'[e] # "execute",
             \A f \in Envs \ {e} : pc'[f] = pc[f] /\ tier'[f] = tier[f],
             UNCHANGED <<task, used>>
      PROVE  TierInv'
  BY <1>0, <1>3
<1>4. ASSUME NEW e \in Envs, SetKillSwitch(e), Goto(e, "idle"), UNCHANGED <<task, tier, used>>
      PROVE  TierInv'
  <2>1. PICK m \in Memories :
           mem' = [mem EXCEPT ![e] = m] /\ m.attempts = mem[e].attempts
    BY <1>0, <1>4, SetKillSwitchEffect
  <2> QED
    BY <1>0, <1>3, <1>4, <2>1 DEF PipelinePC
<1>5. ASSUME NEW e \in Envs, PreCheck(e) PROVE TierInv'
  <2>1. CASE UNCHANGED mem /\ (Goto(e, "idle") \/ Goto(e, "resolve"))
    BY <1>0, <1>5, <2>1 DEF PreCheck, history
  <2> QED
    BY <1>4, <1>5, <2>1 DEF PreCheck, history
<1>6. ASSUME NEW e \in Envs, Resolve(e) PROVE TierInv'
  <2> DEFINE Resolution(ceiling) ==
               ResolveModel(task[e], Attempt(e), OpusAllowed(ceiling))
  <2>0. PICK ceiling \in CeilingsRead :
           \/ /\ Resolution(ceiling) \in Tiers
              /\ tier' = [tier EXCEPT ![e] = Resolution(ceiling)]
              /\ Goto(e, "execute") /\ UNCHANGED mem
           \/ UNCHANGED <<mem, tier>> /\ Goto(e, "idle")
           \/ SetKillSwitch(e) /\ Goto(e, "idle") /\ UNCHANGED tier
    BY <1>6 DEF Resolve
  <2> DEFINE resolution == Resolution(ceiling)
  <2>1. CASE resolution \in Tiers /\ tier' = [tier EXCEPT ![e] = resolution]
               /\ Goto(e, "execute") /\ UNCHANGED mem
    <3>1. OpusAllowed(ceiling) \in BOOLEAN
      BY DEF OpusAllowed
    <3>2. resolution = Floor(task[e], Attempt(e).number)
      BY <1>0, <2>1, <3>1, ResolvedIsFloor
    <3> HIDE DEF resolution
    <3> QED
      BY <1>0, <1>6, <2>1, <3>2 DEF Resolve, history
  <2>2. CASE UNCHANGED <<mem, tier>> /\ Goto(e, "idle")
    BY <1>0, <1>6, <2>2 DEF Resolve, history
  <2>3. CASE SetKillSwitch(e) /\ Goto(e, "idle") /\ UNCHANGED tier
    BY <1>4, <1>6, <2>3 DEF Resolve, history
  <2> QED
    BY <2>0, <2>1, <2>2, <2>3
<1>7. ASSUME NEW e \in Envs, Execute(e) PROVE TierInv'
  <2>1. /\ UNCHANGED <<mem, task, tier>>
        /\ used' = [used EXCEPT ![e][task[e]] = tier[e]]
        /\ pc[e] = "execute" /\ pc' \in [Envs -> PipelinePC] /\ pc'[e] # "execute"
        /\ \A f \in Envs \ {e} : pc'[f] = pc[f]
    BY <1>0, <1>7 DEF Execute, PipelinePC
  <2>2. tier[e] = Floor(task[e], mem[e].attempts[task[e]].number)
    BY <2>1
  <2>3. UsedType'
    BY <1>0, <2>1
  <2>4. TierOfAttempt'
    BY <1>0, <2>1
  <2>5. UsedBelowFloor'
    <3>1. mem[e].attempts[task[e]].number \in Nat \ {0} /\ task[e] \in TaskTypes
      BY <1>0 DEF AttemptStates
    <3>2. tier[e] \in Tiers /\ Rank(tier[e]) \in Nat
      BY <2>2, <3>1, FloorClimbs
    <3> QED
      BY <1>0, <2>1, <2>2, <3>2
  <2> QED
    BY <2>3, <2>4, <2>5
<1>8. ASSUME NEW e \in Envs, RecordUsage(e) PROVE TierInv'
  <2>1. /\ pc' \in [Envs -> PipelinePC] /\ pc'[e] # "execute"
        /\ \A f \in Envs \ {e} : pc'[f] = pc[f] /\ tier'[f] = tier[f]
        /\ UNCHANGED <<task, used>>
    BY <1>0, <1>8 DEF RecordUsage, PipelinePC
  <2>2. CASE UNCHANGED mem
    BY <1>0, <2>1, <2>2
  <2>3. CASE mem' = [mem EXCEPT ![e] = Recorded(@, task[e], result[e].status)]
    <3> DEFINE r == Recorded(mem[e], task[e], result[e].status)
    <3>1. mem' = [mem EXCEPT ![e] = r]
      BY <2>3
    <3>2. /\ mem[e] \in Memories /\ task[e] \in TaskTypes
          /\ Len(mem[e].window) <= NO_PROGRESS_LOOKBACK
      BY <1>0
    <3>3. r \in Memories /\ r.attempts = mem[e].attempts
      BY <3>2, RecordedEffect
    <3> HIDE DEF r
    <3> QED
      BY <1>3, <2>1, <3>1, <3>3
  <2> QED
    BY <1>8, <2>2, <2>3 DEF RecordUsage, CountUsage
<1>9. ASSUME NEW e \in Envs, FinishAttempt(e) PROVE TierInv'
  <2>1. /\ pc' \in [Envs -> PipelinePC] /\ pc'[e] # "execute"
        /\ \A f \in Envs \ {e} : pc'[f] = pc[f] /\ tier'[f] = tier[f]
        /\ UNCHANGED <<task, used>>
    BY <1>0, <1>9 DEF FinishAttempt, PipelinePC, history
  <2>2. PICK m \in Memories :
           /\ mem' = [mem EXCEPT ![e] = m]
           /\ \A t \in TaskTypes :
                 m.attempts[t].number \in
                     {mem[e].attempts[t].number, mem[e].attempts[t].number + 1}
    BY <1>0, <1>9, FinishAttemptEffect DEF FinishAttempt
  <2>3. \A t \in TaskTypes :
           Rank(Floor(t, mem[e].attempts[t].number)) <= Rank(Floor(t, m.attempts[t].number))
    <3> TAKE t \in TaskTypes
    <3>1. mem[e].attempts[t].number \in Nat \ {0}
      BY <1>0 DEF AttemptStates
    <3> QED
      BY <2>2, <3>1, FloorClimbs
  <2>4. \A t \in TaskTypes : used[e][t] # "none" =>
           Rank(used[e][t]) <= Rank(Floor(t, m.attempts[t].number))
    <3> TAKE t \in TaskTypes
    <3>1. mem[e].attempts[t].number \in Nat \ {0} /\ m.attempts[t].number \in Nat \ {0}
      BY <1>0 DEF AttemptStates, Memories
    <3>2. used[e][t] # "none" => Rank(used[e][t]) \in Nat
      BY DEF Rank, Tiers
    <3> QED
      BY <2>3, <3>1, <3>2, FloorClimbs
  <2> QED
    BY <1>0, <2>1, <2>2, <2>4
<1>10. ASSUME NEW e \in Envs, ColdStart(e) PROVE TierInv'
  BY <1>0, <1>10 DEF ColdStart
<1> QED
  BY <1>1, <1>2, <1>5, <1>6, <1>7, <1>8, <1>9, <1>10 DEF Next, InvokeSpoke
-------------------------------------------------------------------------------
PInv ==
    /\ TypeOK
    /\ OvershootBounded
    /\ KillSwitchHolds
    /\ FailuresInv
    /\ TierInv

(* Every environment starts cold.                                          *)
LEMMA InitPInv == Init => PInv
<1> SUFFICES ASSUME Init PROVE PInv
  OBVIOUS
<1> USE DEF Init
<1>1. TypeOK
  <2>1. Len(FreshMemory.window) <= NO_PROGRESS_LOOKBACK
    BY FreshMemoryType, PipelineAssumption
  <2> QED
    BY <2>1, Sizes, FreshMemoryType, PipelineAssumption DEF TypeOK, PipelinePC
<1>2. OvershootBounded
  <2>1. InFlight = {}
    BY DEF InFlight
  <2> QED
    BY <2>1, FS_EmptySet, CeilingTypes, Sizes, PipelineAssumption DEF OvershootBounded
<1>3. KillSwitchHolds
  BY DEF KillSwitchHolds
<1>4. FailuresInv
  <2>1. NothingCounted \in [Agents -> Seq(BOOLEAN)]
    <3>1. << >> \in Seq(BOOLEAN)
      OBVIOUS
    <3> QED
      BY <3>1 DEF NothingCounted
  <2> QED
    BY <2>1, KeepsUpFresh, FreshMemoryType, PipelineAssumption
    DEF FailuresInv, FailuresCounted, SwitchFollowsCounter
<1>5. TierInv
  BY DEF TierInv, UsedType, TierOfAttempt, UsedBelowFloor
<1> QED
  BY <1>1, <1>2, <1>3, <1>4, <1>5 DEF PInv

(* The inductive invariant holds in every reachable state.                 *)
LEMMA PInvHolds == Spec => []PInv
<1>1. PInv /\ [Next]_vars => PInv'
  BY TypeStep, OvershootStep, KillSwitchStep, FailuresStep, TierStep DEF PInv
<1> QED
  BY <1>1, InitPInv, PTL DEF Spec

(* Every reachable state is well typed.                                    *)
THEOREM PipelineTypeCorrect == Spec => []TypeOK
<1>1. PInv => TypeOK
  BY DEF PInv
<1> QED
  BY <1>1, PInvHolds, PTL

(* The higher step ceiling is overshot by at most one step per further     *)
(* environment, whatever the interleaving of checks and records.           *)
THEOREM OvershootIsBounded == Spec => []OvershootBounded
<1>1. PInv => OvershootBounded
  BY DEF PInv
<1> QED
  BY <1>1, PInvHolds, PTL

(* An environment whose kill switch is set resolves no tier and calls no   *)
(* model, however the switch was set.                                      *)
THEOREM KillSwitchIsEffective == Spec => []KillSwitchHolds
<1>1. PInv => KillSwitchHolds
  BY DEF PInv
<1> QED
  BY <1>1, PInvHolds, PTL

(* MAX_CONSECUTIVE_FAILURES counted results of one agent in a row that are *)
(* FAILED always leave the kill switch of their environment set, whatever  *)
(* retries, exceptions, halts and cold starts came between.                *)
THEOREM BreakerTrips == Spec => []FailuresTripBreaker
<1>1. PInv => FailuresTripBreaker
  <2> SUFFICES ASSUME PInv, NEW e \in Envs, NEW a \in Agents, AllFailed(counted[e][a])
               PROVE  mem[e].killSwitch
    BY DEF FailuresTripBreaker
  <2> DEFINE results == counted[e][a]
             n == MAX_CONSECUTIVE_FAILURES
  <2>1. KeepsUp(results, mem[e].failures[a])
    BY DEF PInv, FailuresInv, FailuresCounted
  <2>2. n \in Nat /\ Len(results) = n /\ \A i \in 1 .. Len(results) : results[i]
    BY PipelineAssumption DEF AllFailed
  <2>3. n \in 0 .. Len(results) /\ Len(results) - n + 1 = 1
    BY <2>2
  <2>4. mem[e].failures[a] >= n
    BY <2>1, <2>2, <2>3 DEF KeepsUp
  <2> QED
    BY <2>4 DEF PInv, FailuresInv, SwitchFollowsCounter
<1> QED
  BY <1>1, PInvHolds, PTL

(* For every routing policy and retry limit, no task is ever run, in one   *)
(* environment, on a tier below one it was run on before.                  *)
THEOREM EscalationIsMonotonic == Spec => []EscalationMonotonic
<1>1. PInv => EscalationMonotonic
  BY DEF PInv, TierInv, TypeOK, TierOfAttempt, UsedBelowFloor, EscalationMonotonic, Attempt
<1> QED
  BY <1>1, PInvHolds, PTL
===============================================================================
