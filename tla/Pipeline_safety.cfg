\* Two environments racing through a HAIKU and a SONNET task of one agent.
SPECIFICATION Spec
CONSTANTS
    TaskTypes <- TwoTasks
    TASK_MODEL_POLICY <- TwoTaskPolicy
    AgentOf <- TwoTaskAgents
    MAX_SONNET_RETRIES = 2
    Envs = {e1, e2}
    MaxSteps = 1
    MaxOpusInvocations = 0
    DEFAULT_BUDGET_CEILING <- LargerDefault
    NO_PROGRESS_LOOKBACK = 2
    MAX_CONSECUTIVE_FAILURES = 2
    MaxColdStarts = 1
    MaxLag = 1
SYMMETRY Symmetry
INVARIANTS TypeOK OvershootBounded KillSwitchHolds FailuresTripBreaker EscalationMonotonic
CHECK_DEADLOCK FALSE
