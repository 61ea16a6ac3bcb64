\* The recursion on low confidence ends, with two environments.
SPECIFICATION FairSpec
CONSTANTS
    TaskTypes <- TwoTasks
    TASK_MODEL_POLICY <- TwoTaskPolicy
    AgentOf <- TwoTaskAgents
    MAX_SONNET_RETRIES = 2
    Envs = {e1, e2}
    MaxSteps = 1
    MaxOpusInvocations = 0
    DEFAULT_BUDGET_CEILING <- SmallerDefault
    NO_PROGRESS_LOOKBACK = 3
    MAX_CONSECUTIVE_FAILURES = 3
    MaxColdStarts = 0
    MaxLag = 1
PROPERTY InvocationTerminates
CHECK_DEADLOCK FALSE
