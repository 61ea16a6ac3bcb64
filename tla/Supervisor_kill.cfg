\* One worker and one kill_run: the stale status written with a step.
SPECIFICATION Spec
CONSTANTS
    NumSteps = 2
    Artifacts = {a1}
    NoArtifact = NoArtifact
    Workers = {w1}
    MaxIterations = 3
    MaxRetries = 1
    StaleReads = FALSE
PROPERTY KillSurvivesSave
CHECK_DEADLOCK FALSE
