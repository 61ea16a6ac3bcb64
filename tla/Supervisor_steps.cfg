\* The action and temporal properties, without symmetry.
SPECIFICATION FairSpec
CONSTANTS
    NumSteps = 3
    Artifacts = {a1, a2}
    NoArtifact = NoArtifact
    Workers = {w1, w2}
    MaxIterations = 4
    MaxRetries = 2
    StaleReads = FALSE
PROPERTIES ImplementsRecord HaltFinalOnceDrained TriggeredRunWorkedOff
CHECK_DEADLOCK FALSE
