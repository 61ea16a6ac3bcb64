\* Two workers, a gate before the first of two steps, two tickets, one decider.
SPECIFICATION GatedFairSpec
CONSTANTS
    NumSteps = 2
    Artifacts = {a1}
    NoArtifact = NoArtifact
    Workers = {w1, w2}
    MaxIterations = 2
    MaxRetries = 1
    StaleReads = FALSE
    GatedStep = 0
    Tickets = {t1, t2}
    Deciders = {d1}
INVARIANTS GatedStepApproved GatedPrefix
PROPERTY ApprovedRunGoesOn
CHECK_DEADLOCK FALSE
