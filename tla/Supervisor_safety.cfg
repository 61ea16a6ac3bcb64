\* Two environments racing through four steps, reads of earlier versions included.
SPECIFICATION Spec
CONSTANTS
    NumSteps = 4
    Artifacts = {a1, a2}
    NoArtifact = NoArtifact
    Workers = {w1, w2}
    MaxIterations = 5
    MaxRetries = 1
    StaleReads = TRUE
SYMMETRY Symmetry
INVARIANTS TypeOK RecordedPrefix SnapshotsArePasts CompletedMeansAllRecorded LineageConsistent
CHECK_DEADLOCK FALSE
