\* Two callers with up to three attempts each, one rotation, one death.
SPECIFICATION FairSpec
CONSTANTS
    Callers = {c1, c2}
    MaxAttempts = 3
    MaxRotations = 1
    MaxCrashes = 1
INVARIANTS TypeOK FailureRecorded RetriesBounded CredentialFresh
PROPERTY CallEnds
CHECK_DEADLOCK FALSE
