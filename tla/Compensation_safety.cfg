\* A deployment, its gate and another one, late reads, requests that decide again.
SPECIFICATION CompensationSpec
CONSTANTS
    Tickets = {t1, t2}
    Deciders = {d1}
    MaxCrashes = 0
    StaleReads = TRUE
    Deployments = {s1}
    Resumers = {r1}
    MaxResumes = 1
SYMMETRY Symmetry
INVARIANTS DestroyedOnlyIfApproved GateOnlyAfterFailure
