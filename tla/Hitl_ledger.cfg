\* Two requests at a time, for one ticket or for two, late reads and a crash.
SPECIFICATION Spec
CONSTANTS
    Tickets = {t1, t2}
    Deciders = {d1, d2}
    MaxCrashes = 1
    StaleReads = TRUE
SYMMETRY Symmetry
INVARIANTS TypeOK ResumedIsAudited
PROPERTY ImplementsLedger
