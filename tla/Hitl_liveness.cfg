\* No crashes: a decision takes effect, or the one it raced with does.
SPECIFICATION FairSpec
CONSTANTS
    Tickets = {t1, t2}
    Deciders = {d1, d2}
    MaxCrashes = 0
    StaleReads = FALSE
PROPERTY DecidedTakesEffect
