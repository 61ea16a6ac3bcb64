\* Two runs of one step, two calls in flight, two writes by others, and one call
\* that fails or one write that reads may miss.
SPECIFICATION FairSpec
CONSTANTS
    Runs = {r1, r2}
    Open = {"RUNNING"}
    Gated = {r1}
    Blank = Blank
    NumSteps = 1
    MaxCalls = 2
    MaxWrites = 2
    MaxFaults = 1
INVARIANTS TypeOK CompletedShownWhole BackOnlyIfLate
PROPERTIES ShownIsCurrent PageCatchesUp
