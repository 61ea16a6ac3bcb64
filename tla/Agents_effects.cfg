\* Two workers racing through the six steps, three faults of any kind.
SPECIFICATION FairSpec
CONSTANTS
    Workers = {w1, w2}
    MaxFaults = 3
INVARIANTS TypeOK RecordedArtifactsStored BlueprintGrounded ConflictFlaggedFirst OnePullRequest
PROPERTIES RecordedBytesKept RunFinishes
CHECK_DEADLOCK FALSE
