\* A stop and a quarantine, sent again and again by heartbeats and checkpoints.
CONSTANTS
    s1 = s1
    q1 = q1
    Stops <- OneStop
    Quarantines <- OneQuarantine
SPECIFICATION FairSpec
INVARIANTS
    HookOnce
    ReportsAccounted
    ExitReports
PROPERTY
    AtLeastOnceUndrained
