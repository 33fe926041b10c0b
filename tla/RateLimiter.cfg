CONSTANTS
    Requests = {r1, r2}
    Addrs = {a1, a2}
    Threshold = 2
    Window = 2
    Cooldown = 3
    MinInterval = 1
    MaxInterval = 60
    DrainFirst = TRUE
    MaxTime = 6
SPECIFICATION FairSpec
INVARIANTS TypeOK EntryAgeBound
PROPERTIES BlockIsEarned BlockNeverProlonged BlockEndsEarlyOnlyByLateFailure UnloadReleases
CHECK_DEADLOCK FALSE
