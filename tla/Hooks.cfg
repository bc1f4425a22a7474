SPECIFICATION HooksSpec
CONSTANTS
    Enabled <- MCDocker
    Retry = 2
    Keep = 2
    Mishaps <- MayFail
    SameMinute = FALSE
    MaxRuns = 3
    MaxMinute = 4
    NoVal = NoVal
INVARIANTS
    NeverBelowBottom
    LogFileOfTry
    LogIsOwn
    LogDirKept
    SnapshotIsSynced
