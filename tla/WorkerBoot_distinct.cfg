CONSTANTS
    Jobs = {a, b}
    Names = {a, b, x}
    Never = Never
    MaxTime = 5
    Interval <- MCInterval
    LastUpdates = {0, 1}
SPECIFICATION DistinctBootSpec
INVARIANTS ActiveJobsScheduled OneRunEach OneEntryPerJob NothingLost
PROPERTIES ImplementsSchedule
