CONSTANTS
    Fields <- MCFields
    Values <- MCValues
    Empty = Empty
    Broken = Broken
    MainFiles <- MCMainFiles
    Included <- MCIncluded
    MaxEdits = 2
    MaxSignals = 3
    MaxTerms = 1
SPECIFICATION DaemonSpec
INVARIANT LatestLoaded
PROPERTY TermEndsWorker
