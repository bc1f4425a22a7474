CONSTANTS
    MaxName = 3
    Settings = {"u", "v"}
    MaxReloads = 2
SPECIFICATION ReloadSpec
INVARIANTS DiffIsDifference ReloadKeepsStates JobsMatchConfig
