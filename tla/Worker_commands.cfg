CONSTANTS
    a = a
    Jobs = {a}
    JobOf <- MCOneJob
    Concurrent = 1
    Retry = 1
    EnvCtrl = {}
    NoMsg = NoMsg
    NoChan = NoChan
    NoJob = NoJob
    Patient = TRUE
    Runs = {r1, r2}
    TermErrors = FALSE
    MsgCap = 12
    MaxCmds = 4
    Cmds = {"restart", "stop", "disable"}
    MayHalt = FALSE
SPECIFICATION WSpec
SYMMETRY MCSymmetry
INVARIANTS OneRunPerJob JobNotForgotten NoOrphanRunner
PROPERTY DisableStops
