CONSTANTS
    a = a
    Jobs = {a}
    JobOf <- MCOneJob
    Concurrent = 1
    Retry = 2
    EnvCtrl = {}
    NoMsg = NoMsg
    NoChan = NoChan
    NoJob = NoJob
    Patient = TRUE
    Runs = {r1}
    TermErrors = TRUE
    MsgCap = 2
    MaxCmds = 1
    Cmds = {"start", "force", "stop", "disable", "ping"}
    MayHalt = TRUE
SPECIFICATION WFairSpec
INVARIANT HaltStopsAll
PROPERTIES HandlerFinishes HaltExits KillReturns
\* A handler that waits for ever is a violation of HandlerFinishes;
\* Worker_commands checks deadlock.
CHECK_DEADLOCK FALSE
