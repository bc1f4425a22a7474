CONSTANTS
    a = a
    Jobs = {a}
    Runs = {r1}
    JobOf <- MCOneJob
    Concurrent = 1
    Retry = 1
    MsgCap = 12
    MaxCmds = 1
    EnvCtrl = {}
    TermErrors = FALSE
    NoMsg = NoMsg
    NoChan = NoChan
    NoJob = NoJob
    Cmds = {"start", "stop", "disable"}
    MayHalt = FALSE
    Patient = TRUE
    WorkerID = w
    Reporters = {p1}
    Clients = {c1}
    Timeouts = FALSE
    ServerRace = FALSE
    None = None
SPECIFICATION SysSpec
INVARIANTS QuietAgreement RunningShown
