CONSTANTS
    Jobs = {a, b}
    Runs = {a, b}
    JobOf <- MCJobOf
    Concurrent = 1
    Retry = 2
    MsgCap = 1
    EnvCtrl = {"jobStart", "jobForceStart"}
    TermErrors = TRUE
    NoMsg = NoMsg
    NoChan = NoChan
SPECIFICATION MJSpec
SYMMETRY MCSymmetry
INVARIANTS RunReschedules SemaphoreLimit
PROPERTY ReportOrder
