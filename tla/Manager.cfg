CONSTANTS
    Threads = {t1, t2}
    Workers = {"w"}
    Mirrors = {"m", "x"}
    Requests <- MCConcurrent
    MaxTime = 2
    None = None
SPECIFICATION MgrSpec
SYMMETRY MCSymmetry
INVARIANTS TimesOrdered
PROPERTIES NoResurrection
