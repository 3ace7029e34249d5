CONSTANTS
    t1 = t1
    t2 = t2
    Tasks = {t1, t2}
    init_task = t1
    Idle = Idle
    NoTask = NoTask
    NCpus = 1
    Affinities = {}
    Signals = {"exit"}
    Entries = {"syscall"}
SPECIFICATION Spec
INVARIANTS
    NoIdleFailure
CHECK_DEADLOCK FALSE
