CONSTANTS
    t1 = t1
    t2 = t2
    Tasks = {t1}
    init_task = t1
    Idle = Idle
    NoTask = NoTask
    NCpus = 2
    Affinities = {{1}, {0, 1}}
    Signals = {}
    Entries = {"syscall", "fault"}
SPECIFICATION FairSpec
PROPERTIES
    ReadyRuns
CHECK_DEADLOCK FALSE
