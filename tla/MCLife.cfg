CONSTANTS
    parent = parent
    child1 = child1
    child2 = child2
    killer = killer
    worker = worker
    Tasks = {parent, child1, child2}
    Root = parent
    NoTask = NoTask
    Parents = {parent}
    Options <- Untraced
    Catches = {parent}
    Killers = {killer}
    Sent <- JobsAndKill
    Workers = {worker}
SPECIFICATION Spec
INVARIANTS
    HandlesLive
    
    RefsExact
CHECK_DEADLOCK FALSE
