CONSTANTS
    waiter = waiter
    pipe = pipe
    eventfd = eventfd
    timerfd = timerfd
    evdev = evdev
    Epollers = {waiter}
    Pollers = {waiter}
    PollFds <- PolledFds
    Actors = {actor}
    Pipes = {pipe}
    WriteEnds = {}
    Eventfds = {eventfd}
    Timerfds = {timerfd}
    Evdevs = {evdev}
    owner_pid <- Owners
    Semaphores = {}
    MaxCounter = 1
    PIPE_BUF_SIZE = 1
    MaxRing = 1
    MaxEvents = 1
    Timeouts <- Finite
    Grabbers = {"other"}
    Interests <- Watched
    FdSeq <- Order
    None = None
SPECIFICATION Spec
INVARIANTS
    NoMissedReady
    EdgeKept
