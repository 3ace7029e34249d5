CONSTANTS
    b = b
    t1 = t1
    t2 = t2
    a = a
    Tasks = {t1, t2}
    Creator = t1
    Signalled = {t2}
    Byte = {a, b}
    NoByte = NoByte
    Writes <- TwoBytes
    MaxBuffer = 2
    WorkSize = 2
SPECIFICATION FairSpec
INVARIANTS
    NoSleepWithSignal
    ReaderSleepsOnEmpty
    WriterSleepsOnBytes
PROPERTIES
    IsStream
    SleepersReleased
CHECK_DEADLOCK FALSE
