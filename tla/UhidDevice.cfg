\* Two numbers, one of which another file may take; the queue overflows.
SPECIFICATION FairSpec
CONSTANTS
    Fds = {f1, f2}
    NoFd = NoFd
    MaxQueue = 2
    MaxRequests = 3
INVARIANTS NothingLeft ReaderKeepsFile
PROPERTIES OthersIntact RequestsAnswered DestroyReturns
CHECK_DEADLOCK FALSE
