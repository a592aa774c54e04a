\* Liveness of stop() and of accept, with descriptors enough.
SPECIFICATION FairSpec
CONSTANTS
    Procs = {p1}
    Clients = {c1, c2}
    Lines <- OneSendsLong
    MaxLines = 1
    Window = 1
    Backlog = 2
    FdLimit = 3
    NoProc = NoProc
PROPERTIES StopReturns ClientsAreServed AnswersCome
CHECK_DEADLOCK FALSE
