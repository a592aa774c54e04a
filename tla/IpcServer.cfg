\* One run at a time, clients that wait for each answer.
SPECIFICATION Spec
CONSTANTS
    Procs = {p1, p2}
    Clients = {c1, c2}
    Lines <- ShortLines
    MaxLines = 2
    Window = 1
    Backlog = 1
    FdLimit = 2
    NoProc = NoProc
SYMMETRY Symmetry
INVARIANTS PathLeadsToServer OpenIsHandled
PROPERTIES NoneAfterStop ImplementsChannel
CHECK_DEADLOCK FALSE
