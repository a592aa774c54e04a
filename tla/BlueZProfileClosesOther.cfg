\* A reader closes a file of another part of the process.
SPECIFICATION Spec
CONSTANTS
    Conns = {c1}
    Others = {o1}
    Fds <- TwoFds
    Senders = {}
    NoFd = NoFd
    NoFile = NoFile
INVARIANTS OthersIntact
