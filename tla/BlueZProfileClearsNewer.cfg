\* A reader clears a newer connection's number.
SPECIFICATION Spec
CONSTANTS
    Conns = {c1, c2}
    Others = {o1}
    Fds <- TwoFds
    Senders = {}
    NoFd = NoFd
    NoFile = NoFile
PROPERTIES ReaderClearsOwn
