\* A report is written to a file of another part of the process.
SPECIFICATION Spec
CONSTANTS
    Conns = {c1}
    Others = {o1}
    Fds <- TwoFds
    Senders = {s1}
    NoFd = NoFd
    NoFile = NoFile
INVARIANTS SenderAimed
