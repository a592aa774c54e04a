\* Numbers are handed out lowest first.  Liveness: no symmetry.
SPECIFICATION FairSpec
CONSTANTS
    Conns = {c1, c2}
    Others = {o1}
    Fds <- TwoFds
    Senders = {s1}
    NoFd = NoFd
    NoFile = NoFile
INVARIANTS
    TypeOK WatchedUntilCleared NoLeak StoredFdIsNewest InTurnHarmless
PROPERTIES
    ClearsOwnUnlessClash SocketReleased ImplementsHostSlot
