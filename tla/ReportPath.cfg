\* Two clients, one of them twice and with TYPE, and both hosts.
\* Liveness: no symmetry.
SPECIFICATION FairSpec
CONSTANTS
    Clients = {c1, c2}
    Keys = {0, 4, 5}
    Mods = {0, 2}
    Commands <- PressRelease
    MaxCommands <- TwoOne
    MaxStrokes <- TwoOne
    HasClassic = TRUE
    HostLeaves = TRUE
    NoClient = NoClient
INVARIANTS StoredIsCurrent NoKeyLeftStored SendsOwnStroke HostsFollow
PROPERTIES Answered ImplementsStream
CHECK_DEADLOCK FALSE
