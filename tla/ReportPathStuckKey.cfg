\* Two clients at once: a notification overtakes a release.
SPECIFICATION Spec
CONSTANTS
    Clients = {c1, c2}
    Keys = {0, 4, 5}
    Mods = {0, 2}
    Commands <- PressRelease
    MaxCommands <- EachTwo
    MaxStrokes <- EachTwo
    HasClassic = FALSE
    HostLeaves = FALSE
    NoClient = NoClient
SYMMETRY Symmetry
INVARIANTS HostReleased
CHECK_DEADLOCK FALSE
