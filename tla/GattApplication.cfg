\* Registration, service and shutdown, as BlueZ accepts, refuses, hangs or
\* restarts.
SPECIFICATION MainSpec
CONSTANTS
    Inline = TRUE
    Rejects = TRUE
    Timeouts = TRUE
    MaxRestarts = 1
    MaxInbox = 3
    Modes = {1, 255}
    Reports = {0, 1}
INVARIANTS TablesAgree KnownWhileServing NotifyFollows
INVARIANTS ReadsSeeWrites StopUnregisters
PROPERTIES CallsReturn
CHECK_DEADLOCK FALSE
