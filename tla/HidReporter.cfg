\* Every pair of characters, after every stroke left down.
SPECIFICATION Spec
CONSTANTS
    Chars <- AllChars
    MaxText = 2
    Strokes <- MCStrokes
    Words <- MCWords
    Links = {"ble", "classic"}
    MaxCommands = 2
    TextFrom = 1
INVARIANTS HostReadsText LinesObeyed
CHECK_DEADLOCK FALSE
