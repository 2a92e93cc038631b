\* An orderly shutdown of the server.
CONSTANTS
    Changes = {c1, c2}
    WritesFail = FALSE
    LoadsFail = FALSE
SPECIFICATION StoreFileSpec
PROPERTY ShutdownKeepsChanges
