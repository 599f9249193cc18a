SPECIFICATION Spec
CONSTANTS
    None = None
    a1 = a1
    a2 = a2
    w1 = w1
    Admins = {a1, a2}
    Writers = {w1}
    Actions = {"create", "activate", "suspend", "terminate", "legalHold", "purge", "reopen"}
    Modes = {"SHARED", "SCHEMA", "DATABASE"}
    MaxVersion = 6
    Failures = TRUE
SYMMETRY Symmetry
CHECK_DEADLOCK FALSE
PROPERTIES
    ChecksStillHold
