SPECIFICATION Spec
CONSTANTS
    p1 = p1
    p2 = p2
    p3 = p3
    Procs <- MCProcs
    UnlinkWhileOpen = TRUE
    PidReuse = FALSE
    MaxCrashes = 1
PROPERTY RemovesOnlyExited
