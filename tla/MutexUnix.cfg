SPECIFICATION FairSpec
CONSTANTS
    a = a
    b = b
    c = c
    p = p
    q = q
    Free = Free
    NoConn = NoConn
    Reset = Reset
    Tasks <- MCTasks
    Procs <- MCProcs
    ProcOf <- MCProcOf
    Access <- MCAccess
    Manual = {b}
    Mortal = {q}
    NamedPipes = FALSE
    CloseResets = TRUE
    FnCodes = FALSE
    MaxRetries = 2
PROPERTIES
    FileLossCauses
    CallsEnd
    DeadHolderCleared
\* Every call is answered or dead in the end, and the system stops.
CHECK_DEADLOCK FALSE
