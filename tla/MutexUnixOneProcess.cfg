SPECIFICATION Spec
CONSTANTS
    a = a
    b = b
    c = c
    p = p
    q = q
    Free = Free
    NoConn = NoConn
    Reset = Reset
    Tasks <- MCTasks
    Procs <- MCProcs
    ProcOf <- MCOneProcOf
    Access <- MCAccess
    Manual = {}
    Mortal = {}
    NamedPipes = FALSE
    CloseResets = TRUE
    FnCodes = FALSE
    MaxRetries = 2
INVARIANT
    MutualExclusion
\* Every call is answered or dead in the end, and the system stops.
CHECK_DEADLOCK FALSE
