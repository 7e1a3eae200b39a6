SPECIFICATION Spec
CONSTANTS
    a = a
    b = b
    c = c
    p = p
    q = q
    Free = Free
    NoConn = NoConn
    Reset = Reset
    Tasks <- MCTasks
    Procs <- MCProcs
    ProcOf <- MCProcOf
    Access <- MCAccess
    Manual = {c}
    Mortal = {p, q}
    NamedPipes = TRUE
    CloseResets = FALSE
    FnCodes = TRUE
    MaxRetries = 2
INVARIANTS
    TypeOK
    MutualExclusion
PROPERTIES
    Implements
\* Every call is answered or dead in the end, and the system stops.
CHECK_DEADLOCK FALSE
