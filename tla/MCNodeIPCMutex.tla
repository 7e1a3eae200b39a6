--------------------------- MODULE MCNodeIPCMutex ---------------------------
\* Instances of NodeIPCMutex for TLC: three calls, two of one process.
EXTENDS NodeIPCMutex, TLC

CONSTANTS a, b, c, p, q

MCTasks == {a, b, c}
MCProcs == {p, q}
MCProcOf == (a :> p) @@ (b :> p) @@ (c :> q)
MCOneProcOf == (a :> p) @@ (b :> p) @@ (c :> p)
MCAccess == MCProcs \X MCProcs
=============================================================================
