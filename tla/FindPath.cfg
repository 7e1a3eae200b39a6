SPECIFICATION Spec
CONSTANTS
    dotnet = dotnet
    g = g
    h = h
    m = m
    a = a
    b = b
    x64 = x64
    Nowhere = Nowhere
    Roots <- MCRoots
    Names <- MCNames
    At <- MCAt
    Installs <- MCInstalls
    GlobalRoot = g
    MultiLevel = FALSE
    Windows = TRUE
    Lookups = {a, b}
    Request <- MCRequest
    Arch <- MCArch
    LocalLookup <- MCLocalLookup
    HostArch <- MCHostArch
    Candidates <- MCCandidates
    Managed = {m}
    Recorded <- MCRecorded
    SkipHostfxr = FALSE
    Initially <- MCInitially
    Others <- MCOthers
    MaxUpsets = 1
INVARIANTS
    TypeOK
    FirstInOrder
    ResultWasMet
    InvalidationReaches
    EnvLeaksOnlyByOverlap
    ListsOneRoot
\* Every lookup has answered and nothing changes any more.
CHECK_DEADLOCK FALSE
