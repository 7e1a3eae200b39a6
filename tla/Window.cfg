SPECIFICATION MCSpec
CONSTANTS
    j1 = j1
    p1 = p1
    p2 = p2
    p3 = p3
    k1 = k1
    k2 = k2
    s1 = s1
    s2 = s2
    x = x
    y = y
    lib = lib
    i1 = i1
    i2 = i2
    Free = Free
    Lib <- lib
    Jobs <- MCJobs
    Sessions <- MCSessions
    SessionOf <- MCSessionOf
    Exts <- MCExts
    Installs <- MCInstalls
    Local <- MCLocal
    Kinds = {"acquire", "status", "similar", "uninstall", "force"}
    Mortal = {s2}
    PartialPasses = FALSE
    GroupOf <- MCGroupOf
    PatchOf <- MCPatchOf
    Channels <- MCChannels
    Acquirer <- MCAcquirer
    Remover <- MCRemover
    Requesters <- MCRequesters
    Scenes <- MCScenes
    Typed <- MCTyped
INVARIANTS
    PassTypeOK
    GTypeOK
    
    GrantCauses
    NoDowngradeCauses
    RunsVerified
    ResolvesToNewest
    HolderMoves
PROPERTIES
    OwnersHandedOver
    NewestStays
    OwnersKeepSdk
SYMMETRY MCSymmetry
\* Every command ends, and the system stops.
CHECK_DEADLOCK FALSE
