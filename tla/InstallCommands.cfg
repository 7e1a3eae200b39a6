SPECIFICATION Spec
CONSTANTS
    j1 = j1
    j2 = j2
    j3 = j3
    s1 = s1
    s2 = s2
    x = x
    y = y
    lib = lib
    i1 = i1
    Free = Free
    Lib <- lib
    Jobs <- MCJobs
    Sessions <- MCSessions
    SessionOf <- MCSessionOf
    Exts <- MCExts
    Installs <- MCInstalls
    Local <- MCInstalls
    Kinds = {"acquire", "status", "find", "uninstall", "update", "force", "uninstallAll", "deactivate"}
    Mortal = {s1}
    PartialPasses = FALSE
INVARIANTS
    TypeOK
    
    NoDeadlock
PROPERTIES
    LiveMarksKept
    TrackedExists
SYMMETRY MCSymmetry
\* Every command ends, and the system stops.
CHECK_DEADLOCK FALSE
