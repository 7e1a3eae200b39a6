SPECIFICATION MCSpec
CONSTANTS
    c1 = c1
    c2 = c2
    end = end
    acq1 = acq1
    acq2 = acq2
    acq3 = acq3
    id1 = id1
    id2 = id2
    call1 = call1
    call2 = call2
    NoCall = NoCall
    ToolCalls <- MCToolCalls
    Nobody = Nobody
    Commands <- MCCommands
    Ends = {end}
    Terminal = {c1}
    Acquisitions <- MCAcquisitions
    Ids <- MCIds
    IdOf <- MCIdOf
    Unheld = Unheld
    MaxPosts = 3
INVARIANTS
    HostTypeOK
    WrongAnswerCauses
    RunsTwiceCauses
    HandedToSomebody
    ListedCauses
    RunsUnderLock
    NothingLeft
    LogKeepsOrder
    AskerFindsEvents
    DeclineIsHeard
PROPERTIES
    NeverRunsAlone
    EventsAreWritten
\* Every call is answered, and nothing more happens.
CHECK_DEADLOCK FALSE
