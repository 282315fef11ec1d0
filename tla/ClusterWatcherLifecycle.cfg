SPECIFICATION FairSpec
CONSTANTS
    States = {s1, s2}
    Unknown = Unknown
    Stale = Stale
    Callbacks = {c1, c2}
    Closers = {k1, k2}
    PollInterval = 2
    DebounceWindow = 1
    MaxChanges = 2
    MaxFaults = 1
    FaultAt <- AllReaders
    MaxReloadErrors = 1
    MaxApplies = 2
    Prompts = {TRUE, FALSE}
INVARIANTS
    TypeOK
    CloseHasALoopToWaitFor
    OneCloseOwnsTheChannels
PROPERTIES
    NeverTwoLoops
    ArmedOnlyWhileStarted
    CloseReturnsEventually
    ChangesAreReloadedIfPrompt
