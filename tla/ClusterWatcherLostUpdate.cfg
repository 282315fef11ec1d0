SPECIFICATION FairSpec
CONSTANTS
    States = {s1, s2}
    Unknown = Unknown
    Stale = Stale
    Callbacks = {c1}
    Closers = {}
    PollInterval = 2
    DebounceWindow = 1
    MaxChanges = 2
    MaxFaults = 0
    FaultAt <- NoReader
    MaxReloadErrors = 0
    MaxApplies = 1
    Prompts = {FALSE}
PROPERTIES
    ChangesAreReloaded
