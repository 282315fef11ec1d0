SPECIFICATION Spec
CONSTANTS
    plain = plain
    scoped = scoped
    rescoped = rescoped
    moved = moved
    bare = bare
    forwarding = forwarding
    torn = torn
    here = here
    there = there
    narrow = narrow
    wide = wide
    on = on
    off = off
    Configs <- MCConfigs
    Unreadable = Unreadable
    Invalid <- MCInvalid
    Unconvertible <- MCUnconvertible
    Startup = scoped
    IssuerOf <- MCIssuerOf
    NoIssuer = NoIssuer
    RequiresOAuth <- MCRequiresOAuth
    SkipsJWT <- MCSkipsJWT
    WellKnownOf <- MCWellKnownOf
    OptionOf <- MCOptionOf
    FlagOption = on
    Unset = Unset
    LogsToFile <- MCLogsToFile
    Descriptors = {d1, d2}
    Requests = {q1, q2}
    Nil = Nil
    MaxEdits = 2
    MaxSignals = 3
    MaxFaults = 2
INVARIANTS
    CommandLineWins
CHECK_DEADLOCK FALSE
