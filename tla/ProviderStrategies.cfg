SPECIFICATION FairSpec
CONSTANTS
    Strategies = {"single", "kcp"}
    Servers = {"east", "west"}
    Workspaces = {"root", "root:a", "root:a:b"}
    Nested = {"root:a:b"}
    Files <- MCFiles
    Resets = {r1, r2}
    Calls = {c1}
    Nil = Nil
    Torn = Torn
    MaxEdits = 2
    MaxTreeChanges = 1
    MaxFaults = 1
INVARIANT TypeOK
PROPERTIES
    ServedUnlessResetFailed
    FollowsItsSource
