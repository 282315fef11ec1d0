SPECIFICATION FairSpec
CONSTANTS
    first = first
    second = second
    rejected = rejected
    broken = broken
    here = here
    there = there
    pods = pods
    projects = projects
    hello = hello
    chart = chart
    Configs <- MCConfigs
    Initial = first
    Invalid <- MCInvalid
    Broken <- MCBroken
    Worlds <- MCWorlds
    Names <- MCNames
    KindOf <- MCKindOf
    Applies <- MCApplies
    Reloaders = {r1, r2}
    Boot = r1
    Installed = Installed
    Absent = Absent
    Free = Free
    MaxChanges = 2
    MaxRequests = 2
INVARIANTS
    TypeOK
    ConsistentBetweenReloads
    RejectedIsNeverSeen
PROPERTIES
    ReapplyKeepsTheConfiguration
    SurfaceCatchesUp
    ImplementsToolSurface
CHECK_DEADLOCK FALSE
