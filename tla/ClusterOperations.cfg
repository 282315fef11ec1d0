SPECIFICATION Spec
CONSTANTS
    c1 = c1
    nothing = nothing
    Nothing = nothing
    Callers <- MCCallers
    Repertoire <- MCRepertoire
    Settings <- MCSettings
    Roles <- MCRoles
    Unserved <- MCUnserved
    Tracked <- MCTracked
    Values <- MCValues
    Beginnings <- MCBeginnings
    Catalogue <- MCCatalogue
    Targets <- MCTargets
    Documents <- MCDocuments
    VMArguments <- MCVMArguments
    Substrings <- MCSubstrings
    Families <- MCFamilies
    MaxChanges = 1
INVARIANTS
    TypeOK
    HintsAreKept
    DeniedKindsAreUntouched
    MatchingRequestsWereConfirmed
    AskedOnlyForPermitted
    
    
PROPERTIES
    WritesOnlyWhatItRead
