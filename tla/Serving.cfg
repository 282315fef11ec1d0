SPECIFICATION Spec
CONSTANTS
    Calls = {c1, c2}
    Sessions = {s1}
    Configs <- MCConfigs
    DefaultRateLimitBurst = 2
    IdleLimit = 2
    MaxReloads = 1
INVARIANTS
    TypeOK
    
PROPERTIES
    IdentityIsVerified
    ExchangedAsConfigured
SYMMETRY Interchangeable
