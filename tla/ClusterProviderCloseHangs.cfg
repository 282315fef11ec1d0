SPECIFICATION FairSpec
CONSTANTS
    dev = dev
    prod = prod
    single = single
    prodCurrent = prodCurrent
    unreadable = unreadable
    Contexts <- MCContexts
    Unset = Unset
    Files <- MCFiles
    ContextsOf <- MCContextsOf
    CurrentOf <- MCCurrentOf
    Slots = {w1, w2, w3, w4}
    Tasks = {t1, t2}
    Boot = t1
    Asked <- MCAsked
    Nil = Nil
    Missing = Missing
    Free = Free
    MaxEdits = 1
    MaxReloads = 0
    MaxWatchFaults = 1
PROPERTIES
    CloseReturns
CHECK_DEADLOCK FALSE
