SPECIFICATION Spec
CONSTANTS
    t1 = t1
    t2 = t2
    Threads <- MCThreads
    Servers <- MCServers
    ClientVersion <- MCClientVersion
    MaxLookups = 2
INVARIANTS
    TypeOK
    AcceptedIsCompatible
    AcceptanceSticks
PROPERTIES
    CachesOnlyFill
    HashMutexReleased
    PastMutexReturns
