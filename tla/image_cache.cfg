\* A disk image, a boot image and a text fetched side by side, the network
\* failing and the browser dying at any point.
CONSTANTS
    DiskClients = {d1}
    IsoClients = {i1}
    TextClients = {t1}
    Url <- MCUrl
    Size <- MCSize
    Calls <- MCCalls
    Faults = {"network", "open", "early", "crash"}
    Missing = Missing
    Closed = Closed
SPECIFICATION FairSpec
INVARIANTS TypeOK StreamOwned DiskServedWhole
PROPERTIES CachedIsKept EveryCallReturns
CHECK_DEADLOCK FALSE
