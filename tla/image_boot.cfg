\* One session downloads a boot image, and the network may fail.
CONSTANTS
    DiskClients = {}
    IsoClients = {i1}
    TextClients = {}
    Url <- MCUrl
    Size <- MCSize
    Calls <- MCCalls
    Faults = {"network"}
    Missing = Missing
    Closed = Closed
SPECIFICATION Spec
INVARIANT BootServedWhole
CHECK_DEADLOCK FALSE
