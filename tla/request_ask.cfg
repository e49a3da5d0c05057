\* Two requests, one at a time or side by side, and everything that may fail.
CONSTANTS
    r1 = r1
    r2 = r2
    Requests = {r1, r2}
    Names <- MCNames
    Keys <- MCKeys
    Wanted <- MCWanted
    Stored <- MCStored
    Faults = {"list", "secret", "remote", "window", "checksum", "spurious"}
    NoSession = NoSession
    NoThread = NoThread
SPECIFICATION FairSpec
INVARIANTS TypeOK KeyRespected Consent StoredKnown RegistryKeepsGranted BlockedAfterDenials
PROPERTIES RequestsEnd ShutdownReturns
CHECK_DEADLOCK FALSE
