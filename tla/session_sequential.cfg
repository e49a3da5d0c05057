\* One call at a time, a refresh included, with the failures that start meets.
CONSTANTS
    Workers = {w1}
    Ops = {"open", "start", "close", "pause", "resume", "reset", "stop", "hibernate", "update", "setProperty"}
    Faults = {"build", "startvm"}
    Outside = {}
    Modes = {"scratch", "boot", "additions"}
    Wanted = {"floppy"}
    UserData = TRUE
    Overlap = FALSE
    VMs = {v1, v2, v3}
    NoVM = NoVM
SYMMETRY Symmetry
SPECIFICATION Spec
INVARIANTS QuietAgreement
PROPERTIES PendingNotDropped FollowsLifecycle
