\* Two calls at a time, in every order of their steps, while any command may fail.
CONSTANTS
    Workers = {w1, w2}
    Ops = {"open", "start", "close", "pause", "resume", "stop", "update"}
    Faults = {"query", "create", "controller", "modify", "attach", "detach", "startvm", "control", "guestproperty", "discard", "unregister"}
    Outside = {"resume", "start"}
    Modes = {"boot"}
    Wanted = {}
    UserData = FALSE
    Overlap = TRUE
    VMs = {v1, v2, v3}
    NoVM = NoVM
SYMMETRY Symmetry
SPECIFICATION Spec
INVARIANTS TypeOK LockHasWorker TransitionHasWorker OneUpdater
