\* The page calls open twice.
CONSTANTS
    Workers = {w1, w2}
    Ops = {"open", "close"}
    Faults = {}
    Outside = {}
    Modes = {"scratch", "boot"}
    Wanted = {}
    UserData = FALSE
    Overlap = TRUE
    VMs = {v1, v2, v3}
    NoVM = NoVM
SYMMETRY Symmetry
SPECIFICATION Spec
INVARIANTS UndoOnlyFailures
