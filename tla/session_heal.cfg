\* The user acts on the VM and controlvm may fail, under the refresh timer.
CONSTANTS
    Workers = {w1, w2}
    Ops = {"open", "start", "stop", "pause", "resume", "update"}
    Faults = {"control"}
    Outside = {"poweroff", "pause", "delete"}
    Modes = {"boot"}
    Wanted = {}
    UserData = FALSE
    Overlap = FALSE
    VMs = {v1, v2, v3}
    NoVM = NoVM
SPECIFICATION FairSpec
PROPERTIES StaleHeals
