\* One machine, every kind of setting, two reload threads, lists that cannot be read.
CONSTANTS
    VMs = {v1}
    NoVM = NoVM
    Settings <- MCSettings
    MaxReloads = 2
    Moves = {"on", "off"}
    Failures = {"list"}
SPECIFICATION FairIdle
INVARIANTS IdleTypeOK FlagHasThread DaemonYields
PROPERTIES EndsUnneeded LivesAsProcess
