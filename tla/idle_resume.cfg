\* The user goes away while a controlled machine is paused.
CONSTANTS
    VMs = {v1}
    NoVM = NoVM
    Settings = {{}}
    MaxReloads = 1
    Moves = {"on", "off"}
    Failures = {}
SPECIFICATION FairIdle
PROPERTIES IdleResumes
