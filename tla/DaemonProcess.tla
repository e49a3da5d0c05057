--------------------------- MODULE DaemonProcess ---------------------------
(***************************************************************************)
(* What may be expected of one process id that daemons run under: a        *)
(* process starts, it serves or finds that another one does, it decides    *)
(* once to close, and a process that has decided to close ends.            *)
(* DaemonControl keeps one of these for each pid; IdleDaemon is what such  *)
(* a process does inside.                                                  *)
(***************************************************************************)
VARIABLE phase

Phases == {"none", "starting", "serving", "closing"}

Init == phase = "none"

Start == phase = "none" /\ phase' = "starting"

Serve == phase = "starting" /\ phase' = "serving"

Close == phase = "serving" /\ phase' = "closing"

\* The lock is taken, the daemon is done, or it is killed.
End == phase # "none" /\ phase' = "none"

Next == Start \/ Serve \/ Close \/ End

Spec == Init /\ [][Next]_phase /\ []<>(phase # "closing")
=============================================================================
