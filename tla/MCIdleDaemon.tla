---------------------------- MODULE MCIdleDaemon ----------------------------
(* IdleDaemon with its settings for TLC.                                   *)
EXTENDS IdleDaemon

MCSettings == {{}, {"suspend", "autodestroy"}, {"cap", "autostart"}}
=============================================================================
