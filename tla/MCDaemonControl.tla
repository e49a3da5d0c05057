-------------------------- MODULE MCDaemonControl --------------------------
(* DaemonControl with its scenarios for TLC.                               *)
EXTENDS DaemonControl

CONSTANTS t1, t2

MCThreads == {t1, t2}

\* Two threads and a daemon that crashes; answers that come late; a browser
\* that is restarted.
MCScenarios == {[threads |-> {t1, t2}, mishaps |-> {"crash", "reuse"}],
                [threads |-> {t1}, mishaps |-> {"slow"}],
                [threads |-> {t1}, mishaps |-> {"restart"}]}
=============================================================================
