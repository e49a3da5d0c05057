-------------------------- MODULE SessionLifecycle --------------------------
(***************************************************************************)
(* What a page that makes one call at a time may expect of its session:    *)
(* the documented state that it is told, the machine behind it, and the    *)
(* call that runs.                                                         *)
(*                                                                         *)
(* The page is told that the session is being opened or started before     *)
(* the machine is made or boots, and of the result of a call only when the *)
(* machine has come to it; a machine is switched off before it is removed. *)
(* A refresh tells what is so, but may tell "open" for a moment before it  *)
(* does; and a start that fails to build its medium is never told to end.  *)
(***************************************************************************)
CONSTANTS
    Calls,      (* what the page calls                                      *)
    Failing     (* what may fail: the building of the medium, startvm       *)

VARIABLES told, machine, running

lifeVars == <<told, machine, running>>

Controls == [pause     |-> [from |-> "STARTED", to |-> "paused"],
             resume    |-> [from |-> "PAUSED",  to |-> "running"],
             reset     |-> [from |-> "STARTED", to |-> "running"],
             stop      |-> [from |-> "STARTED", to |-> "off"],
             hibernate |-> [from |-> "STARTED", to |-> "saved"]]

\* The state that names a machine.
Name == [none |-> "CLOSED", off |-> "OPEN", saved |-> "OPEN",
         running |-> "STARTED", paused |-> "PAUSED"]

Init == told = "CLOSED" /\ machine = "none" /\ running = {}

Begin(o) ==
    /\ running = {}
    /\ \/ o = "open" /\ told = "CLOSED"
       \/ o = "start" /\ told = "OPEN"
       \/ o = "close" /\ told \in {"OPEN", "STARTED", "PAUSED"}
       \/ o \in DOMAIN Controls /\ told = Controls[o].from
       \/ o = "update" /\ told # "CLOSED"
       \/ o = "setProperty"
    /\ running' = {o}
    /\ UNCHANGED <<told, machine>>

\* A call has ended, and the page is told what the machine is.
Done(o) ==
    /\ running = {o} /\ running' = {}
    /\ told' = Name[machine]
    /\ UNCHANGED machine

Open ==
    \/ /\ running = {"open"} /\ told = "CLOSED" /\ machine = "none"
       /\ told' = "OPPENING"
       /\ UNCHANGED <<machine, running>>
    \/ /\ running = {"open"} /\ told = "OPPENING" /\ machine = "none"
       /\ machine' = "off"
       /\ UNCHANGED <<told, running>>
    \/ told = "OPPENING" /\ machine = "off" /\ Done("open")

\* It is told that the machine runs before the call has ended.
Start ==
    \/ /\ running = {"start"} /\ told = "OPEN" /\ machine \in {"off", "saved"}
       /\ told' = "STARTING"
       /\ UNCHANGED <<machine, running>>
    \/ /\ running = {"start"} /\ told = "STARTING" /\ machine \in {"off", "saved"}
       /\ machine' = "running"
       /\ UNCHANGED <<told, running>>
    \/ /\ running = {"start"} /\ told = "STARTING" /\ machine = "running"
       /\ told' = "STARTED"
       /\ UNCHANGED <<machine, running>>
    \/ told = "STARTED" /\ machine = "running" /\ Done("start")

\* A start that fails leaves the machine as it was, and the session open; where
\* the medium was not built the session goes on to say that it is starting.
StartFails ==
    \/ /\ "startvm" \in Failing
       /\ told = "STARTING" /\ machine \in {"off", "saved"} /\ Done("start")
    \/ /\ "build" \in Failing
       /\ running = {"start"} /\ running' = {}
       /\ told = "STARTING" /\ machine = "off"
       /\ UNCHANGED <<told, machine>>

\* A machine that is up, or has a saved state, is first switched off.
Close ==
    \/ /\ running = {"close"} /\ machine \in {"running", "paused", "saved"}
       /\ machine' = "off"
       /\ UNCHANGED <<told, running>>
    \/ /\ running = {"close"} /\ machine = "off"
       /\ machine' = "none"
       /\ UNCHANGED <<told, running>>
    \/ machine = "none" /\ Done("close")

Control(o) ==
    \/ /\ running = {o} /\ told = Controls[o].from /\ told = Name[machine]
       /\ machine' = Controls[o].to
       /\ UNCHANGED <<told, running>>
    \/ machine = Controls[o].to /\ Done(o)

\* A refresh, and the writing of a property.
Update ==
    \/ /\ running = {"update"} /\ told = Name[machine]
       /\ told' = "OPEN"
       /\ UNCHANGED <<machine, running>>
    \/ /\ running = {"update"} /\ told = "OPEN"
       /\ told' = Name[machine]
       /\ UNCHANGED <<machine, running>>
    \/ told = Name[machine] /\ (Done("update") \/ Done("setProperty"))
    \/ /\ running \in {{"update"}, {"setProperty"}} /\ running' = {}
       /\ told = "STARTING"
       /\ UNCHANGED <<told, machine>>

Next ==
    \/ \E o \in Calls : Begin(o)
    \/ Open \/ Start \/ StartFails \/ Close \/ Update
    \/ \E o \in DOMAIN Controls : Control(o)

Spec == Init /\ [][Next]_lifeVars
=============================================================================
