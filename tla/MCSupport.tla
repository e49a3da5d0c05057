------------------------------ MODULE MCSupport ------------------------------
(***************************************************************************)
(* The parts that sessions and daemon lean on, each for itself: one is     *)
(* chosen at the start and the others stand still.  Two of them also have  *)
(* to get somewhere.                                                       *)
(***************************************************************************)
EXTENDS CommandExec, ThinIPC, ApiProbe, HypervisorInstall, LocalConfig, HostNetwork,
        KeyStore

CONSTANT Parts    \* the parts of a run

VARIABLE part     \* the part that is looked at

(* Every size from nothing to two datagrams; what a request and its answer *)
(* look like; strings of which one is empty.                               *)
Short == [kind |-> "short", len |-> 0]
Int32 == [kind |-> "int", len |-> 0]
Text(n) == [kind |-> "string", len |-> n]

MCBodies ==
    {<<>>, <<Short>>, <<Int32>>, <<Short, Int32>>, <<Short, Text(0)>>, <<Short, Text(1)>>,
     <<Text(2), Short, Int32, Short>>} \cup {<<Text(n)>> : n \in 1 .. 7}

SupportTypeOK == ExecTypeOK /\ IPCTypeOK /\ ProbeTypeOK /\ InstallTypeOK /\ ConfigTypeOK /\ HostTypeOK /\ StoreTypeOK

AnyRequester ==
    [plugin |-> CHOOSE p \in Plugins : TRUE, step |-> "rest", failed |-> FALSE, told |-> "nothing"]

SupportInit ==
    /\ part \in Parts
    /\ ExecInit /\ (part # "exec" => platform = "posix")
    /\ IPCInit
    /\ ProbeInit
    /\ InstallInit /\ (part # "install" => desktop = "nothing")
    /\ ConfigInit
    /\ HostInit /\ (part # "host" => adapters = 0)
    /\ StoreInit /\ (part # "keys" => requester = [t \in Requesters |-> AnyRequester])

SupportNext ==
    /\ part' = part
    /\ \/ part = "exec" /\ ExecNext /\ UNCHANGED <<ipcVars, probeVars, installVars, configVars, hostVars, storeVars>>
       \/ part = "ipc" /\ IPCNext /\ UNCHANGED <<execVars, probeVars, installVars, configVars, hostVars, storeVars>>
       \/ part = "probe" /\ ProbeNext /\ UNCHANGED <<execVars, ipcVars, installVars, configVars, hostVars, storeVars>>
       \/ part = "install" /\ InstallNext /\ UNCHANGED <<execVars, ipcVars, probeVars, configVars, hostVars, storeVars>>
       \/ part = "config" /\ ConfigNext /\ UNCHANGED <<execVars, ipcVars, probeVars, installVars, hostVars, storeVars>>
       \/ part = "host" /\ HostNext /\ UNCHANGED <<execVars, ipcVars, probeVars, installVars, configVars, storeVars>>
       \/ part = "keys" /\ StoreNext /\ UNCHANGED <<execVars, ipcVars, probeVars, installVars, configVars, hostVars>>

supportVars == <<part, execVars, ipcVars, probeVars, installVars, configVars, hostVars, storeVars>>

SupportSpec == SupportInit /\ [][SupportNext]_supportVars

FairSupport ==
    /\ SupportSpec
    /\ \A c \in Callers : WF_execVars(Within(c))
    /\ \A s \in Slots : WF_probeVars(InThread(s))
    /\ \A p \in Probes : WF_probeVars(part = "probe" /\ InProbe(p))
=============================================================================
