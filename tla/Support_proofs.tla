--------------------------- MODULE Support_proofs ---------------------------
(***************************************************************************)
(* The parts together, as MCSupport runs them: a run that has chosen one   *)
(* of them is a behaviour of that one, and for the others of steps that    *)
(* change nothing.                                                         *)
(***************************************************************************)
EXTENDS MCSupport, Channels_proofs, Host_proofs

LEMMA PartsStart ==
  SupportInit => /\ ExecInit /\ IPCInit /\ ProbeInit /\ InstallInit
                 /\ ConfigInit /\ HostInit /\ StoreInit
  BY DEF SupportInit

LEMMA PartsStep ==
  [SupportNext]_supportVars =>
      /\ [ExecNext]_execVars /\ [IPCNext]_ipcVars /\ [ProbeNext]_probeVars
      /\ [InstallNext]_installVars /\ [ConfigNext]_configVars
      /\ [HostNext]_hostVars /\ [StoreNext]_storeVars
  BY DEF SupportNext, supportVars

LEMMA PartsRun ==
  SupportSpec => /\ ExecSpec /\ IPCSpec /\ ProbeSpec /\ InstallSpec
                 /\ ConfigSpec /\ HostSpec /\ StoreSpec
  BY PartsStart, PartsStep, PTL
     DEF SupportSpec, ExecSpec, IPCSpec, ProbeSpec, InstallSpec, ConfigSpec, HostSpec, StoreSpec

\* Every part has the types that it declares, whichever part runs.
THEOREM SupportTypes == SupportSpec => []SupportTypeOK
<1>1. SupportSpec => [](/\ ExecTypeOK /\ IPCTypeOK /\ ProbeTypeOK /\ InstallTypeOK
                        /\ ConfigTypeOK /\ HostTypeOK /\ StoreTypeOK)
  BY PartsRun, ExecTypes, IPCTypesOK, ProbeTypes, InstallTypes, ConfigTypes, HostTypes, StoreTypes, PTL
<1>2. (/\ ExecTypeOK /\ IPCTypeOK /\ ProbeTypeOK /\ InstallTypeOK
       /\ ConfigTypeOK /\ HostTypeOK /\ StoreTypeOK) => SupportTypeOK
  BY DEF SupportTypeOK
<1> QED BY <1>1, <1>2, PTL

\* No part does what it must not: commands for one machine do not overlap, an
\* installation is what the page is told, messages arrive as they were written,
\* settings are kept, adapters are served, and keys are vouched for.
THEOREM SupportHolds ==
  SupportSpec => [](/\ TriesApart /\ InstallHonest /\ ReceivedIsSent
                    /\ SettingsKept /\ AdapterServed /\ KeysVouched)
BY PartsRun, CommandsApart, InstallsHonest, MessagesArrive, SettingsAreKept, AdaptersServed,
   KeysAreVouched, PTL
=============================================================================
