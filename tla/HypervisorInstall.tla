-------------------------- MODULE HypervisorInstall --------------------------
(***************************************************************************)
(* CVMWebAPI::installHV() and its thread, installHypervisor(), the wait    *)
(* for a graphical installer, and Virtualbox::installExtPack().  Two pages *)
(* calls may install at once.  The installers are programs of the system.  *)
(***************************************************************************)
EXTENDS Naturals

CONSTANTS
    Installs,     \* calls of installHV(), each with its thread
    MaxTries      \* the tries of every loop; 4 in the code

ASSUME InstallAssumption == MaxTries \in Nat \ {0}

VARIABLES
    desktop,      \* how an installer is started, chosen at the start
    hv,           \* whether the plugin has a hypervisor
    installed,    \* whether VBoxManage is where detectHypervisor() looks
    extpack,      \* whether VirtualBox lists the extension pack
    extFile,      \* the temporary file of the extension pack: one name for all
    inst,         \* each thread: where it is, and what it has
    guis          \* each thread: its graphical installers

installVars == <<desktop, hv, installed, extpack, extFile, inst, guis>>

Packages == {"none", "whole", "broken"}

Steps == {"idle", "config", "download", "launch", "waitOpen", "waitRelease", "detect", "hasExt",
          "extConfig", "extOpen", "extGet", "extCheck", "extRun", "publish"}

\* left: tries the loop still has.  The last three are history: whether all
\* downloads, or all tries to install, have failed, and what the page was told.
Idle == [step |-> "idle", left |-> 0, pkg |-> "none", fits |-> FALSE,
         unverified |-> FALSE, exhausted |-> FALSE, told |-> "nothing"]

InstallTypeOK ==
    /\ desktop \in {"xdg", "direct", "nothing"}
    /\ hv \in BOOLEAN /\ installed \in BOOLEAN /\ extpack \in BOOLEAN
    /\ extFile \in Packages \cup {"partial"}
    /\ inst \in [Installs -> [step : Steps, left : 0 .. MaxTries, pkg : Packages, fits : BOOLEAN,
                              unverified : BOOLEAN, exhausted : BOOLEAN,
                              told : {"nothing", "install", "installError"}]]
    /\ guis \in [Installs -> [running : 0 .. MaxTries, holding : 0 .. MaxTries]]

\* xdg-open; or gksudo, ShellExecute or hdiutil and open -W, which are waited
\* for; or a Linux with neither.  VirtualBox may be without its extension pack.
InstallInit ==
    /\ desktop \in {"xdg", "direct", "nothing"}
    /\ hv = FALSE
    /\ installed = FALSE /\ extpack = FALSE
    /\ extFile = "none"
    /\ inst = [t \in Installs |-> Idle]
    /\ guis = [t \in Installs |-> [running |-> 0, holding |-> 0]]

world == <<desktop, hv, installed, extpack, extFile>>

\* t goes on to its next step.
Becomes(t, record) == inst' = [inst EXCEPT ![t] = record]
To(t, step) == [inst[t] EXCEPT !.step = step]
Answer(t, event) == [inst[t] EXCEPT !.step = "idle", !.told = event]

-----------------------------------------------------------------------------

installHV(t) ==
    /\ inst[t] = Idle
    /\ ~hv
    /\ Becomes(t, [Idle EXCEPT !.step = "config", !.left = MaxTries])
    /\ UNCHANGED <<world, guis>>

\* When no try gets the text, it is empty, and its keys are missing.
FetchConfig(t) ==
    /\ inst[t].step = "config"
    /\ \/ inst[t].left > 1 /\ Becomes(t, [inst[t] EXCEPT !.left = @ - 1])
       \/ Becomes(t, Answer(t, "installError"))
       \/ \E fits \in BOOLEAN :
             Becomes(t, [inst[t] EXCEPT !.step = "download", !.left = MaxTries, !.fits = fits])
    /\ UNCHANGED <<world, guis>>

\* Mutated form of Download: the package is not compared with its checksum.
DownloadUnchecked(t) ==
    /\ inst[t].step = "download"
    /\ \E pkg \in Packages :
          LET got == [inst[t] EXCEPT !.pkg = pkg] IN
          Becomes(t, IF pkg # "none" THEN [got EXCEPT !.step = "launch", !.left = MaxTries]
                     ELSE IF got.left > 1 THEN [got EXCEPT !.left = @ - 1]
                     ELSE [got EXCEPT !.step = "launch", !.left = MaxTries, !.unverified = TRUE])
    /\ UNCHANGED <<world, guis>>

\* The test for another try is true on the last one, too: the loop is left with
\* what that try has fetched.
Download(t) ==
    /\ inst[t].step = "download"
    /\ \E pkg \in Packages :
          LET got == [inst[t] EXCEPT !.pkg = pkg] IN
          Becomes(t, IF pkg = "whole" THEN [got EXCEPT !.step = "launch", !.left = MaxTries]
                     ELSE IF got.left > 1 THEN [got EXCEPT !.left = @ - 1]
                     ELSE [got EXCEPT !.step = "launch", !.left = MaxTries, !.unverified = TRUE])
    /\ UNCHANGED <<world, guis>>

-----------------------------------------------------------------------------
(* The tries to install.                                                   *)

\* With no try left, hv is NULL, and the extension pack is not looked for.
Failed(t) ==
    Becomes(t, IF inst[t].left > 1 THEN [To(t, "launch") EXCEPT !.left = @ - 1]
               ELSE [To(t, "publish") EXCEPT !.exhausted = TRUE])

\* Neither xdg-open nor gksudo.
Unable(t) ==
    /\ inst[t].step = "launch"
    /\ inst[t].fits /\ desktop = "nothing"
    /\ Becomes(t, Answer(t, "installError"))
    /\ UNCHANGED <<world, guis>>

\* The package manager is not the package's, or the program does not start.
NoLaunch(t) ==
    /\ inst[t].step = "launch"
    /\ inst[t].fits => desktop # "nothing"
    /\ Failed(t)
    /\ UNCHANGED <<world, guis>>

LaunchDirect(t) ==
    /\ inst[t].step = "launch"
    /\ inst[t].fits /\ desktop = "direct"
    /\ Becomes(t, To(t, "detect"))
    /\ installed' \in {installed, installed \/ inst[t].pkg = "whole"}
    /\ UNCHANGED <<desktop, hv, extpack, extFile, guis>>

LaunchGui(t) ==
    /\ inst[t].step = "launch"
    /\ inst[t].fits /\ desktop = "xdg"
    /\ Becomes(t, To(t, "waitOpen"))
    /\ guis' \in {guis, [guis EXCEPT ![t].running = @ + 1]}
    /\ UNCHANGED world

\* An installer opens the package, releases it, and ends, with or without
\* having installed.
GuiMoves(t) ==
    /\ \/ guis[t].holding < guis[t].running /\ guis' = [guis EXCEPT ![t].holding = @ + 1] /\ UNCHANGED installed
       \/ guis[t].holding > 0 /\ guis' = [guis EXCEPT ![t].holding = @ - 1] /\ UNCHANGED installed
       \/ /\ guis[t].holding < guis[t].running
          /\ guis' = [guis EXCEPT ![t].running = @ - 1]
          /\ installed' \in {installed, installed \/ inst[t].pkg = "whole"}
    /\ UNCHANGED <<desktop, hv, extpack, extFile, inst>>

\* waitFileOpen(): one minute for the file to be opened ...
WaitOpen(t) ==
    /\ inst[t].step = "waitOpen"
    /\ \/ guis[t].holding > 0 /\ Becomes(t, To(t, "waitRelease"))
       \/ Failed(t)
    /\ UNCHANGED <<world, guis>>

\* ... and a quarter of an hour for its release.
WaitRelease(t) ==
    /\ inst[t].step = "waitRelease"
    /\ \/ guis[t].holding = 0 /\ Becomes(t, To(t, "detect"))
       \/ Failed(t)
    /\ UNCHANGED <<world, guis>>

Detect(t) ==
    /\ inst[t].step = "detect"
    /\ IF installed THEN Becomes(t, [To(t, "hasExt") EXCEPT !.pkg = "none"]) ELSE Failed(t)
    /\ UNCHANGED <<world, guis>>

-----------------------------------------------------------------------------
(* The extension pack.                                                     *)

\* A list that cannot be had is an empty one.
HasExtPack(t) ==
    /\ inst[t].step = "hasExt"
    /\ \/ extpack /\ Becomes(t, To(t, "publish"))
       \/ Becomes(t, To(t, "extConfig"))
    /\ UNCHANGED <<world, guis>>

\* The text, the keys, the download, the checksum and VBoxManage may all fail;
\* nothing is tried again.
ExtFails(t) ==
    /\ inst[t].step \in {"extConfig", "extGet", "extRun"}
    /\ Becomes(t, Answer(t, "installError"))
    /\ UNCHANGED <<world, guis>>

\* The download writes the file from its start.
ExtOpen(t) ==
    /\ inst[t].step = "extConfig"
    /\ Becomes(t, To(t, "extGet"))
    /\ extFile' = "partial"
    /\ UNCHANGED <<desktop, hv, installed, extpack, guis>>

ExtGet(t) ==
    /\ inst[t].step = "extGet"
    /\ Becomes(t, To(t, "extCheck"))
    /\ extFile' \in {"whole", "broken"}
    /\ UNCHANGED <<desktop, hv, installed, extpack, guis>>

ExtCheck(t) ==
    /\ inst[t].step = "extCheck"
    /\ Becomes(t, IF extFile = "whole" THEN To(t, "extRun") ELSE Answer(t, "installError"))
    /\ UNCHANGED <<world, guis>>

\* VBoxManage refuses a file that is not a whole pack.
ExtRun(t) ==
    /\ inst[t].step = "extRun"
    /\ extFile = "whole"
    /\ extpack' = TRUE
    /\ extFile' = "none"
    /\ Becomes(t, To(t, "publish"))
    /\ UNCHANGED <<desktop, hv, installed, guis>>

-----------------------------------------------------------------------------

\* thread_install() looks for the hypervisor again, and takes what it finds.
Publish(t) ==
    /\ inst[t].step = "publish"
    /\ hv' = installed
    /\ Becomes(t, Answer(t, "install"))
    /\ UNCHANGED <<desktop, installed, extpack, extFile, guis>>

InstallNext ==
    \E t \in Installs :
        \/ installHV(t) \/ FetchConfig(t) \/ Download(t)
        \/ Unable(t) \/ NoLaunch(t) \/ LaunchDirect(t) \/ LaunchGui(t) \/ GuiMoves(t)
        \/ WaitOpen(t) \/ WaitRelease(t) \/ Detect(t)
        \/ HasExtPack(t) \/ ExtFails(t) \/ ExtOpen(t) \/ ExtGet(t) \/ ExtCheck(t) \/ ExtRun(t)
        \/ Publish(t)

InstallSpec == InstallInit /\ [][InstallNext]_installVars

-----------------------------------------------------------------------------

\* What "install" tells the page: unless every try to install has failed, there
\* is a hypervisor, with its extension pack.  And an installer gets a package
\* that differs from its checksum only when every download has failed.
InstallHonest ==
    \A t \in Installs :
        /\ inst[t].told = "install" => inst[t].exhausted \/ (hv /\ extpack)
        /\ inst[t].step \in {"launch", "waitOpen", "waitRelease"} /\ inst[t].pkg # "whole"
           => inst[t].unverified
=============================================================================
