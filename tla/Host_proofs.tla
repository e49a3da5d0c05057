----------------------------- MODULE Host_proofs -----------------------------
(***************************************************************************)
(* What the plugin keeps on the host: the hypervisor with its extension    *)
(* pack, the host-only network, and the two files that processes share     *)
(* without a lock, the store of trusted keys and the local configuration.  *)
(***************************************************************************)
EXTENDS HypervisorInstall, HostNetwork, KeyStore, LocalConfig, FiniteSetTheorems, TLAPS

(***************************************************************************)
(* InstallHonest for any number of installing threads and of tries.        *)
(*                                                                         *)
(* VirtualBox and its extension pack are never taken away here, so a       *)
(* thread that has found one still has it when it tells the page; and a    *)
(* thread that reaches the installer with a broken package has used up its *)
(* downloads.  That the counters stay in their range needs the tries: every *)
(* installer that runs has used up one.                                    *)
(***************************************************************************)

Records == [step : Steps, left : 0 .. MaxTries, pkg : Packages, fits : BOOLEAN,
            unverified : BOOLEAN, exhausted : BOOLEAN,
            told : {"nothing", "install", "installError"}]

Launching == {"launch", "waitOpen", "waitRelease", "detect"}

Extending == {"hasExt", "extConfig", "extOpen", "extGet", "extCheck", "extRun"}

\* What a thread knows when its record is r.
Sure(r) ==
    /\ r.told = "install" => r.exhausted \/ (hv /\ extpack)
    /\ r.step \in Launching /\ r.pkg # "whole" => r.unverified
    /\ r.step \in Extending => installed
    /\ r.step = "publish" => r.exhausted \/ (installed /\ extpack)

\* The installers g of a thread whose record is r: one more may start.
Room(r, g) ==
    /\ g.running \in 0 .. MaxTries /\ g.holding \in 0 .. MaxTries
    /\ g.holding <= g.running
    /\ r.step \in {"config", "download"} \cup Launching => r.left >= 1
    /\ r = Idle \/ r.step \in {"config", "download"} => g.running = 0
    /\ r.step = "launch" => g.running + r.left <= MaxTries
    /\ r.step \in {"waitOpen", "waitRelease", "detect"} => g.running + r.left <= MaxTries + 1

IInv ==
    /\ InstallTypeOK
    /\ hv => installed
    /\ \A t \in Installs : Sure(inst[t]) /\ Room(inst[t], guis[t])

\* No step takes anything away.
Keeps ==
    /\ installed' \in BOOLEAN /\ (installed => installed')
    /\ extpack' \in BOOLEAN /\ (extpack => extpack')
    /\ hv' \in BOOLEAN /\ (hv => hv') /\ (hv' => installed')
    /\ desktop' = desktop
    /\ extFile' \in Packages \cup {"partial"}

\* What a thread knows after a step that makes its record r.
SureThen(r) ==
    /\ r.told = "install" => r.exhausted \/ (hv' /\ extpack')
    /\ r.step \in Launching /\ r.pkg # "whole" => r.unverified
    /\ r.step \in Extending => installed'
    /\ r.step = "publish" => r.exhausted \/ (installed' /\ extpack')

-----------------------------------------------------------------------------

LEMMA IdleRecord ==
    /\ Idle \in Records
    /\ Idle.step = "idle" /\ Idle.left = 0 /\ Idle.pkg = "none" /\ Idle.fits = FALSE
    /\ Idle.unverified = FALSE /\ Idle.exhausted = FALSE /\ Idle.told = "nothing"
  <1>1. 0 \in 0 .. MaxTries
    BY InstallAssumption
  <1> QED
    BY <1>1 DEF Idle, Records, Steps, Packages

LEMMA Bounds == MaxTries \in Nat /\ MaxTries >= 1 /\ 0 \in 0 .. MaxTries /\ MaxTries \in 0 .. MaxTries
  BY InstallAssumption

LEMMA Initially == InstallInit => IInv
  <1> SUFFICES ASSUME InstallInit PROVE IInv
    OBVIOUS
  <1>1. inst = [t \in Installs |-> Idle] /\ guis = [t \in Installs |-> [running |-> 0, holding |-> 0]]
    BY DEF InstallInit
  <1>2. InstallTypeOK
    <2>1. inst \in [Installs -> Records]
      BY <1>1, IdleRecord
    <2>2. guis \in [Installs -> [running : 0 .. MaxTries, holding : 0 .. MaxTries]]
      BY <1>1, Bounds
    <2> QED
      BY <2>1, <2>2 DEF InstallInit, InstallTypeOK, Packages, Records
  <1>3. \A t \in Installs : Sure(inst[t])
    BY <1>1, IdleRecord DEF Sure, Launching, Extending
  <1>4. \A t \in Installs : Room(inst[t], guis[t])
    <2> TAKE t \in Installs
    <2>1. inst[t] = Idle /\ guis[t].running = 0 /\ guis[t].holding = 0
      BY <1>1
    <2> QED
      BY <2>1, IdleRecord, Bounds DEF Room, Launching
  <1> QED
    BY <1>2, <1>3, <1>4 DEF IInv, InstallInit

LEMMA InstallRecord ==
    ASSUME IInv, NEW t \in Installs
    PROVE  /\ inst[t] \in Records /\ Sure(inst[t]) /\ Room(inst[t], guis[t])
           /\ inst[t].left \in Nat /\ guis[t].running \in Nat /\ guis[t].holding \in Nat
           /\ guis[t] \in [running : 0 .. MaxTries, holding : 0 .. MaxTries]
  <1>1. inst[t] \in Records /\ guis[t] \in [running : 0 .. MaxTries, holding : 0 .. MaxTries]
    BY DEF IInv, InstallTypeOK, Records
  <1> QED
    BY <1>1, Bounds DEF IInv, Records

LEMMA Typed == IInv => inst \in [Installs -> Records]
  BY DEF IInv, InstallTypeOK, Records

\* A step of one thread that leaves the others what they know.
LEMMA InstallerMoves ==
    ASSUME IInv, NEW t \in Installs, NEW r, NEW g,
           inst' = [inst EXCEPT ![t] = r], guis' = [guis EXCEPT ![t] = g],
           g \in [running : 0 .. MaxTries, holding : 0 .. MaxTries],
           Keeps, r \in Records, SureThen(r), Room(r, g)
    PROVE  IInv'
  <1>1. inst \in [Installs -> Records]
    BY Typed
  <1>2. guis \in [Installs -> [running : 0 .. MaxTries, holding : 0 .. MaxTries]]
    BY DEF IInv, InstallTypeOK
  <1>3. inst'[t] = r /\ guis'[t] = g
    BY <1>1, <1>2
  <1>4. inst' \in [Installs -> Records]
    BY <1>1
  <1>5. guis' \in [Installs -> [running : 0 .. MaxTries, holding : 0 .. MaxTries]]
    BY <1>2
  <1>6. InstallTypeOK'
    BY <1>4, <1>5 DEF IInv, InstallTypeOK, Keeps, Records
  <1>7. ASSUME NEW u \in Installs
        PROVE  Sure(inst[u])' /\ Room(inst[u], guis[u])'
    <2>1. CASE u = t
      BY <1>3, <2>1 DEF Sure, SureThen, Room
    <2>2. CASE u # t
      <3>1. inst'[u] = inst[u] /\ guis'[u] = guis[u]
        BY <1>1, <1>2, <2>2
      <3>2. Sure(inst[u]) /\ Room(inst[u], guis[u])
        BY InstallRecord
      <3> QED
        BY <3>1, <3>2 DEF Sure, Room, Keeps
    <2> QED
      BY <2>1, <2>2
  <1> QED
    BY <1>6, <1>7 DEF IInv, Keeps

\* Its installers may be left alone, and with them the world.
LEMMA OneThinks ==
    ASSUME IInv, NEW t \in Installs, NEW r, Becomes(t, r), UNCHANGED guis,
           Keeps, r \in Records, SureThen(r), Room(r, guis[t])
    PROVE  IInv'
  <1>1. guis' = [guis EXCEPT ![t] = guis[t]]
    BY DEF IInv, InstallTypeOK
  <1>2. inst' = [inst EXCEPT ![t] = r]
    BY DEF Becomes
  <1>3. guis[t] \in [running : 0 .. MaxTries, holding : 0 .. MaxTries]
    BY InstallRecord
  <1> QED
    BY <1>1, <1>2, <1>3, InstallerMoves

LEMMA InstallStill == ASSUME IInv, UNCHANGED world PROVE Keeps
  BY DEF IInv, InstallTypeOK, world, Keeps

-----------------------------------------------------------------------------
(* The steps, one for each action.                                         *)

\* A thread that gives its answer keeps what it has found out.
LEMMA Answers ==
    ASSUME IInv, NEW t \in Installs, UNCHANGED <<world, guis>>, Becomes(t, Answer(t, "installError"))
    PROVE  IInv'
  <1> DEFINE r == Answer(t, "installError")
  <1>1. r \in Records /\ r.step = "idle" /\ r.told = "installError"
    BY InstallRecord DEF Answer, Records, Steps
  <1>2. r # Idle
    BY <1>1, IdleRecord
  <1>3. Becomes(t, r)
    OBVIOUS
  <1> HIDE DEF r
  <1>4. SureThen(r)
    BY <1>1 DEF SureThen, Launching, Extending
  <1>5. Room(r, guis[t])
    BY <1>1, <1>2, InstallRecord DEF Room, Launching
  <1> QED
    BY <1>1, <1>3, <1>4, <1>5, InstallStill, OneThinks

LEMMA InstallFine == ASSUME IInv, NEW t \in Installs, installHV(t) PROVE IInv'
  <1> DEFINE r == [Idle EXCEPT !.step = "config", !.left = MaxTries]
  <1>1. /\ r \in Records /\ r.step = "config" /\ r.left = MaxTries /\ r.told = "nothing"
    BY IdleRecord, Bounds DEF Records, Steps
  <1>2. Becomes(t, r) /\ UNCHANGED <<world, guis>> /\ inst[t] = Idle
    BY DEF installHV
  <1> HIDE DEF r
  <1>3. SureThen(r)
    BY <1>1 DEF SureThen, Launching, Extending
  <1>4. Room(r, guis[t])
    BY <1>1, <1>2, InstallRecord, Bounds DEF Room
  <1> QED
    BY <1>1, <1>2, <1>3, <1>4, InstallStill, OneThinks

\* Another try of a loop.
LEMMA Again ==
    ASSUME IInv, NEW t \in Installs, UNCHANGED <<world, guis>>, NEW p \in Packages,
           inst[t].step \in {"config", "download"}, inst[t].left > 1,
           Becomes(t, [[inst[t] EXCEPT !.pkg = p] EXCEPT !.left = @ - 1])
    PROVE  IInv'
  <1> DEFINE r == [[inst[t] EXCEPT !.pkg = p] EXCEPT !.left = @ - 1]
  <1>1. /\ r \in Records /\ r.step = inst[t].step /\ r.left = inst[t].left - 1
        /\ r.told = inst[t].told /\ r.exhausted = inst[t].exhausted
    <2>1. inst[t].left - 1 \in 0 .. MaxTries
      BY InstallRecord, Bounds DEF Records
    <2> QED
      BY <2>1, InstallRecord DEF Records
  <1>2. Becomes(t, r)
    OBVIOUS
  <1> HIDE DEF r
  <1>3. SureThen(r)
    BY <1>1, InstallRecord DEF SureThen, Sure, world, Launching, Extending
  <1>4. Room(r, guis[t])
    BY <1>1, InstallRecord, Bounds, IdleRecord DEF Room
  <1> QED
    BY <1>1, <1>2, <1>3, <1>4, InstallStill, OneThinks

LEMMA ConfigFine == ASSUME IInv, NEW t \in Installs, FetchConfig(t) PROVE IInv'
  <1> USE DEF FetchConfig
  <1>1. CASE inst[t].left > 1 /\ Becomes(t, [inst[t] EXCEPT !.left = @ - 1])
    <2>1. [[inst[t] EXCEPT !.pkg = inst[t].pkg] EXCEPT !.left = @ - 1] = [inst[t] EXCEPT !.left = @ - 1]
      BY InstallRecord DEF Records
    <2>2. inst[t].pkg \in Packages
      BY InstallRecord DEF Records
    <2> QED
      BY <1>1, <2>1, <2>2, Again
  <1>2. CASE Becomes(t, Answer(t, "installError"))
    BY <1>2, Answers
  <1>3. ASSUME NEW fits \in BOOLEAN,
               Becomes(t, [inst[t] EXCEPT !.step = "download", !.left = MaxTries, !.fits = fits])
        PROVE  IInv'
    <2> DEFINE r == [inst[t] EXCEPT !.step = "download", !.left = MaxTries, !.fits = fits]
    <2>1. /\ r \in Records /\ r.step = "download" /\ r.left = MaxTries
          /\ r.told = inst[t].told /\ r.exhausted = inst[t].exhausted
      BY InstallRecord, Bounds DEF Records, Steps
    <2>2. Becomes(t, r)
      BY <1>3
    <2> HIDE DEF r
    <2>3. SureThen(r)
      BY <2>1, InstallRecord DEF SureThen, Sure, world, Launching, Extending
    <2>4. Room(r, guis[t])
      BY <2>1, InstallRecord, Bounds DEF Room
    <2> QED
      BY <2>1, <2>2, <2>3, <2>4, InstallStill, OneThinks
  <1> QED
    BY <1>1, <1>2, <1>3

LEMMA DownloadFine == ASSUME IInv, NEW t \in Installs, Download(t) PROVE IInv'
  <1> USE DEF Download
  <1> DEFINE Got(p) == [inst[t] EXCEPT !.pkg = p]
             Ready(p) == [Got(p) EXCEPT !.step = "launch", !.left = MaxTries]
             Spoilt(p) == [Got(p) EXCEPT !.step = "launch", !.left = MaxTries, !.unverified = TRUE]
  <1>1. PICK p \in Packages :
            Becomes(t, IF p = "whole" THEN Ready(p)
                       ELSE IF Got(p).left > 1 THEN [Got(p) EXCEPT !.left = @ - 1] ELSE Spoilt(p))
    OBVIOUS
  <1>2. Got(p).left = inst[t].left
    BY InstallRecord DEF Records
  <1>3. ASSUME NEW r, r \in {Ready(p), Spoilt(p)}, Becomes(t, r), p = "whole" \/ r = Spoilt(p)
        PROVE  IInv'
    <2>1. /\ r \in Records /\ r.step = "launch" /\ r.left = MaxTries /\ r.pkg = p
          /\ r.told = inst[t].told /\ r.exhausted = inst[t].exhausted
          /\ p = "whole" \/ r.unverified
      BY <1>3, InstallRecord, Bounds DEF Records, Steps
    <2> HIDE DEF Got, Ready, Spoilt
    <2>2. SureThen(r)
      BY <2>1, InstallRecord DEF SureThen, Sure, world, Launching, Extending
    <2>3. Room(r, guis[t])
      BY <2>1, InstallRecord, Bounds, IdleRecord DEF Room
    <2> QED
      BY <1>3, <2>1, <2>2, <2>3, InstallStill, OneThinks
  <1>4. CASE p = "whole"
    BY <1>1, <1>3, <1>4
  <1>5. CASE p # "whole" /\ inst[t].left > 1
    BY <1>1, <1>2, <1>5, Again
  <1>6. CASE p # "whole" /\ ~(inst[t].left > 1)
    BY <1>1, <1>2, <1>3, <1>6
  <1> QED
    BY <1>4, <1>5, <1>6

\* A try to install that fails.
LEMMA Failing ==
    ASSUME IInv, NEW t \in Installs, UNCHANGED <<world, guis>>, Failed(t),
           inst[t].step \in Launching
    PROVE  IInv'
  <1>1. CASE inst[t].left > 1
    <2> DEFINE r == [To(t, "launch") EXCEPT !.left = @ - 1]
    <2>1. /\ r \in Records /\ r.step = "launch" /\ r.left = inst[t].left - 1
          /\ r.told = inst[t].told /\ r.exhausted = inst[t].exhausted
          /\ r.pkg = inst[t].pkg /\ r.unverified = inst[t].unverified
      <3>1. inst[t].left - 1 \in 0 .. MaxTries
        BY <1>1, InstallRecord, Bounds DEF Records
      <3> QED
        BY <3>1, InstallRecord DEF Records, Steps, To
    <2>2. Becomes(t, r)
      BY <1>1 DEF Failed
    <2> HIDE DEF r
    <2>3. SureThen(r)
      BY <2>1, InstallRecord DEF SureThen, Sure, world, Launching, Extending
    <2>4. Room(r, guis[t])
      BY <1>1, <2>1, InstallRecord, Bounds, IdleRecord DEF Room, Launching
    <2> QED
      BY <2>1, <2>2, <2>3, <2>4, InstallStill, OneThinks
  <1>2. CASE ~(inst[t].left > 1)
    <2> DEFINE r == [To(t, "publish") EXCEPT !.exhausted = TRUE]
    <2>1. r \in Records /\ r.step = "publish" /\ r.told = inst[t].told /\ r.exhausted = TRUE
      BY InstallRecord DEF Records, Steps, To
    <2>2. Becomes(t, r)
      BY <1>2 DEF Failed
    <2> HIDE DEF r
    <2>3. SureThen(r)
      BY <2>1 DEF SureThen, Launching, Extending
    <2>4. Room(r, guis[t])
      BY <2>1, InstallRecord, Bounds, IdleRecord DEF Room, Launching
    <2> QED
      BY <2>1, <2>2, <2>3, <2>4, InstallStill, OneThinks
  <1> QED
    BY <1>1, <1>2

\* A thread that goes on with what it has.
LEMMA Onward ==
    ASSUME IInv, NEW t \in Installs, Keeps, UNCHANGED guis, NEW s \in Steps,
           Becomes(t, To(t, s)),
           \/ inst[t].step \in Launching /\ s \in {"waitRelease", "detect"}
           \/ inst[t].step \in Extending /\ s \in Extending
           \/ inst[t].step \in Extending /\ extpack' /\ s = "publish"
    PROVE  IInv'
  <1> DEFINE r == To(t, s)
  <1>1. /\ r \in Records /\ r.step = s /\ r.left = inst[t].left
        /\ r.told = inst[t].told /\ r.exhausted = inst[t].exhausted
        /\ r.pkg = inst[t].pkg /\ r.unverified = inst[t].unverified
    BY InstallRecord DEF Records, To
  <1>2. Becomes(t, r)
    OBVIOUS
  <1> HIDE DEF r
  <1>3. SureThen(r)
    BY <1>1, InstallRecord DEF SureThen, Sure, Keeps, Launching, Extending
  <1>4. Room(r, guis[t])
    BY <1>1, InstallRecord, Bounds, IdleRecord DEF Room, Launching, Extending
  <1> QED
    BY <1>1, <1>2, <1>3, <1>4, OneThinks

LEMMA NoLaunchFine == ASSUME IInv, NEW t \in Installs, NoLaunch(t) PROVE IInv'
  BY Failing DEF NoLaunch, Launching

LEMMA WaitReleaseFine == ASSUME IInv, NEW t \in Installs, WaitRelease(t) PROVE IInv'
  <1>1. CASE Failed(t)
    BY <1>1, Failing DEF WaitRelease, Launching
  <1>2. CASE Becomes(t, To(t, "detect"))
    <2>1. UNCHANGED <<world, guis>> /\ inst[t].step = "waitRelease"
      BY DEF WaitRelease
    <2> QED
      BY <1>2, <2>1, InstallStill, Onward DEF Steps, Launching
  <1> QED
    BY <1>1, <1>2 DEF WaitRelease

LEMMA WaitOpenFine == ASSUME IInv, NEW t \in Installs, WaitOpen(t) PROVE IInv'
  <1>1. CASE Failed(t)
    BY <1>1, Failing DEF WaitOpen, Launching
  <1>2. CASE Becomes(t, To(t, "waitRelease"))
    <2>1. UNCHANGED <<world, guis>> /\ inst[t].step = "waitOpen"
      BY DEF WaitOpen
    <2> QED
      BY <1>2, <2>1, InstallStill, Onward DEF Steps, Launching
  <1> QED
    BY <1>1, <1>2 DEF WaitOpen
LEMMA LaunchDirectFine == ASSUME IInv, NEW t \in Installs, LaunchDirect(t) PROVE IInv'
  <1>1. Keeps /\ UNCHANGED guis /\ Becomes(t, To(t, "detect")) /\ inst[t].step = "launch"
    BY DEF LaunchDirect, IInv, InstallTypeOK, Keeps
  <1> QED
    BY <1>1, Onward DEF Steps, Launching

LEMMA LaunchGuiFine == ASSUME IInv, NEW t \in Installs, LaunchGui(t) PROVE IInv'
  <1>1. UNCHANGED world /\ inst[t].step = "launch"
    BY DEF LaunchGui
  <1> DEFINE r == To(t, "waitOpen")
             more == [guis[t] EXCEPT !.running = @ + 1]
  <1>2. /\ r \in Records /\ r.step = "waitOpen" /\ r.left = inst[t].left
        /\ r.told = inst[t].told /\ r.exhausted = inst[t].exhausted
        /\ r.pkg = inst[t].pkg /\ r.unverified = inst[t].unverified
    BY InstallRecord DEF Records, To, Steps
  <1>3. /\ more \in [running : 0 .. MaxTries, holding : 0 .. MaxTries]
        /\ more.running = guis[t].running + 1 /\ more.holding = guis[t].holding
    <2>1. guis[t].running + 1 \in 0 .. MaxTries
      BY <1>1, InstallRecord, Bounds DEF Room, Launching
    <2> QED
      BY <2>1, InstallRecord
  <1>4. PICK g \in {guis[t], more} : guis' = [guis EXCEPT ![t] = g]
    <2>1. CASE guis' = guis
      <3>1. guis = [guis EXCEPT ![t] = guis[t]]
        BY DEF IInv, InstallTypeOK
      <3> QED
        BY <2>1, <3>1
    <2>2. CASE guis' = [guis EXCEPT ![t].running = @ + 1]
      <3>1. [guis EXCEPT ![t].running = @ + 1] = [guis EXCEPT ![t] = more]
        OBVIOUS
      <3> QED
        BY <2>2, <3>1
    <2> QED
      BY <2>1, <2>2 DEF LaunchGui
  <1>5. inst' = [inst EXCEPT ![t] = r]
    BY DEF LaunchGui, Becomes
  <1> HIDE DEF r, more
  <1>6. SureThen(r)
    BY <1>1, <1>2, InstallRecord DEF SureThen, Sure, world, Launching, Extending
  <1>7. Room(r, g)
    BY <1>1, <1>2, <1>3, InstallRecord, Bounds, IdleRecord DEF Room, Launching
  <1>8. g \in [running : 0 .. MaxTries, holding : 0 .. MaxTries]
    BY <1>3, InstallRecord
  <1> QED
    BY <1>1, <1>2, <1>4, <1>5, <1>6, <1>7, <1>8, InstallStill, InstallerMoves

LEMMA GuiFine == ASSUME IInv, NEW t \in Installs, GuiMoves(t) PROVE IInv'
  <1>1. Keeps
    BY DEF GuiMoves, IInv, InstallTypeOK, Keeps
  <1>2. inst' = [inst EXCEPT ![t] = inst[t]]
    BY Typed DEF GuiMoves
  <1>3. SureThen(inst[t])
    BY <1>1, InstallRecord DEF SureThen, Sure, Keeps
  <1>4. ASSUME NEW g, guis' = [guis EXCEPT ![t] = g],
               g \in [running : 0 .. MaxTries, holding : 0 .. MaxTries],
               g.holding <= g.running, g.running <= guis[t].running
        PROVE  IInv'
    <2>1. g.running \in Nat /\ g.holding \in Nat
      BY <1>4, Bounds
    <2>2. Room(inst[t], g)
      BY <1>4, <2>1, InstallRecord, Bounds DEF Room
    <2> QED
      BY <1>1, <1>2, <1>3, <1>4, <2>2, InstallRecord, InstallerMoves
  <1>5. CASE guis[t].holding < guis[t].running /\ guis' = [guis EXCEPT ![t].holding = @ + 1]
    <2> DEFINE g == [guis[t] EXCEPT !.holding = @ + 1]
    <2>1. guis[t].holding + 1 \in 0 .. MaxTries
      BY <1>5, InstallRecord, Bounds
    <2>2. /\ g \in [running : 0 .. MaxTries, holding : 0 .. MaxTries]
          /\ g.running = guis[t].running /\ g.holding = guis[t].holding + 1
      BY <2>1, InstallRecord
    <2>3. guis' = [guis EXCEPT ![t] = g]
      BY <1>5
    <2> HIDE DEF g
    <2>4. g.holding <= g.running /\ g.running <= guis[t].running
      BY <1>5, <2>2, InstallRecord DEF Room
    <2> QED
      BY <1>4, <2>2, <2>3, <2>4
  <1>6. CASE guis[t].holding > 0 /\ guis' = [guis EXCEPT ![t].holding = @ - 1]
    <2> DEFINE g == [guis[t] EXCEPT !.holding = @ - 1]
    <2>1. guis[t].holding - 1 \in 0 .. MaxTries
      BY <1>6, InstallRecord, Bounds
    <2>2. /\ g \in [running : 0 .. MaxTries, holding : 0 .. MaxTries]
          /\ g.running = guis[t].running /\ g.holding = guis[t].holding - 1
      BY <2>1, InstallRecord
    <2>3. guis' = [guis EXCEPT ![t] = g]
      BY <1>6
    <2> HIDE DEF g
    <2>4. g.holding <= g.running /\ g.running <= guis[t].running
      BY <1>6, <2>2, InstallRecord DEF Room
    <2> QED
      BY <1>4, <2>2, <2>3, <2>4
  <1>7. CASE guis[t].holding < guis[t].running /\ guis' = [guis EXCEPT ![t].running = @ - 1]
    <2> DEFINE g == [guis[t] EXCEPT !.running = @ - 1]
    <2>1. guis[t].running - 1 \in 0 .. MaxTries
      BY <1>7, InstallRecord, Bounds
    <2>2. /\ g \in [running : 0 .. MaxTries, holding : 0 .. MaxTries]
          /\ g.running = guis[t].running - 1 /\ g.holding = guis[t].holding
      BY <2>1, InstallRecord
    <2>3. guis' = [guis EXCEPT ![t] = g]
      BY <1>7
    <2> HIDE DEF g
    <2>4. g.holding <= g.running /\ g.running <= guis[t].running
      BY <1>7, <2>2, InstallRecord DEF Room
    <2> QED
      BY <1>4, <2>2, <2>3, <2>4
  <1> QED
    BY <1>5, <1>6, <1>7 DEF GuiMoves

LEMMA DetectFine == ASSUME IInv, NEW t \in Installs, Detect(t) PROVE IInv'
  <1>1. CASE ~installed
    BY <1>1, Failing DEF Detect, Launching
  <1>2. CASE installed
    <2> DEFINE r == [To(t, "hasExt") EXCEPT !.pkg = "none"]
    <2>1. /\ r \in Records /\ r.step = "hasExt" /\ r.told = inst[t].told
          /\ r.exhausted = inst[t].exhausted
      BY InstallRecord DEF Records, Steps, Packages, To
    <2>2. Becomes(t, r) /\ UNCHANGED <<world, guis>>
      BY <1>2 DEF Detect
    <2> HIDE DEF r
    <2>3. SureThen(r)
      BY <1>2, <2>1, <2>2, InstallRecord DEF SureThen, Sure, world, Launching, Extending
    <2>4. Room(r, guis[t])
      BY <2>1, InstallRecord, IdleRecord DEF Room, Launching
    <2> QED
      BY <2>1, <2>2, <2>3, <2>4, InstallStill, OneThinks
  <1> QED
    BY <1>1, <1>2

LEMMA HasExtFine == ASSUME IInv, NEW t \in Installs, HasExtPack(t) PROVE IInv'
  <1>1. UNCHANGED <<world, guis>> /\ inst[t].step \in Extending
    BY DEF HasExtPack, Extending
  <1>2. CASE extpack /\ Becomes(t, To(t, "publish"))
    <2>1. extpack'
      BY <1>1, <1>2 DEF world
    <2> QED
      BY <1>1, <1>2, <2>1, InstallStill, Onward DEF Steps
  <1>3. CASE Becomes(t, To(t, "extConfig"))
    BY <1>1, <1>3, InstallStill, Onward DEF Steps, Extending
  <1> QED
    BY <1>2, <1>3 DEF HasExtPack

LEMMA ExtOpenFine == ASSUME IInv, NEW t \in Installs, ExtOpen(t) PROVE IInv'
  <1>1. Keeps /\ UNCHANGED guis /\ inst[t].step \in Extending /\ Becomes(t, To(t, "extGet"))
    BY DEF ExtOpen, Extending, IInv, InstallTypeOK, Keeps
  <1> QED
    BY <1>1, Onward DEF Steps, Extending

LEMMA ExtGetFine == ASSUME IInv, NEW t \in Installs, ExtGet(t) PROVE IInv'
  <1>1. Keeps /\ UNCHANGED guis /\ inst[t].step \in Extending /\ Becomes(t, To(t, "extCheck"))
    BY DEF ExtGet, Extending, IInv, InstallTypeOK, Keeps, Packages
  <1> QED
    BY <1>1, Onward DEF Steps, Extending

LEMMA ExtCheckFine == ASSUME IInv, NEW t \in Installs, ExtCheck(t) PROVE IInv'
  <1>1. UNCHANGED <<world, guis>> /\ inst[t].step \in Extending
    BY DEF ExtCheck, Extending
  <1>2. CASE extFile = "whole"
    BY <1>1, <1>2, InstallStill, Onward DEF ExtCheck, Steps, Extending
  <1>3. CASE extFile # "whole"
    BY <1>1, <1>3, Answers DEF ExtCheck
  <1> QED
    BY <1>2, <1>3

LEMMA ExtRunFine == ASSUME IInv, NEW t \in Installs, ExtRun(t) PROVE IInv'
  <1>1. /\ Keeps /\ UNCHANGED guis /\ inst[t].step \in Extending /\ extpack'
        /\ Becomes(t, To(t, "publish"))
    BY DEF ExtRun, Extending, IInv, InstallTypeOK, Keeps, Packages
  <1> QED
    BY <1>1, Onward DEF Steps

LEMMA PublishFine == ASSUME IInv, NEW t \in Installs, Publish(t) PROVE IInv'
  <1> DEFINE r == Answer(t, "install")
  <1>1. /\ r \in Records /\ r.step = "idle" /\ r.told = "install"
        /\ r.exhausted = inst[t].exhausted
    BY InstallRecord DEF Records, Steps, Answer
  <1>2. Becomes(t, r) /\ UNCHANGED guis /\ inst[t].step = "publish"
    BY DEF Publish
  <1>3. Keeps /\ hv' = installed /\ extpack' = extpack
    BY DEF Publish, IInv, InstallTypeOK, Keeps
  <1> HIDE DEF r
  <1>4. SureThen(r)
    BY <1>1, <1>2, <1>3, InstallRecord DEF SureThen, Sure, Launching, Extending
  <1>5. Room(r, guis[t])
    BY <1>1, InstallRecord, IdleRecord DEF Room, Launching
  <1> QED
    BY <1>1, <1>2, <1>3, <1>4, <1>5, OneThinks

-----------------------------------------------------------------------------

LEMMA Stutters == ASSUME IInv, UNCHANGED installVars PROVE IInv'
  BY DEF IInv, InstallTypeOK, Sure, Room, installVars

LEMMA InstallInvariant == InstallSpec => []IInv
  <1>1. IInv /\ [InstallNext]_installVars => IInv'
    BY InstallFine, ConfigFine, DownloadFine, NoLaunchFine, LaunchDirectFine, LaunchGuiFine, GuiFine,
       WaitOpenFine, WaitReleaseFine, DetectFine, HasExtFine, ExtOpenFine, ExtGetFine, ExtCheckFine,
       ExtRunFine, PublishFine, Answers, Stutters DEF InstallNext, Unable, ExtFails
  <1> QED
    BY <1>1, Initially, PTL DEF InstallSpec

\* The tries of every thread and the installers it has started stay in range.
THEOREM InstallTypes == InstallSpec => []InstallTypeOK
  BY InstallInvariant, PTL DEF IInv

\* Every thread that has told the page "install" has used up its tries to install,
\* or there is a hypervisor and its extension pack; and a package that is not the
\* one of the checksum is started only after every download has failed.
THEOREM InstallsHonest == InstallSpec => []InstallHonest
  <1>1. IInv => InstallHonest
    BY DEF IInv, Sure, Launching, InstallHonest
  <1> QED
    BY <1>1, InstallInvariant, PTL

-----------------------------------------------------------------------------
(***************************************************************************)
(* AdapterServed for every number of sessions and interfaces.              *)
(*                                                                         *)
(* A server that runs is never stopped, and interfaces are only added, so  *)
(* that what a thread has listed stays true of what it has seen served.    *)
(* As long as no two threads overlap, what it has seen missing stays so,   *)
(* too: then it creates at most one interface, and adds a server where     *)
(* there is none.                                                          *)
(***************************************************************************)

\* What a thread knows of the host, at each of its steps.
Knows(o) ==
    LET r == opening[o] IN
    /\ r.seen <= adapters
    /\ \A i \in All : r.dhcp[i] # "none" => i <= adapters
    /\ \A i \in All : r.dhcp[i] = "on" => server[i] = "on"
    /\ r.step \in {"servers", "modify", "enable", "add"} => r.seen >= 1
    /\ r.step \in {"modify", "enable"} => r.at >= 1 /\ r.at <= r.seen
    /\ r.step = "relist" => adapters >= 1
    /\ r.step = "create" => sideBySide \/ adapters = 0
    /\ r.step = "add" => r.fault \/ sideBySide \/ server[1] = "none"
    /\ r.step = "done" => \E i \in 1 .. adapters : server[i] = "on"
    /\ r.step = "failed" => r.fault \/ sideBySide

Alone == sideBySide \/ \A o, p \in Openings : Outside(o) \/ Outside(p) \/ o = p

Built ==
    /\ \A i \in All : server[i] # "none" => i <= adapters
    /\ made <= adapters
    /\ made > 1 => sideBySide

HInv == HostTypeOK /\ (\A o \in Openings : Knows(o)) /\ Alone /\ Built

\* What one step of one thread does to the host.
Grows(o) ==
    /\ adapters' \in 0 .. MaxAdapters /\ adapters' >= adapters
    /\ server' \in [All -> Servers]
    /\ \A i \in All : i <= adapters /\ server[i] = "on" => server'[i] = "on"
    /\ \A i \in All : server'[i] # "none" => i <= adapters'
    /\ sideBySide' \in BOOLEAN /\ (sideBySide => sideBySide')
    /\ Outside(o) => server' = server /\ adapters' = adapters

\* What it is afterwards for that thread.
Fine(o, r) ==
    /\ r \in [step : HostSteps, seen : 0 .. MaxAdapters, dhcp : [All -> Servers],
              at : 0 .. MaxAdapters, fault : BOOLEAN]
    /\ r.seen <= adapters'
    /\ \A i \in All : r.dhcp[i] # "none" => i <= adapters'
    /\ \A i \in All : r.dhcp[i] = "on" => server'[i] = "on"
    /\ r.step \in {"servers", "modify", "enable", "add"} => r.seen >= 1
    /\ r.step \in {"modify", "enable"} => r.at >= 1 /\ r.at <= r.seen
    /\ r.step = "relist" => adapters' >= 1
    /\ r.step = "create" => sideBySide' \/ adapters' = 0
    /\ r.step = "add" => r.fault \/ sideBySide' \/ server'[1] = "none"
    /\ r.step = "done" => \E i \in 1 .. adapters' : server'[i] = "on"
    /\ r.step = "failed" => r.fault \/ sideBySide'

-----------------------------------------------------------------------------

LEMMA AwayRecord ==
    /\ Away \in [step : HostSteps, seen : 0 .. MaxAdapters, dhcp : [All -> Servers],
                 at : 0 .. MaxAdapters, fault : BOOLEAN]
    /\ Away.step = "idle" /\ Away.seen = 0 /\ Away.at = 0 /\ Away.fault = FALSE
    /\ Away.dhcp = [i \in All |-> "none"]
  <1>1. [i \in All |-> "none"] \in [All -> Servers]
    BY DEF Servers
  <1>2. 0 \in 0 .. MaxAdapters
    BY HostAssumption
  <1> QED
    BY <1>1, <1>2 DEF Away, HostSteps

LEMMA HostInitially == HostInit => HInv
  <1> SUFFICES ASSUME HostInit PROVE HInv
    OBVIOUS
  <1>1. opening = [o \in Openings |-> Away]
    BY DEF HostInit
  <1>2. HostTypeOK
    <2>1. opening \in [Openings -> [step : HostSteps, seen : 0 .. MaxAdapters, dhcp : [All -> Servers],
                                   at : 0 .. MaxAdapters, fault : BOOLEAN]]
      BY <1>1, AwayRecord
    <2>2. adapters \in 0 .. MaxAdapters /\ made \in 0 .. MaxAdapters
      BY HostAssumption DEF HostInit
    <2>3. server \in [All -> Servers]
      BY Zenon DEF HostInit
    <2>4. sideBySide \in BOOLEAN
      BY DEF HostInit
    <2> QED
      BY <2>1, <2>2, <2>3, <2>4 DEF HostTypeOK
  <1>3. \A o \in Openings : Knows(o)
    <2> TAKE o \in Openings
    <2>1. /\ opening[o].step = "idle" /\ opening[o].seen = 0
          /\ \A i \in All : opening[o].dhcp[i] = "none"
      BY <1>1, AwayRecord
    <2>2. opening[o].seen <= adapters
      BY <1>2, <2>1, HostAssumption DEF HostTypeOK
    <2> QED
      BY <2>1, <2>2 DEF Knows
  <1>4. Alone
    BY <1>1, AwayRecord DEF Alone, Outside
  <1>5. Built
    BY HostAssumption DEF HostInit, Built, All
  <1> QED
    BY <1>2, <1>3, <1>4, <1>5 DEF HInv

\* A step that is fine for its thread is fine for the others, who have seen less.
LEMMA OneMoves ==
    ASSUME HInv, NEW o \in Openings, NEW r,
           Moves(o, r), Grows(o), Fine(o, r),
           made' \in 0 .. MaxAdapters, made' <= adapters', made' > 1 => sideBySide',
           Outside(o) =>
               sideBySide' \/ \A p \in Openings \ {o} : Outside(p)
    PROVE  HInv'
  <1>1. opening' = [opening EXCEPT ![o] = r]
    BY DEF Moves
  <1>2. opening'[o] = r /\ \A p \in Openings \ {o} : opening'[p] = opening[p]
    BY <1>1 DEF HInv, HostTypeOK
  <1>3. HostTypeOK'
    BY <1>1 DEF HInv, HostTypeOK, Fine, Grows
  <1>4. Alone'
    <2>1. CASE sideBySide'
      BY <2>1 DEF Alone
    <2>2. CASE ~sideBySide'
      <3>1. \A p \in Openings \ {o} : Outside(p)
        BY <2>2 DEF Grows, HInv, Alone
      <3>2. \A p \in Openings \ {o} : Outside(p)'
        BY <1>2, <3>1 DEF Outside
      <3> QED
        BY <3>2 DEF Alone
    <2> QED
      BY <2>1, <2>2
  <1>5. Built'
    BY DEF Built, Grows
  <1>6. ASSUME NEW p \in Openings, p # o
        PROVE  Knows(p)'
    <2>1. Knows(p) /\ opening'[p] = opening[p] /\ opening[p].seen \in 0 .. MaxAdapters
      BY <1>2, <1>6 DEF HInv, HostTypeOK
    <2>2. /\ adapters \in Nat /\ adapters' \in Nat /\ MaxAdapters \in Nat
          /\ adapters <= MaxAdapters /\ adapters <= adapters' /\ opening[p].seen \in Nat
      BY <2>1, HostAssumption DEF HInv, HostTypeOK, Grows
    <2>3. \A i \in All : i \in Nat
      BY DEF All
    <2>4. /\ opening'[p].seen <= adapters'
          /\ \A i \in All : opening'[p].dhcp[i] # "none" => i <= adapters'
          /\ \A i \in All : opening'[p].dhcp[i] = "on" => server'[i] = "on"
      BY <2>1, <2>2, <2>3 DEF Knows, Grows
    <2>5. /\ opening'[p].step = "relist" => adapters' >= 1
          /\ opening'[p].step \in {"servers", "modify", "enable", "add"} => opening'[p].seen >= 1
          /\ opening'[p].step \in {"modify", "enable"}
             => opening'[p].at >= 1 /\ opening'[p].at <= opening'[p].seen
      BY <2>1, <2>2 DEF Knows
    <2>6. opening'[p].step = "done" => \E i \in 1 .. adapters' : server'[i] = "on"
      <3> SUFFICES ASSUME opening'[p].step = "done"
                   PROVE  \E i \in 1 .. adapters' : server'[i] = "on"
        OBVIOUS
      <3>1. PICK i \in 1 .. adapters : server[i] = "on"
        BY <2>1 DEF Knows
      <3>2. i \in All /\ i <= adapters /\ i \in 1 .. adapters'
        BY <2>2, HostAssumption DEF All
      <3> QED
        BY <3>1, <3>2 DEF Grows
    <2>7. Outside(p) \/ sideBySide' \/ (server' = server /\ adapters' = adapters)
      BY <1>6 DEF Grows, HInv, Alone
    <2>8. opening'[p].step \in {"create", "add"} => ~Outside(p)
      BY <2>1 DEF Outside
    <2>9. /\ opening'[p].step = "create" => sideBySide' \/ adapters' = 0
          /\ opening'[p].step = "add" => opening'[p].fault \/ sideBySide' \/ server'[1] = "none"
      BY <2>1, <2>7, <2>8 DEF Knows, Grows
    <2>10. opening'[p].step = "failed" => opening'[p].fault \/ sideBySide'
      BY <2>1 DEF Knows, Grows
    <2> QED
      BY <2>4, <2>5, <2>6, <2>9, <2>10 DEF Knows
  <1>7. Knows(o)'
    BY <1>2 DEF Knows, Fine
  <1> QED
    BY <1>3, <1>4, <1>5, <1>6, <1>7 DEF HInv

-----------------------------------------------------------------------------
(* The steps, one for each action.                                         *)

\* The host is left alone.
Still == adapters' = adapters /\ server' = server /\ made' = made

LEMMA StillGrows ==
    ASSUME HInv, NEW o \in Openings, Still, sideBySide' \in BOOLEAN, sideBySide => sideBySide'
    PROVE  Grows(o) /\ made' \in 0 .. MaxAdapters /\ made' <= adapters' /\ (made' > 1 => sideBySide')
  <1>1. adapters \in Nat
    BY HostAssumption DEF HInv, HostTypeOK
  <1> QED
    BY <1>1 DEF HInv, HostTypeOK, Still, Grows, Built

LEMMA Record ==
    ASSUME HInv, NEW o \in Openings
    PROVE  /\ opening[o] \in [step : HostSteps, seen : 0 .. MaxAdapters, dhcp : [All -> Servers],
                              at : 0 .. MaxAdapters, fault : BOOLEAN]
           /\ Knows(o)
  BY DEF HInv, HostTypeOK

\* A thread that gives up is fine, whatever it has done to the host.
LEMMA GivingUp ==
    ASSUME HInv, NEW o \in Openings, Grows(o)
    PROVE  Fine(o, [opening[o] EXCEPT !.step = "failed", !.fault = TRUE])
  <1> DEFINE r == [opening[o] EXCEPT !.step = "failed", !.fault = TRUE]
  <1>1. /\ r.step = "failed" /\ r.fault = TRUE /\ r.seen = opening[o].seen
        /\ r.dhcp = opening[o].dhcp
        /\ r \in [step : HostSteps, seen : 0 .. MaxAdapters, dhcp : [All -> Servers],
                  at : 0 .. MaxAdapters, fault : BOOLEAN]
    BY Record DEF HostSteps
  <1>2. /\ adapters \in Nat /\ adapters' \in Nat /\ adapters <= adapters' /\ opening[o].seen \in Nat
    BY Record, HostAssumption DEF HInv, HostTypeOK, Grows
  <1>3. \A i \in All : i \in Nat
    BY DEF All
  <1> HIDE DEF r
  <1>4. Fine(o, r)
    BY <1>1, <1>2, <1>3, Record DEF Fine, Knows, Grows
  <1> QED
    BY <1>4 DEF r

\* The interfaces have been listed.
LEMMA ListedFine ==
    ASSUME HInv, NEW o \in Openings, Still, adapters # 0, sideBySide' = sideBySide
    PROVE  Fine(o, [opening[o] EXCEPT !.step = "servers", !.seen = adapters])
  <1> DEFINE r == [opening[o] EXCEPT !.step = "servers", !.seen = adapters]
  <1>1. /\ r.step = "servers" /\ r.seen = adapters /\ r.dhcp = opening[o].dhcp
        /\ r \in [step : HostSteps, seen : 0 .. MaxAdapters, dhcp : [All -> Servers],
                  at : 0 .. MaxAdapters, fault : BOOLEAN]
    BY Record DEF HostSteps, HInv, HostTypeOK
  <1>2. adapters \in Nat /\ adapters >= 1
    BY HostAssumption DEF HInv, HostTypeOK
  <1> HIDE DEF r
  <1>3. Fine(o, r)
    BY <1>1, <1>2, Record DEF Fine, Knows, Still
  <1> QED
    BY <1>3 DEF r

LEMMA RelistFine == ASSUME HInv, NEW o \in Openings, Relist(o) PROVE HInv'
  <1>1. Still /\ sideBySide' = sideBySide /\ sideBySide \in BOOLEAN /\ ~Outside(o)
    BY DEF Relist, Still, HInv, HostTypeOK, Outside
  <1>2. Grows(o) /\ made' \in 0 .. MaxAdapters /\ made' <= adapters' /\ (made' > 1 => sideBySide')
    BY <1>1, StillGrows
  <1>3. CASE GivesUp(o)
    BY <1>1, <1>2, <1>3, GivingUp, OneMoves DEF GivesUp
  <1>4. CASE Moves(o, [opening[o] EXCEPT !.step = "servers", !.seen = adapters])
    <2>1. opening[o].step = "relist" /\ adapters \in Nat
      BY HostAssumption DEF Relist, HInv, HostTypeOK
    <2>2. adapters # 0
      BY <2>1, Record DEF Knows
    <2> QED
      BY <1>1, <1>2, <1>4, <2>2, ListedFine, OneMoves
  <1> QED
    BY <1>3, <1>4 DEF Relist

LEMMA ListFine == ASSUME HInv, NEW o \in Openings, ListInterfaces(o) PROVE HInv'
  <1>1. Still /\ sideBySide' = sideBySide /\ sideBySide \in BOOLEAN /\ ~Outside(o)
    BY DEF ListInterfaces, Still, HInv, HostTypeOK, Outside
  <1>2. Grows(o) /\ made' \in 0 .. MaxAdapters /\ made' <= adapters' /\ (made' > 1 => sideBySide')
    BY <1>1, StillGrows
  <1>3. CASE GivesUp(o)
    BY <1>1, <1>2, <1>3, GivingUp, OneMoves DEF GivesUp
  <1>4. CASE adapters = 0 /\ Onto(o, "create")
    <2> DEFINE r == [opening[o] EXCEPT !.step = "create"]
    <2>1. /\ r.step = "create" /\ r.seen = opening[o].seen /\ r.dhcp = opening[o].dhcp
          /\ r \in [step : HostSteps, seen : 0 .. MaxAdapters, dhcp : [All -> Servers],
                    at : 0 .. MaxAdapters, fault : BOOLEAN]
      BY Record DEF HostSteps
    <2> HIDE DEF r
    <2>2. Fine(o, r)
      BY <1>1, <1>4, <2>1, Record DEF Fine, Knows, Still
    <2>3. Moves(o, r)
      BY <1>4 DEF Onto, r
    <2> QED
      BY <1>1, <1>2, <2>2, <2>3, OneMoves
  <1>5. CASE adapters # 0 /\ Moves(o, [opening[o] EXCEPT !.step = "servers", !.seen = adapters])
    BY <1>1, <1>2, <1>5, ListedFine, OneMoves
  <1> QED
    BY <1>3, <1>4, <1>5 DEF ListInterfaces

LEMMA GetFine == ASSUME HInv, NEW o \in Openings, GetHostOnlyAdapter(o) PROVE HInv'
  <1> DEFINE r == [Away EXCEPT !.step = "list"]
  <1>1. /\ r.step = "list" /\ r.seen = 0 /\ \A i \in All : r.dhcp[i] = "none"
        /\ r \in [step : HostSteps, seen : 0 .. MaxAdapters, dhcp : [All -> Servers],
                  at : 0 .. MaxAdapters, fault : BOOLEAN]
    BY AwayRecord DEF HostSteps
  <1>2. Still /\ sideBySide' \in BOOLEAN /\ (sideBySide => sideBySide')
        /\ (sideBySide' \/ \A p \in Openings \ {o} : Outside(p))
    BY DEF GetHostOnlyAdapter, Still, HInv, HostTypeOK
  <1>3. adapters \in Nat
    BY HostAssumption DEF HInv, HostTypeOK
  <1> HIDE DEF r
  <1>4. Fine(o, r)
    BY <1>1, <1>2, <1>3 DEF Fine, Still
  <1>5. Moves(o, r)
    BY DEF GetHostOnlyAdapter, r
  <1> QED
    BY <1>2, <1>4, <1>5, StillGrows, OneMoves

LEMMA CreateFine == ASSUME HInv, NEW o \in Openings, CreateInterface(o) PROVE HInv'
  <1>1. PICK more \in 0 .. 2 :
          /\ adapters + more <= MaxAdapters
          /\ adapters' = adapters + more
          /\ made' = IF more > 0 THEN made + 1 ELSE made
          /\ server' \in {s \in [All -> Servers] : \A i \in All : i \notin adapters + 1 .. adapters + more
                                                                  => s[i] = server[i]}
          /\ \/ GivesUp(o)
             \/ more > 0 /\ Moves(o, [opening[o] EXCEPT !.step = "relist", !.fault = more = 2])
    BY DEF CreateInterface
  <1>2. /\ opening[o].step = "create" /\ ~Outside(o) /\ sideBySide' = sideBySide
        /\ sideBySide \in BOOLEAN
    BY DEF CreateInterface, Outside, HInv, HostTypeOK
  <1>3. /\ adapters \in Nat /\ made \in Nat /\ MaxAdapters \in Nat /\ more \in Nat /\ made <= adapters
    BY HostAssumption DEF HInv, HostTypeOK, Built
  <1>4. server' \in [All -> Servers]
    BY <1>1, Zenon
  <1>5. \A i \in All : i \notin adapters + 1 .. adapters + more => server'[i] = server[i]
    BY <1>1, Zenon
  <1>6. \A i \in All : i \in Nat
    BY DEF All
  <1>7. \A i \in All : server'[i] # "none" => i <= adapters'
    <2> SUFFICES ASSUME NEW i \in All, server'[i] # "none" PROVE i <= adapters'
      OBVIOUS
    <2>1. CASE i \in adapters + 1 .. adapters + more
      BY <1>1, <1>3, <2>1
    <2>2. CASE i \notin adapters + 1 .. adapters + more
      <3>1. i <= adapters
        BY <1>5, <2>2 DEF HInv, Built
      <3> QED
        BY <1>1, <1>3, <1>6, <3>1
    <2> QED
      BY <2>1, <2>2
  <1>8. \A i \in All : i <= adapters /\ server[i] = "on" => server'[i] = "on"
    BY <1>3, <1>5, <1>6
  <1>9. adapters' \in 0 .. MaxAdapters /\ adapters' >= adapters
    BY <1>1, <1>3
  <1>10. Grows(o)
    BY <1>2, <1>4, <1>7, <1>8, <1>9 DEF Grows
  <1>11. made' \in 0 .. MaxAdapters /\ made' <= adapters'
    BY <1>1, <1>3
  <1>12. made' > 1 => sideBySide'
    <2>1. sideBySide \/ adapters = 0
      BY <1>2, Record DEF Knows
    <2> QED
      BY <1>1, <1>2, <1>3, <2>1
  <1>13. CASE GivesUp(o)
    BY <1>2, <1>10, <1>11, <1>12, <1>13, GivingUp, OneMoves DEF GivesUp
  <1>14. CASE more > 0 /\ Moves(o, [opening[o] EXCEPT !.step = "relist", !.fault = more = 2])
    <2> DEFINE r == [opening[o] EXCEPT !.step = "relist", !.fault = more = 2]
    <2>1. /\ r.step = "relist" /\ r.seen = opening[o].seen /\ r.dhcp = opening[o].dhcp
          /\ r \in [step : HostSteps, seen : 0 .. MaxAdapters, dhcp : [All -> Servers],
                    at : 0 .. MaxAdapters, fault : BOOLEAN]
      BY Record DEF HostSteps
    <2>2. adapters' >= 1 /\ opening[o].seen \in Nat
      BY <1>1, <1>3, <1>14, Record
    <2> HIDE DEF r
    <2>3. \A i \in All : r.dhcp[i] # "none" => i <= adapters'
      BY <1>3, <1>6, <1>9, <2>1, Record DEF Knows
    <2>4. \A i \in All : r.dhcp[i] = "on" => server'[i] = "on"
      BY <1>8, <2>1, Record DEF Knows
    <2>5. r.seen <= adapters'
      BY <1>3, <1>9, <2>1, <2>2, Record DEF Knows
    <2>6. Fine(o, r)
      BY <2>1, <2>2, <2>3, <2>4, <2>5 DEF Fine
    <2>7. Moves(o, r)
      BY <1>14 DEF r
    <2> QED
      BY <1>2, <1>10, <1>11, <1>12, <2>6, <2>7, OneMoves
  <1> QED
    BY <1>1, <1>13, <1>14

\* A search that starts from what is true ends where its thread is fine.
LEMMA SearchFine ==
    ASSUME HInv, NEW o \in Openings, Grows(o), NEW r, NEW i \in Nat, i >= 1,
           r \in [step : HostSteps, seen : 0 .. MaxAdapters, dhcp : [All -> Servers],
                 at : 0 .. MaxAdapters, fault : BOOLEAN],
           r.seen >= 1, r.seen <= adapters',
           \A k \in All : r.dhcp[k] # "none" => k <= adapters',
           \A k \in All : r.dhcp[k] = "on" => server'[k] = "on",
           r.fault \/ sideBySide' \/ (i = 1 /\ r.dhcp = server'),
           Search(o, r, i)
    PROVE  \E q : Moves(o, q) /\ Fine(o, q)
  <1>1. /\ MaxAdapters \in Nat /\ r.seen \in Nat /\ adapters' \in Nat /\ r.seen <= MaxAdapters
        /\ adapters' <= MaxAdapters
    BY HostAssumption DEF Grows
  <1>2. CASE /\ \A k \in i .. r.seen : r.dhcp[k] = "none"
             /\ Moves(o, [r EXCEPT !.step = "add"])
    <2> DEFINE q == [r EXCEPT !.step = "add"]
    <2>1. /\ q.step = "add" /\ q.seen = r.seen /\ q.dhcp = r.dhcp /\ q.fault = r.fault
          /\ q \in [step : HostSteps, seen : 0 .. MaxAdapters, dhcp : [All -> Servers],
                    at : 0 .. MaxAdapters, fault : BOOLEAN]
      BY DEF HostSteps
    <2>2. i = 1 /\ r.dhcp = server' => server'[1] = "none"
      BY <1>1, <1>2
    <2> HIDE DEF q
    <2>3. Fine(o, q)
      BY <2>1, <2>2 DEF Fine
    <2> QED
      BY <1>2, <2>3 DEF q
  <1>3. ASSUME NEW j \in i .. r.seen, r.dhcp[j] # "none",
               Moves(o, [r EXCEPT !.at = j, !.step = Deal(r.dhcp[j])])
        PROVE  \E q : Moves(o, q) /\ Fine(o, q)
    <2> DEFINE q == [r EXCEPT !.at = j, !.step = Deal(r.dhcp[j])]
    <2>1. j \in All /\ j \in 0 .. MaxAdapters /\ j \in Nat /\ j >= 1 /\ j <= r.seen /\ j \in 1 .. adapters'
      BY <1>1 DEF All
    <2>2. /\ Deal(r.dhcp[j]) \in {"done", "enable", "modify"}
          /\ Deal(r.dhcp[j]) = "done" => r.dhcp[j] = "on"
      BY DEF Deal
    <2>3. /\ q.step = Deal(r.dhcp[j]) /\ q.seen = r.seen /\ q.dhcp = r.dhcp /\ q.fault = r.fault
          /\ q.at = j
          /\ q \in [step : HostSteps, seen : 0 .. MaxAdapters, dhcp : [All -> Servers],
                    at : 0 .. MaxAdapters, fault : BOOLEAN]
      BY <2>1, <2>2 DEF HostSteps
    <2>4. q.step = "done" => \E k \in 1 .. adapters' : server'[k] = "on"
      BY <2>1, <2>2, <2>3
    <2> HIDE DEF q
    <2>5. Fine(o, q)
      BY <2>1, <2>2, <2>3, <2>4 DEF Fine
    <2> QED
      BY <1>3, <2>5 DEF q
  <1> QED
    BY <1>2, <1>3 DEF Search

LEMMA ServersFine == ASSUME HInv, NEW o \in Openings, ListServers(o) PROVE HInv'
  <1>1. /\ Still /\ sideBySide' = sideBySide /\ sideBySide \in BOOLEAN /\ ~Outside(o)
        /\ opening[o].step = "servers"
    BY DEF ListServers, Still, HInv, HostTypeOK, Outside
  <1>2. Grows(o) /\ made' \in 0 .. MaxAdapters /\ made' <= adapters' /\ (made' > 1 => sideBySide')
    BY <1>1, StillGrows
  <1>3. CASE GivesUp(o)
    BY <1>1, <1>2, <1>3, GivingUp, OneMoves DEF GivesUp
  <1>4. CASE Search(o, [opening[o] EXCEPT !.dhcp = server], 1)
    <2> DEFINE r == [opening[o] EXCEPT !.dhcp = server]
    <2>1. /\ r.dhcp = server /\ r.seen = opening[o].seen
          /\ r \in [step : HostSteps, seen : 0 .. MaxAdapters, dhcp : [All -> Servers],
                    at : 0 .. MaxAdapters, fault : BOOLEAN]
      BY Record DEF HInv, HostTypeOK
    <2>2. r.seen >= 1 /\ r.seen <= adapters'
      BY <1>1, <2>1, Record DEF Knows, Still
    <2>3. \A k \in All : r.dhcp[k] # "none" => k <= adapters'
      BY <1>1, <2>1 DEF Still, HInv, Built
    <2>4. r.dhcp = server'
      BY <1>1, <2>1 DEF Still
    <2>5. Search(o, r, 1)
      BY <1>4
    <2> HIDE DEF r
    <2>6. \E q : Moves(o, q) /\ Fine(o, q)
      BY <1>2, <2>1, <2>2, <2>3, <2>4, <2>5, SearchFine
    <2> QED
      BY <1>1, <1>2, <2>6, OneMoves
  <1> QED
    BY <1>3, <1>4 DEF ListServers

\* One server is changed, and not stopped.
LEMMA ServerChanges ==
    ASSUME HInv, NEW o \in Openings, NEW i \in 1 .. adapters, NEW now \in Servers,
           server[i] = "on" => now = "on",
           server' \in {server, [server EXCEPT ![i] = now]},
           adapters' = adapters, made' = made, sideBySide' = sideBySide, ~Outside(o)
    PROVE  Grows(o) /\ made' \in 0 .. MaxAdapters /\ made' <= adapters' /\ (made' > 1 => sideBySide')
  <1>1. adapters \in Nat /\ MaxAdapters \in Nat /\ adapters <= MaxAdapters /\ adapters \in 0 .. MaxAdapters
    BY HostAssumption DEF HInv, HostTypeOK
  <1>2. i \in All
    BY <1>1 DEF All
  <1>3. server' \in [All -> Servers]
    BY DEF HInv, HostTypeOK
  <1>4. \A k \in All : k <= adapters /\ server[k] = "on" => server'[k] = "on"
    BY DEF HInv, HostTypeOK
  <1>5. \A k \in All : server'[k] # "none" => k <= adapters'
    BY <1>1 DEF HInv, HostTypeOK, Built
  <1> QED
    BY <1>1, <1>3, <1>4, <1>5 DEF HInv, HostTypeOK, Grows, Built

\* A thread that goes on to a step about which it need know nothing new.
LEMMA GoesOn ==
    ASSUME HInv, NEW o \in Openings, Grows(o), NEW step,
           \/ step = "failed" /\ sideBySide'
           \/ step = "done" /\ \E i \in 1 .. adapters' : server'[i] = "on"
           \/ step = "enable" /\ opening[o].step = "modify"
    PROVE  Fine(o, [opening[o] EXCEPT !.step = step])
  <1> DEFINE r == [opening[o] EXCEPT !.step = step]
  <1>1. /\ r.step = step /\ r.seen = opening[o].seen /\ r.dhcp = opening[o].dhcp /\ r.at = opening[o].at
        /\ r \in [step : HostSteps, seen : 0 .. MaxAdapters, dhcp : [All -> Servers],
                  at : 0 .. MaxAdapters, fault : BOOLEAN]
    BY Record DEF HostSteps
  <1>2. /\ adapters \in Nat /\ adapters' \in Nat /\ adapters <= adapters' /\ opening[o].seen \in Nat
    BY Record, HostAssumption DEF HInv, HostTypeOK, Grows
  <1>3. \A i \in All : i \in Nat
    BY DEF All
  <1>4. /\ r.seen <= adapters'
        /\ \A i \in All : r.dhcp[i] # "none" => i <= adapters'
        /\ \A i \in All : r.dhcp[i] = "on" => server'[i] = "on"
    BY <1>1, <1>2, <1>3, Record DEF Knows, Grows
  <1> HIDE DEF r
  <1>5. step = "enable" => r.seen >= 1 /\ r.at >= 1 /\ r.at <= r.seen
    BY <1>1, Record DEF Knows
  <1>6. Fine(o, r)
    BY <1>1, <1>4, <1>5 DEF Fine
  <1> QED
    BY <1>6 DEF r

LEMMA PassOverFine ==
    ASSUME HInv, NEW o \in Openings, Grows(o), opening[o].step \in {"modify", "enable"}, PassOver(o)
    PROVE  \E q : Moves(o, q) /\ Fine(o, q)
  <1> DEFINE r == [opening[o] EXCEPT !.fault = TRUE]
  <1>1. /\ r.dhcp = opening[o].dhcp /\ r.seen = opening[o].seen /\ r.fault = TRUE
        /\ r \in [step : HostSteps, seen : 0 .. MaxAdapters, dhcp : [All -> Servers],
                  at : 0 .. MaxAdapters, fault : BOOLEAN]
    BY Record
  <1>2. /\ adapters \in Nat /\ adapters' \in Nat /\ adapters <= adapters' /\ opening[o].seen \in Nat
        /\ opening[o].at \in Nat
    BY Record, HostAssumption DEF HInv, HostTypeOK, Grows
  <1>3. \A i \in All : i \in Nat
    BY DEF All
  <1>4. /\ r.seen >= 1 /\ r.seen <= adapters'
        /\ \A i \in All : r.dhcp[i] # "none" => i <= adapters'
        /\ \A i \in All : r.dhcp[i] = "on" => server'[i] = "on"
    BY <1>1, <1>2, <1>3, Record DEF Knows, Grows
  <1>5. Search(o, r, opening[o].at + 1)
    BY DEF PassOver
  <1>6. opening[o].at + 1 \in Nat /\ opening[o].at + 1 >= 1
    BY <1>2
  <1> HIDE DEF r
  <1> QED
    BY <1>1, <1>4, <1>5, <1>6, SearchFine

LEMMA ModifyFine == ASSUME HInv, NEW o \in Openings, ModifyServer(o) PROVE HInv'
  <1> DEFINE i == opening[o].at
             addressed == IF server[i] = "blank" THEN "off" ELSE server[i]
  <1>1. /\ adapters' = adapters /\ made' = made /\ sideBySide' = sideBySide /\ ~Outside(o)
        /\ opening[o].step = "modify"
    BY DEF ModifyServer, Outside
  <1>2. i \in 1 .. adapters /\ i \in All
    BY <1>1, Record, HostAssumption DEF Knows, HInv, HostTypeOK, All
  <1>3. addressed \in Servers /\ (server[i] = "on" => addressed = "on")
    BY <1>2 DEF HInv, HostTypeOK, Servers
  <1>4. server' \in {server, [server EXCEPT ![i] = addressed]}
    BY DEF ModifyServer, Serves
  <1> HIDE DEF addressed
  <1>5. Grows(o) /\ made' \in 0 .. MaxAdapters /\ made' <= adapters' /\ (made' > 1 => sideBySide')
    BY <1>1, <1>2, <1>3, <1>4, ServerChanges
  <1>6. CASE Onto(o, "enable")
    BY <1>1, <1>5, <1>6, GoesOn, OneMoves DEF Onto
  <1>7. CASE PassOver(o)
    <2>1. \E q : Moves(o, q) /\ Fine(o, q)
      BY <1>1, <1>5, <1>7, PassOverFine
    <2> QED
      BY <1>1, <1>5, <2>1, OneMoves
  <1> QED
    BY <1>6, <1>7 DEF ModifyServer

LEMMA EnableFine == ASSUME HInv, NEW o \in Openings, EnableServer(o) PROVE HInv'
  <1> DEFINE i == opening[o].at
  <1>1. /\ adapters' = adapters /\ made' = made /\ sideBySide' = sideBySide /\ ~Outside(o)
        /\ opening[o].step = "enable"
    BY DEF EnableServer, Outside
  <1>2. i \in 1 .. adapters /\ i \in All
    BY <1>1, Record, HostAssumption DEF Knows, HInv, HostTypeOK, All
  <1>3. server' \in {server, [server EXCEPT ![i] = "on"]}
    BY DEF EnableServer, Serves
  <1>4. Grows(o) /\ made' \in 0 .. MaxAdapters /\ made' <= adapters' /\ (made' > 1 => sideBySide')
    BY <1>1, <1>2, <1>3, ServerChanges DEF Servers
  <1>5. CASE Serves(i, "on") /\ Onto(o, "done")
    <2>1. server'[i] = "on" /\ i \in 1 .. adapters'
      BY <1>1, <1>2, <1>5 DEF Serves, HInv, HostTypeOK
    <2> QED
      BY <1>1, <1>4, <1>5, <2>1, GoesOn, OneMoves DEF Onto
  <1>6. CASE PassOver(o)
    <2>1. \E q : Moves(o, q) /\ Fine(o, q)
      BY <1>1, <1>4, <1>6, PassOverFine
    <2> QED
      BY <1>1, <1>4, <2>1, OneMoves
  <1> QED
    BY <1>5, <1>6 DEF EnableServer

LEMMA AddFine == ASSUME HInv, NEW o \in Openings, AddServer(o) PROVE HInv'
  <1>1. /\ adapters' = adapters /\ made' = made /\ sideBySide' = sideBySide /\ ~Outside(o)
        /\ opening[o].step = "add" /\ opening[o].fault \in BOOLEAN
    BY Record DEF AddServer, Outside
  <1>2. 1 \in 1 .. adapters /\ 1 \in All
    BY <1>1, Record, HostAssumption DEF Knows, HInv, HostTypeOK, All
  <1>3. server' \in {server, [server EXCEPT ![1] = "on"]}
    BY DEF AddServer, Serves
  <1>4. Grows(o) /\ made' \in 0 .. MaxAdapters /\ made' <= adapters' /\ (made' > 1 => sideBySide')
    BY <1>1, <1>2, <1>3, ServerChanges DEF Servers
  <1>5. CASE Serves(1, "on") /\ Onto(o, "done")
    <2>1. server'[1] = "on" /\ 1 \in 1 .. adapters'
      BY <1>1, <1>2, <1>5 DEF Serves, HInv, HostTypeOK
    <2> QED
      BY <1>1, <1>4, <1>5, <2>1, GoesOn, OneMoves DEF Onto
  <1>6. CASE GivesUp(o)
    BY <1>1, <1>4, <1>6, GivingUp, OneMoves DEF GivesUp
  <1>7. CASE server[1] # "none" /\ Onto(o, "failed")
    <2> DEFINE r == [opening[o] EXCEPT !.step = "failed"]
    <2>1. CASE sideBySide
      BY <1>1, <1>4, <1>7, <2>1, GoesOn, OneMoves DEF Onto
    <2>2. CASE opening[o].fault
      <3>1. r = [opening[o] EXCEPT !.step = "failed", !.fault = TRUE]
        BY <2>2, Record
      <3> QED
        BY <1>1, <1>4, <1>7, <3>1, GivingUp, OneMoves DEF Onto
    <2> QED
      BY <1>1, <1>7, <2>1, <2>2, Record DEF Knows
  <1> QED
    BY <1>5, <1>6, <1>7 DEF AddServer

-----------------------------------------------------------------------------

LEMMA HostStill == ASSUME HInv, UNCHANGED hostVars PROVE HInv'
  BY DEF HInv, HostTypeOK, Knows, Alone, Outside, Built, hostVars

LEMMA HostInvariant == HostSpec => []HInv
  <1>1. HInv /\ [HostNext]_hostVars => HInv'
    BY GetFine, ListFine, CreateFine, RelistFine, ServersFine, ModifyFine, EnableFine, AddFine,
       HostStill DEF HostNext
  <1> QED
    BY <1>1, HostInitially, PTL DEF HostSpec

\* The host's interfaces and what each thread knows of them keep their types.
THEOREM HostTypes == HostSpec => []HostTypeOK
  BY HostInvariant, PTL DEF HInv

\* Every session that goes on has an interface that is served somewhere, and none
\* fails or creates a second one unless a command has failed or two sessions
\* have met in getHostOnlyAdapter().
THEOREM AdaptersServed == HostSpec => []AdapterServed
  <1>1. HInv => AdapterServed
    BY DEF HInv, Built, Knows, AdapterServed
  <1> QED
    BY <1>1, HostInvariant, PTL

-----------------------------------------------------------------------------
(***************************************************************************)
(* KeysVouched, for every number of plugin instances, threads and versions *)
(* of the list.  While no two updates have met, the one thread that        *)
(* updates finds the files as it left them, and its instance is not valid; *)
(* a valid instance is not touched before its page is opened again.        *)
(***************************************************************************)

OneUpdate == \A t, u \in Requesters : InUpdate(t) /\ InUpdate(u) => t = u

\* The list in memory that a valid instance, or one about to be, looks up.
Good(crypto) ==
    crypto.domainKeys # Unread /\ (crypto.found \/ crypto.domainKeys \in Whole)

\* What is true of a thread, by where it stands.
Stands(t) ==
    /\ InUpdate(t) => ~Mine(t).valid
    /\ requester[t].step \in {"clear", "read"} =>
          storeFiles.keys # NoFile /\ (Mine(t).found \/ storeFiles.keys \in Whole)
    /\ requester[t].step \in {"stamp", "set"} => Good(Mine(t))
    /\ requester[t].step = "judge" => requester[t].failed \/ Mine(t).valid
    /\ requester[t].step \in {"find", "validate"} => Mine(t).valid
    /\ requester[t].told # "misread"
    /\ requester[t].told = "notValidated" => requester[t].failed
    /\ requester[t].told = "notTrusted" => Mine(t).valid /\ Mine(t).found

Vouched ==
    /\ OneUpdate
    /\ \A p \in Plugins : keystore[p].valid => Good(keystore[p])
    /\ \A t \in Requesters : Stands(t)

KInv == StoreTypeOK /\ (met \/ Vouched)

-----------------------------------------------------------------------------

LEMMA StoreBounds ==
    /\ MaxVersion \in Nat /\ MaxVersion >= 1 /\ 1 \in Whole
    /\ \A v \in Whole : v \in Nat /\ v # NoFile /\ v # Torn /\ v # Unread
    /\ NoFile # Torn /\ Torn # Unread /\ NoFile \in Contents /\ Torn \in Contents /\ Unread \in Contents
    /\ Whole \subseteq Contents
  BY StoreAssumption DEF Whole, NoFile, Torn, Contents, Unread

LEMMA StoreInitially == StoreInit => KInv
  <1> SUFFICES ASSUME StoreInit PROVE KInv
    OBVIOUS
  <1>1. NewCrypto \in Cryptos
    BY StoreBounds DEF NewCrypto, Cryptos
  <1>2. \A t \in Requesters : /\ requester[t] \in RequesterRecords /\ requester[t].step = "rest"
                              /\ requester[t].told = "nothing"
    BY DEF StoreInit
  <1>3. requester \in [Requesters -> RequesterRecords]
    BY DEF StoreInit
  <1>4. keystore \in [Plugins -> Cryptos] /\ \A p \in Plugins : keystore[p].valid = FALSE
    BY <1>1 DEF StoreInit, NewCrypto
  <1>5. StoreTypeOK
    BY <1>3, <1>4, StoreBounds DEF StoreInit, StoreTypeOK
  <1>6. Vouched
    BY <1>2, <1>4 DEF Vouched, OneUpdate, Stands, InUpdate
  <1> QED
    BY <1>5, <1>6 DEF KInv

-----------------------------------------------------------------------------

\* Thread t becomes r, and nobody else moves.
RequesterMoves(t, r) ==
    /\ requester' = [requester EXCEPT ![t] = r]
    /\ r \in RequesterRecords /\ r.plugin = requester[t].plugin

LEMMA ThreadMoves ==
    ASSUME StoreTypeOK, NEW t \in Requesters, NEW r, RequesterMoves(t, r)
    PROVE  /\ requester' \in [Requesters -> RequesterRecords]
           /\ requester'[t] = r
           /\ \A u \in Requesters \ {t} : requester'[u] = requester[u]
  BY DEF StoreTypeOK, RequesterMoves

LEMMA RecordTypes ==
    ASSUME StoreTypeOK, NEW t \in Requesters
    PROVE  /\ requester[t] \in RequesterRecords
           /\ requester[t].plugin \in Plugins
           /\ Mine(t) \in Cryptos
  BY DEF StoreTypeOK, RequesterRecords, Mine

\* The three ways in which a thread's record changes by more than its step.
LEMMA RecordFields ==
    ASSUME NEW q \in RequesterRecords
    PROVE  /\ LET r == [q EXCEPT !.step = "check", !.failed = FALSE, !.told = "nothing"]
              IN  /\ r \in RequesterRecords /\ r.plugin = q.plugin
                  /\ r.step = "check" /\ r.told = "nothing"
           /\ LET r == [q EXCEPT !.step = "judge", !.failed = TRUE]
              IN  /\ r \in RequesterRecords /\ r.plugin = q.plugin /\ r.told = q.told
                  /\ r.step = "judge" /\ r.failed = TRUE
           /\ LET r == [q EXCEPT !.step = "rest", !.failed = FALSE, !.told = "nothing"]
              IN  /\ r \in RequesterRecords /\ r.plugin = q.plugin
                  /\ r.step = "rest" /\ r.told = "nothing"
  BY DEF RequesterRecords, StoreSteps

\* A thread that leaves files and memory alone.
LEMMA LookerMoves ==
    ASSUME KInv, ~met, NEW t \in Requesters, NEW r, RequesterMoves(t, r), UNCHANGED <<storeFiles, keystore>>,
           InUpdate(t)' => InUpdate(t) \/ \A u \in Requesters \ {t} : ~InUpdate(u),
           Stands(t)'
    PROVE  Vouched'
  <1> USE DEF KInv
  <1>1. \A u \in Requesters \ {t} : requester'[u] = requester[u]
    BY ThreadMoves
  <1>2. \A u \in Requesters \ {t} : /\ InUpdate(u)' <=> InUpdate(u)
                                    /\ Stands(u)' <=> Stands(u)
    BY <1>1 DEF InUpdate, Stands, Mine, Good
  <1>3. OneUpdate'
    <2> SUFFICES ASSUME NEW u \in Requesters, NEW v \in Requesters, InUpdate(u)', InUpdate(v)'
                 PROVE  u = v
      BY DEF OneUpdate
    <2> QED
      BY <1>2 DEF Vouched, OneUpdate
  <1>4. \A p \in Plugins : keystore'[p].valid => Good(keystore'[p])
    BY DEF Vouched
  <1> QED
    BY <1>2, <1>3, <1>4 DEF Vouched

\* The thread that updates: the others of its instance have failed, or have not
\* begun, or have been told so.
LEMMA UpdaterMoves ==
    ASSUME KInv, ~met, NEW t \in Requesters, NEW r, RequesterMoves(t, r), InUpdate(t),
           \A p \in Plugins \ {requester[t].plugin} :
              /\ keystore'[p].valid = keystore[p].valid
              /\ keystore'[p].found = keystore[p].found
              /\ keystore'[p].domainKeys = keystore[p].domainKeys,
           Mine(t)'.valid => Good(Mine(t)'),
           Stands(t)'
    PROVE  Vouched'
  <1> USE DEF KInv
  <1> DEFINE mine == requester[t].plugin
  <1>1. \A u \in Requesters \ {t} : requester'[u] = requester[u]
    BY ThreadMoves
  <1>2. \A u \in Requesters \ {t} : ~InUpdate(u)
    BY DEF Vouched, OneUpdate
  <1>3. OneUpdate'
    BY <1>1, <1>2 DEF OneUpdate, InUpdate
  <1>4. mine \in Plugins /\ requester'[t].plugin = mine /\ ~keystore[mine].valid
    BY ThreadMoves, RecordTypes DEF RequesterMoves, Vouched, Stands, Mine
  <1>5. \A p \in Plugins : keystore'[p].valid => Good(keystore'[p])
    BY <1>4 DEF Vouched, Good, Mine
  <1>6. ASSUME NEW u \in Requesters \ {t} PROVE Stands(u)'
    <2>1. Stands(u) /\ requester[u].plugin \in Plugins /\ ~InUpdate(u)
      BY <1>2, RecordTypes DEF Vouched
    <2>2. requester'[u] = requester[u] /\ ~InUpdate(u)' /\ requester[u].step \notin {"clear", "read", "stamp", "set"}
      BY <1>1, <2>1 DEF InUpdate
    <2>3. CASE requester[u].plugin = mine
      BY <1>4, <2>1, <2>2, <2>3 DEF Stands, Mine
    <2>4. CASE requester[u].plugin # mine
      BY <2>1, <2>2, <2>4 DEF Stands, Mine
    <2> QED
      BY <2>3, <2>4
  <1> QED
    BY <1>3, <1>5, <1>6 DEF Vouched

-----------------------------------------------------------------------------
(* One lemma for every action.                                             *)

LEMMA CallFine == ASSUME KInv, NEW t \in Requesters, requestSession(t) PROVE KInv'
  <1> USE DEF KInv
  <1> DEFINE r == [requester[t] EXCEPT !.step = "check", !.failed = FALSE, !.told = "nothing"]
  <1>0. r \in RequesterRecords /\ r.plugin = requester[t].plugin /\ r.step = "check" /\ r.told = "nothing"
    BY RecordTypes, RecordFields
  <1>1. RequesterMoves(t, r) /\ UNCHANGED <<published, storeFiles, keystore, met>>
    BY <1>0 DEF requestSession, RequesterMoves
  <1> HIDE DEF r
  <1>2. StoreTypeOK'
    BY <1>1, ThreadMoves DEF StoreTypeOK
  <1>3. requester'[t].step = "check" /\ requester'[t].told = "nothing"
    BY <1>0, <1>1, ThreadMoves
  <1>4. ~InUpdate(t)' /\ Stands(t)'
    BY <1>3 DEF InUpdate, Stands
  <1> QED
    BY <1>1, <1>2, <1>4, LookerMoves

\* A thread that goes on without a look at files or memory.
LEMMA Going ==
    ASSUME StoreTypeOK, NEW t \in Requesters, NEW from, NEW to \in StoreSteps, StoreGo(t, from, to)
    PROVE  /\ requester[t].step = from
           /\ RequesterMoves(t, [requester[t] EXCEPT !.step = to])
           /\ requester'[t] = [requester[t] EXCEPT !.step = to]
           /\ requester'[t].step = to /\ requester'[t].plugin = requester[t].plugin
           /\ requester'[t].failed = requester[t].failed /\ requester'[t].told = requester[t].told
           /\ requester' \in [Requesters -> RequesterRecords]
  <1>1. RequesterMoves(t, [requester[t] EXCEPT !.step = to]) /\ requester[t].step = from
    BY RecordTypes DEF StoreGo, RequesterMoves, RequesterRecords
  <1> QED
    BY <1>1, ThreadMoves, RecordTypes DEF RequesterRecords

LEMMA CheckFine == ASSUME KInv, NEW t \in Requesters, CheckRecent(t) PROVE KInv'
  <1> USE DEF KInv
  <1> DEFINE to == IF Mine(t).valid THEN "judge" ELSE "invalidate"
  <1>1. to \in StoreSteps /\ StoreGo(t, "check", to) /\ UNCHANGED <<published, storeFiles, keystore>>
    BY DEF CheckRecent, StoreSteps
  <1>2. met' \in BOOLEAN /\ (met => met')
        /\ (~met' => Mine(t).valid \/ \A u \in Requesters \ {t} : ~InUpdate(u))
    BY DEF CheckRecent, StoreTypeOK
  <1> HIDE DEF to
  <1>3. /\ requester[t].step = "check" /\ RequesterMoves(t, [requester[t] EXCEPT !.step = to])
        /\ requester'[t].step = to /\ requester'[t].plugin = requester[t].plugin
        /\ requester'[t].failed = requester[t].failed /\ requester'[t].told = requester[t].told
        /\ requester' \in [Requesters -> RequesterRecords]
    BY <1>1, Going
  <1>4. StoreTypeOK'
    BY <1>1, <1>2, <1>3 DEF StoreTypeOK
  <1>5. ASSUME ~met' PROVE Vouched'
    <2>1. ~met /\ Stands(t)
      BY <1>2, <1>5 DEF Vouched
    <2>2. Mine(t)' = Mine(t)
      BY <1>1, <1>3 DEF Mine
    <2>3. Stands(t)'
      BY <1>3, <2>1, <2>2 DEF Stands, InUpdate, to
    <2>4. InUpdate(t)' => \A u \in Requesters \ {t} : ~InUpdate(u)
      BY <1>2, <1>3, <1>5 DEF InUpdate, to
    <2> QED
      BY <1>1, <1>3, <2>1, <2>3, <2>4, LookerMoves
  <1> QED
    BY <1>4, <1>5

\* Inside the update, and at the judgement of what it left.
LEMMA RecheckFine == ASSUME KInv, NEW t \in Requesters, RecheckFiles(t) PROVE KInv'
  <1> USE DEF KInv
  <1> DEFINE to == IF SignatureFits THEN "clear" ELSE "openKeys"
  <1>1. to \in StoreSteps /\ StoreGo(t, "recheck", to) /\ UNCHANGED <<published, storeFiles, keystore, met>>
    BY DEF RecheckFiles, StoreSteps
  <1> HIDE DEF to
  <1>3. /\ requester[t].step = "recheck" /\ RequesterMoves(t, [requester[t] EXCEPT !.step = to])
        /\ requester'[t].step = to /\ requester'[t].plugin = requester[t].plugin
        /\ requester'[t].failed = requester[t].failed /\ requester'[t].told = requester[t].told
        /\ requester' \in [Requesters -> RequesterRecords]
    BY <1>1, Going
  <1>4. StoreTypeOK'
    BY <1>1, <1>3 DEF StoreTypeOK
  <1>5. ASSUME ~met PROVE Vouched'
    <2>1. Stands(t) /\ Mine(t)' = Mine(t) /\ InUpdate(t)
      BY <1>1, <1>3, <1>5 DEF Vouched, Mine, InUpdate
    <2>2. to \in {"clear", "openKeys"} /\ (to = "clear" => storeFiles.keys \in Whole /\ storeFiles.keys # NoFile)
      BY StoreBounds DEF to, SignatureFits
    <2>3. Stands(t)'
      BY <1>1, <1>3, <2>1, <2>2 DEF Stands, InUpdate
    <2> QED
      BY <1>1, <1>3, <1>5, <2>1, <2>3, LookerMoves
  <1> QED
    BY <1>1, <1>4, <1>5

\* An update that fails: its thread goes on to the judgement.
LEMMA UpdateFailing ==
    ASSUME KInv, NEW t \in Requesters, UpdateFails(t), InUpdate(t), UNCHANGED <<storeFiles, keystore, published, met>>
    PROVE  KInv'
  <1> USE DEF KInv
  <1> DEFINE r == [requester[t] EXCEPT !.step = "judge", !.failed = TRUE]
  <1>0. /\ r \in RequesterRecords /\ r.plugin = requester[t].plugin
        /\ r.step = "judge" /\ r.failed = TRUE /\ r.told = requester[t].told
    BY RecordTypes, RecordFields
  <1>1. RequesterMoves(t, r)
    BY <1>0 DEF UpdateFails, RequesterMoves
  <1> HIDE DEF r
  <1>2. /\ requester'[t].step = "judge" /\ requester'[t].failed = TRUE /\ requester'[t].told = requester[t].told
        /\ requester'[t].plugin = requester[t].plugin
    BY <1>0, <1>1, ThreadMoves
  <1>3. StoreTypeOK'
    BY <1>1, ThreadMoves DEF StoreTypeOK
  <1>4. ASSUME ~met PROVE Vouched'
    <2>1. Stands(t) /\ Mine(t)' = Mine(t)
      BY <1>2, <1>4 DEF Vouched, Mine
    <2>2. Stands(t)'
      BY <1>2, <2>1 DEF Stands, InUpdate
    <2> QED
      BY <1>1, <1>4, <2>2, LookerMoves
  <1> QED
    BY <1>3, <1>4

LEMMA VerifyFine == ASSUME KInv, NEW t \in Requesters, VerifyFiles(t) PROVE KInv'
  <1> USE DEF KInv
  <1>1. CASE SignatureFits
    <2>1. "clear" \in StoreSteps /\ StoreGo(t, "verify", "clear") /\ UNCHANGED <<published, storeFiles, keystore, met>>
      BY <1>1 DEF VerifyFiles, StoreSteps
    <2>2. /\ requester[t].step = "verify" /\ RequesterMoves(t, [requester[t] EXCEPT !.step = "clear"])
          /\ requester'[t].step = "clear" /\ requester'[t].plugin = requester[t].plugin
          /\ requester'[t].failed = requester[t].failed /\ requester'[t].told = requester[t].told
          /\ requester' \in [Requesters -> RequesterRecords]
      BY <2>1, Going
    <2>3. StoreTypeOK'
      BY <2>1, <2>2 DEF StoreTypeOK
    <2>4. ASSUME ~met PROVE Vouched'
      <3>1. Stands(t) /\ Mine(t)' = Mine(t) /\ InUpdate(t)
        BY <2>1, <2>2, <2>4 DEF Vouched, Mine, InUpdate
      <3>2. storeFiles.keys \in Whole /\ storeFiles.keys # NoFile
        BY <1>1, StoreBounds DEF SignatureFits
      <3>3. Stands(t)'
        BY <2>1, <2>2, <3>1, <3>2 DEF Stands, InUpdate
      <3> QED
        BY <2>1, <2>2, <2>4, <3>1, <3>3, LookerMoves
    <2> QED
      BY <2>1, <2>3, <2>4
  <1>2. CASE ~SignatureFits
    BY <1>2, UpdateFailing DEF VerifyFiles, InUpdate
  <1> QED
    BY <1>1, <1>2

-----------------------------------------------------------------------------
(* The steps of an update that change the list in memory.                  *)

\* What the thread that updates leaves behind when it goes on: c in memory,
\* content in the file.
Fits(c, to, content) ==
    /\ c.valid => Good(c) /\ to = "judge"
    /\ to = "judge" => c.valid
    /\ to \in {"clear", "read"} => content # NoFile /\ (c.found \/ content \in Whole)
    /\ to \in {"stamp", "set"} => Good(c)

UpdateSteps == {"invalidate", "look", "recheck", "openKeys", "getKeys", "openSig",
                "getSig", "verify", "clear", "read", "stamp", "set"}

LEMMA UpdateGoes ==
    ASSUME KInv, NEW t \in Requesters, NEW from \in UpdateSteps, NEW to \in UpdateSteps \cup {"judge"},
           StoreGo(t, from, to), NEW c \in Cryptos, SetCrypto(t, c),
           UNCHANGED <<published, storeFiles, met>>,
           ~met => Fits(c, to, storeFiles.keys)
    PROVE  KInv'
  <1> USE DEF KInv
  <1>1. to \in StoreSteps /\ from # "rest"
    BY DEF UpdateSteps, StoreSteps
  <1>2. /\ requester[t].step = from /\ RequesterMoves(t, [requester[t] EXCEPT !.step = to])
        /\ requester'[t].step = to /\ requester'[t].plugin = requester[t].plugin
        /\ requester'[t].failed = requester[t].failed /\ requester'[t].told = requester[t].told
        /\ requester' \in [Requesters -> RequesterRecords]
    BY <1>1, Going
  <1>3. requester[t].plugin \in Plugins /\ keystore \in [Plugins -> Cryptos]
    BY RecordTypes DEF StoreTypeOK
  <1>4. /\ keystore' \in [Plugins -> Cryptos]
        /\ keystore'[requester[t].plugin] = c
        /\ \A p \in Plugins \ {requester[t].plugin} : keystore'[p] = keystore[p]
    BY <1>3 DEF SetCrypto
  <1>5. StoreTypeOK'
    BY <1>2, <1>4 DEF StoreTypeOK
  <1>6. ASSUME ~met PROVE Vouched'
    <2>1. InUpdate(t) /\ Stands(t) /\ ~Mine(t).valid /\ requester[t].told # "notTrusted"
      BY <1>2, <1>6 DEF Vouched, Stands, InUpdate, UpdateSteps
    <2>2. Mine(t)' = c
      BY <1>2, <1>4 DEF Mine
    <2>3. Fits(c, to, storeFiles.keys)
      BY <1>6
    <2>4. Stands(t)'
      BY <1>2, <2>1, <2>2, <2>3 DEF Stands, Fits, InUpdate, UpdateSteps
    <2>5. Mine(t)'.valid => Good(Mine(t)')
      BY <2>2, <2>3 DEF Fits
    <2> QED
      BY <1>2, <1>4, <1>6, <2>1, <2>4, <2>5, UpdaterMoves
  <1> QED
    BY <1>5, <1>6

LEMMA InvalidateFine == ASSUME KInv, NEW t \in Requesters, Invalidate(t) PROVE KInv'
  <1> DEFINE c == [Mine(t) EXCEPT !.valid = FALSE]
  <1>1. c \in Cryptos /\ c.valid = FALSE
    BY RecordTypes DEF KInv, Cryptos
  <1>2. "invalidate" \in UpdateSteps /\ "look" \in UpdateSteps
    BY DEF UpdateSteps
  <1>3. StoreGo(t, "invalidate", "look") /\ SetCrypto(t, c) /\ UNCHANGED <<published, storeFiles, met>>
    BY DEF Invalidate
  <1> HIDE DEF c
  <1>4. Fits(c, "look", storeFiles.keys)
    BY <1>1 DEF Fits
  <1> QED
    BY <1>1, <1>2, <1>3, <1>4, UpdateGoes

\* The instance of a thread that updates is not valid.
LEMMA Updating ==
    ASSUME KInv, ~met, NEW t \in Requesters, requester[t].step \in UpdateSteps
    PROVE  ~Mine(t).valid /\ Stands(t) /\ InUpdate(t)
  BY DEF KInv, Vouched, Stands, InUpdate, UpdateSteps

LEMMA LookFine == ASSUME KInv, NEW t \in Requesters, LookAtFiles(t) PROVE KInv'
  <1> DEFINE young == storeFiles.keys # NoFile /\ storeFiles.signature # NoFile /\ storeFiles.fresh
             changed == Mine(t).keystoreTimestamp = "other"
             to == IF ~young THEN "openKeys" ELSE IF changed THEN "recheck" ELSE "clear"
             c == [Mine(t) EXCEPT !.found = young /\ ~changed]
  <1>1. c \in Cryptos /\ c.valid = Mine(t).valid /\ c.found = (young /\ ~changed)
    BY RecordTypes DEF KInv, Cryptos
  <1>2. "look" \in UpdateSteps /\ to \in UpdateSteps \cup {"judge"}
    BY DEF UpdateSteps
  <1>3. StoreGo(t, "look", to) /\ SetCrypto(t, c) /\ UNCHANGED <<published, storeFiles, met>>
    BY DEF LookAtFiles
  <1>4. to \in {"openKeys", "recheck", "clear"} /\ (to = "clear" => young /\ ~changed)
    OBVIOUS
  <1>5. young => storeFiles.keys # NoFile
    OBVIOUS
  <1> HIDE DEF c, to, young, changed
  <1>6. ASSUME ~met PROVE Fits(c, to, storeFiles.keys)
    <2>1. ~Mine(t).valid
      BY <1>2, <1>3, <1>6, Updating DEF StoreGo
    <2> QED
      BY <1>1, <1>4, <1>5, <2>1 DEF Fits
  <1> QED
    BY <1>1, <1>2, <1>3, <1>6, UpdateGoes

LEMMA ClearFine == ASSUME KInv, NEW t \in Requesters, ClearMap(t) PROVE KInv'
  <1> DEFINE c == [Mine(t) EXCEPT !.domainKeys = Unread]
  <1>1. c \in Cryptos /\ c.valid = Mine(t).valid /\ c.found = Mine(t).found
    BY RecordTypes, StoreBounds DEF KInv, Cryptos
  <1>2. "clear" \in UpdateSteps /\ "read" \in UpdateSteps
    BY DEF UpdateSteps
  <1>3. StoreGo(t, "clear", "read") /\ SetCrypto(t, c) /\ UNCHANGED <<published, storeFiles, met>>
    BY DEF ClearMap
  <1> HIDE DEF c
  <1>4. ASSUME ~met PROVE Fits(c, "read", storeFiles.keys)
    <2>1. requester[t].step = "clear"
      BY <1>3 DEF StoreGo
    <2>2. ~Mine(t).valid /\ Stands(t)
      BY <1>2, <1>4, <2>1, Updating
    <2> QED
      BY <1>1, <2>1, <2>2 DEF Fits, Stands
  <1> QED
    BY <1>1, <1>2, <1>3, <1>4, UpdateGoes

LEMMA ReadFine == ASSUME KInv, NEW t \in Requesters, ReadMap(t) PROVE KInv'
  <1> DEFINE c == [Mine(t) EXCEPT !.domainKeys = storeFiles.keys]
  <1>1. /\ c \in Cryptos /\ c.valid = Mine(t).valid /\ c.found = Mine(t).found
        /\ c.domainKeys = storeFiles.keys
    BY RecordTypes DEF KInv, Cryptos, StoreTypeOK
  <1>2. "read" \in UpdateSteps /\ "stamp" \in UpdateSteps
    BY DEF UpdateSteps
  <1>3. StoreGo(t, "read", "stamp") /\ SetCrypto(t, c) /\ UNCHANGED <<published, storeFiles, met>>
    BY DEF ReadMap
  <1> HIDE DEF c
  <1>4. ASSUME ~met PROVE Fits(c, "stamp", storeFiles.keys)
    <2>1. requester[t].step = "read"
      BY <1>3 DEF StoreGo
    <2>2. ~Mine(t).valid /\ Stands(t)
      BY <1>2, <1>4, <2>1, Updating
    <2>3. storeFiles.keys # NoFile /\ (Mine(t).found \/ storeFiles.keys \in Whole)
      BY <2>1, <2>2 DEF Stands
    <2> QED
      BY <1>1, <2>2, <2>3 DEF Fits, Good, Unread
  <1> QED
    BY <1>1, <1>2, <1>3, <1>4, UpdateGoes

LEMMA StampFine == ASSUME KInv, NEW t \in Requesters, StampMap(t) PROVE KInv'
  <1> DEFINE c == [Mine(t) EXCEPT !.keystoreTimestamp = "same"]
  <1>1. /\ c \in Cryptos /\ c.valid = Mine(t).valid /\ c.found = Mine(t).found
        /\ c.domainKeys = Mine(t).domainKeys
    BY RecordTypes DEF KInv, Cryptos
  <1>2. "stamp" \in UpdateSteps /\ "set" \in UpdateSteps
    BY DEF UpdateSteps
  <1>3. StoreGo(t, "stamp", "set") /\ SetCrypto(t, c) /\ UNCHANGED <<published, storeFiles, met>>
    BY DEF StampMap
  <1> HIDE DEF c
  <1>4. ASSUME ~met PROVE Fits(c, "set", storeFiles.keys)
    <2>1. requester[t].step = "stamp"
      BY <1>3 DEF StoreGo
    <2>2. ~Mine(t).valid /\ Stands(t)
      BY <1>2, <1>4, <2>1, Updating
    <2> QED
      BY <1>1, <2>1, <2>2 DEF Fits, Good, Stands
  <1> QED
    BY <1>1, <1>2, <1>3, <1>4, UpdateGoes

LEMMA MarkFine == ASSUME KInv, NEW t \in Requesters, MarkValid(t) PROVE KInv'
  <1> DEFINE c == [Mine(t) EXCEPT !.valid = TRUE]
  <1>1. /\ c \in Cryptos /\ c.valid = TRUE /\ c.found = Mine(t).found
        /\ c.domainKeys = Mine(t).domainKeys
    BY RecordTypes DEF KInv, Cryptos
  <1>2. "set" \in UpdateSteps
    BY DEF UpdateSteps
  <1>3. StoreGo(t, "set", "judge") /\ SetCrypto(t, c) /\ UNCHANGED <<published, storeFiles, met>>
    BY DEF MarkValid
  <1> HIDE DEF c
  <1>4. ASSUME ~met PROVE Fits(c, "judge", storeFiles.keys)
    <2>1. requester[t].step = "set"
      BY <1>3 DEF StoreGo
    <2>2. Stands(t)
      BY <1>2, <1>4, <2>1, Updating
    <2> QED
      BY <1>1, <2>1, <2>2 DEF Fits, Good, Stands
  <1> QED
    BY <1>1, <1>2, <1>3, <1>4, UpdateGoes

-----------------------------------------------------------------------------
(* The steps of an update that change the files.                           *)

LEMMA FilesChange ==
    ASSUME KInv, NEW t \in Requesters, NEW from \in UpdateSteps,
           NEW to \in {"getKeys", "openSig", "getSig", "verify"}, StoreGo(t, from, to),
           storeFiles' \in [keys : Contents, signature : Contents, fresh : BOOLEAN],
           keystore' \in [Plugins -> Cryptos],
           \A p \in Plugins : /\ keystore'[p].valid = keystore[p].valid
                              /\ keystore'[p].found = keystore[p].found
                              /\ keystore'[p].domainKeys = keystore[p].domainKeys,
           UNCHANGED <<published, met>>
    PROVE  KInv'
  <1> USE DEF KInv
  <1>1. to \in StoreSteps
    BY DEF StoreSteps
  <1>2. /\ requester[t].step = from /\ RequesterMoves(t, [requester[t] EXCEPT !.step = to])
        /\ requester'[t].step = to /\ requester'[t].plugin = requester[t].plugin
        /\ requester'[t].failed = requester[t].failed /\ requester'[t].told = requester[t].told
        /\ requester' \in [Requesters -> RequesterRecords]
    BY <1>1, Going
  <1>3. requester[t].plugin \in Plugins
    BY RecordTypes
  <1>4. StoreTypeOK'
    BY <1>2 DEF StoreTypeOK
  <1>5. ASSUME ~met PROVE Vouched'
    <2>1. InUpdate(t) /\ Stands(t) /\ ~Mine(t).valid /\ requester[t].told # "notTrusted"
      BY <1>2, <1>5, Updating DEF Stands
    <2>2. Mine(t)'.valid = Mine(t).valid
      BY <1>2, <1>3 DEF Mine
    <2>3. Stands(t)'
      BY <1>2, <2>1, <2>2 DEF Stands, InUpdate
    <2> QED
      BY <1>2, <1>5, <2>1, <2>2, <2>3, UpdaterMoves
  <1> QED
    BY <1>4, <1>5

LEMMA StoreWritten ==
    ASSUME StoreTypeOK, NEW content \in Contents, KeysWritten(content)
    PROVE  /\ storeFiles' \in [keys : Contents, signature : Contents, fresh : BOOLEAN]
           /\ keystore' \in [Plugins -> Cryptos]
           /\ \A p \in Plugins : /\ keystore'[p].valid = keystore[p].valid
                                 /\ keystore'[p].found = keystore[p].found
                                 /\ keystore'[p].domainKeys = keystore[p].domainKeys
  <1>1. storeFiles' \in [keys : Contents, signature : Contents, fresh : BOOLEAN]
    BY DEF KeysWritten, StoreTypeOK
  <1>2. PICK sameSecond \in BOOLEAN :
           keystore' = [p \in Plugins |->
              IF keystore[p].keystoreTimestamp = "same" /\ ~sameSecond
              THEN [keystore[p] EXCEPT !.keystoreTimestamp = "other"] ELSE keystore[p]]
    BY DEF KeysWritten
  <1>3. ASSUME NEW k \in Cryptos
        PROVE  LET o == [k EXCEPT !.keystoreTimestamp = "other"]
               IN  o \in Cryptos /\ o.valid = k.valid /\ o.found = k.found /\ o.domainKeys = k.domainKeys
    BY DEF Cryptos
  <1>4. \A p \in Plugins : keystore[p] \in Cryptos
    BY DEF StoreTypeOK
  <1> QED
    BY <1>1, <1>2, <1>3, <1>4

LEMMA OpenKeysFine == ASSUME KInv, NEW t \in Requesters, OpenKeys(t) PROVE KInv'
  <1>1. CASE KeysWritten(Torn) /\ StoreGo(t, "openKeys", "getKeys")
    BY <1>1, StoreWritten, FilesChange, StoreBounds DEF OpenKeys, UpdateSteps, KInv
  <1>2. CASE UpdateFails(t) /\ UNCHANGED <<storeFiles, keystore>>
    BY <1>2, UpdateFailing DEF OpenKeys, InUpdate
  <1> QED
    BY <1>1, <1>2 DEF OpenKeys

LEMMA GetKeysFine == ASSUME KInv, NEW t \in Requesters, GetKeys(t) PROVE KInv'
  <1>1. PICK content \in {published, Torn} : KeysWritten(content)
    BY DEF GetKeys
  <1>2. content \in Contents
    BY StoreBounds DEF KInv, StoreTypeOK
  <1> QED
    BY <1>1, <1>2, StoreWritten, FilesChange DEF GetKeys, UpdateSteps, KInv

LEMMA SignatureChanges ==
    ASSUME KInv, NEW t \in Requesters, NEW content \in {published, Torn},
           storeFiles' = [storeFiles EXCEPT !.signature = content],
           UNCHANGED <<published, keystore, met>>,
           StoreGo(t, "openSig", "getSig") \/ StoreGo(t, "getSig", "verify")
    PROVE  KInv'
  <1>1. content \in Contents
    BY StoreBounds DEF KInv, StoreTypeOK
  <1>2. storeFiles' \in [keys : Contents, signature : Contents, fresh : BOOLEAN]
    BY <1>1 DEF KInv, StoreTypeOK
  <1>3. keystore' \in [Plugins -> Cryptos]
    BY DEF KInv, StoreTypeOK
  <1> QED
    BY <1>2, <1>3, FilesChange DEF UpdateSteps

LEMMA SignatureFine ==
    ASSUME KInv, NEW t \in Requesters, OpenSignature(t) \/ GetSignature(t)
    PROVE  KInv'
  <1>1. CASE OpenSignature(t) /\ ~UpdateFails(t)
    BY <1>1, SignatureChanges DEF OpenSignature
  <1>2. CASE OpenSignature(t) /\ UpdateFails(t)
    <2>1. CASE UNCHANGED storeFiles
      BY <1>2, <2>1, UpdateFailing DEF OpenSignature, InUpdate
    <2>2. CASE StoreGo(t, "openSig", "getSig") /\ storeFiles' = [storeFiles EXCEPT !.signature = Torn]
      BY <1>2, <2>2, SignatureChanges DEF OpenSignature
    <2> QED
      BY <1>2, <2>1, <2>2 DEF OpenSignature
  <1>3. CASE GetSignature(t)
    BY <1>3, SignatureChanges DEF GetSignature
  <1> QED
    BY <1>1, <1>2, <1>3

-----------------------------------------------------------------------------
(* The thread that looks the domain up, and what happens around it.        *)

\* A thread that ends its request, or goes on, while memory stays as it is.
LEMMA Judging ==
    ASSUME KInv, NEW t \in Requesters, NEW r, RequesterMoves(t, r), UNCHANGED <<published, storeFiles, keystore, met>>,
           ~met => Mine(t).valid \/ requester[t].failed,
           \/ /\ r.step \in {"find", "validate"} /\ Mine(t).valid
              /\ r.told = requester[t].told /\ r.failed = requester[t].failed
           \/ r.step = "rest" /\ r.told = "trusted"
           \/ r.step = "rest" /\ r.told = "notValidated" /\ ~Mine(t).valid /\ r.failed = requester[t].failed
           \/ /\ r.step = "rest" /\ r.told = "notTrusted"
              /\ ~met => Mine(t).valid /\ Mine(t).found
           \/ r.step = "rest" /\ r.told = "misread" /\ met
    PROVE  KInv'
  <1> USE DEF KInv
  <1>1. requester'[t] = r /\ requester' \in [Requesters -> RequesterRecords] /\ r.plugin = requester[t].plugin
    BY ThreadMoves DEF RequesterMoves
  <1>2. StoreTypeOK'
    BY <1>1 DEF StoreTypeOK
  <1>3. ASSUME ~met PROVE Vouched'
    <2>1. Stands(t) /\ Mine(t)' = Mine(t)
      BY <1>1, <1>3 DEF Vouched, Mine
    <2>2. ~InUpdate(t)'
      BY <1>1 DEF InUpdate
    <2>3. Stands(t)'
      BY <1>1, <1>3, <2>1, <2>2 DEF Stands
    <2> QED
      BY <1>3, <2>2, <2>3, LookerMoves
  <1> QED
    BY <1>2, <1>3

LEMMA Telling ==
    ASSUME StoreTypeOK, NEW t \in Requesters,
           NEW word \in {"nothing", "trusted", "notValidated", "notTrusted", "misread"}, Tells(t, word)
    PROVE  \E r : RequesterMoves(t, r) /\ r.step = "rest" /\ r.told = word /\ r.failed = requester[t].failed
  <1> DEFINE q == requester[t]
             r == [q EXCEPT !.step = "rest", !.told = word]
  <1>1. q \in RequesterRecords
    BY RecordTypes
  <1>2. requester' = [requester EXCEPT ![t] = r]
    BY DEF Tells, Told
  <1> HIDE DEF q
  <1>3. r \in RequesterRecords /\ r.plugin = q.plugin /\ r.failed = q.failed /\ r.step = "rest" /\ r.told = word
    BY <1>1 DEF RequesterRecords, StoreSteps
  <1> HIDE DEF r
  <1> QED
    BY <1>2, <1>3 DEF RequesterMoves, q

LEMMA JudgeStoreFine == ASSUME KInv, NEW t \in Requesters, JudgeStore(t) PROVE KInv'
  <1>1. requester[t].step = "judge" /\ UNCHANGED <<published, storeFiles, keystore, met>>
    BY DEF JudgeStore
  <1>2. ~met => Mine(t).valid \/ requester[t].failed
    BY <1>1 DEF KInv, Vouched, Stands
  <1>3. CASE Mine(t).valid
    <2>1. StoreGo(t, "judge", "find") /\ "find" \in StoreSteps
      BY <1>3 DEF JudgeStore, StoreSteps
    <2> DEFINE r == [requester[t] EXCEPT !.step = "find"]
    <2>2. RequesterMoves(t, r) /\ requester'[t] = r /\ requester'[t].step = "find"
          /\ requester'[t].told = requester[t].told /\ requester'[t].failed = requester[t].failed
      BY <2>1, Going DEF KInv
    <2> HIDE DEF r
    <2> QED
      BY <1>1, <1>2, <1>3, <2>2, Judging
  <1>4. CASE ~Mine(t).valid
    <2>1. Tells(t, "notValidated")
      BY <1>4 DEF JudgeStore
    <2>2. PICK r : /\ RequesterMoves(t, r) /\ r.step = "rest" /\ r.told = "notValidated"
                   /\ r.failed = requester[t].failed
      BY <2>1, Telling DEF KInv
    <2> QED
      BY <1>1, <1>2, <1>4, <2>2, Judging
  <1> QED
    BY <1>3, <1>4

\* What a lookup may say, besides that the domain is there.
LEMMA LookupTells ==
    ASSUME KInv, NEW t \in Requesters, requester[t].step \in {"find", "validate"},
           UNCHANGED <<published, storeFiles, keystore, met>>,
           \/ Tells(t, "trusted")
           \/ Mine(t).domainKeys = Torn /\ Tells(t, "notTrusted")
           \/ Mine(t).domainKeys = Unread /\ Tells(t, "misread")
    PROVE  KInv'
  <1>1. ASSUME ~met PROVE Mine(t).valid /\ Good(Mine(t))
    BY <1>1, RecordTypes DEF KInv, Vouched, Stands, Mine
  <1>2. ASSUME NEW word \in {"trusted", "notTrusted", "misread"}, Tells(t, word),
               ~met => word = "trusted" \/ (word = "notTrusted" /\ Mine(t).found),
               word = "misread" => met
        PROVE  KInv'
    <2>1. PICK r : RequesterMoves(t, r) /\ r.step = "rest" /\ r.told = word
      BY <1>2, Telling DEF KInv
    <2> QED
      BY <1>1, <1>2, <2>1, Judging
  <1>3. ASSUME ~met PROVE /\ Mine(t).domainKeys # Unread
                          /\ Mine(t).domainKeys = Torn => Mine(t).found
    BY <1>1, <1>3, StoreBounds DEF Good
  <1> QED
    BY <1>2, <1>3

LEMMA FindDomainFine == ASSUME KInv, NEW t \in Requesters, FindDomain(t) PROVE KInv'
  <1>1. requester[t].step = "find" /\ UNCHANGED <<published, storeFiles, keystore, met>>
    BY DEF FindDomain
  <1>2. CASE requester' = [requester EXCEPT ![t].step = "validate"]
             /\ Mine(t).domainKeys \in Whole \cup {Torn}
    <2>1. StoreGo(t, "find", "validate") /\ "validate" \in StoreSteps
      BY <1>1, <1>2 DEF StoreGo, StoreSteps
    <2> DEFINE r == [requester[t] EXCEPT !.step = "validate"]
    <2>2. RequesterMoves(t, r) /\ requester'[t] = r /\ requester'[t].step = "validate"
          /\ requester'[t].told = requester[t].told /\ requester'[t].failed = requester[t].failed
      BY <2>1, Going DEF KInv
    <2> HIDE DEF r
    <2>3. CASE met
      <3>1. requester' \in [Requesters -> RequesterRecords]
        BY <2>2, ThreadMoves DEF KInv
      <3> QED
        BY <1>1, <2>3, <3>1 DEF KInv, StoreTypeOK
    <2>4. CASE ~met
      <3>1. Mine(t).valid
        BY <1>1, <2>4 DEF KInv, Vouched, Stands
      <3> QED
        BY <1>1, <2>2, <3>1, Judging
    <2> QED
      BY <2>3, <2>4
  <1>3. CASE \/ Mine(t).domainKeys = Torn /\ Tells(t, "notTrusted")
             \/ Mine(t).domainKeys = Unread /\ Tells(t, "misread")
    BY <1>1, <1>3, LookupTells
  <1> QED
    BY <1>2, <1>3 DEF FindDomain, Lookup

LEMMA ValidateFine == ASSUME KInv, NEW t \in Requesters, ValidateData(t) PROVE KInv'
  <1>1. requester[t].step = "validate" /\ UNCHANGED <<published, storeFiles, keystore, met>>
    BY DEF ValidateData
  <1> QED
    BY <1>1, LookupTells DEF ValidateData, Lookup, Tells

\* The list and its age are nobody's memory.
LEMMA WorldFine == ASSUME KInv, PublishList \/ DayPasses \/ UNCHANGED storeVars PROVE KInv'
  <1>1. UNCHANGED <<keystore, requester, met>> /\ storeFiles'.keys = storeFiles.keys
    BY DEF PublishList, DayPasses, storeVars, KInv, StoreTypeOK
  <1>2. published' \in Whole
    BY StoreBounds DEF PublishList, DayPasses, storeVars, KInv, StoreTypeOK, Whole
  <1>2a. storeFiles' \in [keys : Contents, signature : Contents, fresh : BOOLEAN]
    BY DEF PublishList, DayPasses, storeVars, KInv, StoreTypeOK
  <1>3. StoreTypeOK'
    BY <1>1, <1>2, <1>2a DEF KInv, StoreTypeOK
  <1>4. Vouched => Vouched'
    BY <1>1 DEF Vouched, OneUpdate, InUpdate, Stands, Mine, Good
  <1> QED
    BY <1>1, <1>3, <1>4 DEF KInv

LEMMA ReopenFine == ASSUME KInv, NEW p \in Plugins, Reopen(p) PROVE KInv'
  <1> USE DEF KInv
  <1>1. NewCrypto \in Cryptos /\ NewCrypto.valid = FALSE
    BY StoreBounds DEF NewCrypto, Cryptos
  <1>2. /\ keystore' \in [Plugins -> Cryptos]
        /\ keystore'[p] = NewCrypto
        /\ \A q \in Plugins \ {p} : keystore'[q] = keystore[q]
    BY <1>1 DEF Reopen, StoreTypeOK
  <1>3. ASSUME NEW t \in Requesters
        PROVE  /\ requester'[t] \in RequesterRecords
               /\ requester'[t].plugin = requester[t].plugin
               /\ requester[t].plugin # p => requester'[t] = requester[t]
               /\ requester[t].plugin = p => requester'[t].step = "rest" /\ requester'[t].told = "nothing"
    BY RecordTypes, RecordFields DEF Reopen
  <1>4. requester' = [t \in Requesters |-> requester'[t]]
    BY DEF Reopen
  <1>5. requester' \in [Requesters -> RequesterRecords]
    BY <1>3, <1>4
  <1>6. StoreTypeOK'
    BY <1>2, <1>5 DEF Reopen, StoreTypeOK
  <1>7. ASSUME Vouched PROVE Vouched'
    <2>1. \A t \in Requesters : InUpdate(t)' => InUpdate(t)
      BY <1>3 DEF InUpdate
    <2>2. OneUpdate'
      BY <1>7, <2>1 DEF Vouched, OneUpdate
    <2>3. \A q \in Plugins : keystore'[q].valid => Good(keystore'[q])
      BY <1>1, <1>2, <1>7 DEF Vouched
    <2>4. ASSUME NEW t \in Requesters PROVE Stands(t)'
      <3>1. CASE requester[t].plugin = p
        BY <1>3, <3>1 DEF Stands, InUpdate
      <3>2. CASE requester[t].plugin # p
        <4>1. Mine(t)' = Mine(t) /\ requester'[t] = requester[t] /\ storeFiles' = storeFiles /\ Stands(t)
          BY <1>2, <1>3, <1>7, <3>2, RecordTypes DEF Mine, Reopen, Vouched
        <4> QED
          BY <4>1 DEF Stands, InUpdate
      <3> QED
        BY <3>1, <3>2
    <2> QED
      BY <2>2, <2>3, <2>4 DEF Vouched
  <1> QED
    BY <1>6, <1>7 DEF Reopen

-----------------------------------------------------------------------------

LEMMA StoreInvariant == StoreSpec => []KInv
  <1>1. KInv /\ [StoreNext]_storeVars => KInv'
    <2> SUFFICES ASSUME KInv, [StoreNext]_storeVars PROVE KInv'
      OBVIOUS
    <2>1. CASE PublishList \/ DayPasses \/ UNCHANGED storeVars
      BY <2>1, WorldFine
    <2>2. CASE \E p \in Plugins : Reopen(p)
      BY <2>2, ReopenFine
    <2>3. ASSUME NEW t \in Requesters, InRequest(t) PROVE KInv'
      BY <2>3, CallFine, CheckFine, InvalidateFine, LookFine, RecheckFine, OpenKeysFine, GetKeysFine,
         SignatureFine, VerifyFine, ClearFine, ReadFine, StampFine, MarkFine, JudgeStoreFine, FindDomainFine,
         ValidateFine
         DEF InRequest
    <2> QED
      BY <2>1, <2>2, <2>3 DEF StoreNext
  <1> QED
    BY <1>1, StoreInitially, PTL DEF StoreSpec

\* Fields of the key store's files, of the instances and of the threads keep
\* their types.
THEOREM StoreTypes == StoreSpec => []StoreTypeOK
  <1>1. KInv => StoreTypeOK
    BY DEF KInv
  <1> QED
    BY <1>1, StoreInvariant, PTL

\* While no two updates of the list meet, a list in use had its signature looked
\* at, unless it was found young, and a page of a listed domain is refused only
\* after its own update has failed or with such a list: for any number of
\* instances that share the files, any number of threads, and however often the
\* list is published and pages are opened again.
THEOREM KeysAreVouched == StoreSpec => []KeysVouched
  <1>1. KInv => KeysVouched
    BY DEF KInv, Vouched, Stands, Good, KeysVouched
  <1> QED
    BY <1>1, StoreInvariant, PTL

-----------------------------------------------------------------------------
(***************************************************************************)
(* SettingsKept, for every number of pages, ids and idle-times.  As long   *)
(* as processes have not met in the file, one at most writes it; its map   *)
(* takes back nothing, because the file held what it had read; and every   *)
(* page that has an id has the one of the file, or of the process that is  *)
(* writing it.                                                             *)
(***************************************************************************)

ProcessRecords == [step : {"off", "on", "truncate", "idle", "id"}, globalConfig : Configs, seen : Configs]

\* All that were used, and all that pages have read, is this id.
Agrees(h, id) ==
    /\ h.used \subseteq {id}
    /\ \A p \in Pages : process[p].step = "on" => process[p].globalConfig.id \in {0, id}

\* A process that does not write has what it read, but for the key it sets.
Copies(p) ==
    /\ p \in Pages =>
          /\ process[p].step = "on" => process[p].globalConfig = process[p].seen
          /\ process[p].step = "truncate" =>
                process[p].seen.id = 0 /\ process[p].globalConfig.idle = process[p].seen.idle
    /\ p = TheDaemon /\ process[p].step \in {"on", "truncate"} =>
          process[p].globalConfig.id = process[p].seen.id

\* What a process that writes will leave, and what it has written.
Writing(h, w) ==
    /\ Agrees(h, process[w].globalConfig.id)
    /\ w \in Pages => process[w].globalConfig.idle = h.idle
    /\ process[w].step = "idle" => confFile = NoKeys
    /\ process[w].step = "id" => confFile = [id |-> 0, idle |-> process[w].globalConfig.idle]

Settled(h) ==
    /\ tornFile = FALSE
    /\ \A p, q \in Writers : p = q
    /\ \A p \in Processes : Copies(p)
    /\ Writers = {} => Agrees(h, confFile.id) /\ confFile.idle = h.idle
    /\ \A w \in Writers : Writing(h, w)

CInv == ConfigTypeOK /\ \A h \in kept : Settled(h)

-----------------------------------------------------------------------------

LEMMA ConfigBounds ==
    /\ NoKeys \in Configs /\ NoKeys.id = 0 /\ NoKeys.idle = 0
    /\ 0 \in 0 .. MaxIds /\ 0 \in 0 .. MaxIdle /\ 1 \in 0 .. MaxIdle /\ 0 \notin 1 .. MaxIds
    /\ TheDaemon \in Processes /\ TheDaemon \notin Pages /\ Pages \subseteq Processes
    /\ \A n \in 1 .. MaxIdle : n \in 0 .. MaxIdle
  BY ConfigAssumption DEF NoKeys, Configs, Processes

LEMMA OffRecord == Off \in ProcessRecords /\ Off.step = "off"
  BY ConfigBounds DEF Off, ProcessRecords

KeptRecords == [used : SUBSET (1 .. MaxIds), idle : 0 .. MaxIdle]

LEMMA KeptTypes ==
    ASSUME ConfigTypeOK
    PROVE  /\ \A h \in kept : h \in KeptRecords
           /\ \A h, g \in kept : h = g
           /\ process \in [Processes -> ProcessRecords]
  BY DEF ConfigTypeOK, KeptRecords, ProcessRecords

LEMMA ConfigInitially == ConfigInit => CInv
  <1> SUFFICES ASSUME ConfigInit PROVE CInv
    OBVIOUS
  <1> DEFINE h0 == [used |-> {}, idle |-> 0]
  <1>1. h0 \in KeptRecords /\ h0.used = {} /\ h0.idle = 0
    BY ConfigBounds DEF KeptRecords
  <1>2. \A p \in Processes : process[p] \in ProcessRecords /\ process[p].step = "off"
    BY OffRecord DEF ConfigInit
  <1>3. process \in [Processes -> ProcessRecords]
    BY OffRecord DEF ConfigInit
  <1>4. kept = {h0}
    BY DEF ConfigInit
  <1> HIDE DEF h0
  <1>5. ConfigTypeOK
    BY <1>1, <1>3, <1>4, ConfigBounds, ConfigAssumption DEF ConfigInit, ConfigTypeOK, KeptRecords, ProcessRecords
  <1>6. Writers = {}
    BY <1>2 DEF Writers
  <1>7. Settled(h0)
    BY <1>1, <1>2, <1>6, ConfigBounds DEF ConfigInit, Settled, Agrees, Copies, Processes
  <1> QED
    BY <1>4, <1>5, <1>7 DEF CInv

-----------------------------------------------------------------------------

\* Process p becomes r, and the others stay.
ProcessBecomes(p, r) == process' = [process EXCEPT ![p] = r] /\ r \in ProcessRecords

LEMMA ProcessMoves ==
    ASSUME ConfigTypeOK, NEW p \in Processes, NEW r, ProcessBecomes(p, r)
    PROVE  /\ process' \in [Processes -> ProcessRecords]
           /\ process'[p] = r
           /\ \A q \in Processes \ {p} : process'[q] = process[q]
           /\ Writers' = (Writers \ {p}) \cup (IF r.step \in {"idle", "id"} THEN {p} ELSE {})
  <1>1. process \in [Processes -> ProcessRecords]
    BY KeptTypes
  <1>2. /\ process' \in [Processes -> ProcessRecords]
        /\ process'[p] = r
        /\ \A q \in Processes \ {p} : process'[q] = process[q]
    BY <1>1 DEF ProcessBecomes
  <1>3. \A q \in Processes : q \in Writers' <=> q \in (Writers \ {p}) \cup (IF r.step \in {"idle", "id"} THEN {p} ELSE {})
    BY <1>2 DEF Writers
  <1> QED
    BY <1>2, <1>3 DEF Writers

\* A process outside the file goes to where it writes nothing yet.
LEMMA OutsideFiles ==
    ASSUME CInv, NEW p \in Processes, NEW r, ProcessBecomes(p, r), r.step \in {"off", "on", "truncate"},
           p \notin Writers, UNCHANGED <<confFile, tornFile>>,
           lastId' \in 0 .. MaxIds,
           kept' \in {{}, kept},
           kept' # {} => /\ r.step = "on" /\ p \in Pages =>
                               r.globalConfig = r.seen
                               /\ (\A h \in kept : \/ Writers = {} /\ r.globalConfig.id \in {0, confFile.id}
                                                   \/ r = process[p])
                         /\ r.step = "truncate" /\ p \in Pages =>
                               r.seen.id = 0 /\ r.globalConfig.idle = r.seen.idle
                         /\ r.step \in {"on", "truncate"} /\ p = TheDaemon => r.globalConfig.id = r.seen.id
    PROVE  CInv'
  <1> USE DEF CInv
  <1>1. /\ process' \in [Processes -> ProcessRecords] /\ process'[p] = r
        /\ \A q \in Processes \ {p} : process'[q] = process[q]
        /\ Writers' = Writers
    BY ProcessMoves
  <1>2. ConfigTypeOK'
    BY <1>1 DEF ConfigTypeOK, ProcessRecords
  <1>3. ASSUME NEW h \in kept' PROVE Settled(h)'
    <2>1. h \in kept /\ kept' = kept /\ Settled(h)
      BY <1>3
    <2>2. \A q \in Processes : Copies(q)'
      BY <1>1, <2>1, ConfigBounds DEF Settled, Copies
    <2>3. Writers = {} => Agrees(h, confFile.id)'
      BY <1>1, <2>1, ConfigBounds DEF Settled, Agrees
    <2>4. ASSUME NEW w \in Writers PROVE Writing(h, w)'
      <3>1. w \in Processes \ {p} /\ process'[w] = process[w] /\ Writing(h, w)
        BY <1>1, <2>1 DEF Writers, Settled
      <3>2. Agrees(h, process[w].globalConfig.id)
        BY <3>1 DEF Writing
      <3>3. Agrees(h, process[w].globalConfig.id)'
        BY <1>1, <2>1, <3>1, <3>2, ConfigBounds DEF Agrees
      <3> QED
        BY <3>1, <3>3 DEF Writing
    <2> QED
      BY <1>1, <2>1, <2>2, <2>3, <2>4 DEF Settled
  <1> QED
    BY <1>2, <1>3

LEMMA ConfigFields ==
    ASSUME ConfigTypeOK, NEW p \in Processes
    PROVE  /\ process[p] \in ProcessRecords
           /\ process[p].globalConfig \in Configs /\ process[p].seen \in Configs
           /\ process[p].globalConfig.id \in 0 .. MaxIds /\ process[p].globalConfig.idle \in 0 .. MaxIdle
           /\ confFile.id \in 0 .. MaxIds /\ confFile.idle \in 0 .. MaxIdle
  <1>1. process[p] \in ProcessRecords
    BY KeptTypes
  <1>2. process[p].globalConfig \in Configs /\ process[p].seen \in Configs
    BY <1>1 DEF ProcessRecords
  <1>3. confFile \in Configs
    BY DEF ConfigTypeOK
  <1> QED
    BY <1>1, <1>2, <1>3 DEF Configs

LEMMA LoadMapKeeps == ASSUME CInv, NEW p \in Processes, LoadMap(p) PROVE CInv'
  <1>1. PICK c \in Readings :
          process' = [process EXCEPT ![p] =
              IF p = TheDaemon
              THEN [step |-> "truncate", globalConfig |-> [c EXCEPT !.idle = IF @ = 0 THEN 1 ELSE @], seen |-> c]
              ELSE [step |-> "on", globalConfig |-> c, seen |-> c]]
    BY DEF LoadMap
  <1>2. c \in Configs
    BY <1>1 DEF Readings
  <1>3. CASE p = TheDaemon
    <2> DEFINE d == [c EXCEPT !.idle = IF @ = 0 THEN 1 ELSE @]
               r == [step |-> "truncate", globalConfig |-> d, seen |-> c]
    <2>1. d \in Configs /\ d.id = c.id
      BY <1>2, ConfigBounds DEF Configs
    <2> HIDE DEF d
    <2>2. r \in ProcessRecords /\ r.step = "truncate" /\ r.globalConfig = d /\ r.seen = c
      BY <1>2, <2>1 DEF ProcessRecords
    <2>3. ProcessBecomes(p, r)
      BY <1>1, <1>3, <2>2 DEF ProcessBecomes, d
    <2> HIDE DEF r
    <2> QED
      BY <1>3, <2>1, <2>2, <2>3, OutsideFiles, ConfigBounds DEF LoadMap, Writers, CInv, ConfigTypeOK
  <1>4. CASE p # TheDaemon
    <2> DEFINE r == [step |-> "on", globalConfig |-> c, seen |-> c]
    <2>1. r \in ProcessRecords /\ r.step = "on" /\ r.globalConfig = c /\ r.seen = c
      BY <1>2 DEF ProcessRecords
    <2>2. ProcessBecomes(p, r)
      BY <1>1, <1>4, <2>1 DEF ProcessBecomes
    <2> HIDE DEF r
    <2>3. kept' # {} => kept' = kept /\ Writers = {} /\ c.id = confFile.id
      BY <1>1 DEF LoadMap, Readings
    <2> QED
      BY <1>4, <2>1, <2>2, <2>3, OutsideFiles DEF LoadMap, Writers, CInv, ConfigTypeOK
  <1> QED
    BY <1>3, <1>4

\* What a page that is running has read is the id of all.
LEMMA OneId ==
    ASSUME CInv, NEW p \in Pages, process[p].step = "on", process[p].globalConfig.id # 0,
           NEW h \in kept
    PROVE  /\ Writers = {} => process[p].globalConfig.id = confFile.id
           /\ \A w \in Writers : process[p].globalConfig.id = process[w].globalConfig.id
  BY DEF CInv, Settled, Writing, Agrees

LEMMA UseIdKeeps == ASSUME CInv, NEW p \in Processes, UseId(p) PROVE CInv'
  <1> DEFINE id == process[p].globalConfig.id
             With(h) == [h EXCEPT !.used = @ \cup {id}]
  <1>1. p \in Pages /\ process[p].step = "on" /\ id # 0 /\ UNCHANGED <<confFile, tornFile, lastId, process>>
    BY DEF UseId
  <1>2. id \in 1 .. MaxIds
    BY <1>1, ConfigFields, ConfigAssumption DEF CInv
  <1>3. kept' = {With(h) : h \in kept}
    BY DEF UseId
  <1>4. \A h \in KeptRecords : With(h) \in KeptRecords /\ With(h).used = h.used \cup {id} /\ With(h).idle = h.idle
    BY <1>2 DEF KeptRecords
  <1> HIDE DEF With
  <1>5. /\ ConfigTypeOK /\ \A h \in kept : h \in KeptRecords
        /\ \A h, g \in kept : h = g
    BY KeptTypes DEF CInv
  <1>6. kept' = {} \/ \E h \in KeptRecords : kept' = {h}
    BY <1>3, <1>4, <1>5
  <1>7. ConfigTypeOK'
    BY <1>1, <1>5, <1>6 DEF ConfigTypeOK, KeptRecords
  <1>8. Writers' = Writers
    BY <1>1 DEF Writers
  <1>9. ASSUME NEW g \in kept' PROVE Settled(g)'
    <2>1. PICK h \in kept : g = With(h)
      BY <1>3, <1>9
    <2>2. g.used = h.used \cup {id} /\ g.idle = h.idle /\ Settled(h)
      BY <1>4, <1>5, <2>1 DEF CInv
    <2>3. /\ Writers = {} => id = confFile.id
          /\ \A w \in Writers : id = process[w].globalConfig.id
      BY <1>1, OneId
    <2> HIDE DEF id
    <2>4. Writers = {} => Agrees(g, confFile.id)' /\ confFile.idle = g.idle
      BY <1>1, <2>2, <2>3 DEF Settled, Agrees
    <2>5. \A w \in Writers : Writing(g, w)'
      BY <1>1, <2>2, <2>3 DEF Settled, Agrees, Writing
    <2>6. \A q \in Processes : Copies(q)'
      BY <1>1, <2>2 DEF Settled, Copies
    <2> QED
      BY <1>1, <1>8, <2>2, <2>4, <2>5, <2>6 DEF Settled
  <1> QED
    BY <1>7, <1>9 DEF CInv

LEMMA MakeIdKeeps == ASSUME CInv, NEW p \in Processes, MakeId(p) PROVE CInv'
  <1> DEFINE r == [process[p] EXCEPT !.globalConfig.id = lastId + 1, !.step = "truncate"]
  <1>1. process[p] \in ProcessRecords /\ lastId + 1 \in 0 .. MaxIds /\ ConfigTypeOK
    BY ConfigFields, ConfigAssumption DEF MakeId, CInv, ConfigTypeOK
  <1>2. ASSUME NEW q \in ProcessRecords, NEW n \in 0 .. MaxIds
        PROVE  LET s == [q EXCEPT !.globalConfig.id = n, !.step = "truncate"]
               IN  /\ s \in ProcessRecords /\ s.step = "truncate" /\ s.seen = q.seen
                   /\ s.globalConfig.idle = q.globalConfig.idle
    BY DEF ProcessRecords, Configs
  <1>3. /\ r \in ProcessRecords /\ r.step = "truncate" /\ r.seen = process[p].seen
        /\ r.globalConfig.idle = process[p].globalConfig.idle
    BY <1>1, <1>2
  <1>4. ProcessBecomes(p, r)
    BY <1>3 DEF MakeId, ProcessBecomes
  <1> HIDE DEF r
  <1>5. p \in Pages /\ p # TheDaemon /\ p \notin Writers /\ process[p].step = "on"
        /\ process[p].globalConfig.id = 0
    BY ConfigBounds DEF MakeId, Writers
  <1>6. kept # {} => process[p].globalConfig = process[p].seen
    BY <1>5 DEF CInv, Settled, Copies
  <1> QED
    BY <1>1, <1>3, <1>4, <1>5, <1>6, OutsideFiles DEF MakeId

LEMMA SetIdleTimeKeeps == ASSUME CInv, NEW p \in Processes, SetIdleTime(p) PROVE CInv'
  <1>1. PICK n \in 1 .. MaxIdle :
          process' = [process EXCEPT ![p] = [@ EXCEPT !.globalConfig.idle = n, !.step = "truncate"]]
    BY DEF SetIdleTime
  <1> DEFINE r == [process[p] EXCEPT !.globalConfig.idle = n, !.step = "truncate"]
  <1>2. process[p] \in ProcessRecords /\ n \in 0 .. MaxIdle /\ ConfigTypeOK
    BY ConfigFields, ConfigBounds DEF CInv
  <1>3. ASSUME NEW q \in ProcessRecords, NEW m \in 0 .. MaxIdle
        PROVE  LET s == [q EXCEPT !.globalConfig.idle = m, !.step = "truncate"]
               IN  /\ s \in ProcessRecords /\ s.step = "truncate" /\ s.seen = q.seen
                   /\ s.globalConfig.id = q.globalConfig.id
    BY DEF ProcessRecords, Configs
  <1>4. /\ r \in ProcessRecords /\ r.step = "truncate" /\ r.seen = process[p].seen
        /\ r.globalConfig.id = process[p].globalConfig.id
    BY <1>2, <1>3
  <1>5. ProcessBecomes(p, r)
    BY <1>1, <1>4 DEF ProcessBecomes
  <1> HIDE DEF r
  <1>6. p = TheDaemon /\ p \notin Pages /\ p \notin Writers /\ process[p].step = "on"
    BY ConfigBounds DEF SetIdleTime, Writers
  <1>7. kept # {} => process[p].globalConfig.id = process[p].seen.id
    BY <1>6 DEF CInv, Settled, Copies
  <1> QED
    BY <1>2, <1>4, <1>5, <1>6, <1>7, OutsideFiles DEF SetIdleTime, ConfigTypeOK

-----------------------------------------------------------------------------
(* saveMap()                                                               *)

\* Process p goes on to another line, with the same maps.
LEMMA ProcessGoesOn ==
    ASSUME ConfigTypeOK, NEW p \in Processes, NEW s \in {"off", "on", "truncate", "idle", "id"},
           process' = [process EXCEPT ![p].step = s]
    PROVE  \E r : /\ ProcessBecomes(p, r) /\ r.step = s
                  /\ r.globalConfig = process[p].globalConfig /\ r.seen = process[p].seen
  <1> DEFINE r == [process[p] EXCEPT !.step = s]
  <1>1. process[p] \in ProcessRecords
    BY ConfigFields
  <1>2. ASSUME NEW q \in ProcessRecords
        PROVE  LET e == [q EXCEPT !.step = s]
               IN  e \in ProcessRecords /\ e.step = s /\ e.globalConfig = q.globalConfig /\ e.seen = q.seen
    BY DEF ProcessRecords
  <1>3. r \in ProcessRecords /\ r.step = s /\ r.globalConfig = process[p].globalConfig /\ r.seen = process[p].seen
    BY <1>1, <1>2
  <1>4. ProcessBecomes(p, r)
    BY <1>3 DEF ProcessBecomes
  <1> QED
    BY <1>3, <1>4

\* Nothing is claimed once processes have met.
LEMMA HaveMet ==
    ASSUME ConfigTypeOK, NEW p \in Processes, NEW r, ProcessBecomes(p, r),
           confFile' \in Configs, tornFile' \in BOOLEAN, lastId' = lastId, kept' = {}
    PROVE  CInv'
  <1>1. process' \in [Processes -> ProcessRecords]
    BY ProcessMoves
  <1> QED
    BY <1>1 DEF CInv, ConfigTypeOK, ProcessRecords

LEMMA TruncateKeeps == ASSUME CInv, NEW p \in Processes, Truncate(p) PROVE CInv'
  <1>1. PICK r : /\ ProcessBecomes(p, r) /\ r.step = "idle"
                 /\ r.globalConfig = process[p].globalConfig /\ r.seen = process[p].seen
    BY ProcessGoesOn DEF Truncate, CInv
  <1>2. /\ process' \in [Processes -> ProcessRecords] /\ process'[p] = r
        /\ \A q \in Processes \ {p} : process'[q] = process[q]
        /\ Writers' = Writers \cup {p}
    BY <1>1, ProcessMoves DEF CInv
  <1>3. CASE kept' = {}
    BY <1>1, <1>3, HaveMet, ConfigBounds DEF Truncate, CInv
  <1>4. CASE kept' # {}
    <2>1. kept' = kept /\ Writers = {} /\ process[p].seen = confFile /\ process[p].step = "truncate"
          /\ confFile' = NoKeys /\ tornFile' = FALSE /\ lastId' = lastId
      BY <1>4 DEF Truncate
    <2>2. ConfigTypeOK'
      BY <1>2, <2>1, ConfigBounds DEF CInv, ConfigTypeOK, ProcessRecords
    <2>3. ASSUME NEW h \in kept PROVE Settled(h)'
      <3>1. /\ Settled(h) /\ Agrees(h, confFile.id) /\ confFile.idle = h.idle /\ Copies(p)
            /\ h \in KeptRecords
        BY <2>1, KeptTypes DEF CInv, Settled
      <3>2. \A q \in Processes : Copies(q)'
        BY <1>1, <1>2, <3>1 DEF Settled, Copies
      <3>3. Agrees(h, process[p].globalConfig.id)
        <4>1. CASE p \in Pages
          <5>1. confFile.id = 0
            BY <2>1, <3>1, <4>1 DEF Copies
          <5>2. h.used = {}
            BY <3>1, <5>1, ConfigBounds DEF Agrees, KeptRecords
          <5> QED
            BY <3>1, <5>1, <5>2 DEF Agrees
        <4>2. CASE p = TheDaemon
          BY <2>1, <3>1, <4>2 DEF Copies
        <4> QED
          BY <4>1, <4>2 DEF Processes
      <3>4. p \in Pages => process[p].globalConfig.idle = h.idle
        BY <2>1, <3>1 DEF Copies
      <3>5. Agrees(h, process[p].globalConfig.id)'
        BY <1>1, <1>2, <3>3, ConfigBounds DEF Agrees
      <3>6. Writing(h, p)'
        BY <1>1, <1>2, <2>1, <3>4, <3>5 DEF Writing
      <3>7. Writers' = {p}
        BY <1>2, <2>1
      <3> QED
        BY <2>1, <3>2, <3>6, <3>7 DEF Settled
    <2> QED
      BY <2>1, <2>2, <2>3 DEF CInv
  <1> QED
    BY <1>3, <1>4

LEMMA CannotOpenKeeps == ASSUME CInv, NEW p \in Processes, CannotOpen(p) PROVE CInv'
  <1>1. PICK r : ProcessBecomes(p, r)
    BY ProcessGoesOn DEF CannotOpen, CInv
  <1> QED
    BY <1>1, HaveMet DEF CannotOpen, CInv, ConfigTypeOK

\* The one that writes, as long as processes have not met.
LEMMA TheWriter ==
    ASSUME CInv, NEW p \in Writers, NEW h \in kept
    PROVE  Settled(h) /\ Writers = {p} /\ Writing(h, p) /\ h \in KeptRecords
  BY KeptTypes DEF CInv, Settled

LEMMA WriteIdleTimeKeeps == ASSUME CInv, NEW p \in Processes, WriteIdleTime(p) PROVE CInv'
  <1>1. PICK r : /\ ProcessBecomes(p, r) /\ r.step = "id"
                 /\ r.globalConfig = process[p].globalConfig /\ r.seen = process[p].seen
    BY ProcessGoesOn DEF WriteIdleTime, CInv
  <1>2. /\ process' \in [Processes -> ProcessRecords] /\ process'[p] = r
        /\ \A q \in Processes \ {p} : process'[q] = process[q]
        /\ p \in Writers /\ Writers' = Writers
    BY <1>1, ProcessMoves DEF CInv, WriteIdleTime, Writers
  <1> DEFINE id == process[p].globalConfig.id
             idle == process[p].globalConfig.idle
  <1>3. idle \in 0 .. MaxIdle /\ confFile \in Configs
    BY ConfigFields DEF CInv, ConfigTypeOK
  <1>4. ASSUME NEW c \in Configs, NEW n \in 0 .. MaxIdle
        PROVE  LET d == [c EXCEPT !.idle = IF n = 0 THEN @ ELSE n]
               IN  d \in Configs /\ d = [id |-> c.id, idle |-> IF n = 0 THEN c.idle ELSE n]
    BY DEF Configs
  <1>5. confFile' \in Configs /\ confFile' = [id |-> confFile.id, idle |-> IF idle = 0 THEN confFile.idle ELSE idle]
    BY <1>3, <1>4 DEF WriteIdleTime
  <1>6. ConfigTypeOK'
    BY <1>2, <1>5 DEF WriteIdleTime, CInv, ConfigTypeOK, ProcessRecords
  <1>7. ASSUME NEW h \in kept PROVE Settled(h)'
    <2>1. Settled(h) /\ Writers = {p} /\ Writing(h, p)
      BY <1>2, TheWriter
    <2>2. confFile = NoKeys /\ tornFile' = tornFile
      BY <2>1 DEF Writing, WriteIdleTime
    <2>3. confFile' = [id |-> 0, idle |-> idle]
      BY <1>5, <2>2 DEF NoKeys
    <2>4. Agrees(h, id)'
      BY <1>1, <1>2, <2>1, ConfigBounds DEF Writing, Agrees
    <2>5. Writing(h, p)'
      BY <1>1, <1>2, <2>1, <2>3, <2>4 DEF Writing
    <2>6. \A q \in Processes : Copies(q)'
      BY <1>1, <1>2, <2>1 DEF Settled, Copies
    <2> QED
      BY <1>2, <2>1, <2>2, <2>5, <2>6 DEF Settled
  <1>8. kept' = kept
    BY DEF WriteIdleTime
  <1> QED
    BY <1>6, <1>7, <1>8 DEF CInv

LEMMA WriteIdKeeps == ASSUME CInv, NEW p \in Processes, WriteId(p) PROVE CInv'
  <1> DEFINE g == process[p].globalConfig
             r == [process[p] EXCEPT !.step = "on", !.seen = g]
  <1>1. process[p] \in ProcessRecords /\ g \in Configs /\ g.id \in 0 .. MaxIds /\ g.idle \in 0 .. MaxIdle
        /\ confFile \in Configs /\ ConfigTypeOK
    BY ConfigFields DEF CInv, ConfigTypeOK
  <1>2. ASSUME NEW q \in ProcessRecords, NEW c \in Configs
        PROVE  LET s == [q EXCEPT !.step = "on", !.seen = c]
               IN  s \in ProcessRecords /\ s.step = "on" /\ s.seen = c /\ s.globalConfig = q.globalConfig
    BY DEF ProcessRecords
  <1> HIDE DEF g
  <1>3. r \in ProcessRecords /\ r.step = "on" /\ r.seen = g /\ r.globalConfig = g
    BY <1>1, <1>2 DEF g
  <1>4. ProcessBecomes(p, r)
    BY <1>3 DEF WriteId, ProcessBecomes, g
  <1> HIDE DEF r
  <1>5. /\ process' \in [Processes -> ProcessRecords] /\ process'[p] = r
        /\ \A q \in Processes \ {p} : process'[q] = process[q]
        /\ p \in Writers /\ Writers' = Writers \ {p}
    BY <1>1, <1>3, <1>4, ProcessMoves DEF WriteId, Writers
  <1>6. ASSUME NEW c \in Configs, NEW n \in 0 .. MaxIds
        PROVE  LET d == [c EXCEPT !.id = IF n = 0 THEN @ ELSE n]
               IN  d \in Configs /\ d = [id |-> IF n = 0 THEN c.id ELSE n, idle |-> c.idle]
    BY DEF Configs
  <1>7. confFile' \in Configs /\ confFile' = [id |-> IF g.id = 0 THEN confFile.id ELSE g.id, idle |-> confFile.idle]
    BY <1>1, <1>6 DEF WriteId, g
  <1> DEFINE With(h) == [h EXCEPT !.idle = g.idle]
  <1>8. \A h \in KeptRecords : With(h) \in KeptRecords /\ With(h).used = h.used /\ With(h).idle = g.idle
    BY <1>1 DEF KeptRecords
  <1>9. kept' = IF p = TheDaemon THEN {With(h) : h \in kept} ELSE kept
    BY DEF WriteId, g
  <1> HIDE DEF With
  <1>10. /\ \A h \in kept : h \in KeptRecords
         /\ \A h, j \in kept : h = j
    BY <1>1, KeptTypes
  <1>11. kept' = {} \/ \E h \in KeptRecords : kept' = {h}
    BY <1>8, <1>9, <1>10
  <1>12. ConfigTypeOK'
    BY <1>1, <1>5, <1>7, <1>11 DEF WriteId, ConfigTypeOK, KeptRecords, ProcessRecords
  <1>13. ASSUME NEW j \in kept' PROVE Settled(j)'
    <2>1. PICK h \in kept : j = IF p = TheDaemon THEN With(h) ELSE h
      BY <1>9, <1>13
    <2>2. h \in KeptRecords /\ Settled(h) /\ Writers = {p} /\ Writing(h, p)
      BY <1>5, TheWriter
    <2>3. j.used = h.used /\ j.idle = IF p = TheDaemon THEN g.idle ELSE h.idle
      BY <1>8, <2>1, <2>2
    <2>4. confFile = [id |-> 0, idle |-> g.idle] /\ Agrees(h, g.id) /\ (p \in Pages => g.idle = h.idle)
      BY <2>2 DEF Writing, WriteId, g
    <2>5. confFile'.id = g.id /\ confFile'.idle = g.idle
      BY <1>7, <2>4
    <2>6. j.idle = g.idle
      BY <2>3, <2>4 DEF Processes
    <2>7. Agrees(j, g.id)'
      <3>1. g.id \in {0, g.id}
        OBVIOUS
      <3> SUFFICES ASSUME NEW q \in Pages, process'[q].step = "on"
                   PROVE  process'[q].globalConfig.id \in {0, g'.id}
        BY <1>3, <1>5, <2>3, <2>4 DEF Agrees, g
      <3> QED
        BY <1>3, <1>5, <2>4, <3>1, ConfigBounds DEF Agrees, g
    <2>8. g' = g
      BY <1>3, <1>5 DEF g
    <2>9. Agrees(j, confFile.id)'
      BY <2>5, <2>7, <2>8 DEF Agrees
    <2>10. \A q \in Processes : Copies(q)'
      BY <1>3, <1>5, <2>2 DEF Settled, Copies
    <2>11. Writers' = {}
      BY <1>5, <2>2
    <2>12. tornFile' = FALSE
      BY <2>2 DEF Settled, WriteId
    <2> QED
      BY <2>5, <2>6, <2>9, <2>10, <2>11, <2>12 DEF Settled
  <1> QED
    BY <1>12, <1>13 DEF CInv

LEMMA EndKeeps == ASSUME CInv, NEW p \in Processes, End(p) PROVE CInv'
  <1>1. ProcessBecomes(p, Off)
    BY OffRecord DEF End, ProcessBecomes
  <1>2. CASE p \in Writers
    BY <1>1, <1>2, HaveMet DEF End, CInv, ConfigTypeOK
  <1>3. CASE p \notin Writers
    BY <1>1, <1>3, OffRecord, OutsideFiles DEF End, CInv, ConfigTypeOK
  <1> QED
    BY <1>2, <1>3

-----------------------------------------------------------------------------

LEMMA ConfigStutters == ASSUME CInv, UNCHANGED configVars PROVE CInv'
  BY DEF configVars, CInv, ConfigTypeOK, Settled, Writing, Agrees, Copies, Writers

LEMMA ConfigInvariant == ConfigSpec => []CInv
  <1>1. CInv /\ [ConfigNext]_configVars => CInv'
    <2> SUFFICES ASSUME CInv, [ConfigNext]_configVars PROVE CInv'
      OBVIOUS
    <2>1. ASSUME NEW p \in Processes,
                 \/ LoadMap(p) \/ UseId(p) \/ MakeId(p) \/ SetIdleTime(p)
                 \/ Truncate(p) \/ CannotOpen(p) \/ WriteIdleTime(p) \/ WriteId(p) \/ End(p)
          PROVE  CInv'
      BY <2>1, LoadMapKeeps, UseIdKeeps, MakeIdKeeps, SetIdleTimeKeeps, TruncateKeeps,
         CannotOpenKeeps, WriteIdleTimeKeeps, WriteIdKeeps, EndKeeps
    <2>2. CASE UNCHANGED configVars
      BY <2>2, ConfigStutters
    <2> QED
      BY <2>1, <2>2 DEF ConfigNext
  <1> QED
    BY <1>1, ConfigInitially, PTL DEF ConfigSpec

\* The types of the file, of every process's map and of the history hold always.
THEOREM ConfigTypes == ConfigSpec => []ConfigTypeOK
  <1>1. CInv => ConfigTypeOK
    BY DEF CInv
  <1> QED
    BY <1>1, ConfigInvariant, PTL

\* SettingsKept: whatever processes come, save their map as a whole and go, no
\* id that is used and no idle-time that is saved is taken back, unless two of
\* them have met in the file (LocalConfig::saveMap, LocalConfig::loadMap).
THEOREM SettingsAreKept == ConfigSpec => []SettingsKept
  <1>1. CInv => SettingsKept
    <2> SUFFICES ASSUME CInv, NEW h \in kept
                 PROVE  /\ Cardinality(h.used) <= 1
                        /\ Writers = {} => h.used \subseteq {confFile.id} /\ confFile.idle = h.idle
      BY DEF SettingsKept
    <2>1. PICK id : h.used \subseteq {id}
      BY DEF CInv, Settled, Writing, Agrees
    <2>2. Cardinality(h.used) <= 1
      <3>1. h.used = {} \/ h.used = {id}
        BY <2>1
      <3> QED
        BY <3>1, FS_EmptySet, FS_Singleton
    <2>3. Writers = {} => h.used \subseteq {confFile.id} /\ confFile.idle = h.idle
      BY DEF CInv, Settled, Agrees
    <2> QED
      BY <2>2, <2>3
  <1> QED
    BY <1>1, ConfigInvariant, PTL
=============================================================================
