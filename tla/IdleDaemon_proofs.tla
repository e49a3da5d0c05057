-------------------------- MODULE IdleDaemon_proofs --------------------------
(***************************************************************************)
(* FlagHasThread, and that the daemon lives as DaemonProcess says, for any *)
(* number of machines, reload threads and failures.                        *)
(*                                                                         *)
(* The flags are read in one step and written in a later one, by three     *)
(* kinds of threads; but a thread is there only while the process runs,    *)
(* and the flag goes down before a reload thread is gone.                  *)
(***************************************************************************)
EXTENDS IdleDaemon, TLAPS

FlagTypes ==
    /\ reload \in [Reloaders -> {"none", "lock", "load", "quit", "release"}]
    /\ isAlive \in BOOLEAN /\ reloadTriggered \in BOOLEAN

\* Before the main loop begins there are no other threads.
Unborn ==
    main \in {"none", "boot"} =>
        /\ isAlive
        /\ server = "none"
        /\ \A r \in Reloaders : reload[r] = "none"

FInv == FlagTypes /\ Unborn /\ FlagHasThread

flagVars == <<isAlive, reloadTriggered, reload, server, main>>

-----------------------------------------------------------------------------

LEMMA FlagInitially == IdleInit => FInv
  <1> SUFFICES ASSUME IdleInit PROVE FInv
    OBVIOUS
  <1>1. reload \in [Reloaders -> {"none", "lock", "load", "quit", "release"}]
    BY DEF IdleInit
  <1>2. isAlive = TRUE /\ reloadTriggered = FALSE /\ \A r \in Reloaders : reload[r] = "none"
    BY DEF IdleInit
  <1>3. server = "none"
    BY DEF IdleInit
  <1> QED
    BY <1>1, <1>2, <1>3 DEF FInv, FlagTypes, Unborn, FlagHasThread

\* The main loop goes on, and touches no flag.
LEMMA Loops ==
    ASSUME FInv, main \notin {"none", "boot"}, main' \notin {"none", "boot"},
           UNCHANGED <<isAlive, reloadTriggered, reload>>
    PROVE  FInv'
  BY DEF FInv, FlagTypes, Unborn, FlagHasThread

\* A reload thread is started, or would be.
LEMMA Triggers ==
    ASSUME FInv, Trigger, main \notin {"none", "boot"}, main' \notin {"none", "boot"}, isAlive' = isAlive
    PROVE  FInv'
  <1>1. PICK r \in Reloaders :
            reload[r] = "none" /\ reload' = [reload EXCEPT ![r] = IF isAlive THEN "lock" ELSE "none"]
    BY DEF Trigger
  <1>2. FlagTypes'
    BY <1>1 DEF Trigger, FInv, FlagTypes
  <1>3. isAlive => reload'[r] # "none"
    BY <1>1 DEF FInv, FlagTypes
  <1> QED
    BY <1>2, <1>3 DEF FInv, Unborn, FlagHasThread

\* Somebody sets or clears a flag beside it.
LEMMA Beside ==
    ASSUME FInv, main \notin {"none", "boot"}, main' = main,
           reload' = reload, isAlive' \in BOOLEAN, isAlive' => isAlive,
           reloadTriggered' = reloadTriggered
    PROVE  FInv'
  BY DEF FInv, FlagTypes, Unborn, FlagHasThread

\* A thread that is there shows that the loop has begun.
LEMMA Begun ==
    ASSUME FInv, server # "none" \/ \E r \in Reloaders : reload[r] # "none"
    PROVE  main \notin {"none", "boot"}
  BY DEF FInv, Unborn

Looping ==
    \/ Top \/ SlowReload \/ ReapLock \/ ReapUpdate \/ ReapClose \/ ReapUnlock
    \/ Look \/ Alive \/ Switch \/ WalkLock \/ Walk \/ WalkUnlock

LEMMA LoopingStays ==
    ASSUME Looping
    PROVE  /\ main \notin {"none", "boot"} /\ main' \notin {"none", "boot"}
           /\ UNCHANGED <<isAlive, reloadTriggered, reload>>
  BY DEF Looping, Top, SlowReload, ReapLock, ReapUpdate, ReapClose, ReapUnlock, Look, Alive, Switch,
         WalkLock, Walk, WalkUnlock, Go, flags, reaping

LEMMA MainTriggers == ASSUME FInv, MainTrigger PROVE FInv'
  <1>1. main \notin {"none", "boot"} /\ main' \notin {"none", "boot"} /\ isAlive' = isAlive /\ Trigger
    BY DEF MainTrigger, Go
  <1> QED
    BY <1>1, Triggers

LEMMA ServerFine == ASSUME FInv, ServeReload \/ ServeTrigger \/ ServeEnd PROVE FInv'
  <1>1. main \notin {"none", "boot"}
    BY Begun DEF ServeReload, ServeTrigger, ServeEnd
  <1>2. CASE ServeReload
    <2>1. main' = main /\ UNCHANGED <<isAlive, reloadTriggered, reload>>
      BY <1>2 DEF ServeReload, flags
    <2> QED
      BY <1>1, <2>1, Loops
  <1>3. CASE ServeTrigger
    <2>1. main' = main /\ isAlive' = isAlive /\ Trigger
      BY <1>3 DEF ServeTrigger
    <2> QED
      BY <1>1, <2>1, Triggers
  <1>4. CASE ServeEnd
    <2>1. main' = main /\ isAlive' = FALSE /\ reloadTriggered' = reloadTriggered /\ reload' = reload
      BY <1>4 DEF ServeEnd
    <2> QED
      BY <1>1, <2>1, Beside
  <1> QED
    BY <1>2, <1>3, <1>4

LEMMA ReloadFine == ASSUME FInv, NEW r \in Reloaders, Reloader(r) PROVE FInv'
  <1>1. main \notin {"none", "boot"}
    BY Begun DEF Reloader, ReloadList, ReloadQuery, ReloadJudge, ReloadQuit, ReloadRelease, ReloadGo
  <1>2. CASE ReloadList(r) \/ ReloadJudge(r)
    <2>1. PICK s \in {"load", "quit", "release"} : reload' = [reload EXCEPT ![r] = s]
      BY <1>2 DEF ReloadList, ReloadJudge, ReloadGo
    <2>2. main' = main /\ UNCHANGED <<isAlive, reloadTriggered>>
      BY <1>2 DEF ReloadList, ReloadJudge, flags
    <2>3. reload'[r] # "none"
      BY <2>1 DEF FInv, FlagTypes
    <2> QED
      BY <1>1, <2>1, <2>2, <2>3 DEF FInv, FlagTypes, Unborn, FlagHasThread
  <1>3. CASE ReloadQuery(r)
    <2>1. main' = main /\ UNCHANGED <<isAlive, reloadTriggered, reload>>
      BY <1>3 DEF ReloadQuery, flags
    <2> QED
      BY <1>1, <2>1, Loops
  <1>4. CASE ReloadQuit(r)
    <2>1. reload' = [reload EXCEPT ![r] = "release"] /\ isAlive' = FALSE /\ main' = main
          /\ reloadTriggered' = reloadTriggered
      BY <1>4 DEF ReloadQuit, ReloadGo
    <2> QED
      BY <1>1, <2>1 DEF FInv, FlagTypes, Unborn, FlagHasThread
  <1>5. CASE ReloadRelease(r)
    <2>1. reload' = [reload EXCEPT ![r] = "none"] /\ isAlive' = isAlive /\ main' = main
          /\ reloadTriggered' = FALSE
      BY <1>5 DEF ReloadRelease, ReloadGo
    <2> QED
      BY <1>1, <2>1 DEF FInv, FlagTypes, Unborn, FlagHasThread
  <1> QED
    BY <1>2, <1>3, <1>4, <1>5 DEF Reloader

LEMMA CleanupFine == ASSUME FInv, Cleanup PROVE FInv'
  BY DEF FInv, FlagTypes, Unborn, FlagHasThread, Cleanup

LEMMA BeginFine == ASSUME FInv, Start \/ Boot PROVE FInv'
  BY DEF FInv, FlagTypes, Unborn, FlagHasThread, Start, Boot, Go, flags

LEMMA OutsideFine == ASSUME FInv, OutsideMove \/ UserMoves \/ UNCHANGED idleVars PROVE FInv'
  <1>1. UNCHANGED <<isAlive, reloadTriggered, reload, server, main>>
    BY DEF OutsideMove, UserMoves, idleVars, flags
  <1> QED
    BY <1>1 DEF FInv, FlagTypes, Unborn, FlagHasThread

LEMMA FlagInvariant == IdleSpec => []FInv
  <1>1. FInv /\ [IdleNext]_idleVars => FInv'
    BY OutsideFine, BeginFine, CleanupFine, MainTriggers, ServerFine, ReloadFine, LoopingStays, Loops
       DEF IdleNext, Main, Looping
  <1> QED
    BY <1>1, FlagInitially, PTL DEF IdleSpec

\* While the daemon lives, reloadTriggered is up only while a reload thread is
\* there that will put it down, whoever read the flag when.
THEOREM FlagsHaveThreads == IdleSpec => []FlagHasThread
  BY FlagInvariant, PTL DEF FInv

-----------------------------------------------------------------------------
(* The refinement.                                                         *)

PhaseStep == Life!Next \/ UNCHANGED Phase

LEMMA PhaseLoops ==
    ASSUME main \notin {"none", "boot"}, main' \notin {"none", "boot"}, isAlive' = isAlive
    PROVE  PhaseStep
  BY DEF PhaseStep, Phase

LEMMA PhaseCloses ==
    ASSUME FInv, main \notin {"none", "boot"}, main' = main, isAlive' = FALSE
    PROVE  PhaseStep
  <1>1. Phase' = "closing" /\ Phase \in {"serving", "closing"}
    BY DEF Phase
  <1> QED
    BY <1>1 DEF PhaseStep, Life!Next, Life!Close

LEMMA PhaseSteps == ASSUME FInv, IdleNext PROVE PhaseStep
  <1>1. CASE OutsideMove \/ UserMoves
    <2>1. main' = main /\ isAlive' = isAlive
      BY <1>1 DEF OutsideMove, UserMoves, flags
    <2> QED
      BY <2>1 DEF PhaseStep, Phase
  <1>2. CASE Start
    <2>1. Phase = "none" /\ Phase' = "starting"
      BY <1>2 DEF Start, Go, Phase
    <2> QED
      BY <2>1 DEF PhaseStep, Life!Next, Life!Start
  <1>3. CASE Boot
    <2>1. Phase = "starting" /\ isAlive /\ isAlive' = isAlive /\ main' \in {"top", "none"}
      BY <1>3 DEF Boot, Go, Phase, FInv, Unborn, flags
    <2>2. Phase' \in {"serving", "none"}
      BY <2>1 DEF Phase
    <2> QED
      BY <2>1, <2>2 DEF PhaseStep, Life!Next, Life!Serve, Life!End
  <1>4. CASE Looping
    BY <1>4, LoopingStays, PhaseLoops
  <1>5. CASE MainTrigger
    <2>1. main \notin {"none", "boot"} /\ main' \notin {"none", "boot"} /\ isAlive' = isAlive
      BY <1>5 DEF MainTrigger, Go
    <2> QED
      BY <2>1, PhaseLoops
  <1>6. CASE Cleanup
    <2>1. Phase # "none" /\ Phase' = "none"
      BY <1>6 DEF Cleanup, Phase
    <2> QED
      BY <2>1 DEF PhaseStep, Life!Next, Life!End
  <1>7. CASE ServeReload \/ ServeTrigger \/ ServeEnd
    <2>1. main \notin {"none", "boot"} /\ main' = main
      BY <1>7, Begun DEF ServeReload, ServeTrigger, ServeEnd
    <2>2. isAlive' = isAlive \/ isAlive' = FALSE
      BY <1>7 DEF ServeReload, ServeTrigger, ServeEnd, flags
    <2> QED
      BY <2>1, <2>2, PhaseLoops, PhaseCloses
  <1>8. ASSUME NEW r \in Reloaders, Reloader(r) PROVE PhaseStep
    <2>1. main \notin {"none", "boot"}
      BY <1>8, Begun DEF Reloader, ReloadList, ReloadQuery, ReloadJudge, ReloadQuit, ReloadRelease, ReloadGo
    <2>2. main' = main /\ (isAlive' = isAlive \/ isAlive' = FALSE)
      BY <1>8 DEF Reloader, ReloadList, ReloadQuery, ReloadJudge, ReloadQuit, ReloadRelease, flags
    <2> QED
      BY <2>1, <2>2, PhaseLoops, PhaseCloses
  <1> QED
    BY <1>1, <1>2, <1>3, <1>4, <1>5, <1>6, <1>7, <1>8 DEF IdleNext, Main, Looping

\* The daemon starts in the initial phase of DaemonProcess, and every step of its
\* threads, and of the world around them, is one of its steps or leaves it alone.
THEOREM LivesInPhases == IdleSpec => Life!Init /\ [][Life!Next]_Phase
  <1>1. IdleInit => Life!Init
    BY DEF IdleInit, Life!Init, Phase
  <1>2. FInv /\ [IdleNext]_idleVars => [Life!Next]_Phase
    <2>1. CASE UNCHANGED idleVars
      BY <2>1 DEF idleVars, Phase
    <2> QED
      BY <2>1, PhaseSteps DEF PhaseStep
  <1> QED
    BY <1>1, <1>2, FlagInvariant, PTL DEF IdleSpec
-----------------------------------------------------------------------------
(* The types.                                                              *)

Mains == {"none", "boot", "top", "slow", "reap", "reapWalk", "close", "reaped",
          "look", "toIdle", "alive", "switch", "lock", "walk", "cleanup"}

States == {"absent", "CLOSED", "ERROR", "OPEN", "STARTED", "PAUSED"}

LEMMA SeenTypes ==
    ASSUME IdleTypeOK, NEW v \in VMs
    PROVE  Seen(v) \in States
  BY Zenon DEF Seen, States

LEMMA IdleInitTypes == IdleInit => IdleTypeOK
  <1> SUFFICES ASSUME IdleInit PROVE IdleTypeOK
    OBVIOUS
  <1>1. /\ power \in [VMs -> Powers] /\ setting \in [VMs -> Settings]
        /\ copy \in [VMs -> States] /\ reload \in [Reloaders -> {"none", "lock", "load", "quit", "release"}]
    BY DEF IdleInit, Powers, States
  <1>2. /\ controlled \subseteq VMs /\ copyControlled \subseteq VMs /\ todo \subseteq VMs
        /\ mine \subseteq VMs /\ victim \in VMs \cup {NoVM} /\ mutex \in {Free, MainLoop} \cup Reloaders
        /\ server = "none" /\ main = "none"
    BY DEF IdleInit
  <1>3. userIdle \in BOOLEAN /\ isIdle \in BOOLEAN /\ isAlive \in BOOLEAN /\ reloadTriggered \in BOOLEAN
        /\ needsUpdate \in BOOLEAN
    BY DEF IdleInit
  <1> QED
    BY <1>1, <1>2, <1>3 DEF IdleTypeOK, States

LEMMA OutsideTypes == ASSUME IdleTypeOK, OutsideMove PROVE IdleTypeOK'
  <1>1. power' \in [VMs -> Powers] /\ controlled' \subseteq VMs /\ mine' \subseteq VMs
    BY IdleAssumption DEF OutsideMove, IdleTypeOK
  <1> QED
    BY <1>1 DEF OutsideMove, IdleTypeOK, list, flags, reaping

LEMMA UserTypes == ASSUME IdleTypeOK, UserMoves PROVE IdleTypeOK'
  <1>1. userIdle' \in BOOLEAN
    BY Zenon DEF UserMoves
  <1> QED
    BY <1>1 DEF UserMoves, IdleTypeOK, machines, list, flags, reaping

\* The steps of the main loop that only move it and its lock.
LEMMA LoopTypes ==
    ASSUME IdleTypeOK,
           Start \/ Boot \/ Top \/ SlowReload \/ ReapLock \/ ReapUnlock \/ Look \/ Alive \/ Switch
           \/ WalkLock \/ WalkUnlock
    PROVE  IdleTypeOK'
  <1>1. main' \in Mains
    BY DEF Start, Boot, Top, SlowReload, ReapLock, ReapUnlock, Look, Alive, Switch, WalkLock, WalkUnlock,
           Go, Mains
  <1>2. /\ mutex' \in {Free, MainLoop} \cup Reloaders /\ todo' \subseteq VMs
        /\ victim' \in VMs \cup {NoVM} /\ server' \in {"none", "listen", "trigger", "done"}
    BY DEF IdleTypeOK, Start, Boot, Top, SlowReload, ReapLock, ReapUnlock, Look, Alive, Switch, WalkLock,
           WalkUnlock, reaping, Listed
  <1>3. isIdle' \in BOOLEAN /\ needsUpdate' \in BOOLEAN
    BY DEF IdleTypeOK, Start, Boot, Top, SlowReload, ReapLock, ReapUnlock, Look, Alive, Switch, WalkLock,
           WalkUnlock, flags, reaping
  <1>4. UNCHANGED <<machines, userIdle, list, isAlive, reloadTriggered, reload>>
    BY DEF Start, Boot, Top, SlowReload, ReapLock, ReapUnlock, Look, Alive, Switch, WalkLock, WalkUnlock,
           flags
  <1> QED
    BY <1>1, <1>2, <1>3, <1>4 DEF IdleTypeOK, Mains, machines, list

LEMMA TriggerTypes == ASSUME IdleTypeOK, MainTrigger \/ ServeTrigger PROVE IdleTypeOK'
  <1>1. main' \in Mains /\ server' \in {"none", "listen", "trigger", "done"}
    BY DEF IdleTypeOK, MainTrigger, ServeTrigger, Go, Mains
  <1>2. reload' \in [Reloaders -> {"none", "lock", "load", "quit", "release"}] /\ reloadTriggered' \in BOOLEAN
    BY DEF IdleTypeOK, MainTrigger, ServeTrigger, Trigger
  <1>3. UNCHANGED <<machines, userIdle, list, isIdle, isAlive, mutex, todo, reaping>>
    BY DEF MainTrigger, ServeTrigger
  <1> QED
    BY <1>1, <1>2, <1>3 DEF IdleTypeOK, Mains, machines, list, reaping

LEMMA ServerTypes == ASSUME IdleTypeOK, ServeReload \/ ServeEnd PROVE IdleTypeOK'
  <1>1. server' \in {"none", "listen", "trigger", "done"} /\ isAlive' \in BOOLEAN
    BY DEF IdleTypeOK, ServeReload, ServeEnd, flags
  <1>2. UNCHANGED <<machines, userIdle, list, isIdle, reloadTriggered, mutex, main, todo, reaping, reload>>
    BY DEF ServeReload, ServeEnd, flags
  <1> QED
    BY <1>1, <1>2 DEF IdleTypeOK, machines, list, reaping

LEMMA ReloadTypes == ASSUME IdleTypeOK, NEW r \in Reloaders, Reloader(r) PROVE IdleTypeOK'
  <1>1. reload' \in [Reloaders -> {"none", "lock", "load", "quit", "release"}]
    BY DEF IdleTypeOK, Reloader, ReloadList, ReloadQuery, ReloadJudge, ReloadQuit, ReloadRelease, ReloadGo
  <1>2. copy' \in [VMs -> States]
    <2>1. CASE ReloadQuery(r)
      <3>1. PICK v \in todo :
                \/ copy' = [copy EXCEPT ![v] = IF power[v] = "none" THEN "CLOSED" ELSE Seen(v)]
                \/ \E s \in {"absent", "CLOSED", Seen(v)} : copy' = [copy EXCEPT ![v] = s]
        BY <2>1 DEF ReloadQuery
      <3>2. v \in VMs /\ copy \in [VMs -> States]
        BY DEF States, IdleTypeOK
      <3>3. Seen(v) \in States
        BY <3>2, SeenTypes
      <3> QED
        BY <3>1, <3>2, <3>3 DEF States
    <2>2. CASE ~ReloadQuery(r)
      BY <2>2 DEF IdleTypeOK, States, Reloader, ReloadList, ReloadJudge, ReloadQuit, ReloadRelease, list
    <2> QED
      BY <2>1, <2>2
  <1>3. /\ copyControlled' \subseteq VMs /\ todo' \subseteq VMs
        /\ mutex' \in {Free, MainLoop} \cup Reloaders
    BY DEF IdleTypeOK, Reloader, ReloadList, ReloadQuery, ReloadJudge, ReloadQuit, ReloadRelease, list
  <1>4. isAlive' \in BOOLEAN /\ reloadTriggered' \in BOOLEAN
    BY DEF IdleTypeOK, Reloader, ReloadList, ReloadQuery, ReloadJudge, ReloadQuit, ReloadRelease, flags
  <1>5. UNCHANGED <<machines, userIdle, isIdle, main, reaping, server>>
    BY DEF Reloader, ReloadList, ReloadQuery, ReloadJudge, ReloadQuit, ReloadRelease, flags
  <1> QED
    BY <1>1, <1>2, <1>3, <1>4, <1>5 DEF IdleTypeOK, States, machines, reaping

LEMMA UpdateTypes == ASSUME IdleTypeOK, ReapUpdate PROVE IdleTypeOK'
  <1>1. PICK v \in todo : /\ todo' = todo \ {v}
                          /\ copy' = [copy EXCEPT ![v] = Seen(v)] \/ copy' = copy
                          /\ \/ main' = "close" /\ victim' = v /\ needsUpdate' = TRUE
                             \/ UNCHANGED <<main, reaping>>
    BY DEF ReapUpdate
  <1>2. copy' \in [VMs -> States]
    BY <1>1, SeenTypes DEF IdleTypeOK, States
  <1>3. /\ main' \in Mains /\ victim' \in VMs \cup {NoVM} /\ needsUpdate' \in BOOLEAN
        /\ todo' \subseteq VMs
    BY <1>1 DEF IdleTypeOK, Mains, reaping
  <1> QED
    BY <1>2, <1>3 DEF ReapUpdate, IdleTypeOK, Mains, States, machines, flags

\* The victim is a machine as long as it is being closed.
VictimThere == main = "close" => victim \in VMs

LEMMA VictimStep == ASSUME IdleTypeOK, VictimThere, [IdleNext]_idleVars PROVE VictimThere'
  <1>1. CASE Looping \/ MainTrigger \/ Start \/ Boot \/ Cleanup \/ ReapClose
    <2>1. CASE ReapUpdate
      BY <2>1 DEF ReapUpdate, IdleTypeOK, VictimThere, reaping
    <2>2. CASE ~ReapUpdate
      <3>1. main' # "close"
        BY <1>1, <2>2 DEF Looping, Top, SlowReload, ReapLock, ReapClose, ReapUnlock, Look, Alive, Switch,
               WalkLock, Walk, WalkUnlock, MainTrigger, Start, Boot, Cleanup, Go
      <3> QED
        BY <3>1 DEF VictimThere
    <2> QED
      BY <2>1, <2>2
  <1>2. CASE OutsideMove \/ UserMoves \/ ServeReload \/ ServeTrigger \/ ServeEnd
             \/ (\E r \in Reloaders : Reloader(r)) \/ UNCHANGED idleVars
    <2>1. main' = main /\ victim' = victim
      BY <1>2 DEF OutsideMove, UserMoves, ServeReload, ServeTrigger, ServeEnd, Reloader, ReloadList,
             ReloadQuery, ReloadJudge, ReloadQuit, ReloadRelease, idleVars, reaping
    <2> QED
      BY <2>1 DEF VictimThere
  <1> QED
    BY <1>1, <1>2 DEF IdleNext, Main, Looping

LEMMA CloseTypes == ASSUME IdleTypeOK, VictimThere, ReapClose PROVE IdleTypeOK'
  <1>1. victim \in VMs
    BY DEF VictimThere, ReapClose, Go
  <1>2. power' \in [VMs -> Powers]
    BY <1>1 DEF ReapClose, IdleTypeOK, Powers
  <1>3. copy' \in [VMs -> States]
    BY <1>1 DEF ReapClose, IdleTypeOK, States
  <1>4. main' \in Mains /\ victim' \in VMs \cup {NoVM} /\ mine' \subseteq VMs
    BY <1>1 DEF ReapClose, IdleTypeOK, Go, Mains
  <1> QED
    BY <1>2, <1>3, <1>4 DEF ReapClose, IdleTypeOK, Mains, States, flags

LEMMA CommandTypes == ASSUME NEW v PROVE Command(v) \in {"none", "start", "resume", "pause", "hibernate"}
  BY DEF Command

LEMMA CommandEnds ==
    ASSUME NEW c \in {"start", "resume", "pause", "hibernate"}, NEW ok \in BOOLEAN
    PROVE  To(c) \in Powers /\ Believed(c, ok) \in States
  <1>1. To(c) \in Powers
    BY Zenon DEF To, Powers
  <1>2. Believed(c, ok) \in States
    BY Zenon DEF Believed, States
  <1> QED
    BY <1>1, <1>2

LEMMA WalkTypes == ASSUME IdleTypeOK, Walk PROVE IdleTypeOK'
  <1>1. PICK v \in todo :
            /\ todo' = todo \ {v}
            /\ \/ Command(v) = "none" /\ UNCHANGED <<power, copy, mine>>
               \/ \E ok \in BOOLEAN :
                     /\ Command(v) # "none"
                     /\ power' = IF ok THEN [power EXCEPT ![v] = To(Command(v))] ELSE power
                     /\ copy' = [copy EXCEPT ![v] = Believed(Command(v), ok)]
                     /\ mine' = IF ok THEN mine \cup {v} ELSE mine
    BY DEF Walk
  <1>2. v \in VMs
    BY DEF IdleTypeOK
  <1>3. power' \in [VMs -> Powers] /\ copy' \in [VMs -> States] /\ mine' \subseteq VMs /\ todo' \subseteq VMs
    BY <1>1, <1>2, CommandTypes, CommandEnds DEF IdleTypeOK, States
  <1> QED
    BY <1>3 DEF Walk, IdleTypeOK, States, flags, reaping

LEMMA CleanupTypes == ASSUME IdleTypeOK, Cleanup PROVE IdleTypeOK'
  <1>1. /\ copy' \in [VMs -> States] /\ reload' \in [Reloaders -> {"none", "lock", "load", "quit", "release"}]
        /\ main' \in Mains /\ mutex' \in {Free, MainLoop} \cup Reloaders
    BY DEF Cleanup, States, Mains
  <1> QED
    BY <1>1 DEF Cleanup, IdleTypeOK, States, Mains

LEMMA TypesStep == ASSUME IdleTypeOK, VictimThere, [IdleNext]_idleVars PROVE IdleTypeOK'
  <1>1. CASE UNCHANGED idleVars
    BY <1>1 DEF IdleTypeOK, idleVars
  <1>2. CASE IdleNext
    BY <1>2, OutsideTypes, UserTypes, LoopTypes, TriggerTypes, ServerTypes, ReloadTypes, UpdateTypes,
       CloseTypes, WalkTypes, CleanupTypes DEF IdleNext, Main
  <1> QED
    BY <1>1, <1>2

LEMMA TypesInvariant == IdleSpec => [](IdleTypeOK /\ VictimThere)
  <1>1. IdleInit => VictimThere
    BY DEF IdleInit, VictimThere
  <1> QED
    BY <1>1, IdleInitTypes, TypesStep, VictimStep, PTL DEF IdleSpec

\* The daemon's copy of the sessions holds only states of its own, and the session
\* that it closes is one of its list, whatever the threads read and failed to read.
THEOREM IdleTypes == IdleSpec => []IdleTypeOK
  BY TypesInvariant, PTL

-----------------------------------------------------------------------------
(* DaemonYields.  The list is read and walked by the one that holds the    *)
(* mutex.  A machine that the daemon has moved and that runs is one it     *)
(* still has to read, or one that its copy tells to run; and from the end  *)
(* of the idle time on it is due, until the walk has come by.              *)

\* The machines that run since the daemon has moved them.
Running == {v \in mine \cap controlled : power[v] = "on"}

Locked ==
    /\ \A r \in Reloaders : reload[r] = "load" <=> mutex = r
    /\ main \in {"reapWalk", "close", "walk"} <=> mutex = MainLoop
    /\ main = "walk" => todo \subseteq copyControlled

Followed ==
    \A v \in Running :
        (mutex \in Reloaders /\ v \in todo) \/ (v \in copyControlled /\ copy[v] = "STARTED")

Due ==
    ~isIdle /\ isAlive =>
        \A v \in Running : "cap" \notin setting[v] =>
            main \in {"switch", "lock"} \/ (main = "walk" /\ v \in todo)

YInv == IdleTypeOK /\ VictimThere /\ Locked /\ Followed /\ Due

LEMMA LockHolders == Free \notin Reloaders /\ MainLoop \notin Reloaders /\ Free # MainLoop
  BY IdleAssumption DEF Free, MainLoop, Reloaders

Holding == {"reapWalk", "close", "walk"}
Switching == {"switch", "lock"}

\* The loop goes on without the lock, or stays where it is.
Strolls ==
    \/ main' = main
    \/ main \notin Holding /\ main' \notin Holding
       /\ (main \notin Switching \/ main' \in Switching \/ ~isAlive')

\* A step that touches neither machines, nor the list, nor its lock.
LEMMA Aside ==
    ASSUME YInv, UNCHANGED <<machines, list, mutex, todo, isIdle>>, isAlive' => isAlive, Strolls,
           \A r \in Reloaders : reload'[r] = "load" <=> reload[r] = "load"
    PROVE  Locked' /\ Followed' /\ Due'
  <1>1. Running' = Running
    BY DEF Running, machines
  <1>2. Locked'
    BY DEF YInv, Locked, Strolls, Holding, list
  <1>3. Followed'
    BY <1>1 DEF YInv, Followed, list
  <1>4. Due'
    BY <1>1 DEF YInv, Due, Strolls, Holding, Switching, machines
  <1> QED
    BY <1>2, <1>3, <1>4

LEMMA AsideSteps ==
    ASSUME YInv,
           \/ UserMoves \/ Start \/ Boot \/ Top \/ SlowReload \/ Alive \/ Switch \/ ServeReload \/ ServeEnd
           \/ UNCHANGED idleVars
    PROVE  Locked' /\ Followed' /\ Due'
  <1>1. UNCHANGED <<machines, list, mutex, todo, isIdle, reload>>
    BY DEF UserMoves, Start, Boot, Top, SlowReload, Alive, Switch, ServeReload, ServeEnd, idleVars,
           flags, machines, list
  <1>2. isAlive' => isAlive
    BY DEF UserMoves, Start, Boot, Top, SlowReload, Alive, Switch, ServeReload, ServeEnd, idleVars, flags
  <1>3. Strolls
    BY DEF UserMoves, Start, Boot, Top, SlowReload, Alive, Switch, ServeReload, ServeEnd, idleVars,
           flags, Go, Strolls, Holding, Switching
  <1> QED
    BY <1>1, <1>2, <1>3, Aside

LEMMA TriggerYields == ASSUME YInv, MainTrigger \/ ServeTrigger PROVE Locked' /\ Followed' /\ Due'
  <1>1. UNCHANGED <<machines, list, mutex, todo, isIdle>> /\ (isAlive' => isAlive)
    BY DEF MainTrigger, ServeTrigger
  <1>2. Strolls
    BY DEF MainTrigger, ServeTrigger, Go, Strolls, Holding, Switching
  <1>3. \A r \in Reloaders : reload'[r] = "load" <=> reload[r] = "load"
    BY DEF YInv, IdleTypeOK, MainTrigger, ServeTrigger, Trigger
  <1> QED
    BY <1>1, <1>2, <1>3, Aside

LEMMA ReleaseYields ==
    ASSUME YInv, NEW r \in Reloaders, ReloadQuit(r) \/ ReloadRelease(r)
    PROVE  Locked' /\ Followed' /\ Due'
  <1>1. UNCHANGED <<machines, list, mutex, todo, isIdle>> /\ (isAlive' => isAlive) /\ Strolls
    BY DEF ReloadQuit, ReloadRelease, Strolls
  <1>2. \A q \in Reloaders : reload'[q] = "load" <=> reload[q] = "load"
    BY DEF YInv, IdleTypeOK, ReloadQuit, ReloadRelease, ReloadGo
  <1> QED
    BY <1>1, <1>2, Aside

\* Whom anybody else has touched is not followed any more.
LEMMA OutsideYields == ASSUME YInv, OutsideMove PROVE Locked' /\ Followed' /\ Due'
  <1>1. Running' \subseteq Running
    BY DEF YInv, IdleTypeOK, OutsideMove, Running
  <1>2. UNCHANGED <<copy, copyControlled, isIdle, isAlive, mutex, main, todo, reload, setting>>
    BY DEF OutsideMove, list, flags
  <1> QED
    BY <1>1, <1>2 DEF YInv, Locked, Followed, Due

LEMMA ListYields == ASSUME YInv, NEW r \in Reloaders, ReloadList(r) PROVE Locked' /\ Followed' /\ Due'
  <1>1. /\ mutex = Free /\ mutex' = r /\ main' = main /\ isIdle' = isIdle /\ isAlive' = isAlive
        /\ UNCHANGED <<power, controlled, setting, mine>>
        /\ reload' = [reload EXCEPT ![r] = "load"]
        /\ \/ copy' = copy /\ copyControlled' = copyControlled
           \/ todo' = {v \in VMs : power[v] # "none"}
    BY DEF ReloadList, ReloadGo, machines, list, flags
  <1>2. Running' = Running /\ \A v \in Running : v \in VMs /\ power[v] # "none"
    BY <1>1 DEF Running, YInv, IdleTypeOK
  <1>3. main \notin Holding
    BY <1>1, LockHolders DEF YInv, Locked, Holding
  <1>4. Locked'
    BY <1>1, <1>3, LockHolders DEF YInv, IdleTypeOK, Locked, Holding
  <1>5. Followed'
    BY <1>1, <1>2, LockHolders DEF YInv, Followed
  <1>6. Due'
    BY <1>1, <1>2, <1>3 DEF YInv, Due, Holding
  <1> QED
    BY <1>4, <1>5, <1>6

LEMMA QueryYields ==
    ASSUME YInv, Failures \subseteq {"list"}, NEW r \in Reloaders, ReloadQuery(r)
    PROVE  Locked' /\ Followed' /\ Due'
  <1>1. PICK v \in todo :
          /\ todo' = todo \ {v}
          /\ copy' = [copy EXCEPT ![v] = IF power[v] = "none" THEN "CLOSED" ELSE Seen(v)]
          /\ copyControlled' = IF power[v] = "none" THEN copyControlled
                               ELSE copyControlled \cup ({v} \cap controlled)
    BY DEF ReloadQuery
  <1>2. /\ reload[r] = "load" /\ main' = main /\ isIdle' = isIdle /\ isAlive' = isAlive
        /\ UNCHANGED <<power, controlled, setting, mine, mutex, reload>>
    BY DEF ReloadQuery, machines, flags
  <1>3. mutex = r /\ main \notin Holding
    BY <1>2, LockHolders DEF YInv, Locked, Holding
  <1>4. Running' = Running
    BY <1>2 DEF Running
  <1>5. Locked'
    BY <1>2, <1>3 DEF YInv, Locked, Holding
  <1>6. Followed'
    <2> SUFFICES ASSUME NEW x \in Running
                 PROVE  x \in todo' \/ (x \in copyControlled' /\ copy'[x] = "STARTED")
      BY <1>2, <1>3, <1>4 DEF Followed
    <2>1. x \in VMs /\ x \in controlled /\ power[x] = "on" /\ copy \in [VMs -> States]
      BY DEF Running, YInv, IdleTypeOK, States
    <2>2. CASE x = v
      <3>1. Seen(x) = "STARTED"
        BY <2>1 DEF Seen
      <3> QED
        BY <1>1, <2>1, <2>2, <3>1
    <2>3. CASE x # v
      <3>1. x \in todo \/ (x \in copyControlled /\ copy[x] = "STARTED")
        BY DEF YInv, Followed
      <3> QED
        BY <1>1, <2>1, <2>3, <3>1
    <2> QED
      BY <2>2, <2>3
  <1>7. Due'
    BY <1>2, <1>3, <1>4 DEF YInv, Due, Holding
  <1> QED
    BY <1>5, <1>6, <1>7

LEMMA JudgeYields == ASSUME YInv, NEW r \in Reloaders, ReloadJudge(r) PROVE Locked' /\ Followed' /\ Due'
  <1>1. /\ todo = {} /\ reload[r] = "load" /\ mutex' = Free
        /\ UNCHANGED <<machines, list, isIdle, isAlive, main, todo>>
        /\ \E s \in {"quit", "release"} : reload' = [reload EXCEPT ![r] = s]
    BY DEF ReloadJudge, ReloadGo, flags
  <1>2. mutex = r /\ main \notin Holding
    BY <1>1, LockHolders DEF YInv, Locked, Holding
  <1>3. Running' = Running
    BY <1>1 DEF Running, machines
  <1>4. Locked'
    BY <1>1, <1>2, LockHolders DEF YInv, IdleTypeOK, Locked, Holding
  <1>5. Followed'
    BY <1>1, <1>3 DEF YInv, Followed, list
  <1>6. Due'
    BY <1>1, <1>2, <1>3 DEF YInv, Due, Holding, machines
  <1> QED
    BY <1>4, <1>5, <1>6

-----------------------------------------------------------------------------

\* The main loop takes the lock or gives it back, and what it knows stays.
LEMMA MainLocks ==
    ASSUME YInv, ReapLock \/ ReapUnlock \/ WalkLock \/ WalkUnlock
    PROVE  Locked' /\ Followed' /\ Due'
  <1>1. /\ UNCHANGED <<machines, list, isIdle, isAlive, reload>>
        /\ (mutex = Free /\ mutex' = MainLoop) \/ (mutex' = Free /\ main \in Holding)
        /\ main' \in Holding <=> mutex' = MainLoop
    BY LockHolders DEF ReapLock, ReapUnlock, WalkLock, WalkUnlock, Go, flags, Holding
  <1>2. Running' = Running /\ \A r \in Reloaders : mutex # r /\ mutex' # r
    BY <1>1, LockHolders DEF Running, machines, YInv, Locked, Holding
  <1>3. main' = "walk" => todo' \subseteq copyControlled
    BY DEF ReapLock, ReapUnlock, WalkLock, WalkUnlock, Go
  <1>4. Locked'
    BY <1>1, <1>2, <1>3 DEF YInv, Locked, Holding, list
  <1>5. \A v \in Running : v \in VMs /\ v \in copyControlled /\ copy[v] = "STARTED"
    BY <1>2 DEF YInv, IdleTypeOK, Followed, Running
  <1>6. Followed'
    BY <1>1, <1>2, <1>5 DEF Followed, list
  <1>7. CASE WalkLock
    <2>1. main' = "walk" /\ todo' = Listed \cap copyControlled
      BY <1>7 DEF WalkLock, Go
    <2>2. Due'
      BY <1>2, <1>5, <2>1 DEF Due, Listed
    <2> QED
      BY <1>4, <1>6, <2>2
  <1>8. CASE ReapLock \/ ReapUnlock \/ WalkUnlock
    <2>1. main \notin Switching /\ (main = "walk" => todo = {})
      BY <1>8 DEF ReapLock, ReapUnlock, WalkUnlock, Go, Switching
    <2>2. Due'
      BY <1>1, <1>2, <2>1 DEF YInv, Due, Switching, machines
    <2> QED
      BY <1>4, <1>6, <2>2
  <1> QED
    BY <1>7, <1>8

LEMMA UpdateYields ==
    ASSUME YInv, Failures \subseteq {"list"}, ReapUpdate
    PROVE  Locked' /\ Followed' /\ Due'
  <1>1. PICK v \in todo :
          /\ copy' = [copy EXCEPT ![v] = Seen(v)] \/ (power[v] = "none" /\ copy' = copy)
          /\ main' \in {"close", main}
    BY DEF ReapUpdate, reaping
  <1>2. main = "reapWalk" /\ UNCHANGED <<machines, copyControlled, isIdle, isAlive, mutex, reload>>
    BY DEF ReapUpdate, flags
  <1>3. Running' = Running /\ \A r \in Reloaders : mutex # r
    BY <1>2, LockHolders DEF Running, machines, YInv, Locked, Holding
  <1>4. Locked'
    BY <1>1, <1>2 DEF YInv, Locked
  <1>5. Followed'
    <2> SUFFICES ASSUME NEW x \in Running PROVE x \in copyControlled /\ copy'[x] = "STARTED"
      BY <1>2, <1>3 DEF Followed
    <2>1. x \in VMs /\ power[x] = "on" /\ x \in copyControlled /\ copy[x] = "STARTED"
          /\ copy \in [VMs -> States]
      BY <1>3 DEF Running, YInv, IdleTypeOK, States, Followed
    <2>2. Seen(x) = "STARTED"
      BY <2>1 DEF Seen
    <2> QED
      BY <1>1, <2>1, <2>2
  <1>6. Due'
    BY <1>1, <1>2, <1>3 DEF YInv, Due, machines
  <1> QED
    BY <1>4, <1>5, <1>6

LEMMA CloseYields ==
    ASSUME YInv, Failures \subseteq {"list"}, ReapClose
    PROVE  Locked' /\ Followed' /\ Due'
  <1>1. /\ victim \in VMs /\ main = "close" /\ main' = "reapWalk" /\ mine' = mine \cup {victim}
        /\ power' = [power EXCEPT ![victim] = "none"] /\ copy' = [copy EXCEPT ![victim] = "CLOSED"]
        /\ UNCHANGED <<controlled, setting, copyControlled, isIdle, isAlive, mutex, todo, reload>>
    BY DEF ReapClose, Go, YInv, VictimThere, flags
  <1>2. Running' \subseteq Running \ {victim}
    BY <1>1 DEF Running, YInv, IdleTypeOK
  <1>3. Locked'
    BY <1>1 DEF YInv, Locked
  <1>4. Followed'
    BY <1>1, <1>2 DEF YInv, IdleTypeOK, Followed
  <1>5. Due'
    BY <1>1, <1>2 DEF YInv, Due
  <1> QED
    BY <1>3, <1>4, <1>5

\* The step in which the daemon finds the user back, or gone.
LEMMA LookYields == ASSUME YInv, Look PROVE Locked' /\ Followed' /\ Due'
  <1>1. /\ UNCHANGED <<machines, list, isAlive, mutex, todo, reload>>
        /\ main = "look" /\ main' \notin Holding
        /\ main' = "switch" \/ isIdle' = isIdle \/ isIdle'
    BY DEF Look, Go, Holding
  <1>2. Running' = Running
    BY <1>1 DEF Running, machines
  <1>3. Locked'
    BY <1>1 DEF YInv, Locked, Holding, list
  <1>4. Followed'
    BY <1>1, <1>2 DEF YInv, Followed, list
  <1>5. Due'
    BY <1>1, <1>2 DEF YInv, Due, machines
  <1> QED
    BY <1>3, <1>4, <1>5

\* A command that the daemon gives fails only if the machine is not where the
\* copy tells.
LEMMA WalkYields ==
    ASSUME YInv, Failures \subseteq {"list"}, Walk
    PROVE  Locked' /\ Followed' /\ Due'
  <1>1. PICK v \in todo :
          /\ todo' = todo \ {v}
          /\ \/ Command(v) = "none" /\ UNCHANGED <<power, copy, mine>>
             \/ \E ok \in BOOLEAN :
                   /\ Command(v) # "none"
                   /\ ok <=> power[v] \in From(Command(v))
                   /\ power' = IF ok THEN [power EXCEPT ![v] = To(Command(v))] ELSE power
                   /\ copy' = [copy EXCEPT ![v] = Believed(Command(v), ok)]
                   /\ mine' = IF ok THEN mine \cup {v} ELSE mine
    BY DEF Walk
  <1>2. /\ main = "walk" /\ main' = main
        /\ UNCHANGED <<controlled, setting, copyControlled, isIdle, isAlive, mutex, reload>>
    BY DEF Walk, flags
  <1>3. /\ mutex = MainLoop /\ \A r \in Reloaders : mutex # r
        /\ v \in VMs /\ v \in copyControlled
        /\ power \in [VMs -> Powers] /\ copy \in [VMs -> States] /\ mine \subseteq VMs
    BY <1>2, LockHolders DEF YInv, Locked, IdleTypeOK, States
  <1>4. Locked'
    BY <1>1, <1>2 DEF YInv, Locked
  <1>5. \A x \in Running : x \in VMs /\ x \in copyControlled /\ copy[x] = "STARTED"
    BY <1>3 DEF YInv, Followed, Running
  <1>6. \A x \in VMs \ {v} : power'[x] = power[x] /\ copy'[x] = copy[x] /\ (x \in mine' <=> x \in mine)
    BY <1>1, <1>3
  <1>7. v \in Running' =>
            /\ copy'[v] = "STARTED"
            /\ ~isIdle => "cap" \in setting[v]
    <2>1. CASE Command(v) = "none"
      <3>1. v \in Running' => v \in Running
        BY <1>1, <1>2, <2>1 DEF Running
      <3>2. v \in Running => copy'[v] = "STARTED"
        BY <1>1, <1>5, <2>1
      <3>3. v \in Running /\ ~isIdle => "cap" \in setting[v]
        BY <1>5, <2>1 DEF Command
      <3> QED
        BY <3>1, <3>2, <3>3
    <2>2. CASE Command(v) # "none" /\ power[v] \in From(Command(v))
      <3>1. /\ power'[v] = To(Command(v)) /\ copy'[v] = Believed(Command(v), TRUE)
            /\ Command(v) \in {"start", "resume", "pause", "hibernate"}
        BY <1>1, <1>3, <2>2, CommandTypes
      <3>2. v \in Running' => To(Command(v)) = "on"
        BY <3>1 DEF Running
      <3>3. To(Command(v)) = "on" => Command(v) \in {"start", "resume"}
        BY <3>1 DEF To
      <3>4. Command(v) \in {"start", "resume"} => Believed(Command(v), TRUE) = "STARTED"
        BY DEF Believed
      <3>5. Command(v) \in {"start", "resume"} /\ ~isIdle => "cap" \in setting[v]
        BY DEF Command
      <3> QED
        BY <3>1, <3>2, <3>3, <3>4, <3>5
    <2>3. CASE Command(v) # "none" /\ power[v] \notin From(Command(v))
      <3>1. power' = power /\ mine' = mine
        BY <1>1, <2>3
      <3>2. v \in Running' => v \in Running
        BY <1>2, <3>1 DEF Running
      <3>3. v \in Running => Command(v) \in {"pause", "hibernate"}
        BY <1>5, <2>3 DEF Command
      <3>4. Command(v) \in {"pause", "hibernate"} => "on" \in From(Command(v))
        BY DEF From
      <3>5. v \notin Running
        BY <2>3, <3>3, <3>4 DEF Running
      <3> QED
        BY <3>2, <3>5
    <2> QED
      BY <2>1, <2>2, <2>3
  <1>8. Running' \ {v} \subseteq Running
    BY <1>2, <1>6 DEF Running, YInv, IdleTypeOK
  <1>9. Followed'
    BY <1>2, <1>3, <1>5, <1>6, <1>7, <1>8 DEF Followed
  <1>10. Due'
    BY <1>1, <1>2, <1>7, <1>8 DEF YInv, Due
  <1> QED
    BY <1>4, <1>9, <1>10

LEMMA CleanupYields == ASSUME YInv, Cleanup PROVE Locked' /\ Followed' /\ Due'
  <1>1. Running' = {}
    BY DEF Cleanup, Running
  <1>2. mutex' = Free /\ main' = "none" /\ reload' = [r \in Reloaders |-> "none"]
    BY DEF Cleanup
  <1> QED
    BY <1>1, <1>2, LockHolders DEF Locked, Followed, Due

LEMMA YieldsInitially == IdleInit => YInv
  <1> SUFFICES ASSUME IdleInit PROVE YInv
    OBVIOUS
  <1>1. Running = {}
    BY DEF IdleInit, Running
  <1>2. mutex = Free /\ main = "none" /\ reload = [r \in Reloaders |-> "none"]
    BY DEF IdleInit
  <1> QED
    BY <1>1, <1>2, IdleInitTypes, LockHolders DEF YInv, VictimThere, Locked, Followed, Due

LEMMA YieldsStep ==
    ASSUME YInv, Failures \subseteq {"list"}, [IdleNext]_idleVars
    PROVE  YInv'
  <1>1. IdleTypeOK' /\ VictimThere'
    BY TypesStep, VictimStep DEF YInv
  <1>2. CASE UNCHANGED idleVars
    BY <1>1, <1>2, AsideSteps DEF YInv
  <1>3. ASSUME NEW r \in Reloaders, Reloader(r) PROVE YInv'
    BY <1>1, <1>3, ListYields, QueryYields, JudgeYields, ReleaseYields DEF Reloader, YInv
  <1>4. CASE IdleNext /\ ~(\E r \in Reloaders : Reloader(r))
    BY <1>1, <1>4, AsideSteps, TriggerYields, OutsideYields, MainLocks, UpdateYields, CloseYields,
       LookYields, WalkYields, CleanupYields DEF IdleNext, Main, YInv
  <1> QED
    BY <1>2, <1>3, <1>4

\* DaemonYields: when the user is back and the main loop rests, no machine runs
\* that the daemon has started or resumed against daemonMinCap, for every number
\* of machines and of reload threads, and although lists cannot be read (mainLoop,
\* switchIdleStates and reloadSessionsThread of daemon.cpp).
THEOREM DaemonAlwaysYields == IdleSpec => []DaemonYields
  <1>1. CASE Failures \subseteq {"list"}
    <2>1. YInv => DaemonYields
      BY DEF YInv, Due, DaemonYields, Running
    <2>2. YInv /\ [IdleNext]_idleVars => YInv'
      BY <1>1, YieldsStep
    <2> QED
      BY <2>1, <2>2, YieldsInitially, PTL DEF IdleSpec
  <1>2. CASE ~(Failures \subseteq {"list"})
    <2>1. IdleTypeOK => DaemonYields
      BY <1>2 DEF DaemonYields
    <2> QED
      BY <2>1, IdleTypes, PTL
  <1> QED
    BY <1>1, <1>2

=============================================================================
