----------------------------- MODULE IdleDaemon -----------------------------
(***************************************************************************)
(* One process of daemon/daemon.cpp: the main loop, the threads that       *)
(* reload the sessions and the thread that answers requests.  It keeps its *)
(* own list of the sessions, read from VirtualBox, and starts, pauses and  *)
(* destroys the machines by it, while the plugin works on the same ones.   *)
(***************************************************************************)
EXTENDS Naturals, FiniteSets

CONSTANTS
    VMs,          \* machines
    NoVM,
    Settings,     \* daemon settings a machine may have
    MaxReloads,   \* bound: reload threads at once
    Moves,        \* the states that others may bring a machine to
    Failures      \* the commands that may fail

\* daemonMinCap is not 0, DF_SUSPEND, DF_AUTOSTART, DF_AUTODESTROY.
Setting == {"cap", "suspend", "autostart", "autodestroy"}

Reloaders == 1 .. MaxReloads
MainLoop == 0
Free == MaxReloads + 1

Powers == {"none", "off", "saved", "on", "paused"}

ASSUME IdleAssumption ==
    /\ NoVM \notin VMs
    /\ MaxReloads \in Nat
    /\ Settings \subseteq SUBSET Setting
    /\ Moves \subseteq Powers
    /\ Failures \subseteq {"list", "query", "control"}

VARIABLES
    power,        \* each machine, as VirtualBox has it
    controlled,   \* machines whose property /CVMWeb/daemon/controlled is 1
    setting,      \* their other daemon properties
    userIdle,     \* platformIdleTime() >= idleTime
    copy,         \* hv->sessions: the state of each session, or "absent"
    copyControlled,  \* the sessions of it that are daemonControlled
    isIdle, isAlive, reloadTriggered,    \* the globals
    mutex,        \* who holds sessionsMutex
    main,         \* where the main loop is
    todo,         \* sessions that the holder of the mutex has not reached
    victim,       \* the session that reapDead() is about to close
    needsUpdate,  \* its flag
    reload,       \* where each reload thread is
    server,       \* where the server thread is
    mine          \* history: machines the daemon has moved, and nobody since

idleVars == <<power, controlled, setting, userIdle, copy, copyControlled, isIdle, isAlive,
              reloadTriggered, mutex, main, todo, victim, needsUpdate, reload, server, mine>>

IdleTypeOK ==
    /\ power \in [VMs -> Powers]
    /\ controlled \subseteq VMs
    /\ setting \in [VMs -> Settings]
    /\ userIdle \in BOOLEAN
    /\ copy \in [VMs -> {"absent", "CLOSED", "ERROR", "OPEN", "STARTED", "PAUSED"}]
    /\ copyControlled \subseteq VMs
    /\ isIdle \in BOOLEAN /\ isAlive \in BOOLEAN /\ reloadTriggered \in BOOLEAN
    /\ mutex \in {Free, MainLoop} \cup Reloaders
    /\ main \in {"none", "boot", "top", "slow", "reap", "reapWalk", "close", "reaped",
                 "look", "toIdle", "alive", "switch", "lock", "walk", "cleanup"}
    /\ todo \subseteq VMs
    /\ victim \in VMs \cup {NoVM}
    /\ needsUpdate \in BOOLEAN
    /\ reload \in [Reloaders -> {"none", "lock", "load", "quit", "release"}]
    /\ server \in {"none", "listen", "trigger", "done"}
    /\ mine \subseteq VMs

IdleInit ==
    /\ power \in [VMs -> {"off", "on", "paused"}]
    /\ controlled \in SUBSET VMs
    /\ setting \in [VMs -> Settings]
    /\ userIdle \in BOOLEAN
    /\ copy = [v \in VMs |-> "absent"]
    /\ copyControlled = {}
    /\ isIdle = FALSE /\ isAlive = TRUE /\ reloadTriggered = FALSE
    /\ mutex = Free
    /\ main = "none"
    /\ todo = {} /\ victim = NoVM /\ needsUpdate = FALSE
    /\ reload = [r \in Reloaders |-> "none"]
    /\ server = "none"
    /\ mine = {}

machines == <<power, controlled, setting, mine>>
list == <<copy, copyControlled>>
flags == <<isIdle, isAlive, reloadTriggered>>
reaping == <<victim, needsUpdate>>

Listed == {v \in VMs : copy[v] # "absent"}

\* Mutated form of Seen: VirtualBox's own word for the state is kept.
SeenRaw(v) == power[v]

\* What updateSession() makes of VirtualBox's state of a machine.
Seen(v) == CASE power[v] = "on" -> "STARTED"
             [] power[v] = "paused" -> "PAUSED"
             [] OTHER -> "OPEN"

-----------------------------------------------------------------------------
(* Around the daemon.                                                      *)

\* The plugin, the user or the guest moves a machine or sets its property.
OutsideMove ==
    /\ \E v \in VMs :
          /\ power[v] # "none"
          /\ mine' = mine \ {v}
          /\ \/ /\ \E to \in Moves \ {power[v]} :
                      power' = [power EXCEPT ![v] = to]
                /\ UNCHANGED controlled
             \/ /\ controlled' = IF v \in controlled THEN controlled \ {v} ELSE controlled \cup {v}
                /\ UNCHANGED power
    /\ UNCHANGED <<setting, userIdle, list, flags, mutex, main, todo, reaping, reload, server>>

UserMoves ==
    /\ userIdle' = ~userIdle
    /\ UNCHANGED <<machines, list, flags, mutex, main, todo, reaping, reload, server>>

-----------------------------------------------------------------------------
(* Reloading.                                                              *)

\* reloadSessions() tests the flag here and sets it in Trigger: the main loop
\* and the server may both find it down.
MayReload == isAlive /\ ~reloadTriggered

Trigger ==
    /\ reloadTriggered' = TRUE
    /\ \E r \in Reloaders :
          /\ reload[r] = "none" /\ \A q \in 1 .. r - 1 : reload[q] # "none"
          /\ reload' = [reload EXCEPT ![r] = IF isAlive THEN "lock" ELSE "none"]

ReloadGo(r, from, to) == reload[r] = from /\ reload' = [reload EXCEPT ![r] = to]

\* Mutated form of ReloadList: the list is read without the lock.
ReloadListUnlocked(r) ==
    /\ mutex' = r
    /\ ReloadGo(r, "lock", "load")
    /\ copy' = [v \in VMs |-> "absent"]
    /\ copyControlled' = {}
    /\ todo' = {v \in VMs : power[v] # "none"}
    /\ UNCHANGED <<machines, userIdle, flags, main, reaping, server>>

\* The lock, and the list of loadSessions(): one that cannot be read leaves the
\* old sessions.
ReloadList(r) ==
    /\ mutex = Free /\ mutex' = r
    /\ ReloadGo(r, "lock", "load")
    /\ \/ /\ "list" \in Failures
          /\ UNCHANGED <<list, todo>>
       \/ /\ copy' = [v \in VMs |-> "absent"]
          /\ copyControlled' = {}
          /\ todo' = {v \in VMs : power[v] # "none"}
    /\ UNCHANGED <<machines, userIdle, flags, main, reaping, server>>

\* One machine of the list.  Without its secret it is skipped, without its
\* information it is registered as the constructor made it, and without its
\* properties as one that is not controlled.
ReloadQuery(r) ==
    /\ reload[r] = "load"
    /\ \E v \in todo :
          /\ todo' = todo \ {v}
          /\ \/ /\ copy' = [copy EXCEPT ![v] = IF power[v] = "none" THEN "CLOSED" ELSE Seen(v)]
                /\ copyControlled' = IF power[v] = "none" THEN copyControlled
                                     ELSE copyControlled \cup ({v} \cap controlled)
             \/ /\ "query" \in Failures
                /\ \E s \in {"absent", "CLOSED", Seen(v)} : copy' = [copy EXCEPT ![v] = s]
                /\ UNCHANGED copyControlled
    /\ UNCHANGED <<machines, userIdle, flags, mutex, main, reaping, reload, server>>

\* Mutated form of ReloadJudge: an empty list is taken for one that could not be read.
ReloadJudgeEmpty(r) ==
    /\ todo = {}
    /\ ReloadGo(r, "load", IF copyControlled = {} /\ Listed # {} THEN "quit" ELSE "release")
    /\ mutex' = Free
    /\ UNCHANGED <<machines, userIdle, list, flags, main, todo, reaping, server>>

\* The loop over the sessions that looks for a need, and the unlock.
ReloadJudge(r) ==
    /\ todo = {}
    /\ ReloadGo(r, "load", IF copyControlled = {} THEN "quit" ELSE "release")
    /\ mutex' = Free
    /\ UNCHANGED <<machines, userIdle, list, flags, main, todo, reaping, server>>

ReloadQuit(r) ==
    /\ ReloadGo(r, "quit", "release")
    /\ isAlive' = FALSE
    /\ UNCHANGED <<machines, userIdle, list, isIdle, reloadTriggered, mutex, main, todo, reaping, server>>

\* Mutated form of ReloadRelease: the flag stays up.
ReloadReleaseNot(r) ==
    /\ ReloadGo(r, "release", "none")
    /\ UNCHANGED <<machines, userIdle, list, flags, mutex, main, todo, reaping, server>>

\* Mutated form of ReloadRelease: the need found by this thread decides again.
ReloadReleaseRevives(r) ==
    /\ ReloadGo(r, "release", "none")
    /\ reloadTriggered' = FALSE /\ isAlive' = (copyControlled # {})
    /\ UNCHANGED <<machines, userIdle, list, isIdle, mutex, main, todo, reaping, server>>

ReloadRelease(r) ==
    /\ ReloadGo(r, "release", "none")
    /\ reloadTriggered' = FALSE
    /\ UNCHANGED <<machines, userIdle, list, isIdle, isAlive, mutex, main, todo, reaping, server>>

-----------------------------------------------------------------------------
(* The server thread.                                                      *)

\* DIPC_RELOAD.  The other requests only read or set the idle time.
ServeReload ==
    /\ server = "listen"
    /\ MayReload /\ server' = "trigger"
    /\ UNCHANGED <<machines, userIdle, list, flags, mutex, main, todo, reaping, reload>>

ServeTrigger ==
    /\ server = "trigger" /\ server' = "listen"
    /\ Trigger
    /\ UNCHANGED <<machines, userIdle, list, isIdle, isAlive, mutex, main, todo, reaping>>

\* DIPC_SHUTDOWN, or the end of the loop.
ServeEnd ==
    /\ server = "listen" /\ server' = "done"
    /\ isAlive' = FALSE
    /\ UNCHANGED <<machines, userIdle, list, isIdle, reloadTriggered, mutex, main, todo, reaping, reload>>

-----------------------------------------------------------------------------
(* The main loop.                                                          *)

Go(from, to) == main = from /\ main' = to

Start ==
    /\ Go("none", "boot")
    /\ UNCHANGED <<machines, userIdle, list, flags, mutex, todo, reaping, reload, server>>

\* Without VirtualBox, or with another daemon's lock, the process ends.
Boot ==
    /\ \/ Go("boot", "top") /\ server' = "listen"
       \/ Go("boot", "none") /\ UNCHANGED server
    /\ UNCHANGED <<machines, userIdle, list, flags, mutex, todo, reaping, reload>>

\* FAST_TIMER has passed, or not.
Top ==
    /\ \/ ~isAlive /\ Go("top", "cleanup")
       \/ isAlive /\ (Go("top", "reap") \/ Go("top", "look"))
    /\ UNCHANGED <<machines, userIdle, list, flags, mutex, todo, reaping, reload, server>>

\* SLOW_TIMER has passed, which counts only while the user is idle.
SlowReload ==
    /\ isIdle /\ MayReload
    /\ Go("top", "slow")
    /\ UNCHANGED <<machines, userIdle, list, flags, mutex, todo, reaping, reload, server>>

MainTrigger ==
    /\ \/ Go("slow", "look") \/ Go("slow", "reap")
       \/ Go("reaped", "look") \/ Go("toIdle", "alive")
    /\ Trigger
    /\ UNCHANGED <<machines, userIdle, list, isIdle, isAlive, mutex, todo, reaping, server>>

\* reapDead(), with the sessions locked all along.
ReapLock ==
    /\ Go("reap", "reapWalk")
    /\ mutex = Free /\ mutex' = MainLoop
    /\ todo' = {v \in Listed \cap copyControlled : "autodestroy" \in setting[v]}
    /\ UNCHANGED <<machines, userIdle, list, flags, reaping, reload, server>>

\* updateFast(), whose answer nobody looks at.
ReapUpdate ==
    /\ main = "reapWalk"
    /\ \E v \in todo :
          /\ todo' = todo \ {v}
          /\ \/ power[v] # "none" /\ copy' = [copy EXCEPT ![v] = Seen(v)]
             \/ (power[v] = "none" \/ "query" \in Failures) /\ UNCHANGED copy
          /\ IF copy'[v] = "OPEN"
             THEN main' = "close" /\ victim' = v /\ needsUpdate' = TRUE
             ELSE UNCHANGED <<main, reaping>>
    /\ UNCHANGED <<machines, userIdle, copyControlled, flags, mutex, reload, server>>

\* close() begins with a poweroff and ends with the removal of the machine,
\* whatever it does by now.  A command that fails in between ends it early.
ReapClose ==
    /\ Go("close", "reapWalk")
    /\ victim' = NoVM
    /\ mine' = mine \cup {victim}
    /\ \/ /\ power' = [power EXCEPT ![victim] = "none"]
          /\ copy' = [copy EXCEPT ![victim] = "CLOSED"]
       \/ /\ "control" \in Failures /\ power[victim] # "none"
          /\ \E p \in {power[victim], "off"} : power' = [power EXCEPT ![victim] = p]
          /\ \E s \in {"OPEN", "ERROR", "CLOSED"} : copy' = [copy EXCEPT ![victim] = s]
    /\ UNCHANGED <<controlled, setting, userIdle, copyControlled, flags, mutex, todo, needsUpdate,
                   reload, server>>

ReapUnlock ==
    /\ todo = {}
    /\ Go("reapWalk", IF needsUpdate /\ MayReload THEN "reaped" ELSE "look")
    /\ needsUpdate' = FALSE
    /\ mutex' = Free
    /\ UNCHANGED <<machines, userIdle, list, flags, todo, victim, reload, server>>

\* The idle state is compared with the user.  On the way to idle the sessions
\* are reloaded, by another thread that nobody waits for.
Look ==
    /\ \/ isIdle = userIdle /\ Go("look", "top") /\ UNCHANGED isIdle
       \/ isIdle /\ ~userIdle /\ Go("look", "switch") /\ isIdle' = FALSE
       \/ /\ ~isIdle /\ userIdle /\ isIdle' = TRUE
          /\ Go("look", IF MayReload THEN "toIdle" ELSE "alive")
    /\ UNCHANGED <<machines, userIdle, list, isAlive, reloadTriggered, mutex, todo, reaping, reload, server>>

Alive ==
    /\ Go("alive", IF isAlive THEN "switch" ELSE "cleanup")
    /\ UNCHANGED <<machines, userIdle, list, flags, mutex, todo, reaping, reload, server>>

\* switchIdleStates().
Switch ==
    /\ Go("switch", IF isAlive THEN "lock" ELSE "top")
    /\ UNCHANGED <<machines, userIdle, list, flags, mutex, todo, reaping, reload, server>>

WalkLock ==
    /\ Go("lock", "walk")
    /\ mutex = Free /\ mutex' = MainLoop
    /\ todo' = Listed \cap copyControlled
    /\ UNCHANGED <<machines, userIdle, list, flags, reaping, reload, server>>

\* Which command the daemon gives a machine, by its own copy.
Command(v) ==
    LET has(x) == x \in setting[v]
        startsIf(ok) == IF copy[v] = "OPEN" /\ ok THEN "start" ELSE "none"
    IN  IF has("cap") THEN startsIf(has("autostart"))
        ELSE IF isIdle
        THEN IF ~has("suspend") /\ copy[v] = "PAUSED" THEN "resume" ELSE startsIf(TRUE)
        ELSE IF copy[v] # "STARTED" THEN "none"
        ELSE IF has("suspend") THEN "hibernate" ELSE "pause"

From(c) == CASE c = "start" -> {"off", "saved"} [] c = "resume" -> {"paused"}
             [] c = "pause" -> {"on"} [] c = "hibernate" -> {"on", "paused"}

To(c) == CASE c \in {"start", "resume"} -> "on" [] c = "pause" -> "paused"
           [] c = "hibernate" -> "saved"

\* The state a command leaves in the copy, which only start() makes depend on
\* the answer.
Believed(c, ok) == CASE c = "start" -> (IF ok THEN "STARTED" ELSE "OPEN")
                     [] c = "resume" -> "STARTED"
                     [] c = "pause" -> "PAUSED"
                     [] c = "hibernate" -> "OPEN"

Walk ==
    /\ main = "walk"
    /\ \E v \in todo :
          /\ todo' = todo \ {v}
          /\ \/ Command(v) = "none" /\ UNCHANGED <<power, copy, mine>>
             \/ \E ok \in BOOLEAN :
                   /\ Command(v) # "none"
                   /\ IF ok THEN power[v] \in From(Command(v))
                      ELSE power[v] \in From(Command(v)) => "control" \in Failures
                   /\ power' = IF ok THEN [power EXCEPT ![v] = To(Command(v))] ELSE power
                   /\ copy' = [copy EXCEPT ![v] = Believed(Command(v), ok)]
                   /\ mine' = IF ok THEN mine \cup {v} ELSE mine
    /\ UNCHANGED <<controlled, setting, userIdle, copyControlled, flags, mutex, main, reaping, reload, server>>

WalkUnlock ==
    /\ todo = {}
    /\ Go("walk", "top")
    /\ mutex' = Free
    /\ UNCHANGED <<machines, userIdle, list, flags, todo, reaping, reload, server>>

\* The lock file is removed and the process ends, with its threads and its
\* memory.  Another one may be started.
Cleanup ==
    /\ main = "cleanup"
    /\ main' = "none" /\ mutex' = Free
    /\ isIdle' = FALSE /\ isAlive' = TRUE /\ reloadTriggered' = FALSE
    /\ copy' = [v \in VMs |-> "absent"] /\ copyControlled' = {}
    /\ todo' = {} /\ victim' = NoVM /\ needsUpdate' = FALSE
    /\ reload' = [r \in Reloaders |-> "none"] /\ server' = "none"
    /\ mine' = {}
    /\ UNCHANGED <<power, controlled, setting, userIdle>>

-----------------------------------------------------------------------------

Reloader(r) ==
    \/ ReloadList(r) \/ ReloadQuery(r)
    \/ ReloadJudge(r) \/ ReloadQuit(r) \/ ReloadRelease(r)

Main ==
    \/ Boot \/ Top \/ MainTrigger \/ ReapLock \/ ReapUpdate \/ ReapClose
    \/ ReapUnlock \/ Look \/ Alive \/ Switch \/ WalkLock \/ Walk \/ WalkUnlock \/ Cleanup

IdleNext ==
    \/ OutsideMove \/ UserMoves \/ Start \/ Main \/ SlowReload
    \/ ServeReload \/ ServeTrigger \/ ServeEnd
    \/ \E r \in Reloaders : Reloader(r)

IdleSpec == IdleInit /\ [][IdleNext]_idleVars

\* Threads run, and a lock that is free again and again is taken by each that
\* waits for it; the half minute of SLOW_TIMER passes again and again, and what
\* VirtualBox can tell is told sometime.  Nobody has to start the daemon, to ask
\* it anything or to touch the computer.
FairIdle ==
    /\ IdleSpec
    /\ SF_idleVars(Main) /\ SF_idleVars(SlowReload) /\ WF_idleVars(ServeTrigger)
    /\ \A r \in Reloaders : SF_idleVars(Reloader(r))

-----------------------------------------------------------------------------

\* reloadTriggered is up only while a thread will put it down: otherwise the
\* list would never be read again.
FlagHasThread ==
    isAlive /\ reloadTriggered => \E r \in Reloaders : reload[r] # "none"

\* Once the daemon has switched to the active user and rests, no machine that it
\* started or resumed itself still runs against daemonMinCap = 0, whatever
\* reloads were underway, as long as queries and commands succeed: every machine
\* it has moved it finds again in its list.
DaemonYields ==
    Failures \subseteq {"list"} /\ ~isIdle /\ isAlive /\ main = "top" =>
        \A v \in mine \cap controlled : "cap" \notin setting[v] => power[v] # "on"

\* A reload goes on with something else than what VirtualBox would have told.
ListFails ==
    \E r \in Reloaders :
        /\ reload[r] = "lock" /\ reload'[r] = "load"
        /\ \/ list' # <<[v \in VMs |-> "absent"], {}>>
           \/ todo' # {v \in VMs : power[v] # "none"}

\* When no session is controlled any more, the user stays away, and VirtualBox
\* answers again, the daemon ends, whatever list it was left with.
EndsUnneeded ==
    <>[](controlled = {} /\ userIdle) /\ <>[][~ListFails]_idleVars => []<>(main = "none")

\* The daemon lives as DaemonProcess says: it decides once to close, and then it
\* ends, whatever its threads are doing.
Phase == IF main = "none" THEN "none"
         ELSE IF main = "boot" THEN "starting"
         ELSE IF isAlive THEN "serving" ELSE "closing"

Life == INSTANCE DaemonProcess WITH phase <- Phase

LivesAsProcess == Life!Spec

\* While the daemon runs, the user is away and nobody else touches the machines,
\* a paused machine that the daemon controls is resumed.
IdleResumes ==
    \A v \in VMs :
        (/\ <>[](main # "none" /\ isAlive /\ userIdle /\ v \in controlled /\ setting[v] = {})
         /\ <>[][~OutsideMove]_idleVars)
        => []<>(power[v] # "paused")
=============================================================================
