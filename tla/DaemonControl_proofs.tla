------------------------ MODULE DaemonControl_proofs ------------------------
(***************************************************************************)
(* LockTells, and that every process id lives as DaemonProcess says, for   *)
(* every number of threads, process ids and mishaps.                       *)
(*                                                                         *)
(* A process that is past its check and has not locked yet is alone with   *)
(* that as long as nothing has raced, and nobody who serves, or is about   *)
(* to remove the lock file, is there beside it: its check would have found *)
(* the file.                                                               *)
(***************************************************************************)
EXTENDS DaemonControl, FiniteSetTheorems, FunctionTheorems, TLAPS

\* The processes whose pid is in the lock file: they serve, or will remove it.
Holding == Serving \cup {"closing"}

LockTypes ==
    /\ proc \in [Pids -> ProcStates]
    /\ lockFile \in Pids \cup {NoPid}
    /\ raced \in BOOLEAN

HoldersLocked == raced \/ \A p \in Pids : proc[p] \in Holding => lockFile = p

LockingAlone ==
    raced \/ \A p, q \in Pids :
                 proc[p] = "locking" /\ proc[q] \in Holding \cup {"locking"} => p = q

LInv == LockTypes /\ HoldersLocked /\ LockingAlone

states == <<proc, lockFile, raced>>

\* A step that locks nothing moves processes only to where they hold no more.
Recedes ==
    /\ proc' \in [Pids -> ProcStates]
    /\ \A p \in Pids :
          /\ proc'[p] \in Holding => proc[p] \in Holding
          /\ proc'[p] = "locking" => proc[p] = "locking"

-----------------------------------------------------------------------------

LEMMA LockInitially == ControlInit => LInv
  <1> SUFFICES ASSUME ControlInit PROVE LInv
    OBVIOUS
  <1>1. \A p \in Pids : proc[p] = "gone"
    BY DEF ControlInit
  <1>2. proc \in [Pids -> ProcStates]
    BY DEF ControlInit, ProcStates
  <1>3. lockFile \in Pids \cup {NoPid} /\ raced \in BOOLEAN
    BY DEF ControlInit
  <1> QED
    BY <1>1, <1>2, <1>3
       DEF LInv, LockTypes, HoldersLocked, LockingAlone, Holding, Serving

LEMMA LockRecedes ==
    ASSUME LInv, Recedes, UNCHANGED <<lockFile, raced>>
    PROVE  LInv'
  BY DEF LInv, LockTypes, HoldersLocked, LockingAlone, Recedes

LEMMA LockStands == ASSUME LInv, UNCHANGED states PROVE LInv'
  BY DEF LInv, LockTypes, HoldersLocked, LockingAlone, states

LEMMA LockPlugin ==
    ASSUME LInv, NEW t,
           CheckNeed(t) \/ CheckState(t) \/ PageCalls(t) \/ Send(t) \/ Pending(t) \/ Receive(t)
           \/ TimeOut(t) \/ SessionsChange
    PROVE  LInv'
  <1>1. UNCHANGED states
    BY DEF states, CheckNeed, CheckState, PageCalls, Send, Pending, Receive, TimeOut,
           SessionsChange, process
  <1> QED
    BY <1>1, LockStands

LEMMA LockStart == ASSUME LInv, NEW t, DaemonStart(t) PROVE LInv'
  <1>1. Recedes /\ UNCHANGED <<lockFile, raced>>
    BY DEF DaemonStart, LInv, LockTypes, Recedes, Holding, Serving, ProcStates, Young
  <1> QED
    BY <1>1, LockRecedes

LEMMA LockReap == ASSUME LInv, NEW t, Reap(t) PROVE LInv'
  <1>1. Recedes /\ UNCHANGED <<lockFile, raced>>
    BY DEF Reap, LInv, LockTypes, Recedes, Holding, Serving, ProcStates
  <1> QED
    BY <1>1, LockRecedes

LEMMA LockRestart == ASSUME LInv, Restart PROVE LInv'
  <1>1. Recedes /\ UNCHANGED <<lockFile, raced>>
    BY DEF Restart, LInv, LockTypes, Recedes, Holding, Serving, ProcStates
  <1> QED
    BY <1>1, LockRecedes

\* The step into the danger: nobody holds the lock, or the file is stale.
LEMMA LockCheck == ASSUME LInv, NEW p \in Pids, DaemonCheck(p) PROVE LInv'
  <1> USE DEF DaemonCheck, Becomes, LInv, LockTypes
  <1>1. lockFile' = lockFile /\ raced' \in BOOLEAN /\ (raced => raced')
    BY Zenon
  <1>2. CASE IsDaemonRunning
    <2>1. Recedes /\ UNCHANGED <<lockFile, raced>>
      BY <1>2 DEF Recedes, Holding, Serving, ProcStates
    <2> QED
      BY <2>1, LockRecedes
  <1>3. CASE ~IsDaemonRunning
    <2>1. proc' = [proc EXCEPT ![p] = "locking"] /\ proc' \in [Pids -> ProcStates]
      BY <1>3 DEF ProcStates, Young
    <2>2. /\ proc'[p] = "locking"
          /\ \A q \in Pids \ {p} : proc'[q] = proc[q]
      BY <2>1
    <2>3. CASE raced'
      BY <1>1, <2>1, <2>3 DEF HoldersLocked, LockingAlone
    <2>4. CASE ~raced'
      <3>1. ~raced /\ \A q \in Pids \ {p} : proc[q] # "locking"
        BY <1>3, <2>4
      <3>2. \A q \in Pids : proc[q] \notin Holding
        <4> SUFFICES ASSUME NEW q \in Pids, proc[q] \in Holding PROVE FALSE
          OBVIOUS
        <4>1. lockFile = q
          BY <3>1 DEF HoldersLocked
        <4>2. proc[lockFile] # "gone" /\ lockFile # NoPid
          BY <4>1, ControlAssumption DEF Holding, Serving
        <4> QED
          BY <1>3, <4>2 DEF IsDaemonRunning, IsAlive
      <3>3. "locking" \notin Holding
        BY DEF Holding, Serving
      <3> QED
        BY <1>1, <2>1, <2>2, <3>1, <3>2, <3>3 DEF HoldersLocked, LockingAlone
    <2> QED
      BY <2>3, <2>4
  <1> QED
    BY <1>2, <1>3

LEMMA LockLock == ASSUME LInv, NEW p \in Pids, DaemonLock(p) PROVE LInv'
  <1> USE DEF DaemonLock, Becomes, LInv, LockTypes
  <1>1. proc' = [proc EXCEPT ![p] = "locked"] /\ proc[p] = "locking" /\ lockFile' = p /\ raced' = raced
    OBVIOUS
  <1>2. proc' \in [Pids -> ProcStates]
    BY <1>1 DEF ProcStates, Serving
  <1>3. raced \/ \A q \in Pids \ {p} : proc[q] \notin Holding /\ proc[q] # "locking"
    BY <1>1 DEF LockingAlone
  <1>4. proc'[p] = "locked" /\ \A q \in Pids \ {p} : proc'[q] = proc[q]
    BY <1>1
  <1> QED
    BY <1>1, <1>2, <1>3, <1>4 DEF HoldersLocked, LockingAlone

LEMMA LockServes ==
    ASSUME LInv, NEW p \in Pids, DaemonBind(p) \/ DaemonServe(p) \/ DaemonUnneeded(p)
    PROVE  LInv'
  <1>1. Recedes /\ UNCHANGED <<lockFile, raced>>
    BY DEF DaemonBind, DaemonServe, DaemonUnneeded, Becomes, LInv, LockTypes, Recedes, Holding, Serving,
           Ending, ProcStates
  <1> QED
    BY <1>1, LockRecedes

\* The process that removes the file is the one it names.
LEMMA LockUnlock == ASSUME LInv, NEW p \in Pids, DaemonUnlock(p) PROVE LInv'
  <1> USE DEF DaemonUnlock, Becomes, LInv, LockTypes
  <1>1. proc' = [proc EXCEPT ![p] = "exiting"] /\ proc[p] = "closing" /\ lockFile' = NoPid /\ raced' = raced
    OBVIOUS
  <1>2. proc' \in [Pids -> ProcStates]
    BY <1>1 DEF ProcStates, Ending
  <1>3. raced \/ \A q \in Pids \ {p} : proc[q] \notin Holding
    BY <1>1 DEF HoldersLocked, Holding
  <1>4. proc'[p] = "exiting" /\ \A q \in Pids \ {p} : proc'[q] = proc[q]
    BY <1>1
  <1>5. "exiting" \notin Holding \cup {"locking"}
    BY DEF Holding, Serving
  <1> QED
    BY <1>1, <1>2, <1>3, <1>4, <1>5 DEF HoldersLocked, LockingAlone

LEMMA LockEnds ==
    ASSUME LInv, NEW p \in Pids, DaemonExit(p) \/ DaemonCrash(p) \/ PidReuse(p)
    PROVE  LInv'
  <1>1. Recedes /\ UNCHANGED <<lockFile, raced>>
    BY DEF DaemonExit, DaemonCrash, PidReuse, Die, Becomes, LInv, LockTypes, Recedes, Holding, Serving,
           ProcStates
  <1> QED
    BY <1>1, LockRecedes

LEMMA LockInvariant == ControlSpec => []LInv
  <1>1. LInv /\ [ControlNext]_controlVars => LInv'
    <2> SUFFICES ASSUME LInv, [ControlNext]_controlVars PROVE LInv'
      OBVIOUS
    <2>1. CASE UNCHANGED controlVars
      BY <2>1, LockStands DEF controlVars, states
    <2>2. CASE SessionsChange \/ Restart
      BY <2>2, LockPlugin, LockRestart
    <2>3. ASSUME NEW t \in scenario.threads, CheckNeed(t) \/ PageCalls(t) \/ InCall(t)
          PROVE  LInv'
      BY <2>3, LockPlugin, LockStart, LockReap DEF InCall
    <2>4. ASSUME NEW p \in Pids, Daemon(p) \/ DaemonUnneeded(p) \/ DaemonCrash(p) \/ PidReuse(p)
          PROVE  LInv'
      BY <2>4, LockCheck, LockLock, LockServes, LockUnlock, LockEnds DEF Daemon
    <2> QED
      BY <2>1, <2>2, <2>3, <2>4 DEF ControlNext
  <1> QED
    BY <1>1, LockInitially, PTL DEF ControlSpec

\* Unless two daemons have been between their check and their lock at once, the
\* lock file names every daemon that serves, and so there is one at most,
\* whatever crashes, restarts and strangers with its pid do.
THEOREM LockTellsDaemons == ControlSpec => []LockTells
  <1>1. LInv => LockTells
    BY DEF LInv, HoldersLocked, Holding, LockTells
  <1> QED
    BY <1>1, LockInvariant, PTL

-----------------------------------------------------------------------------
(* The refinement.                                                         *)

\* What a step does to the phase of a process.
LEMMA PhaseStays ==
    ASSUME NEW p \in Pids, proc'[p] = proc[p]
    PROVE  UNCHANGED Phase(p)
  BY DEF Phase

Lives(p) == Process(p)!Next \/ UNCHANGED Phase(p)

LEMMA PhaseEnds ==
    ASSUME NEW p \in Pids, proc'[p] \in {"zombie", "gone", "other"}
    PROVE  Lives(p)
  <1>1. Phase(p)' = "none"
    BY DEF Phase, Young, Serving, Ending
  <1> QED
    BY <1>1 DEF Lives, Process!Next, Process!End

\* Only one process moves.
LEMMA OthersLive ==
    ASSUME LInv, NEW p \in Pids, NEW s, proc' = [proc EXCEPT ![p] = s], Lives(p)
    PROVE  \A q \in Pids : Lives(q)
  <1> SUFFICES ASSUME NEW q \in Pids, q # p PROVE Lives(q)
    OBVIOUS
  <1>1. proc'[q] = proc[q]
    BY DEF LInv, LockTypes
  <1> QED
    BY <1>1, PhaseStays DEF Lives

LEMMA AllStay ==
    ASSUME proc' = proc
    PROVE  \A q \in Pids : Lives(q)
  BY PhaseStays DEF Lives

LEMMA PluginLives ==
    ASSUME LInv, NEW t, CheckNeed(t) \/ PageCalls(t) \/ InCall(t) \/ SessionsChange \/ Restart
    PROVE  \A q \in Pids : Lives(q)
  <1>1. CASE CheckNeed(t) \/ PageCalls(t) \/ CheckState(t) \/ Send(t) \/ Pending(t) \/ Receive(t)
             \/ TimeOut(t) \/ SessionsChange
    <2>1. proc' = proc
      BY <1>1 DEF CheckNeed, PageCalls, CheckState, Send, Pending, Receive, TimeOut, SessionsChange,
                  process
    <2> QED
      BY <2>1, AllStay
  <1>2. CASE DaemonStart(t)
    <2>1. PICK p \in Pids : proc[p] = "gone" /\ proc' = [proc EXCEPT ![p] = "starting"]
      BY <1>2 DEF DaemonStart
    <2>2. Phase(p) = "none" /\ Phase(p)' = "starting"
      BY <2>1 DEF Phase, Young, Serving, Ending, LInv, LockTypes
    <2>3. Lives(p)
      BY <2>2 DEF Lives, Process!Next, Process!Start
    <2> QED
      BY <2>1, <2>3, OthersLive
  <1>3. CASE Reap(t)
    <2>1. CASE reapPid[t] # NoPid /\ proc[reapPid[t]] = "zombie"
      <3>1. proc' = [proc EXCEPT ![reapPid[t]] = "gone"]
        BY <1>3, <2>1 DEF Reap
      <3>2. ASSUME NEW q \in Pids PROVE Lives(q)
        <4>1. CASE q = reapPid[t]
          BY <3>1, <4>1, PhaseEnds DEF LInv, LockTypes
        <4>2. CASE q # reapPid[t]
          BY <3>1, <4>2, PhaseStays DEF LInv, LockTypes, Lives
        <4> QED
          BY <4>1, <4>2
      <3> QED
        BY <3>2
    <2>2. CASE ~(reapPid[t] # NoPid /\ proc[reapPid[t]] = "zombie")
      BY <1>3, <2>2, AllStay DEF Reap
    <2> QED
      BY <2>1, <2>2
  <1>4. CASE Restart
    <2> SUFFICES ASSUME NEW q \in Pids PROVE Lives(q)
      OBVIOUS
    <2>1. proc'[q] = IF proc[q] = "zombie" THEN "gone" ELSE proc[q]
      BY <1>4 DEF Restart
    <2> QED
      BY <2>1, PhaseStays, PhaseEnds DEF Lives
  <1> QED
    BY <1>1, <1>2, <1>3, <1>4 DEF InCall

LEMMA DaemonLives ==
    ASSUME LInv, NEW p \in Pids, Daemon(p) \/ DaemonUnneeded(p) \/ DaemonCrash(p) \/ PidReuse(p)
    PROVE  \A q \in Pids : Lives(q)
  <1> USE DEF Becomes
  <1>1. CASE DaemonCheck(p)
    <2>1. PICK s \in {"locking", "gone", "zombie"} : proc[p] = "starting" /\ proc' = [proc EXCEPT ![p] = s]
      BY <1>1 DEF DaemonCheck
    <2>2. proc'[p] = s
      BY <2>1 DEF LInv, LockTypes
    <2>3. CASE s = "locking"
      <3>1. UNCHANGED Phase(p)
        BY <2>1, <2>2, <2>3 DEF Phase, Young
      <3> QED
        BY <2>1, <3>1, OthersLive DEF Lives
    <2>4. CASE s # "locking"
      BY <2>1, <2>2, <2>4, PhaseEnds, OthersLive
    <2> QED
      BY <2>3, <2>4
  <1>2. CASE DaemonLock(p)
    <2>1. proc[p] = "locking" /\ proc' = [proc EXCEPT ![p] = "locked"]
      BY <1>2 DEF DaemonLock
    <2>2. Phase(p) = "starting" /\ Phase(p)' = "serving"
      BY <2>1 DEF Phase, Young, Serving, LInv, LockTypes
    <2>3. Lives(p)
      BY <2>2 DEF Lives, Process!Next, Process!Serve
    <2> QED
      BY <2>1, <2>3, OthersLive
  <1>3. CASE DaemonBind(p)
    <2>1. proc[p] = "locked" /\ proc' = [proc EXCEPT ![p] = "serving"]
      BY <1>3 DEF DaemonBind
    <2>2. UNCHANGED Phase(p)
      BY <2>1 DEF Phase, Young, Serving, LInv, LockTypes
    <2> QED
      BY <2>1, <2>2, OthersLive DEF Lives
  <1>4. ASSUME proc[p] \in Serving, proc' = [proc EXCEPT ![p] = "closing"]
        PROVE  \A q \in Pids : Lives(q)
    <2>1. Phase(p) = "serving" /\ Phase(p)' = "closing"
      BY <1>4 DEF Phase, Young, Serving, Ending, LInv, LockTypes
    <2>2. Lives(p)
      BY <2>1 DEF Lives, Process!Next, Process!Close
    <2> QED
      BY <1>4, <2>2, OthersLive
  <1>5. CASE DaemonServe(p)
    <2>1. \/ proc' = proc
          \/ proc[p] \in Serving /\ proc' = [proc EXCEPT ![p] = "closing"]
      BY <1>5 DEF DaemonServe, Serving
    <2> QED
      BY <1>4, <2>1, AllStay
  <1>6. CASE DaemonUnneeded(p)
    BY <1>4, <1>6 DEF DaemonUnneeded
  <1>7. CASE DaemonUnlock(p)
    <2>1. proc[p] = "closing" /\ proc' = [proc EXCEPT ![p] = "exiting"]
      BY <1>7 DEF DaemonUnlock
    <2>2. UNCHANGED Phase(p)
      BY <2>1 DEF Phase, Young, Serving, Ending, LInv, LockTypes
    <2> QED
      BY <2>1, <2>2, OthersLive DEF Lives
  <1>8. CASE DaemonExit(p) \/ DaemonCrash(p) \/ PidReuse(p)
    <2>1. PICK s \in {"zombie", "gone", "other"} : proc' = [proc EXCEPT ![p] = s]
      BY <1>8 DEF DaemonExit, DaemonCrash, PidReuse, Die
    <2>2. proc'[p] = s
      BY <2>1 DEF LInv, LockTypes
    <2> QED
      BY <2>1, <2>2, PhaseEnds, OthersLive
  <1> QED
    BY <1>1, <1>2, <1>3, <1>5, <1>6, <1>7, <1>8 DEF Daemon

\* Every pid starts in the initial phase of DaemonProcess, and every step of the
\* plugin, the daemons and the system is one of its steps or leaves it alone.
THEOREM ProcessesLive == ControlSpec => (\A p \in Pids : Process(p)!Init) /\ ProcessLives
  <1>1. ControlInit => \A p \in Pids : Process(p)!Init
    BY DEF ControlInit, Process!Init, Phase, Young, Serving, Ending
  <1>2. LInv /\ [ControlNext]_controlVars => [\A p \in Pids : Lives(p)]_controlVars
    BY PluginLives, DaemonLives DEF ControlNext
  <1>3. ControlSpec => [][\A p \in Pids : Lives(p)]_controlVars
    BY <1>2, LockInvariant, PTL DEF ControlSpec
  <1> QED
    BY <1>1, <1>3, PTL DEF ControlSpec, ProcessLives, Lives
-----------------------------------------------------------------------------
(* The types.                                                              *)

Owners == Threads \cup {Past, Lost}

LEMMA PacketTypes ==
    /\ Packets = [by : Owners, kind : Kinds]
    /\ Past \in Owners /\ Lost \in Owners /\ Threads \subseteq Owners
  BY DEF Packets, Owners

\* A queue whose packets get another owner is still a queue.
LEMMA DisownTypes ==
    ASSUME NEW owners, NEW by \in Owners, NEW queue \in Seq(Packets)
    PROVE  Disown(owners, by, queue) \in Seq(Packets)
  <1>1. Len(queue) \in Nat /\ DOMAIN queue = 1 .. Len(queue)
    OBVIOUS
  <1>2. ASSUME NEW i \in 1 .. Len(queue)
        PROVE  (IF queue[i].by \in owners THEN [queue[i] EXCEPT !.by = by] ELSE queue[i]) \in Packets
    <2>1. queue[i] \in Packets
      BY <1>1, <1>2
    <2>2. [queue[i] EXCEPT !.by = by] \in Packets
      BY <2>1, PacketTypes
    <2> QED
      BY <2>1, <2>2
  <1> DEFINE e(i) == IF queue[i].by \in owners THEN [queue[i] EXCEPT !.by = by] ELSE queue[i]
  <1>3. \A i \in 1 .. Len(queue) : e(i) \in Packets
    BY <1>2
  <1>4. Disown(owners, by, queue) = [i \in 1 .. Len(queue) |-> e(i)]
    BY <1>1 DEF Disown
  <1> HIDE DEF e
  <1>5. [i \in 1 .. Len(queue) |-> e(i)] \in Seq(Packets)
    BY <1>1, <1>3
  <1> QED
    BY <1>4, <1>5

LEMMA ControlInitTypes == ControlInit => ControlTypeOK
  <1> SUFFICES ASSUME ControlInit PROVE ControlTypeOK
    OBVIOUS
  <1>1. inbox \in Seq(Packets) /\ outbox \in Seq(Packets)
    BY DEF ControlInit
  <1>2. /\ proc \in [Pids -> ProcStates]
        /\ step \in [Threads -> Steps]
        /\ asks \in [Threads -> Kinds]
        /\ reapPid \in [Threads -> Pids \cup {NoPid}]
        /\ answer \in [Threads -> Threads \cup {Past, Lost}]
    BY DEF ControlInit, ProcStates, Steps, Kinds
  <1>3. needed \in [Threads -> BOOLEAN] /\ crowded \in BOOLEAN /\ raced \in BOOLEAN
    BY Zenon DEF ControlInit
  <1>4. slow \in 0 .. MaxSlow
    BY ControlAssumption DEF ControlInit
  <1>5. /\ scenario \in Scenarios /\ sessions \in {"none", "resting", "active"}
        /\ lockFile \in Pids \cup {NoPid} /\ port \in Pids \cup {NoPid}
        /\ currDaemonPid \in Pids \cup {NoPid} /\ orphans \subseteq Pids
    BY DEF ControlInit
  <1> QED
    BY <1>1, <1>2, <1>3, <1>4, <1>5 DEF ControlTypeOK

LEMMA CheckTypes ==
    ASSUME ControlTypeOK, NEW t \in Threads, CheckNeed(t) \/ CheckState(t) \/ PageCalls(t) \/ Pending(t)
    PROVE  ControlTypeOK'
  <1>1. step' \in [Threads -> Steps]
    BY DEF ControlTypeOK, CheckNeed, CheckState, PageCalls, Pending, Go, Steps
  <1>2. needed' \in [Threads -> BOOLEAN]
    BY DEF ControlTypeOK, CheckNeed, CheckState, PageCalls, Pending
  <1> QED
    BY <1>1, <1>2 DEF ControlTypeOK, CheckNeed, CheckState, PageCalls, Pending, process, sockets

LEMMA StartTypes == ASSUME ControlTypeOK, NEW t \in Threads, DaemonStart(t) PROVE ControlTypeOK'
  <1>1. step' \in [Threads -> Steps]
    BY DEF ControlTypeOK, DaemonStart, Go, Steps
  <1>2. /\ proc' \in [Pids -> ProcStates] /\ currDaemonPid' \in Pids \cup {NoPid}
        /\ orphans' \subseteq Pids
    BY DEF ControlTypeOK, DaemonStart, ProcStates, Young
  <1> QED
    BY <1>1, <1>2 DEF ControlTypeOK, DaemonStart, sockets

LEMMA SendTypes == ASSUME ControlTypeOK, NEW t \in Threads, Send(t) PROVE ControlTypeOK'
  <1>1. step' \in [Threads -> Steps]
    BY DEF ControlTypeOK, Send, Go, Steps
  <1>2. asks' \in [Threads -> Kinds] /\ answer' \in [Threads -> Threads \cup {Past, Lost}]
    BY DEF ControlTypeOK, Send
  <1>3. inbox' \in Seq(Packets)
    <2>1. PICK k \in Kinds : inbox' = IF port = NoPid THEN inbox ELSE Append(inbox, [by |-> t, kind |-> k])
      BY DEF Send
    <2>2. [by |-> t, kind |-> k] \in Packets
      BY PacketTypes
    <2> QED
      BY <2>1, <2>2 DEF ControlTypeOK
  <1>4. crowded' \in BOOLEAN
    BY Zenon DEF Send
  <1> QED
    BY <1>1, <1>2, <1>3, <1>4 DEF ControlTypeOK, Send, process

LEMMA ReceiveTypes == ASSUME ControlTypeOK, NEW t \in Threads, Receive(t) PROVE ControlTypeOK'
  <1>1. step' \in [Threads -> Steps]
    BY DEF ControlTypeOK, Receive, Go, Steps
  <1>2. reapPid' \in [Threads -> Pids \cup {NoPid}]
    BY DEF ControlTypeOK, Receive
  <1>3. outbox # <<>> /\ outbox \in Seq(Packets)
    BY DEF ControlTypeOK, Receive
  <1>4. Head(outbox) \in Packets /\ Tail(outbox) \in Seq(Packets)
    BY <1>3
  <1>5. answer' \in [Threads -> Threads \cup {Past, Lost}]
    BY <1>4 DEF ControlTypeOK, Receive, Packets
  <1>6. asks' \in [Threads -> Kinds]
    BY DEF ControlTypeOK, Receive, Kinds
  <1>7. inbox' \in Seq(Packets) /\ outbox' \in Seq(Packets)
    BY <1>4, DisownTypes, PacketTypes DEF ControlTypeOK, Receive
  <1> QED
    BY <1>1, <1>2, <1>5, <1>6, <1>7 DEF ControlTypeOK, Receive, process

LEMMA TimeOutTypes == ASSUME ControlTypeOK, NEW t \in Threads, TimeOut(t) PROVE ControlTypeOK'
  <1>1. step' \in [Threads -> Steps] /\ asks' \in [Threads -> Kinds]
    BY DEF ControlTypeOK, TimeOut, Go, Steps, Kinds
  <1>2. slow' \in 0 .. MaxSlow
    BY ControlAssumption DEF ControlTypeOK, TimeOut
  <1>3. inbox' \in Seq(Packets)
    BY DisownTypes, PacketTypes DEF ControlTypeOK, TimeOut
  <1> QED
    BY <1>1, <1>2, <1>3 DEF ControlTypeOK, TimeOut, process

LEMMA ReapTypes == ASSUME ControlTypeOK, NEW t \in Threads, Reap(t) PROVE ControlTypeOK'
  <1>1. step' \in [Threads -> Steps]
    BY DEF ControlTypeOK, Reap, Go, Steps
  <1>2. proc' \in [Pids -> ProcStates] /\ reapPid' \in [Threads -> Pids \cup {NoPid}]
    BY DEF ControlTypeOK, Reap, ProcStates
  <1> QED
    BY <1>1, <1>2 DEF ControlTypeOK, Reap, sockets

LEMMA RestartTypes == ASSUME ControlTypeOK, Restart PROVE ControlTypeOK'
  <1>1. /\ step' \in [Threads -> Steps] /\ asks' \in [Threads -> Kinds]
        /\ reapPid' \in [Threads -> Pids \cup {NoPid}]
        /\ currDaemonPid' \in Pids \cup {NoPid}
    BY DEF Restart, Steps, Kinds
  <1>2. needed' \in [Threads -> BOOLEAN]
    BY Zenon DEF Restart
  <1>3. proc' \in [Pids -> ProcStates] /\ orphans' \subseteq Pids
    BY DEF ControlTypeOK, Restart, ProcStates
  <1>4. inbox' \in Seq(Packets) /\ outbox' \in Seq(Packets)
    <2>1. inbox' = Disown(Threads \cup {Past}, Lost, inbox) /\ inbox \in Seq(Packets)
      BY DEF ControlTypeOK, Restart
    <2>2. outbox' \in Seq(Packets)
      BY DEF Restart
    <2> QED
      BY <2>1, <2>2, DisownTypes, PacketTypes
  <1> QED
    BY <1>1, <1>2, <1>3, <1>4 DEF ControlTypeOK, Restart

LEMMA ServeTypes == ASSUME ControlTypeOK, NEW p \in Pids, DaemonServe(p) PROVE ControlTypeOK'
  <1>1. inbox # <<>> /\ inbox \in Seq(Packets) /\ outbox \in Seq(Packets)
    BY DEF ControlTypeOK, DaemonServe
  <1>2. Head(inbox) \in Packets /\ Tail(inbox) \in Seq(Packets)
    BY <1>1
  <1>3. inbox' \in Seq(Packets) /\ outbox' \in Seq(Packets)
    BY <1>1, <1>2 DEF DaemonServe
  <1>4. proc' \in [Pids -> ProcStates]
    BY DEF ControlTypeOK, DaemonServe, ProcStates, Ending
  <1> QED
    BY <1>3, <1>4 DEF ControlTypeOK, DaemonServe, plugin

LEMMA DieTypes == ASSUME ControlTypeOK, NEW p \in Pids, Die(p) PROVE ControlTypeOK'
  <1>1. /\ proc' \in [Pids -> ProcStates] /\ port' \in Pids \cup {NoPid}
        /\ inbox' \in Seq(Packets)
    BY DEF ControlTypeOK, Die, ProcStates
  <1> QED
    BY <1>1 DEF ControlTypeOK, Die, plugin

LEMMA DaemonTypes ==
    ASSUME ControlTypeOK, NEW p \in Pids,
           DaemonCheck(p) \/ DaemonLock(p) \/ DaemonBind(p) \/ DaemonUnneeded(p) \/ DaemonUnlock(p)
           \/ PidReuse(p)
    PROVE  ControlTypeOK'
  <1>1. proc' \in [Pids -> ProcStates]
    BY DEF ControlTypeOK, DaemonCheck, DaemonLock, DaemonBind, DaemonUnneeded, DaemonUnlock, PidReuse,
           Becomes, ProcStates, Young, Serving, Ending
  <1>2. lockFile' \in Pids \cup {NoPid} /\ port' \in Pids \cup {NoPid} /\ orphans' = orphans
    BY DEF ControlTypeOK, DaemonCheck, DaemonLock, DaemonBind, DaemonUnneeded, DaemonUnlock, PidReuse
  <1>3. raced' \in BOOLEAN
    BY Zenon DEF ControlTypeOK, DaemonCheck, DaemonLock, DaemonBind, DaemonUnneeded, DaemonUnlock, PidReuse
  <1>4. UNCHANGED <<scenario, sessions, plugin, sockets>>
    BY DEF DaemonCheck, DaemonLock, DaemonBind, DaemonUnneeded, DaemonUnlock, PidReuse
  <1> QED
    BY <1>1, <1>2, <1>3, <1>4 DEF ControlTypeOK, plugin, sockets

LEMMA SessionsTypes == ASSUME ControlTypeOK, SessionsChange \/ UNCHANGED controlVars PROVE ControlTypeOK'
  BY DEF ControlTypeOK, SessionsChange, controlVars, plugin, process, sockets

LEMMA ControlTypesStep == ASSUME ControlTypeOK, [ControlNext]_controlVars PROVE ControlTypeOK'
  <1>1. scenario.threads \subseteq Threads
    BY ControlAssumption DEF ControlTypeOK
  <1>2. ASSUME NEW t \in Threads, CheckNeed(t) \/ PageCalls(t) \/ InCall(t) PROVE ControlTypeOK'
    BY <1>2, CheckTypes, StartTypes, SendTypes, ReceiveTypes, TimeOutTypes, ReapTypes DEF InCall
  <1>3. ASSUME NEW p \in Pids, Daemon(p) \/ DaemonUnneeded(p) \/ DaemonCrash(p) \/ PidReuse(p)
        PROVE  ControlTypeOK'
    BY <1>3, ServeTypes, DieTypes, DaemonTypes DEF Daemon, DaemonExit, DaemonCrash
  <1> QED
    BY <1>1, <1>2, <1>3, SessionsTypes, RestartTypes DEF ControlNext

\* The queues hold requests of known owners, the counters stay in their bounds, and
\* a daemon that cannot bind its port leaves the port to the process that has it.
THEOREM ControlTypes == ControlSpec => []ControlTypeOK
  BY ControlTypesStep, ControlInitTypes, PTL DEF ControlSpec
-----------------------------------------------------------------------------
(* OwnAnswer.  As long as one thread at a time is in daemonIPC(), it has    *)
(* one packet underway at most, and every other packet that may reach it   *)
(* is one that has outlived its request, of which slow has counted each.   *)

Queues == Seq(Packets)

\* How many packets of a queue belong to an owner.
Count(owner, queue) == Cardinality(Of(owner, queue))

LEMMA CountTypes ==
    ASSUME NEW queue \in Queues, NEW owner
    PROVE  IsFiniteSet(Of(owner, queue)) /\ Count(owner, queue) \in Nat
  <1>1. Len(queue) \in Nat /\ DOMAIN queue = 1 .. Len(queue)
    BY DEF Queues
  <1>2. IsFiniteSet(1 .. Len(queue))
    BY <1>1, FS_Interval
  <1>3. Of(owner, queue) \subseteq 1 .. Len(queue)
    BY <1>1 DEF Of
  <1>4. IsFiniteSet(Of(owner, queue))
    BY <1>2, <1>3, FS_Subset
  <1> QED
    BY <1>4, FS_CardinalityType DEF Count

LEMMA CountNone == ASSUME NEW owner PROVE Of(owner, <<>>) = {} /\ Count(owner, <<>>) = 0
  BY FS_EmptySet DEF Of, Count

LEMMA CountAppend ==
    ASSUME NEW queue \in Queues, NEW m \in Packets, NEW owner
    PROVE  /\ Of(owner, queue) \subseteq Of(owner, Append(queue, m))
           /\ Count(owner, Append(queue, m)) = Count(owner, queue) + (IF m.by = owner THEN 1 ELSE 0)
           /\ m.by # owner => Of(owner, Append(queue, m)) = Of(owner, queue)
  <1> DEFINE n == Len(queue) + 1
             longer == Append(queue, m)
  <1>1. /\ Len(queue) \in Nat /\ DOMAIN queue = 1 .. Len(queue) /\ DOMAIN longer = 1 .. n
        /\ \A i \in 1 .. Len(queue) : longer[i] = queue[i]
        /\ longer[n] = m
    BY DEF Queues
  <1> HIDE DEF longer
  <1>2. Of(owner, longer) = Of(owner, queue) \cup (IF m.by = owner THEN {n} ELSE {})
    BY <1>1 DEF Of
  <1>3. n \notin Of(owner, queue)
    BY <1>1 DEF Of
  <1>4. IsFiniteSet(Of(owner, queue)) /\ Count(owner, queue) \in Nat
    BY CountTypes
  <1>5. CASE m.by = owner
    <2>1. Of(owner, longer) = Of(owner, queue) \cup {n}
      BY <1>2, <1>5
    <2>2. Cardinality(Of(owner, queue) \cup {n}) = Cardinality(Of(owner, queue)) + 1
      BY <1>3, <1>4, FS_AddElement
    <2> QED
      BY <1>5, <2>1, <2>2 DEF Count, longer
  <1>6. CASE m.by # owner
    <2>1. Of(owner, longer) = Of(owner, queue)
      BY <1>2, <1>6
    <2> QED
      BY <1>4, <1>6, <2>1 DEF Count, longer
  <1> QED
    BY <1>5, <1>6

LEMMA CountTail ==
    ASSUME NEW queue \in Queues, queue # <<>>, NEW owner
    PROVE  /\ Head(queue) \in Packets /\ Tail(queue) \in Queues
           /\ Count(owner, queue) = Count(owner, Tail(queue)) + (IF Head(queue).by = owner THEN 1 ELSE 0)
           /\ Of(owner, queue) = {} => Of(owner, Tail(queue)) = {} /\ Head(queue).by # owner
  <1> DEFINE rest == Tail(queue)
             S == Of(owner, rest)
             T == Of(owner, queue) \ {1}
             f == [i \in S |-> i + 1]
  <1>1. /\ Len(queue) \in Nat \ {0} /\ DOMAIN queue = 1 .. Len(queue)
        /\ rest \in Queues /\ Len(rest) = Len(queue) - 1 /\ DOMAIN rest = 1 .. Len(rest)
        /\ \A i \in 1 .. Len(rest) : rest[i] = queue[i + 1]
        /\ Head(queue) = queue[1] /\ Head(queue) \in Packets
    BY DEF Queues
  <1> HIDE DEF rest
  <1>2. f \in [S -> T]
    BY <1>1 DEF Of
  <1>3. \A a, b \in S : f[a] = f[b] => a = b
    BY <1>1 DEF Of
  <1>4. ASSUME NEW j \in T PROVE \E i \in S : f[i] = j
    <2>1. j \in 2 .. Len(queue) /\ queue[j].by = owner
      BY <1>1 DEF Of
    <2>2. j - 1 \in 1 .. Len(rest) /\ rest[j - 1] = queue[j]
      BY <1>1, <2>1
    <2>3. j - 1 \in S
      BY <1>1, <2>1, <2>2 DEF Of
    <2> QED
      BY <2>1, <2>3
  <1> HIDE DEF f
  <1>5. f \in Bijection(S, T)
    BY <1>2, <1>3, <1>4, Fun_IsBij
  <1>6. IsFiniteSet(S) /\ IsFiniteSet(Of(owner, queue)) /\ Count(owner, queue) \in Nat /\ Count(owner, rest) \in Nat
    BY <1>1, CountTypes
  <1>7. Cardinality(T) = Cardinality(S)
    BY <1>5, <1>6, FS_Bijection DEF ExistsBijection
  <1>8. Cardinality(T) = IF 1 \in Of(owner, queue) THEN Count(owner, queue) - 1 ELSE Count(owner, queue)
    BY <1>6, FS_RemoveElement DEF Count
  <1>9. 1 \in Of(owner, queue) <=> Head(queue).by = owner
    BY <1>1 DEF Of
  <1>10. Count(owner, queue) = Count(owner, rest) + (IF Head(queue).by = owner THEN 1 ELSE 0)
    BY <1>6, <1>7, <1>8, <1>9 DEF Count
  <1>11. Of(owner, queue) = {} => S = {} /\ Head(queue).by # owner
    BY <1>2, <1>9
  <1> QED
    BY <1>1, <1>10, <1>11 DEF rest

LEMMA CountDisown ==
    ASSUME NEW queue \in Queues, NEW t, t # Past
    PROVE  LET left == Disown({t}, Past, queue)
           IN  /\ left \in Queues
               /\ Count(t, left) = 0
               /\ Count(Past, left) = Count(Past, queue) + Count(t, queue)
               /\ \A u : u \notin {t, Past} => Of(u, left) = Of(u, queue)
  <1> DEFINE left == Disown({t}, Past, queue)
  <1>1. left \in Queues
    BY DisownTypes, PacketTypes DEF Queues
  <1>2. /\ DOMAIN left = DOMAIN queue
        /\ \A i \in DOMAIN queue : queue[i] \in Packets
                                   /\ left[i] = IF queue[i].by = t THEN [queue[i] EXCEPT !.by = Past] ELSE queue[i]
    BY DEF Disown, Queues
  <1>3. \A m \in Packets : [m EXCEPT !.by = Past].by = Past
    BY PacketTypes
  <1>4. \A i \in DOMAIN queue : left[i].by = IF queue[i].by = t THEN Past ELSE queue[i].by
    BY <1>2, <1>3
  <1> HIDE DEF left
  <1>5. /\ Of(t, left) = {} /\ Of(Past, left) = Of(Past, queue) \cup Of(t, queue)
        /\ Of(Past, queue) \cap Of(t, queue) = {}
        /\ \A u : u \notin {t, Past} => Of(u, left) = Of(u, queue)
    BY <1>2, <1>4 DEF Of
  <1>6. /\ IsFiniteSet(Of(Past, queue)) /\ IsFiniteSet(Of(t, queue))
        /\ Count(Past, queue) \in Nat /\ Count(t, queue) \in Nat
    BY CountTypes
  <1>7. Cardinality(Of(Past, queue) \cup Of(t, queue)) = Cardinality(Of(Past, queue)) + Cardinality(Of(t, queue))
    <2>1. Cardinality(Of(Past, queue) \cup Of(t, queue)) =
             Cardinality(Of(Past, queue)) + Cardinality(Of(t, queue)) - Cardinality(Of(Past, queue) \cap Of(t, queue))
      BY <1>6, FS_Union
    <2> QED
      BY <1>5, <1>6, <2>1, FS_EmptySet DEF Count
  <1> QED
    BY <1>1, <1>5, <1>7, FS_EmptySet DEF Count, left

-----------------------------------------------------------------------------

\* The packets of an owner that are underway.
Underway(owner) == Count(owner, inbox) + Count(owner, outbox)

LEMMA UnderwayNext ==
    ASSUME NEW owner
    PROVE  /\ Underway(owner)' = Count(owner, inbox') + Count(owner, outbox')
           /\ Of(owner, outbox)' = Of(owner, outbox')
  <1>1. Count(owner, inbox)' = Count(owner, inbox') /\ Count(owner, outbox)' = Count(owner, outbox')
    BY DEF Count, Of
  <1> QED
    BY <1>1 DEF Underway, Of

Waits(t) == step[t] \in InIPC

InTurn ==
    /\ \A t, u \in Threads : Waits(t) /\ Waits(u) => t = u
    /\ \A t \in Threads : Underway(t) <= (IF Waits(t) THEN 1 ELSE 0)
    /\ Of(Lost, outbox) = {}
    /\ Underway(Past) <= slow
    /\ \A t \in Threads : answer[t] = t \/ (slow > 0 /\ answer[t] = Past)

OInv == ControlTypeOK /\ (crowded \/ InTurn)

LEMMA QueueTypes ==
    ASSUME ControlTypeOK
    PROVE  /\ inbox \in Queues /\ outbox \in Queues /\ slow \in Nat
           /\ \A owner : Count(owner, inbox) \in Nat /\ Count(owner, outbox) \in Nat
  <1>1. inbox \in Queues /\ outbox \in Queues /\ slow \in Nat
    BY ControlAssumption DEF ControlTypeOK, Queues
  <1> QED
    BY <1>1, CountTypes

\* Nothing is sent or received, and who waits goes on to wait.
LEMMA TurnStands ==
    ASSUME InTurn, UNCHANGED <<sockets, answer, slow>>, \A t \in Threads : Waits(t)' <=> Waits(t)
    PROVE  InTurn'
  BY DEF InTurn, Underway, Count, Of, sockets

LEMMA CallsInTurn ==
    ASSUME ControlTypeOK, InTurn, NEW t \in Threads,
           CheckNeed(t) \/ CheckState(t) \/ PageCalls(t) \/ DaemonStart(t) \/ Pending(t) \/ Reap(t)
    PROVE  InTurn'
  <1>1. UNCHANGED <<sockets, answer, slow>>
    BY DEF CheckNeed, CheckState, PageCalls, DaemonStart, Pending, Reap, sockets
  <1>2. \/ \E s \in Steps \ InIPC : step[t] \notin InIPC /\ step' = [step EXCEPT ![t] = s]
        \/ \E s \in InIPC : step[t] \in InIPC /\ step' = [step EXCEPT ![t] = s]
    BY DEF CheckNeed, CheckState, PageCalls, DaemonStart, Pending, Reap, Go, InIPC, Steps
  <1>3. \A u \in Threads : Waits(u)' <=> Waits(u)
    BY <1>2 DEF Waits, ControlTypeOK
  <1> QED
    BY <1>1, <1>3, TurnStands

LEMMA SendInTurn ==
    ASSUME ControlTypeOK, InTurn, NEW t \in Threads, Send(t), ~crowded'
    PROVE  InTurn'
  <1>1. /\ \A u \in Threads \ {t} : ~Waits(u)
        /\ step[t] \notin InIPC /\ step' = [step EXCEPT ![t] = "waiting"]
        /\ answer' = [answer EXCEPT ![t] = t] /\ outbox' = outbox /\ slow' = slow
    BY DEF Send, Go, Waits, InIPC
  <1>2. PICK k \in Kinds : inbox' = IF port = NoPid THEN inbox ELSE Append(inbox, [by |-> t, kind |-> k])
    BY DEF Send
  <1>3. \A u \in Threads : Waits(u)' <=> u = t
    BY <1>1 DEF Waits, ControlTypeOK, InIPC
  <1>4. [by |-> t, kind |-> k] \in Packets /\ [by |-> t, kind |-> k].by = t
    BY PacketTypes
  <1>5. inbox \in Queues /\ \A o : Count(o, inbox) \in Nat /\ Count(o, outbox) \in Nat
    BY QueueTypes
  <1>6. \A o : Count(o, inbox') <= Count(o, inbox) + (IF o = t THEN 1 ELSE 0) /\ Count(o, inbox') \in Nat
    BY <1>2, <1>4, <1>5, CountAppend
  <1>7. t # Past
    BY ControlAssumption
  <1>8. \A o : Underway(o)' <= Underway(o) + (IF o = t THEN 1 ELSE 0) /\ Underway(o) \in Nat /\ Underway(o)' \in Nat
    BY <1>1, <1>5, <1>6, UnderwayNext DEF Underway
  <1>9. \A u \in Threads : Underway(u) <= 0
    BY <1>1 DEF InTurn, Waits
  <1>10. \A u \in Threads : Underway(u)' <= (IF Waits(u)' THEN 1 ELSE 0)
    BY <1>3, <1>8, <1>9
  <1>11. Underway(Past)' <= slow'
    BY <1>1, <1>7, <1>8, QueueTypes DEF InTurn
  <1>12. \A u \in Threads : answer'[u] = u \/ (slow' > 0 /\ answer'[u] = Past)
    BY <1>1 DEF InTurn, ControlTypeOK
  <1> QED
    BY <1>1, <1>3, <1>10, <1>11, <1>12 DEF InTurn

\* A thread that leaves daemonIPC() leaves its packet behind as one of the past.
LEMMA Leaves ==
    ASSUME ControlTypeOK, NEW t \in Threads, NEW in \in Queues, NEW out \in Queues,
           inbox' = Disown({t}, Past, in), outbox' = Disown({t}, Past, out)
    PROVE  /\ Underway(t)' = 0
           /\ Underway(Past)' = Count(Past, in) + Count(t, in) + Count(Past, out) + Count(t, out)
           /\ \A u \in Threads \ {t} : Underway(u)' = Count(u, in) + Count(u, out)
           /\ Of(Lost, out) = {} => Of(Lost, outbox)' = {}
  <1>1. t # Past /\ Lost \notin {t, Past} /\ \A u \in Threads \ {t} : u \notin {t, Past}
    BY ControlAssumption DEF Past, Lost
  <1>2. /\ Count(t, inbox') = 0 /\ Count(t, outbox') = 0
        /\ Count(Past, inbox') = Count(Past, in) + Count(t, in)
        /\ Count(Past, outbox') = Count(Past, out) + Count(t, out)
        /\ \A u : u \notin {t, Past} => Of(u, inbox') = Of(u, in) /\ Of(u, outbox') = Of(u, out)
    BY <1>1, CountDisown
  <1>3. \A o : Count(o, in) \in Nat /\ Count(o, out) \in Nat
    BY CountTypes
  <1> QED
    <2>1. Underway(t)' = 0
      BY <1>2, UnderwayNext
    <2>2. Underway(Past)' = Count(Past, in) + Count(t, in) + Count(Past, out) + Count(t, out)
      <3>1. Underway(Past)' = Count(Past, inbox') + Count(Past, outbox')
        BY UnderwayNext
      <3>2. /\ Count(Past, inbox') = Count(Past, in) + Count(t, in)
            /\ Count(Past, outbox') = Count(Past, out) + Count(t, out)
        BY <1>2
      <3>3. /\ Count(Past, in) \in Nat /\ Count(t, in) \in Nat
            /\ Count(Past, out) \in Nat /\ Count(t, out) \in Nat
        BY <1>3
      <3> QED
        BY <3>1, <3>2, <3>3
    <2>3. ASSUME NEW u \in Threads \ {t} PROVE Underway(u)' = Count(u, in) + Count(u, out)
      <3>1. Count(u, inbox') = Count(u, in) /\ Count(u, outbox') = Count(u, out)
        BY <1>1, <1>2 DEF Count
      <3> QED
        BY <3>1, UnderwayNext
    <2>4. Of(Lost, out) = {} => Of(Lost, outbox)' = {}
      BY <1>1, <1>2, UnderwayNext
    <2> QED
      BY <2>1, <2>2, <2>3, <2>4

LEMMA ReceiveInTurn ==
    ASSUME ControlTypeOK, InTurn, NEW t \in Threads, Receive(t)
    PROVE  InTurn'
  <1> DEFINE by == Head(outbox).by
             rest == Tail(outbox)
  <1>1. /\ Waits(t) /\ outbox # <<>> /\ slow' = slow
        /\ \E s \in {"reap", "idle"} : step' = [step EXCEPT ![t] = s]
        /\ answer' = [answer EXCEPT ![t] = by]
        /\ inbox' = Disown({t}, Past, inbox) /\ outbox' = Disown({t}, Past, rest)
    BY DEF Receive, Go, Waits, InIPC
  <1>2. /\ inbox \in Queues /\ outbox \in Queues /\ slow \in Nat
        /\ \A o : Count(o, inbox) \in Nat /\ Count(o, outbox) \in Nat
    BY QueueTypes
  <1>3. /\ Head(outbox) \in Packets /\ rest \in Queues
        /\ \A o : Count(o, outbox) = Count(o, rest) + (IF by = o THEN 1 ELSE 0)
        /\ Of(Lost, rest) = {} /\ by # Lost
    BY <1>1, <1>2, CountTail DEF InTurn
  <1>4. \A o : Count(o, rest) \in Nat
    BY <1>3, CountTypes
  <1> HIDE DEF by, rest
  <1>5. \A u \in Threads \ {t} : ~Waits(u) /\ Underway(u) <= 0
    BY <1>1 DEF InTurn
  <1>6. by \in {t, Past}
    <2>1. by \in Threads \cup {Past}
      BY <1>3, PacketTypes DEF Owners, by
    <2>2. ASSUME NEW u \in Threads \ {t}, by = u PROVE FALSE
      <3>1. Count(u, outbox) >= 1
        BY <1>3, <1>4, <2>2
      <3> QED
        BY <1>2, <1>5, <3>1 DEF Underway
    <2> QED
      BY <2>1, <2>2
  <1>7. t # Past
    BY ControlAssumption
  <1>8. Underway(t) <= 1 /\ Underway(Past) <= slow
    BY <1>1 DEF InTurn
  <1>9. /\ Underway(t)' = 0
        /\ Underway(Past)' = Count(Past, inbox) + Count(t, inbox) + Count(Past, rest) + Count(t, rest)
        /\ \A u \in Threads \ {t} : Underway(u)' = Count(u, inbox) + Count(u, rest)
        /\ Of(Lost, outbox)' = {}
    BY <1>1, <1>2, <1>3, Leaves
  <1>10. Underway(Past)' <= slow'
    BY <1>1, <1>2, <1>3, <1>4, <1>6, <1>7, <1>8, <1>9 DEF Underway
  <1>11. \A u \in Threads \ {t} : Underway(u)' <= 0
    BY <1>2, <1>3, <1>4, <1>5, <1>9 DEF Underway
  <1>12. \A u \in Threads : ~Waits(u)'
    BY <1>1, <1>5 DEF Waits, ControlTypeOK, InIPC
  <1>13. by = Past => slow > 0
    BY <1>2, <1>3, <1>4, <1>8 DEF Underway
  <1>14. \A u \in Threads : answer'[u] = u \/ (slow' > 0 /\ answer'[u] = Past)
    BY <1>1, <1>6, <1>13 DEF InTurn, ControlTypeOK
  <1> QED
    BY <1>9, <1>10, <1>11, <1>12, <1>14 DEF InTurn

LEMMA TimeOutInTurn ==
    ASSUME ControlTypeOK, InTurn, NEW t \in Threads, TimeOut(t)
    PROVE  InTurn'
  <1>1. /\ Waits(t) /\ outbox = <<>> /\ outbox' = outbox /\ answer' = answer
        /\ step' = [step EXCEPT ![t] = "idle"]
        /\ inbox' = Disown({t}, Past, inbox)
        /\ slow' = IF Of(t, inbox) # {} THEN slow + 1 ELSE slow
    BY DEF TimeOut, Go, Waits, InIPC, Of
  <1>2. /\ inbox \in Queues /\ slow \in Nat
        /\ \A o : Count(o, inbox) \in Nat /\ Count(o, outbox) \in Nat
    BY QueueTypes
  <1>3. outbox' = Disown({t}, Past, <<>>) /\ <<>> \in Queues
    BY <1>1 DEF Disown, Queues
  <1>4. /\ Underway(t)' = 0
        /\ Underway(Past)' = Count(Past, inbox) + Count(t, inbox) + Count(Past, <<>>) + Count(t, <<>>)
        /\ \A u \in Threads \ {t} : Underway(u)' = Count(u, inbox) + Count(u, <<>>)
        /\ Of(Lost, outbox)' = {}
    BY <1>1, <1>2, <1>3, Leaves, CountNone
  <1>5. \A o : Count(o, <<>>) = 0 /\ Underway(o) = Count(o, inbox)
    BY <1>1, <1>2, CountNone DEF Underway
  <1>6. \A u \in Threads \ {t} : ~Waits(u) /\ Underway(u) <= 0
    BY <1>1 DEF InTurn
  <1>7. Underway(t) <= 1 /\ Underway(Past) <= slow
    BY <1>1 DEF InTurn
  <1>8. Of(t, inbox) = {} => Count(t, inbox) = 0
    BY FS_EmptySet DEF Count
  <1>9. Underway(Past)' <= slow'
    BY <1>1, <1>2, <1>4, <1>5, <1>7, <1>8
  <1>10. \A u \in Threads \ {t} : Underway(u)' <= 0
    BY <1>2, <1>4, <1>5, <1>6
  <1>11. \A u \in Threads : ~Waits(u)'
    BY <1>1, <1>6 DEF Waits, ControlTypeOK, InIPC
  <1>12. \A u \in Threads : answer'[u] = u \/ (slow' > 0 /\ answer'[u] = Past)
    BY <1>1, <1>2 DEF InTurn
  <1> QED
    BY <1>4, <1>9, <1>10, <1>11, <1>12 DEF InTurn

\* The browser that has ended takes its socket with it.
LEMMA RestartInTurn == ASSUME ControlTypeOK, InTurn, Restart PROVE InTurn'
  <1> DEFINE gone == Threads \cup {Past}
  <1>1. /\ \A t \in Threads : step'[t] = "idle"
        /\ outbox' = <<>> /\ answer' = answer /\ slow' = slow
        /\ inbox' = Disown(gone, Lost, inbox)
    BY DEF Restart
  <1>2. inbox \in Queues /\ slow \in Nat /\ Lost \notin gone
    BY QueueTypes, ControlAssumption DEF Past, Lost
  <1>3. /\ DOMAIN inbox' = DOMAIN inbox
        /\ \A i \in DOMAIN inbox : inbox[i] \in Packets
              /\ inbox'[i] = IF inbox[i].by \in gone THEN [inbox[i] EXCEPT !.by = Lost] ELSE inbox[i]
    BY <1>1, <1>2 DEF Disown, Queues
  <1>4. \A m \in Packets : [m EXCEPT !.by = Lost].by = Lost
    BY PacketTypes
  <1>5. \A i \in DOMAIN inbox : inbox'[i].by \notin gone
    BY <1>2, <1>3, <1>4
  <1>6. \A o \in gone : Of(o, inbox') = {}
    BY <1>3, <1>5 DEF Of
  <1>7. \A o : Count(o, outbox') = 0 /\ Of(o, outbox') = {}
    BY <1>1, CountNone
  <1>8. \A o \in gone : Underway(o)' = 0
    BY <1>6, <1>7, FS_EmptySet, UnderwayNext DEF Count
  <1>9. \A t \in Threads : ~Waits(t)'
    BY <1>1 DEF Waits, InIPC
  <1>10. Of(Lost, outbox)' = {}
    BY <1>7 DEF Of
  <1> QED
    BY <1>1, <1>2, <1>8, <1>9, <1>10 DEF InTurn

LEMMA ServeInTurn ==
    ASSUME ControlTypeOK, InTurn, NEW p \in Pids, DaemonServe(p)
    PROVE  InTurn'
  <1> DEFINE m == Head(inbox)
  <1>1. /\ inbox # <<>> /\ inbox' = Tail(inbox) /\ UNCHANGED <<step, answer, slow>>
        /\ outbox' = IF m.by = Lost THEN outbox ELSE Append(outbox, m)
    BY DEF DaemonServe, plugin
  <1>2. /\ inbox \in Queues /\ outbox \in Queues /\ slow \in Nat
        /\ \A o : Count(o, inbox) \in Nat /\ Count(o, outbox) \in Nat
    BY QueueTypes
  <1>3. /\ m \in Packets /\ inbox' \in Queues
        /\ \A o : Count(o, inbox) = Count(o, inbox') + (IF m.by = o THEN 1 ELSE 0)
    BY <1>1, <1>2, CountTail
  <1>4. \A o : Count(o, inbox') \in Nat
    BY <1>3, CountTypes
  <1> HIDE DEF m
  <1>5. Of(Lost, outbox') = {}
    <2>1. m.by # Lost => Of(Lost, Append(outbox, m)) = Of(Lost, outbox)
      BY <1>2, <1>3, CountAppend
    <2> QED
      BY <1>1, <2>1 DEF InTurn
  <1>6. \A o : Count(o, outbox') <= Count(o, outbox) + (IF m.by = o THEN 1 ELSE 0) /\ Count(o, outbox') \in Nat
    BY <1>1, <1>2, <1>3, CountAppend
  <1>7. \A o : Count(o, inbox') + Count(o, outbox') <= Count(o, inbox) + Count(o, outbox)
    BY <1>2, <1>3, <1>4, <1>6
  <1>8. \A o : Underway(o)' <= Underway(o) /\ Underway(o)' \in Nat /\ Underway(o) \in Nat
    BY <1>2, <1>4, <1>6, <1>7, UnderwayNext DEF Underway
  <1>9. \A u \in Threads : Waits(u)' <=> Waits(u)
    BY <1>1 DEF Waits
  <1>10. \A u \in Threads : Underway(u)' <= (IF Waits(u)' THEN 1 ELSE 0)
    BY <1>8, <1>9 DEF InTurn
  <1>11. Underway(Past)' <= slow'
    BY <1>1, <1>2, <1>8 DEF InTurn
  <1>12. Of(Lost, outbox)' = {}
    BY <1>5 DEF Of
  <1> QED
    BY <1>1, <1>9, <1>10, <1>11, <1>12 DEF InTurn

LEMMA DieInTurn == ASSUME ControlTypeOK, InTurn, NEW p \in Pids, Die(p) PROVE InTurn'
  <1>1. inbox' \in {inbox, <<>>} /\ outbox' = outbox /\ UNCHANGED <<step, answer, slow>>
    BY DEF Die, plugin
  <1>2. /\ slow \in Nat /\ \A o : Count(o, inbox) \in Nat /\ Count(o, outbox) \in Nat
    BY QueueTypes
  <1>3. \A o : Count(o, inbox') <= Count(o, inbox) /\ Count(o, inbox') \in Nat
    BY <1>1, <1>2, CountNone
  <1>4. \A o : Underway(o)' <= Underway(o) /\ Underway(o)' \in Nat /\ Underway(o) \in Nat
    BY <1>1, <1>2, <1>3, UnderwayNext DEF Underway
  <1>5. \A u \in Threads : Waits(u)' <=> Waits(u)
    BY <1>1 DEF Waits
  <1>6. \A u \in Threads : Underway(u)' <= (IF Waits(u)' THEN 1 ELSE 0)
    BY <1>4, <1>5 DEF InTurn
  <1>7. Underway(Past)' <= slow'
    BY <1>1, <1>2, <1>4 DEF InTurn
  <1>8. Of(Lost, outbox)' = {}
    BY <1>1 DEF InTurn, Of
  <1> QED
    BY <1>1, <1>5, <1>6, <1>7, <1>8 DEF InTurn

LEMMA StandsInTurn ==
    ASSUME InTurn, NEW p,
           \/ DaemonCheck(p) \/ DaemonLock(p) \/ DaemonBind(p) \/ DaemonUnlock(p) \/ DaemonUnneeded(p)
           \/ PidReuse(p) \/ SessionsChange \/ UNCHANGED controlVars
    PROVE  InTurn'
  <1>1. UNCHANGED <<sockets, answer, slow, step>>
    BY DEF DaemonCheck, DaemonLock, DaemonBind, DaemonUnlock, DaemonUnneeded, PidReuse, SessionsChange,
           controlVars, plugin, sockets
  <1> QED
    BY <1>1, TurnStands DEF Waits

LEMMA InTurnInitially == ControlInit => OInv
  <1> SUFFICES ASSUME ControlInit PROVE OInv
    OBVIOUS
  <1>1. inbox = <<>> /\ outbox = <<>> /\ slow = 0
        /\ \A t \in Threads : step[t] = "idle" /\ answer[t] = t
    BY DEF ControlInit
  <1>2. \A o : Underway(o) = 0 /\ Of(o, outbox) = {}
    BY <1>1, CountNone DEF Underway
  <1>3. \A t \in Threads : ~Waits(t)
    BY <1>1 DEF Waits, InIPC
  <1> QED
    BY <1>1, <1>2, <1>3, ControlInitTypes DEF OInv, InTurn

LEMMA InTurnStep == ASSUME OInv, [ControlNext]_controlVars PROVE OInv'
  <1>1. ControlTypeOK'
    BY ControlTypesStep DEF OInv
  <1>2. scenario.threads \subseteq Threads
    BY ControlAssumption DEF ControlTypeOK, OInv
  <1>3. ASSUME NEW t \in Threads, CheckNeed(t) \/ PageCalls(t) \/ InCall(t) PROVE crowded' \/ InTurn'
    <2>1. crowded => crowded'
      BY <1>3 DEF CheckNeed, PageCalls, InCall, CheckState, DaemonStart, Send, Pending, Receive, TimeOut, Reap
    <2> QED
      BY <1>3, <2>1, CallsInTurn, SendInTurn, ReceiveInTurn, TimeOutInTurn DEF InCall, OInv
  <1>4. ASSUME NEW p \in Pids, Daemon(p) \/ DaemonUnneeded(p) \/ DaemonCrash(p) \/ PidReuse(p)
        PROVE  crowded' \/ InTurn'
    <2>1. crowded' = crowded
      BY <1>4 DEF Daemon, DaemonUnneeded, DaemonCrash, PidReuse, DaemonCheck, DaemonLock, DaemonBind,
                  DaemonServe, DaemonUnlock, DaemonExit, Die, plugin
    <2> QED
      BY <1>4, <2>1, ServeInTurn, DieInTurn, StandsInTurn DEF Daemon, DaemonExit, DaemonCrash, OInv
  <1>5. CASE Restart \/ SessionsChange \/ UNCHANGED controlVars
    <2>1. crowded' = crowded
      BY <1>5 DEF Restart, SessionsChange, controlVars, plugin
    <2> QED
      BY <1>1, <1>5, <2>1, RestartInTurn, StandsInTurn DEF OInv
  <1>6. crowded' \/ InTurn'
    BY <1>2, <1>3, <1>4, <1>5 DEF ControlNext, OInv
  <1> QED
    BY <1>1, <1>6 DEF OInv

\* OwnAnswer: as long as no two threads have been in daemonIPC() at once, a thread
\* takes the answer to its own request, or a late one, and there are never more
\* late ones underway than requests that have given up, whatever processes crash
\* and are restarted (daemonIPC in DaemonCtl.cpp).
THEOREM OwnAnswers == ControlSpec => []OwnAnswer
  <1>1. OInv => OwnAnswer
    BY DEF OInv, InTurn, OwnAnswer, Underway, Count
  <1> QED
    BY <1>1, InTurnInitially, InTurnStep, PTL DEF ControlSpec

=============================================================================
