--------------------------- MODULE DaemonControl ---------------------------
(***************************************************************************)
(* How the plugin keeps one daemon: checkDaemonNeed() of Hypervisor.cpp,   *)
(* the lock file, the child process and the requests of DaemonCtl.cpp, and *)
(* the requests of the page (CVMWebAPIDaemon.cpp).  What a daemon does     *)
(* with the sessions is in IdleDaemon; here it is a process with a phase.  *)
(***************************************************************************)
EXTENDS Naturals, Sequences, FiniteSets

CONSTANTS
    Threads,      \* threads of the plugin that call into the daemon control
    Pids,         \* process ids
    NoPid,        \* no lock file, no child, nobody has the port
    Scenarios,    \* which threads call and which mishaps may happen together
    MaxSlow       \* bound: answers that come after their request's 250 ms

Mishaps == {"crash", "reuse", "restart", "slow", "crowd"}

\* The owner of a request whose thread gave up, or went on with another answer,
\* and of one whose plugin process, and socket, are gone.
Past == "past"
Lost == "lost"

ASSUME ControlAssumption ==
    /\ NoPid \notin Pids
    /\ Past \notin Threads /\ Lost \notin Threads
    /\ Scenarios \subseteq [threads : SUBSET Threads, mishaps : SUBSET Mishaps]
    /\ MaxSlow \in Nat

VARIABLES
    scenario,     \* chosen at the start
    sessions,     \* of the controlled sessions: "none", "resting", "active"
    lockFile,     \* the pid in run/daemon.pid
    proc,         \* what each process is doing
    port,         \* the process whose endpoint is bound to DAEMON_PORT
    currDaemonPid, \* the last child forked by this plugin process
    orphans,      \* processes whose parent, a plugin process, has ended
    inbox,        \* requests on the daemon's port
    outbox,       \* answers in the one socket of daemonIPC()
    step,         \* where each thread is
    needed,       \* each thread: its local daemonNeeded
    asks,         \* each thread: what it asks the daemon
    reapPid,      \* each thread: its local reapPid
    answer,       \* history: whose request the last answer of a thread was for
    slow,         \* history: how many requests gave up before their answer
    crowded,      \* history: two threads were in daemonIPC() at once
    raced         \* history: two daemons were between check and lock at once

controlVars == <<scenario, sessions, lockFile, proc, port, currDaemonPid, orphans, inbox, outbox,
                 step, needed, asks, reapPid, answer, slow, crowded, raced>>

Kinds == {"shutdown", "query"}
Packets == [by : Threads \cup {Past, Lost}, kind : Kinds]

InIPC == {"waiting", "receiving"}
Steps == {"idle", "look", "start", "stop", "ask", "waiting", "receiving", "reap"}

\* A process before it holds the lock, while it serves, and after.
Young == {"starting", "locking"}
Serving == {"locked", "serving"}
Ending == {"closing", "exiting"}
ProcStates == {"zombie", "gone", "other"} \cup Young \cup Serving \cup Ending

ControlTypeOK ==
    /\ scenario \in Scenarios
    /\ sessions \in {"none", "resting", "active"}
    /\ lockFile \in Pids \cup {NoPid}
    /\ proc \in [Pids -> ProcStates]
    /\ port \in Pids \cup {NoPid}
    /\ currDaemonPid \in Pids \cup {NoPid}
    /\ orphans \subseteq Pids
    /\ inbox \in Seq(Packets) /\ outbox \in Seq(Packets)
    /\ step \in [Threads -> Steps]
    /\ needed \in [Threads -> BOOLEAN]
    /\ asks \in [Threads -> Kinds]
    /\ reapPid \in [Threads -> Pids \cup {NoPid}]
    /\ answer \in [Threads -> Threads \cup {Past, Lost}]
    /\ slow \in 0 .. MaxSlow
    /\ crowded \in BOOLEAN /\ raced \in BOOLEAN

ControlInit ==
    /\ scenario \in Scenarios
    /\ sessions = "none"
    /\ lockFile = NoPid
    /\ proc = [p \in Pids |-> "gone"]
    /\ port = NoPid
    /\ currDaemonPid = NoPid
    /\ orphans = {}
    /\ inbox = <<>> /\ outbox = <<>>
    /\ step = [t \in Threads |-> "idle"]
    /\ needed = [t \in Threads |-> FALSE]
    /\ asks = [t \in Threads |-> "query"]
    /\ reapPid = [t \in Threads |-> NoPid]
    /\ answer = [t \in Threads |-> t]
    /\ slow = 0 /\ crowded = FALSE /\ raced = FALSE

\* isAlive(pid): kill(pid, 0) also succeeds for a zombie, and for whichever
\* other process has the pid by now.
IsAlive(p) == proc[p] # "gone"

IsDaemonRunning == lockFile # NoPid /\ IsAlive(lockFile)

plugin == <<step, needed, asks, reapPid, answer, slow, crowded, currDaemonPid>>
process == <<lockFile, proc, port, orphans, raced>>
sockets == <<inbox, outbox>>

Go(t, from, to) == step[t] = from /\ step' = [step EXCEPT ![t] = to]

\* Whether a mishap is part of the scenario.
May(mishap) == mishap \in scenario.mishaps

-----------------------------------------------------------------------------
(* The plugin.                                                             *)

\* A session's state, or its daemonControlled flag, changes.
SessionsChange ==
    /\ \E s \in {"none", "resting", "active"} \ {sessions} : sessions' = s
    /\ UNCHANGED <<scenario, plugin, process, sockets>>

\* checkDaemonNeed() up to the end of its loop.
CheckNeed(t) ==
    /\ Go(t, "idle", "look")
    /\ needed' = [needed EXCEPT ![t] = (sessions = "active")]
    /\ UNCHANGED <<scenario, sessions, asks, reapPid, answer, slow, crowded, currDaemonPid, process, sockets>>

\* Mutated form of CheckState: the last child stands for the daemon.
CheckStateChild(t) ==
    /\ LET running == currDaemonPid # NoPid /\ IsAlive(currDaemonPid)
       IN Go(t, "look", IF needed[t] = running THEN "idle" ELSE IF needed[t] THEN "start" ELSE "stop")
    /\ needed' = [needed EXCEPT ![t] = FALSE]
    /\ UNCHANGED <<scenario, sessions, asks, reapPid, answer, slow, crowded, currDaemonPid, process, sockets>>

\* The rest of it: compare with the lock file, start or stop.
CheckState(t) ==
    /\ Go(t, "look", IF needed[t] = IsDaemonRunning THEN "idle"
                     ELSE IF needed[t] THEN "start" ELSE "stop")
    /\ needed' = [needed EXCEPT ![t] = FALSE]
    /\ UNCHANGED <<scenario, sessions, asks, reapPid, answer, slow, crowded, currDaemonPid, process, sockets>>

\* CVMWebAPIDaemon::start(), stop(), and its three ways to ask the daemon.
PageCalls(t) ==
    /\ \/ ~IsDaemonRunning /\ Go(t, "idle", "start")
       \/ Go(t, "idle", "stop")
       \/ Go(t, "idle", "ask")
    /\ UNCHANGED <<scenario, sessions, needed, asks, reapPid, answer, slow, crowded, currDaemonPid, process, sockets>>

DaemonStart(t) ==
    /\ Go(t, "start", "idle")
    /\ \E p \in Pids :
          /\ proc[p] = "gone"
          /\ proc' = [proc EXCEPT ![p] = "starting"]
          /\ currDaemonPid' = p
          /\ orphans' = orphans \ {p}
    /\ UNCHANGED <<scenario, sessions, lockFile, port, raced, needed, asks, reapPid, answer, slow, crowded, sockets>>

\* A request to a port that nobody has is lost.
Send(t) ==
    /\ \E k \in Kinds :
          /\ Go(t, IF k = "shutdown" THEN "stop" ELSE "ask", "waiting")
          /\ asks' = [asks EXCEPT ![t] = k]
          /\ answer' = [answer EXCEPT ![t] = t]
          /\ inbox' = IF port = NoPid THEN inbox
                      ELSE Append(inbox, [by |-> t, kind |-> k])
    /\ (\E u \in Threads \ {t} : step[u] \in InIPC) => May("crowd")
    /\ crowded' = (crowded \/ \E u \in Threads \ {t} : step[u] \in InIPC)
    /\ UNCHANGED <<scenario, sessions, needed, reapPid, slow, currDaemonPid, process, outbox>>

\* select() finds a datagram: recvfrom() follows, which waits for ever when
\* another thread has taken it.
Pending(t) ==
    /\ outbox # <<>>
    /\ Go(t, "waiting", "receiving")
    /\ UNCHANGED <<scenario, sessions, needed, asks, reapPid, answer, slow, crowded, currDaemonPid, process, sockets>>

Disown(owners, by, queue) ==
    [i \in DOMAIN queue |-> IF queue[i].by \in owners THEN [queue[i] EXCEPT !.by = by] ELSE queue[i]]

\* The first datagram is the answer, whoever it was for: the thread goes on, and
\* its own answer may be yet to come.  daemonStop() then chooses the process it
\* will wait for.
Receive(t) ==
    /\ outbox # <<>>
    /\ Go(t, "receiving", IF asks[t] = "shutdown" THEN "reap" ELSE "idle")
    /\ reapPid' = [reapPid EXCEPT ![t] = IF asks[t] # "shutdown" THEN NoPid
                                         ELSE IF currDaemonPid # NoPid THEN currDaemonPid
                                         ELSE lockFile]
    /\ asks' = [asks EXCEPT ![t] = "query"]
    /\ answer' = [answer EXCEPT ![t] = Head(outbox).by]
    /\ inbox' = Disown({t}, Past, inbox) /\ outbox' = Disown({t}, Past, Tail(outbox))
    /\ UNCHANGED <<scenario, sessions, needed, slow, crowded, currDaemonPid, process>>

\* Mutated form of TimeOut: a late answer that has just come is left behind.
TimeOutBlind(t) ==
    /\ Go(t, "waiting", "idle")
    /\ slow' = slow
    /\ inbox' = Disown({t}, Past, inbox) /\ outbox' = Disown({t}, Past, outbox)
    /\ asks' = [asks EXCEPT ![t] = "query"]
    /\ UNCHANGED <<scenario, sessions, needed, reapPid, answer, crowded, currDaemonPid, process>>

\* 250 ms have passed.  The request may be answered yet.
TimeOut(t) ==
    /\ outbox = <<>>
    /\ Go(t, "waiting", "idle")
    /\ IF \E i \in DOMAIN inbox : inbox[i].by = t
       THEN May("slow") /\ slow < MaxSlow /\ slow' = slow + 1
       ELSE slow' = slow
    /\ inbox' = Disown({t}, Past, inbox)
    /\ asks' = [asks EXCEPT ![t] = "query"]
    /\ UNCHANGED <<scenario, sessions, needed, reapPid, answer, crowded, currDaemonPid, process, outbox>>

\* Mutated form of Reap: only a child that has ended lets it go on.
ReapChild(t) ==
    /\ Go(t, "reap", "idle")
    /\ reapPid[t] # NoPid /\ proc[reapPid[t]] = "zombie"
    /\ proc' = [proc EXCEPT ![reapPid[t]] = "gone"]
    /\ reapPid' = [reapPid EXCEPT ![t] = NoPid]
    /\ UNCHANGED <<scenario, sessions, needed, asks, answer, slow, crowded, currDaemonPid,
                   lockFile, port, orphans, raced, sockets>>

\* waitpid() without a limit: it returns for a child that has ended, and for
\* what is no child, or no child any more.
Reap(t) ==
    /\ Go(t, "reap", "idle")
    /\ reapPid[t] \notin orphans \cup {NoPid} => proc[reapPid[t]] \in {"zombie", "gone", "other"}
    /\ proc' = IF reapPid[t] # NoPid /\ proc[reapPid[t]] = "zombie"
               THEN [proc EXCEPT ![reapPid[t]] = "gone"] ELSE proc
    /\ reapPid' = [reapPid EXCEPT ![t] = NoPid]
    /\ UNCHANGED <<scenario, sessions, needed, asks, answer, slow, crowded, currDaemonPid,
                   lockFile, port, orphans, raced, sockets>>

\* The browser ends and is started again: its children, dead or alive, are
\* adopted, and nobody waits for them; answers to its socket are lost.
Restart ==
    /\ May("restart")
    /\ orphans = {}              \* bound: one generation of orphans
    /\ currDaemonPid # NoPid
    /\ currDaemonPid' = NoPid
    /\ step' = [t \in Threads |-> "idle"]
    /\ needed' = [t \in Threads |-> FALSE]
    /\ asks' = [t \in Threads |-> "query"]
    /\ reapPid' = [t \in Threads |-> NoPid]
    /\ proc' = [p \in Pids |-> IF proc[p] = "zombie" THEN "gone" ELSE proc[p]]
    /\ orphans' = {p \in Pids : proc[p] \notin {"zombie", "gone", "other"}}
    /\ outbox' = <<>>
    /\ inbox' = Disown(Threads \cup {Past}, Lost, inbox)
    /\ UNCHANGED <<scenario, sessions, answer, slow, crowded, lockFile, port, raced>>

-----------------------------------------------------------------------------
(* A daemon process.                                                       *)

Becomes(p, from, to) == proc[p] = from /\ proc' = [proc EXCEPT ![p] = to]

\* Mutated form of DaemonCheck: the process locks without looking.
DaemonCheckNothing(p) ==
    /\ Becomes(p, "starting", "locking")
    /\ raced' = (raced \/ \E q \in Pids \ {p} : proc[q] = "locking")
    /\ UNCHANGED <<scenario, sessions, lockFile, port, orphans, plugin, sockets>>

\* main(): isDaemonRunning() ...
DaemonCheck(p) ==
    /\ Becomes(p, "starting", IF ~IsDaemonRunning THEN "locking"
                              ELSE IF p \in orphans THEN "gone" ELSE "zombie")
    /\ raced' = (raced \/ (~IsDaemonRunning /\ \E q \in Pids \ {p} : proc[q] = "locking"))
    /\ UNCHANGED <<scenario, sessions, lockFile, port, orphans, plugin, sockets>>

\* ... then daemonLock(), which writes the file whatever it holds by now.
DaemonLock(p) ==
    /\ Becomes(p, "locking", "locked")
    /\ lockFile' = p
    /\ UNCHANGED <<scenario, sessions, port, orphans, raced, plugin, sockets>>

\* The server thread binds the port.  Nobody looks at the endpoint's errorCode:
\* when another process has the port, this daemon is deaf.
DaemonBind(p) ==
    /\ Becomes(p, "locked", "serving")
    /\ port' = IF port = NoPid THEN p ELSE port
    /\ UNCHANGED <<scenario, sessions, lockFile, orphans, raced, plugin, sockets>>

\* The server thread takes one request, and answers.
DaemonServe(p) ==
    /\ proc[p] = "serving" /\ port = p /\ inbox # <<>>
    /\ inbox' = Tail(inbox)
    /\ outbox' = IF Head(inbox).by = Lost THEN outbox ELSE Append(outbox, Head(inbox))
    /\ proc' = IF Head(inbox).kind = "shutdown" THEN [proc EXCEPT ![p] = "closing"] ELSE proc
    /\ UNCHANGED <<scenario, sessions, lockFile, port, orphans, raced, plugin>>

\* Mutated form of DaemonUnneeded: the process ends at once, or before it serves.
DaemonUnneededEarly(p) ==
    /\ sessions = "none"
    /\ \E s \in Young : Becomes(p, s, "closing")
    /\ UNCHANGED <<scenario, sessions, lockFile, port, orphans, raced, plugin, sockets>>

\* The reload thread finds no controlled session.
DaemonUnneeded(p) ==
    /\ sessions = "none"
    /\ \E s \in Serving : Becomes(p, s, "closing")
    /\ UNCHANGED <<scenario, sessions, lockFile, port, orphans, raced, plugin, sockets>>

\* The main loop has seen the end: daemonUnlock() removes the file, whoever
\* wrote it last ...
DaemonUnlock(p) ==
    /\ Becomes(p, "closing", "exiting")
    /\ lockFile' = NoPid
    /\ UNCHANGED <<scenario, sessions, port, orphans, raced, plugin, sockets>>

\* ... and the process ends some time later, with its socket.  The plugin is
\* its parent, unless it has been restarted since.
Die(p) ==
    /\ proc' = [proc EXCEPT ![p] = IF p \in orphans THEN "gone" ELSE "zombie"]
    /\ port' = IF port = p THEN NoPid ELSE port
    /\ inbox' = IF port = p THEN <<>> ELSE inbox
    /\ UNCHANGED <<scenario, sessions, lockFile, orphans, raced, plugin, outbox>>

DaemonExit(p) == proc[p] = "exiting" /\ Die(p)

DaemonCrash(p) ==
    /\ May("crash")
    /\ proc[p] \in Young \cup Serving \cup Ending
    /\ Die(p)

\* Another program gets the pid of a process that is gone.  It makes a
\* difference when the lock file names it.
PidReuse(p) ==
    /\ May("reuse")
    /\ lockFile = p
    /\ Becomes(p, "gone", "other")
    /\ UNCHANGED <<scenario, sessions, lockFile, port, orphans, raced, plugin, sockets>>

Daemon(p) ==
    \/ DaemonCheck(p) \/ DaemonLock(p) \/ DaemonBind(p) \/ DaemonServe(p)
    \/ DaemonUnlock(p) \/ DaemonExit(p)

InCall(t) ==
    \/ CheckState(t) \/ DaemonStart(t) \/ Send(t) \/ Pending(t)
    \/ Receive(t) \/ TimeOut(t) \/ Reap(t)

ControlNext ==
    \/ SessionsChange \/ Restart
    \/ \E t \in scenario.threads : CheckNeed(t) \/ PageCalls(t) \/ InCall(t)
    \/ \E p \in Pids : Daemon(p) \/ DaemonUnneeded(p) \/ DaemonCrash(p) \/ PidReuse(p)

ControlSpec == ControlInit /\ [][ControlNext]_controlVars

\* Threads and processes run: what has been called goes on, and the time of a
\* request that is not answered runs out.  Nobody has to call.
FairControl ==
    /\ ControlSpec
    /\ \A t \in Threads : WF_controlVars(InCall(t))
    /\ \A p \in Pids : WF_controlVars(Daemon(p))

-----------------------------------------------------------------------------

\* As long as no two daemons have been between their check and their lock at
\* once, the lock file names every daemon that serves: checkDaemonNeed() finds
\* it, and there is only one.
LockTells == raced \/ \A p \in Pids : proc[p] \in Serving => lockFile = p

\* The packets of a queue that belong to an owner.
Of(owner, queue) == {i \in DOMAIN queue : queue[i].by = owner}

\* A late answer stays in the socket and shifts every later one: a thread never
\* takes an answer older than its request unless a request has outlived its
\* 250 ms, and there are never more of those underway than there were late
\* requests.  Two threads in daemonIPC() may take each other's.
OwnAnswer ==
    crowded \/ /\ \A t \in Threads : answer[t] = t \/ (slow > 0 /\ answer[t] = Past)
               /\ Cardinality(Of(Past, inbox)) + Cardinality(Of(Past, outbox)) <= slow

\* No call stays for ever in daemonIPC() or waitpid(), with one exception, which
\* exists: the child that daemonStop() chooses to wait for is not the daemon it
\* has told to end, and serves on.
CallsReturn ==
    \A t \in Threads :
        []<>(\/ step[t] \notin {"waiting", "receiving", "reap"}
             \/ crowded
             \/ step[t] = "reap" /\ reapPid[t] # NoPid /\ proc[reapPid[t]] \in Young \cup Serving)

\* The lock file names a process that is not a daemon: one that has crashed and
\* that nobody waits for, or a stranger with its pid.
StaleLock == lockFile # NoPid /\ proc[lockFile] \in {"zombie", "other"}

\* While sessions need a daemon, the plugin goes on checking, and nothing is
\* killed any more, a daemon serves again and again.  A stale lock file is the
\* only thing that can prevent it.
NeedServed ==
    (/\ <>[](sessions = "active")
     /\ []<>(\E t \in Threads : step[t] = "look" /\ needed[t])
     /\ <>[][~Restart /\ \A p \in Pids : ~DaemonCrash(p)]_controlVars)
    => []<>(StaleLock \/ \E p \in Pids : proc[p] \in Serving)

\* Each pid goes through the life of DaemonProcess, over and over.
Phase(p) ==
    IF proc[p] \in Young THEN "starting"
    ELSE IF proc[p] \in Serving THEN "serving"
    ELSE IF proc[p] \in Ending THEN "closing" ELSE "none"

Process(p) == INSTANCE DaemonProcess WITH phase <- Phase(p)

ProcessLives ==
    [][\A p \in Pids : Process(p)!Next \/ UNCHANGED Phase(p)]_controlVars
=============================================================================
