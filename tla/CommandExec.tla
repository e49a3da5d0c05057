---------------------------- MODULE CommandExec ----------------------------
(***************************************************************************)
(* How the plugin runs one command of VBoxManage: the mutex named after    *)
(* the machine (wrapExec() and its likes, NAMED_MUTEX_LOCK), the tries of  *)
(* sysExec(), and the child of __sysExec(), whose POSIX and Windows forms  *)
(* differ.  What a command does to a machine is in VBoxSession.            *)
(***************************************************************************)
EXTENDS Naturals

CONSTANTS
    Callers,      \* threads that run commands
    Names,        \* the names of mutexes: uuids of machines, and "generic"
    Nobody,       \* no name, no mutex
    MaxRetries,   \* bound: the tries a caller may ask for
    MaxAborts     \* bound: how often the page closes

ASSUME ExecAssumption ==
    /\ Nobody \notin Names \cup Callers
    /\ MaxRetries \in Nat /\ MaxAborts \in Nat

VARIABLES
    platform,        \* chosen at the start
    sysExecAborted,  \* the flag of abortSysExec(), one for all plugin instances
    aborts,          \* how often it was set
    namedMutexStack, \* each name: its mutex, told by the caller that allocated it
    wants,           \* each caller: the name it locks
    mutexOf,         \* each caller: the mutex it has got for it
    execStep,        \* each caller: where it is
    tryLeft,         \* each caller: tries it still has
    ret,             \* each caller: the result of its last try, all but 0 and 255 alike
    child,           \* each caller: its child process
    strays,          \* names for which a child runs that nobody waits for
    racedGet,        \* history: two mutexes were allocated for one name
    cutBy,           \* history, each caller: what has cut its last try
    wellDone         \* history, each caller: its last try has succeeded

execVars == <<platform, sysExecAborted, aborts, namedMutexStack, wants, mutexOf, execStep,
              tryLeft, ret, child, strays, racedGet, cutBy, wellDone>>

\* A caller holds its mutex here.
Inside == {"begin", "run", "poll", "wait", "judge", "release"}

\* How a command ends: with exit code 0 and no error word on stderr, or not.
Exits == {"ok", "failure"}

\* A child runs or has ended; its pipes are held, by it or by a child of its
\* own, or closed.
Children == [life : {"running"} \cup Exits, pipes : BOOLEAN]
NoChild == [life |-> "none", pipes |-> FALSE]

ExecTypeOK ==
    /\ platform \in {"posix", "windows"}
    /\ sysExecAborted \in BOOLEAN
    /\ aborts \in 0 .. MaxAborts
    /\ namedMutexStack \in [Names -> Callers \cup {Nobody}]
    /\ wants \in [Callers -> Names \cup {Nobody}]
    /\ mutexOf \in [Callers -> Callers \cup {Nobody}]
    /\ execStep \in [Callers -> {"idle", "find", "alloc", "lock"} \cup Inside]
    /\ tryLeft \in [Callers -> 0 .. MaxRetries]
    /\ ret \in [Callers -> Exits \cup {"none", "255"}]
    /\ child \in [Callers -> Children \cup {NoChild}]
    /\ strays \subseteq Names
    /\ racedGet \in BOOLEAN
    /\ cutBy \in [Callers -> {"nothing", "abort", "time"}]
    /\ wellDone \in [Callers -> BOOLEAN]

ExecInit ==
    /\ platform \in {"posix", "windows"}
    /\ sysExecAborted = FALSE /\ aborts = 0
    /\ namedMutexStack = [n \in Names |-> Nobody]
    /\ wants = [c \in Callers |-> Nobody]
    /\ mutexOf = [c \in Callers |-> Nobody]
    /\ execStep = [c \in Callers |-> "idle"]
    /\ tryLeft = [c \in Callers |-> 0]
    /\ ret = [c \in Callers |-> "none"]
    /\ child = [c \in Callers |-> NoChild]
    /\ strays = {}
    /\ racedGet = FALSE
    /\ cutBy = [c \in Callers |-> "nothing"]
    /\ wellDone = [c \in Callers |-> FALSE]

page == <<platform, sysExecAborted, aborts>>
locks == <<namedMutexStack, wants, mutexOf, racedGet>>
tries == <<tryLeft, ret, cutBy>>
processes == <<child, strays, wellDone>>

ExecGo(c, from, to) == execStep[c] = from /\ execStep' = [execStep EXCEPT ![c] = to]

-----------------------------------------------------------------------------
(* The mutex.                                                              *)

RunCommand(c) ==
    /\ ExecGo(c, "idle", "find")
    /\ \E n \in Names : wants' = [wants EXCEPT ![c] = n]
    /\ UNCHANGED <<page, namedMutexStack, mutexOf, racedGet, tries, processes>>

\* __nmutex_get() looks into the map without a lock ...
FindMutex(c) ==
    /\ ExecGo(c, "find", IF namedMutexStack[wants[c]] = Nobody THEN "alloc" ELSE "lock")
    /\ mutexOf' = [mutexOf EXCEPT ![c] = namedMutexStack[wants[c]]]
    /\ UNCHANGED <<page, namedMutexStack, wants, racedGet, tries, processes>>

\* ... and puts a mutex of its own there when it has found none.
AllocMutex(c) ==
    /\ ExecGo(c, "alloc", "lock")
    /\ racedGet' = (racedGet \/ namedMutexStack[wants[c]] # Nobody)
    /\ namedMutexStack' = [namedMutexStack EXCEPT ![wants[c]] = c]
    /\ mutexOf' = [mutexOf EXCEPT ![c] = c]
    /\ UNCHANGED <<page, wants, tries, processes>>

LockMutex(c) ==
    /\ \A d \in Callers \ {c} :
          execStep[d] \in Inside => wants[d] # wants[c] \/ mutexOf[d] # mutexOf[c]
    /\ ExecGo(c, "lock", "begin")
    /\ UNCHANGED <<page, locks, tries, processes>>

\* NAMED_MUTEX_UNLOCK, after half a second.
ReleaseMutex(c) ==
    /\ ExecGo(c, "release", "idle")
    /\ wants' = [wants EXCEPT ![c] = Nobody]
    /\ mutexOf' = [mutexOf EXCEPT ![c] = Nobody]
    /\ ret' = [ret EXCEPT ![c] = "none"]
    /\ cutBy' = [cutBy EXCEPT ![c] = "nothing"]
    /\ wellDone' = [wellDone EXCEPT ![c] = FALSE]
    /\ tryLeft' = [tryLeft EXCEPT ![c] = 0]
    /\ UNCHANGED <<page, namedMutexStack, racedGet, child, strays>>

-----------------------------------------------------------------------------
(* sysExec().                                                              *)

Begin(c) ==
    /\ \E n \in 0 .. MaxRetries :
          /\ tryLeft' = [tryLeft EXCEPT ![c] = IF sysExecAborted THEN 0 ELSE n]
          /\ ExecGo(c, "begin", IF sysExecAborted \/ n = 0 THEN "release" ELSE "run")
    /\ ret' = [ret EXCEPT ![c] = IF sysExecAborted THEN "255" ELSE "failure"]
    /\ UNCHANGED <<page, locks, cutBy, processes>>

\* Mutated form of Judge: the tries are not counted.
JudgeUncounted(c) ==
    /\ ExecGo(c, "judge", IF ret[c] \in {"ok", "255"} THEN "release" ELSE "run")
    /\ tryLeft' = [tryLeft EXCEPT ![c] = @ - 1]
    /\ UNCHANGED <<page, locks, ret, cutBy, processes>>

\* Only 0 and 255 end the tries.  A cut try has "ERROR" on stderr: its 254
\* becomes 253, like any complaint, and is tried again after a delay.
Judge(c) ==
    /\ ExecGo(c, "judge", IF ret[c] \in {"ok", "255"} \/ tryLeft[c] = 1 THEN "release" ELSE "run")
    /\ tryLeft' = [tryLeft EXCEPT ![c] = @ - 1]
    /\ UNCHANGED <<page, locks, ret, cutBy, processes>>

-----------------------------------------------------------------------------
(* __sysExec() and its child.                                              *)

Spawn(c) ==
    /\ \/ /\ ExecGo(c, "run", "poll")
          /\ child' = [child EXCEPT ![c] = [life |-> "running", pipes |-> TRUE]]
          /\ ret' = ret
       \/ /\ ExecGo(c, "run", "judge")
          /\ ret' = [ret EXCEPT ![c] = "failure"]
          /\ child' = child
    /\ cutBy' = [cutBy EXCEPT ![c] = "nothing"]
    /\ wellDone' = [wellDone EXCEPT ![c] = FALSE]
    /\ UNCHANGED <<page, locks, tryLeft, strays>>

\* The command closes its output and may run on ...
PipesClose(c) ==
    /\ child[c].pipes
    /\ child' = [child EXCEPT ![c].pipes = FALSE]
    /\ UNCHANGED <<page, locks, tries, execStep, strays, wellDone>>

\* ... or ends, and something it has started may keep the output open.
ChildEnds(c) ==
    /\ child[c].life = "running"
    /\ \E e \in Exits :
          /\ child' = [child EXCEPT ![c].life = e]
          /\ wellDone' = [wellDone EXCEPT ![c] = e = "ok"]
    /\ UNCHANGED <<page, locks, tries, execStep, strays>>

StrayEnds(n) ==
    /\ n \in strays
    /\ strays' = strays \ {n}
    /\ UNCHANGED <<page, locks, tries, execStep, child, wellDone>>

\* The poll loop ends with the output.  The POSIX one looks at the flag first.
Drained(c) ==
    /\ ~child[c].pipes
    /\ platform = "posix" => ~sysExecAborted
    /\ ExecGo(c, "poll", "wait")
    /\ UNCHANGED <<page, locks, tries, processes>>

\* waitpid() has no limit.  The Windows loop looks at the flag before it looks
\* whether the process has ended.
Wait(c) ==
    /\ child[c].life # "running"
    /\ platform = "windows" => ~sysExecAborted
    /\ ExecGo(c, "wait", "judge")
    /\ ret' = [ret EXCEPT ![c] = child[c].life]
    /\ child' = [child EXCEPT ![c] = NoChild]
    /\ UNCHANGED <<page, locks, tryLeft, cutBy, strays, wellDone>>

\* Where a try can be cut, by the flag or by its time.
Cuttable(c) ==
    \/ execStep[c] = "poll"
    \/ platform = "windows" /\ execStep[c] = "wait"

CutCode(cause) == IF (platform = "posix") = (cause = "abort") THEN "failure" ELSE "255"

\* Mutated form of Cut: only an abort cuts.
CutAborted(c) ==
    /\ Cuttable(c) /\ sysExecAborted
    /\ cutBy' = [cutBy EXCEPT ![c] = "abort"]
    /\ ret' = [ret EXCEPT ![c] = CutCode("abort")]
    /\ strays' = IF platform = "windows" /\ child[c].life = "running"
                 THEN strays \cup {wants[c]} ELSE strays
    /\ child' = [child EXCEPT ![c] = NoChild]
    /\ execStep' = [execStep EXCEPT ![c] = "judge"]
    /\ UNCHANGED <<page, locks, tryLeft, wellDone>>

\* Mutated form of Cut: the child is not killed.
CutAlive(c) ==
    /\ Cuttable(c)
    /\ \E cause \in {"abort", "time"} :
          /\ cause = "time" <=> ~sysExecAborted
          /\ cutBy' = [cutBy EXCEPT ![c] = cause]
          /\ ret' = [ret EXCEPT ![c] = CutCode(cause)]
    /\ strays' = IF child[c].life = "running" THEN strays \cup {wants[c]} ELSE strays
    /\ child' = [child EXCEPT ![c] = NoChild]
    /\ execStep' = [execStep EXCEPT ![c] = "judge"]
    /\ UNCHANGED <<page, locks, tryLeft, wellDone>>

\* POSIX kills the child and waits for it, Windows closes its handles.  POSIX
\* takes every cut under the flag for an abort, Windows looks at the time first.
Cut(c) ==
    /\ Cuttable(c)
    /\ \E cause \in {"abort", "time"} :
          /\ cause = "abort" => sysExecAborted
          /\ cause = "time" => platform = "windows" \/ ~sysExecAborted
          /\ cutBy' = [cutBy EXCEPT ![c] = cause]
          /\ ret' = [ret EXCEPT ![c] = CutCode(cause)]
    /\ strays' = IF platform = "windows" /\ child[c].life = "running"
                 THEN strays \cup {wants[c]} ELSE strays
    /\ child' = [child EXCEPT ![c] = NoChild]
    /\ execStep' = [execStep EXCEPT ![c] = "judge"]
    /\ UNCHANGED <<page, locks, tryLeft, wellDone>>

-----------------------------------------------------------------------------

\* The page goes away, and with it the commands of every other page.
Abort ==
    /\ ~sysExecAborted /\ aborts < MaxAborts
    /\ sysExecAborted' = TRUE
    /\ aborts' = aborts + 1
    /\ UNCHANGED <<platform, locks, tries, execStep, processes>>

\* Another instance of the plugin is created.
Instantiate ==
    /\ sysExecAborted
    /\ sysExecAborted' = FALSE
    /\ UNCHANGED <<platform, aborts, locks, tries, execStep, processes>>

Within(c) ==
    \/ FindMutex(c) \/ AllocMutex(c) \/ ReleaseMutex(c) \/ Begin(c) \/ Judge(c)
    \/ Spawn(c) \/ Drained(c) \/ Wait(c) \/ Cut(c)

ExecNext ==
    \/ Abort \/ Instantiate
    \/ \E c \in Callers : RunCommand(c) \/ LockMutex(c) \/ PipesClose(c) \/ ChildEnds(c) \/ Within(c)
    \/ \E n \in Names : StrayEnds(n)

ExecSpec == ExecInit /\ [][ExecNext]_execVars

\* Threads run, and the time of a try runs out.  Commands need not end.
FairExec == ExecSpec /\ \A c \in Callers : WF_execVars(Within(c))

-----------------------------------------------------------------------------

\* Every way out of __sysExec() has collected the child: no zombie, and on POSIX
\* no process, is left to a caller that is past it.
NoChildLeft ==
    \A c \in Callers : execStep[c] \notin {"poll", "wait"} => child[c] = NoChild

\* VBoxManage is never run twice at a time on one machine, which locks its
\* machines: by the mutex, and on POSIX because what is cut is killed.
AloneOnMachine ==
    racedGet \/
    \A c, d \in Callers :
        /\ child[c].life = "running" /\ wants[c] = wants[d]
        => /\ c # d => child[d].life # "running"
           /\ platform = "posix" => wants[c] \notin strays

\* A command whose last try has succeeded, without an error word, is not run again
\* by the same call, unless that try was cut by what the platform retries.
NotRepeated ==
    \A c \in Callers :
        execStep[c] = "run" /\ wellDone[c]
        => cutBy[c] = (IF platform = "posix" THEN "abort" ELSE "time")

\* Commands do not meet, neither those of two callers nor the tries of one.
TriesApart == NoChildLeft /\ AloneOnMachine /\ NotRepeated

\* A mutex is given back, whatever the command does, with one exception: on
\* POSIX a command that closes its output and runs on.
MutexGivenBack ==
    \A c \in Callers :
        []<>(\/ execStep[c] \notin Inside
             \/ platform = "posix" /\ execStep[c] = "wait" /\ child[c].life = "running")
=============================================================================
