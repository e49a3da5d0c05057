--------------------------- MODULE Channels_proofs ---------------------------
(***************************************************************************)
(* How the plugin talks to others: the commands it runs, the messages to   *)
(* and from its daemon, and the probe of the guest's API.                  *)
(***************************************************************************)
EXTENDS CommandExec, ThinIPC, ApiProbe, FiniteSetTheorems, SequenceTheorems, TLAPS

(***************************************************************************)
(* TriesApart for every number of callers, machines and tries.             *)
(*                                                                         *)
(* Two callers that are inside for one name hold different mutexes only    *)
(* if two were allocated for it, and a child runs only inside.  What a try *)
(* has come to is told by its result: only a cut hides a success.          *)
(***************************************************************************)

Trying == {"run", "poll", "wait", "judge"}

\* What is sure of one caller.
Caller(c) ==
    /\ execStep[c] # "idle" => wants[c] \in Names
    /\ execStep[c] \in {"lock"} \cup Inside
       => /\ mutexOf[c] # Nobody
          /\ racedGet \/ namedMutexStack[wants[c]] = mutexOf[c]
    /\ execStep[c] \notin {"poll", "wait"} => child[c] = NoChild
    /\ execStep[c] \in Trying => tryLeft[c] >= 1
    /\ execStep[c] \in {"idle", "find", "alloc", "lock", "begin"} => ~wellDone[c]
    /\ execStep[c] \in {"poll", "wait"}
       => cutBy[c] = "nothing" /\ (wellDone[c] => child[c].life = "ok")
    /\ execStep[c] = "judge" /\ wellDone[c]
       => \/ cutBy[c] = "nothing" /\ ret[c] = "ok"
          \/ cutBy[c] \in {"abort", "time"} /\ ret[c] = CutCode(cutBy[c])
    /\ execStep[c] = "run" /\ wellDone[c]
       => cutBy[c] = (IF platform = "posix" THEN "abort" ELSE "time")

Apart ==
    racedGet \/
    \A c, d \in Callers :
        c # d /\ execStep[c] \in Inside /\ execStep[d] \in Inside => wants[c] # wants[d]

XInv ==
    /\ ExecTypeOK
    /\ \A c \in Callers : Caller(c)
    /\ Apart
    /\ platform = "posix" => strays = {}

\* A step leaves caller d alone.
Same(d) ==
    /\ execStep'[d] = execStep[d] /\ wants'[d] = wants[d] /\ mutexOf'[d] = mutexOf[d]
    /\ child'[d] = child[d] /\ tryLeft'[d] = tryLeft[d] /\ ret'[d] = ret[d]
    /\ cutBy'[d] = cutBy[d] /\ wellDone'[d] = wellDone[d]

-----------------------------------------------------------------------------

LEMMA NoChildIsNone == NoChild.life = "none" /\ NoChild.pipes = FALSE
  BY DEF NoChild

LEMMA ExecInitially == ExecInit => XInv
  <1> SUFFICES ASSUME ExecInit PROVE XInv
    OBVIOUS
  <1>1. ExecTypeOK
    <2>1. 0 \in 0 .. MaxAborts /\ 0 \in 0 .. MaxRetries
      BY ExecAssumption
    <2>2. /\ execStep \in [Callers -> {"idle", "find", "alloc", "lock"} \cup Inside]
          /\ child \in [Callers -> Children \cup {NoChild}]
          /\ ret \in [Callers -> Exits \cup {"none", "255"}]
          /\ cutBy \in [Callers -> {"nothing", "abort", "time"}]
          /\ tryLeft \in [Callers -> 0 .. MaxRetries]
      BY <2>1 DEF ExecInit
    <2>3. wellDone \in [Callers -> BOOLEAN] /\ racedGet \in BOOLEAN /\ sysExecAborted \in BOOLEAN
      BY Zenon DEF ExecInit
    <2>4. /\ namedMutexStack \in [Names -> Callers \cup {Nobody}]
          /\ wants \in [Callers -> Names \cup {Nobody}]
          /\ mutexOf \in [Callers -> Callers \cup {Nobody}]
          /\ platform \in {"posix", "windows"} /\ strays \subseteq Names /\ aborts \in 0 .. MaxAborts
      BY <2>1 DEF ExecInit
    <2> QED
      BY <2>2, <2>3, <2>4 DEF ExecTypeOK
  <1>2. \A c \in Callers : execStep[c] = "idle" /\ child[c] = NoChild /\ wellDone[c] = FALSE
    BY DEF ExecInit
  <1>3. \A c \in Callers : Caller(c)
    BY <1>2 DEF Caller, Inside, Trying
  <1>4. Apart /\ (platform = "posix" => strays = {})
    BY <1>2 DEF Apart, Inside, ExecInit
  <1> QED
    BY <1>1, <1>3, <1>4 DEF XInv

\* A step of one caller that leaves the others what they know.
LEMMA OneSteps ==
    ASSUME XInv, ExecTypeOK', NEW c \in Callers, Caller(c)',
           \A d \in Callers \ {c} : Same(d),
           platform' = platform, racedGet => racedGet',
           \A n \in Names : \/ racedGet' \/ namedMutexStack[n] = Nobody
                            \/ namedMutexStack'[n] = namedMutexStack[n],
           \/ racedGet'
           \/ \A d \in Callers \ {c} :
                 execStep'[c] \in Inside /\ execStep[d] \in Inside => wants'[c] # wants[d],
           platform = "posix" => strays' = {}
    PROVE  XInv'
  <1>1. ASSUME NEW d \in Callers \ {c}
        PROVE  Caller(d)'
    <2>1. Caller(d) /\ Same(d)
      BY DEF XInv
    <2>2. execStep'[d] \in {"lock"} \cup Inside => racedGet' \/ namedMutexStack'[wants'[d]] = mutexOf'[d]
      BY <2>1 DEF Caller, Same, Inside
    <2> QED
      BY <2>1, <2>2 DEF Caller, Same, CutCode, Inside, Trying
  <1>2. Apart'
    BY DEF XInv, Apart, Same
  <1> QED
    BY <1>1, <1>2 DEF XInv

LEMMA CallersKept ==
    ASSUME XInv, NEW c \in Callers
    PROVE  /\ Caller(c)
           /\ execStep \in [Callers -> {"idle", "find", "alloc", "lock"} \cup Inside]
           /\ wants \in [Callers -> Names \cup {Nobody}]
           /\ mutexOf \in [Callers -> Callers \cup {Nobody}]
           /\ child \in [Callers -> Children \cup {NoChild}]
           /\ tryLeft \in [Callers -> 0 .. MaxRetries]
           /\ ret \in [Callers -> Exits \cup {"none", "255"}]
           /\ cutBy \in [Callers -> {"nothing", "abort", "time"}]
           /\ wellDone \in [Callers -> BOOLEAN]
           /\ namedMutexStack \in [Names -> Callers \cup {Nobody}]
  BY DEF XInv, ExecTypeOK

-----------------------------------------------------------------------------
(* The steps, one for each action.                                         *)

LEMMA RunFine == ASSUME XInv, NEW c \in Callers, RunCommand(c) PROVE XInv'
  <1> USE DEF RunCommand, ExecGo, page, tries, processes
  <1>1. ExecTypeOK'
    <2>1. execStep' \in [Callers -> {"idle", "find", "alloc", "lock"} \cup Inside]
      BY CallersKept DEF Inside
    <2>2. wants' \in [Callers -> Names \cup {Nobody}]
      BY CallersKept
    <2> QED
      BY <2>1, <2>2 DEF XInv, ExecTypeOK
  <1>2. \A d \in Callers \ {c} : Same(d)
    BY CallersKept DEF Same
  <1>3. Caller(c)'
    BY CallersKept DEF Caller, Inside, Trying
  <1> QED
    BY <1>1, <1>2, <1>3, CallersKept, OneSteps DEF XInv, Inside

LEMMA FindFine == ASSUME XInv, NEW c \in Callers, FindMutex(c) PROVE XInv'
  <1> USE DEF FindMutex, ExecGo, page, tries, processes
  <1>1. ExecTypeOK'
    <2>1. mutexOf' \in [Callers -> Callers \cup {Nobody}]
      BY CallersKept DEF Caller
    <2>2. execStep' \in [Callers -> {"idle", "find", "alloc", "lock"} \cup Inside]
      BY CallersKept DEF Inside
    <2> QED
      BY <2>1, <2>2 DEF XInv, ExecTypeOK
  <1>2. \A d \in Callers \ {c} : Same(d)
    BY CallersKept DEF Same
  <1>3. Caller(c)'
    BY CallersKept DEF Caller, Inside, Trying
  <1> QED
    BY <1>1, <1>2, <1>3, CallersKept, OneSteps DEF XInv, Inside

LEMMA AllocFine == ASSUME XInv, NEW c \in Callers, AllocMutex(c) PROVE XInv'
  <1> USE DEF AllocMutex, ExecGo, page, tries, processes
  <1>1. ExecTypeOK'
    <2>1. execStep' \in [Callers -> {"idle", "find", "alloc", "lock"} \cup Inside]
      BY CallersKept DEF Inside
    <2>2. mutexOf' \in [Callers -> Callers \cup {Nobody}]
      BY CallersKept
    <2>3. namedMutexStack' \in [Names -> Callers \cup {Nobody}]
      BY CallersKept DEF Caller
    <2>4. racedGet' \in BOOLEAN
      BY Zenon DEF XInv, ExecTypeOK
    <2> QED
      BY <2>1, <2>2, <2>3, <2>4 DEF XInv, ExecTypeOK
  <1>2. \A d \in Callers \ {c} : Same(d)
    BY CallersKept DEF Same
  <1>3. Caller(c)'
    BY CallersKept, ExecAssumption DEF Caller, Inside, Trying
  <1> QED
    BY <1>1, <1>2, <1>3, CallersKept, OneSteps DEF XInv, Inside

LEMMA LockFine == ASSUME XInv, NEW c \in Callers, LockMutex(c) PROVE XInv'
  <1> USE DEF LockMutex, ExecGo, page, locks, tries, processes
  <1>1. ExecTypeOK'
    <2>1. execStep' \in [Callers -> {"idle", "find", "alloc", "lock"} \cup Inside]
      BY CallersKept DEF Inside
    <2> QED
      BY <2>1 DEF XInv, ExecTypeOK
  <1>2. \A d \in Callers \ {c} : Same(d)
    BY CallersKept DEF Same
  <1>3. Caller(c)'
    BY CallersKept DEF Caller, Inside, Trying
  <1>4. racedGet \/ \A d \in Callers \ {c} : execStep[d] \in Inside => wants[c] # wants[d]
    BY CallersKept DEF Caller
  <1> QED
    BY <1>1, <1>2, <1>3, <1>4, CallersKept, OneSteps DEF XInv, Inside

LEMMA ReleaseFine == ASSUME XInv, NEW c \in Callers, ReleaseMutex(c) PROVE XInv'
  <1> USE DEF ReleaseMutex, ExecGo, page
  <1>1. ExecTypeOK'
    <2>1. execStep' \in [Callers -> {"idle", "find", "alloc", "lock"} \cup Inside]
      BY CallersKept DEF Inside
    <2>2. wants' \in [Callers -> Names \cup {Nobody}]
      BY CallersKept
    <2>3. mutexOf' \in [Callers -> Callers \cup {Nobody}]
      BY CallersKept
    <2>4. ret' \in [Callers -> Exits \cup {"none", "255"}]
      BY CallersKept
    <2>5. cutBy' \in [Callers -> {"nothing", "abort", "time"}]
      BY CallersKept
    <2>6. wellDone' \in [Callers -> BOOLEAN]
      BY CallersKept
    <2>7. tryLeft' \in [Callers -> 0 .. MaxRetries]
      BY CallersKept, ExecAssumption
    <2> QED
      BY <2>1, <2>2, <2>3, <2>4, <2>5, <2>6, <2>7 DEF XInv, ExecTypeOK
  <1>2. \A d \in Callers \ {c} : Same(d)
    BY CallersKept DEF Same
  <1>3. Caller(c)'
    BY CallersKept DEF Caller, Inside, Trying
  <1> QED
    BY <1>1, <1>2, <1>3, CallersKept, OneSteps DEF XInv, Inside

\* A caller that stays inside keeps the others out.
LEMMA StaysInside ==
    ASSUME XInv, NEW c \in Callers, ExecTypeOK', Caller(c)', \A d \in Callers \ {c} : Same(d),
           execStep[c] \in Inside, platform' = platform, UNCHANGED locks,
           platform = "posix" => strays' = {}
    PROVE  XInv'
  <1>1. \/ racedGet'
        \/ \A d \in Callers \ {c} :
              execStep'[c] \in Inside /\ execStep[d] \in Inside => wants'[c] # wants[d]
    BY DEF XInv, Apart, locks
  <1> QED
    BY <1>1, OneSteps DEF locks

LEMMA BeginFine == ASSUME XInv, NEW c \in Callers, Begin(c) PROVE XInv'
  <1> USE DEF Begin, ExecGo, page, locks, processes
  <1>1. ExecTypeOK'
    <2>1. execStep' \in [Callers -> {"idle", "find", "alloc", "lock"} \cup Inside]
      BY CallersKept DEF Inside
    <2>2. tryLeft' \in [Callers -> 0 .. MaxRetries]
      BY CallersKept, ExecAssumption
    <2>3. ret' \in [Callers -> Exits \cup {"none", "255"}]
      BY CallersKept DEF Exits
    <2> QED
      BY <2>1, <2>2, <2>3 DEF XInv, ExecTypeOK
  <1>2. \A d \in Callers \ {c} : Same(d)
    BY CallersKept DEF Same
  <1>3. Caller(c)'
    BY CallersKept DEF Caller, Inside, Trying
  <1> QED
    BY <1>1, <1>2, <1>3, StaysInside DEF XInv, Inside

LEMMA JudgeFine == ASSUME XInv, NEW c \in Callers, Judge(c) PROVE XInv'
  <1> USE DEF Judge, ExecGo, page, locks, processes
  <1>1. ExecTypeOK'
    <2>1. execStep' \in [Callers -> {"idle", "find", "alloc", "lock"} \cup Inside]
      BY CallersKept DEF Inside
    <2>2. tryLeft' \in [Callers -> 0 .. MaxRetries]
      BY CallersKept, ExecAssumption DEF Caller, Trying
    <2> QED
      BY <2>1, <2>2 DEF XInv, ExecTypeOK
  <1>2. \A d \in Callers \ {c} : Same(d)
    BY CallersKept DEF Same
  <1>3. Caller(c)'
    BY CallersKept DEF Caller, Inside, Trying, CutCode
  <1> QED
    BY <1>1, <1>2, <1>3, StaysInside DEF XInv, Inside

LEMMA SpawnFine == ASSUME XInv, NEW c \in Callers, Spawn(c) PROVE XInv'
  <1> USE DEF Spawn, ExecGo, page, locks
  <1>1. ExecTypeOK'
    <2>1. execStep' \in [Callers -> {"idle", "find", "alloc", "lock"} \cup Inside]
      BY CallersKept DEF Inside
    <2>2. child' \in [Callers -> Children \cup {NoChild}]
      <3>1. [life |-> "running", pipes |-> TRUE] \in Children
        BY Zenon DEF Children
      <3> QED
        BY <3>1, CallersKept
    <2>3. ret' \in [Callers -> Exits \cup {"none", "255"}]
      BY CallersKept DEF Exits
    <2>4. cutBy' \in [Callers -> {"nothing", "abort", "time"}]
      BY CallersKept
    <2>5. wellDone' \in [Callers -> BOOLEAN]
      BY CallersKept
    <2> QED
      BY <2>1, <2>2, <2>3, <2>4, <2>5 DEF XInv, ExecTypeOK
  <1>2. \A d \in Callers \ {c} : Same(d)
    BY CallersKept DEF Same
  <1>3. Caller(c)'
    BY CallersKept DEF Caller, Inside, Trying
  <1> QED
    BY <1>1, <1>2, <1>3, StaysInside DEF XInv, Inside

LEMMA PipesFine == ASSUME XInv, NEW c \in Callers, PipesClose(c) PROVE XInv'
  <1> USE DEF PipesClose, page, locks, tries
  <1>0. execStep[c] \in {"poll", "wait"} /\ child[c] \in Children
    BY CallersKept, NoChildIsNone DEF Caller
  <1>1. ExecTypeOK'
    <2>1. child' \in [Callers -> Children \cup {NoChild}]
      <3>1. [child[c] EXCEPT !.pipes = FALSE] \in Children
        BY <1>0 DEF Children
      <3>2. child' = [child EXCEPT ![c] = [child[c] EXCEPT !.pipes = FALSE]]
        OBVIOUS
      <3> QED
        BY <3>1, <3>2, CallersKept
    <2> QED
      BY <2>1 DEF XInv, ExecTypeOK
  <1>2. \A d \in Callers \ {c} : Same(d)
    BY CallersKept DEF Same
  <1>3. Caller(c)'
    BY CallersKept, NoChildIsNone DEF Caller, Inside, Trying
  <1> QED
    BY <1>0, <1>1, <1>2, <1>3, StaysInside DEF XInv, Inside

LEMMA EndsFine == ASSUME XInv, NEW c \in Callers, ChildEnds(c) PROVE XInv'
  <1> USE DEF ChildEnds, page, locks, tries
  <1>0. execStep[c] \in {"poll", "wait"} /\ child[c] \in Children
    BY CallersKept, NoChildIsNone DEF Caller
  <1>1. ExecTypeOK'
    <2>1. child' \in [Callers -> Children \cup {NoChild}]
      <3>1. PICK e \in Exits : child' = [child EXCEPT ![c] = [child[c] EXCEPT !.life = e]]
        OBVIOUS
      <3>2. [child[c] EXCEPT !.life = e] \in Children
        BY <1>0 DEF Children
      <3> QED
        BY <3>1, <3>2, CallersKept
    <2>2. wellDone' \in [Callers -> BOOLEAN]
      BY CallersKept
    <2> QED
      BY <2>1, <2>2 DEF XInv, ExecTypeOK
  <1>2. \A d \in Callers \ {c} : Same(d)
    BY CallersKept DEF Same
  <1>3. Caller(c)'
    BY CallersKept, NoChildIsNone DEF Caller, Inside, Trying
  <1> QED
    BY <1>0, <1>1, <1>2, <1>3, StaysInside DEF XInv, Inside

LEMMA DrainedFine == ASSUME XInv, NEW c \in Callers, Drained(c) PROVE XInv'
  <1> USE DEF Drained, ExecGo, page, locks, tries, processes
  <1>1. ExecTypeOK'
    <2>1. execStep' \in [Callers -> {"idle", "find", "alloc", "lock"} \cup Inside]
      BY CallersKept DEF Inside
    <2> QED
      BY <2>1 DEF XInv, ExecTypeOK
  <1>2. \A d \in Callers \ {c} : Same(d)
    BY CallersKept DEF Same
  <1>3. Caller(c)'
    BY CallersKept DEF Caller, Inside, Trying
  <1> QED
    BY <1>1, <1>2, <1>3, StaysInside DEF XInv, Inside

LEMMA WaitFine == ASSUME XInv, NEW c \in Callers, Wait(c) PROVE XInv'
  <1> USE DEF Wait, ExecGo, page, locks
  <1>1. ExecTypeOK'
    <2>1. execStep' \in [Callers -> {"idle", "find", "alloc", "lock"} \cup Inside]
      BY CallersKept DEF Inside
    <2>2. child' \in [Callers -> Children \cup {NoChild}]
      BY CallersKept
    <2>3. ret' \in [Callers -> Exits \cup {"none", "255"}]
      <3>1. child[c] \in Children \cup {NoChild} /\ execStep[c] = "wait" /\ child[c].life # "running"
        BY CallersKept
      <3>2. child[c].life \in Exits \cup {"none"}
        BY <3>1, NoChildIsNone DEF Children
      <3> QED
        BY <3>2, CallersKept
    <2> QED
      BY <2>1, <2>2, <2>3 DEF XInv, ExecTypeOK
  <1>2. \A d \in Callers \ {c} : Same(d)
    BY CallersKept DEF Same
  <1>3. Caller(c)'
    BY CallersKept DEF Caller, Inside, Trying
  <1> QED
    BY <1>1, <1>2, <1>3, StaysInside DEF XInv, Inside

LEMMA CutFine == ASSUME XInv, NEW c \in Callers, Cut(c) PROVE XInv'
  <1> USE DEF Cut, page, locks
  <1>1. ExecTypeOK'
    <2>1. execStep' \in [Callers -> {"idle", "find", "alloc", "lock"} \cup Inside]
      BY CallersKept DEF Inside
    <2>2. child' \in [Callers -> Children \cup {NoChild}]
      BY CallersKept
    <2>3. ret' \in [Callers -> Exits \cup {"none", "255"}]
      BY CallersKept DEF CutCode, Exits
    <2>4. cutBy' \in [Callers -> {"nothing", "abort", "time"}]
      BY CallersKept
    <2>5. strays' \subseteq Names
      BY CallersKept DEF Caller, Cuttable, XInv, ExecTypeOK
    <2> QED
      BY <2>1, <2>2, <2>3, <2>4, <2>5 DEF XInv, ExecTypeOK
  <1>2. \A d \in Callers \ {c} : Same(d)
    BY CallersKept DEF Same
  <1>3. Caller(c)'
    BY CallersKept DEF Caller, Inside, Trying, CutCode, Cuttable
  <1>4. execStep[c] \in Inside /\ (platform = "posix" => strays' = {})
    BY DEF Cuttable, Inside, XInv
  <1> QED
    BY <1>4, <1>1, <1>2, <1>3, StaysInside DEF XInv, Inside

LEMMA StrayFine == ASSUME XInv, NEW n \in Names, StrayEnds(n) PROVE XInv'
  BY DEF XInv, ExecTypeOK, Caller, Apart, CutCode, StrayEnds, page, locks, tries

LEMMA PageFine == ASSUME XInv, Abort \/ Instantiate PROVE XInv'
  <1> USE DEF Abort, Instantiate, locks, tries, processes
  <1>1. ExecTypeOK'
    <2>1. aborts' \in 0 .. MaxAborts
      BY ExecAssumption DEF XInv, ExecTypeOK
    <2>2. sysExecAborted' \in BOOLEAN
      OBVIOUS
    <2> QED
      BY <2>1, <2>2 DEF XInv, ExecTypeOK
  <1>2. \A c \in Callers : Caller(c)'
    BY DEF XInv, Caller, CutCode
  <1> QED
    BY <1>1, <1>2 DEF XInv, Apart

LEMMA ExecStill == ASSUME XInv, UNCHANGED execVars PROVE XInv'
  BY DEF XInv, ExecTypeOK, Caller, Apart, CutCode, execVars

-----------------------------------------------------------------------------

LEMMA ExecInvariant == ExecSpec => []XInv
  <1>1. XInv /\ [ExecNext]_execVars => XInv'
    BY RunFine, FindFine, AllocFine, LockFine, ReleaseFine, BeginFine, JudgeFine, SpawnFine,
       PipesFine, EndsFine, DrainedFine, WaitFine, CutFine, StrayFine, PageFine, ExecStill
       DEF ExecNext, Within
  <1> QED
    BY <1>1, ExecInitially, PTL DEF ExecSpec

\* The tries and the mutexes keep their types: no counter of tries goes below zero.
THEOREM ExecTypes == ExecSpec => []ExecTypeOK
  BY ExecInvariant, PTL DEF XInv

\* No child is left to a caller that is past it, no two commands run on one machine
\* unless two mutexes were allocated for it, and a success is not run again unless
\* a cut has hidden it.
THEOREM CommandsApart == ExecSpec => []TriesApart
  <1>1. XInv => NoChildLeft
    BY DEF XInv, Caller, NoChildLeft
  <1>2. XInv => AloneOnMachine
    BY NoChildIsNone DEF XInv, Caller, Apart, AloneOnMachine, Inside
  <1>3. XInv => NotRepeated
    BY DEF XInv, Caller, NotRepeated
  <1> QED
    BY <1>1, <1>2, <1>3, ExecInvariant, PTL DEF TriesApart

-----------------------------------------------------------------------------
(***************************************************************************)
(* Messages.  A receiver that has the bytes of a message, and knows its    *)
(* fields, reads what was written.  Written and Reading are functions of   *)
(* the number of fields, so every fact about them is an induction over it. *)
(***************************************************************************)

\* Induction, as a fact about a set and not about an operator: if x were not in S,
\* then adding 1 would map those of 0 .. x that are in S into themselves without 0,
\* a set that is smaller by one.
LEMMA NatSetInduction ==
  ASSUME NEW S, 0 \in S, \A n \in Nat : n \in S => n + 1 \in S
  PROVE  \A n \in Nat : n \in S
<1> SUFFICES ASSUME NEW x \in Nat, x \notin S PROVE FALSE
  OBVIOUS
<1> DEFINE T == S \cap (0 .. x)
           U == T \ {0}
           next == [t \in T |-> t + 1]
<1>1. IsFiniteSet(T)
  <2>1. T \in SUBSET Nat /\ \A t \in T : t <= x OBVIOUS
  <2> QED BY <2>1, FS_BoundedSetOfNaturals
<1>2. 0 \in T OBVIOUS
<1>3. /\ IsFiniteSet(U) /\ Cardinality(U) = Cardinality(T) - 1
  BY <1>1, <1>2, FS_RemoveElement
<1>4. next \in Injection(T, U)
  <2>1. ASSUME NEW t \in T PROVE t + 1 \in U
    <3>1. t \in Nat /\ t <= x /\ t # x OBVIOUS
    <3> QED BY <3>1
  <2> QED BY <2>1 DEF Injection, IsInjective
<1>5. Cardinality(T) <= Cardinality(U)
  BY <1>3, <1>4, FS_Injection
<1> QED BY <1>1, <1>3, <1>5, FS_CardinalityType

\* One more field.
AddField(bytes, s, body, k) == bytes \o FieldBytes(s, body, k)

\* Written is defined by CHOOSE; a function with its equation exists for every
\* number of fields, so Written has that equation.
LEMMA WrittenRecursion ==
  ASSUME NEW s, NEW body \in Seq(Fields)
  PROVE  Written(s, body) = [k \in 0 .. Len(body) |->
              IF k = 0 THEN <<>> ELSE Written(s, body)[k - 1] \o FieldBytes(s, body, k)]
<1> DEFINE Buffer(g, n) == g = [k \in 0 .. n |->
                IF k = 0 THEN <<>> ELSE AddField(g[k - 1], s, body, k)]
           S == {n \in Nat : \E g : Buffer(g, n)}
<1>1. 0 \in S
  <2> DEFINE g == [k \in 0 .. 0 |-> <<>>]
  <2>1. Buffer(g, 0)
    OBVIOUS
  <2> QED BY <2>1
<1>2. ASSUME NEW n \in Nat, n \in S PROVE n + 1 \in S
  <2>1. PICK g : Buffer(g, n) BY <1>2
  <2> DEFINE h == [k \in 0 .. n + 1 |-> IF k <= n THEN g[k] ELSE AddField(g[n], s, body, n + 1)]
  <2>2. ASSUME NEW k \in 0 .. n + 1
        PROVE  h[k] = IF k = 0 THEN <<>> ELSE AddField(h[k - 1], s, body, k)
    <3>1. CASE k = 0 BY <2>1, <3>1
    <3>2. CASE k \in 1 .. n
      <4>1. h[k] = g[k] /\ h[k - 1] = g[k - 1] BY <3>2
      <4> QED BY <2>1, <3>2, <4>1
    <3>3. CASE k = n + 1
      <4>1. h[k - 1] = g[n] BY <3>3
      <4> QED BY <3>3, <4>1
    <3> QED BY <3>1, <3>2, <3>3
  <2>3. Buffer(h, n + 1) BY <2>2
  <2> HIDE DEF h
  <2> QED BY <2>3
<1>3. Len(body) \in S
  <2> HIDE DEF S
  <2> QED BY <1>1, <1>2, NatSetInduction
<1>4. PICK g : Buffer(g, Len(body)) BY <1>3
<1>5. g = [k \in 0 .. Len(body) |->
              IF k = 0 THEN <<>> ELSE g[k - 1] \o FieldBytes(s, body, k)]
  BY <1>4 DEF AddField
<1> QED BY <1>5 DEF Written

\* The same up to n.
LEMMA FiniteInduction ==
  ASSUME NEW S, NEW n \in Nat, 0 \in S, \A k \in 0 .. n - 1 : k \in S => k + 1 \in S
  PROVE  \A k \in 0 .. n : k \in S
<1> DEFINE T == {k \in Nat : k <= n => k \in S}
<1>1. 0 \in T OBVIOUS
<1>2. \A k \in Nat : k \in T => k + 1 \in T OBVIOUS
<1>3. \A k \in Nat : k \in T
  <2> HIDE DEF T
  <2> QED BY <1>1, <1>2, NatSetInduction
<1> QED BY <1>3

LEMMA WidthType == \A f \in Fields : Width(f) \in Nat /\ Width(f) >= 2
  BY DEF Width, Fields

BytesOf(s, body) == UNION {{FieldBytes(s, body, k)[i] : i \in 1 .. Width(body[k])} : k \in 1 .. Len(body)}

LEMMA FieldBytesType ==
  ASSUME NEW s, NEW body \in Seq(Fields), NEW k \in 1 .. Len(body)
  PROVE  /\ FieldBytes(s, body, k) \in Seq(BytesOf(s, body))
         /\ Len(FieldBytes(s, body, k)) = Width(body[k])
         /\ body[k].kind = "string" => FieldBytes(s, body, k)[1] = <<"len", body[k].len>>
<1>1. body[k] \in Fields OBVIOUS
<1>2. Width(body[k]) \in Nat /\ Width(body[k]) >= 2 BY <1>1, WidthType
<1>3. DOMAIN FieldBytes(s, body, k) = 1 .. Width(body[k]) BY DEF FieldBytes
<1>4. FieldBytes(s, body, k) = [i \in 1 .. Width(body[k]) |-> FieldBytes(s, body, k)[i]]
  BY DEF FieldBytes
<1>5. \A i \in 1 .. Width(body[k]) : FieldBytes(s, body, k)[i] \in BytesOf(s, body)
  BY DEF BytesOf
<1>6. body[k].kind = "string" => FieldBytes(s, body, k)[1] = <<"len", body[k].len>>
  BY <1>2 DEF FieldBytes
<1>7. FieldBytes(s, body, k) \in [1 .. Width(body[k]) -> BytesOf(s, body)]
  BY <1>4, <1>5, Zenon
<1> QED BY <1>2, <1>3, <1>6, <1>7

LEMMA WrittenStep ==
  ASSUME NEW s, NEW body \in Seq(Fields)
  PROVE  /\ Written(s, body)[0] = <<>>
         /\ \A k \in 1 .. Len(body) :
               Written(s, body)[k] = AddField(Written(s, body)[k - 1], s, body, k)
<1> DEFINE W == Written(s, body)
<1>1. W = [k \in 0 .. Len(body) |-> IF k = 0 THEN <<>> ELSE AddField(W[k - 1], s, body, k)]
  BY WrittenRecursion DEF AddField
<1> HIDE DEF W
<1>2. Len(body) \in Nat OBVIOUS
<1>3. W[0] = <<>> BY <1>1, <1>2
<1>4. ASSUME NEW k \in 1 .. Len(body) PROVE W[k] = AddField(W[k - 1], s, body, k)
  <2>1. k \in 0 .. Len(body) /\ k # 0 BY <1>2
  <2> QED BY <1>1, <2>1
<1> QED BY <1>3, <1>4 DEF W

LEMMA WrittenType ==
  ASSUME NEW s, NEW body \in Seq(Fields)
  PROVE  \A k \in 0 .. Len(body) : Written(s, body)[k] \in Seq(BytesOf(s, body))
<1> DEFINE S == {k \in Nat : Written(s, body)[k] \in Seq(BytesOf(s, body))}
<1> DEFINE W == Written(s, body)
<1>0. W[0] = <<>> /\ \A k \in 1 .. Len(body) : W[k] = AddField(W[k - 1], s, body, k)
  BY WrittenStep
<1> HIDE DEF W
<1>1. 0 \in S
  <2>1. W[0] \in Seq(BytesOf(s, body)) BY <1>0
  <2> QED BY <2>1 DEF W
<1>2. ASSUME NEW k \in 0 .. Len(body) - 1, k \in S PROVE k + 1 \in S
  <2>1. k + 1 \in 1 .. Len(body) /\ k + 1 - 1 = k /\ k + 1 \in Nat OBVIOUS
  <2>2. W[k + 1] = AddField(W[k], s, body, k + 1)
    BY <2>1, <1>0
  <2>3. FieldBytes(s, body, k + 1) \in Seq(BytesOf(s, body))
    BY <2>1, FieldBytesType
  <2>4. W[k] \in Seq(BytesOf(s, body))
    BY <1>2 DEF W
  <2>5. W[k + 1] \in Seq(BytesOf(s, body))
    BY <2>2, <2>3, <2>4 DEF AddField
  <2> QED BY <2>1, <2>5 DEF W
<1> HIDE DEF S
<1>3. \A k \in 0 .. Len(body) : k \in S
  BY <1>1, <1>2, FiniteInduction
<1> QED BY <1>3 DEF S

LEMMA WrittenLonger ==
  ASSUME NEW s, NEW body \in Seq(Fields), NEW k \in 1 .. Len(body)
  PROVE  LET before == Written(s, body)[k - 1]
             after == Written(s, body)[k]
         IN  /\ Len(before) \in Nat /\ Len(after) = Len(before) + Width(body[k])
             /\ \A i \in 1 .. Len(before) : after[i] = before[i]
             /\ \A i \in 1 .. Width(body[k]) : after[Len(before) + i] = FieldBytes(s, body, k)[i]
<1> DEFINE before == Written(s, body)[k - 1]
           after == Written(s, body)[k]
           field == FieldBytes(s, body, k)
           X == BytesOf(s, body)
<1>1. after = before \o field
  <2>1. \A j \in 1 .. Len(body) : Written(s, body)[j] = AddField(Written(s, body)[j - 1], s, body, j)
    BY WrittenStep
  <2> QED BY <2>1 DEF AddField
<1>2. k - 1 \in 0 .. Len(body) OBVIOUS
<1>3. before \in Seq(X) BY <1>2, WrittenType
<1>4. field \in Seq(X) /\ Len(field) = Width(body[k]) BY FieldBytesType
<1> HIDE DEF before, after, field, X
<1>5. /\ Len(before) \in Nat /\ Len(after) = Len(before) + Width(body[k])
      /\ \A i \in 1 .. Len(before) : after[i] = before[i]
      /\ \A i \in 1 .. Width(body[k]) : after[Len(before) + i] = field[i]
  BY <1>1, <1>3, <1>4
<1> QED BY <1>5 DEF before, after, field

\* Whatever was written before is found again at its place in the whole body.
\* What is written later does not disturb a byte that is there.
LEMMA WrittenIsKept ==
  ASSUME NEW s, NEW body \in Seq(Fields), NEW j \in 0 .. Len(body)
  PROVE  \A k \in j .. Len(body) :
            /\ Len(Written(s, body)[j]) <= Len(Written(s, body)[k])
            /\ \A i \in 1 .. Len(Written(s, body)[j]) : Written(s, body)[k][i] = Written(s, body)[j][i]
<1> DEFINE W == Written(s, body)
           Found(k) == /\ Len(W[j]) <= Len(W[k])
                      /\ \A i \in 1 .. Len(W[j]) : W[k][i] = W[j][i]
           S == {k \in Nat : k >= j => Found(k)}
<1>1. \A k \in 0 .. Len(body) : Len(W[k]) \in Nat
  BY WrittenType
<1>2. Len(body) \in Nat OBVIOUS
<1>3. \A k \in 1 .. Len(body) :
         /\ Len(W[k]) >= Len(W[k - 1])
         /\ \A i \in 1 .. Len(W[k - 1]) : W[k][i] = W[k - 1][i]
  <2> SUFFICES ASSUME NEW k \in 1 .. Len(body)
               PROVE  /\ Len(W[k]) >= Len(W[k - 1])
                      /\ \A i \in 1 .. Len(W[k - 1]) : W[k][i] = W[k - 1][i]
    OBVIOUS
  <2>1. body[k] \in Fields OBVIOUS
  <2> QED BY <2>1, WrittenLonger, WidthType
<1> HIDE DEF W
<1>4. 0 \in S
  <2>1. 0 >= j => j = 0 OBVIOUS
  <2> QED BY <1>1, <2>1
<1>5. ASSUME NEW k \in 0 .. Len(body) - 1, k \in S PROVE k + 1 \in S
  <2>1. k + 1 \in 1 .. Len(body) /\ k + 1 - 1 = k /\ k \in 0 .. Len(body) /\ k + 1 \in 0 .. Len(body)
    BY <1>2
  <2>2. CASE k + 1 = j BY <1>1, <2>1, <2>2
  <2>3. CASE k + 1 < j BY <2>1, <2>3
  <2>4. CASE k + 1 > j
    <3>1. Found(k) BY <1>5, <2>1, <2>4
    <3>2. Len(W[k + 1]) >= Len(W[k]) /\ \A i \in 1 .. Len(W[k]) : W[k + 1][i] = W[k][i]
      BY <1>3, <2>1
    <3>3. Len(W[j]) \in Nat /\ Len(W[k]) \in Nat /\ Len(W[k + 1]) \in Nat
      BY <1>1, <2>1
    <3>4. Found(k + 1) BY <3>1, <3>2, <3>3
    <3> QED BY <2>1, <3>4
  <2> QED BY <2>1, <2>2, <2>3, <2>4
<1>6. \A k \in 0 .. Len(body) : k \in S
  <2> HIDE DEF S
  <2> QED BY <1>2, <1>4, <1>5, FiniteInduction
<1> QED BY <1>2, <1>6 DEF W

\* Where a field lies in the body.
LEMMA FieldPlace ==
  ASSUME NEW s, NEW body \in Seq(Fields), NEW k \in 1 .. Len(body)
  PROVE  LET from == Len(Written(s, body)[k - 1])
             bytes == BodyBytes(s, body)
         IN  /\ from \in Nat /\ Len(Written(s, body)[k]) = from + Width(body[k])
             /\ Len(bytes) \in Nat /\ from + Width(body[k]) <= Len(bytes)
             /\ \A i \in 1 .. Width(body[k]) : bytes[from + i] = FieldBytes(s, body, k)[i]
<1> DEFINE W == Written(s, body)
           n == Len(body)
           from == Len(W[k - 1])
<1>1. Width(body[k]) \in Nat
  <2>1. body[k] \in Fields OBVIOUS
  <2> QED BY <2>1, WidthType
<1>2. /\ from \in Nat /\ Len(W[k]) = from + Width(body[k])
      /\ \A i \in 1 .. Width(body[k]) : W[k][from + i] = FieldBytes(s, body, k)[i]
  BY WrittenLonger
<1>3. n \in Nat /\ k \in 0 .. n /\ n \in k .. n OBVIOUS
<1>4. Len(W[n]) \in Nat
  BY <1>3, WrittenType
<1>5. /\ Len(W[k]) <= Len(W[n])
      /\ \A i \in 1 .. Len(W[k]) : W[n][i] = W[k][i]
  BY <1>3, WrittenIsKept
<1> HIDE DEF W, n, from
<1>6. \A i \in 1 .. Width(body[k]) : from + i \in 1 .. Len(W[k])
  BY <1>1, <1>2
<1>7. \A i \in 1 .. Width(body[k]) : W[n][from + i] = FieldBytes(s, body, k)[i]
  BY <1>2, <1>5, <1>6
<1> QED BY <1>1, <1>2, <1>4, <1>5, <1>7 DEF W, n, from, BodyBytes

\* As WrittenRecursion.
LEMMA ReadingRecursion ==
  ASSUME NEW bytes, NEW body \in Seq(Fields)
  PROVE  Reading(bytes, body) = [k \in 0 .. Len(body) |->
              IF k = 0 THEN [bytes |-> bytes, pos |-> 0, values |-> <<>>]
              ELSE ReadField(Reading(bytes, body)[k - 1], body[k])]
<1> DEFINE start == [bytes |-> bytes, pos |-> 0, values |-> <<>>]
           Reader(g, n) == g = [k \in 0 .. n |->
                IF k = 0 THEN start ELSE ReadField(g[k - 1], body[k])]
           S == {n \in Nat : \E g : Reader(g, n)}
<1> HIDE DEF start
<1>1. 0 \in S
  <2> DEFINE g == [k \in 0 .. 0 |-> start]
  <2>1. Reader(g, 0)
    OBVIOUS
  <2> QED BY <2>1
<1>2. ASSUME NEW n \in Nat, n \in S PROVE n + 1 \in S
  <2>1. PICK g : Reader(g, n) BY <1>2
  <2> DEFINE h == [k \in 0 .. n + 1 |-> IF k <= n THEN g[k] ELSE ReadField(g[n], body[n + 1])]
  <2>2. ASSUME NEW k \in 0 .. n + 1
        PROVE  h[k] = IF k = 0 THEN start ELSE ReadField(h[k - 1], body[k])
    <3>1. CASE k = 0 BY <2>1, <3>1
    <3>2. CASE k \in 1 .. n
      <4>1. h[k] = g[k] /\ h[k - 1] = g[k - 1] BY <3>2
      <4> QED BY <2>1, <3>2, <4>1
    <3>3. CASE k = n + 1
      <4>1. h[k - 1] = g[n] BY <3>3
      <4> QED BY <3>3, <4>1
    <3> QED BY <3>1, <3>2, <3>3
  <2>3. Reader(h, n + 1) BY <2>2
  <2> HIDE DEF h
  <2> QED BY <2>3
<1>3. Len(body) \in S
  <2> HIDE DEF S
  <2> QED BY <1>1, <1>2, NatSetInduction
<1>4. PICK g : Reader(g, Len(body)) BY <1>3
<1>5. g = [k \in 0 .. Len(body) |->
              IF k = 0 THEN [bytes |-> bytes, pos |-> 0, values |-> <<>>]
              ELSE ReadField(g[k - 1], body[k])]
  BY <1>4 DEF start
<1> QED BY <1>5 DEF Reading

LEMMA ReadingStep ==
  ASSUME NEW bytes, NEW body \in Seq(Fields)
  PROVE  /\ Reading(bytes, body)[0] = [bytes |-> bytes, pos |-> 0, values |-> <<>>]
         /\ \A k \in 1 .. Len(body) :
               Reading(bytes, body)[k] = ReadField(Reading(bytes, body)[k - 1], body[k])
<1> DEFINE R == Reading(bytes, body)
           start == [bytes |-> bytes, pos |-> 0, values |-> <<>>]
<1> HIDE DEF start
<1>1. R = [k \in 0 .. Len(body) |-> IF k = 0 THEN start ELSE ReadField(R[k - 1], body[k])]
  BY ReadingRecursion DEF start
<1> HIDE DEF R
<1>2. Len(body) \in Nat OBVIOUS
<1>3. R[0] = start BY <1>1, <1>2
<1>4. ASSUME NEW k \in 1 .. Len(body) PROVE R[k] = ReadField(R[k - 1], body[k])
  <2>1. k \in 0 .. Len(body) /\ k # 0 BY <1>2
  <2> QED BY <1>1, <2>1
<1> QED BY <1>3, <1>4 DEF R, start

\* A read of a field that is there.
\* Where the bytes of a field are, ReadField takes them and goes on behind them.
LEMMA FieldIsRead ==
  ASSUME NEW B, Len(B) \in Nat, NEW p \in Nat, NEW v, NEW f \in Fields,
         p + Width(f) <= Len(B),
         f.kind = "string" => B[p + 1] = <<"len", f.len>>
  PROVE  ReadField([bytes |-> B, pos |-> p, values |-> v], f)
         = [bytes |-> B, pos |-> p + Width(f),
            values |-> Append(v, SubSeq(B, p + 1, p + Width(f)))]
<1> DEFINE r == [bytes |-> B, pos |-> p, values |-> v]
           w == Width(f)
<1>1. w \in Nat /\ w >= 2 BY WidthType
<1>2. CASE f.kind # "string"
  BY <1>2 DEF ReadField
<1>3. CASE f.kind = "string"
  <2>1. w = 2 + f.len /\ f.len \in Nat BY <1>3 DEF Width, Fields
  <2>2. p + 2 <= Len(B) BY <1>1
  <2>3. B[p + 1][1] = "len" /\ B[p + 1][2] = f.len BY <1>3
  <2>4. p + 2 + f.len = p + Width(f) /\ p + 2 + f.len <= Len(B) BY <2>1
  <2> QED BY <1>3, <2>2, <2>3, <2>4 DEF ReadField
<1> QED BY <1>2, <1>3

\* A receiver that has all the bytes, and knows the fields, reads what was
\* written: for every number, kind and length of the fields.
THEOREM ReadWritten ==
  ASSUME NEW s, NEW body \in Seq(Fields)
  PROVE  ReadBody(BodyBytes(s, body), body) = [k \in DOMAIN body |-> FieldBytes(s, body, k)]
<1> DEFINE B == BodyBytes(s, body)
           n == Len(body)
           F(k) == FieldBytes(s, body, k)
           W == Written(s, body)
           R == Reading(B, body)
           at(k) == [bytes |-> B, pos |-> Len(W[k]), values |-> [j \in 1 .. k |-> F(j)]]
           S == {k \in Nat : R[k] = at(k)}
<1>1. n \in Nat OBVIOUS
<1>2. 0 \in S
  <2>1. W[0] = <<>> BY WrittenStep
  <2>2. R[0] = [bytes |-> B, pos |-> 0, values |-> <<>>] BY ReadingStep
  <2>3. [j \in 1 .. 0 |-> F(j)] = <<>> OBVIOUS
  <2>4. Len(<<>>) = 0 OBVIOUS
  <2> HIDE DEF W, R, B, F
  <2> QED BY <2>1, <2>2, <2>3, <2>4
<1>3. ASSUME NEW k \in 0 .. n - 1, k \in S PROVE k + 1 \in S
  <2>1. k + 1 \in 1 .. n /\ k + 1 - 1 = k /\ k \in Nat BY <1>1
  <2>2. body[k + 1] \in Fields BY <2>1
  <2> DEFINE p == Len(W[k])
             f == body[k + 1]
             v == [j \in 1 .. k |-> F(j)]
  <2>3. /\ p \in Nat /\ Len(W[k + 1]) = p + Width(f)
        /\ Len(B) \in Nat /\ p + Width(f) <= Len(B)
        /\ \A i \in 1 .. Width(f) : B[p + i] = F(k + 1)[i]
    <3> DEFINE Place(j) ==
                 /\ Len(W[j - 1]) \in Nat /\ Len(W[j]) = Len(W[j - 1]) + Width(body[j])
                 /\ Len(B) \in Nat /\ Len(W[j - 1]) + Width(body[j]) <= Len(B)
                 /\ \A i \in 1 .. Width(body[j]) : B[Len(W[j - 1]) + i] = F(j)[i]
    <3>1. \A j \in 1 .. n : Place(j) BY FieldPlace
    <3>2. Place(k + 1) BY <2>1, <3>1
    <3> HIDE DEF W, F, B
    <3> QED BY <2>1, <3>2
  <2>4. Width(f) \in Nat /\ Width(f) >= 2 BY <2>2, WidthType
  <2>5. f.kind = "string" => B[p + 1] = <<"len", f.len>>
    <3>1. f.kind = "string" => F(k + 1)[1] = <<"len", f.len>>
      BY <2>1, FieldBytesType
    <3>2. 1 \in 1 .. Width(f) BY <2>4
    <3> QED BY <2>3, <3>1, <3>2
  <2>6. SubSeq(B, p + 1, p + Width(f)) = F(k + 1)
    <3>1. F(k + 1) \in Seq(BytesOf(s, body)) /\ Len(F(k + 1)) = Width(f)
      BY <2>1, FieldBytesType
    <3> HIDE DEF F, B, p, f
    <3>2. SubSeq(B, p + 1, p + Width(f)) = [i \in 1 .. Width(f) |-> B[p + i]]
      BY <2>3, <2>4
    <3>3. F(k + 1) = [i \in 1 .. Width(f) |-> F(k + 1)[i]]
      BY <3>1
    <3> QED BY <2>3, <3>2, <3>3
  <2>7. Append(v, F(k + 1)) = [j \in 1 .. k + 1 |-> F(j)]
    <3> HIDE DEF F
    <3> QED BY <2>1
  <2>8. R[k + 1] = ReadField(R[k], f)
    <3>1. \A j \in 1 .. n : R[j] = ReadField(R[j - 1], body[j]) BY ReadingStep
    <3> HIDE DEF R
    <3> QED BY <2>1, <3>1
  <2>9. R[k] = [bytes |-> B, pos |-> p, values |-> v]
    BY <1>3
  <2> HIDE DEF p, f, v, R, B, F, W
  <2>10. R[k + 1] = [bytes |-> B, pos |-> p + Width(f),
                     values |-> Append(v, SubSeq(B, p + 1, p + Width(f)))]
    <3>1. f \in Fields BY <2>2 DEF f
    <3>2. ReadField([bytes |-> B, pos |-> p, values |-> v], f)
          = [bytes |-> B, pos |-> p + Width(f),
             values |-> Append(v, SubSeq(B, p + 1, p + Width(f)))]
      BY <2>3, <2>5, <3>1, FieldIsRead
    <3> QED BY <2>8, <2>9, <3>2
  <2>11. R[k + 1] = at(k + 1)
    BY <2>3, <2>6, <2>7, <2>10
  <2> QED BY <2>1, <2>11
<1>4. n \in S
  <2>1. n \in 0 .. n BY <1>1
  <2> HIDE DEF S
  <2> QED BY <1>1, <1>2, <1>3, <2>1, FiniteInduction
<1>5. R[n].values = [k \in 1 .. n |-> F(k)]
  <2> HIDE DEF R, F, B, W
  <2> QED BY <1>4
<1>6. DOMAIN body = 1 .. n OBVIOUS
<1> QED BY <1>5, <1>6 DEF ReadBody

-----------------------------------------------------------------------------
(***************************************************************************)
(* Datagrams: the types, which hold even when the framing is spoilt.       *)
(***************************************************************************)

Bytes == ({"len", "size", "junk"} \X Nat) \cup (Senders \X Nat \X Nat)

BytesIn(e) == BodyBytes(e.by, e.body)
SizeOf(e) == Len(BytesIn(e))

\* Such a message after n of its bytes, and the next such n.
Sent(e, n) == [body |-> e.body, size |-> SizeOf(e), pos |-> n]
NextByte(e, n) == n + ChunkSize(Sent(e, n))

IPCTypes ==
    /\ sends \in 0 .. MaxSends
    /\ sending \in [Senders -> Messages \cup {Nothing}]
    /\ \A s \in Senders : sending[s] # Nothing => sending[s].pos < sending[s].size
    /\ wire \in Seq(Seq(Bytes))
    /\ \A i \in 1 .. Len(wire) : Len(wire[i]) \in 1 .. Capacity
    /\ message \in [size : Nat, bytes : Seq(Bytes)]
    /\ Len(message.bytes) <= message.size
    /\ expected \in Seq(Entries)
    /\ received # Nothing => received \in [bytes : Seq(Bytes), as : Entries \cup {Nothing}]
    /\ spoilt \subseteq Spoils

LEMMA BodyType ==
  ASSUME NEW s \in Senders, NEW body \in Seq(Fields)
  PROVE  BodyBytes(s, body) \in Seq(Bytes) /\ Len(BodyBytes(s, body)) \in Nat
<1>1. Len(body) \in Nat OBVIOUS
<1>2. Len(body) \in 0 .. Len(body) BY <1>1
<1>3. BodyBytes(s, body) \in Seq(BytesOf(s, body))
  BY <1>2, WrittenType DEF BodyBytes
<1>4. BytesOf(s, body) \subseteq Bytes
  <2> SUFFICES ASSUME NEW k \in 1 .. Len(body), NEW i \in 1 .. Width(body[k])
               PROVE  FieldBytes(s, body, k)[i] \in Bytes
    BY DEF BytesOf
  <2>1. body[k] \in Fields OBVIOUS
  <2>2. k \in Nat /\ i \in Nat
    <3>1. Width(body[k]) \in Nat BY <2>1, WidthType
    <3> QED BY <1>1, <3>1
  <2>3. body[k].len \in Nat BY <2>1 DEF Fields
  <2>4. FieldBytes(s, body, k)[i] \in {<<"len", body[k].len>>, <<s, k, i>>}
    BY DEF FieldBytes
  <2> QED BY <2>2, <2>3, <2>4 DEF Bytes
<1>5. BodyBytes(s, body) \in Seq(Bytes)
  BY <1>3, <1>4
<1> QED BY <1>5

LEMMA EntryType ==
  ASSUME NEW e \in Entries
  PROVE  /\ BytesIn(e) \in Seq(Bytes) /\ SizeOf(e) \in Nat
         /\ \A n \in Nat : Sent(e, n) \in Messages
  BY BodyType DEF Entries, BytesIn, SizeOf, Sent, Messages

LEMMA JunkType == Junk \in Bytes
  BY DEF Junk, Bytes

\* Copy(bytes, from, n): its type, one byte more, all of them, and a copy behind a
\* copy.
LEMMA CopyType ==
  ASSUME NEW b \in Seq(Bytes), NEW from \in Nat, NEW n \in Nat
  PROVE  /\ Copy(b, from, n) \in Seq(Bytes)
         /\ Len(Copy(b, from, n)) = n
         /\ \A i \in 1 .. n :
               Copy(b, from, n)[i] = IF from + i <= Len(b) THEN b[from + i] ELSE Junk
  BY JunkType DEF Copy

LEMMA CopyMore ==
  ASSUME NEW b \in Seq(Bytes), NEW n \in Nat, NEW m \in Nat
  PROVE  Copy(b, 0, n) \o Copy(b, n, m) = Copy(b, 0, n + m)
<1> DEFINE x == Copy(b, 0, n)
           y == Copy(b, n, m)
           z == Copy(b, 0, n + m)
<1>1. /\ x \in Seq(Bytes) /\ Len(x) = n
      /\ \A i \in 1 .. n : x[i] = IF 0 + i <= Len(b) THEN b[0 + i] ELSE Junk
  BY CopyType
<1>2. /\ y \in Seq(Bytes) /\ Len(y) = m
      /\ \A i \in 1 .. m : y[i] = IF n + i <= Len(b) THEN b[n + i] ELSE Junk
  BY CopyType
<1>3. /\ z \in Seq(Bytes) /\ Len(z) = n + m
      /\ \A i \in 1 .. n + m : z[i] = IF 0 + i <= Len(b) THEN b[0 + i] ELSE Junk
  <2>1. n + m \in Nat OBVIOUS
  <2> QED BY <2>1, CopyType
<1> HIDE DEF x, y, z
<1>4. /\ x \o y \in Seq(Bytes) /\ Len(x \o y) = n + m
      /\ \A i \in 1 .. n + m : (x \o y)[i] = IF i <= n THEN x[i] ELSE y[i - n]
  <2>1. /\ x \o y \in Seq(Bytes) /\ Len(x \o y) = Len(x) + Len(y)
        /\ \A i \in 1 .. Len(x) + Len(y) :
              (x \o y)[i] = IF i <= Len(x) THEN x[i] ELSE y[i - Len(x)]
    BY <1>1, <1>2, ConcatProperties, Zenon
  <2> DEFINE w == x \o y
  <2> HIDE DEF w
  <2>2. /\ w \in Seq(Bytes) /\ Len(w) = n + m
        /\ \A i \in 1 .. n + m : w[i] = IF i <= n THEN x[i] ELSE y[i - n]
    BY <1>1, <1>2, <2>1 DEF w
  <2> QED BY <2>2 DEF w
<1>5. ASSUME NEW i \in 1 .. n + m PROVE (x \o y)[i] = z[i]
  <2>1. (x \o y)[i] = IF i <= n THEN x[i] ELSE y[i - n] BY <1>4
  <2>2. z[i] = IF i <= Len(b) THEN b[i] ELSE Junk BY <1>3
  <2>3. CASE i <= n
    <3>1. x[i] = IF i <= Len(b) THEN b[i] ELSE Junk BY <1>1, <2>3
    <3> QED BY <2>1, <2>2, <2>3, <3>1
  <2>4. CASE i > n
    <3>1. i - n \in 1 .. m /\ n + (i - n) = i BY <2>4
    <3>2. y[i - n] = IF i <= Len(b) THEN b[i] ELSE Junk
      BY <1>2, <3>1
    <3> QED BY <2>1, <2>2, <2>4, <3>1, <3>2
  <2>5. i <= n \/ i > n OBVIOUS
  <2> QED BY <2>3, <2>4, <2>5, Zenon
<1>6. x \o y = z BY <1>3, <1>4, <1>5, SeqEqual
<1> QED BY <1>6 DEF x, y, z

LEMMA CopyAll ==
  ASSUME NEW b \in Seq(Bytes)
  PROVE  Copy(b, 0, Len(b)) = b
<1> DEFINE c == Copy(b, 0, Len(b))
<1>1. Len(b) \in Nat OBVIOUS
<1>2. /\ c \in Seq(Bytes) /\ Len(c) = Len(b)
      /\ \A i \in 1 .. Len(b) : c[i] = IF 0 + i <= Len(b) THEN b[0 + i] ELSE Junk
  BY <1>1, CopyType
<1> HIDE DEF c
<1>3. \A i \in 1 .. Len(b) : c[i] = b[i]
  BY <1>1, <1>2
<1>4. c = b BY <1>2, <1>3, SeqEqual
<1> QED BY <1>4 DEF c

\* What is copied out of a datagram, behind its header.
LEMMA CopyBehind ==
  ASSUME NEW b \in Seq(Bytes), NEW c \in Seq(Bytes), NEW h \in Nat,
         Len(c) = h + Len(b), \A i \in 1 .. Len(b) : c[h + i] = b[i]
  PROVE  Copy(c, h, Len(b)) = b
<1> DEFINE d == Copy(c, h, Len(b))
<1>1. Len(b) \in Nat OBVIOUS
<1>2. /\ d \in Seq(Bytes) /\ Len(d) = Len(b)
      /\ \A i \in 1 .. Len(b) : d[i] = IF h + i <= Len(c) THEN c[h + i] ELSE Junk
  BY <1>1, CopyType
<1> HIDE DEF d
<1>3. \A i \in 1 .. Len(b) : d[i] = b[i]
  BY <1>1, <1>2
<1>4. d = b BY <1>2, <1>3, SeqEqual
<1> QED BY <1>4 DEF d

LEMMA Behind ==
  ASSUME NEW S, NEW a \in Seq(S), NEW b \in Seq(S), Len(a) = 2
  PROVE  /\ a \o b \in Seq(S) /\ Len(a \o b) = 2 + Len(b)
         /\ (a \o b)[1] = a[1]
         /\ \A i \in 1 .. Len(b) : (a \o b)[2 + i] = b[i]
<1> DEFINE c == a \o b
<1>1. Len(b) \in Nat OBVIOUS
<1>0. /\ c \in Seq(S) /\ Len(c) = Len(a) + Len(b)
      /\ \A i \in 1 .. Len(a) + Len(b) : c[i] = IF i <= Len(a) THEN a[i] ELSE b[i - Len(a)]
  BY ConcatProperties, Zenon
<1> HIDE DEF c
<1>2. /\ c \in Seq(S) /\ Len(c) = 2 + Len(b)
      /\ \A i \in 1 .. 2 + Len(b) : c[i] = IF i <= 2 THEN a[i] ELSE b[i - 2]
  BY <1>0
<1>3. c[1] = a[1] BY <1>1, <1>2
<1>4. ASSUME NEW i \in 1 .. Len(b) PROVE c[2 + i] = b[i]
  <2>1. 2 + i \in 1 .. 2 + Len(b) /\ ~(2 + i <= 2) /\ 2 + i - 2 = i BY <1>1
  <2>2. c[2 + i] = IF 2 + i <= 2 THEN a[2 + i] ELSE b[2 + i - 2] BY <1>2, <2>1
  <2> QED BY <2>1, <2>2
<1> QED BY <1>2, <1>3, <1>4 DEF c

LEMMA ChunkPlace ==
  ASSUME NEW m \in Messages, m.pos < m.size
  PROVE  /\ ChunkSize(m) \in 1 .. Capacity
         /\ m.pos + ChunkSize(m) \in 1 .. m.size
         /\ m.pos = 0 => ChunkSize(m) <= Capacity - 2
         /\ m.pos + ChunkSize(m) # m.size => ChunkSize(m) = IF m.pos = 0 THEN Capacity - 2 ELSE Capacity
         /\ ChunkSize(m) = IF m.pos = 0
                            THEN (IF m.size <= Capacity - 2 THEN m.size ELSE Capacity - 2)
                            ELSE (IF m.size - m.pos <= Capacity THEN m.size - m.pos ELSE Capacity)
  BY IPCAssumption DEF ChunkSize, Messages

\* The first two bytes are the size, and only those of a message's first datagram.
LEMMA ChunkBytes ==
  ASSUME NEW s \in Senders, NEW m \in Messages, m.pos < m.size
  PROVE  LET data == Copy(BodyBytes(s, m.body), m.pos, ChunkSize(m))
         IN  /\ data \in Seq(Bytes) /\ Len(data) = ChunkSize(m)
             /\ GetChunk(s, m) \in Seq(Bytes)
             /\ Len(GetChunk(s, m)) \in 1 .. Capacity
             /\ m.pos > 0 => GetChunk(s, m) = data
             /\ m.pos = 0 => /\ Len(GetChunk(s, m)) = 2 + Len(data)
                             /\ GetChunk(s, m)[1] = <<"size", m.size>>
                             /\ \A i \in 1 .. Len(data) : GetChunk(s, m)[2 + i] = data[i]
<1> DEFINE data == Copy(BodyBytes(s, m.body), m.pos, ChunkSize(m))
           c == ChunkSize(m)
           head == << <<"size", m.size>>, Junk >>
<1>1. m.body \in Seq(Fields) /\ m.pos \in Nat /\ m.size \in Nat BY DEF Messages
<1>2. c \in 1 .. Capacity /\ (m.pos = 0 => c <= Capacity - 2) BY ChunkPlace
<1>3. data \in Seq(Bytes) /\ Len(data) = c
  <2>1. BodyBytes(s, m.body) \in Seq(Bytes) BY <1>1, BodyType
  <2>2. c \in Nat BY <1>2, IPCAssumption
  <2> HIDE DEF c
  <2> QED BY <1>1, <2>1, <2>2, CopyType DEF c
<1>4. <<"size", m.size>> \in Bytes /\ Junk \in Bytes BY <1>1, JunkType DEF Bytes
<1>5. CASE m.pos = 0
  <2>1. GetChunk(s, m) = head \o data BY <1>5 DEF GetChunk
  <2>2. head \in Seq(Bytes) /\ Len(head) = 2 /\ head[1] = <<"size", m.size>> BY <1>4
  <2> HIDE DEF head, data, c
  <2>3. /\ head \o data \in Seq(Bytes) /\ Len(head \o data) = 2 + Len(data)
        /\ (head \o data)[1] = head[1]
        /\ \A i \in 1 .. Len(data) : (head \o data)[2 + i] = data[i]
    BY <1>3, <2>2, Behind
  <2>4. Len(head \o data) \in 1 .. Capacity
    BY <1>2, <1>3, <1>5, <2>3, IPCAssumption
  <2> QED BY <1>3, <1>5, <2>1, <2>2, <2>3, <2>4 DEF data, c
<1>6. CASE m.pos # 0
  <2>1. GetChunk(s, m) = <<>> \o data BY <1>6 DEF GetChunk
  <2>2. m.pos > 0 BY <1>1, <1>6
  <2> HIDE DEF data, c
  <2>3. <<>> \o data = data BY <1>3
  <2> QED BY <1>2, <1>3, <1>6, <2>1, <2>2, <2>3 DEF data, c
<1> QED BY <1>5, <1>6

LEMMA ComposeTypes ==
  ASSUME IPCTypes, NEW s \in Senders, Compose(s)
  PROVE  IPCTypes'
<1>1. PICK body \in Bodies \ {<<>>}, fails \in BOOLEAN :
         LET kept == IF fails THEN Front(body) ELSE body
             length == Len(BodyBytes(s, kept))
             size == IF fails THEN length + Width(Last(body)) - 4 ELSE length
         IN  /\ sending' = [sending EXCEPT ![s] = IF size <= 0 THEN Nothing
                                ELSE [body |-> kept, size |-> size, pos |-> 0]]
             /\ spoilt' = spoilt
                          \cup (IF size # length THEN {"realloc"} ELSE {})
                          \cup (IF size \in {Capacity - 1, Capacity} THEN {"edge"} ELSE {})
  BY DEF Compose
<1> DEFINE kept == IF fails THEN Front(body) ELSE body
           length == Len(BodyBytes(s, kept))
           size == IF fails THEN length + Width(Last(body)) - 4 ELSE length
<1>2. body \in Seq(Fields) /\ body # <<>> BY IPCAssumption
<1>3. Front(body) \in Seq(Fields) /\ Last(body) \in Fields BY <1>2 DEF Front, Last
<1>4. kept \in Seq(Fields) BY <1>2, <1>3
<1>5. length \in Nat BY <1>4, BodyType
<1>6. Width(Last(body)) \in Nat BY <1>3, WidthType
<1>7. sending' = [sending EXCEPT ![s] = IF size <= 0 THEN Nothing
                                ELSE [body |-> kept, size |-> size, pos |-> 0]]
  BY <1>1
<1>8. spoilt' \subseteq Spoils
  <2>1. spoilt \subseteq Spoils BY DEF IPCTypes
  <2> QED BY <1>1, <2>1 DEF Spoils
<1> HIDE DEF kept, length
<1>9. size \in Int BY <1>5, <1>6
<1> HIDE DEF size
<1>10. size > 0 => [body |-> kept, size |-> size, pos |-> 0] \in Messages
  BY <1>4, <1>9 DEF Messages
<1>11. /\ sending' \in [Senders -> Messages \cup {Nothing}]
       /\ \A u \in Senders : sending'[u] # Nothing => sending'[u].pos < sending'[u].size
  BY <1>7, <1>9, <1>10 DEF IPCTypes
<1> QED BY <1>8, <1>11, IPCAssumption DEF IPCTypes, Compose

LEMMA SendChunkTypes ==
  ASSUME IPCTypes, NEW s \in Senders, SendChunk(s)
  PROVE  IPCTypes'
<1> DEFINE m == sending[s]
           pos == m.pos + ChunkSize(m)
           chunk == GetChunk(s, m)
<1>1. m \in Messages /\ m.pos < m.size BY DEF IPCTypes, SendChunk
<1>2. pos \in 1 .. m.size BY <1>1, ChunkPlace
<1>3. chunk \in Seq(Bytes) /\ Len(chunk) \in 1 .. Capacity BY <1>1, ChunkBytes
<1>4. /\ sending' = [sending EXCEPT ![s] = IF pos = m.size THEN Nothing ELSE [m EXCEPT !.pos = pos]]
      /\ expected' = IF m.pos = 0 THEN Append(expected, [body |-> m.body, by |-> s]) ELSE expected
      /\ wire' = Append(wire, chunk) \/ wire' = wire
      /\ spoilt' = spoilt \/ spoilt' = spoilt \cup {"mixed"} \/ spoilt' = spoilt \cup {"lost"}
      /\ UNCHANGED <<sends, message, received>>
  BY DEF SendChunk
<1> HIDE DEF pos, chunk, m
<1>5. pos # m.size => [m EXCEPT !.pos = pos] \in Messages /\ pos < m.size
  BY <1>1, <1>2 DEF Messages
<1>6. /\ sending' \in [Senders -> Messages \cup {Nothing}]
      /\ \A u \in Senders : sending'[u] # Nothing => sending'[u].pos < sending'[u].size
  BY <1>1, <1>4, <1>5 DEF IPCTypes, Messages
<1>7. expected' \in Seq(Entries)
  <2>1. [body |-> m.body, by |-> s] \in Entries BY <1>1 DEF Messages, Entries
  <2> QED BY <1>4, <2>1 DEF IPCTypes
<1>8. wire' \in Seq(Seq(Bytes)) /\ \A i \in 1 .. Len(wire') : Len(wire'[i]) \in 1 .. Capacity
  <2>1. CASE wire' = wire BY <2>1 DEF IPCTypes
  <2>2. CASE wire' = Append(wire, chunk)
    <3>0. wire \in Seq(Seq(Bytes)) /\ \A i \in 1 .. Len(wire) : Len(wire[i]) \in 1 .. Capacity
      BY DEF IPCTypes
    <3>1. /\ wire' \in Seq(Seq(Bytes)) /\ Len(wire') = Len(wire) + 1
          /\ \A i \in 1 .. Len(wire) : wire'[i] = wire[i]
          /\ wire'[Len(wire) + 1] = chunk
      BY <1>3, <2>2, <3>0, AppendProperties
    <3>2. Len(wire) \in Nat BY <3>0
    <3>3. ASSUME NEW i \in 1 .. Len(wire') PROVE Len(wire'[i]) \in 1 .. Capacity
      <4>1. i \in 1 .. Len(wire) \/ i = Len(wire) + 1 BY <3>1, <3>2
      <4> QED BY <1>3, <3>0, <3>1, <4>1
    <3> QED BY <3>1, <3>3
  <2> QED BY <1>4, <2>1, <2>2
<1>9. spoilt' \subseteq Spoils BY <1>4 DEF IPCTypes, Spoils
<1> QED BY <1>4, <1>6, <1>7, <1>8, <1>9 DEF IPCTypes

LEMMA SendFailsTypes ==
  ASSUME IPCTypes, NEW s \in Senders, SendFails(s)
  PROVE  IPCTypes'
<1>1. /\ sending' \in [Senders -> Messages \cup {Nothing}]
      /\ \A u \in Senders : sending'[u] # Nothing => sending'[u].pos < sending'[u].size
  BY DEF IPCTypes, SendFails
<1>2. spoilt' \subseteq Spoils BY DEF IPCTypes, SendFails, Spoils
<1> QED BY <1>1, <1>2 DEF IPCTypes, SendFails

\* What is put together is a message, as much of it as its size says at most.
LEMMA PutChunkType ==
  ASSUME NEW m \in [size : Nat, bytes : Seq(Bytes)], Len(m.bytes) <= m.size,
         NEW chunk \in Seq(Bytes), Len(chunk) >= 1, NEW p \in PutChunk(m, chunk)
  PROVE  p \in [size : Nat, bytes : Seq(Bytes)] /\ Len(p.bytes) <= p.size
<1>1. CASE m.bytes = <<>>
  <2>1. PICK n \in SizeIn(chunk) :
           p = [size |-> n, bytes |-> Copy(chunk, 2, IF n <= Capacity THEN n ELSE Capacity - 2)]
    BY <1>1 DEF PutChunk
  <2>2. n \in Nat
    <3>1. chunk[1] \in Bytes OBVIOUS
    <3>2. chunk[1][2] \in Nat BY <3>1 DEF Bytes
    <3> QED BY <3>2, IPCAssumption DEF SizeIn
  <2> DEFINE k == IF n <= Capacity THEN n ELSE Capacity - 2
  <2>3. k \in Nat /\ k <= n BY <2>2, IPCAssumption
  <2>4. p = [size |-> n, bytes |-> Copy(chunk, 2, k)] BY <2>1
  <2> HIDE DEF k
  <2>5. Copy(chunk, 2, k) \in Seq(Bytes) /\ Len(Copy(chunk, 2, k)) = k BY <2>3, CopyType
  <2> QED BY <2>2, <2>3, <2>4, <2>5
<1>2. CASE m.bytes # <<>>
  <2> DEFINE k == IF m.size - Len(m.bytes) <= Capacity THEN m.size - Len(m.bytes) ELSE Capacity
             more == Copy(chunk, 0, k)
  <2>1. p = [m EXCEPT !.bytes = @ \o more] BY <1>2 DEF PutChunk
  <2>2. k \in Nat /\ Len(m.bytes) \in Nat /\ Len(m.bytes) + k <= m.size BY IPCAssumption
  <2> HIDE DEF k
  <2>3. more \in Seq(Bytes) /\ Len(more) = k BY <2>2, CopyType
  <2> HIDE DEF more
  <2>4. p = [size |-> m.size, bytes |-> m.bytes \o more] BY <2>1
  <2>5. m.bytes \o more \in Seq(Bytes) /\ Len(m.bytes \o more) = Len(m.bytes) + k
    BY <2>3, ConcatProperties
  <2> QED BY <2>2, <2>4, <2>5
<1> QED BY <1>1, <1>2

LEMMA ReceiveTypes ==
  ASSUME IPCTypes, ReceiveChunk
  PROVE  IPCTypes'
<1>1. PICK m \in PutChunk(message, Head(wire)) :
          IF m.size > 0 /\ Len(m.bytes) >= m.size
          THEN /\ message' = Empty
               /\ received' = [bytes |-> m.bytes, as |-> IF expected = <<>> THEN Nothing ELSE Head(expected)]
               /\ expected' = IF expected = <<>> THEN <<>> ELSE Tail(expected)
          ELSE /\ message' = m
               /\ UNCHANGED <<received, expected>>
  BY DEF ReceiveChunk
<1>2. m \in [size : Nat, bytes : Seq(Bytes)] /\ Len(m.bytes) <= m.size
  <2>1. wire # <<>> BY DEF ReceiveChunk
  <2>2. Head(wire) \in Seq(Bytes) /\ Len(Head(wire)) >= 1
    BY <2>1, IPCAssumption DEF IPCTypes
  <2>3. message \in [size : Nat, bytes : Seq(Bytes)] /\ Len(message.bytes) <= message.size BY DEF IPCTypes
  <2> QED BY <2>2, <2>3, PutChunkType
<1>3. message' \in [size : Nat, bytes : Seq(Bytes)] /\ Len(message'.bytes) <= message'.size
  <2>1. Empty \in [size : Nat, bytes : Seq(Bytes)] /\ Len(Empty.bytes) <= Empty.size
    BY DEF Empty
  <2>2. message' = Empty \/ message' = m BY <1>1
  <2> QED BY <1>2, <2>1, <2>2
<1>4. expected' \in Seq(Entries)
  <2>1. expected \in Seq(Entries) BY DEF IPCTypes
  <2>2. expected # <<>> => Tail(expected) \in Seq(Entries) BY <2>1, HeadTailProperties
  <2>3. <<>> \in Seq(Entries) OBVIOUS
  <2> QED BY <1>1, <2>1, <2>2, <2>3
<1>5. received' # Nothing => received' \in [bytes : Seq(Bytes), as : Entries \cup {Nothing}]
  <2>1. expected # <<>> => Head(expected) \in Entries BY DEF IPCTypes
  <2> QED BY <1>1, <1>2, <2>1 DEF IPCTypes
<1>6. wire' \in Seq(Seq(Bytes)) /\ \A i \in 1 .. Len(wire') : Len(wire'[i]) \in 1 .. Capacity
  <2>1. wire # <<>> /\ wire' = Tail(wire) BY DEF ReceiveChunk
  <2>2. wire \in Seq(Seq(Bytes)) /\ \A i \in 1 .. Len(wire) : Len(wire[i]) \in 1 .. Capacity
    BY DEF IPCTypes
  <2>3. /\ wire' \in Seq(Seq(Bytes)) /\ Len(wire') = Len(wire) - 1
        /\ \A i \in 1 .. Len(wire') : wire'[i] = wire[i + 1]
    BY <2>1, <2>2, HeadTailProperties
  <2>4. Len(wire) \in Nat BY <2>2
  <2>5. \A i \in 1 .. Len(wire') : i + 1 \in 1 .. Len(wire) BY <2>3, <2>4
  <2> QED BY <2>2, <2>3, <2>5
<1> QED BY <1>3, <1>4, <1>5, <1>6 DEF IPCTypes, ReceiveChunk

LEMMA StartTypes == ASSUME IPCInit PROVE IPCTypes
<1>1. sending \in [Senders -> Messages \cup {Nothing}] /\ \A s \in Senders : sending[s] = Nothing
  BY DEF IPCInit
<1>2. message \in [size : Nat, bytes : Seq(Bytes)] /\ Len(message.bytes) <= message.size
  BY DEF IPCInit, Empty
<1> QED BY <1>1, <1>2, IPCAssumption DEF IPCInit, IPCTypes

LEMMA StepTypes == ASSUME IPCTypes, [IPCNext]_ipcVars PROVE IPCTypes'
<1>1. CASE UNCHANGED ipcVars BY <1>1 DEF ipcVars, IPCTypes
<1>2. CASE IPCNext
  BY <1>2, ComposeTypes, SendChunkTypes, SendFailsTypes, ReceiveTypes DEF IPCNext
<1> QED BY <1>1, <1>2

\* Whatever is lost, mixed or misread, no datagram is longer than what recv takes,
\* and nobody has received or sent more than the size that the message declares.
THEOREM IPCTypesOK == IPCSpec => []IPCTypeOK
<1>1. IPCSpec => []IPCTypes
  BY StartTypes, StepTypes, PTL DEF IPCSpec
<1>2. IPCTypes => IPCTypeOK
  <2> SUFFICES ASSUME IPCTypes PROVE IPCTypeOK OBVIOUS
  <2>1. DOMAIN wire = 1 .. Len(wire) BY DEF IPCTypes
  <2>2. \A s \in Senders : sending[s] = Nothing \/ sending[s].pos < sending[s].size
    BY DEF IPCTypes
  <2> QED BY <2>1, <2>2 DEF IPCTypes, IPCTypeOK
<1> QED BY <1>1, <1>2, PTL

-----------------------------------------------------------------------------

\* What a receiver makes of the datagram behind the n bytes it has.
\* What GetChunk cuts off, PutChunk appends: the next bytes of the message.
LEMMA PutGet ==
  ASSUME NEW e \in Entries, NEW n \in Nat, n < SizeOf(e), SizeOf(e) \notin {Capacity - 1, Capacity},
         NEW m \in [size : Nat, bytes : Seq(Bytes)], Len(m.bytes) = n,
         n > 0 => m.size = SizeOf(e) /\ m.bytes = Copy(BytesIn(e), 0, n)
  PROVE  /\ PutChunk(m, GetChunk(e.by, Sent(e, n)))
            = {[size |-> SizeOf(e), bytes |-> Copy(BytesIn(e), 0, NextByte(e, n))]}
         /\ NextByte(e, n) \in 1 .. SizeOf(e)
<1> DEFINE x == Sent(e, n)
           B == BytesIn(e)
           c == ChunkSize(x)
           data == Copy(B, n, c)
           chunk == GetChunk(e.by, x)
           z == SizeOf(e)
<1>1. /\ x \in Messages /\ x.pos = n /\ x.size = z /\ x.body = e.body /\ e.by \in Senders
      /\ B \in Seq(Bytes) /\ z \in Nat /\ z = Len(B)
  BY EntryType DEF Sent, Entries, SizeOf
<1>2. BodyBytes(e.by, x.body) = B BY <1>1 DEF BytesIn
<1>3. NextByte(e, n) = n + c BY DEF NextByte
<1> HIDE DEF x, B, z
<1>4. /\ c \in 1 .. Capacity /\ n + c \in 1 .. z
      /\ c = IF n = 0
             THEN (IF z <= Capacity - 2 THEN z ELSE Capacity - 2)
             ELSE (IF z - n <= Capacity THEN z - n ELSE Capacity)
  BY <1>1, ChunkPlace DEF z
<1>5. /\ data \in Seq(Bytes) /\ Len(data) = c /\ chunk \in Seq(Bytes)
      /\ n > 0 => chunk = data
      /\ n = 0 => /\ Len(chunk) = 2 + Len(data)
                  /\ chunk[1] = <<"size", z>>
                  /\ \A i \in 1 .. Len(data) : chunk[2 + i] = data[i]
  <2>1. x.pos < x.size BY <1>1 DEF z
  <2> QED BY <1>1, <1>2, <2>1, ChunkBytes
<1>6. c \in Nat BY <1>4, IPCAssumption
<1> HIDE DEF c, chunk
<1>7. CASE n = 0
  <2>1. m.bytes = <<>> BY <1>7
  <2>2. SizeIn(chunk) = {z}
    <3>1. chunk[1] = <<"size", z>> BY <1>5, <1>7
    <3> QED BY <3>1 DEF SizeIn
  <2>3. PutChunk(m, chunk) = {[size |-> z, bytes |-> Copy(chunk, 2, IF z <= Capacity THEN z ELSE Capacity - 2)]}
    BY <2>1, <2>2 DEF PutChunk
  <2>4. (IF z <= Capacity THEN z ELSE Capacity - 2) = c
    BY <1>1, <1>4, <1>7, IPCAssumption DEF z
  <2>5. Copy(chunk, 2, c) = data
    <3> HIDE DEF data
    <3>1. 2 \in Nat OBVIOUS
    <3>2. Copy(chunk, 2, Len(data)) = data BY <1>5, <1>7, <3>1, CopyBehind
    <3> QED BY <1>5, <3>2
  <2>6. data = Copy(B, 0, n + c) BY <1>6, <1>7
  <2> QED BY <1>3, <1>4, <2>3, <2>4, <2>5, <2>6 DEF z, B, x, chunk
<1>8. CASE n > 0
  <2> DEFINE k == IF m.size - Len(m.bytes) <= Capacity THEN m.size - Len(m.bytes) ELSE Capacity
  <2>1. m.bytes # <<>> BY <1>8
  <2>2. k = c BY <1>4, <1>8 DEF z
  <2>3. PutChunk(m, chunk) = {[m EXCEPT !.bytes = @ \o Copy(chunk, 0, k)]}
    BY <2>1 DEF PutChunk
  <2>4. Copy(chunk, 0, c) = data
    <3> HIDE DEF data
    <3>1. Copy(data, 0, Len(data)) = data BY <1>5, CopyAll
    <3> QED BY <1>5, <1>8, <3>1
  <2>5. m.bytes \o data = Copy(B, 0, n + c)
    <3>1. m.bytes = Copy(B, 0, n) BY <1>8 DEF B
    <3>2. Copy(B, 0, n) \o Copy(B, n, c) = Copy(B, 0, n + c) BY <1>1, <1>6, CopyMore
    <3> QED BY <3>1, <3>2
  <2>6. [m EXCEPT !.bytes = @ \o data] = [size |-> z, bytes |-> m.bytes \o data]
    <3> HIDE DEF data
    <3>1. m.size = z BY <1>8 DEF z
    <3> DEFINE w == m.bytes \o data
    <3> HIDE DEF w
    <3>2. [m EXCEPT !.bytes = w] = [size |-> z, bytes |-> w] BY <3>1
    <3> QED BY <3>2 DEF w
  <2> HIDE DEF k, data
  <2> QED BY <1>3, <1>4, <2>2, <2>3, <2>4, <2>5, <2>6 DEF z, B, x, chunk
<1> QED BY <1>7, <1>8

(***************************************************************************)
(* The order of the datagrams: datagram i is that of message of[i] which   *)
(* starts at byte from[i]; the one after the last is still to be sent.     *)
(***************************************************************************)

Places(of, from) ==
    /\ of \in [1 .. Len(wire) + 1 -> Nat]
    /\ from \in [1 .. Len(wire) + 1 -> Nat]
    /\ \A i \in 1 .. Len(wire) :
          LET e == expected[of[i]]
          IN  /\ of[i] \in 1 .. Len(expected)
              /\ from[i] < SizeOf(e)
              /\ wire[i] = GetChunk(e.by, Sent(e, from[i]))
              /\ IF NextByte(e, from[i]) = SizeOf(e)
                 THEN of[i + 1] = of[i] + 1 /\ from[i + 1] = 0
                 ELSE of[i + 1] = of[i] /\ from[i + 1] = NextByte(e, from[i])
    /\ \A i, j \in 1 .. Len(wire) + 1 : i <= j => of[i] <= of[j]

\* The receiver has what precedes the first.
First(of, from) == of[1] = 1 /\ from[1] = Len(message.bytes)

\* The sender of the last goes on where that one ended; nobody else has begun.
Final(of, from) ==
    LET last == Len(wire) + 1
    IN  IF from[last] = 0
        THEN /\ of[last] = Len(expected) + 1
             /\ \A s \in Senders : sending[s] # Nothing => sending[s].pos = 0
        ELSE /\ of[last] = Len(expected) /\ of[last] >= 1
             /\ LET e == expected[Len(expected)]
                IN  /\ sending[e.by] = Sent(e, from[last])
                    /\ \A s \in Senders \ {e.by} : sending[s] # Nothing => sending[s].pos = 0

Laid == \E of, from : Places(of, from) /\ First(of, from) /\ Final(of, from)

Framed(size) == size \in Nat /\ size > 0 /\ size \notin {Capacity - 1, Capacity}

SendersClean ==
    \A s \in Senders : sending[s] # Nothing =>
        sending[s].size = Len(BodyBytes(s, sending[s].body)) /\ Framed(sending[s].size)

ExpectedClean == \A i \in 1 .. Len(expected) : Framed(SizeOf(expected[i]))

MessageClean ==
    Len(message.bytes) > 0 =>
        /\ expected # <<>>
        /\ message.size = SizeOf(expected[1])
        /\ message.bytes = Copy(BytesIn(expected[1]), 0, Len(message.bytes))

ReceivedClean ==
    received # Nothing => received.as \in Entries /\ received.bytes = BytesIn(received.as)

\* What is certain until something happens that the framing does not stand.
Clean == SendersClean /\ ExpectedClean /\ MessageClean /\ ReceivedClean /\ Laid

IPCInvariant == IPCTypes /\ (spoilt = {} => Clean)

LEMMA StartClean == ASSUME IPCInit PROVE Clean
<1> DEFINE of == [i \in 1 .. 1 |-> 1]
           from == [i \in 1 .. 1 |-> 0]
<1>1. /\ wire = <<>> /\ expected = <<>> /\ Len(message.bytes) = 0 /\ received = Nothing
      /\ \A s \in Senders : sending[s] = Nothing
  BY DEF IPCInit, Empty
<1>2. Len(wire) = 0 /\ Len(expected) = 0 BY <1>1
<1>3. of[1] = 1 /\ from[1] = 0 /\ of \in [1 .. 1 -> Nat] /\ from \in [1 .. 1 -> Nat]
      /\ \A i, j \in 1 .. 1 : of[i] <= of[j]
  OBVIOUS
<1> HIDE DEF of, from
<1>4. Places(of, from) BY <1>2, <1>3 DEF Places
<1>5. First(of, from) BY <1>1, <1>3 DEF First
<1>6. Final(of, from) BY <1>1, <1>2, <1>3 DEF Final
<1>7. Laid BY <1>4, <1>5, <1>6 DEF Laid
<1> QED BY <1>1, <1>2, <1>7 DEF Clean, SendersClean, ExpectedClean, MessageClean, ReceivedClean

\* A sender that has begun is the one whose message is the last, and the only one.
LEMMA TheSender ==
  ASSUME IPCTypes, NEW of, NEW from, Places(of, from), Final(of, from)
  PROVE  LET last == Len(wire) + 1
         IN  /\ from[last] \in Nat
             /\ (\A u \in Senders : sending[u] # Nothing => sending[u].pos = 0)
                 => from[last] = 0 /\ of[last] = Len(expected) + 1
             /\ \A s \in Senders : sending[s] # Nothing /\ sending[s].pos > 0 =>
                    /\ from[last] = sending[s].pos /\ of[last] = Len(expected) /\ of[last] >= 1
                    /\ expected[Len(expected)].by = s
                    /\ sending[s] = Sent(expected[Len(expected)], from[last])
                    /\ \A u \in Senders \ {s} : sending[u] # Nothing => sending[u].pos = 0
<1> DEFINE last == Len(wire) + 1
           e == expected[Len(expected)]
<1>1. from[last] \in Nat
  <2>1. last \in 1 .. Len(wire) + 1 BY DEF IPCTypes
  <2> QED BY <2>1 DEF Places
<1>2. CASE from[last] = 0
  BY <1>1, <1>2 DEF Final
<1>3. CASE from[last] # 0
  <2>1. /\ of[last] = Len(expected) /\ of[last] >= 1
        /\ sending[e.by] = Sent(e, from[last])
        /\ \A u \in Senders \ {e.by} : sending[u] # Nothing => sending[u].pos = 0
    BY <1>3 DEF Final
  <2>2. e \in Entries BY <2>1 DEF IPCTypes
  <2>3. e.by \in Senders BY <2>2 DEF Entries
  <2>4. sending[e.by] # Nothing
    <3>1. Sent(e, from[last]) \in Messages BY <1>1, <2>2, EntryType
    <3> QED BY <2>1, <3>1, IPCAssumption
  <2>5. sending[e.by].pos = from[last] BY <2>1 DEF Sent
  <2>6. ASSUME NEW s \in Senders, sending[s] # Nothing, sending[s].pos > 0
        PROVE  s = e.by
    BY <2>1, <2>6
  <2> QED BY <1>1, <1>3, <2>1, <2>3, <2>4, <2>5, <2>6
<1> QED BY <1>2, <1>3

LEMMA ComposeClean ==
  ASSUME IPCTypes, Clean, NEW s \in Senders, Compose(s), spoilt' = {}
  PROVE  Clean'
<1>1. /\ sending[s] = Nothing
      /\ UNCHANGED <<wire, message, expected, received>>
  BY DEF Compose
<1>2. PICK of, from : Places(of, from) /\ First(of, from) /\ Final(of, from)
  BY DEF Clean, Laid
<1>3. PICK m : /\ sending' = [sending EXCEPT ![s] = m]
               /\ m # Nothing => m.pos = 0 /\ m.size = Len(BodyBytes(s, m.body)) /\ Framed(m.size)
  <2>1. PICK body \in Bodies \ {<<>>}, fails \in BOOLEAN :
         LET kept == IF fails THEN Front(body) ELSE body
             length == Len(BodyBytes(s, kept))
             size == IF fails THEN length + Width(Last(body)) - 4 ELSE length
         IN  /\ sending' = [sending EXCEPT ![s] = IF size <= 0 THEN Nothing
                                ELSE [body |-> kept, size |-> size, pos |-> 0]]
             /\ spoilt' = spoilt
                          \cup (IF size # length THEN {"realloc"} ELSE {})
                          \cup (IF size \in {Capacity - 1, Capacity} THEN {"edge"} ELSE {})
    BY DEF Compose
  <2> DEFINE kept == IF fails THEN Front(body) ELSE body
             length == Len(BodyBytes(s, kept))
             size == IF fails THEN length + Width(Last(body)) - 4 ELSE length
             m == IF size <= 0 THEN Nothing ELSE [body |-> kept, size |-> size, pos |-> 0]
  <2>2. body \in Seq(Fields) /\ body # <<>> BY IPCAssumption
  <2>3. Front(body) \in Seq(Fields) BY <2>2 DEF Front
  <2>4. kept \in Seq(Fields) BY <2>2, <2>3
  <2>5. length \in Nat BY <2>4, BodyType
  <2>6. sending' = [sending EXCEPT ![s] = m] BY <2>1
  <2>7. size = length /\ size \notin {Capacity - 1, Capacity}
    BY <2>1
  <2> HIDE DEF size
  <2>8. m # Nothing => m = [body |-> kept, size |-> size, pos |-> 0] /\ size > 0
    BY <2>5, <2>7
  <2> HIDE DEF m
  <2>9. m # Nothing => m.pos = 0 /\ m.size = Len(BodyBytes(s, m.body)) /\ Framed(m.size)
    BY <2>5, <2>7, <2>8 DEF Framed
  <2> QED BY <2>6, <2>9
<1>4. sending'[s] = m /\ \A u \in Senders \ {s} : sending'[u] = sending[u]
  BY <1>3 DEF IPCTypes
<1>5. SendersClean'
  BY <1>3, <1>4 DEF Clean, SendersClean
<1>6. Final(of, from)'
  <2> DEFINE last == Len(wire) + 1
             e == expected[Len(expected)]
  <2>1. CASE from[last] = 0
    BY <1>1, <1>2, <1>3, <1>4, <2>1 DEF Final
  <2>2. CASE from[last] # 0
    <3>1. /\ of[last] = Len(expected) /\ of[last] >= 1
          /\ sending[e.by] = Sent(e, from[last])
          /\ \A u \in Senders \ {e.by} : sending[u] # Nothing => sending[u].pos = 0
      BY <1>2, <2>2 DEF Final
    <3>2. e \in Entries BY <3>1 DEF IPCTypes
    <3>3. from[last] \in Nat
      <4>1. last \in 1 .. Len(wire) + 1 BY DEF IPCTypes
      <4> QED BY <1>2, <4>1 DEF Places
    <3>4. Sent(e, from[last]) # Nothing BY <3>2, <3>3, EntryType, IPCAssumption
    <3>5. e.by # s /\ e.by \in Senders BY <1>1, <3>1, <3>2, <3>4 DEF Entries
    <3>6. /\ sending'[e.by] = Sent(e, from[last])
          /\ \A u \in Senders \ {e.by} : sending'[u] # Nothing => sending'[u].pos = 0
      BY <1>3, <1>4, <3>1, <3>5
    <3> QED BY <1>1, <2>2, <3>1, <3>6 DEF Final
  <2> QED BY <2>1, <2>2
<1>7. Places(of, from)' /\ First(of, from)' BY <1>1, <1>2 DEF Places, First
<1>8. Laid' BY <1>6, <1>7 DEF Laid
<1> QED BY <1>1, <1>5, <1>8 DEF Clean, ExpectedClean, MessageClean, ReceivedClean

LEMMA SendFailsClean ==
  ASSUME IPCTypes, Clean, NEW s \in Senders, SendFails(s), spoilt' = {}
  PROVE  Clean'
<1>1. /\ sending[s] # Nothing /\ ~(sending[s].pos > 0)
      /\ UNCHANGED <<wire, message, expected, received>>
  BY DEF SendFails
<1>2. PICK of, from : Places(of, from) /\ First(of, from) /\ Final(of, from)
  BY DEF Clean, Laid
<1>4. sending'[s] = Nothing /\ \A u \in Senders \ {s} : sending'[u] = sending[u]
  BY DEF SendFails, IPCTypes
<1>5. SendersClean'
  BY <1>4 DEF Clean, SendersClean
<1>6. Final(of, from)'
  <2> DEFINE last == Len(wire) + 1
             e == expected[Len(expected)]
  <2>1. CASE from[last] = 0
    BY <1>1, <1>2, <1>4, <2>1 DEF Final
  <2>2. CASE from[last] # 0
    <3>1. /\ of[last] = Len(expected) /\ of[last] >= 1
          /\ sending[e.by] = Sent(e, from[last])
          /\ \A u \in Senders \ {e.by} : sending[u] # Nothing => sending[u].pos = 0
      BY <1>2, <2>2 DEF Final
    <3>2. e \in Entries BY <3>1 DEF IPCTypes
    <3>3. from[last] \in Nat
      <4>1. last \in 1 .. Len(wire) + 1 BY DEF IPCTypes
      <4> QED BY <1>2, <4>1 DEF Places
    <3>4. sending[e.by].pos = from[last] BY <3>1 DEF Sent
    <3>5. e.by # s /\ e.by \in Senders BY <1>1, <2>2, <3>2, <3>3, <3>4 DEF Entries
    <3>6. /\ sending'[e.by] = Sent(e, from[last])
          /\ \A u \in Senders \ {e.by} : sending'[u] # Nothing => sending'[u].pos = 0
      BY <1>4, <3>1, <3>5
    <3> QED BY <1>1, <2>2, <3>1, <3>6 DEF Final
  <2> QED BY <2>1, <2>2
<1>7. Places(of, from)' /\ First(of, from)' BY <1>1, <1>2 DEF Places, First
<1>8. Laid' BY <1>6, <1>7 DEF Laid
<1> QED BY <1>1, <1>5, <1>8 DEF Clean, ExpectedClean, MessageClean, ReceivedClean

LEMMA SendChunkClean ==
  ASSUME IPCTypes, Clean, NEW s \in Senders, SendChunk(s), spoilt' = {}
  PROVE  Clean'
<1> DEFINE m == sending[s]
           pos == m.pos + ChunkSize(m)
           chunk == GetChunk(s, m)
           e == [body |-> m.body, by |-> s]
           last == Len(wire) + 1
<1>1. /\ m # Nothing
      /\ sending' = [sending EXCEPT ![s] = IF pos = m.size THEN Nothing ELSE [m EXCEPT !.pos = pos]]
      /\ expected' = IF m.pos = 0 THEN Append(expected, e) ELSE expected
      /\ wire' = Append(wire, chunk) /\ Underway(s) = {}
      /\ UNCHANGED <<sends, message, received>>
  BY DEF SendChunk
<1>2. m \in Messages /\ m.pos < m.size BY <1>1 DEF IPCTypes
<1>3. \A u \in Senders \ {s} : sending[u] # Nothing => sending[u].pos = 0
  <2> SUFFICES ASSUME NEW u \in Senders \ {s}, sending[u] # Nothing PROVE sending[u].pos = 0
    OBVIOUS
  <2>1. sending[u] \in Messages BY DEF IPCTypes
  <2>2. ~(sending[u].pos > 0) BY <1>1 DEF Underway
  <2> QED BY <2>1, <2>2 DEF Messages
<1>4. e \in Entries BY <1>2 DEF Messages, Entries
<1>5. m.size = SizeOf(e) /\ Framed(SizeOf(e)) /\ m = Sent(e, m.pos)
  <2>1. m.size = Len(BodyBytes(s, m.body)) /\ Framed(m.size)
    BY <1>1 DEF Clean, SendersClean
  <2>2. SizeOf(e) = Len(BodyBytes(s, m.body)) BY DEF SizeOf, BytesIn
  <2>3. m = [body |-> m.body, size |-> m.size, pos |-> m.pos] BY <1>2 DEF Messages
  <2> HIDE DEF m
  <2> QED BY <2>1, <2>2, <2>3 DEF Sent
<1>6. PICK of, from : Places(of, from) /\ First(of, from) /\ Final(of, from)
  BY DEF Clean, Laid
<1>7. expected \in Seq(Entries) /\ Len(expected) \in Nat /\ Len(wire) \in Nat BY DEF IPCTypes
<1>8. /\ from[last] = m.pos
      /\ of[last] = Len(expected') /\ of[last] >= 1 /\ expected'[Len(expected')] = e
      /\ Len(expected') \in Nat /\ Len(expected') >= Len(expected)
      /\ \A i \in 1 .. Len(expected) : expected'[i] = expected[i]
      /\ \A i \in 1 .. Len(expected') : i \in 1 .. Len(expected) \/ expected'[i] = e
  <2>1. CASE m.pos = 0
    <3>1. \A u \in Senders : sending[u] # Nothing => sending[u].pos = 0
      BY <1>3, <2>1
    <3>2. from[last] = 0 /\ of[last] = Len(expected) + 1
      BY <1>6, <3>1, TheSender
    <3> HIDE DEF e, m, last
    <3>3. /\ Len(expected') = Len(expected) + 1
          /\ \A i \in 1 .. Len(expected) : expected'[i] = expected[i]
          /\ expected'[Len(expected) + 1] = e
      BY <1>1, <1>4, <1>7, <2>1, AppendProperties
    <3> QED BY <1>7, <2>1, <3>2, <3>3
  <2>2. CASE m.pos # 0
    <3>0. m.pos > 0 BY <1>2, <2>2 DEF Messages
    <3> DEFINE x == expected[Len(expected)]
    <3>1. /\ from[last] = m.pos /\ of[last] = Len(expected) /\ of[last] >= 1
          /\ x.by = s /\ m = Sent(x, from[last])
      BY <1>1, <1>6, <3>0, TheSender
    <3>2. x \in Entries BY <1>7, <3>1
    <3>3. x.body = m.body BY <3>1 DEF Sent
    <3>4. x = e
      <4> HIDE DEF m, x
      <4> QED BY <3>1, <3>2, <3>3 DEF Entries
    <3>5. expected' = expected BY <1>1, <2>2
    <3> HIDE DEF e, m, last
    <3> QED BY <1>7, <3>1, <3>4, <3>5
  <2> QED BY <2>1, <2>2
<1>9. /\ Len(wire') = last /\ wire'[last] = chunk
      /\ \A i \in 1 .. Len(wire) : wire'[i] = wire[i]
  <2>1. chunk \in Seq(Bytes) BY <1>2, ChunkBytes
  <2>2. wire \in Seq(Seq(Bytes)) BY DEF IPCTypes
  <2> HIDE DEF chunk
  <2> QED BY <1>1, <2>1, <2>2, AppendProperties
<1>10. pos = NextByte(e, m.pos) /\ pos \in 1 .. m.size
  BY <1>2, <1>5, ChunkPlace DEF NextByte
<1>11. chunk = GetChunk(e.by, Sent(e, m.pos)) BY <1>5
<1>12. PICK og, fg :
          /\ og = [i \in 1 .. last + 1 |-> IF i <= last THEN of[i]
                                          ELSE IF pos = m.size THEN of[last] + 1 ELSE of[last]]
          /\ fg = [i \in 1 .. last + 1 |-> IF i <= last THEN from[i]
                                          ELSE IF pos = m.size THEN 0 ELSE pos]
  OBVIOUS
<1>13. /\ m.size \in Nat /\ m.pos \in Nat /\ m.pos < m.size BY <1>2 DEF Messages
<1>14. /\ sending'[s] = IF pos = m.size THEN Nothing ELSE [m EXCEPT !.pos = pos]
       /\ \A u \in Senders \ {s} : sending'[u] = sending[u]
  BY <1>1 DEF IPCTypes
<1>15. SendersClean'
  <2>1. sending'[s] # Nothing => sending'[s].size = m.size /\ sending'[s].body = m.body
    BY <1>2, <1>14 DEF Messages
  <2>2. m.size = Len(BodyBytes(s, m.body)) /\ Framed(m.size)
    BY <1>1 DEF Clean, SendersClean
  <2> HIDE DEF m
  <2> QED BY <1>14, <2>1, <2>2 DEF Clean, SendersClean
<1>16. ExpectedClean'
  BY <1>5, <1>8 DEF Clean, ExpectedClean
<1>17. MessageClean'
  <2> SUFFICES ASSUME Len(message.bytes) > 0
               PROVE  /\ expected' # <<>> /\ message.size = SizeOf(expected'[1])
                      /\ message.bytes = Copy(BytesIn(expected'[1]), 0, Len(message.bytes))
    BY <1>1 DEF MessageClean
  <2>1. /\ expected # <<>> /\ message.size = SizeOf(expected[1])
        /\ message.bytes = Copy(BytesIn(expected[1]), 0, Len(message.bytes))
    BY DEF Clean, MessageClean
  <2>2. 1 \in 1 .. Len(expected) BY <1>7, <2>1
  <2>3. expected'[1] = expected[1] /\ expected' # <<>>
    <3> HIDE DEF e, m, last
    <3> QED BY <1>7, <1>8, <2>2
  <2> QED BY <2>1, <2>3
<1>18. ReceivedClean' BY <1>1 DEF Clean, ReceivedClean
<1> HIDE DEF m, pos, chunk, last
<1>19. last \in Nat /\ last = Len(wire) + 1 /\ last >= 1 /\ Len(wire') = last BY <1>7, <1>9 DEF last
<1>20. /\ og \in [1 .. last + 1 -> Nat] /\ fg \in [1 .. last + 1 -> Nat]
       /\ \A i \in 1 .. last : og[i] = of[i] /\ fg[i] = from[i]
       /\ og[last + 1] = IF pos = m.size THEN of[last] + 1 ELSE of[last]
       /\ fg[last + 1] = IF pos = m.size THEN 0 ELSE pos
  BY <1>6, <1>10, <1>12, <1>13, <1>19 DEF Places
<1>21. Places(og, fg)'
  <2>1. ASSUME NEW i \in 1 .. Len(wire')
        PROVE  LET x == expected'[og[i]]
               IN  /\ og[i] \in 1 .. Len(expected')
                   /\ fg[i] < SizeOf(x)
                   /\ wire'[i] = GetChunk(x.by, Sent(x, fg[i]))
                   /\ IF NextByte(x, fg[i]) = SizeOf(x)
                      THEN og[i + 1] = og[i] + 1 /\ fg[i + 1] = 0
                      ELSE og[i + 1] = og[i] /\ fg[i + 1] = NextByte(x, fg[i])
    <3>1. CASE i = last
      <4>1. og[i] = of[last] /\ fg[i] = m.pos BY <1>8, <1>19, <1>20, <3>1
      <4>2. expected'[og[i]] = e /\ og[i] \in 1 .. Len(expected') BY <1>8, <4>1
      <4>3. fg[i] < SizeOf(e) BY <1>5, <1>13, <4>1
      <4>4. wire'[i] = GetChunk(e.by, Sent(e, fg[i])) BY <1>9, <1>11, <3>1, <4>1
      <4>5. IF NextByte(e, fg[i]) = SizeOf(e)
            THEN og[i + 1] = og[i] + 1 /\ fg[i + 1] = 0
            ELSE og[i + 1] = og[i] /\ fg[i + 1] = NextByte(e, fg[i])
        BY <1>5, <1>10, <1>20, <3>1, <4>1
      <4> HIDE DEF e
      <4> QED BY <4>2, <4>3, <4>4, <4>5
    <3>2. CASE i # last
      <4>1. i \in 1 .. Len(wire) /\ i \in 1 .. last /\ i + 1 \in 1 .. last BY <1>7, <1>19, <3>2
      <4>2. og[i] = of[i] /\ fg[i] = from[i] /\ og[i + 1] = of[i + 1] /\ fg[i + 1] = from[i + 1]
        BY <1>20, <4>1
      <4> DEFINE y == expected[of[i]]
      <4>3. /\ of[i] \in 1 .. Len(expected)
            /\ from[i] < SizeOf(y)
            /\ wire[i] = GetChunk(y.by, Sent(y, from[i]))
            /\ IF NextByte(y, from[i]) = SizeOf(y)
               THEN of[i + 1] = of[i] + 1 /\ from[i + 1] = 0
               ELSE of[i + 1] = of[i] /\ from[i + 1] = NextByte(y, from[i])
        BY <1>6, <4>1 DEF Places
      <4>4. expected'[og[i]] = y /\ og[i] \in 1 .. Len(expected')
        BY <1>7, <1>8, <4>2, <4>3
      <4>5. wire'[i] = wire[i] BY <1>9, <4>1
      <4> HIDE DEF y, e
      <4> QED BY <4>2, <4>3, <4>4, <4>5
    <3> QED BY <3>1, <3>2
  <2>2. ASSUME NEW i \in 1 .. last + 1, NEW j \in 1 .. last + 1, i <= j PROVE og[i] <= og[j]
    <3>0. \A k, l \in 1 .. last : k <= l => of[k] <= of[l] BY <1>6, <1>19 DEF Places
    <3>1. \A k \in 1 .. last : of[k] \in Nat BY <1>6, <1>19 DEF Places
    <3>2. of[last] <= og[last + 1] BY <1>19, <1>20, <3>1
    <3>3. og[last + 1] \in Nat BY <1>19, <1>20
    <3>4. CASE i = last + 1 BY <1>19, <2>2, <3>3, <3>4
    <3>5. CASE i \in 1 .. last /\ j \in 1 .. last BY <1>20, <2>2, <3>0, <3>5
    <3>6. CASE i \in 1 .. last /\ j = last + 1
      <4>1. of[i] <= of[last] BY <1>19, <3>0, <3>6
      <4> QED BY <1>19, <1>20, <3>1, <3>2, <3>3, <3>6, <4>1
    <3> QED BY <1>19, <3>4, <3>5, <3>6
  <2> QED BY <1>19, <1>20, <2>1, <2>2 DEF Places
<1>22. First(og, fg)'
  <2>1. 1 \in 1 .. last BY <1>19
  <2> QED BY <1>1, <1>6, <1>20, <2>1 DEF First
<1>23. Final(og, fg)'
  <2>1. CASE pos = m.size
    <3>1. fg[last + 1] = 0 /\ og[last + 1] = Len(expected') + 1 BY <1>8, <1>20, <2>1
    <3>2. sending'[s] = Nothing BY <1>14, <2>1
    <3>3. \A u \in Senders : sending'[u] # Nothing => sending'[u].pos = 0
      BY <1>3, <1>14, <3>2
    <3> QED BY <1>19, <3>1, <3>3 DEF Final
  <2>2. CASE pos # m.size
    <3>1. fg[last + 1] = pos /\ pos # 0 /\ og[last + 1] = Len(expected') /\ og[last + 1] >= 1
      BY <1>8, <1>10, <1>13, <1>20, <2>2
    <3>2. sending'[s] = Sent(e, pos)
      <4>1. sending'[s] = [m EXCEPT !.pos = pos] BY <1>14, <2>2
      <4> HIDE DEF e
      <4>2. [m EXCEPT !.pos = pos] = Sent(e, pos) BY <1>5 DEF Sent
      <4> QED BY <4>1, <4>2
    <3>3. \A u \in Senders \ {s} : sending'[u] # Nothing => sending'[u].pos = 0
      BY <1>3, <1>14
    <3>4. expected'[Len(expected')] = e /\ e.by = s BY <1>8
    <3> HIDE DEF e
    <3> QED BY <1>19, <3>1, <3>2, <3>3, <3>4 DEF Final
  <2> QED BY <2>1, <2>2
<1>24. Laid' BY <1>21, <1>22, <1>23 DEF Laid
<1> QED BY <1>15, <1>16, <1>17, <1>18, <1>24 DEF Clean

LEMMA ReceiveClean ==
  ASSUME IPCTypes, Clean, ReceiveChunk, spoilt' = {}
  PROVE  Clean'
<1> DEFINE e == expected[1]
           n == Len(message.bytes)
           B == BytesIn(e)
           got == [size |-> SizeOf(e), bytes |-> Copy(B, 0, NextByte(e, n))]
           complete == NextByte(e, n) = SizeOf(e)
<1>1. PICK of, from : Places(of, from) /\ First(of, from) /\ Final(of, from)
  BY DEF Clean, Laid
<1>2. /\ wire # <<>> /\ wire' = Tail(wire) /\ UNCHANGED <<sends, sending, spoilt>>
  BY DEF ReceiveChunk
<1>3. wire \in Seq(Seq(Bytes)) /\ Len(wire) \in Nat /\ Len(wire) >= 1
  BY <1>2 DEF IPCTypes
<1>4. /\ Len(wire') = Len(wire) - 1
      /\ \A i \in 1 .. Len(wire') : wire'[i] = wire[i + 1]
  BY <1>2, <1>3, HeadTailProperties
<1>5. 1 \in 1 .. Len(wire) /\ of[1] = 1 /\ from[1] = n BY <1>1, <1>3 DEF First
<1>6. /\ 1 \in 1 .. Len(expected) /\ n < SizeOf(e)
      /\ wire[1] = GetChunk(e.by, Sent(e, n))
      /\ IF complete THEN of[2] = 2 /\ from[2] = 0 ELSE of[2] = 1 /\ from[2] = NextByte(e, n)
  <2>1. /\ of[1] \in 1 .. Len(expected)
        /\ from[1] < SizeOf(expected[of[1]])
        /\ wire[1] = GetChunk(expected[of[1]].by, Sent(expected[of[1]], from[1]))
        /\ IF NextByte(expected[of[1]], from[1]) = SizeOf(expected[of[1]])
           THEN of[1 + 1] = of[1] + 1 /\ from[1 + 1] = 0
           ELSE of[1 + 1] = of[1] /\ from[1 + 1] = NextByte(expected[of[1]], from[1])
    BY <1>1, <1>5 DEF Places
  <2>2. of[2] = of[1 + 1] /\ from[2] = from[1 + 1] /\ of[1] + 1 = 2 BY <1>5
  <2> QED BY <1>5, <2>1, <2>2
<1>7. expected \in Seq(Entries) /\ Len(expected) \in Nat /\ expected # <<>> /\ e \in Entries
  BY <1>6 DEF IPCTypes
<1>8. message \in [size : Nat, bytes : Seq(Bytes)] /\ n \in Nat BY DEF IPCTypes
<1>9. Framed(SizeOf(e)) BY <1>6 DEF Clean, ExpectedClean
<1>10. n > 0 => message.size = SizeOf(e) /\ message.bytes = Copy(B, 0, n)
  BY DEF Clean, MessageClean
<1>11. PutChunk(message, wire[1]) = {got} /\ NextByte(e, n) \in 1 .. SizeOf(e)
  <2>1. SizeOf(e) \notin {Capacity - 1, Capacity} BY <1>9 DEF Framed
  <2> HIDE DEF e
  <2> QED BY <1>6, <1>7, <1>8, <1>10, <2>1, PutGet
<1>12. B \in Seq(Bytes) /\ SizeOf(e) = Len(B) /\ SizeOf(e) \in Nat BY <1>7, EntryType DEF SizeOf
<1>13. Len(got.bytes) = NextByte(e, n) /\ got.size = SizeOf(e)
  <2>1. NextByte(e, n) \in Nat BY <1>11, <1>12
  <2> HIDE DEF B
  <2> QED BY <1>12, <2>1, CopyType
<1>14. IF complete
       THEN /\ message' = Empty
            /\ received' = [bytes |-> got.bytes, as |-> e]
            /\ expected' = Tail(expected)
       ELSE message' = got /\ UNCHANGED <<received, expected>>
  <2>1. PICK m \in PutChunk(message, Head(wire)) :
          IF m.size > 0 /\ Len(m.bytes) >= m.size
          THEN /\ message' = Empty
               /\ received' = [bytes |-> m.bytes, as |-> IF expected = <<>> THEN Nothing ELSE Head(expected)]
               /\ expected' = IF expected = <<>> THEN <<>> ELSE Tail(expected)
          ELSE /\ message' = m
               /\ UNCHANGED <<received, expected>>
    BY DEF ReceiveChunk
  <2>2. Head(wire) = wire[1] /\ Head(expected) = e BY <1>2, <1>3, <1>7
  <2>3. m = got BY <1>11, <2>2
  <2>4. (m.size > 0 /\ Len(m.bytes) >= m.size) <=> complete
    <3>1. m.size = SizeOf(e) /\ Len(m.bytes) = NextByte(e, n) BY <1>13, <2>3
    <3> QED BY <1>11, <1>12, <3>1
  <2> HIDE DEF complete, got, e
  <2> QED BY <1>7, <2>1, <2>2, <2>3, <2>4
<1>15. complete => got.bytes = B
  <2> HIDE DEF B, e
  <2> QED BY <1>12, CopyAll
<1>16. PICK gone \in {0, 1} : gone = IF complete THEN 1 ELSE 0 OBVIOUS
<1>17. PICK og, fg : /\ og = [i \in 1 .. Len(wire) |-> of[i + 1] - gone]
                    /\ fg = [i \in 1 .. Len(wire) |-> from[i + 1]]
  OBVIOUS
<1>18. /\ Len(expected') = Len(expected) - gone
       /\ \A i \in 1 .. Len(expected') : expected'[i] = expected[i + gone]
       /\ Len(expected') \in Nat
  <2>1. CASE complete
    <3>1. expected' = Tail(expected) /\ gone = 1 BY <1>14, <1>16, <2>1
    <3>2. /\ Len(Tail(expected)) = Len(expected) - 1
          /\ \A i \in 1 .. Len(Tail(expected)) : Tail(expected)[i] = expected[i + 1]
      BY <1>7, HeadTailProperties
    <3>3. Len(expected) >= 1 BY <1>6
    <3> QED BY <1>7, <3>1, <3>2, <3>3
  <2>2. CASE ~complete
    <3>1. expected' = expected /\ gone = 0 BY <1>14, <1>16, <2>2
    <3>2. \A i \in 1 .. Len(expected) : i + 0 = i BY <1>7
    <3> QED BY <1>7, <3>1, <3>2
  <2> QED BY <2>1, <2>2
<1>19. fg[1] = Len(message'.bytes) /\ og[1] = 1
  <2>1. og[1] = of[2] - gone /\ fg[1] = from[2]
    <3>1. og[1] = of[1 + 1] - gone /\ fg[1] = from[1 + 1] BY <1>5, <1>17
    <3> QED BY <3>1
  <2>2. CASE complete
    <3>1. message'.bytes = <<>> BY <1>14, <2>2 DEF Empty
    <3> QED BY <1>6, <1>16, <2>1, <2>2, <3>1
  <2>3. CASE ~complete
    <3>1. Len(message'.bytes) = NextByte(e, n) BY <1>13, <1>14, <2>3
    <3> QED BY <1>6, <1>16, <2>1, <2>3, <3>1
  <2> QED BY <2>2, <2>3
<1> HIDE DEF got
<1>20. SendersClean' BY <1>2 DEF Clean, SendersClean
<1>21. ExpectedClean'
  <2>1. \A i \in 1 .. Len(expected') : i + gone \in 1 .. Len(expected)
    BY <1>7, <1>18
  <2> QED BY <1>18, <2>1 DEF Clean, ExpectedClean
<1>22. MessageClean'
  <2>1. CASE complete
    <3>1. Len(message'.bytes) = 0 BY <1>14, <2>1 DEF Empty
    <3> QED BY <3>1 DEF MessageClean
  <2>2. CASE ~complete
    <3>1. message' = got /\ expected' = expected BY <1>14, <2>2
    <3>2. got.size = SizeOf(e) /\ got.bytes = Copy(B, 0, Len(got.bytes)) BY <1>13 DEF got
    <3> QED BY <1>7, <3>1, <3>2 DEF MessageClean
  <2> QED BY <2>1, <2>2
<1>23. ReceivedClean'
  <2>1. CASE complete
    <3>1. received'.as = e /\ received'.bytes = BytesIn(e) BY <1>14, <1>15, <2>1
    <3> QED BY <1>7, <3>1 DEF ReceivedClean
  <2>2. CASE ~complete
    BY <1>14, <2>2 DEF Clean, ReceivedClean
  <2> QED BY <2>1, <2>2
<1>24. /\ \A i \in 1 .. Len(wire) + 1 : of[i] \in Nat /\ from[i] \in Nat
       /\ \A i, j \in 1 .. Len(wire) + 1 : i <= j => of[i] <= of[j]
  BY <1>1 DEF Places
<1>25. \A i \in 2 .. Len(wire) + 1 : of[i] >= 1 + gone
  <2> SUFFICES ASSUME NEW i \in 2 .. Len(wire) + 1 PROVE of[i] >= 1 + gone OBVIOUS
  <2>1. 2 \in 1 .. Len(wire) + 1 /\ i \in 1 .. Len(wire) + 1 /\ 2 <= i BY <1>3
  <2>2. of[2] <= of[i] /\ of[2] \in Nat /\ of[i] \in Nat BY <1>24, <2>1
  <2>3. of[2] = 1 + gone BY <1>6, <1>16
  <2> QED BY <2>2, <2>3
<1>26. /\ og \in [1 .. Len(wire) -> Nat] /\ fg \in [1 .. Len(wire) -> Nat]
       /\ \A i \in 1 .. Len(wire) : og[i] = of[i + 1] - gone /\ fg[i] = from[i + 1]
  <2>1. \A i \in 1 .. Len(wire) : i + 1 \in 2 .. Len(wire) + 1 /\ i + 1 \in 1 .. Len(wire) + 1
    BY <1>3
  <2>2. \A i \in 1 .. Len(wire) : of[i + 1] - gone \in Nat /\ from[i + 1] \in Nat
    BY <1>24, <1>25, <2>1
  <2> QED BY <1>17, <2>2
<1>27. Len(wire') + 1 = Len(wire) BY <1>3, <1>4
<1> HIDE DEF complete, e, B, n
<1>28. Places(og, fg)'
  <2>1. ASSUME NEW i \in 1 .. Len(wire')
        PROVE  LET x == expected'[og[i]]
               IN  /\ og[i] \in 1 .. Len(expected')
                   /\ fg[i] < SizeOf(x)
                   /\ wire'[i] = GetChunk(x.by, Sent(x, fg[i]))
                   /\ IF NextByte(x, fg[i]) = SizeOf(x)
                      THEN og[i + 1] = og[i] + 1 /\ fg[i + 1] = 0
                      ELSE og[i + 1] = og[i] /\ fg[i + 1] = NextByte(x, fg[i])
    <3>1. i \in 1 .. Len(wire) /\ i + 1 \in 1 .. Len(wire) /\ i + 1 \in 2 .. Len(wire) + 1 /\ i + 1 + 1 \in 1 .. Len(wire) + 1
      BY <1>3, <1>4
    <3> DEFINE y == expected[of[i + 1]]
    <3>2. /\ of[i + 1] \in 1 .. Len(expected)
          /\ from[i + 1] < SizeOf(y)
          /\ wire[i + 1] = GetChunk(y.by, Sent(y, from[i + 1]))
          /\ IF NextByte(y, from[i + 1]) = SizeOf(y)
             THEN of[i + 1 + 1] = of[i + 1] + 1 /\ from[i + 1 + 1] = 0
             ELSE of[i + 1 + 1] = of[i + 1] /\ from[i + 1 + 1] = NextByte(y, from[i + 1])
      BY <1>1, <3>1 DEF Places
    <3>3. /\ og[i] = of[i + 1] - gone /\ fg[i] = from[i + 1]
          /\ og[i + 1] = of[i + 1 + 1] - gone /\ fg[i + 1] = from[i + 1 + 1]
      BY <1>26, <3>1
    <3>4. of[i + 1] >= 1 + gone BY <1>25, <3>1
    <3>5. og[i] \in 1 .. Len(expected') BY <1>7, <1>18, <3>2, <3>3, <3>4
    <3>6. expected'[og[i]] = y
      <4>1. expected'[og[i]] = expected[og[i] + gone] BY <1>18, <3>5
      <4>2. og[i] + gone = of[i + 1] BY <3>2, <3>3
      <4> QED BY <4>1, <4>2
    <3>7. wire'[i] = wire[i + 1] BY <1>4
    <3>8. of[i + 1] + 1 - gone = of[i + 1] - gone + 1 BY <3>2
    <3> HIDE DEF y
    <3> QED BY <3>2, <3>3, <3>5, <3>6, <3>7, <3>8
  <2>2. ASSUME NEW i \in 1 .. Len(wire), NEW j \in 1 .. Len(wire), i <= j PROVE og[i] <= og[j]
    <3>1. i + 1 \in 1 .. Len(wire) + 1 /\ j + 1 \in 1 .. Len(wire) + 1 /\ i + 1 <= j + 1
      BY <1>3, <2>2
    <3>2. of[i + 1] <= of[j + 1] /\ of[i + 1] \in Nat /\ of[j + 1] \in Nat BY <1>24, <3>1
    <3> QED BY <1>26, <3>2
  <2> QED BY <1>26, <1>27, <2>1, <2>2 DEF Places
<1>29. First(og, fg)' BY <1>19 DEF First
<1>30. Final(og, fg)'
  <2> DEFINE last == Len(wire) + 1
  <2>1. og[Len(wire)] = of[last] - gone /\ fg[Len(wire)] = from[last]
    BY <1>3, <1>26
  <2>2. of[last] >= 1 + gone /\ of[last] \in Nat
    BY <1>3, <1>24, <1>25
  <2>3. CASE from[last] = 0
    <3>1. of[last] = Len(expected) + 1 /\ \A u \in Senders : sending[u] # Nothing => sending[u].pos = 0
      BY <1>1, <2>3 DEF Final
    <3>2. og[Len(wire)] = Len(expected') + 1 BY <1>7, <1>18, <2>1, <3>1
    <3> QED BY <1>2, <1>27, <2>1, <2>3, <3>1, <3>2 DEF Final
  <2>4. CASE from[last] # 0
    <3> DEFINE x == expected[Len(expected)]
    <3>1. /\ of[last] = Len(expected)
          /\ sending[x.by] = Sent(x, from[last])
          /\ \A u \in Senders \ {x.by} : sending[u] # Nothing => sending[u].pos = 0
      BY <1>1, <2>4 DEF Final
    <3>2. og[Len(wire)] = Len(expected') /\ Len(expected') >= 1
      BY <1>7, <1>18, <2>1, <2>2, <3>1
    <3>3. expected'[Len(expected')] = x
      <4>1. Len(expected') + gone = Len(expected) /\ Len(expected') \in 1 .. Len(expected')
        BY <1>7, <1>18, <3>2
      <4> QED BY <1>18, <4>1
    <3> HIDE DEF x
    <3> QED BY <1>2, <1>27, <2>1, <2>4, <3>1, <3>2, <3>3 DEF Final
  <2> QED BY <2>3, <2>4
<1>31. Laid' BY <1>28, <1>29, <1>30 DEF Laid
<1> QED BY <1>20, <1>21, <1>22, <1>23, <1>31 DEF Clean

LEMMA StepClean == ASSUME IPCInvariant, [IPCNext]_ipcVars PROVE IPCInvariant'
<1>1. IPCTypes' BY StepTypes DEF IPCInvariant
<1>2. ASSUME spoilt' = {} PROVE Clean'
  <2>1. CASE UNCHANGED ipcVars
    <3>1. Clean BY <1>2, <2>1 DEF IPCInvariant, ipcVars
    <3>2. UNCHANGED <<sending, wire, message, expected, received>> BY <2>1 DEF ipcVars
    <3>3. SendersClean' /\ ExpectedClean' /\ MessageClean' /\ ReceivedClean'
      BY <3>1, <3>2 DEF Clean, SendersClean, ExpectedClean, MessageClean, ReceivedClean
    <3>4. PICK of, from : Places(of, from) /\ First(of, from) /\ Final(of, from)
      BY <3>1 DEF Clean, Laid
    <3>5. Places(of, from)' /\ First(of, from)' /\ Final(of, from)'
      BY <3>2, <3>4 DEF Places, First, Final
    <3> QED BY <3>3, <3>5 DEF Clean, Laid
  <2>2. CASE IPCNext
    <3>1. spoilt = {}
      <4>1. spoilt \subseteq spoilt'
        BY <2>2 DEF IPCNext, ReceiveChunk, Compose, SendChunk, SendFails
      <4> QED BY <1>2, <4>1
    <3>2. IPCTypes /\ Clean BY <3>1 DEF IPCInvariant
    <3>3. CASE ReceiveChunk BY <1>2, <3>2, <3>3, ReceiveClean
    <3>4. ASSUME NEW s \in Senders, Compose(s) PROVE Clean' BY <1>2, <3>2, <3>4, ComposeClean
    <3>5. ASSUME NEW s \in Senders, SendChunk(s) PROVE Clean' BY <1>2, <3>2, <3>5, SendChunkClean
    <3>6. ASSUME NEW s \in Senders, SendFails(s) PROVE Clean' BY <1>2, <3>2, <3>6, SendFailsClean
    <3> QED BY <2>2, <3>3, <3>4, <3>5, <3>6 DEF IPCNext
  <2> QED BY <2>1, <2>2
<1> QED BY <1>1, <1>2 DEF IPCInvariant

\* As long as nothing has happened that the framing does not stand, a message that
\* is received has the fields of the one that is due, with the bytes of its sender:
\* for any senders, bodies and capacity of a datagram.
THEOREM MessagesArrive == IPCSpec => []ReceivedIsSent
<1>1. IPCInit => IPCInvariant
  BY StartTypes, StartClean DEF IPCInvariant
<1>2. IPCInvariant => ReceivedIsSent
  <2> SUFFICES ASSUME IPCInvariant, spoilt = {}, received # Nothing
               PROVE  LET sent == received.as
                      IN  /\ sent # Nothing
                          /\ ReadBody(received.bytes, sent.body)
                                = [k \in DOMAIN sent.body |-> FieldBytes(sent.by, sent.body, k)]
    BY DEF ReceivedIsSent
  <2> DEFINE sent == received.as
  <2>1. sent \in Entries /\ received.bytes = BytesIn(sent)
    BY DEF IPCInvariant, Clean, ReceivedClean
  <2>2. sent # Nothing BY <2>1, IPCAssumption
  <2>3. sent.body \in Seq(Fields) BY <2>1 DEF Entries
  <2> HIDE DEF sent
  <2>4. ReadBody(BytesIn(sent), sent.body) = [k \in DOMAIN sent.body |-> FieldBytes(sent.by, sent.body, k)]
    BY <2>3, ReadWritten DEF BytesIn
  <2> QED BY <2>1, <2>2, <2>4 DEF sent
<1> QED BY <1>1, <1>2, StepClean, PTL DEF IPCSpec

-----------------------------------------------------------------------------
(***************************************************************************)
(* The probe timer runs wherever it is needed: the part of LiveSettles     *)
(* that is not a matter of time, for any number of threads and probes.     *)
(*                                                                         *)
(* Who may stop the timer and who may start it are not underway at once,   *)
(* so a thread that stops it finds a session that does not run, and none   *)
(* that starts one can have left before.                                   *)
(***************************************************************************)

\* A thread that will start the timer, or that will close the session.
WillServe(t) == t.call = "gone" \/ (t.step = "timer" /\ t.call \in {"open", "update"})

\* What a thread knows of its own call.
ThreadShape(t) ==
    /\ t.call = "none" => t.step = "act"
    /\ t.step = "act" => t.call # "gone"
    /\ t.step = "closed" => t.call = "gone"
    /\ t.step # "act" => t.call \in {"open", "stop", "close", "update", "gone"}

\* What a thread that nobody has crossed relies on.
Uncrossed(s) ==
    /\ \A u \in Slots \ {s} : ~(thread[s].call \in MayStop /\ thread[u].call \in MayStart)
    /\ thread[s].call = "close" /\ thread[s].step = "timer" => sessionState # "STARTED"
    /\ thread[s].call = "update" /\ thread[s].step = "act" /\ thread[s].old = "STARTED" => probeTimer

\* While nobody has crossed another, a session that runs has its timer running,
\* or a thread that is about to start it or to close the session.
TimerServed ==
    ~botched /\ sessionState = "STARTED" /\ ~probeTimer => \E s \in Slots : WillServe(thread[s])

ProbeInv ==
    /\ ProbeTypeOK
    /\ \A s \in Slots : ThreadShape(thread[s])
    /\ ~botched => \A s \in Slots : Uncrossed(s)
    /\ TimerServed

\* What the page is told may rest on something wrong only while the timer runs,
\* which corrects it, or as a late answer.
WrongIsWatched ==
    /\ ~botched
    /\ \A s \in Slots : thread[s] = Resting
    /\ isAlive # (sessionState = "STARTED" /\ guest = "up")
    => LateAnswer \/ probeTimer

Threads == [call : Calls \cup {"gone", "none"}, step : {"act", "timer", "clear", "closed"}, old : States]

LEMMA RestingThread ==
  Resting \in Threads /\ ThreadShape(Resting) /\ Resting.call = "none" /\ Resting.step = "act"
  BY DEF Resting, Threads, Calls, States, ThreadShape

LEMMA ProbeStart == ProbeInit => ProbeInv
<1> SUFFICES ASSUME ProbeInit PROVE ProbeInv OBVIOUS
<1>1. \A s \in Slots : thread[s] = Resting BY DEF ProbeInit
<1>2. ProbeTypeOK BY RestingThread DEF ProbeInit, ProbeTypeOK, States, Threads
<1>3. \A s \in Slots : ThreadShape(thread[s]) BY <1>1, RestingThread
<1>4. \A s \in Slots : Uncrossed(s)
  <2>1. \A s \in Slots : thread[s].call = "none" BY <1>1, RestingThread
  <2> QED BY <2>1 DEF Uncrossed, MayStop
<1>5. TimerServed BY DEF ProbeInit, TimerServed
<1> QED BY <1>2, <1>3, <1>4, <1>5 DEF ProbeInv

\* One thread moves to r, the others stay.
Turns(s, r) == thread' = [thread EXCEPT ![s] = r]

LEMMA OneThread ==
  ASSUME ProbeInv, NEW s \in Slots, NEW r \in Threads, Turns(s, r), ThreadShape(r)
  PROVE  /\ thread' \in [Slots -> Threads] /\ thread'[s] = r
         /\ \A u \in Slots \ {s} : thread'[u] = thread[u]
         /\ \A u \in Slots : ThreadShape(thread'[u])
  BY DEF ProbeInv, ProbeTypeOK, Threads, Turns

\* A thread stays what it was, or what it may do to the timer is less.
LEMMA StaysUncrossed ==
  ASSUME ProbeInv, NEW s \in Slots, NEW r \in Threads, Turns(s, r), ThreadShape(r),
         ~botched,
         r.call \in MayStop => thread[s].call \in MayStop,
         r.call \in MayStart => thread[s].call \in MayStart
  PROVE  \A u, v \in Slots : u # v => ~(thread'[u].call \in MayStop /\ thread'[v].call \in MayStart)
<1>1. /\ thread'[s] = r /\ \A u \in Slots \ {s} : thread'[u] = thread[u]
  BY OneThread
<1>2. \A u, v \in Slots : u # v => ~(thread[u].call \in MayStop /\ thread[v].call \in MayStart)
  BY DEF ProbeInv, Uncrossed
<1> QED BY <1>1, <1>2

LEMMA PageCallServes == ASSUME ProbeInv, NEW s \in Slots, PageCall(s) PROVE ProbeInv'
<1>1. PICK call \in Calls :
          /\ Accepted(call)
          /\ call = "update" => \A u \in Slots : thread[u].call \notin {"update", "gone"}
          /\ thread' = [thread EXCEPT ![s] = [call |-> call, step |-> "act",
                                              old |-> IF call = "update" THEN sessionState ELSE "CLOSED"]]
          /\ botched' = (botched \/ \E u \in Slots \ {s} :
                                       \/ call \in MayStop /\ thread[u].call \in MayStart
                                       \/ call \in MayStart /\ thread[u].call \in MayStop)
  BY DEF PageCall
<1> DEFINE r == [call |-> call, step |-> "act", old |-> IF call = "update" THEN sessionState ELSE "CLOSED"]
<1>2. thread[s] = Resting /\ UNCHANGED <<sessionState, probeTimer, isAlive, guest, probe>> BY DEF PageCall
<1>3. r \in Threads /\ ThreadShape(r) /\ r.call = call /\ r.step = "act"
  BY DEF ProbeInv, ProbeTypeOK, Threads, States, ThreadShape, Calls
<1>4. Turns(s, r) BY <1>1 DEF Turns
<1>5. r.call = "update" => r.old = sessionState OBVIOUS
<1> HIDE DEF r
<1>6. /\ thread' \in [Slots -> Threads] /\ thread'[s] = r
      /\ \A u \in Slots \ {s} : thread'[u] = thread[u]
      /\ \A u \in Slots : ThreadShape(thread'[u])
  BY <1>3, <1>4, OneThread
<1>7. ProbeTypeOK'
  BY <1>1, <1>2, <1>6 DEF ProbeInv, ProbeTypeOK, Threads
<1>8. TimerServed'
  <2> SUFFICES ASSUME ~botched', sessionState' = "STARTED", ~probeTimer'
               PROVE  \E u \in Slots : WillServe(thread'[u])
    BY DEF TimerServed
  <2>1. PICK u \in Slots : WillServe(thread[u]) BY <1>1, <1>2 DEF ProbeInv, TimerServed
  <2>2. u # s BY <1>2, <2>1 DEF WillServe, Resting
  <2> QED BY <1>6, <2>1, <2>2
<1>9. ASSUME ~botched' PROVE \A u \in Slots : Uncrossed(u)'
  <2>0. ~botched BY <1>1, <1>9
  <2>1. \A u \in Slots : Uncrossed(u) BY <2>0 DEF ProbeInv
  <2>2. \A u \in Slots \ {s} : /\ ~(call \in MayStop /\ thread[u].call \in MayStart)
                               /\ ~(call \in MayStart /\ thread[u].call \in MayStop)
    BY <1>1, <1>9
  <2>3. \A u, v \in Slots : u # v => ~(thread'[u].call \in MayStop /\ thread'[v].call \in MayStart)
    BY <1>3, <1>6, <2>1, <2>2 DEF Uncrossed
  <2>4. ASSUME NEW u \in Slots
        PROVE  /\ thread'[u].call = "close" /\ thread'[u].step = "timer" => sessionState' # "STARTED"
               /\ thread'[u].call = "update" /\ thread'[u].step = "act" /\ thread'[u].old = "STARTED" => probeTimer'
    <3>1. CASE u # s BY <1>2, <1>6, <2>1, <3>1 DEF Uncrossed
    <3>2. CASE u = s
      <4>1. thread'[u].step # "timer" BY <1>3, <1>6, <3>2
      <4>2. ASSUME thread'[u].call = "update", thread'[u].old = "STARTED" PROVE probeTimer
        <5> SUFFICES ASSUME ~probeTimer PROVE FALSE OBVIOUS
        <5>1. sessionState = "STARTED" /\ call = "update" BY <1>3, <1>5, <1>6, <3>2, <4>2
        <5>2. PICK w \in Slots : WillServe(thread[w]) BY <2>0, <5>1 DEF ProbeInv, TimerServed
        <5>3. thread[w].call = "open" BY <1>1, <5>1, <5>2 DEF WillServe
        <5>4. w # s BY <1>2, <5>3 DEF Resting
        <5> QED BY <2>2, <5>1, <5>3, <5>4 DEF MayStop, MayStart
      <4> QED BY <1>2, <4>1, <4>2
    <3> QED BY <3>1, <3>2
  <2> QED BY <2>3, <2>4 DEF Uncrossed
<1> QED BY <1>6, <1>7, <1>8, <1>9 DEF ProbeInv

LEMMA ActServes == ASSUME ProbeInv, NEW s \in Slots, Act(s) PROVE ProbeInv'
<1> DEFINE t == thread[s]
           r == IF t.call = "update" /\ sessionState' = t.old THEN Resting
                ELSE [call |-> AfterAct(t.call), step |-> "timer", old |-> "CLOSED"]
<1>1. /\ t.call # "none" /\ t.step = "act"
      /\ sessionState' \in Outcomes(t)
      /\ guest' \in {"up", "down", "hung"}
      /\ thread' = [thread EXCEPT ![s] = r]
      /\ botched' = (botched \/ (t.call = "close" /\ sessionState' # "CLOSED"))
      /\ UNCHANGED <<probeTimer, isAlive, probe>>
  BY DEF Act, ProbeInv, ProbeTypeOK
<1>2. t \in Threads /\ ThreadShape(t) /\ sessionState \in States
  BY DEF ProbeInv, ProbeTypeOK, Threads
<1>3. t.call \in Calls BY <1>1, <1>2 DEF ThreadShape, Threads
<1>4. Turns(s, r) BY <1>1 DEF Turns
<1> HIDE DEF t
<1>5. r \in Threads /\ ThreadShape(r)
  BY <1>3, RestingThread DEF Threads, ThreadShape, AfterAct, Calls, States
<1>6. /\ r.call \in MayStop => t.call \in MayStop
      /\ r.call \in MayStart => t.call \in MayStart
      /\ r # Resting => r.step = "timer" /\ r.call = AfterAct(t.call)
      /\ r = Resting => t.call = "update" /\ sessionState' = t.old
  BY <1>3 DEF AfterAct, Calls, MayStop, MayStart, Resting
<1> HIDE DEF r
<1>7. /\ thread' \in [Slots -> Threads] /\ thread'[s] = r
      /\ \A u \in Slots \ {s} : thread'[u] = thread[u]
      /\ \A u \in Slots : ThreadShape(thread'[u])
  BY <1>4, <1>5, OneThread
<1>8. sessionState' \in States
  BY <1>1, <1>2, <1>3 DEF Outcomes, States, Calls
<1>9. ProbeTypeOK'
  BY <1>1, <1>7, <1>8 DEF ProbeInv, ProbeTypeOK, Threads
<1>10. ASSUME ~botched PROVE \A u \in Slots : Uncrossed(u)
  BY <1>10 DEF ProbeInv
\* A call that makes the session run is one that starts the timer after it.
<1>11. ASSUME sessionState' = "STARTED" PROVE sessionState = "STARTED" \/ t.call \in MayStart
  <2> SUFFICES ASSUME t.call \notin MayStart PROVE sessionState = "STARTED" OBVIOUS
  <2>1. t.call \in {"pause", "reset", "stop", "close"} BY <1>3 DEF Calls, MayStart
  <2>2. CASE ~Accepted(t.call) BY <1>1, <1>11, <2>1, <2>2 DEF Outcomes
  <2>3. CASE t.call = "close" BY <1>1, <1>11, <2>3 DEF Outcomes
  <2>4. CASE t.call # "close" /\ Accepted(t.call)
    BY <2>1, <2>4 DEF Accepted
  <2> QED BY <2>2, <2>3, <2>4
<1>12. TimerServed'
  <2> SUFFICES ASSUME ~botched', sessionState' = "STARTED", ~probeTimer'
               PROVE  \E u \in Slots : WillServe(thread'[u])
    BY DEF TimerServed
  <2>0. ~botched BY <1>1
  <2>1. CASE r # Resting /\ t.call \in MayStart
    <3>1. r.step = "timer" /\ r.call \in {"open", "update"}
      BY <1>3, <1>6, <2>1 DEF AfterAct, MayStart
    <3> QED BY <1>7, <3>1 DEF WillServe
  <2>2. CASE r = Resting
    <3>1. t.call = "update" /\ t.old = "STARTED" BY <1>6, <2>2
    <3>2. probeTimer BY <1>1, <1>10, <2>0, <3>1 DEF Uncrossed, t
    <3> QED BY <1>1, <3>2
  <2>3. CASE r # Resting /\ t.call \notin MayStart
    <3>1. sessionState = "STARTED" BY <1>11, <2>3
    <3>2. PICK u \in Slots : WillServe(thread[u]) BY <1>1, <2>0, <3>1 DEF ProbeInv, TimerServed
    <3>3. u # s BY <1>1, <1>2, <3>2 DEF WillServe, t, ThreadShape
    <3> QED BY <1>7, <3>2, <3>3
  <2> QED BY <2>1, <2>2, <2>3
<1>13. ASSUME ~botched' PROVE \A u \in Slots : Uncrossed(u)'
  <2>0. ~botched BY <1>1, <1>13
  <2>1. \A u \in Slots : Uncrossed(u) BY <2>0, <1>10
  <2>2. \A u, v \in Slots : u # v => ~(thread'[u].call \in MayStop /\ thread'[v].call \in MayStart)
    BY <1>4, <1>5, <1>6, <2>0, StaysUncrossed DEF t
  <2>3. ASSUME NEW u \in Slots, thread'[u].call = "close", thread'[u].step = "timer", sessionState' = "STARTED"
        PROVE  FALSE
    <3>1. CASE u # s
      <4>1. thread[u].call = "close" /\ thread[u].step = "timer" BY <1>7, <2>3, <3>1
      <4>2. sessionState # "STARTED" BY <2>1, <4>1 DEF Uncrossed
      <4>3. t.call \in MayStart BY <1>11, <2>3, <4>2
      <4> QED BY <2>1, <3>1, <4>1, <4>3 DEF Uncrossed, MayStop, t
    <3>2. CASE u = s
      <4>1. r.call = "close" BY <1>7, <2>3, <3>2
      <4>2. t.call \in {"pause", "close"}
        BY <1>3, <1>6, <4>1 DEF AfterAct, Calls, Resting
      <4>3. t.call = "pause" BY <1>1, <1>13, <2>3, <4>2
      <4> QED BY <1>1, <2>3, <4>3 DEF Outcomes, Accepted
    <3> QED BY <3>1, <3>2
  <2>4. ASSUME NEW u \in Slots, thread'[u].call = "update", thread'[u].step = "act", thread'[u].old = "STARTED"
        PROVE  probeTimer'
    <3>1. u # s BY <1>6, <1>7, <2>4 DEF Resting
    <3> QED BY <1>1, <1>7, <2>1, <2>4, <3>1 DEF Uncrossed
  <2> QED BY <2>2, <2>3, <2>4 DEF Uncrossed
<1> QED BY <1>7, <1>9, <1>12, <1>13 DEF ProbeInv

LEMMA VanishedServes == ASSUME ProbeInv, NEW s \in Slots, Vanished(s) PROVE ProbeInv'
<1> DEFINE r == [call |-> "gone", step |-> "timer", old |-> "CLOSED"]
<1>1. /\ thread[s].call = "update" /\ thread[s].step = "act" /\ Turns(s, r)
      /\ guest' = "down" /\ UNCHANGED <<sessionState, probeTimer, isAlive, probe, botched>>
  BY DEF Vanished, Turns
<1>2. r \in Threads /\ ThreadShape(r) /\ r.call = "gone" /\ r.step = "timer"
  BY DEF Threads, States, ThreadShape
<1> HIDE DEF r
<1>3. /\ thread' \in [Slots -> Threads] /\ thread'[s] = r
      /\ \A u \in Slots \ {s} : thread'[u] = thread[u]
      /\ \A u \in Slots : ThreadShape(thread'[u])
  BY <1>1, <1>2, OneThread
<1>4. ProbeTypeOK' BY <1>1, <1>3 DEF ProbeInv, ProbeTypeOK, Threads
<1>5. TimerServed' BY <1>2, <1>3 DEF TimerServed, WillServe
<1>6. ASSUME ~botched' PROVE \A u \in Slots : Uncrossed(u)'
  <2>1. ~botched /\ \A u \in Slots : Uncrossed(u) BY <1>1, <1>6 DEF ProbeInv
  <2>2. \A u, v \in Slots : u # v => ~(thread'[u].call \in MayStop /\ thread'[v].call \in MayStart)
    BY <1>1, <1>2, <2>1, StaysUncrossed DEF MayStop, MayStart
  <2>3. ASSUME NEW u \in Slots
        PROVE  /\ thread'[u].call = "close" /\ thread'[u].step = "timer" => sessionState' # "STARTED"
               /\ thread'[u].call = "update" /\ thread'[u].step = "act" /\ thread'[u].old = "STARTED" => probeTimer'
    BY <1>1, <1>2, <1>3, <2>1 DEF Uncrossed
  <2> QED BY <2>2, <2>3 DEF Uncrossed
<1> QED BY <1>3, <1>4, <1>5, <1>6 DEF ProbeInv

LEMMA SwitchTimerServes == ASSUME ProbeInv, NEW s \in Slots, SwitchTimer(s) PROVE ProbeInv'
<1> DEFINE t == thread[s]
           r == IF t.call # "stop" /\ ~Stops(t) THEN Resting
                ELSE IF isAlive THEN [t EXCEPT !.step = "clear"] ELSE Cleared(t)
<1>1. /\ t.step = "timer" /\ Turns(s, r)
      /\ probeTimer' = ((probeTimer \/ Starts(t)) /\ ~Stops(t))
      /\ UNCHANGED <<sessionState, isAlive, guest, probe, botched>>
  BY DEF SwitchTimer, Turns
<1>2. t \in Threads /\ ThreadShape(t) BY DEF ProbeInv, ProbeTypeOK, Threads
<1> HIDE DEF t
<1>3. t.call \in {"open", "stop", "close", "update", "gone"} BY <1>1, <1>2 DEF ThreadShape
<1>4. /\ r \in Threads /\ ThreadShape(r)
      /\ r = Resting \/ (r.call = t.call /\ r.step \in {"clear", "closed"} /\ (t.call = "stop" \/ Stops(t)))
      /\ t.call = "gone" => r.call = "gone"
  <2>1. CASE t.call # "stop" /\ ~Stops(t) BY <1>3, <2>1, RestingThread DEF Stops
  <2>2. CASE ~(t.call # "stop" /\ ~Stops(t)) /\ isAlive
    BY <1>2, <1>3, <2>2 DEF Threads, ThreadShape, Stops
  <2>3. CASE ~(t.call # "stop" /\ ~Stops(t)) /\ ~isAlive
    <3>1. r = Cleared(t) BY <2>3
    <3>2. CASE t.call = "gone"
      <4>1. r = [t EXCEPT !.step = "closed"] BY <3>1, <3>2 DEF Cleared
      <4> QED BY <1>2, <2>3, <3>2, <4>1 DEF Threads, ThreadShape
    <3>3. CASE t.call # "gone" BY <3>1, <3>3, RestingThread DEF Cleared
    <3> QED BY <3>2, <3>3
  <2> QED BY <2>1, <2>2, <2>3
<1> HIDE DEF r
<1>5. /\ thread' \in [Slots -> Threads] /\ thread'[s] = r
      /\ \A u \in Slots \ {s} : thread'[u] = thread[u]
      /\ \A u \in Slots : ThreadShape(thread'[u])
  BY <1>1, <1>4, OneThread
<1>6. ProbeTypeOK'
  BY <1>1, <1>5 DEF ProbeInv, ProbeTypeOK, Threads
\* Who stops the timer of a session that runs is a refresh that has lost the machine.
<1>7. ASSUME ~botched, sessionState = "STARTED", Stops(t) PROVE t.call = "gone"
  BY <1>1, <1>7 DEF ProbeInv, Uncrossed, Stops, t
<1>8. TimerServed'
  <2> SUFFICES ASSUME ~botched, sessionState = "STARTED", ~probeTimer'
               PROVE  \E u \in Slots : WillServe(thread'[u])
    BY <1>1 DEF TimerServed
  <2>1. CASE t.call = "gone" BY <1>4, <1>5, <2>1 DEF WillServe
  <2>2. CASE t.call # "gone"
    <3>1. ~Stops(t) BY <1>7, <2>2
    <3>2. ~probeTimer /\ ~Starts(t) BY <1>1, <3>1 DEF Stops, Starts
    <3>3. PICK u \in Slots : WillServe(thread[u]) BY <3>2 DEF ProbeInv, TimerServed
    <3>4. u # s BY <2>2, <3>2, <3>3 DEF WillServe, Starts, t
    <3> QED BY <1>5, <3>3, <3>4
  <2> QED BY <2>1, <2>2
<1>9. ASSUME ~botched' PROVE \A u \in Slots : Uncrossed(u)'
  <2>1. ~botched /\ \A u \in Slots : Uncrossed(u) BY <1>1, <1>9 DEF ProbeInv
  <2>2. \A u, v \in Slots : u # v => ~(thread'[u].call \in MayStop /\ thread'[v].call \in MayStart)
    BY <1>1, <1>4, <2>1, StaysUncrossed DEF MayStop, MayStart, t, Resting
  <2>3. ASSUME NEW u \in Slots, thread'[u].call = "close", thread'[u].step = "timer" PROVE sessionState' # "STARTED"
    BY <1>1, <1>4, <1>5, <2>1, <2>3 DEF Uncrossed, Resting
  <2>4. ASSUME NEW u \in Slots, thread'[u].call = "update", thread'[u].step = "act", thread'[u].old = "STARTED"
        PROVE  probeTimer'
    <3>1. u # s BY <1>4, <1>5, <2>4 DEF Resting
    <3>2. thread[u].call = "update" /\ probeTimer BY <1>5, <2>1, <2>4, <3>1 DEF Uncrossed
    <3>3. t.call \notin MayStop BY <2>1, <3>1, <3>2 DEF Uncrossed, MayStart, t
    <3>4. ~Stops(t) BY <3>3 DEF Stops, MayStop
    <3> QED BY <1>1, <3>2, <3>4 DEF Stops, Starts
  <2> QED BY <2>2, <2>3, <2>4 DEF Uncrossed
<1> QED BY <1>5, <1>6, <1>8, <1>9 DEF ProbeInv

LEMMA ClearServes == ASSUME ProbeInv, NEW s \in Slots, ClearAlive(s) PROVE ProbeInv'
<1> DEFINE t == thread[s]
           r == Cleared(t)
<1>1. /\ t.step = "clear" /\ Turns(s, r) /\ isAlive' = FALSE
      /\ UNCHANGED <<sessionState, probeTimer, guest, probe, botched>>
  BY DEF ClearAlive, Turns
<1>2. t \in Threads /\ ThreadShape(t) BY DEF ProbeInv, ProbeTypeOK, Threads
<1> HIDE DEF t
<1>3. r \in Threads /\ ThreadShape(r) /\ (r = Resting \/ (r.call = "gone" /\ r.step = "closed")) /\ (t.call = "gone" => r.call = "gone")
      /\ (r.call = "gone" => t.call = "gone")
  <2>1. CASE t.call = "gone"
    <3>1. r = [t EXCEPT !.step = "closed"] BY <2>1 DEF Cleared
    <3> QED BY <1>2, <2>1, <3>1 DEF Threads, ThreadShape
  <2>2. CASE t.call # "gone" BY <2>2, RestingThread DEF Cleared, Resting
  <2> QED BY <2>1, <2>2
<1> HIDE DEF r
<1>4. /\ thread' \in [Slots -> Threads] /\ thread'[s] = r
      /\ \A u \in Slots \ {s} : thread'[u] = thread[u]
      /\ \A u \in Slots : ThreadShape(thread'[u])
  BY <1>1, <1>3, OneThread
<1>5. ProbeTypeOK' BY <1>1, <1>4 DEF ProbeInv, ProbeTypeOK, Threads
<1>6. TimerServed'
  <2> SUFFICES ASSUME ~botched, sessionState = "STARTED", ~probeTimer
               PROVE  \E u \in Slots : WillServe(thread'[u])
    BY <1>1 DEF TimerServed
  <2>1. PICK u \in Slots : WillServe(thread[u]) BY DEF ProbeInv, TimerServed
  <2> QED BY <1>1, <1>3, <1>4, <2>1 DEF WillServe, t
<1>7. ASSUME ~botched' PROVE \A u \in Slots : Uncrossed(u)'
  <2>1. ~botched /\ \A u \in Slots : Uncrossed(u) BY <1>1, <1>7 DEF ProbeInv
  <2>2. \A u, v \in Slots : u # v => ~(thread'[u].call \in MayStop /\ thread'[v].call \in MayStart)
    BY <1>1, <1>3, <2>1, StaysUncrossed DEF MayStop, MayStart, t, Resting
  <2>3. ASSUME NEW u \in Slots
        PROVE  /\ thread'[u].call = "close" /\ thread'[u].step = "timer" => sessionState' # "STARTED"
               /\ thread'[u].call = "update" /\ thread'[u].step = "act" /\ thread'[u].old = "STARTED" => probeTimer'
    BY <1>1, <1>3, <1>4, <2>1 DEF Uncrossed, Resting
  <2> QED BY <2>2, <2>3 DEF Uncrossed
<1> QED BY <1>4, <1>5, <1>6, <1>7 DEF ProbeInv

LEMMA MarkClosedServes == ASSUME ProbeInv, NEW s \in Slots, MarkClosed(s) PROVE ProbeInv'
<1>1. /\ Turns(s, Resting) /\ sessionState' = "CLOSED" /\ guest' = "down"
      /\ UNCHANGED <<probeTimer, isAlive, probe, botched>>
  BY DEF MarkClosed, Turns
<1>2. /\ thread' \in [Slots -> Threads] /\ thread'[s] = Resting
      /\ \A u \in Slots \ {s} : thread'[u] = thread[u]
      /\ \A u \in Slots : ThreadShape(thread'[u])
  BY <1>1, RestingThread, OneThread
<1>3. ProbeTypeOK' BY <1>1, <1>2 DEF ProbeInv, ProbeTypeOK, Threads, States
<1>4. TimerServed' BY <1>1 DEF TimerServed
<1>5. ASSUME ~botched' PROVE \A u \in Slots : Uncrossed(u)'
  <2>1. ~botched /\ \A u \in Slots : Uncrossed(u) BY <1>1, <1>5 DEF ProbeInv
  <2>2. \A u, v \in Slots : u # v => ~(thread'[u].call \in MayStop /\ thread'[v].call \in MayStart)
    BY <1>1, <2>1, RestingThread, StaysUncrossed DEF MayStop, MayStart, Resting
  <2>3. ASSUME NEW u \in Slots
        PROVE  /\ thread'[u].call = "close" /\ thread'[u].step = "timer" => sessionState' # "STARTED"
               /\ thread'[u].call = "update" /\ thread'[u].step = "act" /\ thread'[u].old = "STARTED" => probeTimer'
    BY <1>1, <1>2, <2>1 DEF Uncrossed, Resting
  <2> QED BY <2>2, <2>3 DEF Uncrossed
<1> QED BY <1>2, <1>3, <1>4, <1>5 DEF ProbeInv

\* Probes and the guest change nothing that the timer depends on.
LEMMA AsideServes ==
  ASSUME ProbeInv, ProbeTypeOK', UNCHANGED <<sessionState, probeTimer, thread, botched>>
  PROVE  ProbeInv'
  BY DEF ProbeInv, Uncrossed, TimerServed

LEMMA ProbeStep == ASSUME ProbeInv, [ProbeNext]_probeVars PROVE ProbeInv'
<1>1. CASE UNCHANGED probeVars
  BY <1>1 DEF probeVars, ProbeInv, Uncrossed, TimerServed, ProbeTypeOK
<1>2. CASE GuestMoves
  <2>1. UNCHANGED <<sessionState, probeTimer, thread, botched>> /\ ProbeTypeOK'
    BY <1>2 DEF GuestMoves, ProbeInv, ProbeTypeOK
  <2> QED BY <2>1, AsideServes
<1>3. ASSUME NEW p \in Probes, InProbe(p) PROVE ProbeInv'
  <2>1. /\ UNCHANGED <<sessionState, probeTimer, guest, thread, botched>>
        /\ isAlive' \in BOOLEAN
        /\ \E to \in {"none", "look", "ask", "askAlive", "up", "down"} : probe' = [probe EXCEPT ![p] = to]
    BY <1>3 DEF InProbe, Tick, Look, Ask, Tell, ProbeGo, ProbeInv, ProbeTypeOK
  <2>2. ProbeTypeOK' BY <2>1 DEF ProbeInv, ProbeTypeOK
  <2> QED BY <2>1, <2>2, AsideServes
<1>4. ASSUME NEW s \in Slots, PageCall(s) \/ InThread(s) PROVE ProbeInv'
  BY <1>4, PageCallServes, ActServes, VanishedServes, SwitchTimerServes, ClearServes, MarkClosedServes
     DEF InThread
<1> QED BY <1>1, <1>2, <1>3, <1>4 DEF ProbeNext

\* The threads that probe and those that call are where the code can have them.
THEOREM ProbeTypes == ProbeSpec => []ProbeTypeOK
<1>1. ProbeInv => ProbeTypeOK BY DEF ProbeInv
<1> QED BY <1>1, ProbeStart, ProbeStep, PTL DEF ProbeSpec

\* While no two calls have crossed, and all threads rest, what the page was last
\* told of the API is wrong only if the timer runs, which will correct it, or if a
\* probe answered after the session had left STARTED.
THEOREM ProbeWatches == ProbeSpec => []WrongIsWatched
<1>1. ProbeInv => WrongIsWatched
  <2> SUFFICES ASSUME ProbeInv, ~botched, \A s \in Slots : thread[s] = Resting,
                      isAlive # (sessionState = "STARTED" /\ guest = "up"), ~probeTimer
               PROVE  LateAnswer
    BY DEF WrongIsWatched
  <2>1. \A s \in Slots : ~WillServe(thread[s])
    <3>1. \A s \in Slots : thread[s].call = "none" /\ thread[s].step = "act" BY RestingThread
    <3> QED BY <3>1 DEF WillServe
  <2>2. sessionState # "STARTED" BY <2>1 DEF ProbeInv, TimerServed
  <2> QED BY <2>2 DEF LateAnswer, ProbeInv, ProbeTypeOK
<1> QED BY <1>1, ProbeStart, ProbeStep, PTL DEF ProbeSpec
=============================================================================
