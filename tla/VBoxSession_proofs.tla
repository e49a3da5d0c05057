------------------------ MODULE VBoxSession_proofs ------------------------
(***************************************************************************)
(* Safety of VBoxSession for every set of workers, calls, faults, outside  *)
(* actions and VMs.  The type of every field is inductive together with    *)
(* one fact on the control workers; how each step of a worker moves the    *)
(* lock, the transitional states and the updating flag is stated once, in  *)
(* Moves, and each invariant follows from it.                              *)
(***************************************************************************)
EXTENDS VBoxSession, TLAPS

ControlBody == {"control.check", "control.exec", "control.done"}

\* A worker inside a control handler runs one of the control calls.
ControlsOnly ==
    \A t \in Workers : pc[t] \in ControlBody => op[t] \in ControlOps

\* A worker between showvminfo and startvm has chosen a context medium.
ContextBody == {"start.detach", "start.build", "start.attach"}

MediumChosen ==
    \A t \in Workers : pc[t] \in ContextBody => needs[t] \subseteq Media

Types == TypeOK /\ ControlsOnly /\ MediumChosen

-----------------------------------------------------------------------------
(* What one step of the worker t does, other workers standing still.       *)

\* It holds the update lock only where it has taken it.
LockMoves(t) ==
    updateLock' => \/ pc'[t] \in LockBody
                   \/ updateLock /\ pc[t] \notin LockBody

\* It leaves OPPENING behind only inside open().
OpeningMoves(t) ==
    state' = "OPPENING" => \/ pc'[t] \in OpenBody
                           \/ state = "OPPENING" /\ pc[t] \notin OpenBody

\* It leaves STARTING behind only inside start().
StartingMoves(t) ==
    "build" \notin Faults /\ state' = "STARTING" =>
        \/ pc'[t] \in StartBody
        \/ state = "STARTING" /\ pc[t] \notin StartBody

\* It keeps, gives back or takes the updating flag as it enters and leaves
\* the refresh.
UpdaterMoves(t) ==
    \/ /\ updating' = updating
       /\ pc'[t] \in UpdateBody <=> pc[t] \in UpdateBody
    \/ /\ updating' = FALSE
       /\ pc[t] \in UpdateBody /\ pc'[t] \notin UpdateBody
    \/ /\ updating = FALSE /\ updating' = TRUE
       /\ pc[t] \notin UpdateBody /\ pc'[t] \in UpdateBody

ControlMoves(t) ==
    /\ op' = [op EXCEPT ![t] = op'[t]]
    /\ pc'[t] \in ControlBody => op'[t] \in ControlOps

MediumMoves(t) ==
    /\ needs' = [needs EXCEPT ![t] = needs'[t]]
    /\ pc'[t] \in ContextBody => needs'[t] \subseteq Media

Moves(t) ==
    /\ pc' = [pc EXCEPT ![t] = pc'[t]]
    /\ LockMoves(t) /\ OpeningMoves(t) /\ StartingMoves(t)
    /\ UpdaterMoves(t) /\ ControlMoves(t) /\ MediumMoves(t)

-----------------------------------------------------------------------------
(* The two ways in which the fields of a worker change.                    *)

LEMMA GotoType ==
    ASSUME ThreadsTypeOK, NEW t \in Workers, NEW label \in PCs,
           Goto(t, label), UNCHANGED Locals
    PROVE  ThreadsTypeOK'
BY DEF ThreadsTypeOK, Goto, Locals

LEMMA EndType ==
    ASSUME ThreadsTypeOK, NEW t \in Workers, End(t)
    PROVE  ThreadsTypeOK'
BY DEF ThreadsTypeOK, End, PCs

LEMMA GotoMoves ==
    ASSUME ThreadsTypeOK, NEW t \in Workers, NEW label, Goto(t, label)
    PROVE  pc'[t] = label /\ pc' = [pc EXCEPT ![t] = pc'[t]]
BY DEF ThreadsTypeOK, Goto

LEMMA EndMoves ==
    ASSUME ThreadsTypeOK, NEW t \in Workers, End(t)
    PROVE  /\ pc'[t] = "idle" /\ pc' = [pc EXCEPT ![t] = pc'[t]]
           /\ op'[t] = "idle" /\ op' = [op EXCEPT ![t] = op'[t]]
           /\ needs' = [needs EXCEPT ![t] = needs'[t]]
BY DEF ThreadsTypeOK, End

-----------------------------------------------------------------------------
(* Each handler keeps the types.                                           *)

LEMMA OpenType ==
    ASSUME Types, NEW t \in Workers, OpenStep(t)
    PROVE  TypeOK'
<1> USE ConstantsAssumption DEF Types, TypeOK
<1>1. CASE OpenCheck(t)
  <2> USE <1>1 DEF OpenCheck
  <2>1. SessionTypeOK'
    BY DEF SessionTypeOK, session, States
  <2>2. VMTypeOK'
    BY DEF VMTypeOK, vm
  <2>3. ThreadsTypeOK'
    BY GotoType, EndType DEF PCs, LockBody, OpenBody, threads
  <2>4. QED BY <2>1, <2>2, <2>3
<1>2. CASE OpenClaim(t)
  <2> USE <1>2 DEF OpenClaim
  <2>1. SessionTypeOK'
    BY DEF SessionTypeOK, session, States, Flags
  <2>2. VMTypeOK'
    BY DEF VMTypeOK, vm
  <2>3. ThreadsTypeOK'
    BY GotoType, EndType DEF PCs, LockBody, OpenBody, threads
  <2>4. QED BY <2>1, <2>2, <2>3
<1>3. CASE OpenList(t)
  <2> USE <1>3 DEF OpenList, OpenFail
  <2>1. SessionTypeOK'
    BY DEF SessionTypeOK, session, States, VMTypeOK
  <2>2. VMTypeOK'
    BY DEF VMTypeOK, vm
  <2>3. ThreadsTypeOK'
    BY GotoType DEF ThreadsTypeOK, VMTypeOK, Goto, PCs, LockBody, OpenBody
  <2>4. QED BY <2>1, <2>2, <2>3
<1>4. CASE OpenCreate(t)
  <2> USE <1>4 DEF OpenCreate, OpenFail
  <2>1. SessionTypeOK'
    BY DEF SessionTypeOK, session, States
  <2>2. VMTypeOK'
    BY DEF VMTypeOK, vm, Create, Fresh, Powers
  <2>3. ThreadsTypeOK'
    BY DEF ThreadsTypeOK, Fresh, Goto, PCs, LockBody, OpenBody
  <2>4. QED BY <2>1, <2>2, <2>3
<1>5. CASE OpenControllers(t)
  <2> USE <1>5 DEF OpenControllers, OpenFail
  <2>1. SessionTypeOK'
    BY DEF SessionTypeOK, session, States, ThreadsTypeOK
  <2>2. VMTypeOK'
    BY DEF VMTypeOK, vm
  <2>3. ThreadsTypeOK'
    BY GotoType, EndType DEF PCs, LockBody, OpenBody, threads
  <2>4. QED BY <2>1, <2>2, <2>3
<1>6. CASE OpenModify(t)
  <2> USE <1>6 DEF OpenModify, OpenFail
  <2>1. SessionTypeOK'
    BY DEF SessionTypeOK, session, States
  <2>2. VMTypeOK'
    BY DEF VMTypeOK, vm
  <2>3. ThreadsTypeOK'
    BY GotoType, EndType DEF PCs, LockBody, OpenBody, threads
  <2>4. QED BY <2>1, <2>2, <2>3
<1>7. CASE OpenInfo(t)
  <2> USE <1>7 DEF OpenInfo
  <2>1. SessionTypeOK'
    BY DEF SessionTypeOK, session, States
  <2>2. VMTypeOK'
    BY DEF VMTypeOK, vm
  <2>3. ThreadsTypeOK'
    <3>1. \A m \in DOMAIN Outdated : Outdated[m] \in Old
      BY DEF Outdated, Old
    <3>2. \E chosen \in SUBSET Seen : needs' = [needs EXCEPT ![t] = chosen]
      BY <3>1 DEF Seen, Media
    <3>3. QED
      BY <3>2 DEF ThreadsTypeOK, Goto, PCs, LockBody, OpenBody
  <2>4. QED BY <2>1, <2>2, <2>3
<1>8. CASE OpenScratch(t)
  <2> USE <1>8 DEF OpenScratch, OpenAttach, OpenFail
  <2>1. SessionTypeOK'
    BY DEF SessionTypeOK, session, States
  <2>2. VMTypeOK'
    BY DEF VMTypeOK, vm, Media, OpenMedia
  <2>3. ThreadsTypeOK'
    BY GotoType, EndType DEF PCs, LockBody, OpenBody, threads
  <2>4. QED BY <2>1, <2>2, <2>3
<1>9. CASE OpenBoot(t)
  <2> USE <1>9 DEF OpenBoot, OpenAttach, OpenFail
  <2>1. SessionTypeOK'
    BY DEF SessionTypeOK, session, States
  <2>2. VMTypeOK'
    BY DEF VMTypeOK, vm, Media, OpenMedia
  <2>3. ThreadsTypeOK'
    BY GotoType, EndType DEF PCs, LockBody, OpenBody, threads
  <2>4. QED BY <2>1, <2>2, <2>3
<1>10. CASE OpenAdditions(t)
  <2> USE <1>10 DEF OpenAdditions, OpenAttach, OpenFail
  <2>1. SessionTypeOK'
    BY DEF SessionTypeOK, session, States
  <2>2. VMTypeOK'
    BY DEF VMTypeOK, vm, Media, OpenMedia
  <2>3. ThreadsTypeOK'
    BY GotoType, EndType DEF PCs, LockBody, OpenBody, threads
  <2>4. QED BY <2>1, <2>2, <2>3
<1>11. CASE OpenProps(t)
  <2> USE <1>11 DEF OpenProps
  <2>1. SessionTypeOK'
    BY DEF SessionTypeOK, session, States, Props
  <2>2. VMTypeOK'
    BY DEF VMTypeOK, vm, Props
  <2>3. ThreadsTypeOK'
    BY GotoType, EndType DEF PCs, LockBody, OpenBody, threads
  <2>4. QED BY <2>1, <2>2, <2>3
<1>12. CASE OpenDone(t)
  <2> USE <1>12 DEF OpenDone
  <2>1. SessionTypeOK'
    BY DEF SessionTypeOK, session, States
  <2>2. VMTypeOK'
    BY DEF VMTypeOK, vm
  <2>3. ThreadsTypeOK'
    BY GotoType, EndType DEF PCs, LockBody, OpenBody, threads
  <2>4. QED BY <2>1, <2>2, <2>3
<1>13. QED BY <1>1, <1>2, <1>3, <1>4, <1>5, <1>6, <1>7, <1>8, <1>9, <1>10,
        <1>11, <1>12 DEF OpenStep

LEMMA StartType ==
    ASSUME Types, NEW t \in Workers, StartStep(t)
    PROVE  TypeOK'
<1> USE ConstantsAssumption DEF Types, TypeOK
<1>1. CASE StartLock(t)
  <2> USE <1>1 DEF StartLock
  <2>1. SessionTypeOK'
    BY DEF SessionTypeOK, session, States
  <2>2. VMTypeOK'
    BY DEF VMTypeOK, vm
  <2>3. ThreadsTypeOK'
    BY GotoType, EndType DEF PCs, LockBody, StartBody, threads
  <2>4. QED BY <2>1, <2>2, <2>3
<1>2. CASE StartCheck(t)
  <2> USE <1>2 DEF StartCheck
  <2>1. SessionTypeOK'
    BY DEF SessionTypeOK, session, States
  <2>2. VMTypeOK'
    BY DEF VMTypeOK, vm
  <2>3. ThreadsTypeOK'
    BY GotoType, EndType DEF PCs, LockBody, StartBody, threads
  <2>4. QED BY <2>1, <2>2, <2>3
<1>3. CASE StartClaim(t)
  <2> USE <1>3 DEF StartClaim
  <2>1. SessionTypeOK'
    BY DEF SessionTypeOK, session, States
  <2>2. VMTypeOK'
    BY DEF VMTypeOK, vm
  <2>3. ThreadsTypeOK'
    BY GotoType, EndType DEF PCs, LockBody, StartBody, threads
  <2>4. QED BY <2>1, <2>2, <2>3
<1>4. CASE StartInfo(t)
  <2> USE <1>4 DEF StartInfo
  <2>1. SessionTypeOK'
    BY DEF SessionTypeOK, session, States
  <2>2. VMTypeOK'
    BY DEF VMTypeOK, vm
  <2>3. ThreadsTypeOK'
    BY DEF ThreadsTypeOK, Goto, Seen, Media, PCs, LockBody, StartBody
  <2>4. QED BY <2>1, <2>2, <2>3
<1>5. CASE StartDetach(t)
  <2> USE <1>5 DEF StartDetach, StartFail
  <2>1. SessionTypeOK'
    BY DEF SessionTypeOK, session, States
  <2>2. VMTypeOK'
    BY DEF VMTypeOK, vm
  <2>3. ThreadsTypeOK'
    BY GotoType, EndType DEF PCs, LockBody, StartBody, threads
  <2>4. QED BY <2>1, <2>2, <2>3
<1>6. CASE StartBuild(t)
  <2> USE <1>6 DEF StartBuild
  <2>1. SessionTypeOK'
    BY DEF SessionTypeOK, session, States
  <2>2. VMTypeOK'
    BY DEF VMTypeOK, vm
  <2>3. ThreadsTypeOK'
    BY GotoType, EndType DEF PCs, LockBody, StartBody, threads
  <2>4. QED BY <2>1, <2>2, <2>3
<1>7. CASE StartAttach(t)
  <2> USE <1>7 DEF StartAttach, StartFail
  <2>1. SessionTypeOK'
    BY DEF SessionTypeOK, session, States
  <2>2. VMTypeOK'
    BY DEF VMTypeOK, vm, At, MediumChosen, ContextBody
  <2>3. ThreadsTypeOK'
    BY GotoType, EndType DEF PCs, LockBody, StartBody, threads
  <2>4. QED BY <2>1, <2>2, <2>3
<1>8. CASE StartBoot(t)
  <2> USE <1>8 DEF StartBoot, StartFail
  <2>1. SessionTypeOK'
    BY DEF SessionTypeOK, session, States
  <2>2. VMTypeOK'
    BY DEF VMTypeOK, vm, Powers
  <2>3. ThreadsTypeOK'
    BY GotoType, EndType DEF PCs, LockBody, StartBody, threads
  <2>4. QED BY <2>1, <2>2, <2>3
<1>9. CASE StartDone(t)
  <2> USE <1>9 DEF StartDone
  <2>1. SessionTypeOK'
    BY DEF SessionTypeOK, session, States
  <2>2. VMTypeOK'
    BY DEF VMTypeOK, vm
  <2>3. ThreadsTypeOK'
    BY GotoType, EndType DEF PCs, LockBody, StartBody, threads
  <2>4. QED BY <2>1, <2>2, <2>3
<1>10. CASE StartRelease(t)
  <2> USE <1>10 DEF StartRelease
  <2>1. SessionTypeOK'
    BY DEF SessionTypeOK, session, States
  <2>2. VMTypeOK'
    BY DEF VMTypeOK, vm
  <2>3. ThreadsTypeOK'
    BY GotoType, EndType DEF PCs, LockBody, StartBody, threads
  <2>4. QED BY <2>1, <2>2, <2>3
<1>11. QED BY <1>1, <1>2, <1>3, <1>4, <1>5, <1>6, <1>7, <1>8, <1>9, <1>10 DEF
        StartStep

LEMMA CloseType ==
    ASSUME Types, NEW t \in Workers, CloseStep(t)
    PROVE  TypeOK'
<1> USE ConstantsAssumption DEF Types, TypeOK
<1>1. CASE CloseCheck(t)
  <2> USE <1>1 DEF CloseCheck
  <2>1. SessionTypeOK'
    BY DEF SessionTypeOK, session, States
  <2>2. VMTypeOK'
    BY DEF VMTypeOK, vm
  <2>3. ThreadsTypeOK'
    BY GotoType, EndType DEF PCs, LockBody, CloseBody, threads
  <2>4. QED BY <2>1, <2>2, <2>3
<1>2. CASE CloseLock(t)
  <2> USE <1>2 DEF CloseLock
  <2>1. SessionTypeOK'
    BY DEF SessionTypeOK, session, States
  <2>2. VMTypeOK'
    BY DEF VMTypeOK, vm
  <2>3. ThreadsTypeOK'
    BY GotoType, EndType DEF PCs, LockBody, CloseBody, threads
  <2>4. QED BY <2>1, <2>2, <2>3
<1>3. CASE ClosePoweroff(t)
  <2> USE <1>3 DEF ClosePoweroff
  <2>1. SessionTypeOK'
    BY DEF SessionTypeOK, session, States
  <2>2. VMTypeOK'
    BY DEF VMTypeOK, vm, Powers
  <2>3. ThreadsTypeOK'
    BY GotoType, EndType DEF PCs, LockBody, CloseBody, threads
  <2>4. QED BY <2>1, <2>2, <2>3
<1>4. CASE CloseInfo(t)
  <2> USE <1>4 DEF CloseInfo
  <2>1. SessionTypeOK'
    BY DEF SessionTypeOK, session, States
  <2>2. VMTypeOK'
    BY DEF VMTypeOK, vm
  <2>3. ThreadsTypeOK'
    BY DEF ThreadsTypeOK, VMTypeOK, Goto, Seen, Media, OpenMedia, PCs,
           LockBody, CloseBody
  <2>4. QED BY <2>1, <2>2, <2>3
<1>5. CASE CloseDiscard(t)
  <2> USE <1>5 DEF CloseDiscard
  <2>1. SessionTypeOK'
    BY DEF SessionTypeOK, session, States
  <2>2. VMTypeOK'
    BY DEF VMTypeOK, vm, Powers, Post, Commands
  <2>3. ThreadsTypeOK'
    BY GotoType, EndType DEF PCs, LockBody, CloseBody, threads
  <2>4. QED BY <2>1, <2>2, <2>3
<1>6. CASE CloseContext(t)
  <2> USE <1>6 DEF CloseContext, CloseRelease
  <2>1. SessionTypeOK'
    BY DEF SessionTypeOK, session, States
  <2>2. VMTypeOK'
    BY DEF VMTypeOK, vm, Post, Commands
  <2>3. ThreadsTypeOK'
    BY GotoType, EndType DEF PCs, LockBody, CloseBody, threads
  <2>4. QED BY <2>1, <2>2, <2>3
<1>7. CASE CloseScratch(t)
  <2> USE <1>7 DEF CloseScratch, CloseRelease
  <2>1. SessionTypeOK'
    BY DEF SessionTypeOK, session, States
  <2>2. VMTypeOK'
    BY DEF VMTypeOK, vm, Post, Commands
  <2>3. ThreadsTypeOK'
    BY GotoType, EndType DEF PCs, LockBody, CloseBody, threads
  <2>4. QED BY <2>1, <2>2, <2>3
<1>8. CASE CloseUnregister(t)
  <2> USE <1>8 DEF CloseUnregister
  <2>1. SessionTypeOK'
    BY DEF SessionTypeOK, session, States
  <2>2. VMTypeOK'
    BY DEF VMTypeOK, vm, Delete, Post, Commands, Powers
  <2>3. ThreadsTypeOK'
    BY GotoType, EndType DEF PCs, LockBody, CloseBody, threads
  <2>4. QED BY <2>1, <2>2, <2>3
<1>9. CASE CloseDone(t)
  <2> USE <1>9 DEF CloseDone
  <2>1. SessionTypeOK'
    BY DEF SessionTypeOK, session, States
  <2>2. VMTypeOK'
    BY DEF VMTypeOK, vm
  <2>3. ThreadsTypeOK'
    BY GotoType, EndType DEF PCs, LockBody, CloseBody, threads
  <2>4. QED BY <2>1, <2>2, <2>3
<1>10. QED BY <1>1, <1>2, <1>3, <1>4, <1>5, <1>6, <1>7, <1>8, <1>9 DEF
        CloseStep

LEMMA ControlType ==
    ASSUME Types, NEW t \in Workers, ControlStep(t)
    PROVE  TypeOK'
<1> USE ConstantsAssumption DEF Types, TypeOK
<1>1. CASE ControlCheck(t)
  <2> USE <1>1 DEF ControlCheck
  <2>1. SessionTypeOK'
    BY DEF SessionTypeOK, session, States
  <2>2. VMTypeOK'
    BY DEF VMTypeOK, vm
  <2>3. ThreadsTypeOK'
    BY GotoType, EndType DEF PCs, threads
  <2>4. QED BY <2>1, <2>2, <2>3
<1>2. CASE ControlExec(t)
  <2> USE <1>2 DEF ControlExec
  <2>1. SessionTypeOK'
    BY DEF SessionTypeOK, session, States
  <2>2. VMTypeOK'
    BY DEF VMTypeOK, vm, At, ControlsOnly, ControlBody, ControlOps,
           ControlTo, Powers
  <2>3. ThreadsTypeOK'
    BY GotoType, EndType DEF PCs, threads
  <2>4. QED BY <2>1, <2>2, <2>3
<1>3. CASE ControlDone(t)
  <2> USE <1>3 DEF ControlDone
  <2>1. SessionTypeOK'
    BY DEF SessionTypeOK, session, States
  <2>2. VMTypeOK'
    BY DEF VMTypeOK, vm
  <2>3. ThreadsTypeOK'
    BY GotoType, EndType DEF PCs, threads
  <2>4. QED BY <2>1, <2>2, <2>3
<1>4. QED BY <1>1, <1>2, <1>3 DEF ControlStep

LEMMA UpdateType ==
    ASSUME Types, NEW t \in Workers, UpdateStep(t)
    PROVE  TypeOK'
<1> USE ConstantsAssumption DEF Types, TypeOK
<1>1. CASE UpdateCheck(t)
  <2> USE <1>1 DEF UpdateCheck, UpdateEnd
  <2>1. SessionTypeOK'
    BY DEF SessionTypeOK, session, States
  <2>2. VMTypeOK'
    BY DEF VMTypeOK, vm
  <2>3. ThreadsTypeOK'
    BY EndType DEF ThreadsTypeOK, SessionTypeOK, Goto, PCs, UpdateBody
  <2>4. QED BY <2>1, <2>2, <2>3
<1>2. CASE UpdateInfo(t)
  <2> USE <1>2 DEF UpdateInfo, UpdateEnd
  <2>1. SessionTypeOK'
    BY DEF SessionTypeOK, session, States
  <2>2. VMTypeOK'
    BY DEF VMTypeOK, vm
  <2>3. ThreadsTypeOK'
    BY EndType
       DEF ThreadsTypeOK, VMTypeOK, Goto, Seen, Media, PCs, UpdateBody
  <2>4. QED BY <2>1, <2>2, <2>3
<1>3. CASE UpdateApply(t)
  <2> USE <1>3 DEF UpdateApply
  <2>1. SessionTypeOK'
    BY DEF SessionTypeOK, session, States
  <2>2. VMTypeOK'
    BY DEF VMTypeOK, vm
  <2>3. ThreadsTypeOK'
    BY DEF ThreadsTypeOK, SessionTypeOK, Goto, PCs, UpdateBody
  <2>4. QED BY <2>1, <2>2, <2>3
<1>4. CASE UpdateState(t)
  <2> USE <1>4 DEF UpdateState
  <2>1. SessionTypeOK'
    BY DEF SessionTypeOK, session, States
  <2>2. VMTypeOK'
    BY DEF VMTypeOK, vm
  <2>3. ThreadsTypeOK'
    BY GotoType, EndType DEF PCs, UpdateBody, threads
  <2>4. QED BY <2>1, <2>2, <2>3
<1>5. CASE UpdateCommit(t)
  <2> USE <1>5 DEF UpdateCommit
  <2>1. SessionTypeOK'
    BY DEF SessionTypeOK, session, States
  <2>2. VMTypeOK'
    BY DEF VMTypeOK, vm, SessionTypeOK
  <2>3. ThreadsTypeOK'
    BY GotoType, EndType DEF PCs, UpdateBody, threads
  <2>4. QED BY <2>1, <2>2, <2>3
<1>6. CASE UpdateDone(t)
  <2> USE <1>6 DEF UpdateDone, UpdateEnd
  <2>1. SessionTypeOK'
    BY DEF SessionTypeOK, session, States, Flags
  <2>2. VMTypeOK'
    BY DEF VMTypeOK, vm
  <2>3. ThreadsTypeOK'
    BY GotoType, EndType DEF PCs, UpdateBody, threads
  <2>4. QED BY <2>1, <2>2, <2>3
<1>7. QED BY <1>1, <1>2, <1>3, <1>4, <1>5, <1>6 DEF UpdateStep

LEMMA PropertyType ==
    ASSUME Types, NEW t \in Workers, PropertyStep(t)
    PROVE  TypeOK'
<1> USE ConstantsAssumption DEF Types, TypeOK
<1>1. CASE PropertyCheck(t)
  <2> USE <1>1 DEF PropertyCheck
  <2>1. SessionTypeOK'
    BY DEF SessionTypeOK, session, States, Props
  <2>2. VMTypeOK'
    BY DEF VMTypeOK, vm
  <2>3. ThreadsTypeOK'
    BY GotoType, EndType DEF PCs, threads
  <2>4. QED BY <2>1, <2>2, <2>3
<1>2. CASE PropertyExec(t)
  <2> USE <1>2 DEF PropertyExec
  <2>1. SessionTypeOK'
    BY DEF SessionTypeOK, session, States
  <2>2. VMTypeOK'
    BY DEF VMTypeOK, vm, Props
  <2>3. ThreadsTypeOK'
    BY GotoType, EndType DEF PCs, threads
  <2>4. QED BY <2>1, <2>2, <2>3
<1>3. QED BY <1>1, <1>2 DEF PropertyStep

-----------------------------------------------------------------------------
(* Each handler moves as Moves says.                                       *)

LEMMA OpenMoves ==
    ASSUME Types, NEW t \in Workers, OpenStep(t)
    PROVE  Moves(t)
<1> USE GotoMoves, EndMoves DEF Types, ControlsOnly, TypeOK, ThreadsTypeOK,
        Moves, At, LockMoves, OpeningMoves, StartingMoves, UpdaterMoves,
        ControlMoves, MediumMoves, MediumChosen, ContextBody, session, vm,
        threads, Locals, LockBody, OpenBody, StartBody, CloseBody,
        UpdateBody, ControlBody
<1>1. CASE OpenCheck(t)
  BY <1>1 DEF OpenCheck
<1>2. CASE OpenClaim(t)
  BY <1>2 DEF OpenClaim
<1>3. CASE OpenList(t)
  BY <1>3 DEF OpenList, OpenFail
<1>4. CASE OpenCreate(t)
  BY <1>4 DEF OpenCreate, OpenFail
<1>5. CASE OpenControllers(t)
  BY <1>5 DEF OpenControllers, OpenFail
<1>6. CASE OpenModify(t)
  BY <1>6 DEF OpenModify, OpenFail
<1>7. CASE OpenInfo(t)
  BY <1>7 DEF OpenInfo
<1>8. CASE OpenScratch(t)
  <2> USE <1>8
  <2>1. /\ pc[t] \in OpenBody /\ UNCHANGED <<updating, op, needs>>
        /\ \/ Goto(t, "open.boot") /\ UNCHANGED <<state, updateLock>>
           \/ OpenFail(t)
    BY DEF OpenScratch, OpenAttach
  <2>2. QED BY <2>1 DEF OpenFail
<1>9. CASE OpenBoot(t)
  <2> USE <1>9
  <2>1. /\ pc[t] \in OpenBody /\ UNCHANGED <<updating, op, needs>>
        /\ \/ Goto(t, "open.additions") /\ UNCHANGED <<state, updateLock>>
           \/ OpenFail(t)
    BY DEF OpenBoot, OpenAttach
  <2>2. QED BY <2>1 DEF OpenFail
<1>10. CASE OpenAdditions(t)
  <2> USE <1>10
  <2>1. /\ pc[t] \in OpenBody /\ UNCHANGED <<updating, op, needs>>
        /\ \/ Goto(t, "open.props") /\ UNCHANGED <<state, updateLock>>
           \/ OpenFail(t)
    BY DEF OpenAdditions, OpenAttach
  <2>2. QED BY <2>1 DEF OpenFail
<1>11. CASE OpenProps(t)
  BY <1>11 DEF OpenProps
<1>12. CASE OpenDone(t)
  BY <1>12 DEF OpenDone
<1>13. QED BY <1>1, <1>2, <1>3, <1>4, <1>5, <1>6, <1>7, <1>8, <1>9, <1>10,
        <1>11, <1>12 DEF OpenStep

LEMMA StartMoves ==
    ASSUME Types, NEW t \in Workers, StartStep(t)
    PROVE  Moves(t)
<1> USE GotoMoves, EndMoves DEF Types, ControlsOnly, TypeOK, ThreadsTypeOK,
        Moves, At, LockMoves, OpeningMoves, StartingMoves, UpdaterMoves,
        ControlMoves, MediumMoves, MediumChosen, ContextBody, session, vm,
        threads, Locals, LockBody, OpenBody, StartBody, CloseBody,
        UpdateBody, ControlBody
<1>1. CASE StartLock(t)
  BY <1>1 DEF StartLock
<1>2. CASE StartCheck(t)
  BY <1>2 DEF StartCheck
<1>3. CASE StartClaim(t)
  BY <1>3 DEF StartClaim
<1>4. CASE StartInfo(t)
  <2> USE <1>4
  <2>1. \E medium \in {"floppy", "context"} :
            needs' = [needs EXCEPT ![t] = {medium}]
    BY DEF StartInfo
  <2>2. \E label \in {"start.detach", "start.build", "start.boot"} :
            Goto(t, label)
    BY DEF StartInfo
  <2>3. pc[t] \in StartBody /\ UNCHANGED <<session, op>>
    BY DEF StartInfo
  <2>4. QED BY <2>1, <2>2, <2>3 DEF Media
<1>5. CASE StartDetach(t)
  BY <1>5 DEF StartDetach, StartFail
<1>6. CASE StartBuild(t)
  BY <1>6 DEF StartBuild
<1>7. CASE StartAttach(t)
  BY <1>7 DEF StartAttach, StartFail
<1>8. CASE StartBoot(t)
  BY <1>8 DEF StartBoot, StartFail
<1>9. CASE StartDone(t)
  BY <1>9 DEF StartDone
<1>10. CASE StartRelease(t)
  BY <1>10 DEF StartRelease
<1>11. QED BY <1>1, <1>2, <1>3, <1>4, <1>5, <1>6, <1>7, <1>8, <1>9, <1>10 DEF
        StartStep

LEMMA CloseMoves ==
    ASSUME Types, NEW t \in Workers, CloseStep(t)
    PROVE  Moves(t)
<1> USE GotoMoves, EndMoves DEF Types, ControlsOnly, TypeOK, ThreadsTypeOK,
        Moves, At, LockMoves, OpeningMoves, StartingMoves, UpdaterMoves,
        ControlMoves, MediumMoves, MediumChosen, ContextBody, session, vm,
        threads, Locals, LockBody, OpenBody, StartBody, CloseBody,
        UpdateBody, ControlBody
<1>1. CASE CloseCheck(t)
  BY <1>1 DEF CloseCheck
<1>2. CASE CloseLock(t)
  BY <1>2 DEF CloseLock
<1>3. CASE ClosePoweroff(t)
  BY <1>3 DEF ClosePoweroff
<1>4. CASE CloseInfo(t)
  BY <1>4 DEF CloseInfo
<1>5. CASE CloseDiscard(t)
  BY <1>5 DEF CloseDiscard
<1>6. CASE CloseContext(t)
  BY <1>6 DEF CloseContext, CloseRelease
<1>7. CASE CloseScratch(t)
  BY <1>7 DEF CloseScratch, CloseRelease
<1>8. CASE CloseUnregister(t)
  BY <1>8 DEF CloseUnregister
<1>9. CASE CloseDone(t)
  BY <1>9 DEF CloseDone
<1>10. QED BY <1>1, <1>2, <1>3, <1>4, <1>5, <1>6, <1>7, <1>8, <1>9 DEF
        CloseStep

LEMMA ControlsMove ==
    ASSUME Types, NEW t \in Workers, ControlStep(t)
    PROVE  Moves(t)
<1> USE GotoMoves, EndMoves DEF Types, ControlsOnly, TypeOK, ThreadsTypeOK,
        Moves, At, LockMoves, OpeningMoves, StartingMoves, UpdaterMoves,
        ControlMoves, MediumMoves, MediumChosen, ContextBody, session, vm,
        threads, Locals, LockBody, OpenBody, StartBody, CloseBody,
        UpdateBody, ControlBody
<1>1. CASE ControlCheck(t)
  BY <1>1 DEF ControlCheck
<1>2. CASE ControlExec(t)
  BY <1>2 DEF ControlExec
<1>3. CASE ControlDone(t)
  BY <1>3 DEF ControlDone
<1>4. QED BY <1>1, <1>2, <1>3 DEF ControlStep

LEMMA UpdateMoves ==
    ASSUME Types, NEW t \in Workers, UpdateStep(t)
    PROVE  Moves(t)
<1> USE GotoMoves, EndMoves DEF Types, ControlsOnly, TypeOK, ThreadsTypeOK,
        Moves, At, LockMoves, OpeningMoves, StartingMoves, UpdaterMoves,
        ControlMoves, MediumMoves, MediumChosen, ContextBody, session, vm,
        threads, Locals, LockBody, OpenBody, StartBody, CloseBody,
        UpdateBody, ControlBody
<1>1. CASE UpdateCheck(t)
  BY <1>1 DEF UpdateCheck, UpdateEnd
<1>2. CASE UpdateInfo(t)
  BY <1>2 DEF UpdateInfo, UpdateEnd
<1>3. CASE UpdateApply(t)
  BY <1>3 DEF UpdateApply
<1>4. CASE UpdateState(t)
  BY <1>4 DEF UpdateState
<1>5. CASE UpdateCommit(t)
  BY <1>5 DEF UpdateCommit
<1>6. CASE UpdateDone(t)
  BY <1>6 DEF UpdateDone, UpdateEnd
<1>7. QED BY <1>1, <1>2, <1>3, <1>4, <1>5, <1>6 DEF UpdateStep

LEMMA PropertyMoves ==
    ASSUME Types, NEW t \in Workers, PropertyStep(t)
    PROVE  Moves(t)
<1> USE GotoMoves, EndMoves DEF Types, ControlsOnly, TypeOK, ThreadsTypeOK,
        Moves, At, LockMoves, OpeningMoves, StartingMoves, UpdaterMoves,
        ControlMoves, MediumMoves, MediumChosen, ContextBody, session, vm,
        threads, Locals, LockBody, OpenBody, StartBody, CloseBody,
        UpdateBody, ControlBody
<1>1. CASE PropertyCheck(t)
  BY <1>1 DEF PropertyCheck
<1>2. CASE PropertyExec(t)
  BY <1>2 DEF PropertyExec
<1>3. QED BY <1>1, <1>2 DEF PropertyStep

LEMMA CallType ==
    ASSUME Types, NEW t \in Workers, NEW o \in Ops, Call(t, o)
    PROVE  TypeOK'
<1> USE ConstantsAssumption DEF Types, TypeOK, Call
<1>1. SessionTypeOK'
  BY DEF SessionTypeOK
<1>2. VMTypeOK'
  BY DEF VMTypeOK, vm
<1>3. Entry(o) \in PCs
  BY DEF Entry, PCs, UpdateBody
<1>4. ThreadsTypeOK'
  BY <1>3 DEF ThreadsTypeOK, Goto
<1>5. QED BY <1>1, <1>2, <1>4

LEMMA CallMoves ==
    ASSUME Types, NEW t \in Workers, NEW o \in Ops, Call(t, o)
    PROVE  Moves(t)
<1> USE ConstantsAssumption DEF Types, TypeOK, ThreadsTypeOK, SessionTypeOK,
        Call, At
<1>1. /\ pc[t] = "idle" /\ pc'[t] = Entry(o)
      /\ pc' = [pc EXCEPT ![t] = pc'[t]]
      /\ op'[t] = o /\ op' = [op EXCEPT ![t] = op'[t]]
      /\ needs' = [needs EXCEPT ![t] = needs'[t]]
  BY DEF Goto
<1>2. /\ Entry(o) \notin LockBody \cup OpenBody \cup StartBody
      /\ Entry(o) \in UpdateBody <=> o = "update"
      /\ Entry(o) \in ControlBody => o \in ControlOps
      /\ Entry(o) \notin ContextBody
  BY DEF Entry, AllOps, LockBody, OpenBody, StartBody, CloseBody, UpdateBody,
        ControlBody,
         ControlOps, ContextBody
<1>3. pc[t] \notin LockBody \cup OpenBody \cup StartBody \cup UpdateBody
  BY <1>1 DEF LockBody, OpenBody, StartBody, CloseBody, UpdateBody
<1>4. LockMoves(t) /\ OpeningMoves(t) /\ StartingMoves(t)
  BY <1>3 DEF LockMoves, OpeningMoves, StartingMoves
<1>5. UpdaterMoves(t)
  BY <1>1, <1>2, <1>3 DEF UpdaterMoves, Accepts
<1>6. ControlMoves(t)
  BY <1>1, <1>2 DEF ControlMoves
<1>7. MediumMoves(t)
  BY <1>1, <1>2 DEF MediumMoves
<1>8. QED BY <1>1, <1>4, <1>5, <1>6, <1>7 DEF Moves

\* VirtualBox, its user and the commands in the background touch the VM only.
LEMMA MachineKeeps ==
    ASSUME Types,
           \/ \E c \in background : Background(c)
           \/ \E e \in Outside : OutsideMove(e)
           \/ OutsideDelete
    PROVE  TypeOK' /\ UNCHANGED <<session, threads>>
<1> USE DEF Types, TypeOK
<1>1. UNCHANGED <<session, threads>>
  BY DEF Background, OutsideMove, OutsideDelete, session, threads
<1>2. SessionTypeOK' /\ ThreadsTypeOK'
  BY <1>1 DEF SessionTypeOK, ThreadsTypeOK, session, threads
<1>3. VMTypeOK'
  <2>1. CASE \E c \in background : Background(c)
    BY <2>1 DEF VMTypeOK, Background, Delete, Powers, vm
  <2>2. CASE \E e \in Outside : OutsideMove(e)
    BY <2>2 DEF VMTypeOK, OutsideMove, Powers
  <2>3. CASE OutsideDelete
    BY <2>3 DEF VMTypeOK, OutsideDelete, Delete, Powers
  <2>4. QED BY <2>1, <2>2, <2>3
<1>4. QED BY <1>1, <1>2, <1>3

-----------------------------------------------------------------------------
(* The inductive invariant.                                                *)

IInv ==
    /\ Types
    /\ LockHasWorker
    /\ OpeningHasWorker
    /\ StartingHasWorkerIfBuilt
    /\ OneUpdater

LEMMA InitIInv == Init => IInv
<1> SUFFICES ASSUME Init PROVE IInv
  OBVIOUS
<1>1. TypeOK
  BY ConstantsAssumption
     DEF Init, TypeOK, SessionTypeOK, VMTypeOK, ThreadsTypeOK, States,
         Powers, PCs
<1>2. ControlsOnly /\ MediumChosen /\ LockHasWorker /\ OpeningHasWorker /\
        StartingHasWorkerIfBuilt
  BY DEF Init, ControlsOnly, ControlBody, MediumChosen, ContextBody,
         LockHasWorker, OpeningHasWorker, StartingHasWorkerIfBuilt,
         StartingHasWorker
<1>3. OneUpdater
  BY DEF Init, OneUpdater, UpdateBody
<1>4. QED BY <1>1, <1>2, <1>3 DEF IInv, Types

\* A step of one worker keeps the invariant, its types aside, if it moves as
\* Moves says.
LEMMA MovesKeep ==
    ASSUME IInv, NEW t \in Workers, Moves(t)
    PROVE  /\ ControlsOnly' /\ MediumChosen' /\ LockHasWorker'
           /\ OpeningHasWorker'
           /\ StartingHasWorkerIfBuilt' /\ OneUpdater'
<1> USE DEF IInv, Moves
<1>1. /\ pc \in [Workers -> PCs] /\ op \in [Workers -> AllOps \cup {"idle"}]
      /\ needs \in [Workers -> SUBSET Seen]
  BY DEF Types, TypeOK, ThreadsTypeOK
<1>2. \A u \in Workers : u # t => pc'[u] = pc[u]
  BY <1>1
<1>3. ControlsOnly'
  BY <1>1, <1>2 DEF Types, ControlsOnly, ControlMoves
<1>4. LockHasWorker'
  BY <1>2 DEF LockHasWorker, LockMoves
<1>5. OpeningHasWorker'
  BY <1>2 DEF OpeningHasWorker, OpeningMoves
<1>6. StartingHasWorkerIfBuilt'
  BY <1>2 DEF StartingHasWorkerIfBuilt, StartingHasWorker, StartingMoves
<1>7. OneUpdater'
  BY <1>2 DEF OneUpdater, UpdaterMoves
<1>8. MediumChosen'
  BY <1>1, <1>2 DEF Types, MediumChosen, MediumMoves
<1>9. QED BY <1>3, <1>4, <1>5, <1>6, <1>7, <1>8

LEMMA NextIInv == IInv /\ [Next]_vars => IInv'
<1> SUFFICES ASSUME IInv, [Next]_vars PROVE IInv'
  OBVIOUS
<1>1. Types BY DEF IInv
<1>2. ASSUME NEW t \in Workers, WorkerStep(t) PROVE IInv'
  <2>1. TypeOK'
    BY <1>1, <1>2, OpenType, StartType, CloseType, ControlType, UpdateType,
       PropertyType DEF WorkerStep
  <2>2. Moves(t)
    BY <1>1, <1>2, OpenMoves, StartMoves, CloseMoves, ControlsMove,
       UpdateMoves, PropertyMoves DEF WorkerStep
  <2>3. QED BY <2>1, <2>2, MovesKeep DEF IInv, Types
<1>3. ASSUME NEW t \in Workers, NEW o \in Ops, Call(t, o) PROVE IInv'
  BY <1>1, <1>3, CallType, CallMoves, MovesKeep DEF IInv, Types
<1>4. CASE \/ \E c \in background : Background(c)
           \/ \E e \in Outside : OutsideMove(e)
           \/ OutsideDelete
  BY <1>1, <1>4, MachineKeeps
     DEF IInv, Types, ControlsOnly, MediumChosen, LockHasWorker,
         OpeningHasWorker,
         StartingHasWorkerIfBuilt, StartingHasWorker, OneUpdater, session,
         threads
<1>5. CASE UNCHANGED vars
  BY <1>5 DEF IInv, Types, TypeOK, SessionTypeOK, VMTypeOK, ThreadsTypeOK,
              ControlsOnly, MediumChosen, LockHasWorker, OpeningHasWorker,
              StartingHasWorkerIfBuilt, StartingHasWorker, OneUpdater, vars,
              session, vm, threads
<1>6. QED BY <1>2, <1>3, <1>4, <1>5 DEF Next

THEOREM Invariant == Spec => []IInv
BY InitIInv, NextIInv, PTL DEF Spec

-----------------------------------------------------------------------------

\* Every field keeps its type, however the calls, the failures and the outside
\* actions interleave.
THEOREM TypeCorrect == Spec => []TypeOK
<1>1. IInv => TypeOK BY DEF IInv, Types
<1>2. QED BY <1>1, Invariant, PTL

\* open(), start() and close() give the update lock back on every path, so the
\* lock is held only while one of them is in progress.
THEOREM LockGivenBack == Spec => []LockHasWorker
<1>1. IInv => LockHasWorker BY DEF IInv
<1>2. QED BY <1>1, Invariant, PTL

\* No path of open() leaves OPPENING behind, and no path of start() STARTING,
\* when the context medium can always be built.
THEOREM TransitionsEnd == Spec => []TransitionHasWorker
<1>1. IInv => TransitionHasWorker BY DEF IInv, TransitionHasWorker
<1>2. QED BY <1>1, Invariant, PTL

\* The updating flag admits one refresh at a time and is given back by it.
THEOREM OneRefresh == Spec => []OneUpdater
<1>1. IInv => OneUpdater BY DEF IInv
<1>2. QED BY <1>1, Invariant, PTL
-----------------------------------------------------------------------------
(* QuietAgreement and PendingNotDropped, for one call at a time, failures  *)
(* of the building of the medium and of startvm, and nobody behind the     *)
(* plugin; for every set of calls, media, flags and VMs.                   *)

Sequential ==
    /\ \E t : Workers = {t}
    /\ Faults \subseteq {"build", "startvm"}
    /\ Outside = {}

\* open() has finished the machine, and the session names it.
Whole == registered /\ uuid = vmid /\ controllers /\ Modes \subseteq media

\* The states in which a session rests.
Closed  == state = "CLOSED" /\ ~registered
Opened  == state = "OPEN" /\ Whole /\ power \in {"off", "saved"}
Started == state = "STARTED" /\ Whole /\ power = "running"
Paused  == state = "PAUSED" /\ Whole /\ power = "paused"
Unbuilt == state = "STARTING" /\ Whole /\ power = "off" /\ "build" \in Faults

Live == Opened \/ Started \/ Paused

\* A machine whose media are being attached or released.
Bare == registered /\ uuid = vmid /\ controllers /\ power = "off"

\* What each point of a call knows of the session and of the machine.
OpenStands(label, mine, need) ==
    /\ label \in {"open.check", "open.claim"} => Closed
    /\ label \in {"open.list", "open.create"} => ~registered
    /\ label = "open.controllers" => registered /\ mine = vmid /\ power = "off"
    /\ label \in {"open.modify", "open.info", "open.scratch", "open.boot", "open.additions"} =>
          Bare /\ mine = vmid
    /\ label \in {"open.scratch", "open.boot", "open.additions"} => Modes \ media \subseteq need
    /\ label = "open.boot" => Modes \ media \subseteq {"boot", "additions"}
    /\ label = "open.additions" => Modes \ media \subseteq {"additions"}
    /\ label \in {"open.props", "open.done"} => Whole /\ power = "off"

StartStands(label, need) ==
    /\ label \in {"start.lock", "start.check", "start.claim"} => Opened
    /\ label \in {"start.info", "start.boot"} => Whole /\ power \in {"off", "saved"}
    /\ label \in ContextBody \cup {"start.info"} => state = "STARTING"
    /\ label \in ContextBody =>
          Whole /\ power = "off" /\ need \subseteq {"context", "floppy"}
    /\ label = "start.done" => Whole /\ power = "running"
    /\ label = "start.release" => Started

CloseStands(label, call, need) ==
    /\ label \in CloseBody \cup {"close.check", "close.lock"} => call = "close"
    /\ label \in {"close.check", "close.lock", "close.poweroff"} => Live
    /\ label \in {"close.info", "close.discard"} => Whole /\ power \in {"off", "saved"}
    /\ label = "close.discard" => ("saved" \in need <=> power = "saved")
    /\ label \in {"close.context", "close.scratch", "close.unregister"} => Bare
    /\ label = "close.done" => ~registered

ControlStands(label, call) ==
    /\ label \in {"control.check", "control.exec"} => IF call = "resume" THEN Paused ELSE Started
    /\ label = "control.done" => /\ Whole /\ power = ControlTo[call]
                                 /\ call = "reset" => state = "STARTED"

UpdateStands(label, mine, need) ==
    /\ label = "update.check" => Live \/ Unbuilt
    /\ label = "update.info" => Live /\ mine = vmid
    /\ label = "update.apply" => Live
    /\ label \in {"update.apply", "update.state", "update.commit"} =>
          Whole /\ power \in need /\ need \subseteq {power, "floppy"}
    /\ label = "update.state" => state = "OPEN"
    /\ label \in {"update.commit", "update.done"} => Live

Stands(t) ==
    /\ op[t] = "idle" => pc[t] = "idle"
    /\ pc[t] \in {"idle", "property.check", "property.exec"} => Closed \/ Live \/ Unbuilt
    /\ OpenStands(pc[t], slot[t], needs[t])
    /\ StartStands(pc[t], needs[t])
    /\ CloseStands(pc[t], op[t], needs[t])
    /\ ControlStands(pc[t], op[t])
    /\ UpdateStands(pc[t], slot[t], needs[t])

\* Pending properties wait for a refresh that finds the session not editable;
\* that refresh has still to write them, or finds the VM paused or saved.
Pending(t) ==
    /\ IF pc[t] \in {"update.state", "update.commit"} THEN was[t] => unsynced = {}
                                                      ELSE editable => unsynced = {}
    /\ pc[t] = "update.state" => editable
    /\ pc[t] = "update.commit" => editable \/ needs[t] \cap {"paused", "saved"} # {}

SInv == Types /\ background = {} /\ \A t \in Workers : Stands(t) /\ Pending(t)

-----------------------------------------------------------------------------

\* A command that is possible succeeds, startvm aside.
LEMMA Certain ==
    ASSUME Sequential, NEW kind, kind \notin {"build", "startvm"}, NEW possible
    PROVE  /\ possible => Outcomes(kind, possible) = {TRUE}
           /\ ~possible => Outcomes(kind, possible) = {FALSE}
  BY DEF Sequential, Outcomes

\* Of a medium that can be detached, the detaching and the closing both succeed.
LEMMA Released ==
    ASSUME Sequential, NEW possible, possible,
           NEW detached \in Outcomes("detach", possible), NEW closed \in Outcomes("detach", detached)
    PROVE  detached = TRUE /\ closed = TRUE
  <1>1. "detach" \notin Faults
    BY DEF Sequential
  <1>2. detached \in {TRUE}
    BY <1>1 DEF Outcomes
  <1>3. closed \in {TRUE}
    BY <1>1, <1>2 DEF Outcomes
  <1> QED
    BY <1>2, <1>3

\* A medium that can be attached is.
LEMMA Attaches ==
    ASSUME Sequential, NEW t \in Workers, NEW here, NEW medium, NEW next,
           OpenAttach(t, here, medium, next), Attachable(slot[t])
    PROVE  /\ Goto(t, next)
           /\ media' = media \cup {medium} \/ (media' = media /\ medium \notin needs[t])
  <1> DEFINE outdated == medium \in DOMAIN Outdated /\ Outdated[medium] \in needs[t]
             detach == IF outdated THEN Outcomes("detach", Attachable(slot[t])) ELSE {TRUE}
  <1>1. detach = {TRUE}
    BY Certain
  <1>3. \/ medium \notin needs[t] /\ Goto(t, next) /\ media' = media
        \/ \E free \in detach : \E ok \in Outcomes("attach", free /\ Attachable(slot[t])) :
              /\ media' = IF ok THEN media \cup {medium}
                          ELSE IF outdated /\ free THEN media \ {medium} ELSE media
              /\ IF ok THEN Goto(t, next) /\ UNCHANGED <<state, updateLock>> ELSE OpenFail(t)
    BY DEF OpenAttach
  <1> HIDE DEF detach, outdated
  <1>4. CASE \E free \in detach : \E ok \in Outcomes("attach", free /\ Attachable(slot[t])) :
              /\ media' = IF ok THEN media \cup {medium}
                          ELSE IF outdated /\ free THEN media \ {medium} ELSE media
              /\ IF ok THEN Goto(t, next) /\ UNCHANGED <<state, updateLock>> ELSE OpenFail(t)
    <2>1. PICK free \in detach : \E ok \in Outcomes("attach", free /\ Attachable(slot[t])) :
              /\ media' = IF ok THEN media \cup {medium}
                          ELSE IF outdated /\ free THEN media \ {medium} ELSE media
              /\ IF ok THEN Goto(t, next) /\ UNCHANGED <<state, updateLock>> ELSE OpenFail(t)
      BY <1>4
    <2>2. free /\ Attachable(slot[t])
      BY <1>1, <2>1
    <2>3. Outcomes("attach", free /\ Attachable(slot[t])) = {TRUE}
      BY <2>2, Certain
    <2> QED
      BY <2>1, <2>3
  <1> QED
    BY <1>3, <1>4

\* From one point of a call to another.
LEMMA OpenStand ==
    ASSUME Sequential, SInv, NEW t \in Workers, OpenStep(t)
    PROVE  background' = {} /\ Stands(t)'
  <1> USE DEF Stands, OpenStands, StartStands, CloseStands, ControlStands, UpdateStands,
              Closed, Opened, Started, Paused, Unbuilt, Live, Whole, Bare, ContextBody, CloseBody,
              At, Goto, Locals, vm, session
  <1>1. Stands(t) /\ background = {} /\ ThreadsTypeOK /\ VMTypeOK
    BY DEF SInv, Types, TypeOK
  <1> USE <1>1 DEF ThreadsTypeOK
  <1>2. CASE OpenCheck(t)
    BY <1>2 DEF OpenCheck
  <1>3. CASE OpenClaim(t)
    BY <1>3 DEF OpenClaim
  <1>4. CASE OpenList(t)
    <2>1. Outcomes("query", TRUE) = {TRUE} /\ ~registered
      BY <1>4, Certain DEF OpenList
    <2> QED
      BY <2>1, <1>4 DEF OpenList
  <1>5. CASE OpenCreate(t)
    <2>1. Outcomes("create", ~registered) = {TRUE}
      BY <1>5, Certain DEF OpenCreate
    <2>2. \E id \in Fresh : Create(id) /\ slot' = [slot EXCEPT ![t] = id]
      BY <2>1, <1>5 DEF OpenCreate
    <2>3. pc'[t] = "open.controllers" /\ op' = op /\ background' = background
      BY <2>1, <1>5 DEF OpenCreate
    <2>4. registered' /\ power' = "off" /\ slot'[t] = vmid'
      BY <2>2 DEF Create
    <2> QED
      BY <2>3, <2>4, <1>5 DEF OpenCreate
  <1>6. CASE OpenControllers(t)
    <2>1. Outcomes("controller", Alive(slot[t]) /\ power = "off") = {TRUE}
      BY <1>6, Certain DEF OpenControllers, Alive
    <2> QED
      BY <2>1, <1>6 DEF OpenControllers
  <1>7. CASE OpenModify(t)
    <2>1. Outcomes("modify", Alive(slot[t]) /\ power = "off") = {TRUE}
      BY <1>7, Certain DEF OpenModify, Alive
    <2> QED
      BY <2>1, <1>7 DEF OpenModify
  <1>8. CASE OpenInfo(t)
    <2>1. Modes \ media \subseteq needs'[t] /\ pc'[t] = "open.scratch" /\ pc[t] = "open.info"
      <3>1. \/ \E old : needs' = [needs EXCEPT ![t] = (Modes \ media) \cup {Outdated[m] : m \in old}]
            \/ needs' = [needs EXCEPT ![t] = Modes]
        BY <1>8 DEF OpenInfo
      <3> QED
        BY <3>1, <1>8 DEF OpenInfo
    <2> QED
      BY <2>1, <1>8 DEF OpenInfo
  <1>9. ASSUME NEW here, NEW medium, NEW next, OpenAttach(t, here, medium, next),
               here \in {"open.scratch", "open.boot", "open.additions"}
        PROVE  /\ pc[t] = here /\ pc'[t] = next /\ medium \notin Modes \ media'
               /\ Modes \ media' \subseteq Modes \ media
               /\ UNCHANGED <<op, slot, needs, registered, vmid, uuid, controllers, power, background>>
    <2>1. Attachable(slot[t])
      BY <1>9 DEF OpenAttach, Attachable, Alive
    <2>2. /\ Goto(t, next)
          /\ media' = media \cup {medium} \/ (media' = media /\ medium \notin needs[t])
      BY <1>9, <2>1, Attaches
    <2> QED
      BY <2>2, <1>9 DEF OpenAttach
  <1>10. Modes \subseteq {"scratch", "boot", "additions"}
    BY ConstantsAssumption DEF OpenMedia
  <1>13. CASE OpenScratch(t)
    <2>1. /\ pc[t] = "open.scratch" /\ pc'[t] = "open.boot"
          /\ "scratch" \notin Modes \ media' /\ Modes \ media' \subseteq Modes \ media
          /\ UNCHANGED <<op, slot, needs, registered, vmid, uuid, controllers, power, background>>
      BY <1>13, <1>9 DEF OpenScratch
    <2> QED
      BY <2>1, <1>10
  <1>14. CASE OpenBoot(t)
    BY <1>14, <1>9, <1>10 DEF OpenBoot
  <1>15. CASE OpenAdditions(t)
    BY <1>15, <1>9, <1>10 DEF OpenAdditions
  <1>11. CASE OpenProps(t)
    BY <1>11 DEF OpenProps
  <1>12. CASE OpenDone(t)
    BY <1>12 DEF OpenDone, End
  <1> QED
    BY <1>2, <1>3, <1>4, <1>5, <1>6, <1>7, <1>8, <1>11, <1>12, <1>13, <1>14,
       <1>15 DEF OpenStep

LEMMA StartStand ==
    ASSUME Sequential, SInv, NEW t \in Workers, StartStep(t)
    PROVE  background' = {} /\ Stands(t)'
  <1> USE DEF Stands, OpenStands, StartStands, CloseStands, ControlStands, UpdateStands,
              Closed, Opened, Started, Paused, Unbuilt, Live, Whole, Bare, ContextBody, CloseBody,
              At, Goto, End, Locals, vm, session
  <1>1. Stands(t) /\ background = {} /\ ThreadsTypeOK /\ VMTypeOK
    BY DEF SInv, Types, TypeOK
  <1> USE <1>1 DEF ThreadsTypeOK
  <1>2. CASE StartLock(t)
    BY <1>2 DEF StartLock
  <1>3. CASE StartCheck(t)
    BY <1>3 DEF StartCheck
  <1>4. CASE StartClaim(t)
    BY <1>4 DEF StartClaim
  <1>5. CASE StartInfo(t)
    <2>1. Outcomes("query", Alive(uuid)) = {TRUE}
      BY <1>5, Certain DEF StartInfo, Alive
    <2>2. needs'[t] \subseteq {"context", "floppy"}
      BY <1>5 DEF StartInfo
    <2>3. pc'[t] = "start.boot" \/ (pc'[t] \in {"start.detach", "start.build"} /\ power # "saved")
      BY <2>1, <1>5 DEF StartInfo
    <2>4. pc[t] = "start.info" /\ UNCHANGED <<session, vm, background, op, slot>>
      BY <1>5 DEF StartInfo
    <2> QED
      BY <2>2, <2>3, <2>4
  <1>6. CASE StartDetach(t)
    <2>1. Attachable(uuid)
      BY <1>6 DEF StartDetach, Attachable, Alive
    <2>2. PICK detached \in Outcomes("detach", Attachable(uuid)) :
             \E closed \in Outcomes("detach", detached) :
               /\ media' = IF detached THEN media \ needs[t] ELSE media
               /\ IF closed THEN Goto(t, "start.build") /\ UNCHANGED <<state, updateLock, Locals>>
                            ELSE StartFail(t)
      BY <1>6 DEF StartDetach
    <2>5. PICK closed \in Outcomes("detach", detached) :
               /\ media' = IF detached THEN media \ needs[t] ELSE media
               /\ IF closed THEN Goto(t, "start.build") /\ UNCHANGED <<state, updateLock, Locals>>
                            ELSE StartFail(t)
      BY <2>2
    <2>6. detached = TRUE /\ closed = TRUE
      BY <2>1, Released
    <2>4. media' = media \ needs[t] /\ Goto(t, "start.build") /\ UNCHANGED <<state, Locals>>
      BY <2>5, <2>6
    <2>3. Modes \subseteq media'
      BY <2>4, <1>6, ConstantsAssumption DEF StartDetach, OpenMedia
    <2> QED
      BY <2>4, <2>3, <1>6 DEF StartDetach
  <1>7. CASE StartBuild(t)
    BY <1>7 DEF StartBuild
  <1>8. CASE StartAttach(t)
    <2>1. Outcomes("attach", Attachable(uuid)) = {TRUE}
      BY <1>8, Certain DEF StartAttach, Attachable, Alive
    <2> QED
      BY <2>1, <1>8 DEF StartAttach
  <1>9. CASE StartBoot(t)
    BY <1>9 DEF StartBoot, StartFail
  <1>10. CASE StartDone(t)
    BY <1>10 DEF StartDone
  <1>11. CASE StartRelease(t)
    BY <1>11 DEF StartRelease
  <1> QED
    BY <1>2, <1>3, <1>4, <1>5, <1>6, <1>7, <1>8, <1>9, <1>10, <1>11 DEF StartStep

LEMMA CloseStand ==
    ASSUME Sequential, SInv, NEW t \in Workers, CloseStep(t)
    PROVE  background' = {} /\ Stands(t)'
  <1> USE DEF Stands, OpenStands, StartStands, CloseStands, ControlStands, UpdateStands,
              Closed, Opened, Started, Paused, Unbuilt, Live, Whole, Bare, ContextBody, CloseBody,
              At, Goto, End, Locals, vm, session
  <1>1. Stands(t) /\ background = {} /\ ThreadsTypeOK /\ VMTypeOK
    BY DEF SInv, Types, TypeOK
  <1> USE <1>1 DEF ThreadsTypeOK
  <1>2. pc[t] \in CloseBody \cup {"close.check", "close.lock"} => ~Unmonitored(t)
    BY DEF Unmonitored
  <1>3. CASE CloseCheck(t)
    BY <1>3 DEF CloseCheck
  <1>4. CASE CloseLock(t)
    BY <1>4 DEF CloseLock
  <1>5. CASE ClosePoweroff(t)
    <2> DEFINE possible == Alive(uuid) /\ power \in {"running", "paused"}
    <2>1. ControlFrom["stop"] = {"running", "paused"}
      BY DEF ControlFrom
    <2>2. IF possible THEN Outcomes("control", possible) = {TRUE}
                      ELSE Outcomes("control", possible) = {FALSE}
      BY Certain
    <2>3. power' = IF possible THEN "off" ELSE power
      BY <2>1, <2>2, <1>5 DEF ClosePoweroff
    <2> QED
      BY <2>3, <1>5 DEF ClosePoweroff, Alive
  <1>6. CASE CloseInfo(t)
    <2>1. Outcomes("query", Alive(uuid)) = {TRUE}
      BY <1>6, Certain DEF CloseInfo, Alive
    <2>2. needs' = [needs EXCEPT ![t] = (media \cup {power}) \cap {"saved", "context", "scratch"}]
      BY <2>1, <1>6 DEF CloseInfo
    <2>3. "saved" \in needs'[t] <=> power = "saved"
      BY <2>2 DEF VMTypeOK, Media, OpenMedia
    <2> QED
      BY <2>3, <1>6 DEF CloseInfo
  <1>7. CASE CloseDiscard(t)
    <2>1. power = "saved" => Outcomes("discard", Alive(uuid) /\ power = "saved") = {TRUE}
      BY <1>7, Certain DEF CloseDiscard, Alive
    <2> QED
      BY <2>1, <1>2, <1>7 DEF CloseDiscard
  <1>8. ASSUME NEW here, NEW medium, NEW next, CloseRelease(t, here, medium, next),
               here \in {"close.context", "close.scratch"}
        PROVE  pc[t] = here /\ pc'[t] = next /\ Bare' /\ op' = op /\ background' = {}
    <2>1. Attachable(uuid) /\ ~Unmonitored(t)
      BY <1>2, <1>8 DEF CloseRelease, Attachable, Alive
    <2>2. ASSUME \E detached \in Outcomes("detach", Attachable(uuid)) :
                 \E closed \in Outcomes("detach", detached) :
                   IF closed THEN Goto(t, next) /\ UNCHANGED <<updateLock, Locals>>
                             ELSE updateLock' = FALSE /\ End(t)
          PROVE  Goto(t, next) /\ UNCHANGED Locals
      <3>1. PICK detached \in Outcomes("detach", Attachable(uuid)) : \E closed \in Outcomes("detach", detached) :
                   IF closed THEN Goto(t, next) /\ UNCHANGED <<updateLock, Locals>>
                             ELSE updateLock' = FALSE /\ End(t)
        BY <2>2
      <3>3. PICK closed \in Outcomes("detach", detached) :
                   IF closed THEN Goto(t, next) /\ UNCHANGED <<updateLock, Locals>>
                             ELSE updateLock' = FALSE /\ End(t)
        BY <3>1
      <3>2. detached = TRUE /\ closed = TRUE
        BY <2>1, Released
      <3> QED
        BY <3>3, <3>2
    <2>3. CASE medium \notin needs[t]
      BY <2>3, <1>8 DEF CloseRelease
    <2>4. CASE medium \in needs[t]
      <3>1. \E detached \in Outcomes("detach", Attachable(uuid)) :
               \E closed \in Outcomes("detach", detached) :
                 /\ media' = IF detached THEN media \ {medium} ELSE media
                 /\ IF closed THEN Goto(t, next) /\ UNCHANGED <<updateLock, Locals>>
                              ELSE updateLock' = FALSE /\ End(t)
        <4> HIDE DEF Goto, End, Locals
        <4> QED
          BY <2>1, <2>4, <1>8 DEF CloseRelease
      <3>2. Goto(t, next) /\ UNCHANGED Locals
        <4> HIDE DEF Goto, End, Locals
        <4> QED
          BY <3>1, <2>2
      <3>3. background' = background
        BY <2>1, <2>4, <1>8 DEF CloseRelease
      <3> QED
        BY <3>2, <3>3, <1>8 DEF CloseRelease
    <2> QED
      BY <2>3, <2>4
  <1>9. CASE CloseContext(t)
    BY <1>8, <1>9 DEF CloseContext
  <1>10. CASE CloseScratch(t)
    BY <1>8, <1>10 DEF CloseScratch
  <1>11. CASE CloseUnregister(t)
    <2>1. Outcomes("unregister", Alive(uuid) /\ power = "off") = {TRUE}
      BY <1>11, Certain DEF CloseUnregister, Alive
    <2> QED
      BY <2>1, <1>2, <1>11 DEF CloseUnregister, Delete
  <1>12. CASE CloseDone(t)
    BY <1>12 DEF CloseDone
  <1> QED
    BY <1>3, <1>4, <1>5, <1>6, <1>7, <1>9, <1>10, <1>11, <1>12 DEF CloseStep

LEMMA ControlStand ==
    ASSUME Sequential, SInv, NEW t \in Workers, ControlStep(t)
    PROVE  background' = {} /\ Stands(t)'
  <1> USE DEF Stands, OpenStands, StartStands, CloseStands, ControlStands, UpdateStands,
              Closed, Opened, Started, Paused, Unbuilt, Live, Whole, Bare, ContextBody, CloseBody,
              At, Goto, End, Locals, vm, session
  <1>1. Stands(t) /\ background = {} /\ ThreadsTypeOK /\ VMTypeOK
    BY DEF SInv, Types, TypeOK
  <1> USE <1>1 DEF ThreadsTypeOK
  <1>2. pc[t] \in ControlBody => op[t] \in ControlOps
    BY DEF SInv, Types, ControlsOnly
  <1>3. CASE ControlCheck(t)
    BY <1>3 DEF ControlCheck
  <1>4. CASE ControlExec(t)
    <2>1. op[t] \in ControlOps
      BY <1>2, <1>4 DEF ControlExec, ControlBody
    <2>2. power \in ControlFrom[op[t]]
      BY <2>1, <1>4 DEF ControlExec, ControlOps, ControlFrom
    <2>3. Outcomes("control", Alive(uuid) /\ power \in ControlFrom[op[t]]) = {TRUE}
      BY <2>2, <1>4, Certain DEF ControlExec, Alive
    <2>4. power' = ControlTo[op[t]]
      BY <2>3, <1>4 DEF ControlExec
    <2> QED
      BY <2>1, <2>4, <1>4 DEF ControlExec, ControlOps
  <1>5. CASE ControlDone(t)
    <2>1. op[t] \in ControlOps
      BY <1>2, <1>5 DEF ControlDone, ControlBody
    <2>2. power = ControlTo[op[t]] /\ pc'[t] = "idle" /\ op'[t] = "idle"
      BY <1>5 DEF ControlDone
    <2> QED
      BY <2>1, <2>2, <1>5 DEF ControlDone, ControlOps, ControlTo
  <1> QED
    BY <1>3, <1>4, <1>5 DEF ControlStep

LEMMA UpdateStand ==
    ASSUME Sequential, SInv, NEW t \in Workers, UpdateStep(t)
    PROVE  background' = {} /\ Stands(t)'
  <1> USE DEF Stands, OpenStands, StartStands, CloseStands, ControlStands, UpdateStands,
              Closed, Opened, Started, Paused, Unbuilt, Live, Whole, Bare, ContextBody, CloseBody,
              At, Goto, End, UpdateEnd, Locals, vm, session
  <1>1. Stands(t) /\ background = {} /\ ThreadsTypeOK /\ VMTypeOK
    BY DEF SInv, Types, TypeOK
  <1> USE <1>1 DEF ThreadsTypeOK
  <1>2. CASE UpdateCheck(t)
    BY <1>2 DEF UpdateCheck
  <1>3. CASE UpdateInfo(t)
    <2>1. Outcomes("query", Alive(slot[t])) = {TRUE}
      BY <1>3, Certain DEF UpdateInfo, Alive
    <2> QED
      BY <2>1, <1>3 DEF UpdateInfo
  <1>4. CASE UpdateApply(t)
    BY <1>4 DEF UpdateApply
  <1>5. CASE UpdateState(t)
    BY <1>5 DEF UpdateState, VMTypeOK, Powers
  <1>6. CASE UpdateCommit(t)
    BY <1>6 DEF UpdateCommit
  <1>7. CASE UpdateDone(t)
    BY <1>7 DEF UpdateDone
  <1> QED
    BY <1>2, <1>3, <1>4, <1>5, <1>6, <1>7 DEF UpdateStep

LEMMA PropertyStand ==
    ASSUME Sequential, SInv, NEW t \in Workers, PropertyStep(t)
    PROVE  background' = {} /\ Stands(t)'
  <1> USE DEF Stands, OpenStands, StartStands, CloseStands, ControlStands, UpdateStands,
              Closed, Opened, Started, Paused, Unbuilt, Live, Whole, Bare, ContextBody, CloseBody,
              At, Goto, End, Locals, vm, session
  <1>1. Stands(t) /\ background = {} /\ ThreadsTypeOK
    BY DEF SInv, Types, TypeOK
  <1> USE <1>1 DEF ThreadsTypeOK
  <1>2. CASE PropertyCheck(t)
    BY <1>2 DEF PropertyCheck
  <1>3. CASE PropertyExec(t)
    BY <1>3 DEF PropertyExec
  <1> QED
    BY <1>2, <1>3 DEF PropertyStep

LEMMA CallStand ==
    ASSUME Sequential, SInv, NEW t \in Workers, NEW o \in Ops, Call(t, o)
    PROVE  background' = {} /\ Stands(t)'
  <1> USE DEF Stands, OpenStands, StartStands, CloseStands, ControlStands, UpdateStands,
              Closed, Opened, Started, Paused, Unbuilt, Live, Whole, Bare, ContextBody, CloseBody,
              At, Goto, vm
  <1>1. Stands(t) /\ background = {} /\ ThreadsTypeOK
    BY DEF SInv, Types, TypeOK
  <1> USE <1>1 DEF ThreadsTypeOK
  <1>2. o \in AllOps
    BY ConstantsAssumption
  <1>3. /\ pc[t] = "idle" /\ op'[t] = o /\ pc'[t] = Entry(o) /\ Accepts(o)
        /\ UNCHANGED <<state, uuid, vm, background, slot, needs>>
    BY DEF Call
  <1>4. CASE o \in ControlOps
    <2>1. pc'[t] = "control.check" /\ state = IF o = "resume" THEN "PAUSED" ELSE "STARTED"
      BY <1>3, <1>4 DEF Entry, Accepts, ControlOps
    <2> QED
      BY <1>3, <1>4, <2>1 DEF ControlOps
  <1>5. CASE o \notin ControlOps
    <2>1. o \in {"open", "start", "close", "update", "setProperty"}
      BY <1>2, <1>5 DEF AllOps, ControlOps
    <2>2. CASE o = "open"
      BY <1>3, <2>2 DEF Entry, Accepts
    <2>3. CASE o = "start"
      BY <1>3, <2>3 DEF Entry, Accepts
    <2>4. CASE o = "close"
      BY <1>3, <2>4 DEF Entry, Accepts
    <2>5. CASE o = "update"
      BY <1>3, <2>5 DEF Entry, Accepts
    <2>6. CASE o = "setProperty"
      BY <1>3, <2>6 DEF Entry, Accepts
    <2> QED
      BY <2>1, <2>2, <2>3, <2>4, <2>5, <2>6
  <1> QED
    BY <1>4, <1>5

-----------------------------------------------------------------------------

\* What a step of another call than update() or setProperty() does not touch.
LEMMA OthersQuiet ==
    ASSUME Types, NEW t \in Workers,
           (OpenStep(t) /\ ~OpenProps(t)) \/ StartStep(t) \/ CloseStep(t) \/ ControlStep(t)
    PROVE  UNCHANGED <<editable, unsynced>> /\ pc[t] \notin UpdateBody /\ pc'[t] \notin UpdateBody
  <1> USE DEF At, session, UpdateBody
  <1>1. CASE OpenStep(t) /\ ~OpenProps(t)
    <2>1. UNCHANGED <<editable, unsynced, updating>> /\ pc[t] \notin UpdateBody
      BY <1>1 DEF OpenStep, OpenCheck, OpenClaim, OpenList, OpenCreate, OpenControllers, OpenModify, OpenInfo,
                  OpenScratch, OpenBoot, OpenAdditions, OpenAttach, OpenDone
    <2> QED
      BY <1>1, <2>1, OpenMoves DEF Moves, UpdaterMoves
  <1>2. CASE StartStep(t)
    <2>1. UNCHANGED <<editable, unsynced, updating>> /\ pc[t] \notin UpdateBody
      BY <1>2 DEF StartStep, StartLock, StartCheck, StartClaim, StartInfo, StartDetach, StartBuild,
                  StartAttach, StartBoot, StartDone, StartRelease
    <2> QED
      BY <1>2, <2>1, StartMoves DEF Moves, UpdaterMoves
  <1>3. CASE CloseStep(t)
    <2>1. UNCHANGED <<editable, unsynced, updating>> /\ pc[t] \notin UpdateBody
      BY <1>3 DEF CloseStep, CloseCheck, CloseLock, ClosePoweroff, CloseInfo, CloseDiscard, CloseContext,
                  CloseScratch, CloseRelease, CloseUnregister, CloseDone
    <2> QED
      BY <1>3, <2>1, CloseMoves DEF Moves, UpdaterMoves
  <1>4. CASE ControlStep(t)
    <2>1. UNCHANGED <<editable, unsynced, updating>> /\ pc[t] \notin UpdateBody
      BY <1>4 DEF ControlStep, ControlCheck, ControlExec, ControlDone
    <2> QED
      BY <1>4, <2>1, ControlsMove DEF Moves, UpdaterMoves
  <1> QED
    BY <1>1, <1>2, <1>3, <1>4

\* Pending properties are written or kept by every step but a refresh's last.
LEMMA PendingStep ==
    ASSUME Sequential, SInv, NEW t \in Workers, WorkerStep(t) \/ \E o \in Ops : Call(t, o)
    PROVE  /\ Pending(t)'
           /\ \A p \in unsynced : p \in unsynced' \/ p \in stored' \/ PendingDropped(t)
  <1> USE DEF Pending, At, Goto, End, UpdateEnd, Locals, vm, session
  <1>1. Stands(t) /\ Pending(t) /\ Types /\ ThreadsTypeOK /\ VMTypeOK /\ SessionTypeOK
    BY DEF SInv, Types, TypeOK
  <1> USE <1>1 DEF ThreadsTypeOK
  <1>2. CASE (OpenStep(t) /\ ~OpenProps(t)) \/ StartStep(t) \/ CloseStep(t) \/ ControlStep(t)
    BY <1>2, OthersQuiet DEF UpdateBody
  <1>3. CASE OpenProps(t)
    BY <1>3 DEF OpenProps
  <1>4. CASE PropertyStep(t)
    BY <1>4 DEF PropertyStep, PropertyCheck, PropertyExec
  <1>5. CASE UpdateCheck(t) \/ UpdateInfo(t) \/ UpdateDone(t)
    BY <1>5 DEF UpdateCheck, UpdateInfo, UpdateDone
  <1>6. CASE UpdateApply(t)
    BY <1>6 DEF UpdateApply
  <1>7. CASE UpdateState(t)
    BY <1>7 DEF UpdateState
  <1>8. CASE UpdateCommit(t)
    <2>1. Pending(t)'
      BY <1>8 DEF UpdateCommit
    <2>2. CASE needs[t] \cap {"paused", "saved"} # {}
      BY <2>1, <2>2, <1>8 DEF UpdateCommit, PendingDropped
    <2>3. CASE editable /\ ~was[t] /\ power \in {"off", "running"}
      <3>1. pc[t] = "update.commit"
        BY <1>8 DEF UpdateCommit
      <3>4. Whole
        BY <3>1 DEF Stands, UpdateStands
      <3>5. Writable(uuid)
        BY <2>3, <3>4 DEF Writable, Alive, Whole
      <3>2. Outcomes("guestproperty", Writable(uuid)) = {TRUE}
        BY <3>5, Certain DEF Writable, Alive
      <3>3. stored' = stored \cup unsynced
        BY <2>3, <3>2, <1>8 DEF UpdateCommit
      <3> QED
        BY <2>1, <3>3
    <2>4. CASE was[t]
      BY <2>1, <2>4, <1>8 DEF UpdateCommit
    <2>5. needs[t] \cap {"paused", "saved"} = {} => editable /\ power \in {"off", "running"}
      BY <1>8 DEF UpdateCommit, VMTypeOK, Powers, Stands, UpdateStands
    <2> QED
      BY <2>2, <2>3, <2>4, <2>5
  <1>9. CASE \E o \in Ops : Call(t, o)
    BY <1>9 DEF Call, Entry
  <1> QED
    BY <1>2, <1>3, <1>4, <1>5, <1>6, <1>7, <1>8, <1>9 DEF WorkerStep, UpdateStep

LEMMA InitSInv == Sequential /\ Init => SInv
  <1> SUFFICES ASSUME Sequential, Init PROVE SInv
    OBVIOUS
  <1>1. Types
    BY InitIInv DEF IInv
  <1>2. background = {} /\ \A t \in Workers : Stands(t) /\ Pending(t)
    BY DEF Init, Stands, Pending, OpenStands, StartStands, CloseStands, ControlStands, UpdateStands,
           Closed, ContextBody, CloseBody
  <1> QED
    BY <1>1, <1>2 DEF SInv

LEMMA NextSInv == Sequential /\ IInv /\ SInv /\ [Next]_vars => SInv'
  <1> SUFFICES ASSUME Sequential, IInv, SInv, [Next]_vars PROVE SInv'
    OBVIOUS
  <1>1. Types'
    BY NextIInv DEF IInv
  <1>2. PICK w : Workers = {w}
    BY DEF Sequential
  <1>3. CASE WorkerStep(w)
    <2>1. background' = {} /\ Stands(w)'
      BY <1>2, <1>3, OpenStand, StartStand, CloseStand, ControlStand, UpdateStand, PropertyStand DEF WorkerStep
    <2> QED
      BY <1>1, <1>2, <1>3, <2>1, PendingStep DEF SInv
  <1>4. CASE \E o \in Ops : Call(w, o)
    BY <1>1, <1>2, <1>4, CallStand, PendingStep DEF SInv
  <1>5. CASE UNCHANGED vars
    BY <1>1, <1>5 DEF SInv, vars, session, vm, threads, Stands, Pending, OpenStands, StartStands, CloseStands,
           ControlStands, UpdateStands, Closed, Opened, Started, Paused, Unbuilt, Live, Whole, Bare
  <1> QED
    BY <1>2, <1>3, <1>4, <1>5 DEF Next, SInv, Sequential, OutsideDelete

\* While calls do not overlap, nobody acts behind the plugin, and only the
\* building of the medium and startvm fail: between calls the state of the
\* session says what VirtualBox holds (src/Virtualbox.cpp, all of VBoxSession).
THEOREM QuietAgrees == Sequential /\ Spec => []QuietAgreement
  <1> SUFFICES ASSUME Sequential PROVE Spec => []QuietAgreement
    OBVIOUS
  <1>1. SInv => QuietAgreement
    <2> SUFFICES ASSUME SInv, Quiet PROVE QuietAgreement
      BY DEF QuietAgreement
    <2>1. Closed \/ Live \/ Unbuilt
      BY DEF Sequential, SInv, Quiet, Stands
    <2> QED
      BY <2>1 DEF QuietAgreement, Closed, Live, Opened, Started, Paused, Unbuilt, Whole
  <1>2. Init => SInv
    BY InitSInv
  <1>3. IInv /\ SInv /\ [Next]_vars => SInv'
    BY NextSInv
  <1> QED
    BY <1>1, <1>2, <1>3, Invariant, PTL DEF Spec

\* Under the same circumstances a pending property is dropped only by a refresh
\* that finds the VM paused or saved; every other one is kept, or written
\* (setProperty and updateSession of VBoxSession).
THEOREM PendingIsKept == Sequential /\ Spec => PendingNotDropped
  <1> SUFFICES ASSUME Sequential PROVE Spec => PendingNotDropped
    OBVIOUS
  <1>1. SInv /\ [Next]_vars =>
           [\A p \in unsynced : \/ p \in unsynced' \/ p \in stored'
                                \/ \E t \in Workers : PendingDropped(t)]_vars
    <2> SUFFICES ASSUME SInv, Next
                 PROVE  \A p \in unsynced : \/ p \in unsynced' \/ p \in stored'
                                            \/ \E t \in Workers : PendingDropped(t)
      OBVIOUS
    <2>1. CASE \E t \in Workers : WorkerStep(t) \/ \E o \in Ops : Call(t, o)
      BY <2>1, PendingStep
    <2> QED
      BY <2>1 DEF Next, SInv, Sequential, OutsideDelete
  <1>2. Init => SInv
    BY InitSInv
  <1>3. IInv /\ SInv /\ [Next]_vars => SInv'
    BY NextSInv
  <1> QED
    BY <1>1, <1>2, <1>3, Invariant, PTL DEF Spec, PendingNotDropped
-----------------------------------------------------------------------------
(* FollowsLifecycle, in the same circumstances.  Besides what every point  *)
(* of a call knows of the session and the machine, the steps need whose    *)
(* call it is, and what the page has been told there.                      *)

Doing(t) ==
    /\ pc[t] = "idle" <=> op[t] = "idle"
    /\ pc[t] \in OpenBody \cup {"open.check", "open.claim"} => op[t] = "open"
    /\ pc[t] \in StartBody \cup {"start.lock", "start.check", "start.claim", "start.release"} =>
          op[t] = "start"
    /\ pc[t] \in UpdateBody => op[t] = "update"
    /\ pc[t] \in {"property.check", "property.exec"} => op[t] = "setProperty"
    /\ pc[t] \in OpenBody => state = "OPPENING"
    /\ pc[t] \in StartBody => state = "STARTING"

LInv == SInv /\ \A t \in Workers : Doing(t)

-----------------------------------------------------------------------------

LEMMA DoingStep ==
    ASSUME Sequential, SInv, SInv', NEW t \in Workers, Doing(t),
           WorkerStep(t) \/ \E o \in Ops : Call(t, o)
    PROVE  Doing(t)'
  <1> USE DEF Doing, At, Goto, End, Locals, session
  <1>1. ThreadsTypeOK /\ (pc[t] \in ControlBody => op[t] \in ControlOps)
    BY DEF SInv, Types, TypeOK, ControlsOnly
  <1>2. Stands(t) /\ Stands(t)'
    BY DEF SInv
  <1> USE <1>1 DEF ThreadsTypeOK
  <1>3. CASE OpenStep(t)
    <2> USE DEF OpenBody, StartBody, UpdateBody
    <2>1. CASE OpenCheck(t) \/ OpenClaim(t)
      BY <2>1 DEF OpenCheck, OpenClaim
    <2>2. CASE OpenList(t) \/ OpenCreate(t)
      BY <2>2 DEF OpenList, OpenCreate, OpenFail
    <2>3. CASE OpenControllers(t) \/ OpenModify(t) \/ OpenInfo(t)
      BY <2>3 DEF OpenControllers, OpenModify, OpenInfo, OpenFail
    <2>4. CASE OpenScratch(t) \/ OpenBoot(t) \/ OpenAdditions(t)
      BY <2>4 DEF OpenScratch, OpenBoot, OpenAdditions, OpenAttach, OpenFail
    <2>5. CASE OpenProps(t) \/ OpenDone(t)
      BY <2>5 DEF OpenProps, OpenDone
    <2> QED
      BY <1>3, <2>1, <2>2, <2>3, <2>4, <2>5 DEF OpenStep
  <1>4. CASE StartStep(t)
    <2> USE DEF OpenBody, StartBody, UpdateBody
    <2>1. CASE StartLock(t) \/ StartCheck(t) \/ StartClaim(t) \/ StartInfo(t)
      BY <2>1 DEF StartLock, StartCheck, StartClaim, StartInfo
    <2>2. CASE StartDetach(t) \/ StartBuild(t) \/ StartAttach(t) \/ StartBoot(t)
      BY <2>2 DEF StartDetach, StartBuild, StartAttach, StartBoot, StartFail
    <2>3. CASE StartDone(t) \/ StartRelease(t)
      BY <2>3 DEF StartDone, StartRelease
    <2> QED
      BY <1>4, <2>1, <2>2, <2>3 DEF StartStep
  <1>5. CASE CloseStep(t)
    <2> USE DEF OpenBody, StartBody, UpdateBody
    <2>1. CASE CloseCheck(t) \/ CloseLock(t) \/ ClosePoweroff(t) \/ CloseInfo(t)
      BY <2>1 DEF CloseCheck, CloseLock, ClosePoweroff, CloseInfo
    <2>2. CASE CloseDiscard(t) \/ CloseContext(t) \/ CloseScratch(t)
      BY <2>2 DEF CloseDiscard, CloseContext, CloseScratch, CloseRelease
    <2>3. CASE CloseUnregister(t) \/ CloseDone(t)
      BY <2>3 DEF CloseUnregister, CloseDone
    <2> QED
      BY <1>5, <2>1, <2>2, <2>3 DEF CloseStep
  <1>6. CASE ControlStep(t)
    BY <1>6 DEF ControlStep, ControlCheck, ControlExec, ControlDone, ControlBody, ControlOps,
                OpenBody, StartBody, UpdateBody
  <1>7. CASE UpdateStep(t)
    BY <1>7 DEF UpdateStep, UpdateCheck, UpdateInfo, UpdateApply, UpdateState, UpdateCommit, UpdateDone,
                UpdateEnd, OpenBody, StartBody, UpdateBody
  <1>8. CASE PropertyStep(t)
    BY <1>8 DEF PropertyStep, PropertyCheck, PropertyExec, OpenBody, StartBody, UpdateBody
  <1>9. CASE \E o \in Ops : Call(t, o)
    <2>1. PICK o \in Ops : Call(t, o)
      BY <1>9
    <2>2. o \in AllOps
      BY ConstantsAssumption
    <2> QED
      BY <2>1, <2>2 DEF Call, Entry, AllOps, OpenBody, StartBody, UpdateBody
  <1> QED
    BY <1>3, <1>4, <1>5, <1>6, <1>7, <1>8, <1>9 DEF WorkerStep

LEMMA DoingAlways ==
    /\ Sequential /\ Init => LInv
    /\ Sequential /\ IInv /\ LInv /\ [Next]_vars => LInv'
  <1>1. Sequential /\ Init => LInv
    BY InitSInv DEF LInv, Init, Doing, OpenBody, StartBody, UpdateBody
  <1>2. ASSUME Sequential, IInv, LInv, [Next]_vars  PROVE LInv'
    <2>1. SInv /\ SInv'
      BY <1>2, NextSInv DEF LInv
    <2>2. CASE \E t \in Workers : WorkerStep(t) \/ \E o \in Ops : Call(t, o)
      BY <1>2, <2>1, <2>2, DoingStep DEF LInv, Sequential
    <2>3. CASE UNCHANGED vars
      BY <1>2, <2>1, <2>3 DEF LInv, Doing, vars, session, threads
    <2> QED
      BY <1>2, <2>1, <2>2, <2>3 DEF Next, SInv, Sequential, OutsideDelete
  <1> QED
    BY <1>1, <1>2

-----------------------------------------------------------------------------

\* The life cycle takes a step, or nothing of it moves.
LifeStep == Life!Next \/ UNCHANGED <<state, MachineOf, CallsOf>>

\* The calls of one worker are its own.
LEMMA OwnCall ==
    ASSUME NEW t, Workers = {t}
    PROVE  /\ op[t] = "idle" => CallsOf = {}
           /\ op[t] # "idle" => CallsOf = {op[t]}
           /\ op'[t] = "idle" => CallsOf' = {}
           /\ op'[t] # "idle" => CallsOf' = {op'[t]}
  BY DEF CallsOf

LEMMA Stays ==
    ASSUME UNCHANGED <<state, registered, power, op>>
    PROVE  LifeStep
  BY DEF LifeStep, MachineOf, CallsOf

LEMMA OpenLife ==
    ASSUME Sequential, LInv, LInv', NEW t, Workers = {t}, OpenStep(t)
    PROVE  LifeStep
  <1> USE DEF At, Goto, End, Locals, vm, session
  <1>1. /\ Stands(t) /\ Doing(t) /\ Stands(t)' /\ Doing(t)' /\ ThreadsTypeOK
        /\ pc[t] \in {"open.check", "open.claim"} \cup OpenBody /\ op[t] = "open"
    <2>1. Stands(t) /\ Doing(t) /\ Stands(t)' /\ Doing(t)' /\ ThreadsTypeOK
      BY DEF LInv, SInv, Types, TypeOK
    <2>2. pc[t] \in {"open.check", "open.claim"} \cup OpenBody
      BY DEF OpenStep, OpenCheck, OpenClaim, OpenList, OpenCreate, OpenControllers, OpenModify, OpenInfo,
             OpenScratch, OpenBoot, OpenAdditions, OpenAttach, OpenProps, OpenDone, OpenBody
    <2> QED
      BY <2>1, <2>2 DEF Doing
  <1>2. CallsOf = {"open"}
    BY <1>1, OwnCall
  <1>3. pc'[t] = "close.check" => op'[t] = "close"
    BY <1>1 DEF Stands, CloseStands
  <1> USE DEF ThreadsTypeOK
  <1>4. CASE OpenClaim(t)
    <2>1. state = "CLOSED" /\ MachineOf = "none" /\ state' = "OPPENING"
          /\ UNCHANGED <<registered, power, op>>
      BY <1>1, <1>4 DEF OpenClaim, Stands, OpenStands, Closed, MachineOf
    <2>2. UNCHANGED <<MachineOf, CallsOf>>
      BY <2>1 DEF MachineOf, CallsOf
    <2>3. Life!Open
      BY <1>2, <2>1, <2>2 DEF Life!Open
    <2> QED
      BY <2>3 DEF LifeStep, Life!Next
  <1>5. CASE OpenCreate(t)
    <2>1. ~registered /\ state = "OPPENING"
      BY <1>1, <1>5 DEF OpenCreate, Stands, OpenStands, Doing, OpenBody
    <2>2. Outcomes("create", ~registered) = {TRUE}
      BY <2>1, Certain
    <2>3. registered' /\ power' = "off" /\ UNCHANGED <<state, op>>
      BY <1>5, <2>2 DEF OpenCreate, Create
    <2>4. MachineOf = "none" /\ MachineOf' = "off" /\ UNCHANGED CallsOf
      BY <2>1, <2>3 DEF MachineOf, CallsOf
    <2>5. Life!Open
      BY <1>2, <2>1, <2>3, <2>4 DEF Life!Open
    <2> QED
      BY <2>5 DEF LifeStep, Life!Next
  <1>6. CASE OpenDone(t)
    <2>1. state = "OPPENING" /\ MachineOf = "off"
      BY <1>1, <1>6 DEF OpenDone, Stands, OpenStands, Doing, OpenBody, Whole, MachineOf
    <2>2. state' = "OPEN" /\ UNCHANGED <<registered, power>> /\ op'[t] = "idle"
      BY <1>1, <1>6 DEF OpenDone
    <2>3. UNCHANGED MachineOf /\ CallsOf' = {}
      BY <2>2, OwnCall DEF MachineOf
    <2>4. Life!Done("open")
      BY <1>2, <2>1, <2>2, <2>3 DEF Life!Done, Life!Name
    <2> QED
      BY <2>1, <2>4 DEF LifeStep, Life!Next, Life!Open
  <1>7. CASE OpenCheck(t) \/ OpenInfo(t)
    BY <1>7, Stays DEF OpenCheck, OpenInfo
  <1>8. CASE OpenList(t) \/ OpenControllers(t) \/ OpenModify(t)
    <2>1. UNCHANGED <<registered, power, op>>
      BY <1>8 DEF OpenList, OpenControllers, OpenModify
    <2>2. UNCHANGED state
      BY <1>1, <1>3, <1>8, <2>1 DEF OpenList, OpenControllers, OpenModify, OpenFail
    <2> QED
      BY <2>1, <2>2, Stays
  <1>9. CASE OpenScratch(t) \/ OpenBoot(t) \/ OpenAdditions(t)
    <2>1. UNCHANGED <<registered, power, op>>
      BY <1>9 DEF OpenScratch, OpenBoot, OpenAdditions, OpenAttach
    <2>2. UNCHANGED state
      BY <1>1, <1>3, <1>9, <2>1 DEF OpenScratch, OpenBoot, OpenAdditions, OpenAttach, OpenFail
    <2> QED
      BY <2>1, <2>2, Stays
  <1>10. CASE OpenProps(t)
    BY <1>10, Stays DEF OpenProps
  <1> QED
    BY <1>4, <1>5, <1>6, <1>7, <1>8, <1>9, <1>10 DEF OpenStep

LEMMA StartLife ==
    ASSUME Sequential, LInv, LInv', NEW t, Workers = {t}, StartStep(t)
    PROVE  LifeStep
  <1> USE DEF At, Goto, End, Locals, vm, session
  <1>1. /\ Stands(t) /\ Doing(t) /\ Stands(t)' /\ Doing(t)' /\ ThreadsTypeOK /\ op[t] = "start"
        /\ pc[t] \in StartBody => state = "STARTING"
    <2>1. Stands(t) /\ Doing(t) /\ Stands(t)' /\ Doing(t)' /\ ThreadsTypeOK
      BY DEF LInv, SInv, Types, TypeOK
    <2>2. pc[t] \in {"start.lock", "start.check", "start.claim", "start.release"} \cup StartBody
      BY DEF StartStep, StartLock, StartCheck, StartClaim, StartInfo, StartDetach, StartBuild,
             StartAttach, StartBoot, StartDone, StartRelease, StartBody
    <2> QED
      BY <2>1, <2>2 DEF Doing
  <1>2. CallsOf = {"start"}
    BY <1>1, OwnCall
  <1> USE DEF ThreadsTypeOK
  <1>3. CASE StartLock(t) \/ StartInfo(t)
    BY <1>3, Stays DEF StartLock, StartInfo
  <1>4. CASE StartCheck(t)
    <2>1. state = "OPEN"
      BY <1>1, <1>4 DEF StartCheck, Stands, StartStands, Opened
    <2> QED
      BY <1>4, <2>1, Stays DEF StartCheck
  <1>5. CASE StartClaim(t)
    <2>1. state = "OPEN" /\ MachineOf \in {"off", "saved"} /\ state' = "STARTING"
          /\ UNCHANGED <<registered, power, op>>
      BY <1>1, <1>5 DEF StartClaim, Stands, StartStands, Opened, Whole, MachineOf
    <2>2. UNCHANGED <<MachineOf, CallsOf>>
      BY <2>1 DEF MachineOf, CallsOf
    <2>3. Life!Start
      BY <1>2, <2>1, <2>2 DEF Life!Start
    <2> QED
      BY <2>3 DEF LifeStep, Life!Next
  <1>6. CASE StartDetach(t)
    <2>1. Attachable(uuid)
      BY <1>1, <1>6 DEF StartDetach, Attachable, Alive, Stands, StartStands, ContextBody, Whole
    <2>2. UNCHANGED <<registered, power>>
      BY <1>6 DEF StartDetach
    <2>3. \E detached \in Outcomes("detach", Attachable(uuid)) :
             \E closed \in Outcomes("detach", detached) :
               IF closed THEN Goto(t, "start.build") /\ UNCHANGED <<state, updateLock, Locals>>
                         ELSE StartFail(t)
      <3> HIDE DEF Goto, Locals
      <3> QED
        BY <1>6 DEF StartDetach
    <2>4. UNCHANGED <<state, op>>
      <3>1. PICK detached \in Outcomes("detach", Attachable(uuid)) :
             \E closed \in Outcomes("detach", detached) :
               IF closed THEN Goto(t, "start.build") /\ UNCHANGED <<state, updateLock, Locals>>
                         ELSE StartFail(t)
        BY <2>3
      <3>2. PICK closed \in Outcomes("detach", detached) :
               IF closed THEN Goto(t, "start.build") /\ UNCHANGED <<state, updateLock, Locals>>
                         ELSE StartFail(t)
        BY <3>1
      <3>3. closed = TRUE
        BY <2>1, Released
      <3> QED
        BY <3>2, <3>3
    <2> QED
      BY <2>2, <2>4, Stays
  <1>7. CASE StartBuild(t)
    <2>1. CASE Goto(t, "start.attach") /\ UNCHANGED <<updateLock, Locals>>
      BY <1>7, <2>1, Stays DEF StartBuild
    <2>2. CASE "build" \in Faults /\ updateLock' = FALSE /\ End(t)
      <3>1. state = "STARTING" /\ MachineOf = "off"
        BY <1>1, <1>7 DEF StartBuild, StartBody, Stands, StartStands, ContextBody, Whole, MachineOf
      <3>2. UNCHANGED <<state, registered, power>> /\ op'[t] = "idle"
        BY <1>1, <1>7, <2>2 DEF StartBuild
      <3>3. UNCHANGED <<state, MachineOf>> /\ CallsOf' = {}
        BY <3>2, OwnCall DEF MachineOf
      <3>4. Life!StartFails
        BY <1>2, <2>2, <3>1, <3>3 DEF Life!StartFails
      <3> QED
        BY <3>4 DEF LifeStep, Life!Next
    <2> QED
      BY <1>7, <2>1, <2>2 DEF StartBuild
  <1>8. CASE StartAttach(t)
    <2>1. Attachable(uuid)
      BY <1>1, <1>8 DEF StartAttach, Attachable, Alive, Stands, StartStands, ContextBody, Whole
    <2>2. Outcomes("attach", Attachable(uuid)) = {TRUE}
      BY <2>1, Certain
    <2>3. UNCHANGED <<state, registered, power, op>>
      BY <1>8, <2>2 DEF StartAttach
    <2> QED
      BY <2>3, Stays
  <1>9. CASE StartBoot(t)
    <2>1. state = "STARTING" /\ MachineOf \in {"off", "saved"} /\ registered
      BY <1>1, <1>9 DEF StartBoot, StartBody, Stands, StartStands, Whole, MachineOf
    <2>2. registered' = registered /\
          \/ power' = "running" /\ UNCHANGED <<state, op>>
          \/ "startvm" \in Faults /\ state' = "OPEN" /\ op'[t] = "idle" /\ UNCHANGED power
      BY <1>1, <1>9 DEF StartBoot, StartFail, Outcomes, Stands, StartStands, Whole, Alive
    <2>3. CASE power' = "running" /\ UNCHANGED <<state, op>>
      <3>1. MachineOf' = "running" /\ UNCHANGED CallsOf
        BY <2>1, <2>2, <2>3 DEF MachineOf, CallsOf
      <3>2. Life!Start
        BY <1>2, <2>1, <2>3, <3>1 DEF Life!Start
      <3> QED
        BY <3>2 DEF LifeStep, Life!Next
    <2>4. CASE "startvm" \in Faults /\ state' = "OPEN" /\ op'[t] = "idle" /\ UNCHANGED power
      <3>1. UNCHANGED MachineOf /\ CallsOf' = {}
        BY <2>2, <2>4, OwnCall DEF MachineOf
      <3>2. Life!Done("start")
        BY <1>2, <2>1, <2>4, <3>1 DEF Life!Done, Life!Name
      <3> QED
        BY <2>1, <2>4, <3>2 DEF LifeStep, Life!Next, Life!StartFails
    <2> QED
      BY <2>2, <2>3, <2>4
  <1>10. CASE StartDone(t)
    <2>1. state = "STARTING" /\ MachineOf = "running" /\ state' = "STARTED"
          /\ UNCHANGED <<registered, power, op>>
      BY <1>1, <1>10 DEF StartDone, StartBody, Stands, StartStands, Whole, MachineOf
    <2>2. UNCHANGED <<MachineOf, CallsOf>>
      BY <2>1 DEF MachineOf, CallsOf
    <2>3. Life!Start
      BY <1>2, <2>1, <2>2 DEF Life!Start
    <2> QED
      BY <2>3 DEF LifeStep, Life!Next
  <1>11. CASE StartRelease(t)
    <2>1. state = "STARTED" /\ MachineOf = "running"
      BY <1>1, <1>11 DEF StartRelease, Stands, StartStands, Started, Whole, MachineOf
    <2>2. UNCHANGED <<state, registered, power>> /\ op'[t] = "idle"
      BY <1>1, <1>11 DEF StartRelease
    <2>3. UNCHANGED MachineOf /\ CallsOf' = {}
      BY <2>2, OwnCall DEF MachineOf
    <2>4. Life!Done("start")
      BY <1>2, <2>1, <2>2, <2>3 DEF Life!Done, Life!Name
    <2> QED
      BY <2>1, <2>4 DEF LifeStep, Life!Next, Life!Start
  <1> QED
    BY <1>3, <1>4, <1>5, <1>6, <1>7, <1>8, <1>9, <1>10, <1>11 DEF StartStep

\* A close that releases a medium goes on with the next.
LEMMA ReleaseGoes ==
    ASSUME Sequential, NEW t \in Workers, Attachable(uuid), ~Unmonitored(t),
           NEW here, NEW medium, NEW next, CloseRelease(t, here, medium, next)
    PROVE  UNCHANGED <<state, registered, power, op>>
  <1>1. UNCHANGED <<state, registered, power>>
    BY DEF CloseRelease
  <1>2. CASE medium \notin needs[t]
    BY <1>1, <1>2 DEF CloseRelease, Locals
  <1>3. CASE medium \in needs[t]
    <2>1. \E detached \in Outcomes("detach", Attachable(uuid)) :
             \E closed \in Outcomes("detach", detached) :
               IF closed THEN Goto(t, next) /\ UNCHANGED <<updateLock, Locals>>
                         ELSE updateLock' = FALSE /\ End(t)
      BY <1>3 DEF CloseRelease
    <2>2. PICK detached \in Outcomes("detach", Attachable(uuid)) :
             \E closed \in Outcomes("detach", detached) :
               IF closed THEN Goto(t, next) /\ UNCHANGED <<updateLock, Locals>>
                         ELSE updateLock' = FALSE /\ End(t)
      BY <2>1
    <2>3. PICK closed \in Outcomes("detach", detached) :
               IF closed THEN Goto(t, next) /\ UNCHANGED <<updateLock, Locals>>
                         ELSE updateLock' = FALSE /\ End(t)
      BY <2>2
    <2>4. closed = TRUE
      BY Released
    <2> QED
      BY <1>1, <2>3, <2>4 DEF Locals
  <1> QED
    BY <1>2, <1>3

LEMMA CloseLife ==
    ASSUME Sequential, LInv, LInv', NEW t, Workers = {t}, CloseStep(t)
    PROVE  LifeStep
  <1> USE DEF At, Goto, End, Locals, vm, session
  <1>1. /\ Stands(t) /\ Doing(t) /\ Stands(t)' /\ Doing(t)' /\ ThreadsTypeOK /\ op[t] = "close"
    <2>1. Stands(t) /\ Doing(t) /\ Stands(t)' /\ Doing(t)' /\ ThreadsTypeOK
      BY DEF LInv, SInv, Types, TypeOK
    <2>2. pc[t] \in {"close.check", "close.lock"} \cup CloseBody
      BY DEF CloseStep, CloseCheck, CloseLock, ClosePoweroff, CloseInfo, CloseDiscard, CloseContext,
             CloseScratch, CloseRelease, CloseUnregister, CloseDone, CloseBody
    <2> QED
      BY <2>1, <2>2 DEF Stands, CloseStands
  <1>2. CallsOf = {"close"} /\ ~Unmonitored(t)
    BY <1>1, OwnCall DEF Unmonitored
  <1> USE DEF ThreadsTypeOK
  <1>3. CASE CloseCheck(t)
    <2>1. state \in {"OPEN", "STARTED", "PAUSED"}
      BY <1>1, <1>3 DEF CloseCheck, Stands, CloseStands, Live, Opened, Started, Paused
    <2> QED
      BY <1>3, <2>1, Stays DEF CloseCheck
  <1>4. CASE CloseLock(t) \/ CloseInfo(t)
    BY <1>4, Stays DEF CloseLock, CloseInfo
  <1>5. ASSUME registered, UNCHANGED <<state, registered, op>>,
               power \in {"running", "paused", "saved"}, power' = "off"
        PROVE  LifeStep
    <2>1. /\ MachineOf \in {"running", "paused", "saved"} /\ MachineOf' = "off"
          /\ UNCHANGED CallsOf
      BY <1>5 DEF MachineOf, CallsOf
    <2>2. Life!Close
      BY <1>2, <1>5, <2>1 DEF Life!Close
    <2> QED
      BY <2>2 DEF LifeStep, Life!Next
  <1>6. CASE ClosePoweroff(t)
    <2>1. ControlFrom["stop"] = {"running", "paused"}
      BY DEF ControlFrom
    <2>2. Live
      BY <1>1, <1>6 DEF ClosePoweroff, Stands, CloseStands
    <2>3. registered /\ uuid = vmid /\ UNCHANGED <<state, registered, op>>
      BY <1>6, <2>2 DEF ClosePoweroff, Live, Opened, Started, Paused, Whole
    <2>4. CASE power \in {"running", "paused"}
      <3> DEFINE possible == Alive(uuid) /\ power \in {"running", "paused"}
      <3>1. possible
        BY <2>3, <2>4 DEF Alive
      <3>2. Outcomes("control", possible) = {TRUE}
        BY <3>1, Certain
      <3>3. \E ok \in Outcomes("control", possible) : power' = IF ok THEN "off" ELSE power
        BY <1>6, <2>1 DEF ClosePoweroff
      <3>4. power' = "off"
        BY <3>2, <3>3
      <3> QED
        BY <1>5, <2>3, <2>4, <3>4
    <2>5. CASE power \notin {"running", "paused"}
      <3>1. Outcomes("control", Alive(uuid) /\ power \in {"running", "paused"}) = {FALSE}
        BY <2>5, Certain
      <3>2. power' = power
        BY <1>6, <2>1, <3>1 DEF ClosePoweroff
      <3> QED
        BY <2>3, <3>2, Stays
    <2> QED
      BY <2>4, <2>5
  <1>7. CASE CloseDiscard(t)
    <2>1. /\ registered /\ uuid = vmid /\ UNCHANGED registered
          /\ "saved" \in needs[t] <=> power = "saved"
      BY <1>1, <1>7 DEF CloseDiscard, Stands, CloseStands, Whole
    <2>2. CASE power # "saved"
      BY <1>7, <2>1, <2>2, Stays DEF CloseDiscard
    <2>3. CASE power = "saved"
      <3>1. Outcomes("discard", Alive(uuid) /\ power = "saved") = {TRUE}
        BY <2>1, <2>3, Certain DEF Alive
      <3>2. power' = "off" /\ UNCHANGED <<state, op>>
        BY <1>2, <1>7, <2>1, <2>3, <3>1 DEF CloseDiscard
      <3> QED
        BY <1>5, <2>1, <2>3, <3>2
    <2> QED
      BY <2>2, <2>3
  <1>8. CASE CloseContext(t) \/ CloseScratch(t)
    <2>1. Attachable(uuid)
      BY <1>1, <1>8 DEF CloseContext, CloseScratch, CloseRelease, Stands, CloseStands, Bare,
                        Attachable, Alive
    <2>2. UNCHANGED <<state, registered, power, op>>
      <3> HIDE DEF At, Goto, End, Locals, vm, session
      <3> QED
        BY <1>2, <1>8, <2>1, ReleaseGoes DEF CloseContext, CloseScratch
    <2> QED
      BY <2>2, Stays
  <1>9. CASE CloseUnregister(t)
    <2>1. Bare
      BY <1>1, <1>9 DEF CloseUnregister, Stands, CloseStands
    <2>2. Outcomes("unregister", Alive(uuid) /\ power = "off") = {TRUE}
      BY <2>1, Certain DEF Bare, Alive
    <2>3. ~registered' /\ UNCHANGED <<state, op>>
      BY <1>2, <1>9, <2>2 DEF CloseUnregister, Delete
    <2>4. MachineOf = "off" /\ MachineOf' = "none" /\ UNCHANGED CallsOf
      BY <2>1, <2>3 DEF Bare, MachineOf, CallsOf
    <2>5. Life!Close
      BY <1>2, <2>3, <2>4 DEF Life!Close
    <2> QED
      BY <2>5 DEF LifeStep, Life!Next
  <1>10. CASE CloseDone(t)
    <2>1. MachineOf = "none"
      BY <1>1, <1>10 DEF CloseDone, Stands, CloseStands, MachineOf
    <2>2. state' = "CLOSED" /\ UNCHANGED <<registered, power>> /\ op'[t] = "idle"
      BY <1>1, <1>10 DEF CloseDone
    <2>3. UNCHANGED MachineOf /\ CallsOf' = {}
      BY <2>2, OwnCall DEF MachineOf
    <2>4. Life!Done("close")
      BY <1>2, <2>1, <2>2, <2>3 DEF Life!Done, Life!Name
    <2> QED
      BY <2>1, <2>4 DEF LifeStep, Life!Next, Life!Close
  <1> QED
    BY <1>3, <1>4, <1>6, <1>7, <1>8, <1>9, <1>10 DEF CloseStep

LEMMA ControlLife ==
    ASSUME Sequential, LInv, LInv', NEW t, Workers = {t}, ControlStep(t)
    PROVE  LifeStep
  <1> USE DEF At, Goto, End, Locals, vm, session
  <1>1. /\ Stands(t) /\ Doing(t) /\ Stands(t)' /\ ThreadsTypeOK /\ op[t] \in ControlOps
    <2>1. Stands(t) /\ Doing(t) /\ Stands(t)' /\ ThreadsTypeOK /\ ControlsOnly
      BY DEF LInv, SInv, Types, TypeOK
    <2>2. pc[t] \in ControlBody
      BY DEF ControlStep, ControlCheck, ControlExec, ControlDone, ControlBody
    <2> QED
      BY <2>1, <2>2 DEF ControlsOnly
  <1>2. CallsOf = {op[t]} /\ op[t] \in DOMAIN Life!Controls
    BY <1>1, OwnCall DEF ControlOps, Life!Controls
  <1>3. ASSUME Life!Control(op[t])  PROVE LifeStep
    BY <1>2, <1>3 DEF LifeStep, Life!Next
  <1> USE DEF ThreadsTypeOK
  <1>4. CASE ControlCheck(t)
    <2>1. state = IF op[t] = "resume" THEN "PAUSED" ELSE "STARTED"
      BY <1>1, <1>4 DEF ControlCheck, Stands, ControlStands, Paused, Started
    <2> QED
      BY <1>4, <2>1, Stays DEF ControlCheck
  <1>5. CASE ControlExec(t)
    <2>1. IF op[t] = "resume" THEN Paused ELSE Started
      BY <1>1, <1>5 DEF ControlExec, Stands, ControlStands
    <2>2. /\ registered /\ uuid = vmid /\ power \in ControlFrom[op[t]]
          /\ state = Life!Controls[op[t]].from /\ state = Life!Name[MachineOf]
      BY <1>1, <2>1 DEF ControlOps, Paused, Started, Whole, ControlFrom, Life!Controls, Life!Name,
                        MachineOf
    <2>3. Outcomes("control", Alive(uuid) /\ power \in ControlFrom[op[t]]) = {TRUE}
      BY <2>2, Certain DEF Alive
    <2>4. power' = ControlTo[op[t]] /\ UNCHANGED <<state, registered, op>>
      BY <1>5, <2>3 DEF ControlExec
    <2>5. MachineOf' = Life!Controls[op[t]].to /\ UNCHANGED CallsOf
      BY <1>1, <2>2, <2>4 DEF MachineOf, CallsOf, ControlOps, ControlTo, Life!Controls
    <2>6. Life!Control(op[t])
      BY <1>2, <2>2, <2>4, <2>5 DEF Life!Control
    <2> QED
      BY <1>3, <2>6
  <1>6. CASE ControlDone(t)
    <2>1. /\ registered /\ power = ControlTo[op[t]] /\ (op[t] = "reset" => state = "STARTED")
      BY <1>1, <1>6 DEF ControlDone, Stands, ControlStands, Whole
    <2>2. /\ op'[t] = "idle" /\ UNCHANGED <<registered, power>>
          /\ state' = CASE op[t] = "pause"               -> "PAUSED"
                        [] op[t] = "resume"              -> "STARTED"
                        [] op[t] \in {"stop", "hibernate"} -> "OPEN"
                        [] OTHER                         -> state
      BY <1>1, <1>6 DEF ControlDone
    <2>3. MachineOf = Life!Controls[op[t]].to
      BY <1>1, <2>1 DEF MachineOf, ControlOps, ControlTo, Life!Controls
    <2>4. state' = Life!Name[MachineOf]
      BY <1>1, <2>1, <2>2 DEF MachineOf, ControlOps, ControlTo, Life!Name
    <2>5. UNCHANGED MachineOf /\ CallsOf' = {}
      BY <2>2, OwnCall DEF MachineOf
    <2>6. Life!Control(op[t])
      BY <1>2, <2>3, <2>4, <2>5 DEF Life!Control, Life!Done
    <2> QED
      BY <1>3, <2>6
  <1> QED
    BY <1>4, <1>5, <1>6 DEF ControlStep

LEMMA UpdateLife ==
    ASSUME Sequential, LInv, LInv', NEW t, Workers = {t}, UpdateStep(t) \/ PropertyStep(t)
    PROVE  LifeStep
  <1> USE DEF At, Goto, End, UpdateEnd, Locals, vm, session
  <1>1. /\ Stands(t) /\ Doing(t) /\ Stands(t)' /\ ThreadsTypeOK /\ VMTypeOK
        /\ op[t] = IF UpdateStep(t) THEN "update" ELSE "setProperty"
    <2>1. Stands(t) /\ Doing(t) /\ Stands(t)' /\ ThreadsTypeOK /\ VMTypeOK
      BY DEF LInv, SInv, Types, TypeOK
    <2>2. UpdateStep(t) => pc[t] \in UpdateBody
      BY DEF UpdateStep, UpdateCheck, UpdateInfo, UpdateApply, UpdateState, UpdateCommit, UpdateDone, UpdateBody
    <2>3. PropertyStep(t) => pc[t] \in {"property.check", "property.exec"}
      BY DEF PropertyStep, PropertyCheck, PropertyExec
    <2> QED
      BY <2>1, <2>2, <2>3 DEF Doing
  <1>2. CallsOf = {op[t]}
    BY <1>1, OwnCall
  <1> USE DEF ThreadsTypeOK
  \* The end of either call.
  <1>3. ASSUME UNCHANGED <<state, registered, power>>, op'[t] = "idle", Closed \/ Live \/ Unbuilt
        PROVE  LifeStep
    <2>1. UNCHANGED MachineOf /\ CallsOf' = {}
      BY <1>3, OwnCall DEF MachineOf
    <2>2. CASE Closed \/ Live
      <3>1. state = Life!Name[MachineOf]
        BY <2>2 DEF Closed, Live, Opened, Started, Paused, Whole, MachineOf, Life!Name
      <3>2. Life!Update
        BY <1>1, <1>2, <1>3, <2>1, <3>1 DEF Life!Update, Life!Done
      <3> QED
        BY <3>2 DEF LifeStep, Life!Next
    <2>3. CASE Unbuilt
      <3>1. Life!Update
        BY <1>1, <1>2, <1>3, <2>1, <2>3 DEF Life!Update, Unbuilt
      <3> QED
        BY <3>1 DEF LifeStep, Life!Next
    <2> QED
      BY <1>3, <2>2, <2>3
  <1>4. CASE UpdateCheck(t)
    <2>1. Live \/ Unbuilt
      BY <1>1, <1>4 DEF UpdateCheck, Stands, UpdateStands
    <2>2. UNCHANGED <<state, registered, power>> /\ (op'[t] = "idle" \/ UNCHANGED op)
      BY <1>1, <1>4 DEF UpdateCheck
    <2> QED
      BY <1>3, <2>1, <2>2, Stays
  <1>5. CASE UpdateInfo(t)
    <2>1. Live
      BY <1>1, <1>5 DEF UpdateInfo, Stands, UpdateStands
    <2>2. UNCHANGED <<state, registered, power>> /\ (op'[t] = "idle" \/ UNCHANGED op)
      BY <1>1, <1>5 DEF UpdateInfo
    <2> QED
      BY <1>3, <2>1, <2>2, Stays
  <1>6. CASE UpdateDone(t)
    <2>1. Live
      BY <1>1, <1>6 DEF UpdateDone, Stands, UpdateStands
    <2>2. UNCHANGED <<state, registered, power>> /\ op'[t] = "idle"
      BY <1>1, <1>6 DEF UpdateDone
    <2> QED
      BY <1>3, <2>1, <2>2
  <1>7. CASE PropertyStep(t)
    <2>1. Closed \/ Live \/ Unbuilt
      BY <1>1, <1>7 DEF PropertyStep, PropertyCheck, PropertyExec, Stands
    <2>2. UNCHANGED <<state, registered, power>> /\ (op'[t] = "idle" \/ UNCHANGED op)
      BY <1>1, <1>7 DEF PropertyStep, PropertyCheck, PropertyExec
    <2> QED
      BY <1>3, <2>1, <2>2, Stays
  \* The refresh goes through OPEN and comes back.
  <1>8. CASE UpdateApply(t) \/ UpdateState(t) \/ UpdateCommit(t)
    <2>1. CallsOf = {"update"} /\ UNCHANGED <<registered, power, op>>
      BY <1>1, <1>2, <1>8 DEF UpdateStep, UpdateApply, UpdateState, UpdateCommit
    <2>2. UNCHANGED <<MachineOf, CallsOf>>
      BY <2>1 DEF MachineOf, CallsOf
    <2>3. CASE UpdateApply(t)
      <3>1. state = Life!Name[MachineOf] /\ state' = "OPEN"
        BY <1>1, <2>3 DEF UpdateApply, Stands, UpdateStands, Live, Opened, Started, Paused, Whole,
                          MachineOf, Life!Name
      <3>2. Life!Update
        BY <2>1, <2>2, <3>1 DEF Life!Update
      <3> QED
        BY <3>2 DEF LifeStep, Life!Next
    <2>4. CASE UpdateState(t)
      <3>1. state = "OPEN" /\ Live'
        BY <1>1, <2>4 DEF UpdateState, Stands, UpdateStands
      <3>2. state' = Life!Name[MachineOf]
        BY <2>2, <3>1 DEF Live, Opened, Started, Paused, Whole, MachineOf, Life!Name
      <3>3. Life!Update
        BY <2>1, <2>2, <3>1, <3>2 DEF Life!Update
      <3> QED
        BY <3>3 DEF LifeStep, Life!Next
    <2>5. CASE UpdateCommit(t)
      BY <2>1, <2>5, Stays DEF UpdateCommit
    <2> QED
      BY <1>8, <2>3, <2>4, <2>5
  <1> QED
    BY <1>4, <1>5, <1>6, <1>7, <1>8 DEF UpdateStep

LEMMA CallLife ==
    ASSUME Sequential, LInv, LInv', NEW t, Workers = {t}, NEW o \in Ops, Call(t, o)
    PROVE  LifeStep
  <1>1. /\ Stands(t) /\ Doing(t) /\ ThreadsTypeOK /\ o \in AllOps
    BY ConstantsAssumption DEF LInv, SInv, Types, TypeOK
  <1>2. /\ pc[t] = "idle" /\ Accepts(o) /\ op' = [op EXCEPT ![t] = o]
        /\ UNCHANGED <<state, registered, power>>
    BY DEF Call, At, vm
  <1>3. /\ CallsOf = {} /\ CallsOf' = {o} /\ UNCHANGED MachineOf
    BY <1>1, <1>2, OwnCall DEF Doing, ThreadsTypeOK, AllOps, MachineOf
  <1>4. Closed \/ Live \/ Unbuilt
    BY <1>1, <1>2 DEF Stands
  <1>5. Life!Begin(o)
    BY <1>1, <1>2, <1>3, <1>4 DEF Life!Begin, Accepts, AllOps, Life!Controls, Closed, Live, Opened,
       Started, Paused, Unbuilt
  <1> QED
    BY <1>5 DEF LifeStep, Life!Next

-----------------------------------------------------------------------------

\* A page that makes one call at a time, with nobody behind the plugin and no
\* failures but those of start(), sees its session go through the documented
\* states in step with the machine: every step of every handler of VBoxSession
\* is a step of the life cycle, or nothing the page is told of moves.
THEOREM LifecycleIsKept == Sequential /\ Spec => FollowsLifecycle
  <1> SUFFICES ASSUME Sequential PROVE Spec => FollowsLifecycle
    OBVIOUS
  <1>1. Init => LInv /\ Life!Init
    BY DoingAlways DEF Init, Life!Init, MachineOf, CallsOf
  <1>2. IInv /\ LInv /\ [Next]_vars => LInv'
    BY DoingAlways
  <1>3. LInv /\ LInv' /\ [Next]_vars => [Life!Next]_(Life!lifeVars)
    <2> SUFFICES ASSUME LInv, LInv', [Next]_vars PROVE LifeStep
      BY DEF LifeStep, Life!lifeVars
    <2>1. PICK t : Workers = {t}
      BY DEF Sequential
    <2>2. CASE WorkerStep(t)
      BY <2>1, <2>2, OpenLife, StartLife, CloseLife, ControlLife, UpdateLife DEF WorkerStep
    <2>3. CASE \E o \in Ops : Call(t, o)
      BY <2>1, <2>3, CallLife
    <2>4. CASE UNCHANGED vars
      BY <2>4, Stays DEF vars, session, vm, threads
    <2> QED
      BY <2>1, <2>2, <2>3, <2>4 DEF Next, LInv, SInv, Sequential, OutsideDelete
  <1> QED
    BY <1>1, <1>2, <1>3, Invariant, PTL DEF Spec, FollowsLifecycle, Life!Spec

=============================================================================
