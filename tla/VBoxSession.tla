---------------------------- MODULE VBoxSession ----------------------------
(***************************************************************************)
(* The session driver of the plugin: one VBoxSession object, the VM that   *)
(* VirtualBox keeps for it, and the detached worker threads on which       *)
(* CVMWebAPISession runs open, start, close, pause, resume, reset, stop,   *)
(* hibernate, update and setProperty.                                      *)
(*                                                                         *)
(* A worker stops between any two VBoxManage commands, and between the     *)
(* test of a field and its update: commands are serialised by the mutex    *)
(* named after the VM, the fields of the session (state, updateLock,       *)
(* editable, flags, the property maps) have no lock at all.  Only a run of *)
(* commands on one medium, or of one kind on a VM nobody else can name     *)
(* yet, is a single step.                                                  *)
(***************************************************************************)
EXTENDS FiniteSets

CONSTANTS
    Workers,    (* the threads that may run a call of the page              *)
    Ops,        (* the calls the page makes                                 *)
    Faults,     (* the kinds of VBoxManage command that may fail            *)
    Outside,    (* what the user or the guest does behind the plugin        *)
    Modes,      (* the media open() attaches: a scratch disk and a boot     *)
                (* image, or a boot disk alone, and the guest additions     *)
    Wanted,     (* the flags the page asked for                             *)
    UserData,   (* TRUE when the session has user data to contextualise     *)
    Overlap,    (* TRUE when the page calls again before a call has ended   *)
    VMs,        (* identities for the VMs created under the session's name: *)
                (* more than the workers and the session can remember       *)
    NoVM        (* the empty uuid                                           *)

AllOps == {"open", "start", "close", "pause", "resume", "reset", "stop",
           "hibernate", "update", "setProperty"}

ControlOps == {"pause", "resume", "reset", "stop", "hibernate"}

FaultKinds == {"query", "create", "controller", "modify", "attach", "detach",
               "build", "startvm", "control", "guestproperty", "discard",
               "unregister"}

OutsideKinds == {"poweroff", "pause", "resume", "start", "delete"}

OpenMedia == {"scratch", "boot", "additions"}

Flags == {"floppy", "headful"}

ASSUME ConstantsAssumption ==
    /\ Ops \subseteq AllOps
    /\ Faults \subseteq FaultKinds
    /\ Outside \subseteq OutsideKinds
    /\ Modes \subseteq OpenMedia
    /\ Wanted \subseteq Flags
    /\ UserData \in BOOLEAN
    /\ Overlap \in BOOLEAN
    /\ NoVM \notin VMs

VARIABLES
    state,       (* HVSession::state                                        *)
    updateLock,  (* VBoxSession::updateLock                                 *)
    editable,    (* HVSession::editable                                     *)
    uuid,        (* HVSession::uuid: the VM it names, or NoVM                *)
    flags,       (* HVSession::flags: HVF_FLOPPY_IO and HVF_HEADFUL of them  *)
    unsynced,    (* the keys of VBoxSession::unsyncedProperties             *)
    updating,    (* CVMWebAPISession::updating                              *)
    registered,  (* VirtualBox has a VM of the session's name               *)
    vmid,        (* the identity of the VM that last had that name          *)
    controllers, (* that VM has its three storage controllers               *)
    power,       (* its power state                                         *)
    media,       (* the media attached to it                                *)
    stored,      (* its guest properties                                    *)
    background,  (* commands sysExecAsync() started that have not run yet   *)
                 (* and are for the VM that is registered                   *)
    op,          (* the call each worker runs                               *)
    pc,          (* where in it the worker is                               *)
    slot,        (* the worker's own copy of the VM's identity              *)
    needs,       (* what the worker took from showvminfo, or has to do      *)
    was          (* prevEditable of updateSession()                         *)

session == <<state, updateLock, editable, uuid, flags, unsynced, updating>>
vm      == <<registered, vmid, controllers, power, media, stored>>
threads == <<op, pc, slot, needs, was>>
vars    == <<session, vm, background, threads>>

States == {"CLOSED", "OPPENING", "OPEN", "STARTING", "STARTED", "ERROR",
           "PAUSED"}
Powers == {"off", "running", "paused", "saved"}
Props  == {"secret", "user"}
Media  == OpenMedia \cup {"context", "floppy"}
Old    == {"old boot", "old additions"}   \* an image of another version
Outdated == [m \in {"boot", "additions"} |->
                IF m = "boot" THEN "old boot" ELSE "old additions"]
Seen   == Media \cup Old \cup Powers

OpenBody  == {"open.list", "open.create", "open.controllers", "open.modify",
              "open.info", "open.scratch", "open.boot",
              "open.additions", "open.props", "open.done"}
StartBody == {"start.info", "start.detach", "start.build", "start.attach",
              "start.boot", "start.done"}
CloseBody == {"close.poweroff", "close.info", "close.discard",
              "close.context", "close.scratch", "close.unregister",
              "close.done"}
UpdateBody == {"update.check", "update.info", "update.apply", "update.state",
               "update.commit", "update.done"}

\* Where a worker has taken the update lock and not yet released it.
LockBody == OpenBody \cup StartBody \cup CloseBody
                \cup {"start.check", "start.claim", "start.release"}

PCs == LockBody \cup UpdateBody
           \cup {"idle", "open.check", "open.claim", "start.lock",
                 "close.check", "close.lock", "control.check", "control.exec",
                 "control.done", "property.check", "property.exec"}

Commands == {"discard", "context", "scratch", "unregister"}
-----------------------------------------------------------------------------
(* VirtualBox, as VBoxManage commands use it.                              *)

Alive(id) == registered /\ id = vmid

\* The results of a command that can only work when possible holds.
Outcomes(kind, possible) ==
    IF ~possible THEN {FALSE}
    ELSE IF kind \in Faults THEN BOOLEAN ELSE {TRUE}

\* A guest property can be written while the VM is off or running.
Writable(id) == Alive(id) /\ power \in {"off", "running"}

\* The storage of a VM can be changed while it is off.
Attachable(id) == Alive(id) /\ controllers /\ power = "off"

Delete ==
    /\ registered' = FALSE
    /\ controllers' = FALSE
    /\ power' = "off"
    /\ media' = {}
    /\ stored' = {}
    /\ background' = {}      \* what waits for that VM finds it gone
    /\ UNCHANGED vmid

\* A command started without waiting for it; one for no VM has no effect.
Post(command, id) ==
    background' = IF Alive(id) THEN background \cup {command} ELSE background

\* A new VM gets an identity that nobody remembers.
Fresh == VMs \ ({uuid, vmid} \cup {slot[t] : t \in Workers})

Create(id) ==
    /\ registered' = TRUE
    /\ vmid' = id
    /\ controllers' = FALSE
    /\ power' = "off"
    /\ media' = {}
    /\ stored' = {}

\* controlvm: the power state each subcommand is for, and the one it leads to.
ControlFrom == [pause |-> {"running"}, resume |-> {"paused"},
                reset |-> {"running"}, stop |-> {"running", "paused"},
                hibernate |-> {"running", "paused"}]
ControlTo   == [pause |-> "paused", resume |-> "running", reset |-> "running",
                stop |-> "off", hibernate |-> "saved"]
-----------------------------------------------------------------------------
Init ==
    /\ state = "CLOSED" /\ updateLock = FALSE /\ editable = FALSE
    /\ uuid = NoVM /\ flags = Wanted /\ unsynced = {} /\ updating = FALSE
    /\ registered = FALSE /\ vmid = NoVM /\ controllers = FALSE
    /\ power = "off" /\ media = {} /\ stored = {}
    /\ background = {}
    /\ op = [t \in Workers |-> "idle"]
    /\ pc = [t \in Workers |-> "idle"]
    /\ slot = [t \in Workers |-> NoVM]
    /\ needs = [t \in Workers |-> {}]
    /\ was = [t \in Workers |-> FALSE]

At(t, label)   == pc[t] = label
Goto(t, label) == pc' = [pc EXCEPT ![t] = label]

\* The worker's thread ends; its locals go with it.
End(t) ==
    /\ pc' = [pc EXCEPT ![t] = "idle"]
    /\ op' = [op EXCEPT ![t] = "idle"]
    /\ slot' = [slot EXCEPT ![t] = NoVM]
    /\ needs' = [needs EXCEPT ![t] = {}]
    /\ was' = [was EXCEPT ![t] = FALSE]

Locals == <<op, slot, needs, was>>
-----------------------------------------------------------------------------
(* The page calls a method of CVMWebAPISession: the state is checked on    *)
(* the browser's thread, then a detached worker is started.                *)

\* Mutated form of Accepts: update() does not look at the updating flag.
AcceptsSecondUpdate(o) ==
    CASE o = "open"        -> state \in {"CLOSED", "ERROR"}
      [] o = "start"       -> state = "OPEN"
      [] o = "close"       -> state \in {"OPEN", "STARTED", "PAUSED", "ERROR"}
      [] o = "resume"      -> state = "PAUSED"
      [] o = "update"      -> state # "CLOSED"
      [] o = "setProperty" -> TRUE
      [] OTHER             -> state = "STARTED"

Accepts(o) ==
    CASE o = "open"        -> state \in {"CLOSED", "ERROR"}
      [] o = "start"       -> state = "OPEN"
      [] o = "close"       -> state \in {"OPEN", "STARTED", "PAUSED", "ERROR"}
      [] o = "resume"      -> state = "PAUSED"
      [] o = "update"      -> ~updating /\ state # "CLOSED"
      [] o = "setProperty" -> TRUE
      [] OTHER             -> state = "STARTED"

Entry(o) ==
    CASE o = "open"        -> "open.check"
      [] o = "start"       -> "start.lock"
      [] o = "close"       -> "close.check"
      [] o = "update"      -> "update.check"
      [] o = "setProperty" -> "property.check"
      [] OTHER             -> "control.check"

\* A page that does not overlap its calls waits for the event that ends one;
\* the refresh timer and property writes do not wait.
PageReady(o) ==
    \/ Overlap
    \/ o \in {"update", "setProperty"}
    \/ \A t \in Workers : op[t] \in {"idle", "update", "setProperty"}

Call(t, o) ==
    /\ At(t, "idle")
    /\ Accepts(o)
    /\ PageReady(o)
    /\ op' = [op EXCEPT ![t] = o]
    /\ Goto(t, Entry(o))
    /\ updating' = (updating \/ o = "update")
    /\ UNCHANGED <<state, updateLock, editable, uuid, flags, unsynced, vm,
                   background, slot, needs, was>>
-----------------------------------------------------------------------------
(* open()                                                                  *)

\* Mutated form of OpenFail: a failure path that misses a line.
OpenFailKeepsState(t) ==
    /\ UNCHANGED state
    /\ updateLock' = FALSE
    /\ Goto(t, "close.check")

\* Every failure of open() ends the same way; thread_open() then calls
\* close(true) on the session.
OpenFail(t) ==
    /\ state' = "ERROR"
    /\ updateLock' = FALSE
    /\ Goto(t, "close.check")

OpenCheck(t) ==
    /\ At(t, "open.check")
    /\ Goto(t, IF state \in {"CLOSED", "ERROR"} THEN "open.claim"
                                                ELSE "close.check")
    /\ UNCHANGED <<session, vm, background, Locals>>

\* thread_open() passes the flags it is called with or, by default, those of
\* the session.
OpenClaim(t) ==
    /\ At(t, "open.claim")
    /\ state' = "OPPENING"
    /\ updateLock' = TRUE
    /\ flags' \in {flags, Wanted}
    /\ Goto(t, "open.list")
    /\ UNCHANGED <<editable, uuid, unsynced, updating, vm, background, Locals>>

\* getMachineUUID() looks for the name in list vms; when it is there its uuid
\* becomes the session's.
OpenList(t) ==
    /\ At(t, "open.list")
    /\ \E read \in Outcomes("query", TRUE) :
         IF ~read THEN OpenFail(t) /\ UNCHANGED <<uuid, slot>>
         ELSE /\ IF registered
                   THEN /\ slot' = [slot EXCEPT ![t] = vmid]
                        /\ uuid' = vmid
                        /\ Goto(t, "open.modify")
                   ELSE UNCHANGED <<uuid, slot>> /\ Goto(t, "open.create")
              /\ UNCHANGED <<state, updateLock>>
    /\ UNCHANGED <<editable, flags, unsynced, updating, vm, background, op,
                   needs, was>>

\* createvm: VirtualBox refuses a second VM of the name.
OpenCreate(t) ==
    /\ At(t, "open.create")
    /\ \E ok \in Outcomes("create", ~registered) :
         IF ok THEN /\ \E id \in Fresh :
                         Create(id) /\ slot' = [slot EXCEPT ![t] = id]
                    /\ Goto(t, "open.controllers")
                    /\ UNCHANGED <<state, updateLock>>
               ELSE OpenFail(t) /\ UNCHANGED <<vm, slot>>
    /\ UNCHANGED <<editable, uuid, flags, unsynced, updating, background, op,
                   needs, was>>

\* The IDE, SATA and floppy controllers.  A failure leaves a VM that the
\* session does not know of.
OpenControllers(t) ==
    /\ At(t, "open.controllers")
    /\ \E ok \in Outcomes("controller", Alive(slot[t]) /\ power = "off") :
         IF ok THEN /\ controllers' = TRUE
                    /\ uuid' = slot[t]
                    /\ Goto(t, "open.modify")
                    /\ UNCHANGED <<state, updateLock>>
               ELSE OpenFail(t) /\ UNCHANGED <<controllers, uuid>>
    /\ UNCHANGED <<editable, flags, unsynced, updating, registered, vmid,
                   power, media, stored, background, Locals>>

OpenModify(t) ==
    /\ At(t, "open.modify")
    /\ \E ok \in Outcomes("modify", Alive(slot[t]) /\ power = "off") :
         IF ok THEN Goto(t, "open.info") /\ UNCHANGED <<state, updateLock>>
               ELSE OpenFail(t)
    /\ UNCHANGED <<editable, uuid, flags, unsynced, updating, vm, background,
                   Locals>>

\* Media that showvminfo does not list, or all of them when it fails, have to
\* be attached; an image of another version has to be replaced.
OpenInfo(t) ==
    /\ At(t, "open.info")
    /\ \E read \in Outcomes("query", Alive(uuid)) :
         IF read
           THEN \E old \in SUBSET (Modes \cap media \cap DOMAIN Outdated) :
                  needs' = [needs EXCEPT ![t] =
                      (Modes \ media) \cup {Outdated[m] : m \in old}]
           ELSE needs' = [needs EXCEPT ![t] = Modes]
    /\ Goto(t, "open.scratch")
    /\ UNCHANGED <<session, vm, background, op, slot, was>>

\* One medium: detached if it is outdated, created or downloaded, and
\* attached with storageattach.
OpenAttach(t, here, medium, next) ==
    /\ At(t, here)
    /\ LET outdated == /\ medium \in DOMAIN Outdated
                       /\ Outdated[medium] \in needs[t]
           detach == IF outdated THEN Outcomes("detach", Attachable(slot[t]))
                                 ELSE {TRUE}
       IN  \/ /\ medium \notin needs[t] /\ ~outdated
              /\ Goto(t, next)
              /\ UNCHANGED <<state, updateLock, media>>
           \/ /\ medium \in needs[t] \/ outdated
              /\ \E free \in detach :
                   \E ok \in Outcomes("attach", free /\ Attachable(slot[t])) :
                     /\ media' = IF ok THEN media \cup {medium}
                                 ELSE IF outdated /\ free THEN media \ {medium}
                                 ELSE media
                     /\ IF ok THEN /\ Goto(t, next)
                                   /\ UNCHANGED <<state, updateLock>>
                              ELSE OpenFail(t)
    /\ UNCHANGED <<editable, uuid, flags, unsynced, updating, registered, vmid,
                   controllers, power, stored, background, Locals>>

OpenScratch(t)   == OpenAttach(t, "open.scratch", "scratch", "open.boot")
OpenBoot(t)      == OpenAttach(t, "open.boot", "boot", "open.additions")
OpenAdditions(t) == OpenAttach(t, "open.additions", "additions", "open.props")

\* The secret and the other /CVMWeb properties go through setProperty();
\* its result is not looked at.
OpenProps(t) ==
    /\ At(t, "open.props")
    /\ IF editable
         THEN /\ \E ok \in Outcomes("guestproperty", Writable(uuid)) :
                   stored' = IF ok THEN stored \cup {"secret"} ELSE stored
              /\ UNCHANGED unsynced
         ELSE unsynced' = unsynced \cup {"secret"} /\ UNCHANGED stored
    /\ Goto(t, "open.done")
    /\ UNCHANGED <<state, updateLock, editable, uuid, flags, updating,
                   registered, vmid, controllers, power, media, background,
                   Locals>>

OpenDone(t) ==
    /\ At(t, "open.done")
    /\ state' = "OPEN"
    /\ updateLock' = FALSE
    /\ End(t)
    /\ UNCHANGED <<editable, uuid, flags, unsynced, updating, vm, background>>
-----------------------------------------------------------------------------
(* start()                                                                 *)

\* Mutated form of StartFail: the state stays STARTING.
StartFailKeepsState(t) ==
    /\ UNCHANGED state
    /\ updateLock' = FALSE
    /\ End(t)

StartFail(t) ==
    /\ state' = "OPEN"
    /\ updateLock' = FALSE
    /\ End(t)

StartLock(t) ==
    /\ At(t, "start.lock")
    /\ updateLock' = TRUE
    /\ Goto(t, "start.check")
    /\ UNCHANGED <<state, editable, uuid, flags, unsynced, updating, vm,
                   background, Locals>>

\* Mutated form of StartCheck: the refusal keeps the lock.
StartCheckKeepsLock(t) ==
    /\ At(t, "start.check")
    /\ IF state = "OPEN" THEN Goto(t, "start.claim") /\ UNCHANGED Locals
                         ELSE End(t)
    /\ UNCHANGED <<session, vm, background>>

StartCheck(t) ==
    /\ At(t, "start.check")
    /\ IF state = "OPEN"
         THEN Goto(t, "start.claim") /\ UNCHANGED <<updateLock, Locals>>
         ELSE updateLock' = FALSE /\ End(t)
    /\ UNCHANGED <<state, editable, uuid, flags, unsynced, updating, vm,
                   background>>

\* Mutated form of StartClaim: the machine boots in a session that is OPEN.
StartClaimSilent(t) ==
    /\ At(t, "start.claim")
    /\ Goto(t, "start.info")
    /\ UNCHANGED <<session, vm, background, Locals>>

StartClaim(t) ==
    /\ At(t, "start.claim")
    /\ state' = "STARTING"
    /\ Goto(t, "start.info")
    /\ UNCHANGED <<updateLock, editable, uuid, flags, unsynced, updating, vm,
                   background, Locals>>

\* showvminfo decides whether a context medium is built, and whether an
\* older one is detached first; a failing one reads as "not saved, none".  The
\* flags decide between the floppy and the CD-ROM.
StartInfo(t) ==
    /\ At(t, "start.info")
    /\ LET medium == IF "floppy" \in flags THEN "floppy" ELSE "context"
       IN  /\ needs' = [needs EXCEPT ![t] = {medium}]
           /\ \E read \in Outcomes("query", Alive(uuid)) :
                Goto(t, IF UserData /\ ~(read /\ power = "saved")
                          THEN IF read /\ medium \in media THEN "start.detach"
                                                           ELSE "start.build"
                          ELSE "start.boot")
    /\ UNCHANGED <<session, vm, background, op, slot, was>>

\* storageattach none, then closemedium: the second may fail after the first
\* has worked.
StartDetach(t) ==
    /\ At(t, "start.detach")
    /\ \E detached \in Outcomes("detach", Attachable(uuid)) :
         \E closed \in Outcomes("detach", detached) :
           /\ media' = IF detached THEN media \ needs[t] ELSE media
           /\ IF closed THEN /\ Goto(t, "start.build")
                             /\ UNCHANGED <<state, updateLock, Locals>>
                        ELSE StartFail(t)
    /\ UNCHANGED <<editable, uuid, flags, unsynced, updating, registered, vmid,
                   controllers, power, stored, background>>

\* buildContextISO() or buildFloppyIO(): the failure path releases the lock
\* and returns without setting the state.
StartBuild(t) ==
    /\ At(t, "start.build")
    /\ \/ /\ Goto(t, "start.attach")
          /\ UNCHANGED <<updateLock, Locals>>
       \/ /\ "build" \in Faults
          /\ updateLock' = FALSE
          /\ End(t)
    /\ UNCHANGED <<state, editable, uuid, flags, unsynced, updating, vm,
                   background>>

StartAttach(t) ==
    /\ At(t, "start.attach")
    /\ \E ok \in Outcomes("attach", Attachable(uuid)) :
         IF ok THEN /\ media' = media \cup needs[t]
                    /\ Goto(t, "start.boot")
                    /\ UNCHANGED <<state, updateLock, Locals>>
               ELSE StartFail(t) /\ UNCHANGED media
    /\ UNCHANGED <<editable, uuid, flags, unsynced, updating, registered, vmid,
                   controllers, power, stored, background>>

StartBoot(t) ==
    /\ At(t, "start.boot")
    /\ \E ok \in Outcomes("startvm",
                          Alive(uuid) /\ power \in {"off", "saved"}) :
         IF ok THEN /\ power' = "running"
                    /\ Goto(t, "start.done")
                    /\ UNCHANGED <<state, updateLock, Locals>>
               ELSE StartFail(t) /\ UNCHANGED power
    /\ UNCHANGED <<editable, uuid, flags, unsynced, updating, registered, vmid,
                   controllers, media, stored, background>>

\* The state is set, then checkDaemonNeed() runs with the lock still held.
StartDone(t) ==
    /\ At(t, "start.done")
    /\ state' = "STARTED"
    /\ Goto(t, "start.release")
    /\ UNCHANGED <<updateLock, editable, uuid, flags, unsynced, updating, vm,
                   background, Locals>>

StartRelease(t) ==
    /\ At(t, "start.release")
    /\ updateLock' = FALSE
    /\ End(t)
    /\ UNCHANGED <<state, editable, uuid, flags, unsynced, updating, vm,
                   background>>
-----------------------------------------------------------------------------
(* close(), called by the page and, unmonitored, by a failed open: the     *)
(* commands of an unmonitored close run in the background and count as     *)
(* successful.                                                             *)

Unmonitored(t) == op[t] = "open"

CloseCheck(t) ==
    /\ At(t, "close.check")
    /\ IF state \in {"OPEN", "STARTED", "PAUSED", "ERROR"}
         THEN Goto(t, "close.lock") /\ UNCHANGED Locals
         ELSE End(t)
    /\ UNCHANGED <<session, vm, background>>

CloseLock(t) ==
    /\ At(t, "close.lock")
    /\ updateLock' = TRUE
    /\ Goto(t, "close.poweroff")
    /\ UNCHANGED <<state, editable, uuid, flags, unsynced, updating, vm,
                   background, Locals>>

\* controlVM("poweroff") waits for its command even when unmonitored; "we
\* don't care about the warnings".
ClosePoweroff(t) ==
    /\ At(t, "close.poweroff")
    /\ \E ok \in Outcomes("control",
                          Alive(uuid) /\ power \in ControlFrom["stop"]) :
         power' = IF ok THEN "off" ELSE power
    /\ Goto(t, "close.info")
    /\ UNCHANGED <<session, registered, vmid, controllers, media, stored,
                   background, Locals>>

CloseInfo(t) ==
    /\ At(t, "close.info")
    /\ \E read \in Outcomes("query", Alive(uuid)) :
         needs' = [needs EXCEPT ![t] =
                      IF read THEN (media \cup {power}) \cap
                                       {"saved", "context", "scratch"}
                              ELSE {}]
    /\ Goto(t, "close.discard")
    /\ UNCHANGED <<session, vm, background, op, slot, was>>

CloseDiscard(t) ==
    /\ At(t, "close.discard")
    /\ \/ /\ "saved" \notin needs[t]
          /\ Goto(t, "close.context")
          /\ UNCHANGED <<state, updateLock, power, background, Locals>>
       \/ /\ "saved" \in needs[t] /\ Unmonitored(t)
          /\ Post("discard", uuid)
          /\ Goto(t, "close.context")
          /\ UNCHANGED <<state, updateLock, power, Locals>>
       \/ /\ "saved" \in needs[t] /\ ~Unmonitored(t)
          /\ \E ok \in Outcomes("discard", Alive(uuid) /\ power = "saved") :
               IF ok THEN /\ power' = "off"
                          /\ Goto(t, "close.context")
                          /\ UNCHANGED <<state, updateLock, Locals>>
                     ELSE /\ state' = "ERROR"
                          /\ updateLock' = FALSE
                          /\ End(t)
                          /\ UNCHANGED power
          /\ UNCHANGED background
    /\ UNCHANGED <<editable, uuid, flags, unsynced, updating, registered, vmid,
                   controllers, media, stored>>

\* storageattach none, closemedium and the removal of the file.  A failure
\* returns with the state as it was.
CloseRelease(t, here, medium, next) ==
    /\ At(t, here)
    /\ \/ /\ medium \notin needs[t]
          /\ Goto(t, next)
          /\ UNCHANGED <<updateLock, media, background, Locals>>
       \/ /\ medium \in needs[t] /\ Unmonitored(t)
          /\ Post(medium, uuid)
          /\ Goto(t, next)
          /\ UNCHANGED <<updateLock, media, Locals>>
       \/ /\ medium \in needs[t] /\ ~Unmonitored(t)
          /\ \E detached \in Outcomes("detach", Attachable(uuid)) :
               \E closed \in Outcomes("detach", detached) :
                 /\ media' = IF detached THEN media \ {medium} ELSE media
                 /\ IF closed THEN /\ Goto(t, next)
                                   /\ UNCHANGED <<updateLock, Locals>>
                              ELSE updateLock' = FALSE /\ End(t)
          /\ UNCHANGED background
    /\ UNCHANGED <<state, editable, uuid, flags, unsynced, updating,
                   registered, vmid, controllers, power, stored>>

CloseContext(t) ==
    CloseRelease(t, "close.context", "context", "close.scratch")
CloseScratch(t) ==
    CloseRelease(t, "close.scratch", "scratch", "close.unregister")

CloseUnregister(t) ==
    /\ At(t, "close.unregister")
    /\ IF Unmonitored(t)
         THEN Post("unregister", uuid) /\ UNCHANGED vm
         ELSE \E ok \in Outcomes("unregister", Alive(uuid) /\ power = "off") :
                IF ok THEN Delete ELSE UNCHANGED <<vm, background>>
    /\ Goto(t, "close.done")
    /\ UNCHANGED <<session, Locals>>

CloseDone(t) ==
    /\ At(t, "close.done")
    /\ state' = "CLOSED"
    /\ updateLock' = FALSE
    /\ End(t)
    /\ UNCHANGED <<editable, uuid, flags, unsynced, updating, vm, background>>

\* A background command runs at a time of its own, and its result is lost.
Background(c) ==
    /\ c \in background
    /\ \/ /\ c = "unregister"
          /\ \E ok \in Outcomes("unregister", power = "off") :
               IF ok THEN Delete
                     ELSE background' = background \ {c} /\ UNCHANGED vm
       \/ /\ c = "discard"
          /\ \E ok \in Outcomes("discard", power = "saved") :
               power' = IF ok THEN "off" ELSE power
          /\ background' = background \ {c}
          /\ UNCHANGED <<registered, vmid, controllers, media, stored>>
       \/ /\ c \in {"context", "scratch"}
          /\ \E ok \in Outcomes("detach", Attachable(vmid)) :
               media' = IF ok THEN media \ {c} ELSE media
          /\ background' = background \ {c}
          /\ UNCHANGED <<registered, vmid, controllers, power, stored>>
    /\ UNCHANGED <<session, threads>>
-----------------------------------------------------------------------------
(* pause(), resume(), reset(), stop(), hibernate()                         *)

ControlCheck(t) ==
    /\ At(t, "control.check")
    /\ IF state = (IF op[t] = "resume" THEN "PAUSED" ELSE "STARTED")
         THEN Goto(t, "control.exec") /\ UNCHANGED Locals
         ELSE End(t)
    /\ UNCHANGED <<session, vm, background>>

ControlExec(t) ==
    /\ At(t, "control.exec")
    /\ \E ok \in Outcomes("control",
                          Alive(uuid) /\ power \in ControlFrom[op[t]]) :
         power' = IF ok THEN ControlTo[op[t]] ELSE power
    /\ Goto(t, "control.done")
    /\ UNCHANGED <<session, registered, vmid, controllers, media, stored,
                   background, Locals>>

\* Mutated form of ControlDone: hibernate() leaves the state STARTED.
ControlDoneForgetsHibernate(t) ==
    /\ At(t, "control.done")
    /\ state' = CASE op[t] = "pause"  -> "PAUSED"
                  [] op[t] = "resume" -> "STARTED"
                  [] op[t] = "stop"   -> "OPEN"
                  [] OTHER            -> state
    /\ End(t)
    /\ UNCHANGED <<updateLock, editable, uuid, flags, unsynced, updating, vm,
                   background>>

\* The new state is set whether or not the command worked.
ControlDone(t) ==
    /\ At(t, "control.done")
    /\ state' = CASE op[t] = "pause"               -> "PAUSED"
                  [] op[t] = "resume"              -> "STARTED"
                  [] op[t] \in {"stop", "hibernate"} -> "OPEN"
                  [] OTHER                         -> state
    /\ End(t)
    /\ UNCHANGED <<updateLock, editable, uuid, flags, unsynced, updating, vm,
                   background>>
-----------------------------------------------------------------------------
(* update(): Virtualbox::updateSession() between the two ends of           *)
(* thread_update().                                                        *)

UpdateEnd(t) == updating' = FALSE /\ End(t)

UpdateCheck(t) ==
    /\ At(t, "update.check")
    /\ IF \/ state \in {"OPPENING", "STARTING"}
          \/ updateLock
          \/ uuid = NoVM
         THEN UpdateEnd(t)
         ELSE /\ slot' = [slot EXCEPT ![t] = uuid]
              /\ Goto(t, "update.info")
              /\ UNCHANGED <<updating, op, needs, was>>
    /\ UNCHANGED <<state, updateLock, editable, uuid, flags, unsynced, vm,
                   background>>

\* A failing showvminfo, a VM that is gone included, is an I/O error and ends
\* the refresh with the session as it was.
UpdateInfo(t) ==
    /\ At(t, "update.info")
    /\ \E read \in Outcomes("query", Alive(slot[t])) :
         IF read THEN /\ needs' = [needs EXCEPT ![t] =
                                   IF controllers THEN {power, "floppy"}
                                                  ELSE {power}]
                      /\ Goto(t, "update.apply")
                      /\ UNCHANGED <<updating, op, slot, was>>
                 ELSE UpdateEnd(t)
    /\ UNCHANGED <<state, updateLock, editable, uuid, flags, unsynced, vm,
                   background>>

\* The state goes through OPEN before the one read is stored, and the flags
\* through zero.
UpdateApply(t) ==
    /\ At(t, "update.apply")
    /\ was' = [was EXCEPT ![t] = editable]
    /\ editable' = TRUE
    /\ flags' = {}
    /\ state' = "OPEN"
    /\ Goto(t, "update.state")
    /\ UNCHANGED <<updateLock, uuid, unsynced, updating, vm, background, op,
                   slot, needs>>

\* Mutated form of UpdateState: VirtualBox's own word is kept as the state.
UpdateStateRaw(t) ==
    /\ At(t, "update.state")
    /\ state' \in needs[t]
    /\ editable' = IF needs[t] \cap {"paused", "saved"} # {} THEN FALSE
                                                             ELSE editable
    /\ Goto(t, "update.commit")
    /\ UNCHANGED <<updateLock, uuid, flags, unsynced, updating, vm, background,
                   Locals>>

UpdateState(t) ==
    /\ At(t, "update.state")
    /\ state' = CASE "running" \in needs[t] -> "STARTED"
                  [] "paused" \in needs[t]  -> "PAUSED"
                  [] "saved" \in needs[t]   -> "OPEN"
                  [] OTHER                  -> state
    /\ editable' = IF needs[t] \cap {"paused", "saved"} # {} THEN FALSE
                                                             ELSE editable
    /\ Goto(t, "update.commit")
    /\ UNCHANGED <<updateLock, uuid, flags, unsynced, updating, vm, background,
                   Locals>>

\* Mutated form of UpdateCommit: the test of the earlier value is inverted.
UpdateCommitInverted(t) ==
    /\ At(t, "update.commit")
    /\ stored' = IF editable /\ was[t] /\ Writable(uuid)
                   THEN stored \cup unsynced ELSE stored
    /\ unsynced' = {}
    /\ Goto(t, "update.done")
    /\ UNCHANGED <<state, updateLock, editable, uuid, flags, updating,
                   registered, vmid, controllers, power, media, background,
                   Locals>>

\* Pending properties are written only when the session has just become
\* editable, and forgotten in every case.
UpdateCommit(t) ==
    /\ At(t, "update.commit")
    /\ IF editable /\ ~was[t]
         THEN \E written \in SUBSET unsynced :
                /\ written # unsynced =>
                     FALSE \in Outcomes("guestproperty", Writable(uuid))
                /\ written # {} => Writable(uuid)
                /\ stored' = stored \cup written
         ELSE UNCHANGED stored
    /\ unsynced' = {}
    /\ Goto(t, "update.done")
    /\ UNCHANGED <<state, updateLock, editable, uuid, flags, updating,
                   registered, vmid, controllers, power, media, background,
                   Locals>>

\* Mutated form of UpdateDone: the updating flag is never cleared.
UpdateDoneKeepsFlag(t) ==
    /\ At(t, "update.done")
    /\ flags' = flags \cup (needs[t] \cap {"floppy"})
    /\ End(t)
    /\ UNCHANGED <<state, updateLock, editable, uuid, unsynced, updating, vm,
                   background>>

\* The flags that showvminfo tells: the floppy controller stands for
\* HVF_FLOPPY_IO.
UpdateDone(t) ==
    /\ At(t, "update.done")
    /\ flags' = flags \cup (needs[t] \cap {"floppy"})
    /\ UpdateEnd(t)
    /\ UNCHANGED <<state, updateLock, editable, uuid, unsynced, vm,
                   background>>
-----------------------------------------------------------------------------
(* setProperty(): the page may write any property but the secret.          *)

PropertyCheck(t) ==
    /\ At(t, "property.check")
    /\ IF editable
         THEN Goto(t, "property.exec") /\ UNCHANGED <<unsynced, Locals>>
         ELSE unsynced' = unsynced \cup {"user"} /\ End(t)
    /\ UNCHANGED <<state, updateLock, editable, uuid, flags, updating, vm,
                   background>>

PropertyExec(t) ==
    /\ At(t, "property.exec")
    /\ \E ok \in Outcomes("guestproperty", Writable(uuid)) :
         stored' = IF ok THEN stored \cup {"user"} ELSE stored
    /\ End(t)
    /\ UNCHANGED <<session, registered, vmid, controllers, power, media,
                   background>>
-----------------------------------------------------------------------------
(* The user of the machine, or the guest, acts on the VM directly.         *)

OutsideMove(e) ==
    /\ e \in Outside
    /\ registered
    /\ \/ /\ e = "poweroff" /\ power \in {"running", "paused"}
          /\ power' = "off"
       \/ /\ e = "pause" /\ power = "running"
          /\ power' = "paused"
       \/ /\ e = "resume" /\ power = "paused"
          /\ power' = "running"
       \/ /\ e = "start" /\ power \in {"off", "saved"}
          /\ power' = "running"
    /\ UNCHANGED <<session, registered, vmid, controllers, media, stored,
                   background, threads>>

OutsideDelete ==
    /\ "delete" \in Outside
    /\ registered /\ power = "off"
    /\ Delete
    /\ UNCHANGED <<session, threads>>
-----------------------------------------------------------------------------
OpenStep(t) ==
    \/ OpenCheck(t) \/ OpenClaim(t) \/ OpenList(t) \/ OpenCreate(t)
    \/ OpenControllers(t) \/ OpenModify(t) \/ OpenInfo(t) \/ OpenScratch(t)
    \/ OpenBoot(t) \/ OpenAdditions(t) \/ OpenProps(t) \/ OpenDone(t)

StartStep(t) ==
    \/ StartLock(t) \/ StartCheck(t) \/ StartClaim(t) \/ StartInfo(t)
    \/ StartDetach(t) \/ StartBuild(t) \/ StartAttach(t) \/ StartBoot(t)
    \/ StartDone(t) \/ StartRelease(t)

CloseStep(t) ==
    \/ CloseCheck(t) \/ CloseLock(t) \/ ClosePoweroff(t) \/ CloseInfo(t)
    \/ CloseDiscard(t) \/ CloseContext(t) \/ CloseScratch(t)
    \/ CloseUnregister(t) \/ CloseDone(t)

ControlStep(t) == ControlCheck(t) \/ ControlExec(t) \/ ControlDone(t)

UpdateStep(t) ==
    \/ UpdateCheck(t) \/ UpdateInfo(t) \/ UpdateApply(t) \/ UpdateState(t)
    \/ UpdateCommit(t) \/ UpdateDone(t)

PropertyStep(t) == PropertyCheck(t) \/ PropertyExec(t)

\* What a worker that has been started does next.
WorkerStep(t) ==
    \/ OpenStep(t) \/ StartStep(t) \/ CloseStep(t) \/ ControlStep(t)
    \/ UpdateStep(t) \/ PropertyStep(t)

Next ==
    \/ \E t \in Workers, o \in Ops : Call(t, o)
    \/ \E t \in Workers : WorkerStep(t)
    \/ \E c \in background : Background(c)
    \/ \E e \in Outside : OutsideMove(e)
    \/ OutsideDelete

Spec == Init /\ [][Next]_vars

\* A started thread runs on, the page's timer calls update() every ten
\* seconds for as long as the page lives, and a background command runs.
Refresh == "update" \in Ops /\ \E t \in Workers : Call(t, "update")

FairSpec ==
    /\ Spec
    /\ \A t \in Workers : WF_vars(WorkerStep(t))
    /\ WF_vars(Refresh)
    /\ WF_vars(\E c \in background : Background(c))
-----------------------------------------------------------------------------
SessionTypeOK ==
    /\ state \in States
    /\ updateLock \in BOOLEAN /\ editable \in BOOLEAN /\ updating \in BOOLEAN
    /\ uuid \in VMs \cup {NoVM} /\ flags \subseteq Flags
    /\ unsynced \subseteq Props

VMTypeOK ==
    /\ vmid \in VMs \cup {NoVM}
    /\ registered \in BOOLEAN /\ controllers \in BOOLEAN
    /\ power \in Powers /\ media \subseteq Media
    /\ stored \subseteq Props
    /\ background \subseteq Commands

ThreadsTypeOK ==
    /\ op \in [Workers -> AllOps \cup {"idle"}]
    /\ pc \in [Workers -> PCs]
    /\ slot \in [Workers -> VMs \cup {NoVM}]
    /\ needs \in [Workers -> SUBSET Seen]
    /\ was \in [Workers -> BOOLEAN]

\* The fields of the session, of the VM and of the workers keep their types:
\* no path of the handlers stores a value of another field's.
TypeOK == SessionTypeOK /\ VMTypeOK /\ ThreadsTypeOK

\* The update lock never outlives the call that took it: every one of the
\* early returns of open(), start() and close() gives it back, so a session
\* is never refused a refresh for ever.
LockHasWorker == updateLock => \E t \in Workers : pc[t] \in LockBody

\* A session is OPPENING only while a worker is inside open(): no failure
\* path leaves the state behind, which nothing but open() itself could change.
OpeningHasWorker ==
    state = "OPPENING" => \E t \in Workers : pc[t] \in OpenBody

\* The same for STARTING and start().
StartingHasWorker ==
    state = "STARTING" => \E t \in Workers : pc[t] \in StartBody

\* start() leaves STARTING on every path but the one where the context
\* medium cannot be built.
StartingHasWorkerIfBuilt == "build" \notin Faults => StartingHasWorker

\* So no way out of open() or start() leaves the session OPPENING or STARTING,
\* where every other call is refused, but for the medium that is not built.
TransitionHasWorker == OpeningHasWorker /\ StartingHasWorkerIfBuilt

\* The flag of update() admits one refresh at a time, and is always given
\* back: it is set exactly while one worker refreshes the session.
OneUpdater ==
    /\ updating <=> \E t \in Workers : pc[t] \in UpdateBody
    /\ \A t, u \in Workers :
          pc[t] \in UpdateBody /\ pc[u] \in UpdateBody => t = u

\* thread_open() closes the session "in case of a problem": the close of a
\* failed open runs on a session that is in error, never on one that another
\* call has opened.
UndoOnlyFailures ==
    \A t \in Workers :
        pc[t] = "close.poweroff" /\ Unmonitored(t) => state = "ERROR"

Quiet == background = {} /\ \A t \in Workers : op[t] = "idle"

\* Between calls the state of the session says what VirtualBox holds: a
\* closed session has no VM, an open one a VM that is off or saved with every
\* medium attached, a started or paused one a VM that runs or is paused.  Only
\* a start whose context medium was not built leaves another state behind.
QuietAgreement ==
    Quiet =>
        /\ \/ state \in {"CLOSED", "OPEN", "STARTED", "PAUSED"}
           \/ state = "STARTING" /\ power = "off" /\ "build" \in Faults
        /\ state = "CLOSED" <=> ~registered
        /\ state = "OPEN" => power \in {"off", "saved"}
        /\ state = "STARTED" => power = "running"
        /\ state = "PAUSED" => power = "paused"
        /\ state # "CLOSED" =>
              uuid = vmid /\ controllers /\ Modes \subseteq media

\* A pending property leaves the session only for the VM, or when a refresh
\* finds the VM paused or saved; the secret is one of them, and without it
\* loadSessions() does not know the VM again.
PendingDropped(t) ==
    At(t, "update.commit") /\ needs[t] \cap {"paused", "saved"} # {}

PendingNotDropped ==
    [][\A p \in unsynced : \/ p \in unsynced' \/ p \in stored'
                           \/ \E t \in Workers : PendingDropped(t)]_vars

\* The state of a session between start() and stop() names the power state of
\* its VM, outside the instant in which a refresh goes through OPEN ...
Stale == /\ Alive(uuid)
         /\ \A t \in Workers : ~At(t, "update.state")
         /\ state \in {"OPEN", "STARTED", "PAUSED"}
         /\ state # CASE power = "running" -> "STARTED"
                      [] power = "paused"  -> "PAUSED"
                      [] OTHER             -> "OPEN"

\* ... and when it does not, because a command failed, the user acted on the
\* VM or a refresh crossed a call, the refresh timer puts it right once nothing
\* else acts on the session.
OnlyRefresh == \E t \in Workers : Call(t, "update") \/ UpdateStep(t)

StaleHeals == <>[][OnlyRefresh]_vars => <>[]~Stale
-----------------------------------------------------------------------------
(* One call at a time, nobody behind the plugin: what the page sees is the *)
(* life cycle of SessionLifecycle.                                         *)

MachineOf == IF registered THEN power ELSE "none"
CallsOf == {op[t] : t \in Workers} \ {"idle"}

Life == INSTANCE SessionLifecycle
            WITH told <- state, machine <- MachineOf, running <- CallsOf,
                 Calls <- Ops, Failing <- Faults

\* The session of such a page goes through the documented states in step with
\* its machine: a call is announced before its effect and its result is told
\* after it, no command moves the machine another way, and no handler tells a
\* state that the machine is not in, but for the moment of a refresh.
FollowsLifecycle == Life!Spec
=============================================================================
