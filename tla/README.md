# A TLA+ development for CernVM WebAPI

CernVM WebAPI is a browser plugin (C++, on FireBreath) that lets a web page
request, open, start, pause and close a CernVM virtual machine in VirtualBox on
the user's computer, together with a daemon that pauses and resumes those
machines when the user is active or idle. The plugin never links against
VirtualBox: it runs `VBoxManage` commands, each in a process of its own, parses
their output and keeps its own idea of the machine. Most of what can go wrong
is in the distance between that idea and the machine, and in the detached
threads that work on it without a lock.

This directory holds TLA+ models of that logic, the TLC configurations that
check them on small instances, and theorems proved with TLAPS for every value
of the constants. `PROJECT.json` maps each definition to the lines of the
source it models and lists the runs, mutants, findings, hazards and theorems.

## Inventory

| Component | Source | State it keeps | Operations |
|---|---|---|---|
| Session driver | `Virtualbox.cpp` 202-1650 | `HVSession` (state, uuid, flags, editable, properties), `updateLock`, `unsyncedProperties` | open, start, close, pause, resume, reset, stop, hibernate, setExecutionCap, setProperty, getProperty |
| Host-only network | `Virtualbox.cpp` 1420-1570 | the host's interfaces and DHCP servers | getHostOnlyAdapter |
| Refresh | `Virtualbox.cpp` 2110-2375, `CVMWebAPISession.cpp` 704-814 | the session, `updating` | updateSession, thread_update |
| Page session object | `CVMWebAPISession.cpp` | `isAlive`, `updating`, the probe timer | one method per call, one detached thread per method, events to the page |
| API probe | `CVMWebAPISession.cpp` 615-640 | `isAlive`, the timer | cb_timer, thread_cb_timer |
| Hypervisor registry | `Hypervisor.cpp` 410-553, `Virtualbox.cpp` 1864-1939, 2380-2424 | the `sessions` vector, `sessionLoaded` | sessionOpen, sessionValidate, registerSession, loadSessions, waitTillReady |
| Session request | `CVMWebAPI.cpp` 237-633, 696-786 | throttle counters, the confirm condition, a pending flag | requestSession, requestSafeSession, unsafeConfirm |
| Trusted key store | `CVMWebCrypto.cpp` | the domains and a validity flag; two files | updateAuthorizedKeystore, isDomainValid, signatureValidate |
| Installation | `Hypervisor.cpp` 825-1238, `CVMWebAPI.cpp` 638-674 | temporary files, the detected hypervisor | installHypervisor, installExtPack |
| Image cache | `Hypervisor.cpp` 182-323, `CVMBrowserProvider.cpp` | files under `cache/`, one output stream per provider | cernVMDownload, diskImageDownload, downloadFile, downloadText |
| Daemon need and control | `Hypervisor.cpp` 556-595, `DaemonCtl.cpp`, `CVMWebAPIDaemon.cpp` | the lock file, the child's pid, one socket | checkDaemonNeed, daemonStart, daemonStop, daemonGet, daemonSet |
| Idle daemon | `daemon/daemon.cpp` | its own copy of the sessions, `isIdle`, `isAlive`, `reloadTriggered`, two timers | main loop, reload threads, server thread, switchIdleStates, reapDead |
| ThinIPC | `ThinIPC.cpp` | a message and its chunk position | getChunk, putChunk, send, recv |
| Command execution | `Utilities.cpp` 58-107, 609-1043, `Virtualbox.cpp` 153-197 | the named mutexes, the abort flag, a child process | wrapExec, sysExec, abortSysExec |
| Local configuration | `LocalConfig.cpp` | a map cached in memory and its file | get, set, saveMap, loadMap |
| State machine helper | `SimpleFSM.cpp` | the graph, the current node and path | FSMGoto, FSMContinue, FSMSkew |
| Page library | `js/src` | one object per session, a ten-second timer | proxies of the plugin's methods and events |

Crash reports, context media (an ISO image and a floppy written byte by byte),
dialogs, packaging and the vendored zlib hold no logic of the plugin's own.

### How the components interact

* The page calls a method of `CVMWebAPISession` on the browser's thread. The
  method tests the session's state and starts a detached thread, which calls
  the same-named method of `VBoxSession`; that one tests the state again. When
  it ends, the thread fires an event, starts or stops the probe timer, and calls
  `checkDaemonNeed()`.
* `VBoxSession` runs `VBoxManage` through `wrapExec()`, which holds a mutex named
  after the machine, so that two commands for one VM do not overlap; nothing
  else of the session is protected. `sysExec()` repeats a command that failed.
* The page library calls `update()` every ten seconds; the refresh reads
  `showvminfo` and rewrites the session from it.
* A failed `open()` calls `close(true)`, which does not wait for its commands:
  they run in processes of their own after the session is `CLOSED`.
* A request for a session goes through the trusted key store, the page's server,
  the registry and the user before it opens anything.
* `checkDaemonNeed()` starts or stops the daemon from the states of the
  sessions; the daemon reads its own copy of them from VirtualBox, and both act
  on the same machines. They talk through a lock file and `ThinIPC` datagrams.
* Pages and daemon share one configuration file; all instances of the plugin
  share the cache and the two files of the key store.
* The user, and the guest, act on the machine without the plugin.

### What is hard

1. *Early returns under a flag.* `open()` has ten failure paths, `start()` six,
   `close()` five, all of them by hand with `updateLock` and `state` to restore.
2. *Check, then act, on another thread.* Every call checks the state twice
   without a lock; `updateSession()` checks it and writes it up to eight
   seconds later; the flag that admits one reload of the daemon's list, the
   validity of the key store and the lock file are tested and set in two steps.
3. *The state is an assumption.* `pause()`, `stop()` and their kin set the new
   state whether or not the command worked, and the user may undo it at once.
   Only the refresh repairs it. The daemon decides on a copy of that.
4. *Late effects.* The background commands of a failed open act on a machine
   that the next open may have taken for its own; a probe tells its answer after
   the close; an answer of the daemon comes after its request was given up; the
   child of a command that was cut may still run.
5. *Partial files and several processes* in the image cache, the key store, the
   configuration and the installers; a daemon that crashed and its pid.
6. *Retries*: of commands, downloads, verifications and installers, each with a
   loop of its own whose exits have to be told apart.

The hazards of `PROJECT.json` give each of them its line and the properties
that would catch it.

### What makes each component correct

* Session driver: the lock and the transitional states never outlive the call
  that set them; between calls the state tells what VirtualBox holds.
* Refresh: at most one runs; it never loses what has to be written to the VM;
  when everything else rests, it makes the state true again.
* Page session object and probe: a refused or failed open does not touch what
  another call has opened; what the page is told of the guest's API settles on
  the truth.
* Registry and request: one session per name; a session exists only if the
  user agreed to that very request; a page that was denied twice asks no more.
* Key store: a list that is used was vouched for by its signature; a listed page
  is refused only when its own update failed.
* Image cache and installation: what is handed to VirtualBox or run has passed
  its checksum; an interrupted download is never taken for a whole one;
  "install" means that there is a hypervisor.
* Daemon: it runs while a session needs it, once, and ends when none does; it
  pauses and resumes only what it controls; a request gets its own answer.
* Command execution: commands for one machine do not overlap, no child is left
  behind, what has worked is not repeated, the mutex is given back.
* ThinIPC: what is received is what was sent, for every size. Configuration:
  one process does not undo what another has saved.

## The modules

| Module | Models | Extends or uses |
|---|---|---|
| `SessionLifecycle` | abstract: what a page that makes one call at a time sees | |
| `VBoxSession` | the session driver, its refresh, the page's calls | implements `SessionLifecycle` for such a page |
| `ImageCache` | the cached images and the browser's provider | |
| `SessionRequest` | request, registry, question, throttle, shutdown | |
| `DaemonProcess` | abstract: the life of one daemon process | |
| `DaemonControl` | the plugin's side of the daemon, lock file, requests | implements `DaemonProcess` for each pid |
| `IdleDaemon` | the daemon's inside | implements `DaemonProcess` |
| `CommandExec` | how one command is run | |
| `ThinIPC` | messages in datagrams | |
| `ApiProbe` | whether the guest's API is alive | |
| `HypervisorInstall` | installing VirtualBox and its extension pack | |
| `LocalConfig` | the shared configuration file | |
| `HostNetwork` | the host-only interface and its DHCP server | |
| `KeyStore` | the list of trusted domains | |
| `MC...` | instances for TLC; `MCSupport` composes the last seven | |
| `..._proofs` | the theorems | the module of their name, `TLAPS` |
| `Channels_proofs` | the theorems of commands, messages and probe | `CommandExec`, `ThinIPC`, `ApiProbe` |
| `Host_proofs` | the theorems of what all sessions of a host share | `HypervisorInstall`, `HostNetwork`, `KeyStore`, `LocalConfig` |
| `Support_proofs` | the theorems of the composition | `MCSupport`, `Channels_proofs`, `Host_proofs` |

### `VBoxSession`: the session driver and its refresh

One `VBoxSession` object, the machine of its name, and the worker threads.

| Variables | Code |
|---|---|
| `state`, `editable`, `uuid`, `flags` | `HVSession`, `Hypervisor.h` 128-190 |
| `updateLock`, `unsynced` | `VBoxSession::updateLock`, the keys of `unsyncedProperties` |
| `updating` | `CVMWebAPISession::updating` |
| `registered`, `vmid`, `controllers`, `power`, `media`, `stored` | the machine, as `VBoxManage` tells it |
| `background` | commands started with `sysExecAsync()` that have not run yet |
| `op`, `pc`, `slot`, `needs`, `was` | each worker: its call, where it is, its locals |

Every method of the driver is a sequence of actions, one between any two
commands and one between the test of a field and its update, since that is
where another thread can come in:

* `Call(t, o)` is the page's method: the check on the browser's thread and the
  start of the worker. A page may wait for the event that ends a call
  (`Overlap = FALSE`) or not.
* `OpenCheck .. OpenDone`, `StartLock .. StartRelease`, `CloseCheck ..
  CloseDone`, `ControlCheck .. ControlDone`, `UpdateCheck .. UpdateDone`,
  `PropertyCheck` and `PropertyExec` follow the bodies line by line. A command
  fails when the machine's state makes it fail, and also at any time when its
  kind is in `Faults`. `OpenFail` ends in `close.check`: that is thread_open's
  `close(true)`, and it is the same worker that goes on.
* `Background(c)` is a command nobody waits for. Commands of a machine that is
  gone have no effect, so they are dropped when it is deleted.
* `OutsideMove`, `OutsideDelete` are the user and the guest.

Abstractions. The names, sizes and ports of a machine are left out. A medium is
its kind; `open()` attaches the kinds in `Modes` (a scratch disk and a boot
image, or a boot disk alone, and the guest additions), `start()` the context
CD-ROM or floppy. A machine has an identity that is never reused, which is what
the uuid is for. Commands of one kind on one medium (detach, close, remove the
file) are one action where no other thread can tell the difference, and the
controllers of a fresh machine are made in one action. `getMachineInfo()` is
one read. What `showvminfo` tells is either whole or, on failure, nothing: the
driver looks at single keys and reads a missing one as "no".
The session starts `CLOSED` with no machine: a session found by
`loadSessions()` begins as one that has been opened and refreshed.

### `SessionLifecycle`: the documented states

What is left of a session when only three things can be seen: the state the page
is told, the machine (`none`, `off`, `saved`, `running`, `paused`), and the call
that runs. `Begin` is the table of the methods' checks, `Open`, `Start`, `Close`
and `Control` say in which order a call announces itself, moves the machine, and
tells its result; `Update` is the refresh, which may tell OPEN for a moment
before it tells what is so. `StartFails` are the two ways in which a start ends
without a running machine, one of which tells STARTING from then on. It has no
point for ERROR: with no failures but those of `start()` no session comes to it.
`Life` in `VBoxSession` is the refinement mapping: `told` is `state`, `machine`
is the machine's power state or `none`, `running` the calls of the workers.

### `MCVBoxSession`

Instantiates it for TLC and adds the symmetry of workers and machine identities
(used in every run that has no liveness property).

### `VBoxSession_proofs`

The theorems; see below.

### `ImageCache`: the images under `cache/` and the provider they come through

Threads inside `diskImageDownload`, `cernVMDownload` and `downloadText` (the
clients), which share one `CVMBrowserProvider`, and the browser's thread, which
delivers the data.

| Variables | Code |
|---|---|
| `file` | what each `.vdi.gz`, `.vdi` and `.iso` holds: a sequence of blocks, or `Missing` |
| `stream`, `good`, `target` | `fStream` (the path it is open on, its error bit), `targetStream` |
| `completed`, `returnCode` | `m_downloadCompleted`, `returnCode` |
| `requests` | the browser's requests: the blocks each has delivered |
| `calls`, `pc`, `result` | each client: the calls it has begun, where it is, what it got |
| `missed` | history: a request ended before its thread cleared the flag |

`DiskLook`, `IsoLook` and `TextStart` begin a call; `OpenFails` and `Open` are
downloadFile up to the request, `Arm` clears the flag with the request already
under way, `FileWake` and `TextWake` are what follows the wait. `Verify`,
`InflateOpen`, `InflateBlock`, `InflateEnd` and `DropArchive` are
`__diskExtract` and `decompressFile`. `HttpData` writes a block wherever the
provider points *at that moment*, so the data of one client can land in the
file of another, in the text, or nowhere; `HttpCompleted` raises the one flag
that all wait for. A request outlives the call that made it when the call woke
up for another. `Crash` is the death of the browser: all threads and requests
are gone, files stay, and one that was being written may lack its last block.

A checksum matches exactly the whole resource. Two disk clients never share an
address (`ImageAssumption`): what a thread reads from a file that another
truncates or removes depends on the platform. Two sessions on one version of
the boot image are allowed. Left out: what a text contains, progress, a full
disk (`decompressFile` does not look at the result of a write, so that a
truncated image would be found complete: noted under the hazards), and
`CURLProvider`, which only the test program uses. `MCImageCache` gives the
addresses, sizes and numbers of calls; `ImageCache_proofs` has the theorems.

### `SessionRequest`: how a page gets a session

One API object of a page, the threads that `requestSafeSession()` starts, one
for each request, and the registry of sessions they share. A request is the
thread of one call; the browser's thread makes the calls, delivers the user's
answers and shuts the object down.

| Variables | Code |
|---|---|
| `pc`, `want`, `loaded`, `got` | each thread: where it is, the VM and secret of the server's answer, its place in loadSessions(), what sessionOpen() gave it |
| `registry`, `sessionLoaded` | `Hypervisor::sessions`, `Virtualbox::sessionLoaded` |
| `pendingConfirm`, `confirmResult` | the fields of the same name; the condition variable is the set of threads at `waiting` |
| `denies`, `recent`, `blocked` | `throttleDenies`, whether `throttleTimestamp` lies within THROTTLE_TIMESPAN, `throttleBlock` |
| `dialogs` | the questions posted to the page, oldest first |
| `lastThread`, `shuttingDown`, `browser` | the fields; what the browser's thread is in the middle of |
| `page` | chosen at the start: whether the page has the CVM library, and whether it makes one request at a time |
| `answer`, `fresh`, `unasked`, `lost`, `unread` | history, for the properties |

`Ready`, `List`, `Load`, `LoadDone` are waitTillReady and loadSessions, which
nothing serialises: two threads may clear and fill the vector in turns. Either
kind of command may fail: "list vms", whose failure ends the loading before the
vector is cleared, and the query of a VM's secret, whose empty answer makes `Load`
pass the VM over. `unread` keeps, of each VM, whether it was told of when it was
last asked for.
`Validate` and `Find`, `Register` are sessionValidate and sessionOpen, with the
question between them. `Ask`, `Check`, `Cancel`, `CancelNotify`, `Arm`, `Enter`,
`WakeUp` are unsafeConfirm step by step; `Answer` and `AnswerNotify` are
confirmCallback, `Shutdown`, `ShutdownNotify` and `Joined` are shutdown(). The
wait has no predicate, so a notification that comes before `waiting` is lost,
one that comes after may be meant for another thread, and a result may be
overwritten between the write and the notification, or after it.

Abstractions. The domain check, the download of the VM's definition, its
signature and the user's data are one step with an answer from `Wanted` or a
failure. A session is the name and the secret; what else the page's server says
is written into it and matters to nothing here. The dialogs are the library's
own (`js/src/core.js` 14-20), answered in the order in which they were posted;
a page that sets a confirmation function of its own is not modelled, nor is
`requestSession()`, which asks nobody, nor the extension pack. The unlocked
vector is read and appended to atomically: what a scan sees in the middle of
another thread's append is undefined in C++, and the model says nothing of it.

`MCSessionRequest` gives requests and VMs; `SessionRequest_proofs` has the
theorems.

### `DaemonProcess`, `DaemonControl`, `IdleDaemon`: the daemon

`DaemonProcess` is what either side may expect of one process id that daemons
run under: a process starts, serves, decides once to close, and ends; a process
that has decided to close does end. It is the interface of the other two:
`DaemonControl` sees every daemon as such a process, and `IdleDaemon`, which
says what one does inside, is shown to be one.

`DaemonControl` has the threads of the plugin, the processes, and what lies
between them.

| Variables | Code |
|---|---|
| `sessions` | what the loop of `checkDaemonNeed()` finds (`Hypervisor.cpp` 579-590) |
| `lockFile` | `run/daemon.pid`, `DaemonCtl.cpp` |
| `proc`, `orphans` | each pid: its process, a zombie, or a stranger; those the plugin is not the parent of |
| `currDaemonPid` | the variable of `DaemonCtl.cpp`: the last child |
| `port`, `inbox`, `outbox` | who is bound to DAEMON_PORT; datagrams to it and in the one socket of `daemonIPC()` |
| `step`, `needed`, `asks`, `reapPid` | each thread: where it is, its locals |
| `scenario` | chosen at the start: who calls, which mishaps may happen |
| `answer`, `slow`, `crowded`, `raced` | history |

`CheckNeed` and `CheckState` are the two halves of `checkDaemonNeed()`, with the
gap in which another thread acts. `Send`, `Pending`, `Receive`, `TimeOut` are
`daemonIPC()`: its time limit leaves the request, and later the answer, behind;
from then on they belong to nobody's call (`Disown`).
`Reap` is the `waitpid()` of `daemonStop()`, for a process that need not be the
one it told to end. `DaemonCheck` and `DaemonLock` are two steps of the daemon's
main, so that two daemons may both find no lock. Mishaps: a daemon that crashes,
a pid that another program gets, a browser that is restarted, a late answer.

`IdleDaemon` is one process of `daemon/daemon.cpp`.

| Variables | Code |
|---|---|
| `power`, `controlled`, `setting` | the machines as VirtualBox holds them, moved by the plugin and the user too |
| `copy`, `copyControlled` | `hv->sessions` of the daemon |
| `isIdle`, `isAlive`, `reloadTriggered` | the globals |
| `mutex` | `sessionsMutex` |
| `main`, `reload`, `server` | the main loop, the reload threads, the server thread |
| `todo`, `victim`, `needsUpdate` | locals of the loops under the mutex |
| `mine` | history: machines this process has moved |

`ReloadList`, `ReloadQuery`, `ReloadJudge`, `ReloadQuit`, `ReloadRelease` are
`reloadSessions()`'s thread; `ReapLock .. ReapUnlock` is `reapDead()`; `Look ..
WalkUnlock` the comparison of the idle state and `switchIdleStates()`. The flag
that admits one reload is tested and set in two steps (`MayReload`, `Trigger`),
by two threads. Left out: how a platform tells the idle time, and the copied
fields that no decision depends on.

### `CommandExec`: how a command is run

`RunCommand`, `FindMutex`, `AllocMutex`, `LockMutex`, `ReleaseMutex` are the
named mutex around every command: the map of mutexes is itself unguarded, so
two callers may allocate two for one name (`racedGet`). `Begin` and `Judge` are
the loop of `sysExec()`; `Spawn`, `PipesClose`, `Drained`, `Wait`, `Cut` are
`__sysExec()`, in the form of POSIX or of Windows (`platform`, chosen at the
start): on POSIX a cut kills the child, on Windows a timed-out one runs on as a
stray. `Abort` is `abortSysExec()` when a page closes, `Instantiate` the
`initSysExec()` of the next instance, which takes the abort back for all.

### `ThinIPC`: messages in datagrams

A byte is who wrote it, in which field, and where, so that a misplaced one is
seen. `GetChunk` and `PutChunk` are the two ends of the cutting, `SendChunk`,
`SendFails` and `ReceiveChunk` the endpoint, `ReadBody` the fields as the
receiver's code reads them. `Capacity` is 1024 in the code; nothing but the
boundaries around it matters, so a small one does. `Written` and `Reading` are
recursive functions of the number of fields, the buffer after each write and the
reader after each read. `expected` is the history of the messages that have gone
out, each with the fields and the sender it had; `ReceivedIsSent` compares the
fields that are read with the bytes of *that* sender. Sizes and positions are
shorts in the code; `ShortAssumption` says that no message exceeds one.

### `ApiProbe`: whether the guest's API is alive

The timer, the threads it starts (`Tick`, `Look`, `Ask`, `Tell`), and all that
starts and stops it: the threads of the calls (`PageCall`, `Act`) and
`thread_update()` (`SwitchTimer`, `ClearAlive`, `MarkClosed`, `Vanished`).
`guest` is the API's server in the machine, which may also accept and stay
silent; a probe then waits without a limit.

### `HypervisorInstall`

`FetchConfig` and `Download` are the loops before an installer is started,
`LaunchDirect`, `LaunchGui`, `NoLaunch`, `WaitOpen`, `WaitRelease` the three
platforms' ways to start one and to wait, `Detect` the search for VirtualBox
after it, `HasExtPack .. ExtRun` installExtPack, `Publish` the end of
`thread_install()`. The installers (`guis`) and the temporary file of the
extension pack, one name for all, outlive and join the threads.

### `LocalConfig`

The file `general.conf` and the processes that have read it. `Truncate`,
`WriteIdleTime`, `WriteId` are the steps of `saveMap()`: two keys stand for all.
`End` is the end or the crash of a process at any point. Ids are numbers in the
order of their making.

### `HostNetwork`

`getHostOnlyAdapter()` for sessions that open side by side: the commands it runs
have no common mutex. Interfaces are numbered in the order of VirtualBox's list,
the DHCP server of each is missing, off or on; any command may fail.

### `KeyStore`: the list of trusted domains

| Variables | Code |
|---|---|
| `published` | the version of the list on the server |
| `storeFiles` | `domainkeys.conf`, `domainkeys.dat`, and whether the first is younger than CRYPTO_STORE_VALIDITY |
| `keystore` | each plugin instance: `valid`, `domainKeys`, `keystoreTimestamp` of its `CVMWebCrypto` |
| `requester` | each thread of `requestSafeSession()`: its instance and where it is |
| `met` | history: two updates have overlapped |

`CheckRecent .. MarkValid` is `updateAuthorizedKeystore()`, one action for each
access to something that another thread or instance has too; `JudgeStore`,
`FindDomain`, `ValidateData` are what the request does next. A file holds a
version, something torn, or is missing; a signature fits the version it was made
for. What two threads in one `std::map` do to each other is left out: clearing
and filling it are two steps, each whole.

### `MCSupport`

The last seven modules share no variable. `MCSupport` explores them in one
state space: a part is chosen at the start, the others stand still.

## Properties

`LockHasWorker` and `TransitionHasWorker` (`OpeningHasWorker` and
`StartingHasWorkerIfBuilt`) are the early
returns: the lock, OPPENING and STARTING exist only while some worker is inside
the call that owns them. They are what makes the refusals in `Accepts` and
`UpdateCheck` temporary. `OneUpdater` is the page's flag. `QuietAgreement` is
the promise of the documented states (src/README.md, appendix D), and holds
between calls when calls do not overlap. `PendingNotDropped` says where a
pending property may go. `FollowsLifecycle` is the refinement of
`SessionLifecycle`: not only the agreement between calls, but the way from one to
the next, step by step. `StaleHeals` is the liveness promise of the refresh:
if from some point on only the refresh acts, then from some point on the state
is true. `TypeOK` is the type invariant.

Of the image cache: `DiskServedWhole` says that the only
sign of a complete disk image, a `.vdi` without its `.vdi.gz`, can be trusted,
wherever the process died and whoever wrote into the shared stream.
`CachedIsKept` is the converse duty: an image that may be attached to a machine
is never written again. `StreamOwned` is why they hold although nothing locks
the provider: the stream refuses to be opened twice, and that refusal is the
lock. `EveryCallReturns` says that the early answer is the only way to hang.

Of the requests: `KeyRespected` is what separates the pages from each other: the
second comparison, in sessionOpen(), has to catch what was registered since the
first. `Consent` says how far an answer can be trusted. For any page: a confirmed
request has a "yes" given after it was armed, possibly to another question. For
a page that makes one request at a time, and while the plugin itself has ended
no question: a "yes" to that very question. `StoredKnown` is the result of loads
that overlap and fail: what was read is known, and a failure costs only the VMs it
was about. Those stay unknown, since `sessionLoaded` is set whatever came of it,
although waitTillReady() says "load sessions if they are not yet loaded"
(`Virtualbox.cpp` 1862): a request for such a VM is taken for a new one, and
`StoredKnown` excepts these VMs one by one (`unread`). `RegistryKeepsGranted` is
what a patient page can rely on, `BlockedAfterDenials` bounds the throttle from the
page's side. `RequestsEnd` and `ShutdownReturns` name the one way in which a thread
or the browser's thread hangs: a notification that found nobody waiting.

Of the daemon: `LockTells` is what `checkDaemonNeed()` relies on, that the lock
file names every daemon that serves; it breaks only when two daemons have been
between check and lock at once. `OwnAnswer` bounds what a late answer may do,
`CallsReturn` names the one way in which a thread of the plugin hangs in
`waitpid()`, `NeedServed` is the point of it all: while a session needs a daemon,
one serves again and again, a stale lock file excepted. `ProcessLives` is the
refinement of `DaemonProcess`, pid by pid. Inside the daemon `FlagHasThread` says
that the list can always be read again, `DaemonYields` that the user's return
stops what the daemon has started, `EndsUnneeded` that it does not outlive its
need, and `LivesAsProcess` is the refinement, with its liveness.

Of the supporting parts: `TriesApart` says that commands meet on no machine and
that a success is not repeated, with the two exceptions the platforms have, and
`MutexGivenBack` that a command never keeps its machine, with the one there is.
`ReceivedIsSent` compares what is read with what was written, for every size
around the capacity. `LiveSettles` is the promise of the probe. `InstallHonest`
is what "install" may mean and when an unverified package may be run.
`SettingsKept` relates what each process believes it has saved to the file.
`AdapterServed` is the strongest thing that holds of the network an open relies
on. `KeysVouched`: while no two updates meet, a valid list is a published one
unless the instance took what it found, and a listed page is refused only if its
own update failed.

## The runs

| Run | Instance | States | Shows |
|---|---|---|---|
| `session_overlap` | two workers that overlap freely, every kind of command failing but the building of a medium, the user starts and resumes | 2.5 million | no failure path keeps the lock or a transitional state; one refresh at a time |
| `session_sequential` | one worker, all ten calls, three media, user data on a floppy, `startvm` and the building of the medium failing | 1.5 thousand | state and machine agree between calls, and the session goes through the documented states; no pending property is lost unnoticed |
| `session_heal` | two workers, the user powers off, pauses and deletes, `controlvm` failing; fair | 52 thousand | the refresh heals the state |
| `session_undo` | open is called twice | | *violated*: the loser closes the winner's session |
| `image_cache` | a disk image asked for twice, a boot image, a text; failing requests and files, early answers, crashes; fair | 451 thousand | disk images are whole and stay, the stream has one owner, calls return |
| `image_boot` | one boot image, failing requests | | *violated*: a truncated boot image is reported as downloaded |
| `request_ask` | two requests, side by side or one after the other, two stored VMs; failing listings, queries of a secret, servers, windows and checksums, spurious wake-ups, shutdown; fair | 1.8 million | secrets, consent, the registry and the throttle; requests and the shutdown end |
| `daemon_control` | two threads and crashes and reused pids, or one thread and a late answer, or one and a browser that is restarted; two pids; fair | 380 thousand | the lock file, the answers, the calls, the need, the refinement |
| `idle_daemon` | one machine with every kind of setting, two reload threads, lists that cannot be read, the plugin and the user acting; fair | 469 thousand | the flag, the yielding, the end, the refinement |
| `idle_resume` | the user goes away while a controlled machine is paused; fair | | *violated*: it is not resumed |
| `support` | each of the seven parts with two actors | 1.3 million | their safety |
| `support_live` | two callers with two tries; two calls and two probes; fair | 333 thousand | mutexes are given back, the page is told the truth |

**Bounds of the session.** Two workers are enough for every hazard that was
found by reading, because each is a race of two calls; a third adds no new pair,
and the proofs cover any number. Machine identities are bounded by `VMs`: a
create needs one that neither the session, the machine, nor a worker remembers,
so two workers need three. `Modes` with two members has both kinds of medium
that `close()` treats differently (the scratch disk is released by hand, the
boot medium goes with the machine); `session_sequential` adds the guest
additions. The long overlapping run takes a single medium: the attach loop is
the same action three times. `setProperty` and the building of the medium are
left out of `session_overlap`, to keep it within minutes; both are in
`session_sequential`, and the theorems hold for all operations and all faults
together.

**Of the others.** In `image_cache` the disk image is asked for twice, so that
the second call meets what the first, or a crash in it, left behind; images have
two blocks, so that "none", "some" and "all" differ; the text has one, since
only where it is sent matters. In `request_ask` one request wants a VM that VirtualBox
holds, the other the same VM with another secret or one that does not exist: with
the query of a secret that fails, the two reach every outcome of both lookups, and
compete for a name that is taken for new. Two stored VMs are needed for a load that
another thread interrupts halfway. THROTTLE_TRIES is 2 in the source, so two
requests can block a page. In `daemon_control` two pids are a daemon and its
successor or rival; the mishaps come in separate scenarios, since together they
exceed the time; two threads inside `daemonIPC()` at once (`crowd`) are left to
the theorems, which hold for every scenario. One late request (`MaxSlow`) shifts
all later answers: a second one shifts them further. In `idle_daemon` one machine
suffices, because sessions meet only in the lists; two reload threads are what
the unguarded flag admits. Failing queries and commands are not part of that
run: with them the daemon forgets a machine it has started, so `DaemonYields`
does not hold (see below). In `support` the capacity of a datagram is 5, messages
have 0 to 10 bytes of data, so one to three datagrams; commands have three tries,
installers two; the host can have two interfaces; two versions of the trusted
list are published.

**Deadlock** is checked in every run of the session and the daemon, which always
accept some call; not in the image cache, the requests and the supporting parts,
which end with their calls, messages and versions.

**Fairness.** `FairSpec` of `VBoxSession` assumes that a worker that has been
started goes on (threads are scheduled, and `sysExec()` gives up after its
retries and timeouts), that background commands run, and that the page's timer
keeps calling `update()` (`js/src/Plugin/WebAPISession.js` 46-57: every ten
seconds, for as long as the page lives). Nothing is assumed about the user or
the page's other calls; `StaleHeals` speaks of the time after they stop. In
`ImageCache` threads inside a call go on and the browser ends every request, one
way or the other; that a client calls, that the browser dies, or that an answer
comes early is not assumed. Weak fairness is enough for a thread that waits for
the shared flag, because after the last call has cleared it the flag is only
ever raised. In `SessionRequest` threads run, the browser's thread goes on, and
the user answers a dialog that stays on the screen; `join()` returns when the
thread has ended. `FairControl`: what has been called goes on and processes run;
nobody has to call, `NeedServed` speaks of a plugin that does. `FairIdle` is
strong for the threads that take `sessionsMutex`, which is free again and again,
and for the thirty-second timer, which counts only while the user is away; weak
for the server's reload; the user, the plugin and the start of the daemon are not
assumed. `FairSupport`: threads of commands, calls and probes run; a command need
not end, the guest need not answer.

## What is proved

`VBoxSession_proofs` proves, for any sets of workers, calls, faults, outside
moves, media and machines that satisfy `ConstantsAssumption`:

* `TypeCorrect`: `Spec => []TypeOK`;
* `LockGivenBack`: `Spec => []LockHasWorker`;
* `TransitionsEnd`: `Spec => []TransitionHasWorker`;
* `OneRefresh`: `Spec => []OneUpdater`;

and, for one worker that nobody interferes with, whose commands all succeed but
for the building of the context medium and `startvm` (`Sequential`: the
circumstances of the run `session_sequential`), for any calls, media and machines:

* `QuietAgrees`: `Sequential /\ Spec => []QuietAgreement`;
* `PendingIsKept`: `Sequential /\ Spec => PendingNotDropped`;
* `LifecycleIsKept`: `Sequential /\ Spec => FollowsLifecycle`, the refinement of
  `SessionLifecycle`.

The argument. None of the four invariants of all workers is inductive alone, since the lock can have
several holders: a start that gives it back while an open still runs falsifies
"whoever is inside has the lock". The converse, "who has the lock is inside",
is inductive once the types are known, but only because a step that leaves a
body either clears what it guards or hands over to another body. To keep the
case analysis small, every family of actions first gets two lemmas: what it
does to the types (`OpenType`, `StartType`, ...) and how it may move one
worker and the guarded fields (`OpenMoves`, `StartMoves`, ...: an abstract
description of the step in terms of the bodies only). `MovesKeep` then proves
that any such move preserves the invariant `IInv`, without expanding an action,
and `NextIInv` combines them. `StartingHasWorkerIfBuilt` rests on `"build" \notin
Faults` in exactly one place, `StartBuild`. `OneUpdater` needs that a refresh
can only begin when the flag is down, and that each of the three ways out of it
clears the flag.

`QuietAgreement` says nothing about the middle of a call, so its invariant `SInv`
must: `Stands` lists, for every point of every call, what is known there of the
session and of the machine behind it (a close that has come to the unregistering
has a machine that is off and whose media are released; a refresh that applies
what it read has read what is so), and what the worker remembers of it. Between
calls this is one of five resting states: closed, open, started, paused, and
"starting" after a medium that could not be built. Since a command that is
possible succeeds (`Certain`), each point leads to the next with what the next
needs; the only branches left are the two faults. `Pending` adds where properties
may be waiting: with the session not editable, or with a refresh that has yet to
write them or has found the VM paused or saved, which is where it drops them.

`LifecycleIsKept` needs `SInv` and two things more, which are `Doing`: whose call
each point of the program belongs to, and what the page has been told when the
program is there. Then every action is one of a few kinds of step. Most leave
what `SessionLifecycle` sees alone (`Stays`): the media, the controllers, the
lock, the properties. The others are few per call (`OpenLife`, `StartLife`,
`CloseLife`, `ControlLife`, `UpdateLife`), and each is matched with one disjunct
of the abstract action. A refresh that is refused or cut short, and a property
that is written or put off, only end their call.

`ImageCache_proofs` proves, for any clients, addresses, sizes, numbers of calls
and faults that satisfy `ImageAssumption`:

* `TypeCorrect` and `StreamHasOwner`: `Spec => []TypeOK`, `Spec => []StreamOwned`;
* `DiskImagesWhole`: `Spec => []DiskServedWhole`;
* `CacheIsStable`: `Spec => CachedIsKept`, an action property.

The argument. "A `.vdi` alone is whole" is not inductive: a step that removes
the archive must know what the `.vdi` holds. `DiskState` says for each point of
diskImageDownload what its two files hold; its core is that a `.vdi` which is
not whole always has the *whole* archive beside it, so that an archive can only
be thrown away, or be truncated by a new download, where there is no `.vdi`.
The extraction keeps "the `.vdi` is a prefix of the resource" (`LongerPrefix`,
`FullPrefix`, and `Shorter` for the crash). Other threads are handled by frame
lemmas: a thread touches only its own files (`ThreadAlone`, `OthersKeep`), and
the browser only the file the stream is open on (`BrowserDelivers`), which by
`StreamOwned` is the file of a client that is downloading, for which there is
no `.vdi` to spoil.

`SessionRequest_proofs` proves, for any requests, answers of the server, stored
VMs and faults that satisfy `RequestAssumption`:

* `TypeCorrect`: `Spec => []TypeOK`;
* `KeyCorrect`: `Spec => []KeyRespected`;
* `ConsentCorrect`: `Spec => []Consent`;
* `StoredCorrect`: `Spec => []StoredKnown`;
* `RegistryCorrect`: `Spec => []RegistryKeepsGranted`;
* `BlockedCorrect`: `Spec => []BlockedAfterDenials`.

The argument. `IInv` has a part for every page and one for patient pages.
For every page: `Locals` (a thread that has been told what to open has also
passed waitTillReady, and only the end of a request holds a session);
`DirectInv` (without the library an open dialog belongs to a thread that waits
for it, so an answer moves nobody else); `FreshInv`, inductive because `Arm`
resets the result; and `LoadInv`: a VM that some finished loop should have
found is known, or VirtualBox did not tell of it, or a thread in its loop has still
to read it. The last is the reason why overlapping loads are harmless: who clears the vector becomes the
one who has everything to read. For patient pages everything follows from
`Alone`, that at most one request runs: then nobody waits when a question is
taken back, the one open dialog is that of the one thread (`OwnQuestion`, with
the answer in flight as its delicate case), and the registry is written by one
thread at a time (`OneLoad`). The proofs go action by action; `QuestionFrame`,
`LoadFrame` and `LoadsFrame` dispose of the actions that do not matter.

`BlockedAfterDenials` compares the throttle's counter with the history of the
answers, and the counter alone does not say who is to blame: a denied thread may
have read the "no" to an older question that was left open. Its invariant `DInv`
separates three cases. As long as nobody said "no", every thread that counts a
denial, or is about to, had its own question given up; as long as no question was
given up, it is the one that was answered, with "no" (`Blamed`, from `Alone` and
`OwnQuestion`); and once both have happened there are two reasons, whatever the
counter says. In the first two cases the counter is at most the number of
requests that have *ended* for that reason (`Counted`), by the cardinality of
those sets, which needs that a question is asked and answered once (`AskedOnce`).
Threads that ask, answer and count nothing are disposed of by `Calm`.

`Channels_proofs`, for any callers, machines, tries and closings of the page:

* `ExecTypes` and `CommandsApart`: `ExecSpec => []TriesApart`;

for any senders, any message bodies, any number of messages and any capacity of a
datagram above two:

* `ReadWritten`: what is written field by field is what is read field by field;
* `IPCTypesOK` and `MessagesArrive`: `IPCSpec => []ReceivedIsSent`;

for any threads, probes and calls of the page:

* `ProbeTypes`: `ProbeSpec => []ProbeTypeOK`;
* `ProbeWatches`: `ProbeSpec => []WrongIsWatched`.

The argument. Of the commands: two callers inside for one name hold different
mutexes only if two were allocated for it (`Apart`); a child runs only inside; what
a try has come to is told by its result, and only a cut hides a success (`Caller`).

Of the messages: a body has any number of fields, so every fact about `Written` and
`Reading` is an induction over that number. The induction theorems of the library
take an operator, which the provers do not instantiate; `NatSetInduction` states
induction for a *set* of numbers instead, and follows from the cardinality of the
initial segments (adding one would map a finite set into itself without zero).
From it come the equations of both functions (`WrittenRecursion`,
`ReadingRecursion`), that later fields leave earlier bytes alone (`WrittenIsKept`),
and `ReadWritten`. The datagrams are the other half. `Places` says which message
each datagram on the wire belongs to and at which byte of it it starts; it goes on
where the one before it ended, or with the next message. `First` ties the oldest to
what the receiver already has, `Final` the place behind the newest to the one
sender that is halfway. Sending appends a place and receiving drops one, where
`PutGet` says that `PutChunk` appends what `GetChunk` has cut off, unless the size
is one of the two (`Framed`) where the two count differently. All this holds only
until something has happened that the framing does not stand; the types hold then
too, so nothing is ever received beyond the declared size.

Of the probe: `WrongIsWatched` is the part of `LiveSettles` that is not a matter of
time: while no two calls have crossed, a page that was told something wrong has a
running timer that will correct it. It rests on `TimerServed` (a session that runs
has its timer, or a thread that is about to start it), and that on `Uncrossed`: who
may stop the timer and who may start it are not under way together.

`Support_proofs`, for the composition that the runs `support` and `support_live`
check, with all its parts:

* `SupportTypes`: `SupportSpec => []SupportTypeOK`;
* `SupportHolds`: `SupportSpec` satisfies the six safety properties of the parts.

The argument. A step of the composition is one of a part and leaves the variables
of the others alone, so each behaviour of it is one of every part (`PartsRun`).

`DaemonControl_proofs`, for any threads, pids, scenarios and late requests:

* `ControlTypes`: `ControlSpec => []ControlTypeOK`;
* `LockTellsDaemons`: `ControlSpec => []LockTells`;
* `OwnAnswers`: `ControlSpec => []OwnAnswer`;
* `ProcessesLive`: `DaemonControl` implements `DaemonProcess` for every pid.

The argument. A process that is past its check and has not locked yet is alone
with that as long as nothing has raced, and nobody holds the lock beside it,
since its check would have found the file. "Holding" includes a process that will
still remove the file: the invariant speaks of those, `LockTells` only of the
ones that serve. Every other step only makes processes recede from where they
hold something (`Recedes`). The refinement goes action by action: one pid moves
by a step of its phase and the others stay.

`OwnAnswer` counts packets. It is inductive only together with where the packets
are (`InTurn`, as long as one thread at a time is in `daemonIPC()`): a thread
inside has at most one of its own under way, in the daemon's queue or in the
answer's; one that is outside has none; and what belongs to a past call is at
most what was late. Every packet is sent, answered, taken, disowned or lost with
a daemon, and `CountAppend`, `CountTail` and `CountDisown` say what each does to
the count of one owner, by the cardinality of the places it has in the queue.

`IdleDaemon_proofs`, for any machines, reload threads and failures:

* `IdleTypes`: `IdleSpec => []IdleTypeOK`;
* `FlagsHaveThreads`: `IdleSpec => []FlagHasThread`;
* `DaemonAlwaysYields`: `IdleSpec => []DaemonYields`;
* `LivesInPhases`: `IdleDaemon` implements the steps of `DaemonProcess`.

The argument. The flags are read in one step and written in a later one by three
kinds of threads; but threads are there only while the process runs (`Unborn`),
and the flag goes down before its reload thread is gone. That the process ends
after it has decided to is a liveness property, and model-checked
(`LivesAsProcess`). The types of the machine that is being closed need that it
is one of the list (`VictimThere`).

`DaemonYields` is about the moment at which the main loop rests; its invariant
`YInv` is about every moment. Who reads or walks the list has the mutex
(`Locked`); a machine that the daemon has moved and that runs is one that a
reload has still to read, or one that the copy tells to run (`Followed`); and
while the user is there, one without a minimum is *due*: the walk has yet to
come, or has yet to reach it (`Due`). A list that cannot be read leaves the old
copy, so `Failures` may have "list"; with a failing query the copy forgets a
machine, and the theorem's antecedent excludes it, as the property does.

`Host_proofs`, for any threads and tries, sessions and interfaces:

* `InstallTypes` and `InstallsHonest`: `InstallSpec => []InstallHonest`;
* `HostTypes` and `AdaptersServed`: `HostSpec => []AdapterServed`;

and for any instances, versions, processes, ids and idle-times:

* `StoreTypes` and `KeysAreVouched`: `StoreSpec => []KeysVouched`;
* `ConfigTypes` and `SettingsAreKept`: `ConfigSpec => []SettingsKept`.

The argument. Nothing that is installed is taken away here, so a thread that has
found it still has it when it tells the page; a thread reaches the installer
with a broken package only when its downloads are used up; and the counters stay
in range because every installer that runs has used up a try (`Room`). Of the
network: a server that runs is never stopped and interfaces are only added, so
what a thread has seen served stays served. What it has seen missing stays so
only while no two threads overlap: then it creates at most one interface and adds
a server where there is none (`Knows`, with the exception `sideBySide`).

Of the files: neither has a lock, and both properties hold until two have
met in it; so both invariants are "met, or" what one actor at a time leaves.
Of the keys (`KInv`): the instance of a thread that updates is not valid, and the
two files are as that thread left them (`Stands`, point by point of the update);
an instance that is valid has looked at a signature or has been told to take what
it found, and stays as it is until its page is opened again. Of the settings
(`CInv`): a process that writes the file has read what was in it, so what it
leaves differs only in the key it has set (`Copies`, `Writing`), and a page that
has an id has that of the file or of the one process that is writing it.

Only model-checked: the liveness properties (`StaleHeals`, `EveryCallReturns`,
`RequestsEnd`, `ShutdownReturns`, `CallsReturn`, `NeedServed`, `EndsUnneeded`, the
liveness of `LivesAsProcess`, `MutexGivenBack`, `LiveSettles`), since liveness
under fairness, and ENABLED, are out of the prover's reach. What is left of two of
them without time is proved: the steps of `LivesAsProcess`, and of `LiveSettles`
that whatever is wrong is being watched. Every invariant and every action property
that a run checks is stated by a theorem.

## Disagreements between the code and what it says

Each has a run that exhibits it and an entry in `findings`.

1. `thread_open()` calls `close(true)` after *any* non-zero answer
   (`CVMWebAPISession.cpp` 363-366), so the second of two opens powers off and
   deletes what the first has opened (`session_undo`).
2. `downloadFile()` answers `HVE_OK` whatever the status of the request
   (`CVMBrowserProvider.cpp` 182), and a boot image has no checksum: a failed
   download is attached, and found in the cache ever after (`image_boot`).
3. `src/daemon/README.md` 13 promises that machines are resumed when the user is
   idle. On the switch to idle the daemon reloads its list on another thread and
   walks the old one at once; a machine the reload finds is not resumed until the
   user has come back and gone away again (`idle_resume`).

Met while modelling, without a run of their own. In the session:

* src/README.md 401 (appendix D) says that state 5, Error, means "There was an
  error starting the VM". A start that fails sets OPEN (`Virtualbox.cpp` 862-1012)
  or leaves STARTING; ERROR is set where `open()` or the discarding of a saved
  state in `close()` fails.
* `start()` returns from a failed `buildContextISO()` or `buildFloppyIO()`
  without resetting STARTING (`Virtualbox.cpp` 891, 974): no call is accepted
  from then on, and the refresh skips the session. This is the exception in
  `StartingHasWorkerIfBuilt`.
* `getMachineInfo()` answers a map with an `:ERROR:` key when the machine is gone,
  never an empty one, so `updateSession()` (2127-2131) cannot return
  `HVE_NOT_FOUND`, and the session of a deleted machine is never closed.
* `updateSession()` zeroes the flags and restores only those that `showvminfo`
  tells; and it takes the floppy controller, which every machine has, for
  `HVF_FLOPPY_IO` (2135, 2276, 1264).
* a refresh that has passed its check may overwrite STARTING with OPEN in the
  middle of a start (2118-2153), after which another call may be accepted;
* a refresh of a paused or saved machine clears the pending properties without
  writing them (2155-2168; `PendingDropped` is the exemption for it);
* the background `unregistervm` of a failed open may delete the machine of the
  next one (1179);
* after a refresh `session->version` is a file name (2247-2261), and an open
  that follows takes it for a version;
* `getHostOnlyAdapter()` names the first interface even if the server it has
  found is at another one; it refuses to add one to a first interface whose
  server is disabled; sessions side by side may create two interfaces or fail;
* the guest's address is cached for the life of the object (1716-1735), and not
  asked for again after the machine was away;
* a failed close leaves STARTED with the machine off and the probe timer
  stopped; the stop of the timer by one call may race its start by another; a
  probe may tell "alive" after a pause or a close, and nothing corrects it;
  `isPortOpen()` waits for an answer without a limit, so that a silent guest
  collects a thread every probe.

In the requests:

* the throttle counts as a denial every question that did not end with "yes",
  also one that the next request has taken back (`CVMWebAPI.cpp` 408, 727-733),
  while the comments speak of the user's denies (`CVMWebAPI.h` 49-50);
* when a question is taken back its dialog stays, and its answer is credited to
  the request that waits by then (`CVMWebAPI.cpp` 726-743);
* a thread that was told "no" clears `pendingConfirm` of the one that told it
  (740): the next request does not take that one's question back, and
  shutdown() does not wait for it;
* shutdown() joins the last thread started, on the browser's thread
  (`CVMWebAPI.h` 126): if the one notification came too early, or went to
  another thread, the browser hangs;
* a failed `list vms` is marked as loaded (`Virtualbox.cpp` 1872, 2385): the
  existing VMs stay unknown, and a request for one of them asks the user again
  and registers a second session with its name;
* two loads that overlap can clear a session that was granted between them;
* `lastUpdateTimestamp` is never set, so a trusted list that is valid once is
  never reloaded for the life of the instance, although `CVMWebCrypto.h` 45 says
  of CRYPTO_STORE_VALIDITY "After this time it will be reloaded"; the first
  update of an instance takes young files without looking at their signature,
  those that a failed update has just left included; an update resets `valid`,
  and empties the map, under another thread's hands.

Around the daemon:

* a lock file left by a crash stands for a daemon as long as its pid is in use,
  a zombie of the plugin's own included; then no daemon is started;
* `daemonStop()` may wait for a child that is not the daemon it has told to end;
* a late answer shifts all later ones by one;
* the daemon hibernates a machine with autodestroy set and destroys it at the
  next turn, since a hibernated one looks OPEN;
* a query that fails during a reload leaves a machine out of the list, so that
  one the daemon has started is not paused for the user, and, if it was the only
  one, ends the daemon; a machine that is started from elsewhere between the
  daemon's look and its close is removed or left running;
* two reload threads may run, since the flag is tested and set in two steps.

In the rest:

* an aborted command returns 254 on POSIX with an error word, which turns it
  into one that is retried, although the comment at `Utilities.cpp` 1032 says
  that an abort means no retries; on Windows a timed-out try is repeated while
  its process runs on; the abort flag is one for all instances of the plugin; a
  child whose `execv()` fails goes on as a copy of the plugin;
* the map of the named mutexes is not synchronised;
* messages of 1023 and 1024 bytes are cut by the sender and taken as whole by the
  receiver;
* after exhausted tries "install" is told although there is no hypervisor; a
  failed extension pack leaves the plugin without the VirtualBox it has
  installed; each try to download leaves its temporary file; two installs share
  the extension pack's;
* `LocalConfig::saveBuffer()` writes the pointer instead of the buffer;
  `loadMap()` drops keys with empty values; `set()` does not look at the result
  of `saveMap()`.

## Not modelled

* `SimpleFSM`: nothing in the plugin or the daemon derives from it, only the test
  program does.
* FireBreath's ownership of the plugin object and the browser's plugin API.
* The bytes of the context media, base64, splitting of text, the checksums and
  OpenSSL, which the modules take as what they answer; what dialogs and crash
  reports do.
* Of modelled components: `setExecutionCap()`, the readers of metadata,
  `requestSession()`, `sessionFree()`, a page with a confirmation of its own, two
  sessions on one disk URL, a full disk, what C++ makes of a vector or a map that
  two threads change at once. The notes of `PROJECT.json` name them.

## What is left

1. `requestSession()` and `sessionFree()` in `SessionRequest`.
2. The daemon with more than one machine, and with failing queries, once the
   properties that hold then are stated.

## Running

    tlc -workers 2 -config session_overlap.cfg MCVBoxSession
    tlc -workers 2 -config session_sequential.cfg MCVBoxSession
    tlc -workers 2 -config session_heal.cfg MCVBoxSession
    tlc -workers 2 -config session_undo.cfg MCVBoxSession
    tlc -workers 2 -config image_cache.cfg MCImageCache
    tlc -workers 2 -config image_boot.cfg MCImageCache
    tlc -workers 2 -config request_ask.cfg MCSessionRequest
    tlc -workers 2 -config daemon_control.cfg MCDaemonControl
    tlc -workers 2 -config idle_daemon.cfg MCIdleDaemon
    tlc -workers 2 -config idle_resume.cfg MCIdleDaemon
    tlc -workers 2 -config support.cfg MCSupport
    tlc -workers 2 -config support_live.cfg MCSupport

    for m in VBoxSession ImageCache SessionRequest DaemonControl IdleDaemon \
             Channels Host Support; do
        tlapm ${m}_proofs.tla
    done
