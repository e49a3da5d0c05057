--------------------------- MODULE SessionRequest ---------------------------
(***************************************************************************)
(* How a page gets a session: requestSafeSession() and the thread it       *)
(* starts for every call, the registry of sessions that the threads share, *)
(* the question to the user with its condition variable, the throttle that *)
(* blocks a page whose user keeps denying, and the shutdown of the page's  *)
(* API object.                                                             *)
(*                                                                         *)
(* A request is one call of the page.  The browser's thread makes the      *)
(* calls, shows the dialogs one after the other, delivers the answers and  *)
(* shuts the object down; it does nothing while it waits for a thread.     *)
(* The result of a question is written under a mutex and the notification  *)
(* follows without it: two steps, wherever they occur.                     *)
(* Signatures, the configuration server and the key store are one step     *)
(* that may fail.  The vector of sessions is not locked; a scan of it, and *)
(* an append to it, are steps of their own here, each of them atomic.      *)
(***************************************************************************)
EXTENDS Integers, Sequences, FiniteSets

CONSTANTS
    Requests,     (* the calls the page makes                               *)
    Names, Keys,  (* names of VMs, secrets                                  *)
    Wanted,       (* what the page's server may answer to each request: the *)
                  (* VM and the secret                                      *)
    Stored,       (* the VMs with a secret that VirtualBox holds, in the    *)
                  (* order of "list vms": [name, key]                       *)
    Faults,       (* what may go wrong                                      *)
    NoSession,    (* the NULL session                                       *)
    NoThread      (* the lastThread of an object that never started one     *)

FaultKinds == {"list", "secret", "remote", "window", "checksum", "spurious"}

THROTTLE_TRIES == 2

Sessions == [name : Names, key : Keys]

ASSUME RequestAssumption ==
    /\ IsFiniteSet(Requests)
    /\ Wanted \in [Requests -> SUBSET Sessions]
    /\ Stored \in Seq(Sessions)
    /\ \A i, j \in DOMAIN Stored : Stored[i].name = Stored[j].name => i = j
    /\ Faults \subseteq FaultKinds
    /\ NoSession \notin Sessions
    /\ NoThread \notin Requests

VARIABLES
    pc,             (* where the thread of each request stands              *)
    want,           (* the VM and the secret of each request                *)
    loaded,         (* how many VMs its loadSessions() has read             *)
    got,            (* the session its sessionOpen() returned               *)
    registry,       (* Hypervisor::sessions                                 *)
    sessionLoaded,  (* Virtualbox::sessionLoaded                            *)
    pendingConfirm, confirmResult,
    denies,         (* throttleDenies                                       *)
    recent,         (* throttleTimestamp is at most THROTTLE_TIMESPAN ago   *)
    blocked,        (* throttleBlock                                        *)
    dialogs,        (* the questions that wait for the user, oldest first   *)
    lastThread,
    shuttingDown,
    browser,        (* the browser's thread: free, about to notify after a  *)
                    (* "yes" or a "no", or to "wake" before it joins        *)
                    (* lastThread, or inside that "join"                    *)
    page,           (* patient: it waits for the callback of a request      *)
                    (* before the next; library: it has the CVM library     *)
    answer,         (* history: what the user said to the question of r     *)
    fresh,          (* history: a "yes" came since r was armed              *)
    unasked,        (* history: r was ended by the plugin, not by the user  *)
    lost,           (* history: a notification found nobody waiting         *)
    unread          (* history: the places in Stored of the VMs of which    *)
                    (* VirtualBox did not tell when it was last asked       *)

registryVars == <<registry, sessionLoaded, loaded, want, got>>
confirmVars == <<pendingConfirm, confirmResult>>
throttleVars == <<denies, recent, blocked>>
browserVars == <<lastThread, shuttingDown, browser, page>>
historyVars == <<answer, fresh, unasked, lost, unread>>
vars == <<pc, registryVars, confirmVars, throttleVars, dialogs, browserVars,
          historyVars>>

Ended == {"granted", "failed", "aborted"}
Places == {"idle", "ready", "list", "load", "remote", "validate", "ask",
           "check", "cancel", "notify", "arm", "enter", "waiting", "woken", "direct",
           "confirmed", "denied", "find", "register", "configure"} \cup Ended

Armed == {"enter", "waiting", "woken"}
Running(r) == pc[r] \notin Ended \cup {"idle"}
Waiting == {r \in Requests : pc[r] = "waiting"}

(***************************************************************************)
(* The constructor initialises neither pendingConfirm nor confirmResult;   *)
(* the latter is always written before it is read.                         *)
(***************************************************************************)
Init ==
    /\ pc = [r \in Requests |-> "idle"]
    /\ want = [r \in Requests |-> NoSession]
    /\ loaded = [r \in Requests |-> 0]
    /\ got = [r \in Requests |-> NoSession]
    /\ registry = <<>>
    /\ sessionLoaded = FALSE
    /\ pendingConfirm \in BOOLEAN
    /\ confirmResult = FALSE
    /\ denies = 0
    /\ recent = FALSE
    /\ blocked = FALSE
    /\ dialogs = <<>>
    /\ lastThread = NoThread
    /\ shuttingDown = FALSE
    /\ browser = "free"
    /\ page \in [patient : BOOLEAN, library : BOOLEAN]
    /\ answer = [r \in Requests |-> "none"]
    /\ fresh = [r \in Requests |-> FALSE]
    /\ unasked = [r \in Requests |-> FALSE]
    /\ lost = FALSE
    /\ unread = {}

Goto(r, place) == pc' = [pc EXCEPT ![r] = place]

-----------------------------------------------------------------------------
(* The call, and the sessions of VirtualBox.                               *)

(* The page calls; a blocked page is refused without a thread. *)
Request(r) ==
    /\ pc[r] = "idle"
    /\ ~shuttingDown /\ browser = "free"
    /\ page.patient => \A q \in Requests : ~Running(q)
    /\ IF blocked
       THEN Goto(r, "failed") /\ UNCHANGED browserVars
       ELSE /\ Goto(r, "ready")
            /\ lastThread' = r
            /\ UNCHANGED <<shuttingDown, browser, page>>
    /\ UNCHANGED <<registryVars, confirmVars, throttleVars, dialogs, historyVars>>

(* waitTillReady(): the test of sessionLoaded. *)
Ready(r) ==
    /\ pc[r] = "ready"
    /\ Goto(r, IF sessionLoaded THEN "remote" ELSE "list")
    /\ UNCHANGED <<registryVars, confirmVars, throttleVars, dialogs,
                   browserVars, historyVars>>

(* loadSessions(): "list vms" and the clearing of the vector.  When the     *)
(* command fails the answer is not looked at.                               *)
List(r) ==
    /\ pc[r] = "list"
    /\ Goto(r, "load")
    /\ \/ /\ registry' = <<>>
          /\ UNCHANGED loaded
          /\ UNCHANGED unread
       \/ /\ "list" \in Faults
          /\ loaded' = [loaded EXCEPT ![r] = Len(Stored)]
          /\ unread' = DOMAIN Stored
          /\ UNCHANGED registry
    /\ UNCHANGED <<sessionLoaded, want, got, confirmVars, throttleVars, dialogs,
                   browserVars, answer, fresh, unasked, lost>>

\* Mutated form of Load: the vector is cleared inside the loop.
LoadClears(r) ==
    /\ pc[r] = "load"
    /\ loaded[r] < Len(Stored)
    /\ loaded' = [loaded EXCEPT ![r] = @ + 1]
    /\ LET vm == loaded[r] + 1 IN
       \/ /\ registry' = <<Stored[vm]>>
          /\ unread' = unread \ {vm}
       \/ /\ "secret" \in Faults
          /\ unread' = unread \cup {vm}
          /\ UNCHANGED registry
    /\ UNCHANGED <<pc, sessionLoaded, want, got, confirmVars, throttleVars,
                   dialogs, browserVars, answer, fresh, unasked, lost>>

(* One VM: its secret is read, its session registered.  When the query      *)
(* fails the secret is empty, and the VM is passed over as one of others.   *)
Load(r) ==
    /\ pc[r] = "load"
    /\ loaded[r] < Len(Stored)
    /\ loaded' = [loaded EXCEPT ![r] = @ + 1]
    /\ LET vm == loaded[r] + 1 IN
       \/ /\ registry' = Append(registry, Stored[vm])
          /\ unread' = unread \ {vm}
       \/ /\ "secret" \in Faults
          /\ unread' = unread \cup {vm}
          /\ UNCHANGED registry
    /\ UNCHANGED <<pc, sessionLoaded, want, got, confirmVars, throttleVars,
                   dialogs, browserVars, answer, fresh, unasked, lost>>

\* Mutated form of LoadDone: the sessions are never marked as loaded.
LoadDoneForgets(r) ==
    /\ pc[r] = "load"
    /\ loaded[r] = Len(Stored)
    /\ loaded' = [loaded EXCEPT ![r] = 0]
    /\ Goto(r, "remote")
    /\ UNCHANGED <<registry, sessionLoaded, want, got, confirmVars,
                   throttleVars, dialogs, browserVars, historyVars>>

LoadDone(r) ==
    /\ pc[r] = "load"
    /\ loaded[r] = Len(Stored)
    /\ sessionLoaded' = TRUE
    /\ loaded' = [loaded EXCEPT ![r] = 0]
    /\ Goto(r, "remote")
    /\ UNCHANGED <<registry, want, got, confirmVars, throttleVars, dialogs,
                   browserVars, historyVars>>

(* The domain, the configuration server's answer and its signature. *)
Remote(r) ==
    /\ pc[r] = "remote"
    /\ \/ /\ Goto(r, "validate")
          /\ \E w \in Wanted[r] : want' = [want EXCEPT ![r] = w]
       \/ /\ "remote" \in Faults
          /\ Goto(r, "failed")
          /\ UNCHANGED want
    /\ UNCHANGED <<registry, sessionLoaded, loaded, got, confirmVars,
                   throttleVars, dialogs, browserVars, historyVars>>

(* The first session of the name, which decides about the key. *)
Named(r) == {i \in DOMAIN registry : registry[i].name = want[r].name}
First(r) == registry[CHOOSE i \in Named(r) : \A j \in Named(r) : i <= j]

Lookup(r) == IF Named(r) = {} THEN "new"
             ELSE IF First(r).key = want[r].key THEN "valid" ELSE "invalid"

(* sessionValidate(): a session with this key needs no question. *)
Validate(r) ==
    /\ pc[r] = "validate"
    /\ \/ Lookup(r) = "new" /\ Goto(r, "ask")
       \/ Lookup(r) = "valid" /\ Goto(r, "find")
       \/ Lookup(r) = "invalid" /\ Goto(r, "failed")
    /\ UNCHANGED <<registryVars, confirmVars, throttleVars, dialogs,
                   browserVars, historyVars>>

-----------------------------------------------------------------------------
(* The question to the user: unsafeConfirm() and confirmCallback().        *)

(* notify_one(): one of the threads that wait, if any, is woken; "place"   *)
(* is where the others are.                                                *)
NotifyOne(place) ==
    IF Waiting = {}
    THEN pc' = place /\ lost' = TRUE
    ELSE /\ \E w \in Waiting : pc' = [place EXCEPT ![w] = "woken"]
         /\ UNCHANGED lost

(* The plugin, and not the user, ends what the thread woken by it asked. *)
Woken == [w \in Requests |-> unasked[w] \/ (w \in Waiting /\ pc'[w] = "woken")]

(* The question is posted to the page: with the library its answer comes    *)
(* through confirmCallback(), without it to the thread that asks.          *)
Ask(r) ==
    /\ pc[r] = "ask"
    /\ \/ /\ dialogs' = Append(dialogs, r)
          /\ Goto(r, IF page.library THEN "check" ELSE "direct")
          /\ UNCHANGED unasked
       \/ /\ "window" \in Faults
          /\ Goto(r, "denied")
          /\ unasked' = [unasked EXCEPT ![r] = TRUE]
          /\ UNCHANGED dialogs
    /\ UNCHANGED <<registryVars, confirmVars, throttleVars, browserVars,
                   answer, fresh, lost, unread>>

Check(r) ==
    /\ pc[r] = "check"
    /\ Goto(r, IF pendingConfirm THEN "cancel" ELSE "arm")
    /\ UNCHANGED <<registryVars, confirmVars, throttleVars, dialogs,
                   browserVars, historyVars>>

(* The question before is taken back: its thread is told "no". *)
Cancel(r) ==
    /\ pc[r] = "cancel"
    /\ confirmResult' = FALSE
    /\ Goto(r, "notify")
    /\ UNCHANGED <<registryVars, pendingConfirm, throttleVars, dialogs,
                   browserVars, historyVars>>

CancelNotify(r) ==
    /\ pc[r] = "notify"
    /\ NotifyOne([pc EXCEPT ![r] = "arm"])
    /\ unasked' = Woken
    /\ UNCHANGED <<registryVars, confirmVars, throttleVars, dialogs,
                   browserVars, answer, fresh, unread>>

\* Mutated form of Arm: the result of the question before is kept.
ArmKeeps(r) ==
    /\ pc[r] = "arm"
    /\ pendingConfirm' = TRUE
    /\ fresh' = [fresh EXCEPT ![r] = FALSE]
    /\ Goto(r, "enter")
    /\ UNCHANGED <<registryVars, confirmResult, throttleVars, dialogs,
                   browserVars, answer, unasked, lost, unread>>

Arm(r) ==
    /\ pc[r] = "arm"
    /\ pendingConfirm' = TRUE
    /\ confirmResult' = FALSE
    /\ fresh' = [fresh EXCEPT ![r] = FALSE]
    /\ Goto(r, "enter")
    /\ UNCHANGED <<registryVars, throttleVars, dialogs, browserVars, answer,
                   unasked, lost, unread>>

Enter(r) ==
    /\ pc[r] = "enter"
    /\ Goto(r, "waiting")
    /\ UNCHANGED <<registryVars, confirmVars, throttleVars, dialogs,
                   browserVars, historyVars>>

(* A wait without a predicate may return by itself. *)
Spurious(r) ==
    /\ pc[r] = "waiting"
    /\ "spurious" \in Faults
    /\ Goto(r, "woken")
    /\ unasked' = [unasked EXCEPT ![r] = TRUE]
    /\ UNCHANGED <<registryVars, confirmVars, throttleVars, dialogs,
                   browserVars, answer, fresh, lost, unread>>

WakeUp(r) ==
    /\ pc[r] = "woken"
    /\ pendingConfirm' = FALSE
    /\ Goto(r, IF confirmResult THEN "confirmed" ELSE "denied")
    /\ UNCHANGED <<registryVars, confirmResult, throttleVars, dialogs,
                   browserVars, historyVars>>

\* Mutated form of Answer: a "no" does not notify.
AnswerSilent(yes) ==
    /\ dialogs # <<>>
    /\ ~shuttingDown /\ browser = "free"
    /\ LET r == Head(dialogs) IN
       /\ answer' = [answer EXCEPT ![r] = IF yes THEN "yes" ELSE "no"]
       /\ IF page.library
          THEN /\ confirmResult' = yes
               /\ browser' = IF yes THEN "yes" ELSE "free"
               /\ UNCHANGED pc
          ELSE /\ Goto(r, IF yes THEN "confirmed" ELSE "denied")
               /\ UNCHANGED <<confirmResult, browser>>
    /\ dialogs' = Tail(dialogs)
    /\ fresh' = [q \in Requests |-> fresh[q] \/ (yes /\ pc[q] \in Armed)]
    /\ UNCHANGED <<registryVars, pendingConfirm, throttleVars, lastThread,
                   shuttingDown, page, unasked, lost, unread>>

(* The user answers the oldest question, whoever waits by then. *)
Answer(yes) ==
    /\ dialogs # <<>>
    /\ ~shuttingDown /\ browser = "free"
    /\ LET r == Head(dialogs) IN
       /\ answer' = [answer EXCEPT ![r] = IF yes THEN "yes" ELSE "no"]
       /\ IF page.library
          THEN /\ confirmResult' = yes
               /\ browser' = IF yes THEN "yes" ELSE "no"
               /\ UNCHANGED pc
          ELSE /\ Goto(r, IF yes THEN "confirmed" ELSE "denied")
               /\ UNCHANGED <<confirmResult, browser>>
    /\ dialogs' = Tail(dialogs)
    /\ fresh' = [q \in Requests |-> fresh[q] \/ (yes /\ pc[q] \in Armed)]
    /\ UNCHANGED <<registryVars, pendingConfirm, throttleVars, lastThread,
                   shuttingDown, page, unasked, lost, unread>>

(* A thread that armed itself since the "yes" is woken without it. *)
AnswerNotify ==
    /\ browser \in {"yes", "no"}
    /\ browser' = "free"
    /\ NotifyOne(pc)
    /\ unasked' = IF browser = "yes" /\ ~confirmResult THEN Woken ELSE unasked
    /\ UNCHANGED <<registryVars, confirmVars, throttleVars, dialogs,
                   lastThread, shuttingDown, page, answer, fresh, unread>>

Confirmed(r) ==
    /\ pc[r] = "confirmed"
    /\ denies' = 0
    /\ recent' = FALSE
    /\ Goto(r, "find")
    /\ UNCHANGED <<registryVars, confirmVars, blocked, dialogs, browserVars,
                   historyVars>>

\* Mutated form of Denied: the page is blocked one denial early.
DeniedEager(r) ==
    /\ pc[r] = "denied"
    /\ IF shuttingDown
       THEN Goto(r, "aborted") /\ UNCHANGED throttleVars
       ELSE /\ Goto(r, "failed")
            /\ recent' = TRUE
            /\ denies' = IF recent THEN denies + 1 ELSE 1
            /\ blocked' = (blocked \/ denies' + 1 >= THROTTLE_TRIES)
    /\ UNCHANGED <<registryVars, confirmVars, dialogs, browserVars, historyVars>>

(* The second denial within the timespan of the first blocks the page. *)
Denied(r) ==
    /\ pc[r] = "denied"
    /\ IF shuttingDown
       THEN Goto(r, "aborted") /\ UNCHANGED throttleVars
       ELSE /\ Goto(r, "failed")
            /\ recent' = TRUE
            /\ denies' = IF recent THEN denies + 1 ELSE 1
            /\ blocked' = (blocked \/ (recent /\ denies' >= THROTTLE_TRIES))
    /\ UNCHANGED <<registryVars, confirmVars, dialogs, browserVars, historyVars>>

TimePasses ==
    /\ recent
    /\ recent' = FALSE
    /\ UNCHANGED <<pc, registryVars, confirmVars, denies, blocked, dialogs,
                   browserVars, historyVars>>

-----------------------------------------------------------------------------
(* The session: sessionOpen() and the settings of the page.                *)

\* Mutated form of Find: the NULL of a wrong key is not looked at.
FindUnchecked(r) ==
    /\ pc[r] = "find"
    /\ \/ /\ Lookup(r) = "new"
          /\ Goto(r, "register")
          /\ UNCHANGED got
       \/ /\ Lookup(r) = "valid"
          /\ got' = [got EXCEPT ![r] = First(r)]
          /\ Goto(r, "configure")
       \/ /\ Lookup(r) = "invalid"
          /\ Goto(r, "configure")
          /\ UNCHANGED got
    /\ UNCHANGED <<registry, sessionLoaded, loaded, want, confirmVars,
                   throttleVars, dialogs, browserVars, historyVars>>

\* Mutated form of Find: the key, validated before, is not compared again.
FindByName(r) ==
    /\ pc[r] = "find"
    /\ IF Lookup(r) = "new"
       THEN Goto(r, "register") /\ UNCHANGED got
       ELSE /\ got' = [got EXCEPT ![r] = First(r)]
            /\ Goto(r, "configure")
    /\ UNCHANGED <<registry, sessionLoaded, loaded, want, confirmVars,
                   throttleVars, dialogs, browserVars, historyVars>>

(* The scan of sessionOpen(), with the key compared once more. *)
Find(r) ==
    /\ pc[r] = "find"
    /\ \/ /\ Lookup(r) = "new"
          /\ Goto(r, "register")
          /\ UNCHANGED got
       \/ /\ Lookup(r) = "valid"
          /\ got' = [got EXCEPT ![r] = First(r)]
          /\ Goto(r, "configure")
       \/ /\ Lookup(r) = "invalid"
          /\ Goto(r, "failed")
          /\ UNCHANGED got
    /\ UNCHANGED <<registry, sessionLoaded, loaded, want, confirmVars,
                   throttleVars, dialogs, browserVars, historyVars>>

Register(r) ==
    /\ pc[r] = "register"
    /\ registry' = Append(registry, want[r])
    /\ got' = [got EXCEPT ![r] = want[r]]
    /\ Goto(r, "configure")
    /\ UNCHANGED <<sessionLoaded, loaded, want, confirmVars, throttleVars,
                   dialogs, browserVars, historyVars>>

(* The settings are written into the session.  A disk without a checksum    *)
(* fails the request, whose session is registered by then.                 *)
Configure(r) ==
    /\ pc[r] = "configure"
    /\ \/ Goto(r, "granted")
       \/ "checksum" \in Faults /\ Goto(r, "failed")
    /\ UNCHANGED <<registryVars, confirmVars, throttleVars, dialogs,
                   browserVars, historyVars>>

-----------------------------------------------------------------------------
(* The end of the page.                                                    *)

\* Mutated form of Shutdown: the thread is joined but not woken.
ShutdownSilent ==
    /\ ~shuttingDown /\ browser = "free"
    /\ shuttingDown' = TRUE
    /\ IF pendingConfirm
       THEN confirmResult' = FALSE /\ browser' = "join"
       ELSE UNCHANGED <<confirmResult, browser>>
    /\ UNCHANGED <<pc, registryVars, pendingConfirm, throttleVars, dialogs,
                   lastThread, page, historyVars>>

Shutdown ==
    /\ ~shuttingDown /\ browser = "free"
    /\ shuttingDown' = TRUE
    /\ IF pendingConfirm
       THEN confirmResult' = FALSE /\ browser' = "wake"
       ELSE UNCHANGED <<confirmResult, browser>>
    /\ UNCHANGED <<pc, registryVars, pendingConfirm, throttleVars, dialogs,
                   lastThread, page, historyVars>>

ShutdownNotify ==
    /\ browser = "wake"
    /\ browser' = "join"
    /\ NotifyOne(pc)
    /\ UNCHANGED <<registryVars, confirmVars, throttleVars, dialogs,
                   lastThread, shuttingDown, page, answer, fresh, unasked, unread>>

(* The join of a thread that was never started returns at once. *)
Joined ==
    /\ browser = "join"
    /\ lastThread # NoThread => ~Running(lastThread)
    /\ browser' = "free"
    /\ UNCHANGED <<pc, registryVars, confirmVars, throttleVars, dialogs,
                   lastThread, shuttingDown, page, historyVars>>

-----------------------------------------------------------------------------

(* What the thread of r does by itself. *)
Thread(r) ==
    \/ Ready(r) \/ List(r) \/ Load(r) \/ LoadDone(r) \/ Remote(r)
    \/ Validate(r) \/ Ask(r) \/ Check(r) \/ Cancel(r) \/ CancelNotify(r)
    \/ Arm(r) \/ Enter(r) \/ WakeUp(r) \/ Confirmed(r) \/ Denied(r)
    \/ Find(r) \/ Register(r) \/ Configure(r)

Next ==
    \/ \E r \in Requests : Request(r) \/ Thread(r) \/ Spurious(r)
    \/ \E yes \in BOOLEAN : Answer(yes)
    \/ TimePasses
    \/ AnswerNotify \/ Shutdown \/ ShutdownNotify \/ Joined

Spec == Init /\ [][Next]_vars

(***************************************************************************)
(* Threads run, the user answers the dialog on the screen, and join()      *)
(* returns once the thread has ended.                                      *)
(***************************************************************************)
FairSpec ==
    /\ Spec
    /\ \A r \in Requests : WF_vars(Thread(r))
    /\ WF_vars(\E yes \in BOOLEAN : Answer(yes))
    /\ WF_vars(AnswerNotify \/ ShutdownNotify \/ Joined)

-----------------------------------------------------------------------------

(* Types; and no session is configured or handed out that does not exist   *)
(* (CVMWebAPI.cpp 427-431: the NULL of sessionOpen is not dereferenced).   *)
TypeOK ==
    /\ pc \in [Requests -> Places]
    /\ want \in [Requests -> Sessions \cup {NoSession}]
    /\ loaded \in [Requests -> 0 .. Len(Stored)]
    /\ got \in [Requests -> Sessions \cup {NoSession}]
    /\ registry \in Seq(Sessions)
    /\ sessionLoaded \in BOOLEAN
    /\ pendingConfirm \in BOOLEAN /\ confirmResult \in BOOLEAN
    /\ denies \in Nat /\ recent \in BOOLEAN /\ blocked \in BOOLEAN
    /\ dialogs \in Seq(Requests)
    /\ lastThread \in Requests \cup {NoThread}
    /\ shuttingDown \in BOOLEAN
    /\ browser \in {"free", "yes", "no", "wake", "join"}
    /\ page \in [patient : BOOLEAN, library : BOOLEAN]
    /\ answer \in [Requests -> {"none", "yes", "no"}]
    /\ fresh \in [Requests -> BOOLEAN]
    /\ unasked \in [Requests -> BOOLEAN]
    /\ lost \in BOOLEAN /\ unread \subseteq DOMAIN Stored
    /\ \A r \in Requests :
          pc[r] \in {"configure", "granted"} => got[r] # NoSession

(* A session is handed out only to a request that knows its secret, even   *)
(* when another request has registered the name with another secret since  *)
(* sessionValidate() was asked (Hypervisor.cpp 484-500).                   *)
KeyRespected ==
    \A r \in Requests : got[r] # NoSession => got[r] = want[r]

(* A request is confirmed only by a "yes" that came after it began to      *)
(* wait, however requests, cancellations and wake-ups mix; and the "yes"   *)
(* was said to its own question when the page makes one request at a time  *)
(* and no earlier question was left open (CVMWebAPI.cpp 701-743).          *)
Consent ==
    \A r \in Requests :
        pc[r] = "confirmed" =>
            /\ page.library => fresh[r]
            /\ page.patient /\ (\A q \in Requests : ~unasked[q])
                  => answer[r] = "yes"

Loading == \E r \in Requests : pc[r] \in {"list", "load"}

(* Once the sessions have been loaded, and as long as nobody loads them    *)
(* again, every VM of which VirtualBox told when it was last asked is      *)
(* known, even when requests that came together loaded them side by side:  *)
(* a listing, or the query of a secret, that fails costs the VMs it was    *)
(* about and no other (Virtualbox.cpp 1864-1875, 1897-1908, 2380-2424).    *)
StoredKnown ==
    sessionLoaded /\ ~Loading =>
        \A k \in DOMAIN Stored \ unread : \E i \in DOMAIN registry :
            registry[i] = Stored[k]

(* With one request at a time the sessions that pages hold stay in the     *)
(* registry, one for each name: a later request finds them, and the daemon *)
(* check counts them.                                                      *)
RegistryKeepsGranted ==
    page.patient =>
        /\ \A r \in Requests : pc[r] = "granted" =>
              \E i \in DOMAIN registry : registry[i] = got[r]
        /\ \A i, j \in DOMAIN registry :
              registry[i].name = registry[j].name => i = j

(* With one request at a time, a page is blocked only after the user said  *)
(* no, or the plugin gave up the question itself, at least twice           *)
(* (CVMWebAPI.cpp 406-413).                                                *)
BlockedAfterDenials ==
    page.patient /\ blocked =>
        Cardinality({r \in Requests : answer[r] = "no"})
            + Cardinality({r \in Requests : unasked[r]}) >= THROTTLE_TRIES

(* A request ends unless a notification was lost: one that came before its *)
(* thread waited (CVMWebAPI.cpp 727-739).  Nothing else makes one hang.    *)
RequestsEnd ==
    \A r \in Requests : []<>(~Running(r) \/ lost \/ shuttingDown)

(* With one request at a time the browser's thread gets out of shutdown(), *)
(* unless its notification was lost (CVMWebAPI.h 112-126).                 *)
ShutdownReturns ==
    []<>(page.patient => browser = "free" \/ lost)
=============================================================================
