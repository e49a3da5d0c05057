------------------------------ MODULE ApiProbe ------------------------------
(***************************************************************************)
(* Whether the guest's API is alive, as the page is told: the probe timer  *)
(* of CVMWebAPISession, the threads it starts, and the threads of calls    *)
(* and refreshes that stop and start the timer and take the API back.      *)
(* What the calls do to the machine is in VBoxSession.                     *)
(***************************************************************************)
EXTENDS Naturals

CONSTANTS
    Slots,        \* bound: threads of calls and refreshes at once
    Probes        \* bound: probe threads at once

VARIABLES
    sessionState, \* session->state, outside of open and start
    probeTimer,   \* whether the timer runs
    isAlive,
    guest,        \* the guest's API: "up", "down", or "hung": accepts and is silent
    thread,       \* each slot: the call or refresh in it, and how far it is
    probe,        \* each probe: how far it is
    botched       \* history: a thread that may stop the timer and one that may start
                  \* it were underway at once, or a close failed

probeVars == <<sessionState, probeTimer, isAlive, guest, thread, probe, botched>>

\* What hibernate() does here is what stop() does.  "gone" is a refresh that has
\* not found the machine.
Calls == {"open", "start", "pause", "resume", "reset", "stop", "close", "update"}
States == {"CLOSED", "OPEN", "STARTED", "PAUSED"}

ProbeTypeOK ==
    /\ sessionState \in States
    /\ probeTimer \in BOOLEAN /\ isAlive \in BOOLEAN
    /\ guest \in {"up", "down", "hung"}
    /\ thread \in [Slots -> [call : Calls \cup {"gone", "none"},
                             step : {"act", "timer", "clear", "closed"}, old : States]]
    /\ probe \in [Probes -> {"none", "look", "ask", "askAlive", "up", "down"}]
    /\ botched \in BOOLEAN

Resting == [call |-> "none", step |-> "act", old |-> "CLOSED"]

ProbeInit ==
    /\ sessionState = "CLOSED"
    /\ probeTimer = TRUE         \* the constructor starts it
    /\ isAlive = FALSE
    /\ guest = "down"
    /\ thread = [s \in Slots |-> Resting]
    /\ probe = [p \in Probes |-> "none"]
    /\ botched = FALSE

-----------------------------------------------------------------------------
(* Calls and refreshes.                                                    *)

Accepted(call) ==
    CASE call = "open" -> sessionState = "CLOSED"
      [] call = "start" -> sessionState = "OPEN"
      [] call = "resume" -> sessionState = "PAUSED"
      [] call \in {"close", "update"} -> sessionState # "CLOSED"
      [] OTHER -> sessionState = "STARTED"

MayStop == {"pause", "close", "update", "gone"}
MayStart == {"open", "start", "resume", "update"}

PageCall(s) ==
    /\ thread[s] = Resting
    /\ \E call \in Calls :
          /\ Accepted(call)
          /\ call = "update" => \A u \in Slots : thread[u].call \notin {"update", "gone"}
          /\ thread' = [thread EXCEPT ![s] = [call |-> call, step |-> "act",
                                              old |-> IF call = "update" THEN sessionState ELSE "CLOSED"]]
          /\ botched' = (botched \/ \E u \in Slots \ {s} :
                                       \/ call \in MayStop /\ thread[u].call \in MayStart
                                       \/ call \in MayStart /\ thread[u].call \in MayStop)
    /\ UNCHANGED <<sessionState, probeTimer, isAlive, guest, probe>>

\* Where the session's state goes.  open, start and close may fail, a call that
\* another has overtaken does nothing, and a refresh may find any state.
Outcomes(t) ==
    IF t.call = "update" THEN {sessionState, "OPEN", "STARTED", "PAUSED"}
    ELSE IF ~Accepted(t.call) THEN {sessionState}
    ELSE CASE t.call = "open" -> {"CLOSED", "OPEN"}
           [] t.call = "start" -> {"OPEN", "STARTED"}
           [] t.call = "close" -> {sessionState, "CLOSED"}
           [] t.call = "pause" -> {"PAUSED"}
           [] t.call \in {"resume", "reset"} -> {"STARTED"}
           [] OTHER -> {"OPEN"}

\* Mutated form of AfterAct: resume() leaves the timer to the next refresh.
AfterActNotResumed(call) ==
    CASE call = "pause" -> "close" [] call = "start" -> "open" [] call \in {"resume", "reset"} -> "stop"
      [] OTHER -> call

\* What follows is the same for these calls.
AfterAct(call) ==
    CASE call = "pause" -> "close" [] call \in {"start", "resume"} -> "open" [] call = "reset" -> "stop"
      [] OTHER -> call

\* A machine that has not run on has no API.  Asked while it is paused, it may be
\* silent.
Act(s) ==
    /\ thread[s].call # "none" /\ thread[s].step = "act"
    /\ sessionState' \in Outcomes(thread[s])
    /\ guest' \in IF sessionState' = "STARTED" /\ sessionState = "STARTED" /\ thread[s].call # "reset"
                  THEN {guest} ELSE IF sessionState' = "PAUSED" THEN {"down", "hung"} ELSE {"down"}
    /\ thread' = [thread EXCEPT ![s] =
                     IF @.call = "update" /\ sessionState' = @.old THEN Resting
                     ELSE [call |-> AfterAct(@.call), step |-> "timer", old |-> "CLOSED"]]
    /\ botched' = (botched \/ (thread[s].call = "close" /\ sessionState' # "CLOSED"))
    /\ UNCHANGED <<probeTimer, isAlive, probe>>

\* A refresh does not find the machine: the session is closed in the end.
Vanished(s) ==
    /\ thread[s].call = "update" /\ thread[s].step = "act"
    /\ thread' = [thread EXCEPT ![s] = [call |-> "gone", step |-> "timer", old |-> "CLOSED"]]
    /\ guest' = "down"
    /\ UNCHANGED <<sessionState, probeTimer, isAlive, probe, botched>>

\* What a thread does with the timer, and whether it takes the API back.  A
\* refresh looks at the state again.
Stops(t) == t.call \in {"close", "gone"} \/ (t.call = "update" /\ sessionState = "PAUSED")

Starts(t) == t.call = "open" \/ (t.call = "update" /\ sessionState \in {"OPEN", "STARTED"})

Cleared(t) == IF t.call = "gone" THEN [t EXCEPT !.step = "closed"] ELSE Resting

\* With the timer, a thread that takes the API back looks whether it is alive.
SwitchTimer(s) ==
    /\ thread[s].step = "timer"
    /\ probeTimer' = ((probeTimer \/ Starts(thread[s])) /\ ~Stops(thread[s]))
    /\ thread' = [thread EXCEPT ![s] =
                     IF @.call # "stop" /\ ~Stops(@) THEN Resting
                     ELSE IF isAlive THEN [@ EXCEPT !.step = "clear"] ELSE Cleared(@)]
    /\ UNCHANGED <<sessionState, isAlive, guest, probe, botched>>

\* The API is taken back after it was seen.
ClearAlive(s) ==
    /\ thread[s].step = "clear"
    /\ isAlive' = FALSE
    /\ thread' = [thread EXCEPT ![s] = Cleared(@)]
    /\ UNCHANGED <<sessionState, probeTimer, guest, probe, botched>>

MarkClosed(s) ==
    /\ thread[s].step = "closed"
    /\ sessionState' = "CLOSED"
    /\ guest' = "down"
    /\ thread' = [thread EXCEPT ![s] = Resting]
    /\ UNCHANGED <<probeTimer, isAlive, probe, botched>>

-----------------------------------------------------------------------------
(* Probes.                                                                 *)

ProbeGo(p, from, to) ==
    /\ probe[p] = from
    /\ probe' = [probe EXCEPT ![p] = to]
    /\ UNCHANGED <<sessionState, probeTimer, guest, thread, botched>>

Tick(p) == probeTimer /\ ProbeGo(p, "none", "look") /\ UNCHANGED isAlive

Look(p) ==
    /\ ProbeGo(p, "look", IF sessionState = "STARTED" THEN IF isAlive THEN "askAlive" ELSE "ask"
                          ELSE IF isAlive THEN "down" ELSE "none")
    /\ UNCHANGED isAlive

\* isPortOpen() waits for the answer without a limit.
Ask(p) ==
    /\ guest # "hung"
    /\ \/ ProbeGo(p, "ask", IF guest = "up" THEN "up" ELSE "none")
       \/ ProbeGo(p, "askAlive", IF guest = "up" THEN "none" ELSE "down")
    /\ UNCHANGED isAlive

Tell(p) ==
    \/ ProbeGo(p, "up", "none") /\ isAlive' = TRUE
    \/ ProbeGo(p, "down", "none") /\ isAlive' = FALSE

GuestMoves ==
    /\ sessionState = "STARTED"
    /\ guest' \in {"up", "down", "hung"} \ {guest}
    /\ UNCHANGED <<sessionState, probeTimer, isAlive, thread, probe, botched>>

InThread(s) ==
    Act(s) \/ Vanished(s) \/ SwitchTimer(s) \/ ClearAlive(s) \/ MarkClosed(s)
InProbe(p) == Tick(p) \/ Look(p) \/ Ask(p) \/ Tell(p)

ProbeNext ==
    \/ GuestMoves
    \/ \E s \in Slots : PageCall(s) \/ InThread(s)
    \/ \E p \in Probes : InProbe(p)

ProbeSpec == ProbeInit /\ [][ProbeNext]_probeVars

FairProbe ==
    /\ ProbeSpec
    /\ \A s \in Slots : WF_probeVars(InThread(s))
    /\ \A p \in Probes : WF_probeVars(InProbe(p))

-----------------------------------------------------------------------------

\* A probe that has asked before a pause or a close tells its answer after it,
\* and no other will correct it.
LateAnswer == isAlive /\ sessionState # "STARTED" /\ ~probeTimer

\* Once the page and the guest's API leave the session alone, what the page is
\* told settles on the truth, a late answer excepted: the timer runs wherever it
\* is needed.  A stop of the timer that races a start of it, or a close that has
\* failed, may leave it stopped.
LiveSettles ==
    (/\ []~botched
     /\ <>[](guest # "hung")
     /\ <>[][~GuestMoves /\ \A s \in Slots : ~PageCall(s)]_probeVars)
    => <>[](LateAnswer \/ isAlive = (sessionState = "STARTED" /\ guest = "up"))
=============================================================================
