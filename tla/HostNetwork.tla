----------------------------- MODULE HostNetwork -----------------------------
(***************************************************************************)
(* VBoxSession::getHostOnlyAdapter(), which open() calls for a machine     *)
(* with two network cards: it finds or creates a host-only interface, and  *)
(* finds, enables or adds the DHCP server that gives the guest the address *)
(* on which its API is asked for.  The commands of sessions that open side *)
(* by side have different mutexes: nothing keeps them apart.               *)
(***************************************************************************)
EXTENDS Naturals

CONSTANTS
    Openings,     \* threads that open such a machine
    MaxAdapters   \* as many interfaces as the host can have

ASSUME HostAssumption == MaxAdapters \in Nat \ {0}

VARIABLES
    adapters,     \* the host's interfaces are 1 .. adapters, in the order of the list
    server,       \* the DHCP server of each
    made,         \* history: how many calls have created some of them
    sideBySide,   \* history: two threads have been in getHostOnlyAdapter() at once
    opening       \* each thread: where it is, and what it has seen

hostVars == <<adapters, server, made, sideBySide, opening>>

All == 1 .. MaxAdapters

\* A server without addresses has to get them before it can be enabled.
Servers == {"none", "blank", "off", "on"}

HostSteps == {"idle", "list", "create", "relist", "servers", "modify", "enable", "add", "done", "failed"}

\* seen: how many interfaces were listed; dhcp: their servers, when listed; at:
\* the interface that is looked at; fault: whether a command has failed.
Away == [step |-> "idle", seen |-> 0, dhcp |-> [i \in All |-> "none"], at |-> 0, fault |-> FALSE]

HostTypeOK ==
    /\ adapters \in 0 .. MaxAdapters /\ made \in 0 .. MaxAdapters
    /\ server \in [All -> Servers]
    /\ sideBySide \in BOOLEAN
    /\ opening \in [Openings -> [step : HostSteps, seen : 0 .. MaxAdapters, dhcp : [All -> Servers],
                                 at : 0 .. MaxAdapters, fault : BOOLEAN]]

HostInit ==
    /\ adapters \in 0 .. MaxAdapters
    /\ server \in {s \in [All -> Servers] : \A i \in All : i > adapters => s[i] = "none"}
    /\ made = 0
    /\ sideBySide = FALSE
    /\ opening = [o \in Openings |-> Away]

Outside(o) == opening[o].step \in {"idle", "done", "failed"}

Moves(o, record) == opening' = [opening EXCEPT ![o] = record]
Onto(o, step) == Moves(o, [opening[o] EXCEPT !.step = step])

\* A command has failed, and the adapter is not named: open() gives up.
GivesUp(o) == Moves(o, [opening[o] EXCEPT !.step = "failed", !.fault = TRUE])

-----------------------------------------------------------------------------

GetHostOnlyAdapter(o) ==
    /\ Outside(o)
    /\ Moves(o, [Away EXCEPT !.step = "list"])
    /\ sideBySide' = (sideBySide \/ \E p \in Openings \ {o} : ~Outside(p))
    /\ UNCHANGED <<adapters, server, made>>

ListInterfaces(o) ==
    /\ opening[o].step = "list"
    /\ \/ GivesUp(o)
       \/ IF adapters = 0 THEN Onto(o, "create")
          ELSE Moves(o, [opening[o] EXCEPT !.step = "servers", !.seen = adapters])
    /\ UNCHANGED <<adapters, server, made, sideBySide>>

\* hostonlyif create, tried twice: a try that fails may have created one.
CreateInterface(o) ==
    /\ opening[o].step = "create"
    /\ \E more \in 0 .. 2 :
          /\ adapters + more <= MaxAdapters
          /\ adapters' = adapters + more
          /\ made' = IF more > 0 THEN made + 1 ELSE made
          /\ server' \in {s \in [All -> Servers] : \A i \in All : i \notin adapters + 1 .. adapters + more
                                                                  => s[i] = server[i]}
          /\ \/ GivesUp(o)
             \/ more > 0 /\ Moves(o, [opening[o] EXCEPT !.step = "relist", !.fault = more = 2])
    /\ UNCHANGED sideBySide

\* The list is not empty, this time.
Relist(o) ==
    /\ opening[o].step = "relist"
    /\ \/ GivesUp(o)
       \/ Moves(o, [opening[o] EXCEPT !.step = "servers", !.seen = adapters])
    /\ UNCHANGED <<adapters, server, made, sideBySide>>

\* What a disabled or enabled server asks for.
Deal(now) == IF now = "on" THEN "done" ELSE IF now = "off" THEN "enable" ELSE "modify"

\* The interfaces from i on, as the lists tell: one that is served ends the search,
\* and those without a server are passed over.
Search(o, record, i) ==
    \/ /\ \A k \in i .. record.seen : record.dhcp[k] = "none"
       /\ Moves(o, [record EXCEPT !.step = "add"])
    \/ \E j \in i .. record.seen :
          /\ record.dhcp[j] # "none"
          /\ \A k \in i .. (j - 1) : record.dhcp[k] = "none"
          /\ Moves(o, [record EXCEPT !.at = j, !.step = Deal(record.dhcp[j])])

ListServers(o) ==
    /\ opening[o].step = "servers"
    /\ \/ GivesUp(o)
       \/ Search(o, [opening[o] EXCEPT !.dhcp = server], 1)
    /\ UNCHANGED <<adapters, server, made, sideBySide>>

\* A failure is passed over, too.
PassOver(o) == Search(o, [opening[o] EXCEPT !.fault = TRUE], opening[o].at + 1)

Serves(i, now) == server' = [server EXCEPT ![i] = now]

\* dhcpserver modify --ip: gives the addresses, and may have done so when it fails.
ModifyServer(o) ==
    /\ opening[o].step = "modify"
    /\ LET i == opening[o].at
           addressed == IF server[i] = "blank" THEN "off" ELSE server[i] IN
       \/ Serves(i, addressed) /\ Onto(o, "enable")
       \/ server' \in {server, [server EXCEPT ![i] = addressed]} /\ PassOver(o)
    /\ UNCHANGED <<adapters, made, sideBySide>>

EnableServer(o) ==
    /\ opening[o].step = "enable"
    /\ \/ Serves(opening[o].at, "on") /\ Onto(o, "done")
       \/ server' \in {server, [server EXCEPT ![opening[o].at] = "on"]} /\ PassOver(o)
    /\ UNCHANGED <<adapters, made, sideBySide>>

\* Mutated form of AddServer: its answer is not looked at.
AddServerBlind(o) ==
    /\ opening[o].step = "add"
    /\ \/ server[1] = "none" /\ Serves(1, "on")
       \/ UNCHANGED server
    /\ Onto(o, "done")
    /\ UNCHANGED <<adapters, made, sideBySide>>

\* dhcpserver add, for the first interface.  VirtualBox refuses a second server,
\* and so does the retry of a try that has added one and failed.
AddServer(o) ==
    /\ opening[o].step = "add"
    /\ \/ server[1] = "none" /\ Serves(1, "on") /\ Onto(o, "done")
       \/ server[1] = "none" /\ server' \in {server, [server EXCEPT ![1] = "on"]} /\ GivesUp(o)
       \/ server[1] # "none" /\ Onto(o, "failed") /\ UNCHANGED server
    /\ UNCHANGED <<adapters, made, sideBySide>>

HostNext ==
    \E o \in Openings :
        \/ GetHostOnlyAdapter(o) \/ ListInterfaces(o) \/ CreateInterface(o) \/ Relist(o)
        \/ ListServers(o) \/ ModifyServer(o) \/ EnableServer(o) \/ AddServer(o)

HostSpec == HostInit /\ [][HostNext]_hostVars

-----------------------------------------------------------------------------

\* getHostOnlyAdapter() always names the first interface, also when it has found
\* the server at another one.  So what an open relies on is weaker than what the
\* guest needs: some interface has a server, the named one if it is the only one.
\* And only sessions that open side by side make a call fail none of whose
\* commands has, or create interfaces twice.
AdapterServed ==
    /\ made > 1 => sideBySide
    /\ \A o \in Openings :
          /\ opening[o].step = "done" => \E i \in 1 .. adapters : server[i] = "on"
          /\ opening[o].step = "failed" => opening[o].fault \/ sideBySide
=============================================================================
