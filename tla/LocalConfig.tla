----------------------------- MODULE LocalConfig -----------------------------
(***************************************************************************)
(* The file general.conf: the map every process that has a LocalConfig     *)
(* reads once, and writes as a whole for every key it sets.  Pages keep    *)
(* the local-id in it, from which the sessions' host ids are made, and the *)
(* daemon the idle-time.  No lock guards the file.                         *)
(***************************************************************************)
EXTENDS Naturals, FiniteSets

CONSTANTS
    Pages,        \* processes with a page
    TheDaemon,    \* the daemon's process
    MaxIds,       \* bound: generated ids
    MaxIdle       \* bound: idle-times; 1 is the default

ASSUME ConfigAssumption ==
    /\ TheDaemon \notin Pages
    /\ MaxIds \in Nat \ {0} /\ MaxIdle \in Nat \ {0}

VARIABLES
    confFile,     \* the file; 0 is no such key
    tornFile,     \* whether it was truncated under the hands of another writer
    lastId,       \* the last id that was generated
    process,      \* each process: where it is, its globalConfig, and what the file
                  \* held when it read or wrote it last (history)
    kept          \* history: the ids that host ids were made from, and the last
                  \* idle-time the daemon has saved; nothing once processes have
                  \* met in the file: it was written over unseen changes, read or
                  \* truncated while another wrote it, or left by a writer

configVars == <<confFile, tornFile, lastId, process, kept>>

Configs == [id : 0 .. MaxIds, idle : 0 .. MaxIdle]
NoKeys == [id |-> 0, idle |-> 0]
Processes == Pages \cup {TheDaemon}

ConfigTypeOK ==
    /\ confFile \in Configs
    /\ tornFile \in BOOLEAN
    /\ lastId \in 0 .. MaxIds
    /\ process \in [Processes -> [step : {"off", "on", "truncate", "idle", "id"},
                                  globalConfig : Configs, seen : Configs]]
    /\ kept \in {{}} \cup {{h} : h \in [used : SUBSET (1 .. MaxIds), idle : 0 .. MaxIdle]}

Off == [step |-> "off", globalConfig |-> NoKeys, seen |-> NoKeys]

ConfigInit ==
    /\ confFile = NoKeys
    /\ tornFile = FALSE
    /\ lastId = 0
    /\ process = [p \in Processes |-> Off]
    /\ kept = {[used |-> {}, idle |-> 0]}

Writers == {p \in Processes : process[p].step \in {"idle", "id"}}

\* loadMap(), at once: what a torn file holds is anyone's guess.
Readings ==
    {c \in Configs : /\ c.id \in {confFile.id} \cup (IF tornFile THEN {0} ELSE {})
                     /\ c.idle \in {confFile.idle} \cup (IF tornFile THEN {0} ELSE {})}

LoadMap(p) ==
    /\ process[p].step = "off"
    /\ \E c \in Readings :
          process' = [process EXCEPT ![p] =
              IF p = TheDaemon   \* saves its idle-time, or the default, when it starts
              THEN [step |-> "truncate", globalConfig |-> [c EXCEPT !.idle = IF @ = 0 THEN 1 ELSE @], seen |-> c]
              ELSE [step |-> "on", globalConfig |-> c, seen |-> c]]
    /\ kept' = IF tornFile \/ Writers # {} THEN {} ELSE kept
    /\ UNCHANGED <<confFile, tornFile, lastId>>

\* calculateHostID()
UseId(p) ==
    /\ p \in Pages /\ process[p].step = "on" /\ process[p].globalConfig.id # 0
    /\ kept' = {[h EXCEPT !.used = @ \cup {process[p].globalConfig.id}] : h \in kept}
    /\ UNCHANGED <<confFile, tornFile, lastId, process>>

MakeId(p) ==
    /\ p \in Pages /\ process[p].step = "on" /\ process[p].globalConfig.id = 0
    /\ lastId < MaxIds
    /\ lastId' = lastId + 1
    /\ process' = [process EXCEPT ![p] = [@ EXCEPT !.globalConfig.id = lastId + 1, !.step = "truncate"]]
    /\ UNCHANGED <<confFile, tornFile, kept>>

SetIdleTime(p) ==
    /\ p = TheDaemon /\ process[p].step = "on"
    /\ \E n \in 1 .. MaxIdle :
          process' = [process EXCEPT ![p] = [@ EXCEPT !.globalConfig.idle = n, !.step = "truncate"]]
    /\ UNCHANGED <<confFile, tornFile, lastId, kept>>

-----------------------------------------------------------------------------
(* saveMap().                                                              *)

Truncate(p) ==
    /\ process[p].step = "truncate"
    /\ process' = [process EXCEPT ![p].step = "idle"]
    /\ confFile' = NoKeys
    /\ tornFile' = (Writers # {})
    /\ kept' = IF Writers # {} \/ process[p].seen # confFile THEN {} ELSE kept
    /\ UNCHANGED lastId

\* Nobody looks at the result.
CannotOpen(p) ==
    /\ process[p].step = "truncate"
    /\ process' = [process EXCEPT ![p].step = "on"]
    /\ kept' = {}
    /\ UNCHANGED <<confFile, tornFile, lastId>>

\* Mutated form of WriteIdleTime: a page writes nothing but its own key.
WriteIdleTimeOwn(p) ==
    /\ process[p].step = "idle"
    /\ process' = [process EXCEPT ![p].step = "id"]
    /\ confFile' = [confFile EXCEPT !.idle = IF p \in Pages THEN @ ELSE process[p].globalConfig.idle]
    /\ UNCHANGED <<tornFile, lastId, kept>>

\* Every line is flushed on its own.
WriteIdleTime(p) ==
    /\ process[p].step = "idle"
    /\ process' = [process EXCEPT ![p].step = "id"]
    /\ confFile' = [confFile EXCEPT !.idle = IF process[p].globalConfig.idle = 0 THEN @
                                             ELSE process[p].globalConfig.idle]
    /\ UNCHANGED <<tornFile, lastId, kept>>

WriteId(p) ==
    /\ process[p].step = "id"
    /\ confFile' = [confFile EXCEPT !.id = IF process[p].globalConfig.id = 0 THEN @ ELSE process[p].globalConfig.id]
    /\ process' = [process EXCEPT ![p] = [@ EXCEPT !.step = "on", !.seen = process[p].globalConfig]]
    /\ kept' = IF p = TheDaemon THEN {[h EXCEPT !.idle = process[p].globalConfig.idle] : h \in kept} ELSE kept
    /\ UNCHANGED <<tornFile, lastId>>

\* The browser or the daemon ends, or crashes, anywhere.
End(p) ==
    /\ process[p].step # "off"
    /\ process' = [process EXCEPT ![p] = Off]
    /\ kept' = IF p \in Writers THEN {} ELSE kept
    /\ UNCHANGED <<confFile, tornFile, lastId>>

ConfigNext ==
    \E p \in Processes :
        \/ LoadMap(p) \/ UseId(p) \/ MakeId(p) \/ SetIdleTime(p)
        \/ Truncate(p) \/ CannotOpen(p) \/ WriteIdleTime(p) \/ WriteId(p) \/ End(p)

ConfigSpec == ConfigInit /\ [][ConfigNext]_configVars

-----------------------------------------------------------------------------

\* Processes come and go, each with a map of its own, and none takes back what
\* another has saved, unless they meet in the file: all host ids are made from
\* one id, which is in the file, with the idle-time the daemon has saved last.
SettingsKept ==
    \A h \in kept :
        /\ Cardinality(h.used) <= 1
        /\ Writers = {} => h.used \subseteq {confFile.id} /\ confFile.idle = h.idle
=============================================================================
