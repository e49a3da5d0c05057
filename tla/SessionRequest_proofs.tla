------------------------ MODULE SessionRequest_proofs ------------------------
(***************************************************************************)
(* Safety of SessionRequest for every set of requests, answers of the      *)
(* server, stored VMs and faults.                                          *)
(*                                                                         *)
(* What holds for all pages rests on the order of a few steps: the result  *)
(* is reset when a thread arms itself, and a thread that clears the        *)
(* registry has still to load every VM.  What holds for a patient page     *)
(* rests on one fact, that at most one request runs.                       *)
(***************************************************************************)
EXTENDS SessionRequest, FiniteSetTheorems, SequenceTheorems, WellFoundedInduction, TLAPS

\* Who has been told what to open, who has passed waitTillReady().
Informed == {"validate", "ask", "check", "cancel", "notify", "arm", "enter",
             "waiting", "woken", "direct", "confirmed", "denied", "find", "register",
             "configure", "granted"}

Locals ==
    \A r \in Requests :
        /\ pc[r] \in Informed => want[r] \in Sessions
        /\ pc[r] \in Informed \cup {"remote"} => sessionLoaded
        /\ pc[r] # "load" => loaded[r] = 0
        /\ got[r] # NoSession =>
              sessionLoaded /\ pc[r] \in {"configure", "granted", "failed"}

(* Without the library the threads that wait for the user are those whose  *)
(* questions are open.                                                     *)
DirectInv ==
    ~page.library =>
        /\ \A i \in DOMAIN dialogs : pc[dialogs[i]] = "direct"
        /\ \A i, j \in DOMAIN dialogs : dialogs[i] = dialogs[j] => i = j

(* A "yes" that a thread can still read was said after it was armed. *)
FreshInv ==
    \A r \in Requests :
        /\ pc[r] \in Armed /\ confirmResult => fresh[r]
        /\ pc[r] = "confirmed" /\ page.library => fresh[r]

(* A VM that a finished loop should have found is known, unless VirtualBox *)
(* did not tell of it, or another thread is still going to read it.        *)
Known(k) == \E i \in DOMAIN registry : registry[i] = Stored[k]
Pending(q, k) == pc[q] = "load" /\ loaded[q] < k

LoadInv ==
    \A k \in DOMAIN Stored :
        sessionLoaded \/ (\E r \in Requests : pc[r] = "load" /\ k <= loaded[r])
            => \/ k \in unread
               \/ Known(k)
               \/ \E q \in Requests : Pending(q, k)

(* One request at a time. *)
Alone == \A q, r \in Requests : Running(q) /\ Running(r) => q = r

(* The browser's thread joins only to shut down. *)
Joining == browser \in {"wake", "join"} => shuttingDown

(* Its question is the only one, open until it is answered; until the      *)
(* notification its thread stays where the answer found it or waits.       *)
Open == {"check", "cancel", "notify", "arm", "enter", "waiting", "direct"}
OwnQuestion ==
    (\A q \in Requests : ~unasked[q]) =>
        /\ ~shuttingDown =>
              /\ Len(dialogs) <= 1
              /\ Len(dialogs) = 1 => pc[dialogs[1]] \in Open
        /\ browser \in {"yes", "no"} =>
              /\ Len(dialogs) = 0
              /\ \A r \in Requests : Running(r) => pc[r] \in Open
        /\ \A r \in Requests :
              /\ pc[r] \in Armed /\ confirmResult => answer[r] = "yes"
              /\ pc[r] = "confirmed" => answer[r] = "yes"

(* While it loads the registry holds what it has read; afterwards nothing  *)
(* leaves it.                                                              *)
OneLoad ==
    /\ \A r \in Requests : pc[r] \in {"list", "load"} => ~sessionLoaded
    /\ \A r \in Requests : got[r] # NoSession =>
          \E i \in DOMAIN registry : registry[i] = got[r]
    /\ ~sessionLoaded => \A i \in DOMAIN registry : \E r \in Requests :
          pc[r] = "load" /\ \E k \in 1 .. loaded[r] : registry[i] = Stored[k]
    /\ \A r \in Requests : pc[r] = "register" => Named(r) = {}
    /\ \A i, j \in DOMAIN registry :
          registry[i].name = registry[j].name => i = j

Patient == page.patient => Alone /\ OwnQuestion /\ OneLoad

IInv ==
    /\ TypeOK /\ KeyRespected /\ Locals
    /\ DirectInv /\ FreshInv /\ LoadInv /\ Joining /\ Patient

-----------------------------------------------------------------------------
(* Data.                                                                   *)

\* What the constants give.
LEMMA Constants ==
    /\ Len(Stored) \in Nat
    /\ \A k \in 1 .. Len(Stored) : Stored[k] \in Sessions
    /\ \A r \in Requests : Wanted[r] \subseteq Sessions
    /\ NoSession \notin Sessions /\ NoThread \notin Requests
  <1>1. /\ Stored \in Seq(Sessions)
        /\ Wanted \in [Requests -> SUBSET Sessions]
        /\ NoSession \notin Sessions /\ NoThread \notin Requests
    BY RequestAssumption
  <1>2. /\ Len(Stored) \in Nat
        /\ \A k \in 1 .. Len(Stored) : Stored[k] \in Sessions
    BY <1>1, ElementOfSeq, LenProperties
  <1> QED
    BY <1>1, <1>2

\* A set of numbers has a least one.
LEMMA LeastIndex ==
    ASSUME NEW T \in SUBSET Nat, T # {}
    PROVE  \E i \in T : \A j \in T : i <= j
  <1> DEFINE Less == OpToRel(<, Nat)
  <1>1. IsWellFoundedOn(Less, Nat)
    BY NatLessThanWellFounded
  <1>2. \A i, j \in Nat : j < i => <<j, i>> \in Less
    BY DEF OpToRel
  <1> HIDE DEF Less
  <1>3. \E i \in T : \A j \in T : <<j, i>> \notin Less
    BY <1>1, WFMin, Zenon
  <1>4. \E i \in T : \A j \in T : ~(j < i)
    BY <1>2, <1>3, Zenon
  <1> QED
    BY <1>4

\* The first session of a name has that name.
LEMMA FirstNamed ==
    ASSUME TypeOK, NEW r \in Requests, Named(r) # {}
    PROVE  /\ First(r) \in Sessions
           /\ First(r).name = want[r].name
           /\ \E i \in DOMAIN registry : registry[i] = First(r)
  <1>1. registry \in Seq(Sessions) /\ DOMAIN registry = 1 .. Len(registry)
    BY LenProperties DEF TypeOK
  <1>2. Named(r) \in SUBSET Nat /\ Len(registry) \in Nat
    BY <1>1, LenProperties DEF Named
  <1> DEFINE first == CHOOSE i \in Named(r) : \A j \in Named(r) : i <= j
  <1>3. first \in Named(r)
    BY <1>2, LeastIndex
  <1>4. First(r) = registry[first]
    BY DEF First
  <1> HIDE DEF first
  <1>5. first \in 1 .. Len(registry) /\ registry[first].name = want[r].name
    BY <1>1, <1>3 DEF Named
  <1>6. registry[first] \in Sessions
    BY <1>1, <1>5, ElementOfSeq
  <1> QED
    BY <1>1, <1>4, <1>5, <1>6

-----------------------------------------------------------------------------
(* Types, and what a thread knows about itself.                            *)

\* Every step keeps the types.
LEMMA TypeStep ==
    ASSUME TypeOK, Locals, [Next]_vars
    PROVE  TypeOK'
  <1> USE Constants
  <1>1. ASSUME NEW r \in Requests, Request(r)  PROVE TypeOK'
    BY <1>1
    DEF Request, Goto, TypeOK, Places, Ended, registryVars,
        confirmVars, throttleVars, browserVars, historyVars
  <1>2. ASSUME NEW r \in Requests, Ready(r)  PROVE TypeOK'
    BY <1>2
    DEF Ready, Goto, TypeOK, Places, Ended, registryVars,
        confirmVars, throttleVars, browserVars, historyVars
  <1>3. ASSUME NEW r \in Requests, List(r)  PROVE TypeOK'
    <2>1. \E place \in Places :
          pc' = [pc EXCEPT ![r] = place] /\ place \notin {"configure", "granted"}
      BY <1>3 DEF List, Goto, Places, Ended
    <2>2. loaded' \in [Requests -> 0 .. Len(Stored)]
      <3>1. loaded \in [Requests -> 0 .. Len(Stored)]
        BY DEF TypeOK
      <3> QED
        BY <3>1, <1>3 DEF List, throttleVars
    <2>3. registry' \in Seq(Sessions)
      <3>1. registry \in Seq(Sessions)
        BY DEF TypeOK
      <3> QED
        BY <3>1, <1>3, EmptySeq, Zenon DEF List, throttleVars
    <2>4. unread' \subseteq DOMAIN Stored
      BY <1>3, Zenon DEF List, TypeOK
    <2>5. UNCHANGED <<sessionLoaded, want, got, confirmVars, throttleVars,
                      dialogs, browserVars, answer, fresh, unasked, lost>>
      BY <1>3 DEF List
    <2>6. /\ pc' \in [Requests -> Places]
          /\ \A q \in Requests :
                pc'[q] \in {"configure", "granted"} => got'[q] # NoSession
      BY <2>1, <2>5 DEF TypeOK, registryVars
    <2> QED
      BY <2>2, <2>3, <2>4, <2>5, <2>6
      DEF TypeOK, registryVars,
        confirmVars, throttleVars, browserVars, historyVars
  <1>4. ASSUME NEW r \in Requests, Load(r)  PROVE TypeOK'
    <2>1. /\ loaded \in [Requests -> 0 .. Len(Stored)] /\ loaded[r] < Len(Stored)
          /\ loaded' = [loaded EXCEPT ![r] = loaded[r] + 1]
          /\ registry \in Seq(Sessions) /\ unread \subseteq DOMAIN Stored
      BY <1>4 DEF Load, TypeOK
    <2>2. /\ loaded[r] + 1 \in 0 .. Len(Stored) /\ loaded[r] + 1 \in DOMAIN Stored
          /\ Stored[loaded[r] + 1] \in Sessions
      BY <2>1, Constants, RequestAssumption, LenProperties
    <2>3. registry' \in Seq(Sessions) /\ unread' \subseteq DOMAIN Stored
      <3>1. CASE registry' = Append(registry, Stored[loaded[r] + 1])
                 /\ unread' = unread \ {loaded[r] + 1}
        BY <2>1, <2>2, <3>1, AppendProperties
      <3>2. CASE UNCHANGED registry /\ unread' = unread \cup {loaded[r] + 1}
        BY <2>1, <2>2, <3>2
      <3> QED
        BY <1>4, <3>1, <3>2, Zenon DEF Load
    <2>4. loaded' \in [Requests -> 0 .. Len(Stored)]
      BY <2>1, <2>2
    <2>5. UNCHANGED <<pc, sessionLoaded, want, got, confirmVars, throttleVars,
                      dialogs, browserVars, answer, fresh, unasked, lost>>
      BY <1>4 DEF Load
    <2> QED
      BY <2>3, <2>4, <2>5 DEF TypeOK, confirmVars, throttleVars, browserVars
  <1>5. ASSUME NEW r \in Requests, LoadDone(r)  PROVE TypeOK'
    BY <1>5
    DEF LoadDone, Goto, TypeOK, Places, Ended, registryVars,
        confirmVars, throttleVars, browserVars, historyVars
  <1>6. ASSUME NEW r \in Requests, Remote(r)  PROVE TypeOK'
    <2>1. \E place \in Places :
          pc' = [pc EXCEPT ![r] = place] /\ place \notin {"configure", "granted"}
      BY <1>6 DEF Remote, Goto, Places, Ended
    <2>2. want' \in [Requests -> Sessions \cup {NoSession}]
      <3>1. want \in [Requests -> Sessions \cup {NoSession}]
        BY DEF TypeOK
      <3> QED
        BY <3>1, <1>6 DEF Remote, throttleVars
    <2>3. UNCHANGED <<registry, sessionLoaded, loaded, got, confirmVars,
                      throttleVars, dialogs, browserVars, historyVars>>
      BY <1>6 DEF Remote
    <2>4. /\ pc' \in [Requests -> Places]
          /\ \A q \in Requests :
                pc'[q] \in {"configure", "granted"} => got'[q] # NoSession
      BY <2>1, <2>3 DEF TypeOK, registryVars
    <2> QED
      BY <2>2, <2>3, <2>4
      DEF TypeOK, registryVars,
        confirmVars, throttleVars, browserVars, historyVars
  <1>7. ASSUME NEW r \in Requests, Validate(r)  PROVE TypeOK'
    <2>1. \E place \in Places :
          pc' = [pc EXCEPT ![r] = place] /\ place \notin {"configure", "granted"}
      BY <1>7 DEF Validate, Goto, Places, Ended
    <2>2. UNCHANGED <<registryVars, confirmVars, throttleVars, dialogs,
                      browserVars, historyVars>>
      BY <1>7 DEF Validate
    <2>3. /\ pc' \in [Requests -> Places]
          /\ \A q \in Requests :
                pc'[q] \in {"configure", "granted"} => got'[q] # NoSession
      BY <2>1, <2>2 DEF TypeOK, registryVars
    <2> QED
      BY <2>2, <2>3
      DEF TypeOK, registryVars,
        confirmVars, throttleVars, browserVars, historyVars
  <1>8. ASSUME NEW r \in Requests, Ask(r)  PROVE TypeOK'
    <2>1. \E place \in Places :
          pc' = [pc EXCEPT ![r] = place] /\ place \notin {"configure", "granted"}
      BY <1>8 DEF Ask, Goto, Places, Ended
    <2>2. dialogs' \in Seq(Requests)
      <3>1. dialogs \in Seq(Requests)
        BY DEF TypeOK
      <3> QED
        BY <3>1, <1>8 DEF Ask, throttleVars
    <2>3. unasked' \in [Requests -> BOOLEAN]
      <3>1. unasked \in [Requests -> BOOLEAN]
        BY DEF TypeOK
      <3> QED
        BY <3>1, <1>8 DEF Ask, throttleVars
    <2>4. UNCHANGED <<registryVars, confirmVars, throttleVars, browserVars,
                      answer, fresh, lost, unread>>
      BY <1>8 DEF Ask
    <2>5. /\ pc' \in [Requests -> Places]
          /\ \A q \in Requests :
                pc'[q] \in {"configure", "granted"} => got'[q] # NoSession
      BY <2>1, <2>4 DEF TypeOK, registryVars
    <2> QED
      BY <2>2, <2>3, <2>4, <2>5
      DEF TypeOK, registryVars,
        confirmVars, throttleVars, browserVars, historyVars
  <1>9. ASSUME NEW r \in Requests, Check(r)  PROVE TypeOK'
    BY <1>9
    DEF Check, Goto, TypeOK, Places, Ended, registryVars,
        confirmVars, throttleVars, browserVars, historyVars
  <1>10. ASSUME NEW r \in Requests, Cancel(r)  PROVE TypeOK'
    <2>1. \E place \in Places :
          pc' = [pc EXCEPT ![r] = place] /\ place \notin {"configure", "granted"}
      BY <1>10 DEF Cancel, Goto, Places, Ended
    <2>2. confirmResult' \in BOOLEAN
      <3>1. confirmResult \in BOOLEAN
        BY DEF TypeOK
      <3> QED
        BY <3>1, <1>10 DEF Cancel, throttleVars
    <2>3. UNCHANGED <<registryVars, pendingConfirm, throttleVars, dialogs,
                      browserVars, historyVars>>
      BY <1>10 DEF Cancel
    <2>4. /\ pc' \in [Requests -> Places]
          /\ \A q \in Requests :
                pc'[q] \in {"configure", "granted"} => got'[q] # NoSession
      BY <2>1, <2>3 DEF TypeOK, registryVars
    <2> QED
      BY <2>2, <2>3, <2>4
      DEF TypeOK, registryVars,
        confirmVars, throttleVars, browserVars, historyVars
  <1>11. ASSUME NEW r \in Requests, CancelNotify(r)  PROVE TypeOK'
    <2>1. /\ pc' \in [Requests -> Places]
          /\ \A q \in Requests :
                pc'[q] \in {"configure", "granted"} => pc'[q] = pc[q]
      BY <1>11 DEF CancelNotify, NotifyOne, Waiting, TypeOK, Places, Ended
    <2>2. lost' \in BOOLEAN
      BY <1>11 DEF CancelNotify, NotifyOne, TypeOK
    <2>3. unasked' \in [Requests -> BOOLEAN]
      BY <1>11, Zenon DEF CancelNotify, Woken, TypeOK
    <2> QED
      BY <2>1, <2>2, <2>3, <1>11
      DEF CancelNotify, TypeOK, registryVars,
        confirmVars, throttleVars, browserVars, historyVars
  <1>12. ASSUME NEW r \in Requests, Arm(r)  PROVE TypeOK'
    BY <1>12
    DEF Arm, Goto, TypeOK, Places, Ended, registryVars,
        confirmVars, throttleVars, browserVars, historyVars
  <1>13. ASSUME NEW r \in Requests, Enter(r)  PROVE TypeOK'
    BY <1>13
    DEF Enter, Goto, TypeOK, Places, Ended, registryVars,
        confirmVars, throttleVars, browserVars, historyVars
  <1>14. ASSUME NEW r \in Requests, WakeUp(r)  PROVE TypeOK'
    <2>1. \E place \in Places :
          pc' = [pc EXCEPT ![r] = place] /\ place \notin {"configure", "granted"}
      <3>1. "confirmed" \in Places /\ "denied" \in Places
        BY DEF Places
      <3> QED
        BY <3>1, <1>14 DEF WakeUp, Goto
    <2>2. pendingConfirm' \in BOOLEAN
      <3>1. pendingConfirm \in BOOLEAN
        BY DEF TypeOK
      <3> QED
        BY <3>1, <1>14 DEF WakeUp, throttleVars
    <2>3. UNCHANGED <<registryVars, confirmResult, throttleVars, dialogs,
                      browserVars, historyVars>>
      BY <1>14 DEF WakeUp
    <2>4. /\ pc' \in [Requests -> Places]
          /\ \A q \in Requests :
                pc'[q] \in {"configure", "granted"} => got'[q] # NoSession
      BY <2>1, <2>3 DEF TypeOK, registryVars
    <2> QED
      BY <2>2, <2>3, <2>4
      DEF TypeOK, registryVars,
        confirmVars, throttleVars, browserVars, historyVars
  <1>15. ASSUME NEW r \in Requests, Confirmed(r)  PROVE TypeOK'
    <2>1. \E place \in Places :
          pc' = [pc EXCEPT ![r] = place] /\ place \notin {"configure", "granted"}
      BY <1>15 DEF Confirmed, Goto, Places, Ended
    <2>2. denies' \in Nat
      <3>1. denies \in Nat
        BY DEF TypeOK
      <3> QED
        BY <3>1, <1>15 DEF Confirmed, throttleVars
    <2>3. recent' \in BOOLEAN
      <3>1. recent \in BOOLEAN
        BY DEF TypeOK
      <3> QED
        BY <3>1, <1>15 DEF Confirmed, throttleVars
    <2>4. UNCHANGED <<registryVars, confirmVars, blocked, dialogs,
                      browserVars, historyVars>>
      BY <1>15 DEF Confirmed
    <2>5. /\ pc' \in [Requests -> Places]
          /\ \A q \in Requests :
                pc'[q] \in {"configure", "granted"} => got'[q] # NoSession
      BY <2>1, <2>4 DEF TypeOK, registryVars
    <2> QED
      BY <2>2, <2>3, <2>4, <2>5
      DEF TypeOK, registryVars,
        confirmVars, throttleVars, browserVars, historyVars
  <1>16. ASSUME NEW r \in Requests, Denied(r)  PROVE TypeOK'
    <2>1. \E place \in Places :
          pc' = [pc EXCEPT ![r] = place] /\ place \notin {"configure", "granted"}
      BY <1>16 DEF Denied, Goto, Places, Ended
    <2>2. denies' \in Nat
      <3>1. denies \in Nat
        BY DEF TypeOK
      <3> QED
        BY <3>1, <1>16 DEF Denied, throttleVars
    <2>3. recent' \in BOOLEAN /\ blocked' \in BOOLEAN
      <3>1. recent \in BOOLEAN /\ blocked \in BOOLEAN
        BY DEF TypeOK
      <3> QED
        BY <3>1, <1>16 DEF Denied, throttleVars
    <2>4. UNCHANGED <<registryVars, confirmVars, dialogs, browserVars,
                      historyVars>>
      BY <1>16 DEF Denied
    <2>5. /\ pc' \in [Requests -> Places]
          /\ \A q \in Requests :
                pc'[q] \in {"configure", "granted"} => got'[q] # NoSession
      BY <2>1, <2>4 DEF TypeOK, registryVars
    <2> QED
      BY <2>2, <2>3, <2>4, <2>5
      DEF TypeOK, registryVars,
        confirmVars, throttleVars, browserVars, historyVars
  <1>17. ASSUME NEW r \in Requests, Find(r)  PROVE TypeOK'
    <2>1. UNCHANGED <<registry, sessionLoaded, loaded, want, confirmVars,
                      throttleVars, dialogs, browserVars, historyVars>>
      BY <1>17 DEF Find
    <2>2. CASE Lookup(r) = "valid"
      <3>1. First(r) \in Sessions /\ First(r) # NoSession
        BY <2>2, FirstNamed DEF Lookup
      <3>2. /\ got' = [got EXCEPT ![r] = First(r)]
            /\ pc' = [pc EXCEPT ![r] = "configure"]
        BY <1>17, <2>2 DEF Find, Goto
      <3> QED
        BY <2>1, <3>1, <3>2
        DEF TypeOK, Places, Ended, registryVars,
        confirmVars, throttleVars, browserVars, historyVars
    <2>3. CASE Lookup(r) # "valid"
      <3>1. \E place \in {"register", "failed"} : pc' = [pc EXCEPT ![r] = place]
        BY <1>17, <2>3 DEF Find, Goto
      <3>2. got' = got
        BY <1>17, <2>3 DEF Find
      <3> QED
        BY <2>1, <3>1, <3>2
        DEF TypeOK, Places, Ended, registryVars,
        confirmVars, throttleVars, browserVars, historyVars
    <2> QED
      BY <2>2, <2>3
  <1>18. ASSUME NEW r \in Requests, Register(r)  PROVE TypeOK'
    BY <1>18
    DEF Register, Goto, TypeOK, Places, Ended, Locals, Informed, registryVars,
        confirmVars, throttleVars, browserVars, historyVars
  <1>19. ASSUME NEW r \in Requests, Configure(r)  PROVE TypeOK'
    <2>1. /\ \E place \in Places : pc' = [pc EXCEPT ![r] = place]
          /\ got[r] # NoSession
      BY <1>19 DEF Configure, Goto, TypeOK, Places, Ended
    <2>2. UNCHANGED <<registryVars, confirmVars, throttleVars, dialogs,
                      browserVars, historyVars>>
      BY <1>19 DEF Configure
    <2> QED
      BY <2>1, <2>2
      DEF TypeOK, registryVars,
        confirmVars, throttleVars, browserVars, historyVars
  <1>20. ASSUME NEW r \in Requests, Spurious(r)  PROVE TypeOK'
    BY <1>20
    DEF Spurious, Goto, TypeOK, Places, Ended, registryVars,
        confirmVars, throttleVars, browserVars, historyVars
  <1>21. ASSUME NEW yes \in BOOLEAN, Answer(yes)  PROVE TypeOK'
    <2>1. /\ pc' \in [Requests -> Places]
          /\ \A q \in Requests :
                pc'[q] \in {"configure", "granted"} => pc'[q] = pc[q]
      <3>1. CASE page.library
        BY <3>1, <1>21 DEF Answer, TypeOK
      <3>2. CASE ~page.library
        <4>1. \E place \in {"confirmed", "denied"} :
                 pc' = [pc EXCEPT ![Head(dialogs)] = place]
          BY <3>2, <1>21 DEF Answer, Goto
        <4>2. PICK d : d = Head(dialogs)
          OBVIOUS
        <4>3. \E place \in {"confirmed", "denied"} : pc' = [pc EXCEPT ![d] = place]
          BY <4>1, <4>2
        <4>4. pc \in [Requests -> Places]
          BY DEF TypeOK
        <4> QED
          BY <4>3, <4>4 DEF Places, Ended
      <3> QED
        BY <3>1, <3>2
    <2>2. /\ browser' \in {"free", "yes", "no", "wake", "join"}
          /\ confirmResult' \in BOOLEAN
      BY <1>21 DEF Answer, TypeOK
    <2>3. Head(dialogs) \in Requests /\ Tail(dialogs) \in Seq(Requests)
      BY <1>21, HeadTailProperties DEF Answer, TypeOK
    <2> QED
      BY <2>1, <2>2, <2>3, <1>21
      DEF Answer, TypeOK, registryVars,
        confirmVars, throttleVars, browserVars, historyVars
  <1>22. CASE AnswerNotify
    <2>1. /\ pc' \in [Requests -> Places]
          /\ \A q \in Requests :
                pc'[q] \in {"configure", "granted"} => pc'[q] = pc[q]
      BY <1>22 DEF AnswerNotify, NotifyOne, Waiting, TypeOK, Places, Ended
    <2>2. lost' \in BOOLEAN
      BY <1>22 DEF AnswerNotify, NotifyOne, TypeOK
    <2>3. unasked' \in [Requests -> BOOLEAN]
      BY <1>22, Zenon DEF AnswerNotify, Woken, TypeOK
    <2> QED
      BY <2>1, <2>2, <2>3, <1>22
      DEF AnswerNotify, TypeOK, registryVars,
        confirmVars, throttleVars, browserVars, historyVars
  <1>23. CASE TimePasses
    <2>1. recent' \in BOOLEAN
      BY <1>23 DEF TimePasses
    <2>2. UNCHANGED <<pc, registryVars, confirmVars, denies, blocked,
                      dialogs, browserVars, historyVars>>
      BY <1>23 DEF TimePasses
    <2> QED
      BY <2>1, <2>2
      DEF TypeOK, registryVars,
        confirmVars, throttleVars, browserVars, historyVars
  <1>24. CASE Shutdown
    BY <1>24
    DEF Shutdown, TypeOK, Places, Ended, registryVars,
        confirmVars, throttleVars, browserVars, historyVars
  <1>25. CASE ShutdownNotify
    <2>1. /\ pc' \in [Requests -> Places]
          /\ \A q \in Requests :
                pc'[q] \in {"configure", "granted"} => pc'[q] = pc[q]
      BY <1>25 DEF ShutdownNotify, NotifyOne, Waiting, TypeOK, Places, Ended
    <2>2. lost' \in BOOLEAN
      BY <1>25 DEF ShutdownNotify, NotifyOne, TypeOK
    <2> QED
      BY <2>1, <2>2, <1>25
      DEF ShutdownNotify, TypeOK, registryVars,
        confirmVars, throttleVars, browserVars, historyVars
  <1>26. CASE Joined
    BY <1>26
    DEF Joined, TypeOK, Places, Ended, registryVars,
        confirmVars, throttleVars, browserVars, historyVars
  <1>27. CASE UNCHANGED vars
    BY <1>27
    DEF vars, TypeOK, Places, Ended, registryVars,
        confirmVars, throttleVars, browserVars, historyVars
  <1> QED
    BY <1>1, <1>2, <1>3, <1>4, <1>5, <1>6, <1>7, <1>8, <1>9, <1>10, <1>11, <1>12, <1>13, <1>14, <1>15, <1>16, <1>17, <1>18, <1>19, <1>20, <1>21, <1>22, <1>23, <1>24, <1>25, <1>26, <1>27 DEF Next, Thread

\* What an answer does: without the library it moves the thread that asked.
LEMMA AnswerMoves ==
    ASSUME TypeOK, NEW yes \in BOOLEAN, Answer(yes)
    PROVE  /\ Head(dialogs) \in Requests /\ Head(dialogs) = dialogs[1]
           /\ 1 \in DOMAIN dialogs
           /\ page.library => pc' = pc
           /\ ~page.library => \E place \in {"confirmed", "denied"} :
                 pc' = [pc EXCEPT ![Head(dialogs)] = place]
  <1>1. dialogs \in Seq(Requests) /\ dialogs # <<>>
    BY DEF TypeOK, Answer
  <1>2. Head(dialogs) \in Requests /\ Head(dialogs) = dialogs[1] /\ 1 \in DOMAIN dialogs
    BY <1>1, HeadTailProperties, LenProperties
  <1>3. ASSUME page.library  PROVE pc' = pc
    BY <1>3 DEF Answer
  <1>4. ASSUME ~page.library
        PROVE  \E place \in {"confirmed", "denied"} :
                 pc' = [pc EXCEPT ![Head(dialogs)] = place]
    BY <1>4 DEF Answer, Goto
  <1> QED
    BY <1>2, <1>3, <1>4

\* A thread knows what it was told.
LEMMA LocalsStep ==
    ASSUME TypeOK, Locals, DirectInv, [Next]_vars
    PROVE  Locals'
  <1> USE Constants
  <1>1. ASSUME NEW r \in Requests, Request(r)  PROVE Locals'
    BY <1>1
    DEF Request, Goto, TypeOK, Locals, Informed, Ended, registryVars,
        confirmVars, throttleVars, browserVars, historyVars
  <1>2. ASSUME NEW r \in Requests, Ready(r)  PROVE Locals'
    BY <1>2
    DEF Ready, Goto, TypeOK, Locals, Informed, Ended, registryVars,
        confirmVars, throttleVars, browserVars, historyVars
  <1>3. ASSUME NEW r \in Requests, List(r)  PROVE Locals'
    BY <1>3
    DEF List, Goto, TypeOK, Locals, Informed, Ended, registryVars,
        confirmVars, throttleVars, browserVars, historyVars
  <1>4. ASSUME NEW r \in Requests, Load(r)  PROVE Locals'
    BY <1>4
    DEF Load, Goto, TypeOK, Locals, Informed, Ended, registryVars,
        confirmVars, throttleVars, browserVars, historyVars
  <1>5. ASSUME NEW r \in Requests, LoadDone(r)  PROVE Locals'
    BY <1>5
    DEF LoadDone, Goto, TypeOK, Locals, Informed, Ended, registryVars,
        confirmVars, throttleVars, browserVars, historyVars
  <1>6. ASSUME NEW r \in Requests, Remote(r)  PROVE Locals'
    BY <1>6
    DEF Remote, Goto, TypeOK, Locals, Informed, Ended, registryVars,
        confirmVars, throttleVars, browserVars, historyVars
  <1>7. ASSUME NEW r \in Requests, Validate(r)  PROVE Locals'
    BY <1>7
    DEF Validate, Goto, TypeOK, Locals, Informed, Ended, registryVars,
        confirmVars, throttleVars, browserVars, historyVars
  <1>8. ASSUME NEW r \in Requests, Ask(r)  PROVE Locals'
    BY <1>8
    DEF Ask, Goto, TypeOK, Locals, Informed, Ended, registryVars,
        confirmVars, throttleVars, browserVars, historyVars
  <1>9. ASSUME NEW r \in Requests, Check(r)  PROVE Locals'
    BY <1>9
    DEF Check, Goto, TypeOK, Locals, Informed, Ended, registryVars,
        confirmVars, throttleVars, browserVars, historyVars
  <1>10. ASSUME NEW r \in Requests, Cancel(r)  PROVE Locals'
    BY <1>10
    DEF Cancel, Goto, TypeOK, Locals, Informed, Ended, registryVars,
        confirmVars, throttleVars, browserVars, historyVars
  <1>11. ASSUME NEW r \in Requests, CancelNotify(r)  PROVE Locals'
    BY <1>11
    DEF CancelNotify, Goto, NotifyOne, Waiting, Woken, TypeOK, Locals, Informed, Ended, registryVars,
        confirmVars, throttleVars, browserVars, historyVars
  <1>12. ASSUME NEW r \in Requests, Arm(r)  PROVE Locals'
    BY <1>12
    DEF Arm, Goto, TypeOK, Locals, Informed, Ended, registryVars,
        confirmVars, throttleVars, browserVars, historyVars
  <1>13. ASSUME NEW r \in Requests, Enter(r)  PROVE Locals'
    BY <1>13
    DEF Enter, Goto, TypeOK, Locals, Informed, Ended, registryVars,
        confirmVars, throttleVars, browserVars, historyVars
  <1>14. ASSUME NEW r \in Requests, WakeUp(r)  PROVE Locals'
    BY <1>14
    DEF WakeUp, Goto, TypeOK, Locals, Informed, Ended, registryVars,
        confirmVars, throttleVars, browserVars, historyVars
  <1>15. ASSUME NEW r \in Requests, Confirmed(r)  PROVE Locals'
    BY <1>15
    DEF Confirmed, Goto, TypeOK, Locals, Informed, Ended, registryVars,
        confirmVars, throttleVars, browserVars, historyVars
  <1>16. ASSUME NEW r \in Requests, Denied(r)  PROVE Locals'
    BY <1>16
    DEF Denied, Goto, TypeOK, Locals, Informed, Ended, registryVars,
        confirmVars, throttleVars, browserVars, historyVars
  <1>17. ASSUME NEW r \in Requests, Find(r)  PROVE Locals'
    BY <1>17
    DEF Find, Goto, TypeOK, Locals, Informed, Ended, registryVars,
        confirmVars, throttleVars, browserVars, historyVars
  <1>18. ASSUME NEW r \in Requests, Register(r)  PROVE Locals'
    BY <1>18
    DEF Register, Goto, TypeOK, Locals, Informed, Ended, registryVars,
        confirmVars, throttleVars, browserVars, historyVars
  <1>19. ASSUME NEW r \in Requests, Configure(r)  PROVE Locals'
    BY <1>19
    DEF Configure, Goto, TypeOK, Locals, Informed, Ended, registryVars,
        confirmVars, throttleVars, browserVars, historyVars
  <1>20. ASSUME NEW r \in Requests, Spurious(r)  PROVE Locals'
    BY <1>20
    DEF Spurious, Goto, TypeOK, Locals, Informed, Ended, registryVars,
        confirmVars, throttleVars, browserVars, historyVars
  <1>21. ASSUME NEW yes \in BOOLEAN, Answer(yes)  PROVE Locals'
    <2>1. UNCHANGED <<want, loaded, got, sessionLoaded, page>>
      BY <1>21 DEF Answer, registryVars, browserVars
    <2>2. CASE page.library
      BY <2>1, <2>2, <1>21, AnswerMoves DEF TypeOK, Locals, Informed
    <2>3. CASE ~page.library
      <3>1. PICK d \in Requests : d = Head(dialogs) /\ pc[d] = "direct"
        BY <2>3, <1>21, AnswerMoves DEF DirectInv
      <3>2. PICK place \in {"confirmed", "denied"} : pc' = [pc EXCEPT ![d] = place]
        BY <2>3, <3>1, <1>21, AnswerMoves
      <3>3. pc \in [Requests -> Places]
        BY DEF TypeOK
      <3> QED
        BY <2>1, <3>1, <3>2, <3>3 DEF Locals, Informed
    <2> QED
      BY <2>2, <2>3
  <1>22. CASE AnswerNotify
    BY <1>22
    DEF AnswerNotify, NotifyOne, Waiting, Woken, TypeOK, Locals, Informed, Ended, registryVars,
        confirmVars, throttleVars, browserVars, historyVars
  <1>23. CASE TimePasses
    BY <1>23
    DEF TimePasses, TypeOK, Locals, Informed, Ended, registryVars,
        confirmVars, throttleVars, browserVars, historyVars
  <1>24. CASE Shutdown
    BY <1>24
    DEF Shutdown, TypeOK, Locals, Informed, Ended, registryVars,
        confirmVars, throttleVars, browserVars, historyVars
  <1>25. CASE ShutdownNotify
    BY <1>25
    DEF ShutdownNotify, NotifyOne, Waiting, TypeOK, Locals, Informed, Ended, registryVars,
        confirmVars, throttleVars, browserVars, historyVars
  <1>26. CASE Joined
    BY <1>26
    DEF Joined, TypeOK, Locals, Informed, Ended, registryVars,
        confirmVars, throttleVars, browserVars, historyVars
  <1>27. CASE UNCHANGED vars
    BY <1>27
    DEF vars, TypeOK, Locals, Informed, Ended, registryVars,
        confirmVars, throttleVars, browserVars, historyVars
  <1> QED
    BY <1>1, <1>2, <1>3, <1>4, <1>5, <1>6, <1>7, <1>8, <1>9, <1>10, <1>11, <1>12, <1>13, <1>14, <1>15, <1>16, <1>17, <1>18, <1>19, <1>20, <1>21, <1>22, <1>23, <1>24, <1>25, <1>26, <1>27 DEF Next, Thread

\* No step hands out a session of another key.
LEMMA KeyStep ==
    ASSUME TypeOK, Locals, KeyRespected, [Next]_vars
    PROVE  KeyRespected'
  <1> USE Constants
  <1>1. ASSUME NEW r \in Requests, Request(r)  PROVE KeyRespected'
    BY <1>1
    DEF Request, Goto, TypeOK, Locals, KeyRespected, Informed, registryVars,
        confirmVars, throttleVars, browserVars, historyVars
  <1>2. ASSUME NEW r \in Requests, Ready(r)  PROVE KeyRespected'
    BY <1>2
    DEF Ready, Goto, TypeOK, Locals, KeyRespected, Informed, registryVars,
        confirmVars, throttleVars, browserVars, historyVars
  <1>3. ASSUME NEW r \in Requests, List(r)  PROVE KeyRespected'
    BY <1>3
    DEF List, Goto, TypeOK, Locals, KeyRespected, Informed, registryVars,
        confirmVars, throttleVars, browserVars, historyVars
  <1>4. ASSUME NEW r \in Requests, Load(r)  PROVE KeyRespected'
    BY <1>4
    DEF Load, Goto, TypeOK, Locals, KeyRespected, Informed, registryVars,
        confirmVars, throttleVars, browserVars, historyVars
  <1>5. ASSUME NEW r \in Requests, LoadDone(r)  PROVE KeyRespected'
    BY <1>5
    DEF LoadDone, Goto, TypeOK, Locals, KeyRespected, Informed, registryVars,
        confirmVars, throttleVars, browserVars, historyVars
  <1>6. ASSUME NEW r \in Requests, Remote(r)  PROVE KeyRespected'
    BY <1>6
    DEF Remote, Goto, TypeOK, Locals, KeyRespected, Informed, registryVars,
        confirmVars, throttleVars, browserVars, historyVars
  <1>7. ASSUME NEW r \in Requests, Validate(r)  PROVE KeyRespected'
    BY <1>7
    DEF Validate, Goto, TypeOK, Locals, KeyRespected, Informed, registryVars,
        confirmVars, throttleVars, browserVars, historyVars
  <1>8. ASSUME NEW r \in Requests, Ask(r)  PROVE KeyRespected'
    BY <1>8
    DEF Ask, Goto, TypeOK, Locals, KeyRespected, Informed, registryVars,
        confirmVars, throttleVars, browserVars, historyVars
  <1>9. ASSUME NEW r \in Requests, Check(r)  PROVE KeyRespected'
    BY <1>9
    DEF Check, Goto, TypeOK, Locals, KeyRespected, Informed, registryVars,
        confirmVars, throttleVars, browserVars, historyVars
  <1>10. ASSUME NEW r \in Requests, Cancel(r)  PROVE KeyRespected'
    BY <1>10
    DEF Cancel, Goto, TypeOK, Locals, KeyRespected, Informed, registryVars,
        confirmVars, throttleVars, browserVars, historyVars
  <1>11. ASSUME NEW r \in Requests, CancelNotify(r)  PROVE KeyRespected'
    BY <1>11
    DEF CancelNotify, Goto, NotifyOne, Waiting, Woken, TypeOK, Locals, KeyRespected, Informed, registryVars,
        confirmVars, throttleVars, browserVars, historyVars
  <1>12. ASSUME NEW r \in Requests, Arm(r)  PROVE KeyRespected'
    BY <1>12
    DEF Arm, Goto, TypeOK, Locals, KeyRespected, Informed, registryVars,
        confirmVars, throttleVars, browserVars, historyVars
  <1>13. ASSUME NEW r \in Requests, Enter(r)  PROVE KeyRespected'
    BY <1>13
    DEF Enter, Goto, TypeOK, Locals, KeyRespected, Informed, registryVars,
        confirmVars, throttleVars, browserVars, historyVars
  <1>14. ASSUME NEW r \in Requests, WakeUp(r)  PROVE KeyRespected'
    BY <1>14
    DEF WakeUp, Goto, TypeOK, Locals, KeyRespected, Informed, registryVars,
        confirmVars, throttleVars, browserVars, historyVars
  <1>15. ASSUME NEW r \in Requests, Confirmed(r)  PROVE KeyRespected'
    BY <1>15
    DEF Confirmed, Goto, TypeOK, Locals, KeyRespected, Informed, registryVars,
        confirmVars, throttleVars, browserVars, historyVars
  <1>16. ASSUME NEW r \in Requests, Denied(r)  PROVE KeyRespected'
    BY <1>16
    DEF Denied, Goto, TypeOK, Locals, KeyRespected, Informed, registryVars,
        confirmVars, throttleVars, browserVars, historyVars
  <1>17. ASSUME NEW r \in Requests, Find(r)  PROVE KeyRespected'
    <2>1. UNCHANGED want /\ got \in [Requests -> Sessions \cup {NoSession}]
      BY <1>17 DEF Find, TypeOK
    <2>2. CASE Lookup(r) = "valid"
      <3>1. /\ First(r) \in Sessions
            /\ First(r).name = want[r].name /\ First(r).key = want[r].key
        BY <2>2, FirstNamed DEF Lookup
      <3>2. want[r] \in Sessions
        BY <1>17 DEF Find, Locals, Informed
      <3>3. First(r) = want[r]
        BY <3>1, <3>2 DEF Sessions
      <3>4. got' = [got EXCEPT ![r] = First(r)]
        BY <1>17, <2>2 DEF Find
      <3> QED
        BY <2>1, <3>3, <3>4 DEF KeyRespected
    <2>3. CASE Lookup(r) # "valid"
      <3>1. got' = got
        BY <1>17, <2>3 DEF Find
      <3> QED
        BY <2>1, <3>1 DEF KeyRespected
    <2> QED
      BY <2>2, <2>3
  <1>18. ASSUME NEW r \in Requests, Register(r)  PROVE KeyRespected'
    BY <1>18
    DEF Register, Goto, TypeOK, Locals, KeyRespected, Informed, registryVars,
        confirmVars, throttleVars, browserVars, historyVars
  <1>19. ASSUME NEW r \in Requests, Configure(r)  PROVE KeyRespected'
    BY <1>19
    DEF Configure, Goto, TypeOK, Locals, KeyRespected, Informed, registryVars,
        confirmVars, throttleVars, browserVars, historyVars
  <1>20. ASSUME NEW r \in Requests, Spurious(r)  PROVE KeyRespected'
    BY <1>20
    DEF Spurious, Goto, TypeOK, Locals, KeyRespected, Informed, registryVars,
        confirmVars, throttleVars, browserVars, historyVars
  <1>21. ASSUME NEW yes \in BOOLEAN, Answer(yes)  PROVE KeyRespected'
    BY <1>21
    DEF Answer, Goto, TypeOK, Locals, KeyRespected, Informed, registryVars,
        confirmVars, throttleVars, browserVars, historyVars
  <1>22. CASE AnswerNotify
    BY <1>22
    DEF AnswerNotify, NotifyOne, Waiting, Woken, TypeOK, Locals, KeyRespected, Informed, registryVars,
        confirmVars, throttleVars, browserVars, historyVars
  <1>23. CASE TimePasses
    BY <1>23
    DEF TimePasses, TypeOK, Locals, KeyRespected, Informed, registryVars,
        confirmVars, throttleVars, browserVars, historyVars
  <1>24. CASE Shutdown
    BY <1>24
    DEF Shutdown, TypeOK, Locals, KeyRespected, Informed, registryVars,
        confirmVars, throttleVars, browserVars, historyVars
  <1>25. CASE ShutdownNotify
    BY <1>25
    DEF ShutdownNotify, NotifyOne, Waiting, TypeOK, Locals, KeyRespected, Informed, registryVars,
        confirmVars, throttleVars, browserVars, historyVars
  <1>26. CASE Joined
    BY <1>26
    DEF Joined, TypeOK, Locals, KeyRespected, Informed, registryVars,
        confirmVars, throttleVars, browserVars, historyVars
  <1>27. CASE UNCHANGED vars
    BY <1>27
    DEF vars, TypeOK, Locals, KeyRespected, Informed, registryVars,
        confirmVars, throttleVars, browserVars, historyVars
  <1> QED
    BY <1>1, <1>2, <1>3, <1>4, <1>5, <1>6, <1>7, <1>8, <1>9, <1>10, <1>11, <1>12, <1>13, <1>14, <1>15, <1>16, <1>17, <1>18, <1>19, <1>20, <1>21, <1>22, <1>23, <1>24, <1>25, <1>26, <1>27 DEF Next, Thread

\* A question without the library is open until it is answered.
LEMMA DirectStep ==
    ASSUME TypeOK, DirectInv, [Next]_vars
    PROVE  DirectInv'
  <1> USE DEF TypeOK
  <1>1. ASSUME NEW r \in Requests, Request(r)  PROVE DirectInv'
    BY <1>1
    DEF Request, Goto, DirectInv, registryVars,
        confirmVars, throttleVars, browserVars, historyVars
  <1>2. ASSUME NEW r \in Requests, Ready(r)  PROVE DirectInv'
    BY <1>2
    DEF Ready, Goto, DirectInv, registryVars,
        confirmVars, throttleVars, browserVars, historyVars
  <1>3. ASSUME NEW r \in Requests, List(r)  PROVE DirectInv'
    BY <1>3
    DEF List, Goto, DirectInv, registryVars,
        confirmVars, throttleVars, browserVars, historyVars
  <1>4. ASSUME NEW r \in Requests, Load(r)  PROVE DirectInv'
    BY <1>4
    DEF Load, Goto, DirectInv, registryVars,
        confirmVars, throttleVars, browserVars, historyVars
  <1>5. ASSUME NEW r \in Requests, LoadDone(r)  PROVE DirectInv'
    BY <1>5
    DEF LoadDone, Goto, DirectInv, registryVars,
        confirmVars, throttleVars, browserVars, historyVars
  <1>6. ASSUME NEW r \in Requests, Remote(r)  PROVE DirectInv'
    BY <1>6
    DEF Remote, Goto, DirectInv, registryVars,
        confirmVars, throttleVars, browserVars, historyVars
  <1>7. ASSUME NEW r \in Requests, Validate(r)  PROVE DirectInv'
    BY <1>7
    DEF Validate, Goto, DirectInv, registryVars,
        confirmVars, throttleVars, browserVars, historyVars
  <1>8. ASSUME NEW r \in Requests, Ask(r)  PROVE DirectInv'
    <2> SUFFICES ASSUME ~page.library
                 PROVE  DirectInv'
      BY <1>8 DEF Ask, browserVars, DirectInv
    <2>1. /\ pc \in [Requests -> Places] /\ dialogs \in Seq(Requests)
          /\ \A i \in DOMAIN dialogs : dialogs[i] # r
      BY <1>8 DEF Ask, DirectInv
    <2>2. CASE UNCHANGED dialogs /\ pc' = [pc EXCEPT ![r] = "denied"]
      BY <2>1, <2>2, ElementOfSeq DEF DirectInv
    <2>3. CASE dialogs' = Append(dialogs, r) /\ pc' = [pc EXCEPT ![r] = "direct"]
      <3>1. /\ Len(dialogs) \in Nat /\ DOMAIN dialogs = 1 .. Len(dialogs)
            /\ DOMAIN dialogs' = 1 .. Len(dialogs) + 1
            /\ dialogs'[Len(dialogs) + 1] = r
            /\ \A i \in DOMAIN dialogs : dialogs'[i] = dialogs[i]
        BY <2>1, <2>3, AppendProperties, LenProperties
      <3>2. \A i \in DOMAIN dialogs' : i \in DOMAIN dialogs \/ i = Len(dialogs) + 1
        BY <3>1
      <3>3. \A i \in DOMAIN dialogs : pc'[dialogs[i]] = "direct"
        BY <2>1, <2>3, ElementOfSeq, <3>1 DEF DirectInv
      <3>4. pc'[r] = "direct"
        BY <2>1, <2>3
      <3>5. \A i \in DOMAIN dialogs' : pc'[dialogs'[i]] = "direct"
        BY <3>1, <3>2, <3>3, <3>4
      <3>6. \A i, j \in DOMAIN dialogs : dialogs[i] = dialogs[j] => i = j
        BY DEF DirectInv
      <3>7. \A i, j \in DOMAIN dialogs' : dialogs'[i] = dialogs'[j] => i = j
        BY <2>1, <3>1, <3>2, <3>6
      <3> QED
        BY <3>5, <3>7 DEF DirectInv
    <2> QED
      BY <2>2, <2>3, <1>8 DEF Ask, Goto
  <1>9. ASSUME NEW r \in Requests, Check(r)  PROVE DirectInv'
    BY <1>9
    DEF Check, Goto, DirectInv, registryVars,
        confirmVars, throttleVars, browserVars, historyVars
  <1>10. ASSUME NEW r \in Requests, Cancel(r)  PROVE DirectInv'
    BY <1>10
    DEF Cancel, Goto, DirectInv, registryVars,
        confirmVars, throttleVars, browserVars, historyVars
  <1>11. ASSUME NEW r \in Requests, CancelNotify(r)  PROVE DirectInv'
    BY <1>11
    DEF CancelNotify, Goto, NotifyOne, Waiting, Woken, DirectInv, registryVars,
        confirmVars, throttleVars, browserVars, historyVars
  <1>12. ASSUME NEW r \in Requests, Arm(r)  PROVE DirectInv'
    BY <1>12
    DEF Arm, Goto, DirectInv, registryVars,
        confirmVars, throttleVars, browserVars, historyVars
  <1>13. ASSUME NEW r \in Requests, Enter(r)  PROVE DirectInv'
    BY <1>13
    DEF Enter, Goto, DirectInv, registryVars,
        confirmVars, throttleVars, browserVars, historyVars
  <1>14. ASSUME NEW r \in Requests, WakeUp(r)  PROVE DirectInv'
    BY <1>14
    DEF WakeUp, Goto, DirectInv, registryVars,
        confirmVars, throttleVars, browserVars, historyVars
  <1>15. ASSUME NEW r \in Requests, Confirmed(r)  PROVE DirectInv'
    BY <1>15
    DEF Confirmed, Goto, DirectInv, registryVars,
        confirmVars, throttleVars, browserVars, historyVars
  <1>16. ASSUME NEW r \in Requests, Denied(r)  PROVE DirectInv'
    BY <1>16
    DEF Denied, Goto, DirectInv, registryVars,
        confirmVars, throttleVars, browserVars, historyVars
  <1>17. ASSUME NEW r \in Requests, Find(r)  PROVE DirectInv'
    BY <1>17
    DEF Find, Goto, DirectInv, registryVars,
        confirmVars, throttleVars, browserVars, historyVars
  <1>18. ASSUME NEW r \in Requests, Register(r)  PROVE DirectInv'
    BY <1>18
    DEF Register, Goto, DirectInv, registryVars,
        confirmVars, throttleVars, browserVars, historyVars
  <1>19. ASSUME NEW r \in Requests, Configure(r)  PROVE DirectInv'
    BY <1>19
    DEF Configure, Goto, DirectInv, registryVars,
        confirmVars, throttleVars, browserVars, historyVars
  <1>20. ASSUME NEW r \in Requests, Spurious(r)  PROVE DirectInv'
    BY <1>20
    DEF Spurious, Goto, DirectInv, registryVars,
        confirmVars, throttleVars, browserVars, historyVars
  <1>21. ASSUME NEW yes \in BOOLEAN, Answer(yes)  PROVE DirectInv'
    <2> SUFFICES ASSUME ~page.library
                 PROVE  DirectInv'
      BY <1>21 DEF Answer, browserVars, DirectInv
    <2>1. /\ pc \in [Requests -> Places] /\ dialogs \in Seq(Requests)
          /\ dialogs # <<>> /\ dialogs' = Tail(dialogs)
      BY <1>21 DEF Answer
    <2>2. /\ Len(dialogs) \in Nat \ {0} /\ DOMAIN dialogs = 1 .. Len(dialogs)
          /\ DOMAIN dialogs' = 1 .. Len(dialogs) - 1
          /\ \A i \in 1 .. Len(dialogs) - 1 : dialogs'[i] = dialogs[i + 1]
      BY <2>1, EmptySeq, HeadTailProperties, LenProperties
    <2>3. \A i \in DOMAIN dialogs' : /\ i + 1 \in DOMAIN dialogs
                                    /\ i + 1 # 1
                                    /\ dialogs'[i] = dialogs[i + 1]
      BY <2>2
    <2>4. PICK place \in {"confirmed", "denied"} : pc' = [pc EXCEPT ![dialogs[1]] = place]
      BY <1>21, AnswerMoves
    <2>5. 1 \in DOMAIN dialogs /\ \A i \in DOMAIN dialogs : dialogs[i] \in Requests
      BY <2>1, <2>2, ElementOfSeq
    <2>6. \A i \in DOMAIN dialogs : i # 1 => pc'[dialogs[i]] = "direct"
      BY <2>1, <2>4, <2>5 DEF DirectInv
    <2>7. \A i, j \in DOMAIN dialogs' : dialogs'[i] = dialogs'[j] => i = j
      BY <2>2, <2>3 DEF DirectInv
    <2> QED
      BY <2>3, <2>6, <2>7 DEF DirectInv
  <1>22. CASE AnswerNotify
    BY <1>22
    DEF AnswerNotify, NotifyOne, Waiting, Woken, DirectInv, registryVars,
        confirmVars, throttleVars, browserVars, historyVars
  <1>23. CASE TimePasses
    BY <1>23
    DEF TimePasses, DirectInv, registryVars,
        confirmVars, throttleVars, browserVars, historyVars
  <1>24. CASE Shutdown
    BY <1>24
    DEF Shutdown, DirectInv, registryVars,
        confirmVars, throttleVars, browserVars, historyVars
  <1>25. CASE ShutdownNotify
    BY <1>25
    DEF ShutdownNotify, NotifyOne, Waiting, DirectInv, registryVars,
        confirmVars, throttleVars, browserVars, historyVars
  <1>26. CASE Joined
    BY <1>26
    DEF Joined, DirectInv, registryVars,
        confirmVars, throttleVars, browserVars, historyVars
  <1>27. CASE UNCHANGED vars
    BY <1>27
    DEF vars, DirectInv, registryVars,
        confirmVars, throttleVars, browserVars, historyVars
  <1> QED
    BY <1>1, <1>2, <1>3, <1>4, <1>5, <1>6, <1>7, <1>8, <1>9, <1>10, <1>11, <1>12, <1>13, <1>14, <1>15, <1>16, <1>17, <1>18, <1>19, <1>20, <1>21, <1>22, <1>23, <1>24, <1>25, <1>26, <1>27 DEF Next, Thread

\* A yes is never older than the arming.
LEMMA FreshStep ==
    ASSUME TypeOK, FreshInv, [Next]_vars
    PROVE  FreshInv'
  <1>1. ASSUME NEW r \in Requests, Request(r)  PROVE FreshInv'
    BY <1>1
    DEF Request, Goto, TypeOK, FreshInv, Armed, registryVars,
        confirmVars, throttleVars, browserVars, historyVars
  <1>2. ASSUME NEW r \in Requests, Ready(r)  PROVE FreshInv'
    BY <1>2
    DEF Ready, Goto, TypeOK, FreshInv, Armed, registryVars,
        confirmVars, throttleVars, browserVars, historyVars
  <1>3. ASSUME NEW r \in Requests, List(r)  PROVE FreshInv'
    BY <1>3
    DEF List, Goto, TypeOK, FreshInv, Armed, registryVars,
        confirmVars, throttleVars, browserVars, historyVars
  <1>4. ASSUME NEW r \in Requests, Load(r)  PROVE FreshInv'
    BY <1>4
    DEF Load, Goto, TypeOK, FreshInv, Armed, registryVars,
        confirmVars, throttleVars, browserVars, historyVars
  <1>5. ASSUME NEW r \in Requests, LoadDone(r)  PROVE FreshInv'
    BY <1>5
    DEF LoadDone, Goto, TypeOK, FreshInv, Armed, registryVars,
        confirmVars, throttleVars, browserVars, historyVars
  <1>6. ASSUME NEW r \in Requests, Remote(r)  PROVE FreshInv'
    BY <1>6
    DEF Remote, Goto, TypeOK, FreshInv, Armed, registryVars,
        confirmVars, throttleVars, browserVars, historyVars
  <1>7. ASSUME NEW r \in Requests, Validate(r)  PROVE FreshInv'
    BY <1>7
    DEF Validate, Goto, TypeOK, FreshInv, Armed, registryVars,
        confirmVars, throttleVars, browserVars, historyVars
  <1>8. ASSUME NEW r \in Requests, Ask(r)  PROVE FreshInv'
    BY <1>8
    DEF Ask, Goto, TypeOK, FreshInv, Armed, registryVars,
        confirmVars, throttleVars, browserVars, historyVars
  <1>9. ASSUME NEW r \in Requests, Check(r)  PROVE FreshInv'
    BY <1>9
    DEF Check, Goto, TypeOK, FreshInv, Armed, registryVars,
        confirmVars, throttleVars, browserVars, historyVars
  <1>10. ASSUME NEW r \in Requests, Cancel(r)  PROVE FreshInv'
    BY <1>10
    DEF Cancel, Goto, TypeOK, FreshInv, Armed, registryVars,
        confirmVars, throttleVars, browserVars, historyVars
  <1>11. ASSUME NEW r \in Requests, CancelNotify(r)  PROVE FreshInv'
    BY <1>11
    DEF CancelNotify, Goto, NotifyOne, Waiting, Woken, TypeOK, FreshInv, Armed, registryVars,
        confirmVars, throttleVars, browserVars, historyVars
  <1>12. ASSUME NEW r \in Requests, Arm(r)  PROVE FreshInv'
    BY <1>12
    DEF Arm, Goto, TypeOK, FreshInv, Armed, registryVars,
        confirmVars, throttleVars, browserVars, historyVars
  <1>13. ASSUME NEW r \in Requests, Enter(r)  PROVE FreshInv'
    BY <1>13
    DEF Enter, Goto, TypeOK, FreshInv, Armed, registryVars,
        confirmVars, throttleVars, browserVars, historyVars
  <1>14. ASSUME NEW r \in Requests, WakeUp(r)  PROVE FreshInv'
    BY <1>14
    DEF WakeUp, Goto, TypeOK, FreshInv, Armed, registryVars,
        confirmVars, throttleVars, browserVars, historyVars
  <1>15. ASSUME NEW r \in Requests, Confirmed(r)  PROVE FreshInv'
    BY <1>15
    DEF Confirmed, Goto, TypeOK, FreshInv, Armed, registryVars,
        confirmVars, throttleVars, browserVars, historyVars
  <1>16. ASSUME NEW r \in Requests, Denied(r)  PROVE FreshInv'
    BY <1>16
    DEF Denied, Goto, TypeOK, FreshInv, Armed, registryVars,
        confirmVars, throttleVars, browserVars, historyVars
  <1>17. ASSUME NEW r \in Requests, Find(r)  PROVE FreshInv'
    BY <1>17
    DEF Find, Goto, TypeOK, FreshInv, Armed, registryVars,
        confirmVars, throttleVars, browserVars, historyVars
  <1>18. ASSUME NEW r \in Requests, Register(r)  PROVE FreshInv'
    BY <1>18
    DEF Register, Goto, TypeOK, FreshInv, Armed, registryVars,
        confirmVars, throttleVars, browserVars, historyVars
  <1>19. ASSUME NEW r \in Requests, Configure(r)  PROVE FreshInv'
    BY <1>19
    DEF Configure, Goto, TypeOK, FreshInv, Armed, registryVars,
        confirmVars, throttleVars, browserVars, historyVars
  <1>20. ASSUME NEW r \in Requests, Spurious(r)  PROVE FreshInv'
    BY <1>20
    DEF Spurious, Goto, TypeOK, FreshInv, Armed, registryVars,
        confirmVars, throttleVars, browserVars, historyVars
  <1>21. ASSUME NEW yes \in BOOLEAN, Answer(yes)  PROVE FreshInv'
    BY <1>21
    DEF Answer, Goto, TypeOK, FreshInv, Armed, registryVars,
        confirmVars, throttleVars, browserVars, historyVars
  <1>22. CASE AnswerNotify
    BY <1>22
    DEF AnswerNotify, NotifyOne, Waiting, Woken, TypeOK, FreshInv, Armed, registryVars,
        confirmVars, throttleVars, browserVars, historyVars
  <1>23. CASE TimePasses
    BY <1>23
    DEF TimePasses, TypeOK, FreshInv, Armed, registryVars,
        confirmVars, throttleVars, browserVars, historyVars
  <1>24. CASE Shutdown
    BY <1>24
    DEF Shutdown, TypeOK, FreshInv, Armed, registryVars,
        confirmVars, throttleVars, browserVars, historyVars
  <1>25. CASE ShutdownNotify
    BY <1>25
    DEF ShutdownNotify, NotifyOne, Waiting, TypeOK, FreshInv, Armed, registryVars,
        confirmVars, throttleVars, browserVars, historyVars
  <1>26. CASE Joined
    BY <1>26
    DEF Joined, TypeOK, FreshInv, Armed, registryVars,
        confirmVars, throttleVars, browserVars, historyVars
  <1>27. CASE UNCHANGED vars
    BY <1>27
    DEF vars, TypeOK, FreshInv, Armed, registryVars,
        confirmVars, throttleVars, browserVars, historyVars
  <1> QED
    BY <1>1, <1>2, <1>3, <1>4, <1>5, <1>6, <1>7, <1>8, <1>9, <1>10, <1>11, <1>12, <1>13, <1>14, <1>15, <1>16, <1>17, <1>18, <1>19, <1>20, <1>21, <1>22, <1>23, <1>24, <1>25, <1>26, <1>27 DEF Next, Thread

\* Who loads, and what is known, is all that LoadInv speaks of.
LEMMA LoadFrame ==
    ASSUME LoadInv, UNCHANGED <<registry, sessionLoaded, loaded, unread>>,
           \A q \in Requests : pc'[q] = "load" <=> pc[q] = "load"
    PROVE  LoadInv'
  BY DEF LoadInv, Known, Pending

\* An append to the registry forgets nobody.
LEMMA KnownStays ==
    ASSUME TypeOK, NEW s \in Sessions, registry' = Append(registry, s)
    PROVE  /\ \A i \in DOMAIN registry : i \in DOMAIN registry' /\ registry'[i] = registry[i]
           /\ \E i \in DOMAIN registry' : registry'[i] = s
  <1>1. registry \in Seq(Sessions)
    BY DEF TypeOK
  <1>2. /\ Len(registry) \in Nat /\ DOMAIN registry = 1 .. Len(registry)
        /\ DOMAIN registry' = 1 .. Len(registry) + 1
        /\ registry'[Len(registry) + 1] = s
        /\ \A i \in DOMAIN registry : registry'[i] = registry[i]
    BY <1>1, AppendProperties, LenProperties
  <1> QED
    BY <1>2

\* A VM that nobody knows is still going to be read.
LEMMA LoadStep ==
    ASSUME TypeOK, Locals, DirectInv, LoadInv, [Next]_vars
    PROVE  LoadInv'
  <1>1. ASSUME NEW r \in Requests, Request(r)  PROVE LoadInv'
    <2>1. UNCHANGED <<registry, sessionLoaded, loaded, unread>>
      BY <1>1 DEF Request, registryVars, historyVars
    <2>2. \A q \in Requests : pc'[q] = "load" <=> pc[q] = "load"
      BY <1>1 DEF Request, TypeOK, Goto
    <2> QED
      BY <2>1, <2>2, LoadFrame
  <1>2. ASSUME NEW r \in Requests, Ready(r)  PROVE LoadInv'
    <2>1. UNCHANGED <<registry, sessionLoaded, loaded, unread>>
      BY <1>2 DEF Ready, registryVars, historyVars
    <2>2. \A q \in Requests : pc'[q] = "load" <=> pc[q] = "load"
      BY <1>2 DEF Ready, TypeOK, Goto
    <2> QED
      BY <2>1, <2>2, LoadFrame
  <1>3. ASSUME NEW r \in Requests, List(r)  PROVE LoadInv'
    <2>1. /\ pc' = [pc EXCEPT ![r] = "load"] /\ pc[r] = "list"
          /\ pc \in [Requests -> Places]
          /\ UNCHANGED sessionLoaded
      BY <1>3 DEF List, Goto, TypeOK
    <2>2. CASE unread' = DOMAIN Stored
      BY <2>2 DEF LoadInv
    <2>3. CASE UNCHANGED loaded
      <3>1. UNCHANGED loaded
        BY <2>3
      <3>2. loaded[r] = 0
        BY <2>1 DEF Locals
      <3>3. \A k \in DOMAIN Stored : Pending(r, k)'
        BY <2>1, <3>1, <3>2, LenProperties, RequestAssumption DEF Pending
      <3> QED
        BY <3>3 DEF LoadInv
    <2> QED
      BY <1>3, <2>2, <2>3 DEF List
  <1>4. ASSUME NEW r \in Requests, Load(r)  PROVE LoadInv'
    <2>1. /\ UNCHANGED <<pc, sessionLoaded>>
          /\ pc[r] = "load" /\ loaded[r] < Len(Stored)
          /\ loaded' = [loaded EXCEPT ![r] = loaded[r] + 1]
          /\ loaded \in [Requests -> 0 .. Len(Stored)]
      BY <1>4 DEF Load, TypeOK
    <2>2. Stored[loaded[r] + 1] \in Sessions /\ Len(Stored) \in Nat
      BY <2>1, Constants
    <2>3. /\ \A k : Known(k) => Known(k)'
          /\ \/ \E i \in DOMAIN registry' : registry'[i] = Stored[loaded[r] + 1]
             \/ loaded[r] + 1 \in unread'
          /\ \A k : k # loaded[r] + 1 => (k \in unread' <=> k \in unread)
      <3>1. CASE registry' = Append(registry, Stored[loaded[r] + 1])
                 /\ unread' = unread \ {loaded[r] + 1}
        <4>1. /\ \A i \in DOMAIN registry : i \in DOMAIN registry' /\ registry'[i] = registry[i]
              /\ \E i \in DOMAIN registry' : registry'[i] = Stored[loaded[r] + 1]
          BY <2>2, <3>1, KnownStays
        <4> QED
          BY <3>1, <4>1 DEF Known
      <3>2. CASE UNCHANGED registry /\ unread' = unread \cup {loaded[r] + 1}
        BY <3>2 DEF Known
      <3> QED
        BY <1>4, <3>1, <3>2 DEF Load
    <2>4. ASSUME NEW k \in DOMAIN Stored,
                 sessionLoaded' \/ \E q \in Requests : pc'[q] = "load" /\ k <= loaded'[q],
                 k \notin unread'
          PROVE  Known(k)' \/ \E q \in Requests : Pending(q, k)'
      <3>1. k \in 1 .. Len(Stored)
        BY RequestAssumption, LenProperties
      <3>2. CASE k = loaded[r] + 1
        BY <2>3, <2>4, <3>2 DEF Known
      <3>3. CASE k # loaded[r] + 1
        <4>1. sessionLoaded \/ \E q \in Requests : pc[q] = "load" /\ k <= loaded[q]
          BY <2>1, <2>2, <2>4, <3>1, <3>3
        <4>2. Known(k) \/ \E q \in Requests : Pending(q, k)
          BY <2>3, <2>4, <3>3, <4>1 DEF LoadInv
        <4>3. CASE Known(k)
          BY <2>3, <4>3
        <4>4. CASE \E q \in Requests : Pending(q, k)
          <5>1. PICK q \in Requests : pc[q] = "load" /\ loaded[q] < k
            BY <4>4 DEF Pending
          <5>2. pc'[q] = "load" /\ loaded'[q] < k
            BY <2>1, <2>2, <3>1, <3>3, <5>1
          <5> QED
            BY <5>2 DEF Pending
        <4> QED
          BY <4>2, <4>3, <4>4
      <3> QED
        BY <3>2, <3>3
    <2> QED
      BY <2>4 DEF LoadInv
  <1>5. ASSUME NEW r \in Requests, LoadDone(r)  PROVE LoadInv'
    <2>1. /\ UNCHANGED <<registry, unread>>
          /\ pc[r] = "load" /\ loaded[r] = Len(Stored)
          /\ loaded' = [loaded EXCEPT ![r] = 0]
          /\ pc' = [pc EXCEPT ![r] = "remote"]
          /\ loaded \in [Requests -> 0 .. Len(Stored)]
          /\ pc \in [Requests -> Places]
      BY <1>5 DEF LoadDone, Goto, historyVars, TypeOK
    <2>2. ASSUME NEW k \in DOMAIN Stored, k \notin unread'
          PROVE  Known(k)' \/ \E q \in Requests : Pending(q, k)'
      <3>1. k \in 1 .. Len(Stored) /\ Len(Stored) \in Nat
        BY RequestAssumption, LenProperties, Constants
      <3>2. Known(k) \/ \E q \in Requests : Pending(q, k)
        BY <2>1, <2>2, <3>1 DEF LoadInv
      <3>3. CASE Known(k)
        BY <2>1, <3>3 DEF Known
      <3>4. CASE \E q \in Requests : Pending(q, k)
        <4>1. PICK q \in Requests : pc[q] = "load" /\ loaded[q] < k
          BY <3>4 DEF Pending
        <4>2. q # r
          BY <2>1, <3>1, <4>1
        <4> QED
          BY <2>1, <4>1, <4>2 DEF Pending
      <3> QED
        BY <3>2, <3>3, <3>4
    <2> QED
      BY <2>2 DEF LoadInv
  <1>6. ASSUME NEW r \in Requests, Remote(r)  PROVE LoadInv'
    <2>1. UNCHANGED <<registry, sessionLoaded, loaded, unread>>
      BY <1>6 DEF Remote, registryVars, historyVars
    <2>2. \A q \in Requests : pc'[q] = "load" <=> pc[q] = "load"
      BY <1>6 DEF Remote, TypeOK, Goto
    <2> QED
      BY <2>1, <2>2, LoadFrame
  <1>7. ASSUME NEW r \in Requests, Validate(r)  PROVE LoadInv'
    <2>1. UNCHANGED <<registry, sessionLoaded, loaded, unread>>
      BY <1>7 DEF Validate, registryVars, historyVars
    <2>2. \A q \in Requests : pc'[q] = "load" <=> pc[q] = "load"
      BY <1>7 DEF Validate, TypeOK, Goto
    <2> QED
      BY <2>1, <2>2, LoadFrame
  <1>8. ASSUME NEW r \in Requests, Ask(r)  PROVE LoadInv'
    <2>1. UNCHANGED <<registry, sessionLoaded, loaded, unread>>
      BY <1>8 DEF Ask, registryVars, historyVars
    <2>2. \A q \in Requests : pc'[q] = "load" <=> pc[q] = "load"
      BY <1>8 DEF Ask, TypeOK, Goto
    <2> QED
      BY <2>1, <2>2, LoadFrame
  <1>9. ASSUME NEW r \in Requests, Check(r)  PROVE LoadInv'
    <2>1. UNCHANGED <<registry, sessionLoaded, loaded, unread>>
      BY <1>9 DEF Check, registryVars, historyVars
    <2>2. \A q \in Requests : pc'[q] = "load" <=> pc[q] = "load"
      BY <1>9 DEF Check, TypeOK, Goto
    <2> QED
      BY <2>1, <2>2, LoadFrame
  <1>10. ASSUME NEW r \in Requests, Cancel(r)  PROVE LoadInv'
    <2>1. UNCHANGED <<registry, sessionLoaded, loaded, unread>>
      BY <1>10 DEF Cancel, registryVars, historyVars
    <2>2. \A q \in Requests : pc'[q] = "load" <=> pc[q] = "load"
      BY <1>10 DEF Cancel, TypeOK, Goto
    <2> QED
      BY <2>1, <2>2, LoadFrame
  <1>11. ASSUME NEW r \in Requests, CancelNotify(r)  PROVE LoadInv'
    <2>1. UNCHANGED <<registry, sessionLoaded, loaded, unread>>
      BY <1>11 DEF CancelNotify, registryVars, historyVars
    <2>2. \A q \in Requests : pc'[q] = "load" <=> pc[q] = "load"
      BY <1>11 DEF CancelNotify, TypeOK, Goto, NotifyOne, Waiting, Woken
    <2> QED
      BY <2>1, <2>2, LoadFrame
  <1>12. ASSUME NEW r \in Requests, Arm(r)  PROVE LoadInv'
    <2>1. UNCHANGED <<registry, sessionLoaded, loaded, unread>>
      BY <1>12 DEF Arm, registryVars, historyVars
    <2>2. \A q \in Requests : pc'[q] = "load" <=> pc[q] = "load"
      BY <1>12 DEF Arm, TypeOK, Goto
    <2> QED
      BY <2>1, <2>2, LoadFrame
  <1>13. ASSUME NEW r \in Requests, Enter(r)  PROVE LoadInv'
    <2>1. UNCHANGED <<registry, sessionLoaded, loaded, unread>>
      BY <1>13 DEF Enter, registryVars, historyVars
    <2>2. \A q \in Requests : pc'[q] = "load" <=> pc[q] = "load"
      BY <1>13 DEF Enter, TypeOK, Goto
    <2> QED
      BY <2>1, <2>2, LoadFrame
  <1>14. ASSUME NEW r \in Requests, WakeUp(r)  PROVE LoadInv'
    <2>1. UNCHANGED <<registry, sessionLoaded, loaded, unread>>
      BY <1>14 DEF WakeUp, registryVars, historyVars
    <2>2. \A q \in Requests : pc'[q] = "load" <=> pc[q] = "load"
      BY <1>14 DEF WakeUp, TypeOK, Goto
    <2> QED
      BY <2>1, <2>2, LoadFrame
  <1>15. ASSUME NEW r \in Requests, Confirmed(r)  PROVE LoadInv'
    <2>1. UNCHANGED <<registry, sessionLoaded, loaded, unread>>
      BY <1>15 DEF Confirmed, registryVars, historyVars
    <2>2. \A q \in Requests : pc'[q] = "load" <=> pc[q] = "load"
      BY <1>15 DEF Confirmed, TypeOK, Goto
    <2> QED
      BY <2>1, <2>2, LoadFrame
  <1>16. ASSUME NEW r \in Requests, Denied(r)  PROVE LoadInv'
    <2>1. UNCHANGED <<registry, sessionLoaded, loaded, unread>>
      BY <1>16 DEF Denied, registryVars, historyVars
    <2>2. \A q \in Requests : pc'[q] = "load" <=> pc[q] = "load"
      BY <1>16 DEF Denied, TypeOK, Goto
    <2> QED
      BY <2>1, <2>2, LoadFrame
  <1>17. ASSUME NEW r \in Requests, Find(r)  PROVE LoadInv'
    <2>1. UNCHANGED <<registry, sessionLoaded, loaded, unread>>
      BY <1>17 DEF Find, registryVars, historyVars
    <2>2. \A q \in Requests : pc'[q] = "load" <=> pc[q] = "load"
      BY <1>17 DEF Find, TypeOK, Goto
    <2> QED
      BY <2>1, <2>2, LoadFrame
  <1>18. ASSUME NEW r \in Requests, Register(r)  PROVE LoadInv'
    <2>1. /\ UNCHANGED <<sessionLoaded, loaded, unread>>
          /\ want[r] \in Sessions
          /\ registry' = Append(registry, want[r])
          /\ \A q \in Requests : pc'[q] = "load" <=> pc[q] = "load"
      BY <1>18 DEF Register, Goto, historyVars, TypeOK, Locals, Informed
    <2>2. \A k \in DOMAIN Stored : Known(k) => Known(k)'
      BY <2>1, KnownStays DEF Known
    <2> QED
      BY <2>1, <2>2 DEF LoadInv, Pending
  <1>19. ASSUME NEW r \in Requests, Configure(r)  PROVE LoadInv'
    <2>1. UNCHANGED <<registry, sessionLoaded, loaded, unread>>
      BY <1>19 DEF Configure, registryVars, historyVars
    <2>2. \A q \in Requests : pc'[q] = "load" <=> pc[q] = "load"
      BY <1>19 DEF Configure, TypeOK, Goto
    <2> QED
      BY <2>1, <2>2, LoadFrame
  <1>20. ASSUME NEW r \in Requests, Spurious(r)  PROVE LoadInv'
    <2>1. UNCHANGED <<registry, sessionLoaded, loaded, unread>>
      BY <1>20 DEF Spurious, registryVars, historyVars
    <2>2. \A q \in Requests : pc'[q] = "load" <=> pc[q] = "load"
      BY <1>20 DEF Spurious, TypeOK, Goto
    <2> QED
      BY <2>1, <2>2, LoadFrame
  <1>21. ASSUME NEW yes \in BOOLEAN, Answer(yes)  PROVE LoadInv'
    <2>1. UNCHANGED <<registry, sessionLoaded, loaded, unread>>
      BY <1>21 DEF Answer, registryVars
    <2>2. pc \in [Requests -> Places]
      BY DEF TypeOK
    <2>3. CASE page.library
      <3>1. \A q \in Requests : pc'[q] = "load" <=> pc[q] = "load"
        BY <2>2, <2>3, <1>21, AnswerMoves
      <3> QED
        BY <2>1, <3>1, LoadFrame
    <2>4. CASE ~page.library
      <3>1. PICK d \in Requests : d = Head(dialogs) /\ pc[d] = "direct"
        BY <2>4, <1>21, AnswerMoves DEF DirectInv
      <3>2. PICK place \in {"confirmed", "denied"} : pc' = [pc EXCEPT ![d] = place]
        BY <2>4, <3>1, <1>21, AnswerMoves
      <3>3. \A q \in Requests : pc'[q] = "load" <=> pc[q] = "load"
        BY <2>2, <3>1, <3>2
      <3> QED
        BY <2>1, <3>3, LoadFrame
    <2> QED
      BY <2>3, <2>4
  <1>22. CASE AnswerNotify
    <2>1. UNCHANGED <<registry, sessionLoaded, loaded, unread>>
      BY <1>22 DEF AnswerNotify, registryVars, historyVars
    <2>2. \A q \in Requests : pc'[q] = "load" <=> pc[q] = "load"
      BY <1>22 DEF AnswerNotify, TypeOK, NotifyOne, Waiting, Woken
    <2> QED
      BY <2>1, <2>2, LoadFrame
  <1>23. CASE TimePasses
    <2>1. UNCHANGED <<registry, sessionLoaded, loaded, unread>>
      BY <1>23 DEF TimePasses, registryVars, historyVars
    <2>2. \A q \in Requests : pc'[q] = "load" <=> pc[q] = "load"
      BY <1>23 DEF TimePasses, TypeOK
    <2> QED
      BY <2>1, <2>2, LoadFrame
  <1>24. CASE Shutdown
    <2>1. UNCHANGED <<registry, sessionLoaded, loaded, unread>>
      BY <1>24 DEF Shutdown, registryVars, historyVars
    <2>2. \A q \in Requests : pc'[q] = "load" <=> pc[q] = "load"
      BY <1>24 DEF Shutdown, TypeOK
    <2> QED
      BY <2>1, <2>2, LoadFrame
  <1>25. CASE ShutdownNotify
    <2>1. UNCHANGED <<registry, sessionLoaded, loaded, unread>>
      BY <1>25 DEF ShutdownNotify, registryVars, historyVars
    <2>2. \A q \in Requests : pc'[q] = "load" <=> pc[q] = "load"
      BY <1>25 DEF ShutdownNotify, TypeOK, NotifyOne, Waiting
    <2> QED
      BY <2>1, <2>2, LoadFrame
  <1>26. CASE Joined
    <2>1. UNCHANGED <<registry, sessionLoaded, loaded, unread>>
      BY <1>26 DEF Joined, registryVars, historyVars
    <2>2. \A q \in Requests : pc'[q] = "load" <=> pc[q] = "load"
      BY <1>26 DEF Joined, TypeOK
    <2> QED
      BY <2>1, <2>2, LoadFrame
  <1>27. CASE UNCHANGED vars
    <2>1. UNCHANGED <<registry, sessionLoaded, loaded, unread>>
      BY <1>27 DEF vars, registryVars, historyVars
    <2>2. \A q \in Requests : pc'[q] = "load" <=> pc[q] = "load"
      BY <1>27 DEF vars, TypeOK
    <2> QED
      BY <2>1, <2>2, LoadFrame
  <1> QED
    BY <1>1, <1>2, <1>3, <1>4, <1>5, <1>6, <1>7, <1>8, <1>9, <1>10, <1>11, <1>12, <1>13, <1>14, <1>15, <1>16, <1>17, <1>18, <1>19, <1>20, <1>21, <1>22, <1>23, <1>24, <1>25, <1>26, <1>27 DEF Next, Thread

\* A patient page has one request that runs.
LEMMA AloneStep ==
    ASSUME TypeOK, DirectInv, Alone, page.patient, [Next]_vars
    PROVE  Alone'
  <1>1. ASSUME NEW r \in Requests, Request(r)  PROVE Alone'
    <2>1. \A q \in Requests : ~Running(q)
      BY <1>1 DEF Request
    <2>2. \E place \in Places : pc' = [pc EXCEPT ![r] = place]
      BY <1>1 DEF Request, Goto, Places, Ended
    <2> QED
      BY <2>1, <2>2 DEF TypeOK, Alone, Running
  <1>2. ASSUME NEW r \in Requests, Ready(r)  PROVE Alone'
    BY <1>2
    DEF Ready, Goto, TypeOK, Alone, Running, Ended, registryVars,
        confirmVars, throttleVars, browserVars, historyVars
  <1>3. ASSUME NEW r \in Requests, List(r)  PROVE Alone'
    BY <1>3
    DEF List, Goto, TypeOK, Alone, Running, Ended, registryVars,
        confirmVars, throttleVars, browserVars, historyVars
  <1>4. ASSUME NEW r \in Requests, Load(r)  PROVE Alone'
    BY <1>4
    DEF Load, Goto, TypeOK, Alone, Running, Ended, registryVars,
        confirmVars, throttleVars, browserVars, historyVars
  <1>5. ASSUME NEW r \in Requests, LoadDone(r)  PROVE Alone'
    BY <1>5
    DEF LoadDone, Goto, TypeOK, Alone, Running, Ended, registryVars,
        confirmVars, throttleVars, browserVars, historyVars
  <1>6. ASSUME NEW r \in Requests, Remote(r)  PROVE Alone'
    BY <1>6
    DEF Remote, Goto, TypeOK, Alone, Running, Ended, registryVars,
        confirmVars, throttleVars, browserVars, historyVars
  <1>7. ASSUME NEW r \in Requests, Validate(r)  PROVE Alone'
    BY <1>7
    DEF Validate, Goto, TypeOK, Alone, Running, Ended, registryVars,
        confirmVars, throttleVars, browserVars, historyVars
  <1>8. ASSUME NEW r \in Requests, Ask(r)  PROVE Alone'
    BY <1>8
    DEF Ask, Goto, TypeOK, Alone, Running, Ended, registryVars,
        confirmVars, throttleVars, browserVars, historyVars
  <1>9. ASSUME NEW r \in Requests, Check(r)  PROVE Alone'
    BY <1>9
    DEF Check, Goto, TypeOK, Alone, Running, Ended, registryVars,
        confirmVars, throttleVars, browserVars, historyVars
  <1>10. ASSUME NEW r \in Requests, Cancel(r)  PROVE Alone'
    BY <1>10
    DEF Cancel, Goto, TypeOK, Alone, Running, Ended, registryVars,
        confirmVars, throttleVars, browserVars, historyVars
  <1>11. ASSUME NEW r \in Requests, CancelNotify(r)  PROVE Alone'
    BY <1>11
    DEF CancelNotify, Goto, NotifyOne, Waiting, Woken, TypeOK, Alone, Running, Ended, registryVars,
        confirmVars, throttleVars, browserVars, historyVars
  <1>12. ASSUME NEW r \in Requests, Arm(r)  PROVE Alone'
    BY <1>12
    DEF Arm, Goto, TypeOK, Alone, Running, Ended, registryVars,
        confirmVars, throttleVars, browserVars, historyVars
  <1>13. ASSUME NEW r \in Requests, Enter(r)  PROVE Alone'
    BY <1>13
    DEF Enter, Goto, TypeOK, Alone, Running, Ended, registryVars,
        confirmVars, throttleVars, browserVars, historyVars
  <1>14. ASSUME NEW r \in Requests, WakeUp(r)  PROVE Alone'
    BY <1>14
    DEF WakeUp, Goto, TypeOK, Alone, Running, Ended, registryVars,
        confirmVars, throttleVars, browserVars, historyVars
  <1>15. ASSUME NEW r \in Requests, Confirmed(r)  PROVE Alone'
    BY <1>15
    DEF Confirmed, Goto, TypeOK, Alone, Running, Ended, registryVars,
        confirmVars, throttleVars, browserVars, historyVars
  <1>16. ASSUME NEW r \in Requests, Denied(r)  PROVE Alone'
    BY <1>16
    DEF Denied, Goto, TypeOK, Alone, Running, Ended, registryVars,
        confirmVars, throttleVars, browserVars, historyVars
  <1>17. ASSUME NEW r \in Requests, Find(r)  PROVE Alone'
    BY <1>17
    DEF Find, Goto, TypeOK, Alone, Running, Ended, registryVars,
        confirmVars, throttleVars, browserVars, historyVars
  <1>18. ASSUME NEW r \in Requests, Register(r)  PROVE Alone'
    BY <1>18
    DEF Register, Goto, TypeOK, Alone, Running, Ended, registryVars,
        confirmVars, throttleVars, browserVars, historyVars
  <1>19. ASSUME NEW r \in Requests, Configure(r)  PROVE Alone'
    BY <1>19
    DEF Configure, Goto, TypeOK, Alone, Running, Ended, registryVars,
        confirmVars, throttleVars, browserVars, historyVars
  <1>20. ASSUME NEW r \in Requests, Spurious(r)  PROVE Alone'
    BY <1>20
    DEF Spurious, Goto, TypeOK, Alone, Running, Ended, registryVars,
        confirmVars, throttleVars, browserVars, historyVars
  <1>21. ASSUME NEW yes \in BOOLEAN, Answer(yes)  PROVE Alone'
    <2>1. UNCHANGED page /\ pc \in [Requests -> Places]
      BY <1>21 DEF Answer, browserVars, TypeOK
    <2>2. CASE page.library
      BY <2>1, <2>2, <1>21, AnswerMoves DEF Alone, Running, Ended
    <2>3. CASE ~page.library
      <3>1. PICK d \in Requests : d = Head(dialogs) /\ pc[d] = "direct"
        BY <2>3, <1>21, AnswerMoves DEF DirectInv
      <3>2. PICK place \in {"confirmed", "denied"} : pc' = [pc EXCEPT ![d] = place]
        BY <2>3, <3>1, <1>21, AnswerMoves
      <3> QED
        BY <2>1, <3>1, <3>2 DEF Alone, Running, Ended
    <2> QED
      BY <2>2, <2>3
  <1>22. CASE AnswerNotify
    BY <1>22
    DEF AnswerNotify, NotifyOne, Waiting, Woken, TypeOK, Alone, Running, Ended, registryVars,
        confirmVars, throttleVars, browserVars, historyVars
  <1>23. CASE TimePasses
    BY <1>23
    DEF TimePasses, TypeOK, Alone, Running, Ended, registryVars,
        confirmVars, throttleVars, browserVars, historyVars
  <1>24. CASE Shutdown
    BY <1>24
    DEF Shutdown, TypeOK, Alone, Running, Ended, registryVars,
        confirmVars, throttleVars, browserVars, historyVars
  <1>25. CASE ShutdownNotify
    BY <1>25
    DEF ShutdownNotify, NotifyOne, Waiting, TypeOK, Alone, Running, Ended, registryVars,
        confirmVars, throttleVars, browserVars, historyVars
  <1>26. CASE Joined
    BY <1>26
    DEF Joined, TypeOK, Alone, Running, Ended, registryVars,
        confirmVars, throttleVars, browserVars, historyVars
  <1>27. CASE UNCHANGED vars
    BY <1>27
    DEF vars, TypeOK, Alone, Running, Ended, registryVars,
        confirmVars, throttleVars, browserVars, historyVars
  <1> QED
    BY <1>1, <1>2, <1>3, <1>4, <1>5, <1>6, <1>7, <1>8, <1>9, <1>10, <1>11, <1>12, <1>13, <1>14, <1>15, <1>16, <1>17, <1>18, <1>19, <1>20, <1>21, <1>22, <1>23, <1>24, <1>25, <1>26, <1>27 DEF Next, Thread

\* OneLoad speaks of the registry, of who loads and of who registers.
LEMMA LoadsFrame ==
    ASSUME OneLoad, UNCHANGED <<registry, sessionLoaded, loaded, want, got>>,
           \A q \in Requests : /\ pc'[q] = "load" <=> pc[q] = "load"
                               /\ pc'[q] = "list" => pc[q] = "list"
                               /\ pc'[q] = "register" => pc[q] = "register"
    PROVE  OneLoad'
  BY DEF OneLoad, Named

\* A patient page loads once, and registers a name once.
LEMMA OneLoadStep ==
    ASSUME TypeOK, Locals, DirectInv, Alone, OneLoad, [Next]_vars
    PROVE  OneLoad'
  <1>1. ASSUME NEW r \in Requests, Request(r)  PROVE OneLoad'
    <2>1. UNCHANGED <<registry, sessionLoaded, loaded, want, got>>
      BY <1>1 DEF Request, registryVars
    <2>2. \A q \in Requests :
             /\ pc'[q] = "load" <=> pc[q] = "load"
             /\ pc'[q] = "list" => pc[q] = "list"
             /\ pc'[q] = "register" => pc[q] = "register"
      BY <1>1 DEF Request, TypeOK, Goto
    <2> QED
      BY <2>1, <2>2, LoadsFrame
  <1>2. ASSUME NEW r \in Requests, Ready(r)  PROVE OneLoad'
    <2>1. /\ UNCHANGED <<registry, sessionLoaded, loaded, want, got>>
          /\ pc \in [Requests -> Places]
          /\ \/ sessionLoaded /\ pc' = [pc EXCEPT ![r] = "remote"]
             \/ ~sessionLoaded /\ pc' = [pc EXCEPT ![r] = "list"]
          /\ pc[r] = "ready"
      BY <1>2 DEF Ready, Goto, TypeOK, registryVars
    <2>2. CASE sessionLoaded
      <3>1. \A q \in Requests : /\ pc'[q] = "load" <=> pc[q] = "load"
                                /\ pc'[q] = "list" => pc[q] = "list"
                                /\ pc'[q] = "register" => pc[q] = "register"
        BY <2>1, <2>2
      <3> QED
        BY <2>1, <3>1, LoadsFrame
    <2>3. CASE ~sessionLoaded
      <3>1. \A q \in Requests : /\ pc'[q] = "load" <=> pc[q] = "load"
                                /\ pc'[q] = "register" => pc[q] = "register"
        BY <2>1, <2>3
      <3> QED
        BY <2>1, <2>3, <3>1 DEF OneLoad, Named
    <2> QED
      BY <2>2, <2>3
  <1>3. ASSUME NEW r \in Requests, List(r)  PROVE OneLoad'
    <2>1. /\ UNCHANGED <<sessionLoaded, want, got>>
          /\ pc \in [Requests -> Places]
          /\ pc' = [pc EXCEPT ![r] = "load"] /\ pc[r] = "list"
      BY <1>3 DEF List, Goto, TypeOK
    <2>2. \A q \in Requests : q # r =>
             pc'[q] \notin {"list", "load", "register"}
      BY <2>1 DEF Alone, Running, Ended
    <2>3. registry = <<>> \/ registry' = <<>>
      <3>1. ~sessionLoaded
        BY <2>1 DEF OneLoad
      <3>2. \A q \in Requests : pc[q] # "load"
        BY <2>1 DEF Alone, Running, Ended
      <3>3. DOMAIN registry = {}
        BY <3>1, <3>2 DEF OneLoad
      <3>4. registry \in Seq(Sessions)
        BY DEF TypeOK
      <3>5. registry = <<>>
        BY <3>3, <3>4, LenProperties, EmptySeq
      <3> QED
        BY <3>5
    <2>4. registry' = <<>>
      BY <2>3, <1>3 DEF List
    <2>5. DOMAIN registry' = {}
      BY <2>4
    <2>6. ~sessionLoaded' /\ \A q \in Requests : got'[q] = NoSession
      BY <2>1 DEF OneLoad, Locals
    <2> QED
      BY <2>1, <2>2, <2>5, <2>6 DEF OneLoad
  <1>4. ASSUME NEW r \in Requests, Load(r)  PROVE OneLoad'
    <2>1. /\ UNCHANGED <<pc, sessionLoaded, want, got>>
          /\ pc[r] = "load" /\ loaded[r] < Len(Stored)
          /\ loaded' = [loaded EXCEPT ![r] = loaded[r] + 1]
          /\ loaded \in [Requests -> 0 .. Len(Stored)]
          /\ registry \in Seq(Sessions)
      BY <1>4 DEF Load, TypeOK
    <2>2. \A q \in Requests : q # r =>
             pc[q] \notin {"list", "load", "register"}
      BY <2>1 DEF Alone, Running, Ended
    <2>3. ~sessionLoaded /\ \A q \in Requests : got[q] = NoSession
      BY <2>1 DEF OneLoad, Locals
    <2>4. /\ loaded'[r] = loaded[r] + 1 /\ loaded[r] \in Nat
          /\ loaded[r] + 1 \in 1 .. Len(Stored) /\ Len(Stored) \in Nat
          /\ Stored[loaded[r] + 1] \in Sessions
      BY <2>1, Constants
    <2>5. \A i \in DOMAIN registry :
             \E k \in 1 .. loaded[r] : registry[i] = Stored[k]
      BY <2>2, <2>3 DEF OneLoad
    <2>6. /\ \A i \in DOMAIN registry' :
                \E k \in 1 .. loaded'[r] : registry'[i] = Stored[k]
          /\ \A i, j \in DOMAIN registry' :
                registry'[i].name = registry'[j].name => i = j
      <3>1. CASE UNCHANGED registry
        BY <2>4, <2>5, <3>1 DEF OneLoad
      <3>2. CASE registry' = Append(registry, Stored[loaded[r] + 1])
        <4>1. /\ Len(registry) \in Nat /\ DOMAIN registry = 1 .. Len(registry)
              /\ DOMAIN registry' = 1 .. Len(registry) + 1
              /\ registry'[Len(registry) + 1] = Stored[loaded[r] + 1]
              /\ \A i \in DOMAIN registry : registry'[i] = registry[i]
          BY <2>1, <2>4, <3>2, AppendProperties, LenProperties
        <4>2. \A i \in DOMAIN registry' :
                 \E k \in 1 .. loaded'[r] : registry'[i] = Stored[k]
          <5> TAKE i \in DOMAIN registry'
          <5>1. CASE i \in DOMAIN registry
            <6>1. PICK k \in 1 .. loaded[r] : registry[i] = Stored[k]
              BY <2>5, <5>1
            <6>2. k \in 1 .. loaded'[r]
              BY <2>4
            <6> QED
              BY <4>1, <5>1, <6>1, <6>2
          <5>2. CASE i = Len(registry) + 1
            <6>1. loaded[r] + 1 \in 1 .. loaded'[r]
              BY <2>4
            <6> QED
              BY <4>1, <5>2, <6>1
          <5> QED
            BY <4>1, <5>1, <5>2
        <4>3. \A i \in DOMAIN registry : registry[i].name # Stored[loaded[r] + 1].name
          <5>1. \A k \in 1 .. loaded[r] : Stored[k].name # Stored[loaded[r] + 1].name
            BY <2>4, RequestAssumption, LenProperties
          <5> QED
            BY <2>5, <5>1
        <4>4. \A i \in DOMAIN registry' : i \in DOMAIN registry \/ i = Len(registry) + 1
          BY <4>1
        <4>5. \A i, j \in DOMAIN registry :
                 registry[i].name = registry[j].name => i = j
          BY DEF OneLoad
        <4>6. \A i, j \in DOMAIN registry' :
                 registry'[i].name = registry'[j].name => i = j
          BY <4>1, <4>3, <4>4, <4>5
        <4> QED
          BY <4>2, <4>6
      <3> QED
        BY <1>4, <3>1, <3>2 DEF Load
    <2> QED
      BY <2>1, <2>2, <2>3, <2>6 DEF OneLoad
  <1>5. ASSUME NEW r \in Requests, LoadDone(r)  PROVE OneLoad'
    <2>1. /\ UNCHANGED <<registry, want, got>> /\ sessionLoaded'
          /\ pc \in [Requests -> Places]
          /\ pc' = [pc EXCEPT ![r] = "remote"] /\ pc[r] = "load"
      BY <1>5 DEF LoadDone, Goto, TypeOK
    <2>2. \A q \in Requests : pc'[q] \notin {"list", "load", "register"}
      BY <2>1 DEF Alone, Running, Ended
    <2> QED
      BY <2>1, <2>2 DEF OneLoad
  <1>6. ASSUME NEW r \in Requests, Remote(r)  PROVE OneLoad'
    <2>1. /\ UNCHANGED <<registry, sessionLoaded, loaded, got>>
          /\ pc \in [Requests -> Places]
          /\ \E place \in {"validate", "failed"} : pc' = [pc EXCEPT ![r] = place]
          /\ pc[r] = "remote"
      BY <1>6 DEF Remote, Goto, TypeOK
    <2>2. \A q \in Requests : /\ pc'[q] = "load" <=> pc[q] = "load"
                              /\ pc'[q] = "list" => pc[q] = "list"
                              /\ pc'[q] # "register"
      BY <2>1 DEF Alone, Running, Ended
    <2> QED
      BY <2>1, <2>2 DEF OneLoad
  <1>7. ASSUME NEW r \in Requests, Validate(r)  PROVE OneLoad'
    <2>1. UNCHANGED <<registry, sessionLoaded, loaded, want, got>>
      BY <1>7 DEF Validate, registryVars
    <2>2. \A q \in Requests :
             /\ pc'[q] = "load" <=> pc[q] = "load"
             /\ pc'[q] = "list" => pc[q] = "list"
             /\ pc'[q] = "register" => pc[q] = "register"
      BY <1>7 DEF Validate, TypeOK, Goto
    <2> QED
      BY <2>1, <2>2, LoadsFrame
  <1>8. ASSUME NEW r \in Requests, Ask(r)  PROVE OneLoad'
    <2>1. UNCHANGED <<registry, sessionLoaded, loaded, want, got>>
      BY <1>8 DEF Ask, registryVars
    <2>2. \A q \in Requests :
             /\ pc'[q] = "load" <=> pc[q] = "load"
             /\ pc'[q] = "list" => pc[q] = "list"
             /\ pc'[q] = "register" => pc[q] = "register"
      BY <1>8 DEF Ask, TypeOK, Goto
    <2> QED
      BY <2>1, <2>2, LoadsFrame
  <1>9. ASSUME NEW r \in Requests, Check(r)  PROVE OneLoad'
    <2>1. UNCHANGED <<registry, sessionLoaded, loaded, want, got>>
      BY <1>9 DEF Check, registryVars
    <2>2. \A q \in Requests :
             /\ pc'[q] = "load" <=> pc[q] = "load"
             /\ pc'[q] = "list" => pc[q] = "list"
             /\ pc'[q] = "register" => pc[q] = "register"
      BY <1>9 DEF Check, TypeOK, Goto
    <2> QED
      BY <2>1, <2>2, LoadsFrame
  <1>10. ASSUME NEW r \in Requests, Cancel(r)  PROVE OneLoad'
    <2>1. UNCHANGED <<registry, sessionLoaded, loaded, want, got>>
      BY <1>10 DEF Cancel, registryVars
    <2>2. \A q \in Requests :
             /\ pc'[q] = "load" <=> pc[q] = "load"
             /\ pc'[q] = "list" => pc[q] = "list"
             /\ pc'[q] = "register" => pc[q] = "register"
      BY <1>10 DEF Cancel, TypeOK, Goto
    <2> QED
      BY <2>1, <2>2, LoadsFrame
  <1>11. ASSUME NEW r \in Requests, CancelNotify(r)  PROVE OneLoad'
    <2>1. UNCHANGED <<registry, sessionLoaded, loaded, want, got>>
      BY <1>11 DEF CancelNotify, registryVars
    <2>2. \A q \in Requests :
             /\ pc'[q] = "load" <=> pc[q] = "load"
             /\ pc'[q] = "list" => pc[q] = "list"
             /\ pc'[q] = "register" => pc[q] = "register"
      BY <1>11 DEF CancelNotify, TypeOK, Goto, NotifyOne, Waiting, Woken
    <2> QED
      BY <2>1, <2>2, LoadsFrame
  <1>12. ASSUME NEW r \in Requests, Arm(r)  PROVE OneLoad'
    <2>1. UNCHANGED <<registry, sessionLoaded, loaded, want, got>>
      BY <1>12 DEF Arm, registryVars
    <2>2. \A q \in Requests :
             /\ pc'[q] = "load" <=> pc[q] = "load"
             /\ pc'[q] = "list" => pc[q] = "list"
             /\ pc'[q] = "register" => pc[q] = "register"
      BY <1>12 DEF Arm, TypeOK, Goto
    <2> QED
      BY <2>1, <2>2, LoadsFrame
  <1>13. ASSUME NEW r \in Requests, Enter(r)  PROVE OneLoad'
    <2>1. UNCHANGED <<registry, sessionLoaded, loaded, want, got>>
      BY <1>13 DEF Enter, registryVars
    <2>2. \A q \in Requests :
             /\ pc'[q] = "load" <=> pc[q] = "load"
             /\ pc'[q] = "list" => pc[q] = "list"
             /\ pc'[q] = "register" => pc[q] = "register"
      BY <1>13 DEF Enter, TypeOK, Goto
    <2> QED
      BY <2>1, <2>2, LoadsFrame
  <1>14. ASSUME NEW r \in Requests, WakeUp(r)  PROVE OneLoad'
    <2>1. UNCHANGED <<registry, sessionLoaded, loaded, want, got>>
      BY <1>14 DEF WakeUp, registryVars
    <2>2. \A q \in Requests :
             /\ pc'[q] = "load" <=> pc[q] = "load"
             /\ pc'[q] = "list" => pc[q] = "list"
             /\ pc'[q] = "register" => pc[q] = "register"
      BY <1>14 DEF WakeUp, TypeOK, Goto
    <2> QED
      BY <2>1, <2>2, LoadsFrame
  <1>15. ASSUME NEW r \in Requests, Confirmed(r)  PROVE OneLoad'
    <2>1. UNCHANGED <<registry, sessionLoaded, loaded, want, got>>
      BY <1>15 DEF Confirmed, registryVars
    <2>2. \A q \in Requests :
             /\ pc'[q] = "load" <=> pc[q] = "load"
             /\ pc'[q] = "list" => pc[q] = "list"
             /\ pc'[q] = "register" => pc[q] = "register"
      BY <1>15 DEF Confirmed, TypeOK, Goto
    <2> QED
      BY <2>1, <2>2, LoadsFrame
  <1>16. ASSUME NEW r \in Requests, Denied(r)  PROVE OneLoad'
    <2>1. UNCHANGED <<registry, sessionLoaded, loaded, want, got>>
      BY <1>16 DEF Denied, registryVars
    <2>2. \A q \in Requests :
             /\ pc'[q] = "load" <=> pc[q] = "load"
             /\ pc'[q] = "list" => pc[q] = "list"
             /\ pc'[q] = "register" => pc[q] = "register"
      BY <1>16 DEF Denied, TypeOK, Goto
    <2> QED
      BY <2>1, <2>2, LoadsFrame
  <1>17. ASSUME NEW r \in Requests, Find(r)  PROVE OneLoad'
    <2>1. /\ UNCHANGED <<registry, sessionLoaded, loaded, want>>
          /\ pc \in [Requests -> Places]
          /\ got \in [Requests -> Sessions \cup {NoSession}]
          /\ \E place \in {"register", "configure", "failed"} :
                /\ pc' = [pc EXCEPT ![r] = place]
                /\ place = "register" => Named(r) = {}
          /\ pc[r] = "find"
      BY <1>17 DEF Find, Goto, TypeOK, Lookup
    <2>2. \A q \in Requests : /\ pc'[q] = "load" <=> pc[q] = "load"
                              /\ pc'[q] = "list" => pc[q] = "list"
                              /\ pc'[q] = "register" => Named(q) = {}
      BY <2>1 DEF Alone, Running, Ended
    <2>3. \A q \in Requests : got'[q] # NoSession =>
             \E i \in DOMAIN registry : registry[i] = got'[q]
      <3>1. CASE Lookup(r) = "valid"
        <4>1. got' = [got EXCEPT ![r] = First(r)]
          BY <1>17, <3>1 DEF Find
        <4>2. \E i \in DOMAIN registry : registry[i] = First(r)
          BY <3>1, FirstNamed DEF Lookup
        <4> QED
          BY <2>1, <4>1, <4>2 DEF OneLoad
      <3>2. CASE Lookup(r) # "valid"
        <4>1. got' = got
          BY <1>17, <3>2 DEF Find
        <4> QED
          BY <4>1 DEF OneLoad
      <3> QED
        BY <3>1, <3>2
    <2>4. \A q \in Requests : Named(q)' = Named(q)
      BY <2>1 DEF Named
    <2> QED
      BY <2>1, <2>2, <2>3, <2>4 DEF OneLoad
  <1>18. ASSUME NEW r \in Requests, Register(r)  PROVE OneLoad'
    <2>1. /\ UNCHANGED <<sessionLoaded, loaded, want>>
          /\ want[r] \in Sessions /\ sessionLoaded
          /\ registry' = Append(registry, want[r])
          /\ got' = [got EXCEPT ![r] = want[r]]
          /\ pc' = [pc EXCEPT ![r] = "configure"] /\ pc[r] = "register"
          /\ pc \in [Requests -> Places]
          /\ got \in [Requests -> Sessions \cup {NoSession}]
          /\ registry \in Seq(Sessions)
      BY <1>18 DEF Register, Goto, TypeOK, Locals, Informed
    <2>2. \A q \in Requests : pc'[q] \notin {"list", "load", "register"}
      BY <2>1 DEF Alone, Running, Ended
    <2>3. /\ Len(registry) \in Nat /\ DOMAIN registry = 1 .. Len(registry)
          /\ DOMAIN registry' = 1 .. Len(registry) + 1
          /\ registry'[Len(registry) + 1] = want[r]
          /\ \A i \in DOMAIN registry : registry'[i] = registry[i]
      BY <2>1, AppendProperties, LenProperties
    <2>4. \A i \in DOMAIN registry : registry[i].name # want[r].name
      BY <2>1 DEF OneLoad, Named
    <2>5. \A i, j \in DOMAIN registry' :
             registry'[i].name = registry'[j].name => i = j
      <3>1. \A i \in DOMAIN registry' : i \in DOMAIN registry \/ i = Len(registry) + 1
        BY <2>3
      <3>2. \A i, j \in DOMAIN registry :
               registry[i].name = registry[j].name => i = j
        BY DEF OneLoad
      <3> QED
        BY <2>3, <2>4, <3>1, <3>2
    <2>6. \A q \in Requests : got'[q] # NoSession =>
             \E i \in DOMAIN registry' : registry'[i] = got'[q]
      <3>1. \A q \in Requests : got[q] # NoSession =>
               \E i \in DOMAIN registry' : registry'[i] = got[q]
        BY <2>1, KnownStays DEF OneLoad
      <3>2. \E i \in DOMAIN registry' : registry'[i] = want[r]
        BY <2>1, KnownStays
      <3> QED
        BY <2>1, <3>1, <3>2
    <2> QED
      BY <2>1, <2>2, <2>5, <2>6 DEF OneLoad
  <1>19. ASSUME NEW r \in Requests, Configure(r)  PROVE OneLoad'
    <2>1. UNCHANGED <<registry, sessionLoaded, loaded, want, got>>
      BY <1>19 DEF Configure, registryVars
    <2>2. \A q \in Requests :
             /\ pc'[q] = "load" <=> pc[q] = "load"
             /\ pc'[q] = "list" => pc[q] = "list"
             /\ pc'[q] = "register" => pc[q] = "register"
      BY <1>19 DEF Configure, TypeOK, Goto
    <2> QED
      BY <2>1, <2>2, LoadsFrame
  <1>20. ASSUME NEW r \in Requests, Spurious(r)  PROVE OneLoad'
    <2>1. UNCHANGED <<registry, sessionLoaded, loaded, want, got>>
      BY <1>20 DEF Spurious, registryVars
    <2>2. \A q \in Requests :
             /\ pc'[q] = "load" <=> pc[q] = "load"
             /\ pc'[q] = "list" => pc[q] = "list"
             /\ pc'[q] = "register" => pc[q] = "register"
      BY <1>20 DEF Spurious, TypeOK, Goto
    <2> QED
      BY <2>1, <2>2, LoadsFrame
  <1>21. ASSUME NEW yes \in BOOLEAN, Answer(yes)  PROVE OneLoad'
    <2>1. UNCHANGED <<registry, sessionLoaded, loaded, want, got>>
      BY <1>21 DEF Answer, registryVars
    <2>2. pc \in [Requests -> Places]
      BY DEF TypeOK
    <2>3. CASE page.library
      <3>1. \A q \in Requests :
               /\ pc'[q] = "load" <=> pc[q] = "load"
               /\ pc'[q] = "list" => pc[q] = "list"
               /\ pc'[q] = "register" => pc[q] = "register"
        BY <2>2, <2>3, <1>21, AnswerMoves
      <3> QED
        BY <2>1, <3>1, LoadsFrame
    <2>4. CASE ~page.library
      <3>1. PICK d \in Requests : d = Head(dialogs) /\ pc[d] = "direct"
        BY <2>4, <1>21, AnswerMoves DEF DirectInv
      <3>2. PICK place \in {"confirmed", "denied"} : pc' = [pc EXCEPT ![d] = place]
        BY <2>4, <3>1, <1>21, AnswerMoves
      <3>3. \A q \in Requests :
               /\ pc'[q] = "load" <=> pc[q] = "load"
               /\ pc'[q] = "list" => pc[q] = "list"
               /\ pc'[q] = "register" => pc[q] = "register"
        BY <2>2, <3>1, <3>2
      <3> QED
        BY <2>1, <3>3, LoadsFrame
    <2> QED
      BY <2>3, <2>4
  <1>22. CASE AnswerNotify
    <2>1. UNCHANGED <<registry, sessionLoaded, loaded, want, got>>
      BY <1>22 DEF AnswerNotify, registryVars
    <2>2. \A q \in Requests :
             /\ pc'[q] = "load" <=> pc[q] = "load"
             /\ pc'[q] = "list" => pc[q] = "list"
             /\ pc'[q] = "register" => pc[q] = "register"
      BY <1>22 DEF AnswerNotify, TypeOK, NotifyOne, Waiting, Woken
    <2> QED
      BY <2>1, <2>2, LoadsFrame
  <1>23. CASE TimePasses
    <2>1. UNCHANGED <<registry, sessionLoaded, loaded, want, got>>
      BY <1>23 DEF TimePasses, registryVars
    <2>2. \A q \in Requests :
             /\ pc'[q] = "load" <=> pc[q] = "load"
             /\ pc'[q] = "list" => pc[q] = "list"
             /\ pc'[q] = "register" => pc[q] = "register"
      BY <1>23 DEF TimePasses, TypeOK
    <2> QED
      BY <2>1, <2>2, LoadsFrame
  <1>24. CASE Shutdown
    <2>1. UNCHANGED <<registry, sessionLoaded, loaded, want, got>>
      BY <1>24 DEF Shutdown, registryVars
    <2>2. \A q \in Requests :
             /\ pc'[q] = "load" <=> pc[q] = "load"
             /\ pc'[q] = "list" => pc[q] = "list"
             /\ pc'[q] = "register" => pc[q] = "register"
      BY <1>24 DEF Shutdown, TypeOK
    <2> QED
      BY <2>1, <2>2, LoadsFrame
  <1>25. CASE ShutdownNotify
    <2>1. UNCHANGED <<registry, sessionLoaded, loaded, want, got>>
      BY <1>25 DEF ShutdownNotify, registryVars
    <2>2. \A q \in Requests :
             /\ pc'[q] = "load" <=> pc[q] = "load"
             /\ pc'[q] = "list" => pc[q] = "list"
             /\ pc'[q] = "register" => pc[q] = "register"
      BY <1>25 DEF ShutdownNotify, TypeOK, NotifyOne, Waiting
    <2> QED
      BY <2>1, <2>2, LoadsFrame
  <1>26. CASE Joined
    <2>1. UNCHANGED <<registry, sessionLoaded, loaded, want, got>>
      BY <1>26 DEF Joined, registryVars
    <2>2. \A q \in Requests :
             /\ pc'[q] = "load" <=> pc[q] = "load"
             /\ pc'[q] = "list" => pc[q] = "list"
             /\ pc'[q] = "register" => pc[q] = "register"
      BY <1>26 DEF Joined, TypeOK
    <2> QED
      BY <2>1, <2>2, LoadsFrame
  <1>27. CASE UNCHANGED vars
    <2>1. UNCHANGED <<registry, sessionLoaded, loaded, want, got>>
      BY <1>27 DEF vars, registryVars
    <2>2. \A q \in Requests :
             /\ pc'[q] = "load" <=> pc[q] = "load"
             /\ pc'[q] = "list" => pc[q] = "list"
             /\ pc'[q] = "register" => pc[q] = "register"
      BY <1>27 DEF vars, TypeOK
    <2> QED
      BY <2>1, <2>2, LoadsFrame
  <1> QED
    BY <1>1, <1>2, <1>3, <1>4, <1>5, <1>6, <1>7, <1>8, <1>9, <1>10, <1>11, <1>12, <1>13, <1>14, <1>15, <1>16, <1>17, <1>18, <1>19, <1>20, <1>21, <1>22, <1>23, <1>24, <1>25, <1>26, <1>27 DEF Next, Thread

\* A dialog that is the only one belongs to a request.
LEMMA OneAsker ==
    ASSUME TypeOK, Len(dialogs) = 1
    PROVE  dialogs[1] \in Requests
  <1>1. dialogs \in Seq(Requests) /\ 1 \in 1 .. Len(dialogs)
    BY DEF TypeOK
  <1> QED
    BY <1>1, ElementOfSeq

\* A thread that goes on, with its dialog open or not, and no answer.
LEMMA QuestionFrame ==
    ASSUME TypeOK, OwnQuestion,
           UNCHANGED <<dialogs, answer, unasked, confirmResult, shuttingDown, browser>>,
           NEW r \in Requests, NEW place \in Places,
           pc' = [pc EXCEPT ![r] = place],
           pc[r] \in Open => place \in Open,
           ~Running(r) => browser = "free",
           place \in Armed => pc[r] \in Armed,
           (\A q \in Requests : ~unasked[q]) /\ place = "confirmed"
               => answer[r] = "yes"
    PROVE  OwnQuestion'
  <1> SUFFICES ASSUME \A q \in Requests : ~unasked[q]
               PROVE  OwnQuestion'
    BY DEF OwnQuestion
  <1>1. pc \in [Requests -> Places]
    BY DEF TypeOK
  <1>2. Len(dialogs) = 1 => dialogs[1] \in Requests
    BY OneAsker
  <1>3. ~shuttingDown' => /\ Len(dialogs') <= 1
                          /\ Len(dialogs') = 1 => pc'[dialogs'[1]] \in Open
    BY <1>1, <1>2 DEF OwnQuestion
  <1>6. browser' \in {"yes", "no"} =>
           Len(dialogs') = 0 /\ \A q \in Requests : Running(q)' => pc'[q] \in Open
    BY <1>1 DEF OwnQuestion, Running
  <1>4. \A q \in Requests : pc'[q] \in Armed /\ confirmResult' => answer'[q] = "yes"
    BY <1>1 DEF OwnQuestion
  <1>5. \A q \in Requests : pc'[q] = "confirmed" => answer'[q] = "yes"
    BY <1>1 DEF OwnQuestion
  <1> QED
    BY <1>3, <1>6, <1>4, <1>5 DEF OwnQuestion

\* The question of a patient page is the only one.
LEMMA QuestionStep ==
    ASSUME TypeOK, Joining, Alone, OwnQuestion, [Next]_vars
    PROVE  OwnQuestion'
  <1>1. ASSUME NEW r \in Requests, Request(r)  PROVE OwnQuestion'
    <2>1. /\ UNCHANGED <<dialogs, answer, unasked, confirmResult, shuttingDown, browser>>
          /\ ~Running(r) => browser = "free"
      BY <1>1 DEF Request, confirmVars, browserVars, historyVars, Running, Ended
    <2>2. PICK place \in Places \ (Armed \cup {"confirmed"}) :
             pc' = [pc EXCEPT ![r] = place] /\ (pc[r] \in Open => place \in Open)
      BY <1>1 DEF Request, Goto, Places, Ended, Armed, Open
    <2> QED
      BY <2>1, <2>2, QuestionFrame
  <1>2. ASSUME NEW r \in Requests, Ready(r)  PROVE OwnQuestion'
    <2>1. /\ UNCHANGED <<dialogs, answer, unasked, confirmResult, shuttingDown, browser>>
          /\ ~Running(r) => browser = "free"
      BY <1>2 DEF Ready, confirmVars, browserVars, historyVars, Running, Ended
    <2>2. PICK place \in Places \ (Armed \cup {"confirmed"}) :
             pc' = [pc EXCEPT ![r] = place] /\ (pc[r] \in Open => place \in Open)
      BY <1>2 DEF Ready, Goto, Places, Ended, Armed, Open
    <2> QED
      BY <2>1, <2>2, QuestionFrame
  <1>3. ASSUME NEW r \in Requests, List(r)  PROVE OwnQuestion'
    <2>1. /\ UNCHANGED <<dialogs, answer, unasked, confirmResult, shuttingDown, browser>>
          /\ ~Running(r) => browser = "free"
      BY <1>3 DEF List, confirmVars, browserVars, historyVars, Running, Ended
    <2>2. PICK place \in Places \ (Armed \cup {"confirmed"}) :
             pc' = [pc EXCEPT ![r] = place] /\ (pc[r] \in Open => place \in Open)
      BY <1>3 DEF List, Goto, Places, Ended, Armed, Open
    <2> QED
      BY <2>1, <2>2, QuestionFrame
  <1>4. ASSUME NEW r \in Requests, Load(r)  PROVE OwnQuestion'
    <2>1. /\ UNCHANGED <<dialogs, answer, unasked, confirmResult, shuttingDown, browser>>
          /\ ~Running(r) => browser = "free"
      BY <1>4 DEF Load, confirmVars, browserVars, historyVars, Running, Ended
    <2>2. PICK place \in Places \ (Armed \cup {"confirmed"}) :
             pc' = [pc EXCEPT ![r] = place] /\ (pc[r] \in Open => place \in Open)
      BY <1>4 DEF Load, Goto, Places, Ended, Armed, Open, TypeOK
    <2> QED
      BY <2>1, <2>2, QuestionFrame
  <1>5. ASSUME NEW r \in Requests, LoadDone(r)  PROVE OwnQuestion'
    <2>1. /\ UNCHANGED <<dialogs, answer, unasked, confirmResult, shuttingDown, browser>>
          /\ ~Running(r) => browser = "free"
      BY <1>5 DEF LoadDone, confirmVars, browserVars, historyVars, Running, Ended
    <2>2. PICK place \in Places \ (Armed \cup {"confirmed"}) :
             pc' = [pc EXCEPT ![r] = place] /\ (pc[r] \in Open => place \in Open)
      BY <1>5 DEF LoadDone, Goto, Places, Ended, Armed, Open
    <2> QED
      BY <2>1, <2>2, QuestionFrame
  <1>6. ASSUME NEW r \in Requests, Remote(r)  PROVE OwnQuestion'
    <2>1. /\ UNCHANGED <<dialogs, answer, unasked, confirmResult, shuttingDown, browser>>
          /\ ~Running(r) => browser = "free"
      BY <1>6 DEF Remote, confirmVars, browserVars, historyVars, Running, Ended
    <2>2. PICK place \in Places \ (Armed \cup {"confirmed"}) :
             pc' = [pc EXCEPT ![r] = place] /\ (pc[r] \in Open => place \in Open)
      BY <1>6 DEF Remote, Goto, Places, Ended, Armed, Open
    <2> QED
      BY <2>1, <2>2, QuestionFrame
  <1>7. ASSUME NEW r \in Requests, Validate(r)  PROVE OwnQuestion'
    <2>1. /\ UNCHANGED <<dialogs, answer, unasked, confirmResult, shuttingDown, browser>>
          /\ ~Running(r) => browser = "free"
      BY <1>7 DEF Validate, confirmVars, browserVars, historyVars, Running, Ended
    <2>2. PICK place \in Places \ (Armed \cup {"confirmed"}) :
             pc' = [pc EXCEPT ![r] = place] /\ (pc[r] \in Open => place \in Open)
      BY <1>7 DEF Validate, Goto, Places, Ended, Armed, Open
    <2> QED
      BY <2>1, <2>2, QuestionFrame
  <1>8. ASSUME NEW r \in Requests, Ask(r)  PROVE OwnQuestion'
    <2> SUFFICES ASSUME \A q \in Requests : ~unasked'[q]
                 PROVE  OwnQuestion'
      BY DEF OwnQuestion
    <2>1. /\ dialogs' = Append(dialogs, r) /\ UNCHANGED unasked
          /\ \E place \in {"check", "direct"} : pc' = [pc EXCEPT ![r] = place]
      <3>1. ~ (unasked' = [unasked EXCEPT ![r] = TRUE])
        BY DEF TypeOK
      <3> QED
        BY <3>1, <1>8 DEF Ask, Goto
    <2>2. /\ UNCHANGED <<answer, confirmResult, shuttingDown, browser>> /\ pc[r] = "ask"
          /\ pc \in [Requests -> Places] /\ dialogs \in Seq(Requests)
      BY <1>8 DEF Ask, confirmVars, browserVars, TypeOK
    <2>3. \A q \in Requests :
             /\ pc'[q] \in Armed /\ confirmResult' => answer'[q] = "yes"
             /\ pc'[q] = "confirmed" => answer'[q] = "yes"
      BY <2>1, <2>2 DEF OwnQuestion, Armed
    <2>4. ASSUME ~shuttingDown'
          PROVE  Len(dialogs') <= 1 /\ (Len(dialogs') = 1 => pc'[dialogs'[1]] \in Open)
      <3>1. Len(dialogs) \in Nat /\ Len(dialogs) <= 1
        BY <2>1, <2>2, <2>4, LenProperties DEF OwnQuestion
      <3>2. Len(dialogs) # 1
        <4> SUFFICES ASSUME Len(dialogs) = 1  PROVE FALSE
          OBVIOUS
        <4>1. dialogs[1] \in Requests /\ pc[dialogs[1]] \in Open
          BY <2>1, <2>2, <2>4, OneAsker DEF OwnQuestion
        <4> QED
          BY <2>2, <4>1 DEF Alone, Running, Ended, Open
      <3>3. Len(dialogs') = 1 /\ dialogs'[1] = r
        <4>1. \A n \in Nat : n <= 1 /\ n # 1 => n = 0
          OBVIOUS
        <4>2. /\ Len(dialogs') = Len(dialogs) + 1
              /\ dialogs'[Len(dialogs) + 1] = r
          BY <2>1, <2>2, AppendProperties
        <4>3. Len(dialogs) = 0
          BY <3>1, <3>2, <4>1, Zenon
        <4> QED
          BY <4>2, <4>3
      <3>4. pc'[r] \in Open
        BY <2>1, <2>2 DEF Open
      <3> QED
        BY <3>3, <3>4
    <2>5. browser' \notin {"yes", "no"}
      BY <2>1, <2>2 DEF OwnQuestion, Running, Ended, Open
    <2> QED
      BY <2>3, <2>4, <2>5 DEF OwnQuestion
  <1>9. ASSUME NEW r \in Requests, Check(r)  PROVE OwnQuestion'
    <2>1. /\ UNCHANGED <<dialogs, answer, unasked, confirmResult, shuttingDown, browser>>
          /\ ~Running(r) => browser = "free"
      BY <1>9 DEF Check, confirmVars, browserVars, historyVars, Running, Ended
    <2>2. PICK place \in Places \ (Armed \cup {"confirmed"}) :
             pc' = [pc EXCEPT ![r] = place] /\ (pc[r] \in Open => place \in Open)
      BY <1>9 DEF Check, Goto, Places, Ended, Armed, Open
    <2> QED
      BY <2>1, <2>2, QuestionFrame
  <1>10. ASSUME NEW r \in Requests, Cancel(r)  PROVE OwnQuestion'
    <2>1. /\ UNCHANGED <<dialogs, answer, unasked, shuttingDown, browser>> /\ ~confirmResult'
          /\ pc' = [pc EXCEPT ![r] = "notify"] /\ pc[r] = "cancel"
          /\ pc \in [Requests -> Places]
      BY <1>10 DEF Cancel, Goto, browserVars, historyVars, TypeOK
    <2>2. Len(dialogs) = 1 => dialogs[1] \in Requests
      BY OneAsker
    <2>3. \A q \in Requests : /\ pc[q] \in Open => pc'[q] \in Open
                              /\ pc'[q] = "confirmed" => pc[q] = "confirmed"
                              /\ Running(q)' => Running(q)
      BY <2>1 DEF Open, Running, Ended
    <2> QED
      BY <2>1, <2>2, <2>3 DEF OwnQuestion
  <1>11. ASSUME NEW r \in Requests, CancelNotify(r)  PROVE OwnQuestion'
    <2>1. /\ UNCHANGED <<dialogs, answer, confirmResult, shuttingDown, browser>>
          /\ pc[r] = "notify" /\ Running(r)
          /\ pc \in [Requests -> Places]
      BY <1>11 DEF CancelNotify, browserVars, confirmVars, TypeOK, Running, Ended
    <2>2. Waiting = {}
      BY <2>1 DEF Waiting, Alone, Running, Ended
    <2>3. /\ pc' = [pc EXCEPT ![r] = "arm"]
          /\ \A q \in Requests : unasked'[q] <=> unasked[q]
      BY <2>1, <2>2, <1>11 DEF CancelNotify, NotifyOne, Woken
    <2>4. Len(dialogs) = 1 => dialogs[1] \in Requests
      BY OneAsker
    <2>5. \A q \in Requests : /\ pc[q] \in Open => pc'[q] \in Open
                              /\ pc'[q] \in Armed => pc[q] \in Armed
                              /\ pc'[q] = "confirmed" => pc[q] = "confirmed"
                              /\ Running(q)' => Running(q)
      BY <2>1, <2>3 DEF Open, Armed, Running, Ended
    <2> QED
      BY <2>1, <2>3, <2>4, <2>5 DEF OwnQuestion
  <1>12. ASSUME NEW r \in Requests, Arm(r)  PROVE OwnQuestion'
    <2>1. /\ UNCHANGED <<dialogs, answer, unasked, shuttingDown, browser>> /\ ~confirmResult'
          /\ pc' = [pc EXCEPT ![r] = "enter"] /\ pc[r] = "arm"
          /\ pc \in [Requests -> Places] /\ dialogs \in Seq(Requests)
      BY <1>12 DEF Arm, Goto, browserVars, TypeOK
    <2>2. Len(dialogs) = 1 => dialogs[1] \in Requests
      BY OneAsker
    <2>3. \A q \in Requests : /\ pc[q] \in Open => pc'[q] \in Open
                              /\ pc'[q] = "confirmed" => pc[q] = "confirmed"
                              /\ Running(q)' => Running(q)
      BY <2>1 DEF Open, Running, Ended
    <2> QED
      BY <2>1, <2>2, <2>3 DEF OwnQuestion
  <1>13. ASSUME NEW r \in Requests, Enter(r)  PROVE OwnQuestion'
    <2>1. /\ UNCHANGED <<dialogs, answer, unasked, confirmResult, shuttingDown, browser>>
          /\ Running(r)
      BY <1>13 DEF Enter, confirmVars, browserVars, historyVars, Running, Ended
    <2>2. pc' = [pc EXCEPT ![r] = "waiting"] /\ pc[r] \in Armed
      BY <1>13 DEF Enter, Goto, Armed
    <2>3. "waiting" \in Places /\ "waiting" \in Open
      BY DEF Places, Open
    <2> QED
      BY <2>1, <2>2, <2>3, QuestionFrame
  <1>14. ASSUME NEW r \in Requests, WakeUp(r)  PROVE OwnQuestion'
    <2>1. /\ UNCHANGED <<dialogs, answer, unasked, confirmResult, shuttingDown, browser>>
          /\ Running(r)
      BY <1>14 DEF WakeUp, browserVars, historyVars, Running, Ended
    <2>2. PICK place \in {"confirmed", "denied"} :
             /\ pc' = [pc EXCEPT ![r] = place] /\ pc[r] = "woken"
             /\ place = "confirmed" => confirmResult
      BY <1>14 DEF WakeUp, Goto
    <2>3. /\ place \in Places /\ place \notin Armed
          /\ pc[r] \notin Open /\ pc[r] \in Armed
      BY <2>2 DEF Places, Open, Armed
    <2>4. (\A q \in Requests : ~unasked[q]) /\ place = "confirmed" => answer[r] = "yes"
      BY <2>2, <2>3 DEF OwnQuestion
    <2> QED
      BY <2>1, <2>2, <2>3, <2>4, QuestionFrame
  <1>15. ASSUME NEW r \in Requests, Confirmed(r)  PROVE OwnQuestion'
    <2>1. /\ UNCHANGED <<dialogs, answer, unasked, confirmResult, shuttingDown, browser>>
          /\ ~Running(r) => browser = "free"
      BY <1>15 DEF Confirmed, confirmVars, browserVars, historyVars, Running, Ended
    <2>2. PICK place \in Places \ (Armed \cup {"confirmed"}) :
             pc' = [pc EXCEPT ![r] = place] /\ (pc[r] \in Open => place \in Open)
      BY <1>15 DEF Confirmed, Goto, Places, Ended, Armed, Open
    <2> QED
      BY <2>1, <2>2, QuestionFrame
  <1>16. ASSUME NEW r \in Requests, Denied(r)  PROVE OwnQuestion'
    <2>1. /\ UNCHANGED <<dialogs, answer, unasked, confirmResult, shuttingDown, browser>>
          /\ ~Running(r) => browser = "free"
      BY <1>16 DEF Denied, confirmVars, browserVars, historyVars, Running, Ended
    <2>2. PICK place \in Places \ (Armed \cup {"confirmed"}) :
             pc' = [pc EXCEPT ![r] = place] /\ (pc[r] \in Open => place \in Open)
      BY <1>16 DEF Denied, Goto, Places, Ended, Armed, Open
    <2> QED
      BY <2>1, <2>2, QuestionFrame
  <1>17. ASSUME NEW r \in Requests, Find(r)  PROVE OwnQuestion'
    <2>1. /\ UNCHANGED <<dialogs, answer, unasked, confirmResult, shuttingDown, browser>>
          /\ ~Running(r) => browser = "free"
      BY <1>17 DEF Find, confirmVars, browserVars, historyVars, Running, Ended
    <2>2. PICK place \in Places \ (Armed \cup {"confirmed"}) :
             pc' = [pc EXCEPT ![r] = place] /\ (pc[r] \in Open => place \in Open)
      BY <1>17 DEF Find, Goto, Places, Ended, Armed, Open
    <2> QED
      BY <2>1, <2>2, QuestionFrame
  <1>18. ASSUME NEW r \in Requests, Register(r)  PROVE OwnQuestion'
    <2>1. /\ UNCHANGED <<dialogs, answer, unasked, confirmResult, shuttingDown, browser>>
          /\ ~Running(r) => browser = "free"
      BY <1>18 DEF Register, confirmVars, browserVars, historyVars, Running, Ended
    <2>2. PICK place \in Places \ (Armed \cup {"confirmed"}) :
             pc' = [pc EXCEPT ![r] = place] /\ (pc[r] \in Open => place \in Open)
      BY <1>18 DEF Register, Goto, Places, Ended, Armed, Open
    <2> QED
      BY <2>1, <2>2, QuestionFrame
  <1>19. ASSUME NEW r \in Requests, Configure(r)  PROVE OwnQuestion'
    <2>1. /\ UNCHANGED <<dialogs, answer, unasked, confirmResult, shuttingDown, browser>>
          /\ ~Running(r) => browser = "free"
      BY <1>19 DEF Configure, confirmVars, browserVars, historyVars, Running, Ended
    <2>2. PICK place \in Places \ (Armed \cup {"confirmed"}) :
             pc' = [pc EXCEPT ![r] = place] /\ (pc[r] \in Open => place \in Open)
      BY <1>19 DEF Configure, Goto, Places, Ended, Armed, Open
    <2> QED
      BY <2>1, <2>2, QuestionFrame
  <1>20. ASSUME NEW r \in Requests, Spurious(r)  PROVE OwnQuestion'
    BY <1>20 DEF Spurious, OwnQuestion, TypeOK
  <1>21. ASSUME NEW yes \in BOOLEAN, Answer(yes)  PROVE OwnQuestion'
    <2> SUFFICES ASSUME \A q \in Requests : ~unasked'[q]
                 PROVE  OwnQuestion'
      BY DEF OwnQuestion
    <2>1. /\ UNCHANGED <<unasked, shuttingDown, page>> /\ ~shuttingDown
          /\ browser = "free"
          /\ dialogs # <<>> /\ dialogs' = Tail(dialogs)
          /\ pc \in [Requests -> Places] /\ dialogs \in Seq(Requests)
          /\ answer \in [Requests -> {"none", "yes", "no"}]
      BY <1>21 DEF Answer, browserVars, TypeOK
    <2>2. Len(dialogs) = 1 /\ Len(dialogs') = 0
      <3>1. Len(dialogs) \in Nat \ {0} /\ Len(dialogs') = Len(dialogs) - 1
        BY <2>1, EmptySeq, HeadTailProperties, LenProperties
      <3>2. Len(dialogs) <= 1
        BY <2>1 DEF OwnQuestion
      <3> QED
        BY <3>1, <3>2
    <2>3. PICK u \in Requests : u = Head(dialogs) /\ u = dialogs[1] /\ pc[u] \in Open
      BY <1>21, <2>1, <2>2, AnswerMoves DEF OwnQuestion
    <2>4. \A q \in Requests : q # u => pc[q] \in Ended \cup {"idle"}
      BY <2>3 DEF Alone, Running, Ended, Open
    <2>5. answer' = [answer EXCEPT ![u] = IF yes THEN "yes" ELSE "no"]
      BY <1>21, <2>3 DEF Answer
    <2>6. answer'[u] = "no" => ~yes
      BY <2>1, <2>5
    <2>7. answer'[u] \in {"yes", "no"}
      BY <2>1, <2>5
    <2>8. CASE page.library
      <3>1. confirmResult' = yes
        BY <1>21, <2>8 DEF Answer
      <3>2. \A q \in Requests : q # u => pc'[q] \in Ended \cup {"idle"}
        BY <1>21, <2>1, <2>4, <2>8, AnswerMoves DEF Ended
      <3>3. pc'[u] # "confirmed"
        BY <1>21, <2>1, <2>3, <2>8, AnswerMoves DEF Open
      <3>4. \A q \in Requests : pc'[q] \in Armed /\ confirmResult' => answer'[q] = "yes"
        BY <3>1, <3>2, <2>6, <2>7 DEF Armed, Ended
      <3>5. \A q \in Requests : pc'[q] = "confirmed" => answer'[q] = "yes"
        BY <3>2, <3>3 DEF Ended
      <3>6. \A q \in Requests : Running(q)' => pc'[q] \in Open
        BY <1>21, <2>1, <2>3, <2>8, <3>2, AnswerMoves DEF Running, Ended
      <3> QED
        BY <2>2, <3>4, <3>5, <3>6 DEF OwnQuestion
    <2>9. CASE ~page.library
      <3>1. pc' = [pc EXCEPT ![u] = IF yes THEN "confirmed" ELSE "denied"]
        BY <1>21, <2>3, <2>9 DEF Answer, Goto
      <3>2. \A q \in Requests : q # u => pc'[q] \in Ended \cup {"idle"}
        BY <2>1, <2>4, <3>1
      <3>3. pc'[u] \in {"confirmed", "denied"} /\ (pc'[u] = "confirmed" => yes)
        BY <2>1, <3>1
      <3>4. \A q \in Requests : pc'[q] \in Armed /\ confirmResult' => answer'[q] = "yes"
        BY <3>2, <3>3 DEF Armed, Ended
      <3>5. \A q \in Requests : pc'[q] = "confirmed" => answer'[q] = "yes"
        BY <3>2, <3>3, <2>6, <2>7 DEF Ended
      <3>6. browser' = "free"
        BY <1>21, <2>1, <2>9 DEF Answer
      <3> QED
        BY <2>2, <3>4, <3>5, <3>6 DEF OwnQuestion
    <2> QED
      BY <2>8, <2>9
  <1>22. CASE AnswerNotify
    <2> SUFFICES ASSUME \A q \in Requests : ~unasked'[q]
                 PROVE  OwnQuestion'
      BY DEF OwnQuestion
    <2>1. /\ UNCHANGED <<dialogs, answer, confirmResult, shuttingDown>>
          /\ browser' = "free" /\ browser \in {"yes", "no"}
          /\ pc \in [Requests -> Places]
      BY <1>22 DEF AnswerNotify, confirmVars, TypeOK
    <2>2. \A q \in Requests : ~unasked[q]
      BY <1>22 DEF AnswerNotify, Woken
    <2>3. Len(dialogs') = 0
      BY <2>1, <2>2 DEF OwnQuestion
    <2>4. \A q \in Requests : /\ pc'[q] \in Armed => pc[q] \in Armed
                              /\ pc'[q] = "confirmed" => pc[q] = "confirmed"
      BY <2>1, <1>22 DEF AnswerNotify, NotifyOne, Waiting, Armed
    <2> QED
      BY <2>1, <2>2, <2>3, <2>4 DEF OwnQuestion
  <1>23. CASE TimePasses
    <2>1. /\ UNCHANGED <<pc, dialogs, answer, unasked, confirmResult, shuttingDown>>
          /\ browser' \in {browser, "free"}
      BY <1>23 DEF TimePasses, confirmVars, browserVars, historyVars
    <2> QED
      BY <2>1 DEF OwnQuestion, Running
  <1>24. CASE Shutdown
    <2>1. /\ UNCHANGED <<pc, dialogs, answer, unasked>> /\ shuttingDown'
          /\ browser' \notin {"yes", "no"}
          /\ confirmResult' => confirmResult
      BY <1>24 DEF Shutdown, historyVars
    <2> QED
      BY <2>1 DEF OwnQuestion
  <1>25. CASE ShutdownNotify
    <2>1. /\ UNCHANGED <<dialogs, answer, unasked, confirmResult, shuttingDown>>
          /\ browser' = "join" /\ shuttingDown
          /\ pc \in [Requests -> Places]
      BY <1>25 DEF ShutdownNotify, confirmVars, TypeOK, Joining
    <2>2. \A q \in Requests : /\ pc'[q] \in Armed => pc[q] \in Armed
                              /\ pc'[q] = "confirmed" => pc[q] = "confirmed"
      BY <2>1, <1>25 DEF ShutdownNotify, NotifyOne, Waiting, Armed
    <2> QED
      BY <2>1, <2>2 DEF OwnQuestion
  <1>26. CASE Joined
    <2>1. /\ UNCHANGED <<pc, dialogs, answer, unasked, confirmResult, shuttingDown>>
          /\ browser' \in {browser, "free"}
      BY <1>26 DEF Joined, confirmVars, browserVars, historyVars
    <2> QED
      BY <2>1 DEF OwnQuestion, Running
  <1>27. CASE UNCHANGED vars
    <2>1. /\ UNCHANGED <<pc, dialogs, answer, unasked, confirmResult, shuttingDown>>
          /\ browser' \in {browser, "free"}
      BY <1>27 DEF vars, confirmVars, browserVars, historyVars
    <2> QED
      BY <2>1 DEF OwnQuestion, Running
  <1> QED
    BY <1>1, <1>2, <1>3, <1>4, <1>5, <1>6, <1>7, <1>8, <1>9, <1>10, <1>11, <1>12, <1>13, <1>14, <1>15, <1>16, <1>17, <1>18, <1>19, <1>20, <1>21, <1>22, <1>23, <1>24, <1>25, <1>26, <1>27 DEF Next, Thread

-----------------------------------------------------------------------------

\* The initial states.
LEMMA InitInv ==
    ASSUME Init
    PROVE  IInv
  <1> USE Constants
  <1>1. TypeOK
    <2>1. registry \in Seq(Sessions) /\ dialogs \in Seq(Requests)
      BY EmptySeq, Zenon DEF Init
    <2>2. /\ pc \in [Requests -> Places]
          /\ want \in [Requests -> Sessions \cup {NoSession}]
          /\ loaded \in [Requests -> 0 .. Len(Stored)]
          /\ got \in [Requests -> Sessions \cup {NoSession}]
          /\ denies \in Nat
          /\ answer \in [Requests -> {"none", "yes", "no"}]
          /\ \A r \in Requests : pc[r] = "idle"
      BY DEF Init, Places
    <2>3. /\ fresh \in [Requests -> BOOLEAN] /\ unasked \in [Requests -> BOOLEAN]
          /\ page \in [patient : BOOLEAN, library : BOOLEAN]
      BY DEF Init
    <2> QED
      BY <2>1, <2>2, <2>3, Zenon DEF Init, TypeOK
  <1>2. /\ KeyRespected /\ Locals /\ DirectInv /\ FreshInv /\ LoadInv /\ Joining
    BY EmptySeq DEF Init, KeyRespected, Locals, Informed, DirectInv, FreshInv,
        Armed, LoadInv, Joining
  <1>3. Alone
    BY DEF Init, Alone, Running
  <1>4. OwnQuestion
    <2>1. Len(dialogs) = 0
      BY EmptySeq DEF Init
    <2> QED
      BY <2>1 DEF Init, OwnQuestion, Armed
  <1>5. OneLoad
    <2>1. DOMAIN registry = {}
      BY DEF Init
    <2> QED
      BY <2>1 DEF Init, OneLoad
  <1> QED
    BY <1>1, <1>2, <1>3, <1>4, <1>5 DEF IInv, Patient

\* A patient page stays one that asks for one session at a time.
LEMMA PatientStep ==
    ASSUME TypeOK, Locals, DirectInv, Joining, Patient, [Next]_vars
    PROVE  Patient'
  <1>1. UNCHANGED page
    BY DEF Next, Thread, vars, browserVars, Request, Ready, List, Load, LoadDone,
        Remote, Validate, Ask, Check, Cancel, CancelNotify, Arm, Enter, WakeUp,
        Confirmed, Denied, Find, Register, Configure, Spurious, Answer,
        AnswerNotify, TimePasses, Shutdown, ShutdownNotify, Joined
  <1>2. ASSUME page.patient
        PROVE  Alone' /\ OwnQuestion' /\ OneLoad'
    BY <1>2, AloneStep, QuestionStep, OneLoadStep DEF Patient
  <1> QED
    BY <1>1, <1>2 DEF Patient

\* Nobody but shutdown() joins, and it is not taken back.
LEMMA JoiningStep ==
    ASSUME Joining, [Next]_vars
    PROVE  Joining'
  BY DEF Joining, Next, Thread, vars, browserVars, Request, Ready, List, Load,
      LoadDone, Remote, Validate, Ask, Check, Cancel, CancelNotify, Arm, Enter,
      WakeUp, Confirmed, Denied, Find, Register, Configure, Spurious, Answer,
      AnswerNotify, TimePasses, Shutdown, ShutdownNotify, Joined

\* Every step keeps the invariant.
LEMMA StepInv ==
    ASSUME IInv, [Next]_vars
    PROVE  IInv'
  BY TypeStep, KeyStep, LocalsStep, DirectStep, FreshStep, LoadStep, JoiningStep,
     PatientStep
  DEF IInv

\* The states of every execution.
LEMMA Inductive == Spec => []IInv
  <1>1. IInv /\ [Next]_vars => IInv'
    BY StepInv
  <1> QED
    BY InitInv, <1>1, PTL DEF Spec

(* The types, and no session is handed out that sessionOpen() did not find *)
(* or make (CVMWebAPI.cpp 427-431).                                        *)
THEOREM TypeCorrect == Spec => []TypeOK
  BY Inductive, PTL DEF IInv

(* A session goes only to a request that knows its secret, whatever other  *)
(* requests register meanwhile (Hypervisor.cpp 484-500).                   *)
THEOREM KeyCorrect == Spec => []KeyRespected
  BY Inductive, PTL DEF IInv

(* A confirmed request has a "yes" said after it was armed, and on a       *)
(* patient page a "yes" to its own question (CVMWebAPI.cpp 701-743).       *)
THEOREM ConsentCorrect == Spec => []Consent
  <1>1. IInv => Consent
    BY DEF IInv, FreshInv, Patient, OwnQuestion, Consent
  <1> QED
    BY Inductive, <1>1, PTL

(* Loads that overlap lose no VM once they are over, and one whose listing *)
(* fails, or the query of a secret, loses no VM but those it was about     *)
(* (Virtualbox.cpp 1864-1875, 1897-1908, 2380-2424).                       *)
THEOREM StoredCorrect == Spec => []StoredKnown
  <1>1. IInv => StoredKnown
    BY DEF IInv, LoadInv, Known, Pending, StoredKnown, Loading
  <1> QED
    BY Inductive, <1>1, PTL

(* On a patient page the sessions in use stay known, one for each name     *)
(* (Virtualbox.cpp 1872-1873, Hypervisor.cpp 484-500).                     *)
THEOREM RegistryCorrect == Spec => []RegistryKeepsGranted
  <1>1. IInv => RegistryKeepsGranted
    BY DEF IInv, TypeOK, Patient, OneLoad, RegistryKeepsGranted
  <1> QED
    BY Inductive, <1>1, PTL
-----------------------------------------------------------------------------
(* BlockedAfterDenials.  A patient page is refused with a reason: the user *)
(* has said "no", or the plugin has given up the question.  As long as no  *)
(* question was given up, it was the "no" to the question of the request   *)
(* itself; as long as nobody said "no", the request's own was given up;    *)
(* and where both have happened, there are two reasons.                    *)

Noes == {r \in Requests : answer[r] = "no"}
GivenUp == {r \in Requests : unasked[r]}
EndedIn(S) == {r \in S : pc[r] \in Ended}

\* Where a request has not posted its question yet.
Unposed == {"idle", "ready", "list", "load", "remote", "validate", "ask"}

\* A question is posted and answered once.
AskedOnce ==
    /\ \A i \in DOMAIN dialogs : answer[dialogs[i]] = "none" /\ pc[dialogs[i]] \notin Unposed
    /\ \A i, j \in DOMAIN dialogs : dialogs[i] = dialogs[j] => i = j
    /\ \A r \in Requests : pc[r] \in Unposed => answer[r] = "none"

\* A thread that counts a denial, or is about to.
Refused(r) == pc[r] = "denied" \/ (pc[r] = "woken" /\ ~confirmResult)

Blamed ==
    ~shuttingDown =>
        /\ Noes = {} =>
              /\ browser # "no"
              /\ \A r \in Requests : Refused(r) => unasked[r]
        /\ GivenUp = {} =>
              \A r \in Requests : /\ Refused(r) => answer[r] = "no"
                                  /\ browser = "no" /\ Running(r) => answer[r] = "no"

Counted ==
    /\ Noes = {} => denies <= Cardinality(EndedIn(GivenUp))
    /\ GivenUp = {} => denies <= Cardinality(EndedIn(Noes))
    /\ blocked => Cardinality(Noes) + Cardinality(GivenUp) >= THROTTLE_TRIES

DInv == page.patient => AskedOnce /\ Blamed /\ Counted

-----------------------------------------------------------------------------

\* A thread that goes on without a question, an answer or a denial.
Calm ==
    /\ UNCHANGED <<dialogs, answer>> /\ \A q \in Requests : unasked'[q] <=> unasked[q]
    /\ browser' = browser \/ browser' # "no"
    /\ shuttingDown => shuttingDown'
    /\ \A q \in Requests :
          /\ pc'[q] \in Unposed => pc[q] \in Unposed
          /\ pc[q] \in Ended => pc'[q] \in Ended
          /\ ~shuttingDown' => (Refused(q)' => Refused(q))
          /\ Running(q)' => Running(q) \/ browser' = "free"

\* And that no denial is counted.
Uncounted == denies' \in {denies, 0} /\ blocked' = blocked

LEMMA CalmMove ==
    ASSUME TypeOK, UNCHANGED <<dialogs, answer, unasked, shuttingDown, browser>>,
           NEW r \in Requests, NEW place, pc' = [pc EXCEPT ![r] = place],
           place \in Unposed => pc[r] \in Unposed,
           pc[r] \notin Ended,
           place \notin {"denied", "woken"} \/ (pc[r] = "woken" /\ (place = "denied" => ~confirmResult)),
           pc[r] = "idle" => browser = "free",
           confirmResult' = confirmResult \/ \A q \in Requests : pc'[q] # "woken"
    PROVE  Calm
  <1>1. pc \in [Requests -> Places]
    BY DEF TypeOK
  <1>2. \A q \in Requests : pc'[q] = IF q = r THEN place ELSE pc[q]
    BY <1>1
  <1>3. ASSUME NEW q \in Requests
        PROVE  /\ pc'[q] \in Unposed => pc[q] \in Unposed
               /\ pc[q] \in Ended => pc'[q] \in Ended
               /\ Running(q)' => Running(q) \/ browser' = "free"
    BY <1>2 DEF Running
  <1>4. ASSUME NEW q \in Requests, Refused(q)'
        PROVE  Refused(q)
    BY <1>2, <1>4 DEF Refused
  <1> QED
    BY <1>3, <1>4 DEF Calm

\* The requests of a page that makes one at a time.
LEMMA CalmThread ==
    ASSUME TypeOK, Alone, NEW r \in Requests,
           \/ Request(r) \/ Ready(r) \/ List(r) \/ Load(r) \/ LoadDone(r) \/ Remote(r)
           \/ Validate(r) \/ Check(r) \/ Cancel(r) \/ Arm(r) \/ Enter(r) \/ WakeUp(r)
           \/ Confirmed(r) \/ Find(r) \/ Register(r) \/ Configure(r)
    PROVE  Calm /\ Uncounted
  <1>0. pc \in [Requests -> Places]
    BY DEF TypeOK
  <1>1. CASE Request(r)
    <2>1. /\ UNCHANGED <<dialogs, answer, unasked, shuttingDown, browser, blocked, confirmResult>>
          /\ denies' \in {denies, 0} /\ pc[r] \notin Ended
          /\ pc[r] = "idle" => browser = "free"
      BY <1>1 DEF Request, confirmVars, throttleVars, browserVars, historyVars, Ended
    <2>2. PICK place \in Places :
             /\ pc' = [pc EXCEPT ![r] = place]
             /\ place \in Unposed => pc[r] \in Unposed
             /\ place \notin {"denied", "woken"}
      BY <1>1 DEF Request, Goto, Places, Ended, Unposed
    <2> QED
      BY <2>1, <2>2, CalmMove DEF Uncounted
  <1>2. CASE Ready(r)
    <2>1. /\ UNCHANGED <<dialogs, answer, unasked, shuttingDown, browser, blocked, confirmResult>>
          /\ denies' \in {denies, 0} /\ pc[r] \notin Ended
          /\ pc[r] = "idle" => browser = "free"
      BY <1>2 DEF Ready, confirmVars, throttleVars, browserVars, historyVars, Ended
    <2>2. PICK place \in {"remote", "list"} : pc' = [pc EXCEPT ![r] = place]
      BY <1>2 DEF Ready, Goto
    <2>3. pc[r] = "ready"
      BY <1>2 DEF Ready
    <2> QED
      BY <2>1, <2>2, <2>3, CalmMove DEF Unposed, Uncounted
  <1>3. CASE List(r)
    <2>1. /\ UNCHANGED <<dialogs, answer, unasked, shuttingDown, browser, blocked, confirmResult>>
          /\ denies' \in {denies, 0} /\ pc[r] \notin Ended
          /\ pc[r] = "idle" => browser = "free"
      BY <1>3 DEF List, confirmVars, throttleVars, browserVars, historyVars, Ended
    <2>2. PICK place \in Places :
             /\ pc' = [pc EXCEPT ![r] = place]
             /\ place \in Unposed => pc[r] \in Unposed
             /\ place \notin {"denied", "woken"}
      BY <1>3 DEF List, Goto, Places, Ended, Unposed
    <2> QED
      BY <2>1, <2>2, CalmMove DEF Uncounted
  <1>4. CASE Load(r)
    <2>1. /\ UNCHANGED <<dialogs, answer, unasked, shuttingDown, browser, blocked, confirmResult>>
          /\ denies' \in {denies, 0} /\ pc[r] \notin Ended
          /\ pc[r] = "idle" => browser = "free"
      BY <1>4 DEF Load, confirmVars, throttleVars, browserVars, historyVars, Ended
    <2>2. pc' = [pc EXCEPT ![r] = "load"] /\ pc[r] = "load"
      BY <1>0, <1>4 DEF Load
    <2> QED
      BY <2>1, <2>2, CalmMove DEF Unposed, Uncounted
  <1>5. CASE LoadDone(r)
    <2>1. /\ UNCHANGED <<dialogs, answer, unasked, shuttingDown, browser, blocked, confirmResult>>
          /\ denies' \in {denies, 0} /\ pc[r] \notin Ended
          /\ pc[r] = "idle" => browser = "free"
      BY <1>5 DEF LoadDone, confirmVars, throttleVars, browserVars, historyVars, Ended
    <2>2. PICK place \in Places :
             /\ pc' = [pc EXCEPT ![r] = place]
             /\ place \in Unposed => pc[r] \in Unposed
             /\ place \notin {"denied", "woken"}
      BY <1>5 DEF LoadDone, Goto, Places, Ended, Unposed
    <2> QED
      BY <2>1, <2>2, CalmMove DEF Uncounted
  <1>6. CASE Remote(r)
    <2>1. /\ UNCHANGED <<dialogs, answer, unasked, shuttingDown, browser, blocked, confirmResult>>
          /\ denies' \in {denies, 0} /\ pc[r] \notin Ended
          /\ pc[r] = "idle" => browser = "free"
      BY <1>6 DEF Remote, confirmVars, throttleVars, browserVars, historyVars, Ended
    <2>2. PICK place \in Places :
             /\ pc' = [pc EXCEPT ![r] = place]
             /\ place \in Unposed => pc[r] \in Unposed
             /\ place \notin {"denied", "woken"}
      BY <1>6 DEF Remote, Goto, Places, Ended, Unposed
    <2> QED
      BY <2>1, <2>2, CalmMove DEF Uncounted
  <1>7. CASE Validate(r)
    <2>1. /\ UNCHANGED <<dialogs, answer, unasked, shuttingDown, browser, blocked, confirmResult>>
          /\ denies' \in {denies, 0} /\ pc[r] \notin Ended
          /\ pc[r] = "idle" => browser = "free"
      BY <1>7 DEF Validate, confirmVars, throttleVars, browserVars, historyVars, Ended
    <2>2. PICK place \in Places :
             /\ pc' = [pc EXCEPT ![r] = place]
             /\ place \in Unposed => pc[r] \in Unposed
             /\ place \notin {"denied", "woken"}
      BY <1>7 DEF Validate, Goto, Places, Ended, Unposed
    <2> QED
      BY <2>1, <2>2, CalmMove DEF Uncounted
  <1>8. CASE Check(r)
    <2>1. /\ UNCHANGED <<dialogs, answer, unasked, shuttingDown, browser, blocked, confirmResult>>
          /\ denies' \in {denies, 0} /\ pc[r] \notin Ended
          /\ pc[r] = "idle" => browser = "free"
      BY <1>8 DEF Check, confirmVars, throttleVars, browserVars, historyVars, Ended
    <2>2. PICK place \in {"cancel", "arm"} : pc' = [pc EXCEPT ![r] = place]
      BY <1>8 DEF Check, Goto
    <2>3. pc[r] = "check"
      BY <1>8 DEF Check
    <2> QED
      BY <2>1, <2>2, <2>3, CalmMove DEF Unposed, Uncounted
  <1>9. CASE Cancel(r)
    <2>1. /\ UNCHANGED <<dialogs, answer, unasked, shuttingDown, browser, blocked, denies>>
          /\ pc' = [pc EXCEPT ![r] = "notify"]
          /\ pc[r] = "cancel"
      BY <1>9 DEF Cancel, Goto, confirmVars, throttleVars, browserVars, historyVars
    <2>2. Running(r)
      BY <2>1 DEF Running, Ended
    <2>3. \A q \in Requests : pc'[q] # "woken"
      BY <1>0, <2>1, <2>2 DEF Alone, Running, Ended
    <2> QED
      BY <2>1, <2>3, CalmMove DEF Unposed, Ended, Uncounted
  <1>10. CASE Arm(r)
    <2>1. /\ UNCHANGED <<dialogs, answer, unasked, shuttingDown, browser, blocked, denies>>
          /\ pc' = [pc EXCEPT ![r] = "enter"]
          /\ pc[r] = "arm"
      BY <1>10 DEF Arm, Goto, confirmVars, throttleVars, browserVars, historyVars
    <2>2. Running(r)
      BY <2>1 DEF Running, Ended
    <2>3. \A q \in Requests : pc'[q] # "woken"
      BY <1>0, <2>1, <2>2 DEF Alone, Running, Ended
    <2> QED
      BY <2>1, <2>3, CalmMove DEF Unposed, Ended, Uncounted
  <1>11. CASE Enter(r)
    <2>1. /\ UNCHANGED <<dialogs, answer, unasked, shuttingDown, browser, blocked, confirmResult>>
          /\ denies' \in {denies, 0} /\ pc[r] \notin Ended
          /\ pc[r] = "idle" => browser = "free"
      BY <1>11 DEF Enter, confirmVars, throttleVars, browserVars, historyVars, Ended
    <2>2. PICK place \in Places :
             /\ pc' = [pc EXCEPT ![r] = place]
             /\ place \in Unposed => pc[r] \in Unposed
             /\ place \notin {"denied", "woken"}
      BY <1>11 DEF Enter, Goto, Places, Ended, Unposed
    <2> QED
      BY <2>1, <2>2, CalmMove DEF Uncounted
  <1>12. CASE WakeUp(r)
    <2>1. /\ UNCHANGED <<dialogs, answer, unasked, shuttingDown, browser, blocked, confirmResult>>
          /\ denies' \in {denies, 0} /\ pc[r] \notin Ended
          /\ pc[r] = "idle" => browser = "free"
      BY <1>12 DEF WakeUp, confirmVars, throttleVars, browserVars, historyVars, Ended
    <2>2. PICK place \in {"confirmed", "denied"} :
             pc' = [pc EXCEPT ![r] = place] /\ (place = "denied" => ~confirmResult)
      BY <1>12 DEF WakeUp, Goto
    <2>3. pc[r] = "woken"
      BY <1>12 DEF WakeUp
    <2> QED
      BY <2>1, <2>2, <2>3, CalmMove DEF Unposed, Uncounted
  <1>13. CASE Confirmed(r)
    <2>1. /\ UNCHANGED <<dialogs, answer, unasked, shuttingDown, browser, blocked, confirmResult>>
          /\ denies' \in {denies, 0} /\ pc[r] \notin Ended
          /\ pc[r] = "idle" => browser = "free"
      BY <1>13 DEF Confirmed, confirmVars, throttleVars, browserVars, historyVars, Ended
    <2>2. PICK place \in Places :
             /\ pc' = [pc EXCEPT ![r] = place]
             /\ place \in Unposed => pc[r] \in Unposed
             /\ place \notin {"denied", "woken"}
      BY <1>13 DEF Confirmed, Goto, Places, Ended, Unposed
    <2> QED
      BY <2>1, <2>2, CalmMove DEF Uncounted
  <1>14. CASE Find(r)
    <2>1. /\ UNCHANGED <<dialogs, answer, unasked, shuttingDown, browser, blocked, confirmResult>>
          /\ denies' \in {denies, 0} /\ pc[r] \notin Ended
          /\ pc[r] = "idle" => browser = "free"
      BY <1>14 DEF Find, confirmVars, throttleVars, browserVars, historyVars, Ended
    <2>2. PICK place \in Places :
             /\ pc' = [pc EXCEPT ![r] = place]
             /\ place \in Unposed => pc[r] \in Unposed
             /\ place \notin {"denied", "woken"}
      BY <1>14 DEF Find, Goto, Places, Ended, Unposed
    <2> QED
      BY <2>1, <2>2, CalmMove DEF Uncounted
  <1>15. CASE Register(r)
    <2>1. /\ UNCHANGED <<dialogs, answer, unasked, shuttingDown, browser, blocked, confirmResult>>
          /\ denies' \in {denies, 0} /\ pc[r] \notin Ended
          /\ pc[r] = "idle" => browser = "free"
      BY <1>15 DEF Register, confirmVars, throttleVars, browserVars, historyVars, Ended
    <2>2. PICK place \in Places :
             /\ pc' = [pc EXCEPT ![r] = place]
             /\ place \in Unposed => pc[r] \in Unposed
             /\ place \notin {"denied", "woken"}
      BY <1>15 DEF Register, Goto, Places, Ended, Unposed
    <2> QED
      BY <2>1, <2>2, CalmMove DEF Uncounted
  <1>16. CASE Configure(r)
    <2>1. /\ UNCHANGED <<dialogs, answer, unasked, shuttingDown, browser, blocked, confirmResult>>
          /\ denies' \in {denies, 0} /\ pc[r] \notin Ended
          /\ pc[r] = "idle" => browser = "free"
      BY <1>16 DEF Configure, confirmVars, throttleVars, browserVars, historyVars, Ended
    <2>2. PICK place \in Places :
             /\ pc' = [pc EXCEPT ![r] = place]
             /\ place \in Unposed => pc[r] \in Unposed
             /\ place \notin {"denied", "woken"}
      BY <1>16 DEF Configure, Goto, Places, Ended, Unposed
    <2> QED
      BY <2>1, <2>2, CalmMove DEF Uncounted
  <1> QED
    BY <1>1, <1>2, <1>3, <1>4, <1>5, <1>6, <1>7, <1>8, <1>9, <1>10, <1>11, <1>12, <1>13, <1>14, <1>15, <1>16

\* The steps of the others that ask, answer and count nothing either.
LEMMA CalmRest ==
    ASSUME TypeOK, Alone, Joining,
           \/ \E r \in Requests : CancelNotify(r)
           \/ TimePasses \/ Shutdown \/ ShutdownNotify \/ Joined \/ UNCHANGED vars
    PROVE  Calm /\ Uncounted
  <1>0. pc \in [Requests -> Places]
    BY DEF TypeOK
  <1>1. ASSUME NEW r \in Requests, CancelNotify(r)  PROVE Calm /\ Uncounted
    <2>1. /\ UNCHANGED <<dialogs, answer, confirmResult, shuttingDown, browser, blocked, denies>>
          /\ pc[r] = "notify" /\ Running(r)
      BY <1>1 DEF CancelNotify, browserVars, confirmVars, throttleVars, Running, Ended
    <2>2. Waiting = {}
      BY <2>1 DEF Waiting, Alone, Running, Ended
    <2>3. /\ pc' = [pc EXCEPT ![r] = "arm"]
          /\ \A q \in Requests : unasked'[q] <=> unasked[q]
      BY <2>1, <2>2, <1>1 DEF CancelNotify, NotifyOne, Woken
    <2>4. \A q \in Requests : pc'[q] = IF q = r THEN "arm" ELSE pc[q]
      BY <1>0, <2>3
    <2> QED
      BY <2>1, <2>3, <2>4 DEF Calm, Uncounted, Unposed, Ended, Refused, Running
  <1>2. CASE TimePasses
    BY <1>2 DEF TimePasses, Calm, Uncounted, confirmVars, browserVars, historyVars, Refused, Running
  <1>3. CASE Shutdown
    BY <1>3 DEF Shutdown, Calm, Uncounted, throttleVars, historyVars, Running
  <1>4. CASE ShutdownNotify
    <2>1. /\ UNCHANGED <<dialogs, answer, unasked, shuttingDown, blocked, denies>>
          /\ browser' = "join" /\ shuttingDown
      BY <1>4 DEF ShutdownNotify, throttleVars, Joining
    <2>2. \A q \in Requests : pc'[q] = pc[q] \/ (pc[q] = "waiting" /\ pc'[q] = "woken")
      BY <1>0, <1>4 DEF ShutdownNotify, NotifyOne, Waiting
    <2> QED
      BY <2>1, <2>2 DEF Calm, Uncounted, Unposed, Ended, Running
  <1>5. CASE Joined
    BY <1>5 DEF Joined, Calm, Uncounted, confirmVars, throttleVars, historyVars, Refused, Running
  <1>6. CASE UNCHANGED vars
    BY <1>6 DEF vars, Calm, Uncounted, confirmVars, throttleVars, browserVars, historyVars, Refused, Running
  <1> QED
    BY <1>1, <1>2, <1>3, <1>4, <1>5, <1>6

-----------------------------------------------------------------------------

\* More reasons, and no new denial.
LEMMA CountGrows ==
    ASSUME TypeOK, Counted, Noes \subseteq Noes', GivenUp \subseteq GivenUp',
           \A q \in Requests : pc[q] \in Ended => pc'[q] \in Ended,
           Uncounted
    PROVE  Counted'
  <1>1. /\ IsFiniteSet(Noes') /\ IsFiniteSet(GivenUp')
        /\ IsFiniteSet(EndedIn(Noes)') /\ IsFiniteSet(EndedIn(GivenUp)')
    BY RequestAssumption, FS_Subset DEF Noes, GivenUp, EndedIn
  <1>2. EndedIn(Noes) \subseteq EndedIn(Noes)' /\ EndedIn(GivenUp) \subseteq EndedIn(GivenUp)'
    BY DEF EndedIn, Noes, GivenUp
  <1>3. /\ Cardinality(Noes) <= Cardinality(Noes') /\ Cardinality(GivenUp) <= Cardinality(GivenUp')
        /\ Cardinality(EndedIn(Noes)) <= Cardinality(EndedIn(Noes)')
        /\ Cardinality(EndedIn(GivenUp)) <= Cardinality(EndedIn(GivenUp)')
        /\ IsFiniteSet(Noes) /\ IsFiniteSet(GivenUp)
        /\ IsFiniteSet(EndedIn(Noes)) /\ IsFiniteSet(EndedIn(GivenUp))
    BY <1>1, <1>2, FS_Subset
  <1>4. /\ Cardinality(Noes) \in Nat /\ Cardinality(Noes') \in Nat
        /\ Cardinality(GivenUp) \in Nat /\ Cardinality(GivenUp') \in Nat
        /\ Cardinality(EndedIn(Noes)) \in Nat /\ Cardinality(EndedIn(Noes)') \in Nat
        /\ Cardinality(EndedIn(GivenUp)) \in Nat /\ Cardinality(EndedIn(GivenUp)') \in Nat
    BY <1>1, <1>3, FS_CardinalityType
  <1>5. denies \in Nat /\ denies' \in Nat /\ denies' <= denies
    BY DEF TypeOK, Uncounted
  <1>6. Noes' = {} => denies' <= Cardinality(EndedIn(GivenUp)')
    BY <1>3, <1>4, <1>5 DEF Counted
  <1>7. GivenUp' = {} => denies' <= Cardinality(EndedIn(Noes)')
    BY <1>3, <1>4, <1>5 DEF Counted
  <1>8. blocked' => Cardinality(Noes') + Cardinality(GivenUp') >= THROTTLE_TRIES
    BY <1>3, <1>4 DEF Counted, Uncounted, THROTTLE_TRIES
  <1> QED
    BY <1>6, <1>7, <1>8 DEF Counted

LEMMA CalmKeeps ==
    ASSUME TypeOK, AskedOnce, Blamed, Calm
    PROVE  /\ AskedOnce' /\ Blamed'
           /\ Counted /\ Uncounted => Counted'
  <1>1. Noes' = Noes /\ GivenUp' = GivenUp
    BY DEF Calm, Noes, GivenUp
  <1>2. \A i \in DOMAIN dialogs : dialogs[i] \in Requests
    BY ElementOfSeq, LenProperties DEF TypeOK
  <1>3. AskedOnce'
    BY <1>2 DEF Calm, AskedOnce
  <1>4. Blamed'
    <2> SUFFICES ASSUME ~shuttingDown'
                 PROVE  Blamed'
      BY DEF Blamed
    <2>1. ASSUME Noes' = {}
          PROVE  browser' # "no" /\ \A r \in Requests : Refused(r)' => unasked'[r]
      BY <1>1, <2>1 DEF Calm, Blamed
    <2>2. ASSUME GivenUp' = {}
          PROVE  \A r \in Requests : /\ Refused(r)' => answer'[r] = "no"
                                     /\ browser' = "no" /\ Running(r)' => answer'[r] = "no"
      BY <1>1, <2>2 DEF Calm, Blamed
    <2> QED
      BY <2>1, <2>2 DEF Blamed
  <1>5. Counted /\ Uncounted => Counted'
    BY <1>1, CountGrows DEF Calm
  <1> QED
    BY <1>3, <1>4, <1>5


-----------------------------------------------------------------------------

\* A question is posted, or the plugin cannot.
LEMMA AskKeeps ==
    ASSUME TypeOK, AskedOnce, Blamed, Counted, NEW r \in Requests, Ask(r)
    PROVE  AskedOnce' /\ Blamed' /\ Counted'
  <1>1. /\ UNCHANGED <<answer, shuttingDown, browser, confirmResult, blocked, denies>>
        /\ pc[r] = "ask" /\ pc \in [Requests -> Places]
        /\ dialogs \in Seq(Requests) /\ unasked \in [Requests -> BOOLEAN]
    BY DEF Ask, browserVars, throttleVars, confirmVars, TypeOK
  <1>2. \A i \in DOMAIN dialogs : dialogs[i] \in Requests /\ dialogs[i] # r
    BY <1>1, ElementOfSeq, LenProperties DEF AskedOnce, Unposed
  <1>3. CASE dialogs' = Append(dialogs, r) /\ UNCHANGED unasked
    <2>1. PICK place \in {"check", "direct"} : pc' = [pc EXCEPT ![r] = place]
      BY <1>3, <1>1 DEF Ask, Goto
    <2>2. \A q \in Requests : pc'[q] = IF q = r THEN place ELSE pc[q]
      BY <1>1, <2>1
    <2>3. /\ Len(dialogs) \in Nat /\ DOMAIN dialogs = 1 .. Len(dialogs)
          /\ DOMAIN dialogs' = 1 .. Len(dialogs) + 1
          /\ dialogs'[Len(dialogs) + 1] = r
          /\ \A i \in DOMAIN dialogs : dialogs'[i] = dialogs[i]
      BY <1>1, <1>3, AppendProperties, LenProperties
    <2>4. \A i \in DOMAIN dialogs' : i \in DOMAIN dialogs \/ i = Len(dialogs) + 1
      BY <2>3
    <2>5. answer[r] = "none"
      BY <1>1 DEF AskedOnce, Unposed
    <2>6. \A i \in DOMAIN dialogs : answer[dialogs[i]] = "none" /\ pc'[dialogs[i]] \notin Unposed
      BY <1>2, <2>2 DEF AskedOnce
    <2>7. place \notin Unposed
      BY DEF Unposed
    <2>8. \A i \in DOMAIN dialogs' : answer'[dialogs'[i]] = "none" /\ pc'[dialogs'[i]] \notin Unposed
      BY <1>1, <2>2, <2>3, <2>4, <2>5, <2>6, <2>7
    <2>9. \A i, j \in DOMAIN dialogs : dialogs[i] = dialogs[j] => i = j
      BY DEF AskedOnce
    <2>10. \A i, j \in DOMAIN dialogs' : dialogs'[i] = dialogs'[j] => i = j
      BY <1>2, <2>3, <2>4, <2>9
    <2>11. \A q \in Requests : pc'[q] \in Unposed => answer'[q] = "none"
      BY <1>1, <2>2, <2>7 DEF AskedOnce
    <2>12. AskedOnce'
      BY <2>8, <2>10, <2>11 DEF AskedOnce
    <2>13. Noes' = Noes /\ GivenUp' = GivenUp
      BY <1>1, <1>3 DEF Noes, GivenUp
    <2>14. ASSUME NEW q \in Requests
           PROVE  /\ Refused(q)' => Refused(q)
                  /\ Running(q)' => Running(q)
                  /\ pc[q] \in Ended => pc'[q] \in Ended
      BY <1>1, <2>2 DEF Refused, Running, Ended
    <2>15. Blamed'
      BY <1>1, <1>3, <2>13, <2>14 DEF Blamed
    <2>16. Counted'
      BY <1>1, <2>13, <2>14, CountGrows DEF Uncounted
    <2> QED
      BY <2>12, <2>15, <2>16
  <1>4. CASE /\ UNCHANGED dialogs /\ Goto(r, "denied")
             /\ unasked' = [unasked EXCEPT ![r] = TRUE]
    <2>1. /\ \A q \in Requests : pc'[q] = IF q = r THEN "denied" ELSE pc[q]
          /\ \A q \in Requests : unasked'[q] = IF q = r THEN TRUE ELSE unasked[q]
      BY <1>1, <1>4 DEF Goto
    <2>2. AskedOnce'
      BY <1>1, <1>2, <1>4, <2>1 DEF AskedOnce, Unposed
    <2>3. Noes' = Noes /\ GivenUp \subseteq GivenUp' /\ GivenUp' # {}
      BY <1>1, <2>1 DEF Noes, GivenUp
    <2>4. Blamed'
      BY <1>1, <2>1, <2>3 DEF Blamed, Refused
    <2>5. Counted'
      BY <1>1, <2>1, <2>3, CountGrows DEF Uncounted, Ended
    <2> QED
      BY <2>2, <2>4, <2>5
  <1> QED
    BY <1>3, <1>4 DEF Ask

\* A wait that returns by itself gives the question up.
LEMMA SpuriousKeeps ==
    ASSUME TypeOK, AskedOnce, Blamed, Counted, NEW r \in Requests, Spurious(r)
    PROVE  AskedOnce' /\ Blamed' /\ Counted'
  <1>1. /\ UNCHANGED <<dialogs, answer, shuttingDown, browser, confirmResult, blocked, denies>>
        /\ pc[r] = "waiting" /\ pc \in [Requests -> Places]
        /\ dialogs \in Seq(Requests) /\ unasked \in [Requests -> BOOLEAN]
    BY DEF Spurious, browserVars, throttleVars, confirmVars, TypeOK
  <1>2. \A i \in DOMAIN dialogs : dialogs[i] \in Requests
    BY <1>1, ElementOfSeq, LenProperties
  <1>3. /\ \A q \in Requests : pc'[q] = IF q = r THEN "woken" ELSE pc[q]
        /\ \A q \in Requests : unasked'[q] = IF q = r THEN TRUE ELSE unasked[q]
    BY <1>1 DEF Spurious, Goto
  <1>4. AskedOnce'
    BY <1>1, <1>2, <1>3 DEF AskedOnce, Unposed
  <1>5. Noes' = Noes /\ GivenUp \subseteq GivenUp' /\ GivenUp' # {}
    BY <1>1, <1>3 DEF Noes, GivenUp
  <1>6. Blamed'
    BY <1>1, <1>3, <1>5 DEF Blamed, Refused
  <1>7. Counted'
    BY <1>1, <1>3, <1>5, CountGrows DEF Uncounted, Ended
  <1> QED
    BY <1>4, <1>6, <1>7

\* The user answers the oldest question.
LEMMA AnswerKeeps ==
    ASSUME TypeOK, DirectInv, Alone, OwnQuestion, AskedOnce, Blamed, Counted,
           NEW yes \in BOOLEAN, Answer(yes)
    PROVE  AskedOnce' /\ Blamed' /\ Counted'
  <1>1. /\ UNCHANGED <<unasked, shuttingDown, page, denies, blocked>> /\ ~shuttingDown
        /\ browser = "free"
        /\ dialogs # <<>> /\ dialogs' = Tail(dialogs)
        /\ pc \in [Requests -> Places] /\ dialogs \in Seq(Requests)
        /\ answer \in [Requests -> {"none", "yes", "no"}]
    BY DEF Answer, browserVars, throttleVars, TypeOK
  <1>2. /\ Len(dialogs) \in Nat \ {0} /\ DOMAIN dialogs = 1 .. Len(dialogs)
        /\ DOMAIN dialogs' = 1 .. Len(dialogs) - 1
        /\ Len(dialogs') = Len(dialogs) - 1
        /\ \A i \in 1 .. Len(dialogs) - 1 : dialogs'[i] = dialogs[i + 1]
    BY <1>1, EmptySeq, HeadTailProperties, LenProperties
  <1>3. \A i \in DOMAIN dialogs : dialogs[i] \in Requests
    BY <1>1, <1>2, ElementOfSeq
  <1>4. PICK u \in Requests : u = Head(dialogs) /\ u = dialogs[1]
    BY AnswerMoves
  <1>5. answer[u] = "none" /\ pc[u] \notin Unposed
    BY <1>2, <1>4 DEF AskedOnce
  <1>6. \A q \in Requests : answer'[q] = IF q = u THEN IF yes THEN "yes" ELSE "no"
                                         ELSE answer[q]
    BY <1>1, <1>4 DEF Answer
  <1>7. \/ page.library /\ pc' = pc /\ confirmResult' = yes
           /\ browser' = IF yes THEN "yes" ELSE "no"
        \/ ~page.library /\ UNCHANGED <<confirmResult, browser>>
           /\ pc' = [pc EXCEPT ![u] = IF yes THEN "confirmed" ELSE "denied"]
    BY <1>4 DEF Answer, Goto
  <1>8. \A q \in Requests : q # u => pc'[q] = pc[q]
    BY <1>1, <1>7
  <1>9. pc'[u] \in {pc[u], "confirmed", "denied"}
    BY <1>1, <1>7
  <1>10. ~page.library => pc[u] = "direct"
    BY <1>2, <1>4 DEF DirectInv
  <1>11. AskedOnce'
    <2>1. \A i \in DOMAIN dialogs' : /\ i + 1 \in DOMAIN dialogs
                                    /\ i + 1 # 1 /\ 1 \in DOMAIN dialogs
                                    /\ dialogs'[i] = dialogs[i + 1]
      BY <1>2
    <2>2. \A i, j \in DOMAIN dialogs : dialogs[i] = dialogs[j] => i = j
      BY DEF AskedOnce
    <2>3. \A i \in DOMAIN dialogs' : dialogs'[i] \in Requests /\ dialogs'[i] # u
      BY <1>3, <1>4, <2>1, <2>2
    <2>4. \A i \in DOMAIN dialogs' : answer'[dialogs'[i]] = "none"
                                    /\ pc'[dialogs'[i]] \notin Unposed
      BY <1>6, <1>8, <2>1, <2>3 DEF AskedOnce
    <2>5. \A i, j \in DOMAIN dialogs' : i + 1 = j + 1 => i = j
      BY <1>2
    <2>6. \A i, j \in DOMAIN dialogs' : dialogs'[i] = dialogs'[j] => i = j
      BY <2>1, <2>2, <2>5
    <2>7. \A q \in Requests : pc'[q] \in Unposed => answer'[q] = "none"
      BY <1>5, <1>6, <1>8, <1>9 DEF AskedOnce, Unposed
    <2> QED
      BY <2>4, <2>6, <2>7 DEF AskedOnce
  <1>12. GivenUp' = GivenUp /\ Noes \subseteq Noes' /\ (~yes => u \in Noes')
    BY <1>1, <1>5, <1>6 DEF Noes, GivenUp
  <1>13. \A q \in Requests : pc[q] \in Ended => pc'[q] \in Ended
    BY <1>7, <1>8, <1>10, <1>9 DEF Ended
  <1>14. Counted'
    BY <1>1, <1>12, <1>13, CountGrows DEF Uncounted
  <1>15. ASSUME Noes' = {}
         PROVE  browser' # "no" /\ \A q \in Requests : Refused(q)' => unasked'[q]
    <2>1. yes /\ Noes = {}
      BY <1>12, <1>15
    <2>2. \A q \in Requests : Refused(q)' => Refused(q)
      BY <1>1, <1>7, <1>8, <2>1 DEF Refused
    <2> QED
      BY <1>1, <1>7, <2>1, <2>2 DEF Blamed
  <1>16. ASSUME GivenUp' = {}
         PROVE  \A q \in Requests : /\ Refused(q)' => answer'[q] = "no"
                                    /\ browser' = "no" /\ Running(q)' => answer'[q] = "no"
    <2>1. \A q \in Requests : ~unasked[q]
      BY <1>12, <1>16 DEF GivenUp
    <2>2. Len(dialogs) = 1
      BY <1>1, <1>2, <2>1 DEF OwnQuestion
    <2>3. pc[u] \in Open
      BY <1>1, <1>4, <2>1, <2>2 DEF OwnQuestion
    <2>4. \A q \in Requests : q # u => ~Running(q) /\ ~Running(q)'
      BY <1>8, <2>3 DEF Alone, Running, Ended, Open
    <2>5. \A q \in Requests : Refused(q)' => q = u
      BY <2>4 DEF Refused, Running, Ended
    <2>6. yes => ~Refused(u)'
      BY <1>1, <1>7, <2>3 DEF Refused, Open
    <2>7. yes => browser' # "no"
      BY <1>1, <1>7
    <2> QED
      BY <1>6, <2>4, <2>5, <2>6, <2>7
  <1>17. Blamed'
    BY <1>15, <1>16 DEF Blamed
  <1> QED
    BY <1>11, <1>14, <1>17

\* The notification of an answer wakes the thread that was answered, or one
\* that armed itself since.
LEMMA AnswerNotifyKeeps ==
    ASSUME TypeOK, AskedOnce, Blamed, Counted, AnswerNotify
    PROVE  AskedOnce' /\ Blamed' /\ Counted'
  <1>1. /\ UNCHANGED <<dialogs, answer, shuttingDown, confirmResult, blocked, denies>>
        /\ pc \in [Requests -> Places] /\ browser \in {"yes", "no"} /\ browser' = "free"
        /\ dialogs \in Seq(Requests) /\ unasked \in [Requests -> BOOLEAN]
    BY DEF AnswerNotify, throttleVars, confirmVars, TypeOK
  <1>2. \A i \in DOMAIN dialogs : dialogs[i] \in Requests
    BY <1>1, ElementOfSeq, LenProperties
  <1>3. \A q \in Requests : pc'[q] = pc[q] \/ (pc[q] = "waiting" /\ pc'[q] = "woken")
    BY <1>1 DEF AnswerNotify, NotifyOne, Waiting
  <1>4. \A q \in Requests : unasked[q] => unasked'[q]
    BY <1>1 DEF AnswerNotify, Woken
  <1>5. \A q \in Requests : browser = "yes" /\ ~confirmResult
           /\ pc[q] = "waiting" /\ pc'[q] = "woken" => unasked'[q]
    BY DEF AnswerNotify, Woken, Waiting
  <1>6. AskedOnce'
    BY <1>1, <1>2, <1>3 DEF AskedOnce, Unposed
  <1>7. Noes' = Noes /\ GivenUp \subseteq GivenUp'
    BY <1>1, <1>4 DEF Noes, GivenUp
  <1>8. Counted'
    BY <1>1, <1>3, <1>7, CountGrows DEF Uncounted, Ended
  <1>9. Blamed'
    <2> SUFFICES ASSUME ~shuttingDown
                 PROVE  Blamed'
      BY <1>1 DEF Blamed
    <2>1. ASSUME Noes' = {}, NEW q \in Requests, Refused(q)'
          PROVE  unasked'[q]
      BY <1>1, <1>3, <1>4, <1>5, <1>7, <2>1 DEF Blamed, Refused
    <2>2. ASSUME GivenUp' = {}, NEW q \in Requests, Refused(q)'
          PROVE  answer'[q] = "no"
      <3>1. GivenUp = {} /\ ~unasked'[q]
        BY <1>7, <2>2 DEF GivenUp
      <3>2. CASE Refused(q)
        BY <1>1, <3>1, <3>2 DEF Blamed
      <3>3. CASE browser = "no" /\ Running(q)
        BY <1>1, <3>1, <3>3 DEF Blamed
      <3> QED
        BY <1>1, <1>3, <1>5, <2>2, <3>1, <3>2, <3>3 DEF Refused, Running, Ended
    <2> QED
      BY <1>1, <2>1, <2>2 DEF Blamed
  <1> QED
    BY <1>6, <1>8, <1>9

\* A denial is counted for the reason its request has.
LEMMA DeniedKeeps ==
    ASSUME TypeOK, AskedOnce, Blamed, Counted, NEW r \in Requests, Denied(r), ~shuttingDown
    PROVE  AskedOnce' /\ Blamed' /\ Counted'
  <1>1. /\ UNCHANGED <<dialogs, answer, unasked, shuttingDown, browser, confirmResult>>
        /\ pc[r] = "denied" /\ pc' = [pc EXCEPT ![r] = "failed"]
        /\ denies' = IF recent THEN denies + 1 ELSE 1
        /\ blocked' = (blocked \/ (recent /\ denies' >= THROTTLE_TRIES))
    BY DEF Denied, Goto, browserVars, confirmVars, historyVars
  <1>2. Calm
    <2>1. confirmResult' = confirmResult
      BY <1>1
    <2> QED
      BY <1>1, <2>1, CalmMove DEF Unposed, Ended
  <1>3. AskedOnce' /\ Blamed'
    BY <1>2, CalmKeeps
  <1>4. \A q \in Requests : pc'[q] = IF q = r THEN "failed" ELSE pc[q]
    BY <1>1 DEF TypeOK
  <1>5. Noes' = Noes /\ GivenUp' = GivenUp
    BY <1>1 DEF Noes, GivenUp
  <1>6. /\ IsFiniteSet(Noes) /\ IsFiniteSet(GivenUp)
        /\ IsFiniteSet(EndedIn(Noes)) /\ IsFiniteSet(EndedIn(GivenUp))
    BY RequestAssumption, FS_Subset DEF Noes, GivenUp, EndedIn
  <1>7. /\ Cardinality(Noes) \in Nat /\ Cardinality(GivenUp) \in Nat
        /\ Cardinality(EndedIn(Noes)) \in Nat /\ Cardinality(EndedIn(GivenUp)) \in Nat
    BY <1>6, FS_CardinalityType
  <1>8. r \notin EndedIn(Noes) /\ r \notin EndedIn(GivenUp)
    BY <1>1 DEF EndedIn, Ended
  <1>9. denies \in Nat /\ recent \in BOOLEAN /\ blocked \in BOOLEAN /\ denies' \in Nat
        /\ denies' <= denies + 1
    BY <1>1 DEF TypeOK
  <1>10. ASSUME Noes = {}
         PROVE  denies' <= Cardinality(EndedIn(GivenUp)') /\ EndedIn(GivenUp)' \subseteq GivenUp
    <2>1. unasked[r]
      BY <1>1, <1>10 DEF Blamed, Refused
    <2>2. EndedIn(GivenUp)' = EndedIn(GivenUp) \cup {r}
      BY <1>1, <1>4, <2>1 DEF EndedIn, GivenUp, Ended
    <2>3. Cardinality(EndedIn(GivenUp)') = Cardinality(EndedIn(GivenUp)) + 1
      BY <1>6, <1>8, <2>2, FS_AddElement
    <2>4. denies <= Cardinality(EndedIn(GivenUp))
      BY <1>10 DEF Counted
    <2> QED
      BY <1>5, <1>7, <1>9, <2>3, <2>4 DEF EndedIn
  <1>11. ASSUME GivenUp = {}
         PROVE  denies' <= Cardinality(EndedIn(Noes)') /\ EndedIn(Noes)' \subseteq Noes
    <2>1. answer[r] = "no"
      BY <1>1, <1>11 DEF Blamed, Refused
    <2>2. EndedIn(Noes)' = EndedIn(Noes) \cup {r}
      BY <1>1, <1>4, <2>1 DEF EndedIn, Noes, Ended
    <2>3. Cardinality(EndedIn(Noes)') = Cardinality(EndedIn(Noes)) + 1
      BY <1>6, <1>8, <2>2, FS_AddElement
    <2>4. denies <= Cardinality(EndedIn(Noes))
      BY <1>11 DEF Counted
    <2> QED
      BY <1>5, <1>7, <1>9, <2>3, <2>4 DEF EndedIn
  <1>12. ASSUME blocked'
         PROVE  Cardinality(Noes) + Cardinality(GivenUp) >= THROTTLE_TRIES
    <2>1. CASE blocked
      BY <2>1 DEF Counted
    <2>2. CASE denies' >= 2 /\ Noes = {}
      <3>1. Cardinality(EndedIn(GivenUp)') <= Cardinality(GivenUp)
        BY <1>6, <1>10, <2>2, FS_Subset
      <3>2. IsFiniteSet(EndedIn(GivenUp)')
        BY <1>6, <1>10, <2>2, FS_Subset
      <3>3. Cardinality(EndedIn(GivenUp)') \in Nat
        BY <3>2, FS_CardinalityType
      <3> QED
        BY <1>7, <1>9, <1>10, <2>2, <3>1, <3>3 DEF THROTTLE_TRIES
    <2>3. CASE denies' >= 2 /\ GivenUp = {}
      <3>1. Cardinality(EndedIn(Noes)') <= Cardinality(Noes)
        BY <1>6, <1>11, <2>3, FS_Subset
      <3>2. IsFiniteSet(EndedIn(Noes)')
        BY <1>6, <1>11, <2>3, FS_Subset
      <3>3. Cardinality(EndedIn(Noes)') \in Nat
        BY <3>2, FS_CardinalityType
      <3> QED
        BY <1>7, <1>9, <1>11, <2>3, <3>1, <3>3 DEF THROTTLE_TRIES
    <2>4. CASE Noes # {} /\ GivenUp # {}
      <3>1. Cardinality(Noes) # 0 /\ Cardinality(GivenUp) # 0
        BY <1>6, <2>4, FS_EmptySet
      <3> QED
        BY <1>7, <3>1 DEF THROTTLE_TRIES
    <2> QED
      BY <1>1, <1>12, <2>1, <2>2, <2>3, <2>4 DEF THROTTLE_TRIES
  <1>13. Counted'
    BY <1>5, <1>10, <1>11, <1>12 DEF Counted
  <1> QED
    BY <1>3, <1>13

-----------------------------------------------------------------------------

LEMMA DenialsInit ==
    ASSUME Init
    PROVE  DInv
  <1>1. DOMAIN dialogs = {}
    BY DEF Init
  <1>2. Noes = {} /\ GivenUp = {} /\ denies = 0 /\ ~blocked /\ browser = "free"
    BY DEF Init, Noes, GivenUp
  <1>3. EndedIn({}) = {}
    BY DEF EndedIn
  <1>4. Cardinality({}) = 0
    BY FS_EmptySet
  <1>5. AskedOnce /\ Blamed
    BY <1>1, <1>2 DEF Init, AskedOnce, Blamed, Refused
  <1>6. Counted
    BY <1>2, <1>3, <1>4 DEF Counted
  <1> QED
    BY <1>5, <1>6 DEF DInv

LEMMA DenialsStep ==
    ASSUME IInv, DInv, [Next]_vars
    PROVE  DInv'
  <1> USE DEF IInv
  <1>1. UNCHANGED page
    BY DEF Next, Thread, vars, browserVars, Request, Ready, List, Load, LoadDone,
        Remote, Validate, Ask, Check, Cancel, CancelNotify, Arm, Enter, WakeUp,
        Confirmed, Denied, Find, Register, Configure, Spurious, Answer,
        AnswerNotify, TimePasses, Shutdown, ShutdownNotify, Joined
  <1> SUFFICES ASSUME page.patient
               PROVE  AskedOnce' /\ Blamed' /\ Counted'
    BY <1>1 DEF DInv
  <1>2. AskedOnce /\ Blamed /\ Counted /\ Alone /\ OwnQuestion
    BY DEF DInv, Patient
  <1>3. ASSUME NEW r \in Requests, Ask(r)  PROVE AskedOnce' /\ Blamed' /\ Counted'
    BY <1>2, <1>3, AskKeeps
  <1>4. ASSUME NEW r \in Requests, Spurious(r)  PROVE AskedOnce' /\ Blamed' /\ Counted'
    BY <1>2, <1>4, SpuriousKeeps
  <1>5. ASSUME NEW yes \in BOOLEAN, Answer(yes)  PROVE AskedOnce' /\ Blamed' /\ Counted'
    BY <1>2, <1>5, AnswerKeeps
  <1>6. CASE AnswerNotify
    BY <1>2, <1>6, AnswerNotifyKeeps
  <1>7. ASSUME NEW r \in Requests, Denied(r)  PROVE AskedOnce' /\ Blamed' /\ Counted'
    <2>1. CASE ~shuttingDown
      BY <1>2, <1>7, <2>1, DeniedKeeps
    <2>2. CASE shuttingDown
      <3>1. /\ UNCHANGED <<dialogs, answer, unasked, shuttingDown, browser, confirmResult>>
            /\ UNCHANGED <<denies, blocked>>
            /\ pc[r] = "denied" /\ pc' = [pc EXCEPT ![r] = "aborted"]
        BY <1>7, <2>2 DEF Denied, Goto, browserVars, confirmVars, throttleVars, historyVars
      <3>2. Calm /\ Uncounted
        BY <3>1, CalmMove DEF Unposed, Ended, Uncounted
      <3> QED
        BY <1>2, <3>2, CalmKeeps
    <2> QED
      BY <2>1, <2>2
  <1>8. ASSUME Calm /\ Uncounted  PROVE AskedOnce' /\ Blamed' /\ Counted'
    BY <1>2, <1>8, CalmKeeps
  <1>9. ASSUME \/ \E r \in Requests : CancelNotify(r)
               \/ TimePasses \/ Shutdown \/ ShutdownNotify \/ Joined \/ UNCHANGED vars
        PROVE  AskedOnce' /\ Blamed' /\ Counted'
    BY <1>2, <1>8, <1>9, CalmRest
  <1>10. ASSUME NEW r \in Requests,
                Request(r) \/ (Thread(r) /\ ~CancelNotify(r) /\ ~Ask(r) /\ ~Denied(r))
         PROVE  AskedOnce' /\ Blamed' /\ Counted'
    BY <1>2, <1>8, <1>10, CalmThread DEF Thread
  <1> QED
    BY <1>3, <1>4, <1>5, <1>6, <1>7, <1>9, <1>10 DEF Next, Thread

(* A patient page is blocked only after the user said "no", or the plugin  *)
(* gave up a question, at least twice (CVMWebAPI.cpp 406-413).             *)
THEOREM BlockedCorrect == Spec => []BlockedAfterDenials
  <1>1. Init => DInv
    BY DenialsInit
  <1>2. IInv /\ DInv /\ [Next]_vars => DInv'
    BY DenialsStep
  <1>3. DInv => BlockedAfterDenials
    BY DEF DInv, Counted, Noes, GivenUp, BlockedAfterDenials
  <1> QED
    BY Inductive, <1>1, <1>2, <1>3, PTL DEF Spec

=============================================================================
