------------------------- MODULE ImageCache_proofs -------------------------
(***************************************************************************)
(* Safety of ImageCache for every set of clients, urls, sizes and faults.  *)
(*                                                                         *)
(* A disk image is whole in the cache because at every point of            *)
(* diskImageDownload one of its two files is: a partial .vdi always has    *)
(* the whole archive beside it, and an archive is only ever replaced where *)
(* there is no .vdi.  What the other threads do to the shared stream never *)
(* reaches these two files, because the stream has one owner.              *)
(***************************************************************************)
EXTENDS ImageCache, SequenceTheorems, TLAPS

Extracting == {"inflate", "inflating", "inflated"}

\* Only a disk image is verified and extracted, only a file is opened.
Kinds ==
    \A c \in Clients :
        /\ pc[c] \in {"recheck", "verify"} \cup Extracting => c \in DiskClients
        /\ pc[c] = "open" => c \in FileClients

\* A file that is being downloaded is there.
Present == \A c \in Clients : Downloading(c) => Exists(Target(c))

\* The first n blocks of a resource.
Prefix(s, u) ==
    /\ Len(s) <= Size[u]
    /\ \A k \in 1 .. Len(s) : s[k] = Data(u)[k]

(* The files of a disk image at each point of the call of its client. *)
DiskState(c) ==
    /\ Exists(Vdi(c)) => \/ Whole(Gz(c))
                         \/ Whole(Vdi(c)) /\ ~Exists(Gz(c))
    /\ pc[c] = "open" => ~Exists(Vdi(c)) /\ ~Exists(Gz(c))
    /\ pc[c] \in {"requested", "waiting", "verify"} =>
          ~Exists(Vdi(c)) /\ Exists(Gz(c))
    /\ pc[c] = "recheck" => Exists(Gz(c))
    /\ pc[c] \in Extracting => Whole(Gz(c))
    /\ pc[c] = "inflating" => Exists(Vdi(c)) /\ Prefix(file[Vdi(c)], Url[c])
    /\ pc[c] = "inflated" => Whole(Vdi(c))
    /\ pc[c] = "idle" /\ result[c] \in {"ok", "exists"} => Cached(c)

DiskInv == \A c \in DiskClients : DiskState(c)

IInv == TypeOK /\ StreamOwned /\ Kinds /\ Present /\ DiskInv

-----------------------------------------------------------------------------
(* Names and contents.                                                     *)

\* The paths of different images differ.
LEMMA Names ==
    ASSUME NEW c \in DiskClients
    PROVE  /\ Gz(c) \in Paths /\ Vdi(c) \in Paths /\ Gz(c) # Vdi(c)
           /\ Gz(c)[2] = Url[c] /\ Vdi(c)[2] = Url[c]
           /\ Target(c) = Gz(c)
           /\ \A d \in FileClients : Target(d) # Vdi(c)
           /\ \A d \in FileClients : Target(d) = Gz(c) => d = c
           /\ \A d \in DiskClients : d # c => /\ Gz(d) # Gz(c)
                                              /\ Vdi(d) # Vdi(c)
                                              /\ Gz(d) # Vdi(c)
                                              /\ Vdi(d) # Gz(c)
  <1>1. \A d \in Clients : Url[d] = Url[c] => d = c
    BY ImageAssumption
  <1> QED
    BY <1>1 DEF Gz, Vdi, Iso, Target, Paths, FileClients, Clients

\* What is opened is the file of the client.
LEMMA Targets ==
    ASSUME NEW c \in FileClients
    PROVE  Target(c) \in Paths /\ Target(c) # Closed /\ c \in Clients
  BY ImageAssumption DEF Gz, Vdi, Iso, Target, Paths, FileClients, Clients

\* A resource is a possible content.
LEMMA Resources ==
    ASSUME NEW u \in Urls
    PROVE  /\ Size[u] \in Nat \ {0}
           /\ Data(u) \in Contents /\ Len(Data(u)) = Size[u]
           /\ Data(u) # Missing
  <1>1. Size[u] \in Nat \ {0}
    BY ImageAssumption
  <1>2. Data(u) \in [1 .. Size[u] -> Urls \X Nat]
    BY <1>1 DEF Data
  <1>3. Data(u) \in Contents /\ Len(Data(u)) = Size[u]
    BY <1>1, <1>2, IsASeq, LenProperties DEF Contents
  <1> QED
    BY <1>1, <1>3, ImageAssumption

\* A whole file is there.
LEMMA WholeIsThere ==
    ASSUME NEW c \in DiskClients
    PROVE  /\ Whole(Gz(c)) => Exists(Gz(c))
           /\ Whole(Vdi(c)) => Exists(Vdi(c))
  <1>1. Url[c] \in Urls
    BY DEF Urls, Clients, FileClients
  <1> QED
    BY <1>1, Resources, Names DEF Whole, Exists

\* A prefix with all the blocks is the resource.
LEMMA FullPrefix ==
    ASSUME NEW u \in Urls, NEW s \in Contents, Prefix(s, u), Len(s) = Size[u]
    PROVE  s = Data(u)
  <1>1. Data(u) \in Contents /\ Len(Data(u)) = Size[u]
    BY Resources
  <1> QED
    BY <1>1, SeqEqual DEF Prefix, Contents

\* The next block of the resource makes a longer prefix.
LEMMA LongerPrefix ==
    ASSUME NEW u \in Urls, NEW s \in Contents, Prefix(s, u), Len(s) < Size[u]
    PROVE  Prefix(Append(s, Data(u)[Len(s) + 1]), u)
  <1>1. Size[u] \in Nat /\ Data(u) \in Contents /\ Len(Data(u)) = Size[u]
    BY Resources
  <1>2. Len(s) \in Nat /\ s \in Seq(Urls \X Nat)
    BY LenProperties DEF Contents
  <1>3. Len(s) + 1 \in 1 .. Len(Data(u))
    BY <1>1, <1>2
  <1>4. Data(u)[Len(s) + 1] \in Urls \X Nat
    BY <1>1, <1>3, ElementOfSeq DEF Contents
  <1> DEFINE e == Data(u)[Len(s) + 1]
             r == Append(s, e)
  <1> HIDE DEF e
  <1>5. /\ Len(r) = Len(s) + 1
        /\ r[Len(s) + 1] = e
        /\ \A k \in 1 .. Len(s) : r[k] = s[k]
    BY <1>2, <1>4, AppendProperties DEF e
  <1>6. \A k \in 1 .. Len(r) : r[k] = Data(u)[k]
    <2> TAKE k \in 1 .. Len(r)
    <2>1. k \in 1 .. Len(s) \/ k = Len(s) + 1
      BY <1>2, <1>5
    <2> QED
      BY <2>1, <1>5 DEF Prefix, e
  <1>7. Len(r) <= Size[u]
    BY <1>1, <1>2, <1>5
  <1> QED
    BY <1>6, <1>7 DEF Prefix, e

-----------------------------------------------------------------------------
(* Every step keeps the types.                                             *)

\* How many calls a client makes is a number.
LEMMA CallsAreNumbers == \A c \in Clients : Calls[c] \in Nat
  <1>1. Calls \in [Clients -> Nat]
    BY ImageAssumption
  <1> QED
    BY <1>1

LEMMA InitTypes == Init => TypeOK
  <1> SUFFICES ASSUME Init PROVE TypeOK
    OBVIOUS
  <1>1. \A c \in Clients : [n \in 1 .. Calls[c] |-> -1]
                              \in [1 .. Calls[c] -> -1 .. Size[Url[c]]]
    <2> TAKE c \in Clients
    <2>1. Size[Url[c]] \in Nat
      BY Resources DEF Urls
    <2> QED
      BY <2>1
  <1>2. requests = [c \in Clients |-> [n \in 1 .. Calls[c] |-> -1]]
    BY DEF Init
  <1>3. \A c \in Clients : 0 <= Calls[c]
    BY CallsAreNumbers
  <1> QED
    BY <1>1, <1>2, <1>3 DEF Init, TypeOK, Places, Results

\* The browser starts to answer the call n of the client d.
LEMMA RequestTypes ==
    ASSUME TypeOK, NEW d \in Clients, NEW n, NEW k \in -1 .. Size[Url[d]],
           requests' = [requests EXCEPT ![d][n] = k]
    PROVE  /\ DOMAIN requests' = Clients
           /\ \A c \in Clients : requests'[c] \in
                                    [1 .. Calls[c] -> -1 .. Size[Url[c]]]
  BY DEF TypeOK

\* A client that begins another call.
LEMMA BeginTypes ==
    ASSUME TypeOK, NEW d \in Clients, Begin(d)
    PROVE  /\ calls' \in [Clients -> Nat]
           /\ \A c \in Clients : calls'[c] <= Calls[c]
  <1>1. calls[d] \in Nat /\ Calls[d] \in Nat
    BY CallsAreNumbers DEF TypeOK
  <1> QED
    BY <1>1 DEF TypeOK, Begin

\* A client that moves on, or returns.
LEMMA MoveTypes ==
    ASSUME TypeOK, NEW d \in Clients,
           \/ \E place \in Places : Goto(d, place)
           \/ \E r \in Results : Return(d, r)
    PROVE  pc' \in [Clients -> Places] /\ result' \in [Clients -> Results]
  <1>1. "none" \in Results
    BY DEF Results
  <1>2. ASSUME NEW place \in Places, Goto(d, place)
        PROVE  pc' \in [Clients -> Places] /\ result' \in [Clients -> Results]
    BY <1>1, <1>2 DEF TypeOK, Goto
  <1>3. ASSUME NEW r \in Results, Return(d, r)
        PROVE  pc' \in [Clients -> Places] /\ result' \in [Clients -> Results]
    BY <1>3 DEF TypeOK, Return, Places
  <1> QED
    BY <1>2, <1>3

LEMMA ThreadTypes ==
    ASSUME IInv, NEW d \in Clients, Thread(d)
    PROVE  TypeOK'
  <1> USE DEF IInv
  <1>0. 0 \in -1 .. Size[Url[d]]
    BY Resources DEF Urls
  <1>1. CASE DiskLook(d)
    <2>1. pc' \in [Clients -> Places] /\ result' \in [Clients -> Results]
      BY <1>1, MoveTypes DEF DiskLook, Places, Results
    <2> QED
      BY <1>1, <2>1, BeginTypes DEF DiskLook, TypeOK, provider
  <1>2. CASE IsoLook(d)
    <2>1. pc' \in [Clients -> Places] /\ result' \in [Clients -> Results]
      BY <1>2, MoveTypes DEF IsoLook, Places, Results
    <2> QED
      BY <1>2, <2>1, BeginTypes DEF IsoLook, TypeOK, provider
  <1>3. CASE TextStart(d)
    <2>1. pc' \in [Clients -> Places] /\ result' \in [Clients -> Results]
      BY <1>3, MoveTypes DEF TextStart, Places, Results
    <2>2. /\ DOMAIN requests' = Clients
          /\ \A c \in Clients : requests'[c] \in
                                   [1 .. Calls[c] -> -1 .. Size[Url[c]]]
      BY <1>0, <1>3, RequestTypes DEF TextStart, Request
    <2> QED
      BY <1>3, <2>1, <2>2, BeginTypes DEF TextStart, TypeOK
  <1>4. CASE OpenFails(d)
    <2>1. pc' \in [Clients -> Places] /\ result' \in [Clients -> Results]
      BY <1>4, MoveTypes DEF OpenFails, Places, Results
    <2> QED
      BY <1>4, <2>1 DEF OpenFails, TypeOK
  <1>5. CASE Open(d)
    <2>1. pc' \in [Clients -> Places] /\ result' \in [Clients -> Results]
      BY <1>5, MoveTypes DEF Open, Places, Results
    <2>2. /\ DOMAIN requests' = Clients
          /\ \A c \in Clients : requests'[c] \in
                                   [1 .. Calls[c] -> -1 .. Size[Url[c]]]
      BY <1>0, <1>5, RequestTypes DEF Open, Request
    <2>3. << >> \in Contents
      BY DEF Contents
    <2> QED
      BY <1>5, <2>1, <2>2, <2>3, Targets DEF Open, TypeOK
  <1>6. CASE Arm(d)
    <2>1. pc' \in [Clients -> Places] /\ result' \in [Clients -> Results]
      BY <1>6, MoveTypes DEF Arm, Places, Results
    <2> QED
      BY <1>6, <2>1 DEF Arm, TypeOK
  <1>7. CASE FileWake(d)
    <2>1. pc' \in [Clients -> Places] /\ result' \in [Clients -> Results]
      BY <1>7, MoveTypes DEF FileWake, Places, Results
    <2> QED
      BY <1>7, <2>1 DEF FileWake, TypeOK
  <1>8. CASE TextWake(d)
    <2>1. pc' \in [Clients -> Places] /\ result' \in [Clients -> Results]
      BY <1>8, MoveTypes DEF TextWake, Places, Results
    <2> QED
      BY <1>8, <2>1 DEF TextWake, TypeOK, provider
  <1>9. CASE Verify(d)
    <2>1. pc' \in [Clients -> Places] /\ result' \in [Clients -> Results]
      BY <1>9, MoveTypes DEF Verify, Places, Results
    <2> QED
      BY <1>9, <2>1 DEF Verify, TypeOK, provider
  <1>10. CASE InflateOpen(d)
    <2>1. pc' \in [Clients -> Places] /\ result' \in [Clients -> Results]
      BY <1>10, MoveTypes DEF InflateOpen, Places, Results
    <2>2. << >> \in Contents
      BY DEF Contents
    <2> QED
      BY <1>10, <2>1, <2>2 DEF InflateOpen, TypeOK, provider
  <1>11. CASE InflateBlock(d)
    <2> DEFINE n == Len(file[Vdi(d)]) + 1
    <2>1. d \in DiskClients
      BY <1>11 DEF InflateBlock, Kinds, Extracting
    <2>2. file[Vdi(d)] \in Contents /\ file[Gz(d)] \in Contents
      BY <1>11, <2>1, Names, WholeIsThere
         DEF InflateBlock, DiskInv, DiskState, Extracting, Exists, TypeOK
    <2>3. n \in 1 .. Len(file[Gz(d)])
      BY <1>11, <2>2 DEF InflateBlock, Contents
    <2>4. file[Gz(d)][n] \in Urls \X Nat
      BY <2>2, <2>3, ElementOfSeq DEF Contents
    <2>5. Append(file[Vdi(d)], file[Gz(d)][n]) \in Contents
      BY <2>2, <2>4, AppendProperties DEF Contents
    <2> QED
      BY <1>11, <2>5 DEF InflateBlock, TypeOK, provider
  <1>12. CASE InflateEnd(d)
    <2>1. pc' \in [Clients -> Places] /\ result' \in [Clients -> Results]
      BY <1>12, MoveTypes DEF InflateEnd, Places, Results
    <2> QED
      BY <1>12, <2>1 DEF InflateEnd, TypeOK, provider
  <1>13. CASE DropArchive(d)
    <2>1. pc' \in [Clients -> Places] /\ result' \in [Clients -> Results]
      BY <1>13, MoveTypes DEF DropArchive, Places, Results
    <2> QED
      BY <1>13, <2>1 DEF DropArchive, TypeOK, provider
  <1> QED
    BY <1>1, <1>2, <1>3, <1>4, <1>5, <1>6, <1>7, <1>8, <1>9, <1>10, <1>11,
       <1>12, <1>13 DEF Thread

\* What the stream is open on is there.
LEMMA StreamIsThere ==
    ASSUME IInv, stream # Closed
    PROVE  \E c \in FileClients : /\ Downloading(c)
                                  /\ stream = Target(c)
                                  /\ Exists(stream)
  BY DEF IInv, StreamOwned, Present, Downloading, Clients

LEMMA BrowserTypes ==
    ASSUME IInv, NEW d \in Clients, NEW n \in 1 .. Calls[d], Browser(d, n)
    PROVE  TypeOK'
  <1> USE DEF IInv
  <1>0. Size[Url[d]] \in Nat /\ Url[d] \in Urls
    BY Resources DEF Urls
  <1>1. CASE HttpData(d, n)
    <2> DEFINE k == requests[d][n] + 1
    <2>1. k \in -1 .. Size[Url[d]] /\ k \in Nat
      BY <1>0, <1>1 DEF HttpData
    <2>2. /\ DOMAIN requests' = Clients
          /\ \A c \in Clients : requests'[c] \in
                                   [1 .. Calls[c] -> -1 .. Size[Url[c]]]
      BY <1>1, <2>1, RequestTypes DEF HttpData
    <2>3. file' \in [Paths -> Contents \cup {Missing}]
      <3>1. CASE file' = file
        BY <3>1 DEF TypeOK
      <3>2. CASE /\ stream # Closed
                 /\ file' = [file EXCEPT ![stream] = Append(@, <<Url[d], k>>)]
        <4>1. stream \in Paths /\ file[stream] \in Contents
          BY <3>2, StreamIsThere, Targets DEF TypeOK, Exists
        <4>2. Append(file[stream], <<Url[d], k>>) \in Contents
          BY <1>0, <2>1, <4>1, AppendProperties DEF Contents
        <4> QED
          BY <3>2, <4>1, <4>2 DEF TypeOK
      <3> QED
        BY <1>1, <3>1, <3>2 DEF HttpData
    <2>4. good' \in BOOLEAN
      BY <1>1 DEF HttpData
    <2> QED
      BY <1>1, <2>2, <2>3, <2>4 DEF HttpData, TypeOK
  <1>2. CASE HttpCompleted(d, n)
    <2>1. /\ DOMAIN requests' = Clients
          /\ \A c \in Clients : requests'[c] \in
                                   [1 .. Calls[c] -> -1 .. Size[Url[c]]]
      <3>1. -1 \in -1 .. Size[Url[d]]
        BY <1>0
      <3> QED
        BY <1>2, <3>1, RequestTypes DEF HttpCompleted
    <2>2. missed' \in BOOLEAN
      BY <1>2 DEF HttpCompleted
    <2> QED
      BY <1>2, <2>1, <2>2 DEF HttpCompleted, TypeOK
  <1> QED
    BY <1>1, <1>2 DEF Browser

\* What is being written when the process dies is there.
LEMMA WritingIsThere ==
    ASSUME IInv
    PROVE  \A p \in Writing : p \in Paths /\ Exists(p)
  <1> SUFFICES ASSUME NEW p \in Writing PROVE p \in Paths /\ Exists(p)
    OBVIOUS
  <1>1. CASE p = stream /\ stream # Closed
    BY <1>1, StreamIsThere, Targets
  <1>2. CASE \E c \in DiskClients : p = Vdi(c) /\ pc[c] = "inflating"
    BY <1>2, Names DEF IInv, DiskInv, DiskState
  <1> QED
    BY <1>1, <1>2 DEF Writing

\* A sequence without its last element.
LEMMA Shorter ==
    ASSUME NEW s \in Contents
    PROVE  /\ SubSeq(s, 1, Len(s) - 1) \in Contents
           /\ Len(SubSeq(s, 1, Len(s) - 1)) <= Len(s)
           /\ \A k \in 1 .. Len(SubSeq(s, 1, Len(s) - 1)) :
                 SubSeq(s, 1, Len(s) - 1)[k] = s[k]
  <1>1. s \in Seq(Urls \X Nat) /\ Len(s) \in Nat
    BY DEF Contents
  <1>2. CASE s = << >>
    BY <1>1, <1>2, SubSeqEmpty DEF Contents
  <1>3. CASE s # << >>
    <2>1. Len(s) >= 1
      BY <1>1, <1>3, EmptySeq
    <2> QED
      BY <1>1, <2>1, SubSeqProperties DEF Contents
  <1> QED
    BY <1>2, <1>3

LEMMA CrashTypes ==
    ASSUME IInv, Crash
    PROVE  TypeOK'
  <1>1. PICK lost \in SUBSET Writing :
          file' = [p \in Paths |-> IF p \in lost
                                   THEN SubSeq(file[p], 1, Len(file[p]) - 1)
                                   ELSE file[p]]
    BY DEF Crash
  <1>2. \A p \in lost : SubSeq(file[p], 1, Len(file[p]) - 1) \in Contents
    BY WritingIsThere, Shorter DEF IInv, TypeOK, Exists
  <1>3. file' \in [Paths -> Contents \cup {Missing}]
    BY <1>1, <1>2 DEF IInv, TypeOK
  <1>4. \A c \in Clients : [n \in 1 .. Calls[c] |-> -1]
                              \in [1 .. Calls[c] -> -1 .. Size[Url[c]]]
    <2> TAKE c \in Clients
    <2>1. Size[Url[c]] \in Nat
      BY Resources DEF Urls
    <2> QED
      BY <2>1
  <1>5. requests' = [c \in Clients |-> [n \in 1 .. Calls[c] |-> -1]]
    BY DEF Crash
  <1> QED
    BY <1>3, <1>4, <1>5 DEF Crash, IInv, TypeOK, Places, Results

-----------------------------------------------------------------------------
(* Every step keeps the owner of the stream, the kinds of the clients and  *)
(* the file that is being downloaded.                                      *)

Shared == StreamOwned /\ Kinds /\ Present

\* The clients other than d, and the files of other clients, stand still.
Alone(d) ==
    /\ \A c \in Clients : c # d => pc'[c] = pc[c] /\ result'[c] = result[c]
    /\ \A p \in Paths : \/ file'[p] = file[p]
                        \/ d \in DiskClients /\ p \in {Gz(d), Vdi(d)}
                        \/ Open(d) /\ p = Target(d)

LEMMA ThreadAlone ==
    ASSUME IInv, NEW d \in Clients, Thread(d)
    PROVE  Alone(d)
  <1>1. \A c \in Clients : c # d => pc'[c] = pc[c] /\ result'[c] = result[c]
    BY DEF IInv, TypeOK, Thread, DiskLook, IsoLook, TextStart, OpenFails,
           Open, Arm, FileWake, TextWake, Verify, InflateOpen, InflateBlock,
           InflateEnd, DropArchive, Goto, Return
  <1>2. CASE file' = file
    BY <1>1, <1>2 DEF Alone
  <1>3. CASE Open(d)
    BY <1>1, <1>3 DEF Alone, Open, IInv, TypeOK
  <1>4. CASE pc[d] \in {"recheck", "verify"} \cup Extracting
    <2>1. d \in DiskClients
      BY <1>4 DEF IInv, Kinds
    <2>2. \/ file' = file
          \/ \E v : file' = [file EXCEPT ![Gz(d)] = v]
          \/ \E v : file' = [file EXCEPT ![Vdi(d)] = v]
      BY <1>4 DEF Thread, DiskLook, IsoLook, TextStart, OpenFails, Open, Arm,
                  FileWake, TextWake, Verify, InflateOpen, InflateBlock,
                  InflateEnd, DropArchive, Begin, Extracting
    <2> QED
      BY <1>1, <2>1, <2>2 DEF Alone, IInv, TypeOK
  <1> QED
    BY <1>2, <1>3, <1>4
       DEF Thread, DiskLook, IsoLook, TextStart, OpenFails, Arm, FileWake,
           TextWake, Verify, InflateOpen, InflateBlock, InflateEnd,
           DropArchive, Extracting

\* A client that neither opens nor closes leaves the stream to its owner.
LEMMA SharedFrame ==
    ASSUME IInv, NEW d \in Clients, Alone(d), stream' = stream,
           Downloading(d)' <=> Downloading(d),
           pc'[d] \in {"recheck", "verify"} \cup Extracting => d \in DiskClients,
           pc'[d] = "open" => d \in FileClients,
           Downloading(d) => file' = file
    PROVE  Shared'
  <1>1. \A c \in Clients : Downloading(c)' <=> Downloading(c)
    BY DEF Alone, Downloading
  <1>2. StreamOwned'
    BY <1>1 DEF IInv, StreamOwned
  <1>3. Kinds'
    BY DEF IInv, Kinds, Alone
  <1>4. Present'
    <2> SUFFICES ASSUME NEW c \in Clients, Downloading(c)
                 PROVE  Exists(Target(c))'
      BY <1>1 DEF Present
    <2>1. Exists(Target(c)) /\ c \in FileClients /\ Target(c) \in Paths
      BY Targets DEF IInv, Present, Downloading
    <2>2. stream # Closed
      BY Targets DEF IInv, StreamOwned, Downloading
    <2>3. file'[Target(c)] = file[Target(c)]
      <3>1. CASE c = d
        BY <3>1
      <3>2. CASE c # d
        BY <2>1, <2>2, <3>2, Names DEF Alone, Open
      <3> QED
        BY <3>1, <3>2
    <2> QED
      BY <2>1, <2>3 DEF Exists
  <1> QED
    BY <1>2, <1>3, <1>4 DEF Shared

LEMMA OpenShared ==
    ASSUME IInv, NEW d \in Clients, Open(d)
    PROVE  Shared'
  <1>1. d \in FileClients /\ Target(d) \in Paths /\ Target(d) # Closed
    BY Targets DEF Open
  <1>2. \A c \in Clients : ~Downloading(c)
    BY Targets DEF Open, IInv, StreamOwned, Downloading
  <1>3. \A c \in Clients : pc'[c] = IF c = d THEN "requested" ELSE pc[c]
    BY DEF Open, Goto, IInv, TypeOK
  <1>4. \A c \in Clients : Downloading(c)' <=> c = d
    BY <1>1, <1>2, <1>3 DEF Downloading
  <1>5. stream' = Target(d) /\ file'[Target(d)] = << >>
    BY <1>1 DEF Open, IInv, TypeOK
  <1>6. << >> # Missing
    <2>1. << >> \in Contents
      BY DEF Contents
    <2> QED
      BY <2>1, ImageAssumption
  <1>7. StreamOwned'
    BY <1>4, <1>5 DEF StreamOwned
  <1>8. Kinds'
    BY <1>3 DEF IInv, Kinds, Extracting
  <1>9. Present'
    BY <1>4, <1>5, <1>6 DEF Present, Exists
  <1> QED
    BY <1>7, <1>8, <1>9 DEF Shared

LEMMA FileWakeShared ==
    ASSUME IInv, NEW d \in Clients, FileWake(d)
    PROVE  Shared'
  <1>1. \A c \in Clients : Downloading(c) => c = d
    BY DEF FileWake, IInv, StreamOwned, Downloading
  <1>2. \A c \in Clients : c # d => pc'[c] = pc[c]
    BY DEF FileWake, Goto, Return, IInv, TypeOK
  <1>3. /\ d \in DiskClients => pc'[d] = "verify"
        /\ d \notin DiskClients => pc'[d] = "idle"
    BY DEF FileWake, Goto, Return, IInv, TypeOK
  <1>4. \A c \in Clients : ~Downloading(c)'
    BY <1>1, <1>2, <1>3 DEF Downloading
  <1>5. StreamOwned'
    BY <1>4 DEF StreamOwned, FileWake
  <1>6. Kinds'
    BY <1>2, <1>3 DEF Kinds, Extracting, IInv
  <1>7. Present'
    BY <1>4 DEF Present
  <1> QED
    BY <1>5, <1>6, <1>7 DEF Shared

LEMMA ThreadShared ==
    ASSUME IInv, NEW d \in Clients, Thread(d)
    PROVE  Shared'
  <1>1. Alone(d)
    BY ThreadAlone
  <1>2. CASE Open(d)
    BY <1>2, OpenShared
  <1>3. CASE FileWake(d)
    BY <1>3, FileWakeShared
  <1>4. CASE ~Open(d) /\ ~FileWake(d)
    <2>1. stream' = stream
      BY <1>4 DEF Thread, DiskLook, IsoLook, TextStart, OpenFails, Arm,
                  TextWake, Verify, InflateOpen, InflateBlock, InflateEnd,
                  DropArchive, provider
    <2>2. pc'[d] \in {"recheck", "verify"} \cup Extracting => d \in DiskClients
      BY <1>4 DEF Thread, DiskLook, IsoLook, TextStart, OpenFails, Arm,
                  TextWake, Verify, InflateOpen, InflateBlock, InflateEnd,
                  DropArchive, Goto, Return, IInv, TypeOK, Kinds, Extracting
    <2>3. pc'[d] = "open" => d \in FileClients
      BY <1>4 DEF Thread, DiskLook, IsoLook, TextStart, OpenFails, Arm,
                  TextWake, Verify, InflateOpen, InflateBlock, InflateEnd,
                  DropArchive, Goto, Return, IInv, TypeOK, Kinds, Extracting,
                  FileClients
    <2>4. Downloading(d)' <=> Downloading(d)
      BY <1>4, ImageAssumption
         DEF Thread, DiskLook, IsoLook, TextStart, OpenFails, Arm,
             TextWake, Verify, InflateOpen, InflateBlock, InflateEnd,
             DropArchive, Goto, Return, IInv, TypeOK, Downloading, Begin
    <2>5. Downloading(d) => file' = file
      BY <1>4 DEF Thread, DiskLook, IsoLook, TextStart, OpenFails, Arm,
                  TextWake, Verify, InflateOpen, InflateBlock, InflateEnd,
                  DropArchive, Downloading, Begin
    <2> QED
      BY <1>1, <2>1, <2>2, <2>3, <2>4, <2>5, SharedFrame
  <1> QED
    BY <1>2, <1>3, <1>4

\* What the browser delivers reaches the file the stream is open on alone.
Delivered ==
    /\ pc' = pc /\ result' = result /\ stream' = stream
    /\ \A p \in Paths : \/ file'[p] = file[p]
                        \/ stream = p /\ file'[p] # Missing

LEMMA BrowserDelivers ==
    ASSUME IInv, NEW d \in Clients, NEW n \in 1 .. Calls[d], Browser(d, n)
    PROVE  Delivered
  <1>1. CASE HttpData(d, n)
    <2>1. CASE file' = file
      BY <1>1, <2>1 DEF HttpData, Delivered
    <2>2. CASE /\ stream # Closed
               /\ file' = [file EXCEPT ![stream] =
                             Append(@, <<Url[d], requests[d][n] + 1>>)]
      <3>1. stream \in Paths
        BY <2>2, StreamIsThere, Targets
      <3>2. file'[stream] # Missing
        <4>1. file[stream] \in Contents
          BY <2>2, <3>1, StreamIsThere DEF IInv, TypeOK, Exists
        <4>2. <<Url[d], requests[d][n] + 1>> \in Urls \X Nat
          BY <1>1 DEF HttpData, Urls
        <4>3. Append(file[stream], <<Url[d], requests[d][n] + 1>>) \in Contents
          BY <4>1, <4>2, AppendProperties DEF Contents
        <4> QED
          BY <2>2, <3>1, <4>3, ImageAssumption DEF IInv, TypeOK
      <3> QED
        BY <1>1, <2>2, <3>1, <3>2 DEF HttpData, Delivered, IInv, TypeOK
    <2> QED
      BY <1>1, <2>1, <2>2 DEF HttpData
  <1>2. CASE HttpCompleted(d, n)
    BY <1>2 DEF HttpCompleted, Delivered
  <1> QED
    BY <1>1, <1>2 DEF Browser

LEMMA DeliveredShared ==
    ASSUME IInv, Delivered
    PROVE  Shared'
  <1>1. StreamOwned'
    BY DEF IInv, StreamOwned, Delivered, Downloading
  <1>2. Kinds'
    BY DEF IInv, Kinds, Delivered
  <1>3. Present'
    BY Targets DEF IInv, Present, Delivered, Downloading, Exists
  <1> QED
    BY <1>1, <1>2, <1>3 DEF Shared

LEMMA CrashShared ==
    ASSUME IInv, Crash
    PROVE  Shared'
  <1>1. \A c \in Clients : pc'[c] = "idle"
    BY DEF Crash
  <1> QED
    BY <1>1 DEF Crash, Shared, StreamOwned, Kinds, Present, Downloading,
                Extracting

-----------------------------------------------------------------------------
(* Every step keeps one file of each disk image whole.                     *)

\* The state of a disk image depends on its two files and its client.
LEMMA DiskFrame ==
    ASSUME NEW c \in DiskClients, DiskState(c),
           pc'[c] = pc[c], result'[c] = result[c],
           file'[Gz(c)] = file[Gz(c)], file'[Vdi(c)] = file[Vdi(c)]
    PROVE  DiskState(c)'
  BY DEF DiskState, Exists, Whole, Prefix, Cached

\* No other client touches the files of a disk image.
LEMMA OthersKeep ==
    ASSUME NEW c \in DiskClients, NEW d \in Clients, c # d, Alone(d)
    PROVE  /\ file'[Gz(c)] = file[Gz(c)] /\ file'[Vdi(c)] = file[Vdi(c)]
           /\ pc'[c] = pc[c] /\ result'[c] = result[c]
  <1>1. c \in Clients /\ Gz(c) \in Paths /\ Vdi(c) \in Paths
    BY Names DEF Clients, FileClients
  <1>2. ASSUME NEW p \in {Gz(c), Vdi(c)} PROVE file'[p] = file[p]
    <2>1. d \in DiskClients => p # Gz(d) /\ p # Vdi(d)
      BY <1>2, Names
    <2>2. Open(d) => p # Target(d)
      BY <1>2, Names DEF Open
    <2> QED
      BY <1>1, <1>2, <2>1, <2>2 DEF Alone
  <1> QED
    BY <1>1, <1>2 DEF Alone

LEMMA OwnStep ==
    ASSUME IInv, NEW d \in DiskClients, Thread(d)
    PROVE  DiskState(d)'
  <1> USE DEF IInv
  <1>a. /\ d \in Clients /\ d \in FileClients
        /\ DiskState(d)
        /\ Gz(d) \in Paths /\ Vdi(d) \in Paths /\ Gz(d) # Vdi(d)
        /\ Target(d) = Gz(d)
        /\ Whole(Gz(d)) => Exists(Gz(d))
        /\ Whole(Vdi(d)) => Exists(Vdi(d))
        /\ d \notin IsoClients /\ d \notin TextClients
    BY Names, WholeIsThere, ImageAssumption DEF DiskInv, Clients, FileClients
  <1>b. Url[d] \in Urls /\ Gz(d)[2] = Url[d] /\ Vdi(d)[2] = Url[d]
    BY <1>a, Names DEF Urls
  <1>1. CASE DiskLook(d)
    BY <1>1, <1>a DEF DiskLook, Begin, Goto, Return, DiskState, Exists, Whole,
                      Cached, Extracting, TypeOK
  <1>2. CASE OpenFails(d)
    BY <1>2, <1>a DEF OpenFails, Return, DiskState, Exists, Whole, Cached,
                      Extracting, TypeOK
  <1>3. CASE Open(d)
    <2>1. << >> # Missing
      <3>1. << >> \in Contents
        BY DEF Contents
      <3> QED
        BY <3>1, ImageAssumption
    <2> QED
      BY <1>3, <1>a, <2>1 DEF Open, Goto, DiskState, Exists, Whole, Cached,
                              Extracting, TypeOK
  <1>4. CASE Arm(d)
    BY <1>4, <1>a DEF Arm, Goto, DiskState, Exists, Whole, Cached, Extracting,
                      TypeOK
  <1>5. CASE FileWake(d)
    BY <1>5, <1>a DEF FileWake, Goto, DiskState, Exists, Whole, Cached,
                      Extracting, TypeOK
  <1>6. CASE Verify(d)
    BY <1>6, <1>a DEF Verify, Goto, Return, DiskState, Exists, Whole, Cached,
                      Extracting, TypeOK
  <1>7. CASE InflateOpen(d)
    <2>1. << >> \in Contents /\ << >> # Missing /\ Len(<< >>) = 0
      <3>1. << >> \in Contents
        BY DEF Contents
      <3> QED
        BY <3>1, ImageAssumption
    <2>2. Prefix(<< >>, Url[d])
      BY <1>b, <2>1, Resources DEF Prefix
    <2> QED
      BY <1>7, <1>a, <2>1, <2>2
         DEF InflateOpen, Goto, Return, DiskState, Exists, Whole, Cached,
             Extracting, TypeOK
  <1>8. CASE InflateBlock(d)
    <2>1. /\ Whole(Gz(d)) /\ Exists(Vdi(d)) /\ Prefix(file[Vdi(d)], Url[d])
          /\ file[Vdi(d)] \in Contents
      BY <1>8, <1>a DEF InflateBlock, DiskState, Extracting, Exists, TypeOK
    <2>2. file[Gz(d)] = Data(Url[d]) /\ Len(Data(Url[d])) = Size[Url[d]]
      BY <1>b, <2>1, Resources DEF Whole
    <2>3. Len(file[Vdi(d)]) < Size[Url[d]]
      <3>1. Len(file[Vdi(d)]) \in Nat /\ Size[Url[d]] \in Nat
        BY <1>b, <2>1, Resources DEF Contents
      <3> QED
        BY <1>8, <2>2, <3>1 DEF InflateBlock
    <2> DEFINE r == Append(file[Vdi(d)], Data(Url[d])[Len(file[Vdi(d)]) + 1])
    <2>4. Prefix(r, Url[d])
      BY <1>b, <2>1, <2>3, LongerPrefix
    <2>5. file' = [file EXCEPT ![Vdi(d)] = r]
      BY <1>8, <2>2 DEF InflateBlock
    <2>6. file'[Vdi(d)] = r /\ file'[Gz(d)] = file[Gz(d)]
      BY <1>a, <2>5 DEF TypeOK
    <2>7. r # Missing
      <3>1. Data(Url[d])[Len(file[Vdi(d)]) + 1] \in Urls \X Nat
        <4>1. Len(file[Vdi(d)]) + 1 \in 1 .. Len(Data(Url[d]))
          BY <1>b, <2>1, <2>2, <2>3, Resources DEF Contents
        <4> QED
          BY <1>b, <4>1, Resources, ElementOfSeq DEF Contents
      <3>2. r \in Contents
        BY <2>1, <3>1, AppendProperties DEF Contents
      <3> QED
        BY <3>2, ImageAssumption
    <2> HIDE DEF r
    <2> QED
      BY <1>8, <1>a, <2>1, <2>4, <2>6, <2>7
         DEF InflateBlock, DiskState, Exists, Whole, Cached, Extracting
  <1>9. CASE InflateEnd(d)
    <2>1. /\ Whole(Gz(d)) /\ Exists(Vdi(d)) /\ Prefix(file[Vdi(d)], Url[d])
          /\ file[Vdi(d)] \in Contents
      BY <1>9, <1>a DEF InflateEnd, DiskState, Extracting, Exists, TypeOK
    <2>2. Len(file[Vdi(d)]) = Size[Url[d]]
      BY <1>9, <1>b, <2>1, Resources DEF InflateEnd, Whole
    <2>3. Whole(Vdi(d))
      BY <1>b, <2>1, <2>2, FullPrefix DEF Whole
    <2> QED
      BY <1>9, <1>a, <2>1, <2>3
         DEF InflateEnd, Goto, DiskState, Exists, Whole, Cached, Extracting,
             TypeOK
  <1>10. CASE DropArchive(d)
    BY <1>10, <1>a DEF DropArchive, Return, DiskState, Exists, Whole, Cached,
                       Extracting, TypeOK
  <1> QED
    BY <1>1, <1>2, <1>3, <1>4, <1>5, <1>6, <1>7, <1>8, <1>9, <1>10, <1>a
       DEF Thread, IsoLook, TextStart, TextWake

LEMMA DeliveredDisk ==
    ASSUME IInv, Delivered, NEW c \in DiskClients
    PROVE  DiskState(c)'
  <1>1. /\ DiskState(c) /\ c \in Clients
        /\ Gz(c) \in Paths /\ Vdi(c) \in Paths
        /\ \A d \in FileClients : Target(d) # Vdi(c)
        /\ \A d \in FileClients : Target(d) = Gz(c) => d = c
    BY Names DEF IInv, DiskInv, Clients, FileClients
  <1>2. file'[Vdi(c)] = file[Vdi(c)]
    <2>1. stream # Vdi(c)
      BY <1>1, StreamIsThere, ImageAssumption
    <2> QED
      BY <1>1, <2>1 DEF Delivered
  <1>3. CASE file'[Gz(c)] = file[Gz(c)]
    BY <1>1, <1>2, <1>3, DiskFrame DEF Delivered
  <1>4. CASE stream = Gz(c) /\ file'[Gz(c)] # Missing
    <2>1. Downloading(c)
      BY <1>1, <1>4, StreamIsThere, ImageAssumption
    <2>2. ~Exists(Vdi(c))
      BY <1>1, <2>1 DEF DiskState, Downloading
    <2> QED
      BY <1>1, <1>2, <1>4, <2>1, <2>2
         DEF Delivered, DiskState, Downloading, Exists, Extracting
  <1> QED
    BY <1>1, <1>3, <1>4 DEF Delivered

LEMMA CrashDisk ==
    ASSUME IInv, Crash, NEW c \in DiskClients
    PROVE  DiskState(c)'
  <1>1. /\ DiskState(c) /\ c \in Clients
        /\ Gz(c) \in Paths /\ Vdi(c) \in Paths /\ Gz(c) # Vdi(c)
        /\ \A d \in FileClients : Target(d) = Gz(c) => d = c
        /\ \A d \in DiskClients : Vdi(d) = Vdi(c) => d = c
        /\ \A d \in DiskClients : Vdi(d) # Gz(c)
        /\ Whole(Gz(c)) => Exists(Gz(c))
    BY Names, WholeIsThere DEF IInv, DiskInv, Clients, FileClients
  <1>2. PICK lost \in SUBSET Writing :
          file' = [p \in Paths |-> IF p \in lost
                                   THEN SubSeq(file[p], 1, Len(file[p]) - 1)
                                   ELSE file[p]]
    BY DEF Crash
  <1>3. \A p \in Paths : Exists(p)' <=> Exists(p)
    <2> SUFFICES ASSUME NEW p \in Paths PROVE Exists(p)' <=> Exists(p)
      OBVIOUS
    <2>1. CASE p \notin lost
      BY <1>2, <2>1 DEF Exists
    <2>2. CASE p \in lost
      <3>1. Exists(p) /\ file[p] \in Contents
        BY <2>2, WritingIsThere DEF IInv, TypeOK, Exists
      <3>2. file'[p] \in Contents
        BY <1>2, <2>2, <3>1, Shorter
      <3> QED
        BY <3>1, <3>2, ImageAssumption DEF Exists
    <2> QED
      BY <2>1, <2>2
  <1>4. pc'[c] = "idle" /\ result'[c] = "none"
    BY <1>1 DEF Crash
  <1>5. SUFFICES ASSUME Exists(Vdi(c))
                 PROVE  (Whole(Gz(c)) \/ (Whole(Vdi(c)) /\ ~Exists(Gz(c))))'
    BY <1>1, <1>3, <1>4 DEF DiskState, Extracting
  <1>6. ~Downloading(c)
    BY <1>1, <1>5 DEF DiskState, Downloading
  <1>7. Gz(c) \notin lost
    BY <1>1, <1>6, StreamIsThere, ImageAssumption DEF Writing
  <1>8. file'[Gz(c)] = file[Gz(c)]
    BY <1>1, <1>2, <1>7
  <1>9. CASE Whole(Gz(c))
    BY <1>8, <1>9 DEF Whole
  <1>10. CASE Whole(Vdi(c)) /\ ~Exists(Gz(c))
    <2>1. pc[c] # "inflating"
      BY <1>1, <1>10 DEF DiskState, Extracting
    <2>2. Vdi(c) \notin lost
      BY <1>1, <2>1, StreamIsThere, Names, ImageAssumption DEF Writing
    <2>3. file'[Vdi(c)] = file[Vdi(c)]
      BY <1>1, <1>2, <2>2
    <2> QED
      BY <1>1, <1>3, <1>10, <2>3 DEF Whole
  <1> QED
    BY <1>1, <1>5, <1>9, <1>10 DEF DiskState

-----------------------------------------------------------------------------
(* The theorems.                                                           *)

LEMMA Stutter == IInv /\ UNCHANGED vars => IInv'
  BY DEF IInv, vars, provider, TypeOK, StreamOwned, Kinds, Present, DiskInv,
         DiskState, Downloading, Exists, Whole, Prefix, Cached

LEMMA ThreadStep ==
    ASSUME IInv, NEW d \in Clients, Thread(d)
    PROVE  IInv'
  <1>1. TypeOK' /\ Shared' /\ Alone(d)
    BY ThreadTypes, ThreadShared, ThreadAlone
  <1>2. ASSUME NEW c \in DiskClients PROVE DiskState(c)'
    <2>1. CASE c = d
      BY <2>1, <1>2, OwnStep
    <2>2. CASE c # d
      BY <1>1, <1>2, <2>2, OthersKeep, DiskFrame DEF IInv, DiskInv
    <2> QED
      BY <2>1, <2>2
  <1> QED
    BY <1>1, <1>2 DEF IInv, DiskInv, Shared

LEMMA BrowserStep ==
    ASSUME IInv, NEW d \in Clients, NEW n \in 1 .. Calls[d], Browser(d, n)
    PROVE  IInv'
  <1>1. TypeOK' /\ Delivered
    BY BrowserTypes, BrowserDelivers
  <1>2. Shared'
    BY <1>1, DeliveredShared
  <1>3. \A c \in DiskClients : DiskState(c)'
    BY <1>1, DeliveredDisk
  <1> QED
    BY <1>1, <1>2, <1>3 DEF IInv, DiskInv, Shared

LEMMA CrashStep ==
    ASSUME IInv, Crash
    PROVE  IInv'
  BY CrashTypes, CrashShared, CrashDisk DEF IInv, DiskInv, Shared

(* The files of every disk image are in a state the next call can use:     *)
(* Init establishes the invariant and every step keeps it.                 *)
THEOREM Invariant == Spec => []IInv
  <1>1. Init => IInv
    <2> SUFFICES ASSUME Init PROVE IInv
      OBVIOUS
    <2>1. TypeOK
      BY InitTypes
    <2>2. /\ \A c \in Clients : pc[c] = "idle" /\ result[c] = "none"
          /\ \A p \in Paths : file[p] = Missing
          /\ stream = Closed
      BY DEF Init
    <2>3. StreamOwned /\ Kinds /\ Present
      BY <2>2 DEF StreamOwned, Kinds, Present, Downloading, Extracting
    <2>4. DiskInv
      BY <2>2, Names DEF DiskInv, DiskState, Exists, Extracting, Clients,
                         FileClients
    <2> QED
      BY <2>1, <2>3, <2>4 DEF IInv
  <1>2. IInv /\ [Next]_vars => IInv'
    BY Stutter, ThreadStep, BrowserStep, CrashStep DEF Next
  <1> QED
    BY <1>1, <1>2, PTL DEF Spec

(* The variables keep the types the code gives them. *)
THEOREM TypeCorrect == Spec => []TypeOK
  <1>1. IInv => TypeOK
    BY DEF IInv
  <1> QED
    BY <1>1, Invariant, PTL

(* The output stream that all threads share is never written, waited for   *)
(* or closed by a thread that did not open it.                             *)
THEOREM StreamHasOwner == Spec => []StreamOwned
  <1>1. IInv => StreamOwned
    BY DEF IInv
  <1> QED
    BY <1>1, Invariant, PTL

(* A disk image found in the cache, or handed out, is whole.               *)
THEOREM DiskImagesWhole == Spec => []DiskServedWhole
  <1>1. IInv => DiskServedWhole
    BY WholeIsThere DEF IInv, DiskInv, DiskState, DiskServedWhole, Cached,
                        Served
  <1> QED
    BY <1>1, Invariant, PTL

(* A disk image in the cache is left alone by every step of every thread,  *)
(* of the browser, and by its death.                                       *)
THEOREM CacheIsStable == Spec => CachedIsKept
  <1>1. ASSUME IInv, [Next]_vars, NEW c \in DiskClients, Cached(c)
        PROVE  file'[Vdi(c)] = file[Vdi(c)] /\ file'[Gz(c)] = file[Gz(c)]
    <2>1. /\ DiskState(c) /\ c \in Clients /\ Vdi(c) \in Paths
          /\ Gz(c) \in Paths
          /\ \A d \in FileClients : Target(d) # Vdi(c)
          /\ \A d \in FileClients : Target(d) = Gz(c) => d = c
          /\ \A d \in DiskClients : Vdi(d) = Vdi(c) => d = c
          /\ \A d \in DiskClients : Vdi(d) # Gz(c)
          /\ Whole(Gz(c)) => Exists(Gz(c))
      BY <1>1, Names, WholeIsThere DEF IInv, DiskInv, Clients, FileClients
    <2>2. /\ pc[c] \notin {"open", "recheck", "requested", "waiting", "verify"}
          /\ pc[c] \notin Extracting
      BY <1>1, <2>1 DEF DiskState, Cached
    <2>3. stream # Gz(c) /\ stream # Vdi(c)
      BY <1>1, <2>1, <2>2, StreamIsThere, ImageAssumption DEF Downloading
    <2>4. CASE UNCHANGED vars
      BY <2>4 DEF vars
    <2>5. CASE \E d \in Clients : Thread(d)
      <3>1. PICK d \in Clients : Thread(d)
        BY <2>5
      <3>2. CASE d = c
        BY <2>2, <3>1, <3>2
           DEF Thread, DiskLook, IsoLook, TextStart, OpenFails, Open, Arm,
               FileWake, TextWake, Verify, InflateOpen, InflateBlock,
               InflateEnd, DropArchive, Extracting
      <3>3. CASE d # c
        BY <1>1, <3>1, <3>3, ThreadAlone, OthersKeep
      <3> QED
        BY <3>2, <3>3
    <2>6. CASE \E d \in Clients : \E n \in 1 .. Calls[d] : Browser(d, n)
      BY <1>1, <2>1, <2>3, <2>6, BrowserDelivers DEF Delivered
    <2>7. CASE Crash
      <3>1. Gz(c) \notin Writing /\ Vdi(c) \notin Writing
        BY <2>1, <2>2, <2>3 DEF Writing, Extracting
      <3> QED
        BY <2>1, <2>7, <3>1 DEF Crash
    <2> QED
      BY <1>1, <2>4, <2>5, <2>6, <2>7 DEF Next
  <1>2. IInv /\ [Next]_vars =>
          [\A c \in DiskClients :
              Cached(c) => /\ file'[Vdi(c)] = file[Vdi(c)]
                           /\ file'[Gz(c)] = file[Gz(c)]]_vars
    BY <1>1
  <1> QED
    BY <1>2, Invariant, PTL DEF Spec, CachedIsKept
=============================================================================
