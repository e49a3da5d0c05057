----------------------------- MODULE ImageCache -----------------------------
(***************************************************************************)
(* The disk and boot images that Hypervisor keeps under cache/, and the    *)
(* CVMBrowserProvider all threads of the plugin fetch them through: one    *)
(* output stream, one target, one "completed" flag, one return code.       *)
(*                                                                         *)
(* A client is a thread inside diskImageDownload, cernVMDownload or        *)
(* downloadText; the data and the end of a request arrive on the thread of *)
(* the browser.  A file is the sequence of blocks written to it, so that a *)
(* truncated file and one that mixes two downloads both differ from the    *)
(* resource; a checksum matches exactly the whole resource.                *)
(***************************************************************************)
EXTENDS Integers, Sequences

CONSTANTS
    DiskClients,  (* threads in diskImageDownload                           *)
    IsoClients,   (* threads in cernVMDownload                              *)
    TextClients,  (* threads in downloadText                                *)
    Url,          (* what each client fetches                               *)
    Size,         (* how many blocks the resource at each url has           *)
    Calls,        (* how many calls each client makes                       *)
    Faults,       (* what may go wrong                                      *)
    Missing,      (* the content of a path without a file                   *)
    Closed        (* what the output stream is on when it is not open       *)

FileClients == DiskClients \cup IsoClients
Clients == FileClients \cup TextClients
Urls == {Url[c] : c \in Clients}

Gz(c) == <<"gz", Url[c]>>
Vdi(c) == <<"vdi", Url[c]>>
Iso(c) == <<"iso", Url[c]>>
Target(c) == IF c \in DiskClients THEN Gz(c) ELSE Iso(c)
Paths == {Gz(c) : c \in DiskClients} \cup {Vdi(c) : c \in DiskClients}
            \cup {Iso(c) : c \in IsoClients}

Contents == Seq(Urls \X Nat)
Data(u) == [k \in 1 .. Size[u] |-> <<u, k>>]

FaultKinds == {"network", "open", "early", "crash"}

(***************************************************************************)
(* Two sessions that share a disk URL would share its two files: they are  *)
(* outside this module.  Sessions may share a version of the boot image.   *)
(***************************************************************************)
ASSUME ImageAssumption ==
    /\ DiskClients \cap IsoClients = {}
    /\ FileClients \cap TextClients = {}
    /\ \A c \in DiskClients, d \in Clients : Url[c] = Url[d] => c = d
    /\ Size \in [Urls -> Nat \ {0}]
    /\ Calls \in [Clients -> Nat]
    /\ Faults \subseteq FaultKinds
    /\ Missing \notin Contents
    /\ Closed \notin Paths

VARIABLES
    file,         (* the content of each path                               *)
    stream,       (* the path fStream is open on, or Closed                 *)
    good,         (* fStream has no error bit                               *)
    target,       (* targetStream: the file or the string stream            *)
    completed,    (* m_downloadCompleted                                    *)
    returnCode,   (* the status of the last request to end                  *)
    requests,     (* the blocks a call's request has delivered, or -1 when  *)
                  (* no request is under way                                *)
    calls,        (* the calls a client has begun                           *)
    pc,           (* where a client stands in its call                      *)
    result,       (* what its last call returned, "none" during a call      *)
    missed        (* a request ended before its client waited for it        *)

provider == <<stream, good, target, completed, returnCode, requests, missed>>
vars == <<file, provider, calls, pc, result>>

Places == {"idle", "recheck", "open", "requested", "waiting", "verify",
           "inflate", "inflating", "inflated"}
Results == {"none", "ok", "exists", "io_error", "not_validated"}

Init ==
    /\ file = [p \in Paths |-> Missing]
    /\ stream = Closed
    /\ good = TRUE
    /\ target = "string"
    /\ completed = FALSE
    /\ returnCode = "ok"
    /\ requests = [c \in Clients |-> [n \in 1 .. Calls[c] |-> -1]]
    /\ calls = [c \in Clients |-> 0]
    /\ pc = [c \in Clients |-> "idle"]
    /\ result = [c \in Clients |-> "none"]
    /\ missed = FALSE

-----------------------------------------------------------------------------

Exists(p) == file[p] # Missing
Whole(p) == file[p] = Data(p[2])

Goto(c, place) ==
    /\ pc' = [pc EXCEPT ![c] = place]
    /\ result' = [result EXCEPT ![c] = "none"]

Return(c, r) ==
    /\ pc' = [pc EXCEPT ![c] = "idle"]
    /\ result' = [result EXCEPT ![c] = r]

Begin(c) ==
    /\ pc[c] = "idle"
    /\ calls[c] < Calls[c]
    /\ calls' = [calls EXCEPT ![c] = @ + 1]

(* AsyncRequest: the browser starts to deliver the data of the url. *)
Request(c, n) == requests' = [requests EXCEPT ![c][n] = 0]

\* Mutated form of DiskLook: the .vdi is not looked at.
DiskLookBlind(c) ==
    /\ c \in DiskClients
    /\ Begin(c)
    /\ Goto(c, IF Exists(Gz(c)) THEN "recheck" ELSE "open")
    /\ UNCHANGED <<file, provider>>

(***************************************************************************)
(* diskImageDownload, its tests of the two files: a disk image counts as   *)
(* complete only when the archive it came from has been removed.           *)
(***************************************************************************)
DiskLook(c) ==
    /\ c \in DiskClients
    /\ Begin(c)
    /\ \/ /\ Exists(Vdi(c))
          /\ ~Exists(Gz(c))
          /\ Return(c, "exists")
       \/ /\ Exists(Gz(c))
          /\ Goto(c, "recheck")
       \/ /\ ~Exists(Vdi(c))
          /\ ~Exists(Gz(c))
          /\ Goto(c, "open")
    /\ UNCHANGED <<file, provider>>

(* cernVMDownload: a file that is there is returned as it is. *)
IsoLook(c) ==
    /\ c \in IsoClients
    /\ Begin(c)
    /\ IF Exists(Iso(c)) THEN Return(c, "ok") ELSE Goto(c, "open")
    /\ UNCHANGED <<file, provider>>

(* downloadText, up to the request. *)
TextStart(c) ==
    /\ c \in TextClients
    /\ Begin(c)
    /\ target' = "string"
    /\ Request(c, calls'[c])
    /\ Goto(c, "requested")
    /\ UNCHANGED <<file, stream, good, completed, returnCode, missed>>

\* Mutated form of OpenFails: nobody looks whether the stream is open.
OpenFailsUnseen(c) ==
    /\ c \in FileClients
    /\ pc[c] = "open"
    /\ stream # Closed \/ "open" \in Faults
    /\ good' = FALSE
    /\ target' = "file"
    /\ Request(c, calls[c])
    /\ Goto(c, "requested")
    /\ UNCHANGED <<file, stream, completed, returnCode, calls, missed>>

(***************************************************************************)
(* downloadFile, up to the request.  Opening a stream that is open fails   *)
(* and leaves its error bit set: what the browser delivers for the file    *)
(* that is open is then thrown away.                                       *)
(***************************************************************************)
OpenFails(c) ==
    /\ c \in FileClients
    /\ pc[c] = "open"
    /\ stream # Closed \/ "open" \in Faults
    /\ good' = FALSE
    /\ Return(c, "io_error")
    /\ UNCHANGED <<file, stream, target, completed, returnCode, requests,
                   calls, missed>>

Open(c) ==
    /\ c \in FileClients
    /\ pc[c] = "open"
    /\ stream = Closed
    /\ stream' = Target(c)
    /\ good' = TRUE
    /\ file' = [file EXCEPT ![Target(c)] = << >>]
    /\ target' = "file"
    /\ Request(c, calls[c])
    /\ Goto(c, "requested")
    /\ UNCHANGED <<completed, returnCode, calls, missed>>

(* The flag is cleared only now, with the request under way. *)
Arm(c) ==
    /\ pc[c] = "requested"
    /\ completed' = FALSE
    /\ Goto(c, "waiting")
    /\ UNCHANGED <<file, stream, good, target, returnCode, requests, calls,
                   missed>>

(* downloadFile, after the wait: the status is not looked at. *)
FileWake(c) ==
    /\ c \in FileClients
    /\ pc[c] = "waiting"
    /\ completed
    /\ stream' = Closed
    /\ IF c \in DiskClients THEN Goto(c, "verify") ELSE Return(c, "ok")
    /\ UNCHANGED <<file, good, target, completed, returnCode, requests, calls,
                   missed>>

(* downloadText, after the wait. *)
TextWake(c) ==
    /\ c \in TextClients
    /\ pc[c] = "waiting"
    /\ completed
    /\ Return(c, IF returnCode = "ok" THEN "ok" ELSE "io_error")
    /\ UNCHANGED <<file, provider, calls>>

(***************************************************************************)
(* __diskExtract: an archive that fails its checksum is removed, and       *)
(* fetched again if this call has not just fetched it.                     *)
(***************************************************************************)
Verify(c) ==
    /\ pc[c] \in {"recheck", "verify"}
    /\ \/ /\ Whole(Gz(c))
          /\ Goto(c, "inflate")
          /\ UNCHANGED file
       \/ /\ ~Whole(Gz(c))
          /\ file' = [file EXCEPT ![Gz(c)] = Missing]
          /\ IF pc[c] = "recheck" THEN Goto(c, "open")
                                  ELSE Return(c, "not_validated")
    /\ UNCHANGED <<provider, calls>>

\* Mutated form of InflateOpen: the archive is removed before it is extracted.
InflateOpenDrops(c) ==
    /\ pc[c] = "inflate"
    /\ file' = [file EXCEPT ![Vdi(c)] = << >>, ![Gz(c)] = Missing]
    /\ Goto(c, "inflating")
    /\ UNCHANGED <<provider, calls>>

(* decompressFile: the output is truncated, then written block by block. *)
InflateOpen(c) ==
    /\ pc[c] = "inflate"
    /\ \/ /\ file' = [file EXCEPT ![Vdi(c)] = << >>]
          /\ Goto(c, "inflating")
       \/ /\ "open" \in Faults
          /\ Return(c, "io_error")
          /\ UNCHANGED file
    /\ UNCHANGED <<provider, calls>>

InflateBlock(c) ==
    /\ pc[c] = "inflating"
    /\ LET n == Len(file[Vdi(c)]) + 1 IN
       /\ n <= Len(file[Gz(c)])
       /\ file' = [file EXCEPT ![Vdi(c)] = Append(@, file[Gz(c)][n])]
    /\ UNCHANGED <<provider, calls, pc, result>>

InflateEnd(c) ==
    /\ pc[c] = "inflating"
    /\ Len(file[Vdi(c)]) = Len(file[Gz(c)])
    /\ Goto(c, "inflated")
    /\ UNCHANGED <<file, provider, calls>>

(* The archive goes last. *)
DropArchive(c) ==
    /\ pc[c] = "inflated"
    /\ file' = [file EXCEPT ![Gz(c)] = Missing]
    /\ Return(c, "ok")
    /\ UNCHANGED <<provider, calls>>

-----------------------------------------------------------------------------
(* The thread of the browser.                                              *)

\* Mutated form of HttpData: a block more than the resource has.
HttpDataTooLong(c, n) ==
    LET k == requests[c][n] + 1 IN
    /\ k \in 1 .. Size[Url[c]] + 1
    /\ requests' = [requests EXCEPT ![c][n] = k]
    /\ UNCHANGED <<file, good, stream, target, completed, returnCode, calls,
                   pc, result, missed>>

(* httpDataArrived: the block goes where the provider points now. *)
HttpData(c, n) ==
    LET k == requests[c][n] + 1 IN
    /\ k \in 1 .. Size[Url[c]]
    /\ requests' = [requests EXCEPT ![c][n] = k]
    /\ file' = IF target = "file" /\ stream # Closed /\ good
               THEN [file EXCEPT ![stream] = Append(@, <<Url[c], k>>)]
               ELSE file
    /\ good' = (good /\ (target = "file" => stream # Closed))
    /\ UNCHANGED <<stream, target, completed, returnCode, calls, pc, result,
                   missed>>

\* Mutated form of HttpCompleted: a request that fails wakes nobody.
HttpCompletedSilent(c, n) ==
    /\ requests[c][n] # -1
    /\ \/ requests[c][n] = Size[Url[c]] /\ returnCode' = "ok" /\ completed' = TRUE
       \/ /\ "network" \in Faults
          /\ returnCode' = "error"
          /\ UNCHANGED completed
    /\ requests' = [requests EXCEPT ![c][n] = -1]
    /\ UNCHANGED <<file, stream, good, target, calls, pc, result, missed>>

(***************************************************************************)
(* httpCompleted: the request ends, all its data delivered or the network  *)
(* failed.  One flag stands for every request.                             *)
(***************************************************************************)
HttpCompleted(c, n) ==
    LET unheard == pc[c] = "requested" /\ n = calls[c] IN
    /\ requests[c][n] # -1
    /\ unheard => "early" \in Faults
    /\ \/ /\ requests[c][n] = Size[Url[c]]
          /\ returnCode' = "ok"
       \/ /\ "network" \in Faults
          /\ returnCode' = "error"
    /\ completed' = TRUE
    /\ requests' = [requests EXCEPT ![c][n] = -1]
    /\ missed' = (missed \/ unheard)
    /\ UNCHANGED <<file, stream, good, target, calls, pc, result>>

(***************************************************************************)
(* The process that hosts the plugin dies.  A file that was being written  *)
(* may lose the block that was still in the buffer of its stream.          *)
(***************************************************************************)
Writing == ({stream} \ {Closed})
              \cup {Vdi(c) : c \in {d \in DiskClients : pc[d] = "inflating"}}

Crash ==
    /\ "crash" \in Faults
    /\ \E c \in Clients : pc[c] # "idle"
    /\ \E lost \in SUBSET Writing :
          file' = [p \in Paths |-> IF p \in lost
                                   THEN SubSeq(file[p], 1, Len(file[p]) - 1)
                                   ELSE file[p]]
    /\ stream' = Closed
    /\ good' = TRUE
    /\ target' = "string"
    /\ completed' = FALSE
    /\ returnCode' = "ok"
    /\ requests' = [c \in Clients |-> [n \in 1 .. Calls[c] |-> -1]]
    /\ pc' = [c \in Clients |-> "idle"]
    /\ result' = [c \in Clients |-> "none"]
    /\ missed' = FALSE
    /\ UNCHANGED calls

-----------------------------------------------------------------------------

Thread(c) ==
    \/ DiskLook(c)     \/ IsoLook(c)      \/ TextStart(c)
    \/ OpenFails(c)    \/ Open(c)         \/ Arm(c)
    \/ FileWake(c)     \/ TextWake(c)     \/ Verify(c)
    \/ InflateOpen(c)  \/ InflateBlock(c) \/ InflateEnd(c)
    \/ DropArchive(c)

Browser(c, n) == HttpData(c, n) \/ HttpCompleted(c, n)

Next ==
    \/ \E c \in Clients : Thread(c)
    \/ \E c \in Clients : \E n \in 1 .. Calls[c] : Browser(c, n)
    \/ Crash

Spec == Init /\ [][Next]_vars

(***************************************************************************)
(* Threads run, and the browser answers each request; nothing else is      *)
(* promised.                                                               *)
(***************************************************************************)
Fairness ==
    /\ \A c \in Clients : WF_vars(pc[c] # "idle" /\ Thread(c))
    /\ \A c \in Clients : \A n \in 1 .. Calls[c] : WF_vars(Browser(c, n))

FairSpec == Spec /\ Fairness

-----------------------------------------------------------------------------

(* The variables hold values of the types the code gives them. *)
TypeOK ==
    /\ file \in [Paths -> Contents \cup {Missing}]
    /\ stream \in Paths \cup {Closed}
    /\ good \in BOOLEAN
    /\ target \in {"file", "string"}
    /\ completed \in BOOLEAN
    /\ returnCode \in {"ok", "error"}
    /\ DOMAIN requests = Clients
    /\ \A c \in Clients : requests[c] \in [1 .. Calls[c] -> -1 .. Size[Url[c]]]
    /\ calls \in [Clients -> Nat]
    /\ \A c \in Clients : calls[c] <= Calls[c]
    /\ pc \in [Clients -> Places]
    /\ result \in [Clients -> Results]
    /\ missed \in BOOLEAN

(***************************************************************************)
(* The one output stream of the provider is open exactly while one thread  *)
(* is between opening it and closing it, and on that thread's file: no     *)
(* thread closes, or waits for data on, the stream of another, however     *)
(* their downloads overlap.                                                *)
(***************************************************************************)
Downloading(c) == c \in FileClients /\ pc[c] \in {"requested", "waiting"}

StreamOwned ==
    /\ \A c \in Clients : Downloading(c) => stream = Target(c)
    /\ stream # Closed => \E c \in Clients : Downloading(c)
    /\ \A c, d \in Clients : Downloading(c) /\ Downloading(d) => c = d

(***************************************************************************)
(* A disk image that a session was handed, or that the next call will take *)
(* for a complete one (a .vdi without its .vdi.gz), is the whole image:    *)
(* wherever the process died, whatever the network did and whoever else    *)
(* was downloading.                                                        *)
(***************************************************************************)
Cached(c) == Exists(Vdi(c)) /\ ~Exists(Gz(c))
Served(c) == pc[c] = "idle" /\ result[c] \in {"ok", "exists"}

DiskServedWhole == \A c \in DiskClients : Cached(c) \/ Served(c) => Whole(Vdi(c))

(***************************************************************************)
(* A disk image that is in the cache, and may be attached to a VM, is      *)
(* never written or removed again, and its archive is not fetched again.   *)
(***************************************************************************)
CachedIsKept ==
    [][\A c \in DiskClients :
          Cached(c) => /\ file'[Vdi(c)] = file[Vdi(c)]
                       /\ file'[Gz(c)] = file[Gz(c)]]_vars

(***************************************************************************)
(* Every call returns, unless a request was answered before its thread had *)
(* cleared the completed flag: the threads that share the flag, and wake   *)
(* each other for the wrong request, do not lose each other's answers.     *)
(***************************************************************************)
EveryCallReturns ==
    \A c \in Clients : pc[c] # "idle" ~> (pc[c] = "idle" \/ missed)

(***************************************************************************)
(* cernVMDownload "Download the specified CernVM version": the boot image  *)
(* it reports as downloaded is all there.                                  *)
(***************************************************************************)
BootServedWhole ==
    \A c \in IsoClients :
        pc[c] = "idle" /\ result[c] = "ok" => Whole(Iso(c))
=============================================================================
