------------------------------ MODULE ThinIPC ------------------------------
(***************************************************************************)
(* The messages between plugin and daemon (ThinIPC.cpp): fields written    *)
(* into a buffer, cut into datagrams of at most Capacity bytes, the first  *)
(* of which begins with the size, put together again and read field by     *)
(* field.  A byte is who wrote it, in which field, and where; the first    *)
(* byte of a string is its length.                                         *)
(***************************************************************************)
EXTENDS Integers, Sequences, SequencesExt

CONSTANTS
    Senders,      \* processes that send to one port
    Capacity,     \* of a datagram, 1024 in the code
    Bodies,       \* what may be written: sequences of fields
    MaxSends,     \* bound: messages sent
    Nothing       \* no message

Fields == [kind : {"int", "short", "string"}, len : Nat]

\* What a process is sending: the fields written, the size they gave the buffer,
\* and how many of its bytes are on the wire.
Messages == [body : Seq(Fields), size : Nat, pos : Nat]

\* What a receiver is to get: the fields that were written, and by whom.
Entries == [body : Seq(Fields), by : Senders]

ASSUME IPCAssumption ==
    /\ Capacity \in Nat /\ Capacity > 2
    /\ MaxSends \in Nat
    /\ \A b \in Bodies : b \in Seq(Fields)
    /\ Nothing \notin Messages \cup Entries

VARIABLES
    sends,        \* messages written so far
    sending,      \* each sender: its message, and how much of it is on the wire
    wire,         \* datagrams at the receiver's socket
    message,      \* the receiver's message: its size, its bytes so far
    expected,     \* history: messages whose first datagram was sent, in order, and by whom
    received,     \* history: the last message received and the one expected then
    spoilt        \* history: what has happened that the framing does not stand

ipcVars == <<sends, sending, wire, message, expected, received, spoilt>>

Spoils == {"edge", "mixed", "lost", "realloc"}

Empty == [size |-> 0, bytes |-> <<>>]
Junk == <<"junk", 0>>

IPCTypeOK ==
    /\ sends \in 0 .. MaxSends
    /\ \A s \in Senders : sending[s] = Nothing \/ sending[s].pos < sending[s].size
    /\ \A i \in DOMAIN wire : Len(wire[i]) \in 1 .. Capacity
    /\ Len(message.bytes) <= message.size
    /\ spoilt \subseteq Spoils

IPCInit ==
    /\ sends = 0
    /\ sending = [s \in Senders |-> Nothing]
    /\ wire = <<>>
    /\ message = Empty
    /\ expected = <<>>
    /\ received = Nothing
    /\ spoilt = {}

-----------------------------------------------------------------------------
(* Fields.                                                                 *)

Width(f) == IF f.kind = "string" THEN 2 + f.len ELSE IF f.kind = "int" THEN 4 ELSE 2

\* The bytes of field k of a body, as writeInt(), writeShort() and writeString()
\* put them.
FieldBytes(s, body, k) ==
    [i \in 1 .. Width(body[k]) |->
        IF body[k].kind = "string" /\ i = 1 THEN <<"len", body[k].len>> ELSE <<s, k, i>>]

\* The buffer after each write, and after the last.
Written(s, body) ==
    LET buffer[k \in 0 .. Len(body)] ==
            IF k = 0 THEN <<>> ELSE buffer[k - 1] \o FieldBytes(s, body, k)
    IN  buffer

BodyBytes(s, body) == Written(s, body)[Len(body)]

\* The size of a message, and every position in it, is a short.
ASSUME ShortAssumption == \A s \in Senders, b \in Bodies : Len(BodyBytes(s, b)) < 2 ^ 15

\* One read: nothing past the end.  A string moves past its length even when it
\* is not there.  readInt() sets four bytes of a long; these are what counts here.
ReadField(r, f) ==
    LET there == r.pos + Width(f) <= Len(r.bytes)
        length == IF r.pos + 2 <= Len(r.bytes) /\ r.bytes[r.pos + 1][1] = "len"
                  THEN r.bytes[r.pos + 1][2] ELSE Len(r.bytes)
    IN IF f.kind # "string"
       THEN IF there THEN [r EXCEPT !.pos = @ + Width(f),
                                    !.values = Append(@, SubSeq(r.bytes, r.pos + 1, r.pos + Width(f)))]
            ELSE [r EXCEPT !.values = Append(@, 0)]
       ELSE IF r.pos + 2 + length <= Len(r.bytes)
            THEN [r EXCEPT !.pos = @ + 2 + length,
                           !.values = Append(@, SubSeq(r.bytes, r.pos + 1, r.pos + 2 + length))]
            ELSE [r EXCEPT !.pos = IF @ + 2 > Len(r.bytes) THEN @ ELSE @ + 2,
                           !.values = Append(@, 0)]

\* A receiver that knows the fields, after each read.
Reading(bytes, body) ==
    LET reader[k \in 0 .. Len(body)] ==
            IF k = 0 THEN [bytes |-> bytes, pos |-> 0, values |-> <<>>]
            ELSE ReadField(reader[k - 1], body[k])
    IN  reader

ReadBody(bytes, body) == Reading(bytes, body)[Len(body)].values

-----------------------------------------------------------------------------
(* Sending.                                                                *)

\* The last write may fail for want of memory: writeInt() then takes back its
\* four bytes, and every other write takes back four of its own.  A message of no
\* size, or of a negative one, is not sent.
Compose(s) ==
    /\ sending[s] = Nothing
    /\ sends < MaxSends
    /\ \E body \in Bodies \ {<<>>}, fails \in BOOLEAN :
          LET kept == IF fails THEN Front(body) ELSE body
              length == Len(BodyBytes(s, kept))
              size == IF fails THEN length + Width(Last(body)) - 4 ELSE length
          IN /\ sending' = [sending EXCEPT ![s] = IF size <= 0 THEN Nothing
                                ELSE [body |-> kept, size |-> size, pos |-> 0]]
             /\ spoilt' = spoilt
                          \cup (IF size # length THEN {"realloc"} ELSE {})
                          \cup (IF size \in {Capacity - 1, Capacity} THEN {"edge"} ELSE {})
    /\ sends' = sends + 1
    /\ UNCHANGED <<wire, message, expected, received>>

\* Memory from a position on, past the end of a buffer too.
Copy(bytes, from, n) ==
    [i \in 1 .. n |-> IF from + i <= Len(bytes) THEN bytes[from + i] ELSE Junk]

\* getChunk(): the next datagram.
ChunkSize(m) ==
    LET room == IF m.pos = 0 THEN Capacity - 2 ELSE Capacity
    IN IF m.size - m.pos > room THEN room ELSE m.size - m.pos

GetChunk(s, m) ==
    (IF m.pos = 0 THEN << <<"size", m.size>>, Junk >> ELSE <<>>)
    \o Copy(BodyBytes(s, m.body), m.pos, ChunkSize(m))

\* Messages of others that are on the wire in part.
Underway(s) == {u \in Senders \ {s} : sending[u] # Nothing /\ sending[u].pos > 0}

\* One turn of send(): a datagram goes out, or is dropped at a full socket.
SendChunk(s) ==
    /\ sending[s] # Nothing
    /\ LET m == sending[s]
           pos == m.pos + ChunkSize(m)
       IN /\ sending' = [sending EXCEPT ![s] = IF pos = m.size THEN Nothing ELSE [m EXCEPT !.pos = pos]]
          /\ expected' = IF m.pos = 0 THEN Append(expected, [body |-> m.body, by |-> s]) ELSE expected
          /\ \/ /\ wire' = Append(wire, GetChunk(s, m))
                /\ spoilt' = spoilt \cup (IF Underway(s) # {} THEN {"mixed"} ELSE {})
             \/ /\ wire' = wire
                /\ spoilt' = spoilt \cup {"lost"}
    /\ UNCHANGED <<sends, message, received>>

\* sendto() fails: the rest of the message is given up.
SendFails(s) ==
    /\ sending[s] # Nothing
    /\ sending' = [sending EXCEPT ![s] = Nothing]
    /\ spoilt' = IF sending[s].pos > 0 THEN spoilt \cup {"lost"} ELSE spoilt
    /\ UNCHANGED <<sends, wire, message, expected, received>>

-----------------------------------------------------------------------------
(* Receiving.                                                              *)

\* The size that the first two bytes of a datagram stand for: any, when they were
\* not meant to be one.
SizeIn(chunk) == IF chunk[1][1] = "size" THEN {chunk[1][2]} ELSE {0, 1, Capacity + 1}

\* Mutated form of PutChunk: the first datagram is taken for full of data.
PutChunkWide(m, chunk) ==
    IF m.bytes = <<>>
    THEN {[size |-> n, bytes |-> Copy(chunk, 2, IF n <= Capacity - 2 THEN n ELSE Capacity)] : n \in SizeIn(chunk)}
    ELSE {[m EXCEPT !.bytes = @ \o Copy(chunk, 0, IF m.size - Len(@) <= Capacity THEN m.size - Len(@) ELSE Capacity)]}

\* putChunk(): the whole buffer counts as data, however long the datagram was.
\* A message that fits into the Capacity is taken to have come with its first
\* datagram, although the size has taken two bytes of it.
PutChunk(m, chunk) ==
    IF m.bytes = <<>>
    THEN {[size |-> n, bytes |-> Copy(chunk, 2, IF n <= Capacity THEN n ELSE Capacity - 2)] : n \in SizeIn(chunk)}
    ELSE {[m EXCEPT !.bytes = @ \o Copy(chunk, 0, IF m.size - Len(@) <= Capacity THEN m.size - Len(@) ELSE Capacity)]}

\* One turn of recv(), which ends with a complete message and starts the next
\* one empty.
ReceiveChunk ==
    /\ wire # <<>>
    /\ wire' = Tail(wire)
    /\ \E m \in PutChunk(message, Head(wire)) :
          IF m.size > 0 /\ Len(m.bytes) >= m.size
          THEN /\ message' = Empty
               /\ received' = [bytes |-> m.bytes, as |-> IF expected = <<>> THEN Nothing ELSE Head(expected)]
               /\ expected' = IF expected = <<>> THEN <<>> ELSE Tail(expected)
          ELSE /\ message' = m
               /\ UNCHANGED <<received, expected>>
    /\ UNCHANGED <<sends, sending, spoilt>>

IPCNext == ReceiveChunk \/ \E s \in Senders : Compose(s) \/ SendChunk(s) \/ SendFails(s)

IPCSpec == IPCInit /\ [][IPCNext]_ipcVars

-----------------------------------------------------------------------------

\* Whatever its size, a message is read as it was written, and messages keep
\* their order, unless one had Capacity - 1 or Capacity bytes, the datagrams of
\* two were mixed, one was dropped, or a write ran out of memory.
ReceivedIsSent ==
    spoilt = {} /\ received # Nothing =>
        LET sent == received.as
        IN  /\ sent # Nothing
            /\ ReadBody(received.bytes, sent.body)
                  = [k \in DOMAIN sent.body |-> FieldBytes(sent.by, sent.body, k)]
=============================================================================
