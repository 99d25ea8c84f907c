--------------------------- MODULE FrameReceiver ----------------------------
(***************************************************************************)
(* How RobotSerial takes packets from the serial port: packet_callback     *)
(* reads what is available into buffer_, decode_buffer looks for the zero  *)
(* bytes that end the packets and decodes what lies between them, and      *)
(* publish_data publishes the last message decoded.                        *)
(*                                                                         *)
(* packet_callback asks available() twice: whether to clear the buffer,    *)
(* and how much to read.  Bytes may arrive in between, and a read that     *)
(* begins a packet is then put over what earlier ones left in the buffer.  *)
(*                                                                         *)
(* The bytes of packet n are <<n, 1>>, .., <<n, Body>> and a zero (End).   *)
(* A segment is decoded well when it is exactly the body of a packet: the  *)
(* codec and the CRC are taken to detect anything else (Packet models      *)
(* them, byte by byte).                                                    *)
(***************************************************************************)
EXTENDS Naturals, Sequences, FiniteSets, FiniteSetsExt

CONSTANTS
    Packets,     \* how many packets the ECU sends (a bound for TLC)
    Body,        \* the bytes of a packet before its end
    MaxPacket,   \* MAX_PACKET_SIZE, the length of buffer_
    Burst,       \* the most bytes that wait at a poll (a bound for TLC)
    Heap,        \* what the heap may hold where buffer_ is made
    MaxDamage,   \* bytes the line loses or changes (a bound for TLC)
    MaxFailures  \* exceptions of the port (a bound for TLC)

ASSUME SizesAssumption ==
    /\ Packets \in Nat /\ Body \in Nat \ {0} /\ MaxPacket \in Nat /\ Burst \in Nat
    /\ MaxDamage \in Nat /\ MaxFailures \in Nat

End  == <<0, 0>>    \* 0x00
Fill == <<0, 1>>    \* 0xFF, what the buffer is cleared with
Junk == <<0, 2>>    \* a byte the line changed
Cells == ({End, Fill, Junk}) \cup ((1 .. Packets) \X (1 .. Body))

ASSUME HeapAssumption == Heap \subseteq [1 .. MaxPacket -> {End, Fill, Junk}]

VARIABLES
    next,        \* the ECU's place in its stream: packet and byte
    inbox,       \* bytes the port has available
    connected,   \* connected_
    at,          \* where packet_callback is
    buffer,      \* buffer_
    size,        \* packet_size_
    pos,         \* current_buffer_pos_
    good,        \* good_packets_
    decoded,     \* history: the packets it counted
    bad,         \* bad_packets_ is not zero
    published,   \* the last message published, 0 before the first
    damage,      \* bytes lost or changed so far
    failures,    \* exceptions so far
    kept,        \* history: a read that began the buffer and saw no end
    clean        \* history: the buffer was cleared for what it gathers

line   == <<next, inbox, damage>>
memory == <<buffer, size, pos>>
output == <<good, decoded, bad, published>>
ghosts == <<kept, clean>>
vars   == <<line, connected, at, memory, output, failures, ghosts>>

\* Out of the callback, between its two calls of available(), and past the end
\* of buffer_, where what the program does is undefined and the model ends.
Places == {"idle", "read", "overrun"}

TypeOK ==
    /\ next \in (1 .. (Packets + 1)) \X (1 .. (Body + 1))
    /\ inbox \in Seq(Cells)
    /\ connected \in BOOLEAN
    /\ at \in Places
    /\ buffer \in [1 .. MaxPacket -> Cells]
    /\ size \in Nat
    /\ pos \in 0 .. size
    /\ good \in Nat
    /\ decoded \subseteq 1 .. Packets
    /\ bad \in BOOLEAN
    /\ published \in 0 .. Packets
    /\ damage \in 0 .. MaxDamage
    /\ failures \in 0 .. MaxFailures
    /\ kept \in Seq(Cells)
    /\ clean \in BOOLEAN

Blank == [n \in 1 .. MaxPacket |-> Fill]

\* The constructor gives a value to current_buffer_pos_ only: buffer_ and
\* packet_size_ are what the heap held.
Init ==
    /\ next = <<1, 1>>
    /\ inbox = <<>>
    /\ connected = TRUE
    /\ at = "idle"
    /\ buffer \in Heap /\ size \in 0 .. (MaxPacket + 1) /\ pos = 0
    /\ good = 0 /\ decoded = {} /\ bad = FALSE /\ published = 0
    /\ damage = 0 /\ failures = 0
    /\ kept = <<>> /\ clean = FALSE

-----------------------------------------------------------------------------
\* The ECU and the line (external).

NextCell == IF next[2] <= Body THEN next ELSE End

Advance ==
    /\ next[1] <= Packets
    /\ next' = IF next[2] <= Body THEN <<next[1], next[2] + 1>>
                                  ELSE <<next[1] + 1, 1>>

Arrives ==
    /\ Advance
    /\ connected /\ Len(inbox) < Burst
    /\ inbox' = Append(inbox, NextCell)
    /\ UNCHANGED <<connected, at, memory, output, damage, failures, ghosts>>

\* Nobody reads the port.
Missed ==
    /\ Advance
    /\ ~connected
    /\ UNCHANGED <<inbox, connected, at, memory, output, damage, failures, ghosts>>

\* Any byte may be lost or changed, an end too: packets then run together.
Lost ==
    /\ Advance
    /\ connected /\ damage < MaxDamage
    /\ damage' = damage + 1
    /\ UNCHANGED <<inbox, connected, at, memory, output, failures, ghosts>>

Changed(b) ==
    /\ Advance
    /\ connected /\ damage < MaxDamage /\ Len(inbox) < Burst
    /\ damage' = damage + 1
    /\ inbox' = Append(inbox, b)
    /\ UNCHANGED <<connected, at, memory, output, failures, ghosts>>

-----------------------------------------------------------------------------
\* packet_callback: what it reads, at its second available().

Least(a, b) == IF a <= b THEN a ELSE b

Requested == Least(Len(inbox), MaxPacket - pos)

Chunk == SubSeq(inbox, 1, Requested)

\* The buffer with the chunk in its place.
Filled ==
    [n \in 1 .. MaxPacket |->
        IF n \in (pos + 1) .. (pos + Requested) THEN inbox[n - pos] ELSE buffer[n]]

SizeRead == IF pos = 0 THEN Requested ELSE size + Requested

-----------------------------------------------------------------------------
\* decode_buffer, on a buffer of which the first n bytes are in use.

EndsIn(buf, n) == {k \in 1 .. n : buf[k] = End}

\* The places between an end and the one before it.
Begin(ends, e) == 1 + Max({0} \cup {k \in ends : k < e})

Segment(buf, ends, e) == SubSeq(buf, Begin(ends, e), e - 1)

PacketBody(p) == [k \in 1 .. Body |-> <<p, k>>]

\* The ends of good segments.
GoodEnds(buf, ends) ==
    {e \in ends : \E p \in 1 .. Packets : Segment(buf, ends, e) = PacketBody(p)}

PacketAt(buf, ends, e) ==
    CHOOSE p \in 1 .. Packets : Segment(buf, ends, e) = PacketBody(p)

\* An empty segment ("Null Packet") is neither good nor bad.
Bad(buf, ends) ==
    \E e \in ends \ GoodEnds(buf, ends) : Segment(buf, ends, e) # <<>>

\* What is decoded is cleared; the ends, and what follows the last, stay.
NotWiped(buf, ends) == buf
Wiped(buf, ends) ==
    [n \in 1 .. MaxPacket |->
        IF buf[n] # End /\ \E e \in ends : n < e THEN Fill ELSE buf[n]]

ForgetsPlace(ends, p) == 0
PlaceAfter(ends, p) == IF ends # {} THEN 0 ELSE p

\* With a packet_size_ beyond buffer_ it reads and clears what lies behind.
Overruns(buf, n, p) ==
    /\ n > MaxPacket
    /\ at' = "overrun"
    /\ buffer' = buf /\ size' = n /\ pos' = p
    /\ UNCHANGED output

Decodes(buf, n, p) ==
    LET ends == EndsIn(buf, n)
        oks  == GoodEnds(buf, ends)
    IN
    /\ n <= MaxPacket
    /\ at' = "idle"
    /\ buffer' = Wiped(buf, ends)
    /\ size' = n
    /\ pos' = PlaceAfter(ends, p)
    /\ good' = good + Cardinality(oks)
    /\ decoded' = decoded \cup {PacketAt(buf, ends, e) : e \in oks}
    /\ bad' = (bad \/ Bad(buf, ends))
    /\ published' = IF oks = {} THEN published ELSE PacketAt(buf, ends, Max(oks))

DecodeAndPublish(buf, n, p) == Decodes(buf, n, p) \/ Overruns(buf, n, p)

-----------------------------------------------------------------------------
\* packet_callback.

\* available_data > 0 && current_buffer_pos_ == 0, at the first available().
Starts == inbox # <<>> /\ pos = 0

Looks ==
    /\ at = "idle"
    /\ connected
    /\ at' = "read"
    /\ IF Starts THEN buffer' = Blank /\ size' = 0 ELSE UNCHANGED <<buffer, size>>
    /\ clean' = IF pos = 0 THEN Starts ELSE clean
    /\ UNCHANGED <<line, connected, pos, output, failures, kept>>

\* The second available(), the read and what follows it.  The port has what it
\* said it has, so the read takes all of it or throws before.
Reads ==
    /\ at = "read"
    /\ inbox' = SubSeq(inbox, Requested + 1, Len(inbox))
    /\ DecodeAndPublish(Filled, SizeRead, Requested)
    /\ kept' = IF pos = 0 /\ \A k \in 1 .. Requested : Chunk[k] # End
               THEN Chunk ELSE <<>>
    /\ UNCHANGED <<next, connected, damage, failures, clean>>

\* An exception leaves the lambda, closes the port and what it held, and the
\* callback goes on to decode_buffer.
Throws ==
    /\ failures < MaxFailures
    /\ failures' = failures + 1
    /\ connected' = FALSE
    /\ inbox' = <<>>
    /\ DecodeAndPublish(buffer, size, pos)
    /\ kept' = <<>>
    /\ UNCHANGED <<next, damage, clean>>

AvailableThrows == at = "idle" /\ connected /\ Throws

ReadThrows == at = "read" /\ Throws

\* The write of command_callback fails: the port is closed without a decode.
WriteThrows ==
    /\ at = "idle"
    /\ connected
    /\ failures < MaxFailures
    /\ failures' = failures + 1
    /\ connected' = FALSE
    /\ inbox' = <<>>
    /\ kept' = <<>>
    /\ UNCHANGED <<next, damage, at, memory, output, clean>>

\* connect(): nothing of the buffer is reset.
Reconnect ==
    /\ at = "idle"
    /\ ~connected
    /\ connected' = TRUE
    /\ UNCHANGED <<line, at, memory, output, failures, ghosts>>

Next ==
    \/ Arrives \/ Missed \/ Lost
    \/ \E b \in {Junk, End} : Changed(b)
    \/ Looks \/ Reads
    \/ AvailableThrows \/ ReadThrows \/ WriteThrows
    \/ Reconnect

Spec == Init /\ [][Next]_vars

-----------------------------------------------------------------------------
\* Properties.

(***************************************************************************)
(* The receiver is a PacketStream: a packet is decoded when all of its     *)
(* bytes were sent, and counted once, though the port fails, the buffer is *)
(* scanned again, and reads are put over one another.  In a buffer that    *)
(* was cleared for what it gathers, packets are decoded in the order they  *)
(* were sent, and what is published is the latest of them.                 *)
(***************************************************************************)
Stream == INSTANCE PacketStream
              WITH sent <- IF next[2] = Body + 1 THEN next[1] ELSE next[1] - 1,
                   taken <- decoded, count <- good, last <- published, orderly <- clean

InOrderOnce == Stream!Spec

\* The packets that lie whole in a sequence of bytes.
Holds(bytes, aligned) ==
    {p \in 1 .. Packets :
        \E k \in 0 .. Len(bytes) :
            /\ k + Body + 1 <= Len(bytes)
            /\ SubSeq(bytes, k + 1, k + Body + 1) = Append(PacketBody(p), End)
            /\ IF k = 0 THEN aligned ELSE bytes[k] = End}

\* A packet read whole, or begun by one read and ended by the next, is decoded.
ReadIsDecoded ==
    [][Reads /\ SizeRead <= MaxPacket => Holds(kept \o Chunk, kept # <<>> \/ pos = 0) \subseteq decoded']_vars
=============================================================================
