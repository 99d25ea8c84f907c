-------------------------------- MODULE Cobs --------------------------------
(***************************************************************************)
(* cobs_encode and cobs_decode (src/src/cobs.c): the byte stuffing that    *)
(* keeps zero bytes out of a packet, so that a zero ends it on the wire.   *)
(* A block is a code byte and the code - 1 bytes after it; it stands for   *)
(* those bytes and a zero, unless its code is MaxCode (0xFF in the code).  *)
(*                                                                         *)
(* A message is encoded a byte at a time into a buffer of DstLen, a packet *)
(* decoded a block at a time into another; Packet says what is encoded and *)
(* what is decoded.  Memory is a function from the indices written so far, *)
(* so that a write outside the buffer would be seen.                       *)
(***************************************************************************)
EXTENDS Naturals, Sequences

CONSTANTS
    MaxByte,    \* 0xFF
    MaxCode,    \* 0xFF too; smaller in TLC's instance, for short full blocks
    DstLen      \* dst_buf_len: MAX_PACKET_SIZE in the driver

Byte == 0 .. MaxByte

ASSUME CodeAssumption == MaxCode \in Nat /\ MaxCode > 1
ASSUME ByteAssumption == MaxByte \in Nat /\ MaxCode <= MaxByte
ASSUME BufferAssumption == DstLen \in Nat

VARIABLES
    phase,     \* "encode", "encoded", "decode" or "decoded"
    src,       \* the bytes at src_ptr
    read,      \* src_read_ptr, as the number of bytes read
    dst,       \* what was written at dst_buf_ptr
    write,     \* dst_write_ptr, as an index
    code,      \* dst_code_write_ptr, as an index
    search,    \* search_len
    status     \* the flags of result.status

blocks    == <<code, search>>
codecVars == <<phase, src, read, dst, write, blocks, status>>

Empty == [i \in {} |-> 0]

Flags == {"OUT_BUFFER_OVERFLOW", "ZERO_BYTE_IN_INPUT", "INPUT_TOO_SHORT"}

CodecTypeOK ==
    /\ phase \in {"encode", "encoded", "decode", "decoded"}
    /\ src \in Seq(Byte)
    /\ read \in 0 .. Len(src)
    /\ dst \in [DOMAIN dst -> Byte]
    /\ write \in Nat /\ code \in Nat
    /\ search \in 1 .. MaxCode
    /\ status \subseteq Flags

\* Memory with byte b at index i.
Put(mem, i, b) == [x \in DOMAIN mem \cup {i} |-> IF x = i THEN b ELSE mem[x]]

\* The bytes written, as a sequence.
Written == [i \in 1 .. write |-> dst[i - 1]]

\* search_len of a block with nothing in it but its code.
NothingSearched == 0
CodeAlone == 1

Fresh == read = 0 /\ dst = Empty /\ code = 0 /\ search = CodeAlone /\ status = {}

\* A call of either function.
StartsEncoding(m) == phase = "encode" /\ src = m /\ write = 1 /\ Fresh
StartsDecoding(p) == phase = "decode" /\ src = p /\ write = 0 /\ Fresh

-----------------------------------------------------------------------------
\* cobs_encode: an iteration of its loop.

NextByte == src[read + 1]

Room == write < DstLen

NoRoom ==
    /\ phase = "encode"
    /\ read < Len(src)
    /\ ~Room
    /\ "OUT_BUFFER_OVERFLOW" \notin status
    /\ status' = status \cup {"OUT_BUFFER_OVERFLOW"}
    /\ UNCHANGED <<phase, src, read, dst, write, blocks>>

\* A zero ends the block: its code is written where the block began.
EncodeZero ==
    /\ phase = "encode"
    /\ read < Len(src) /\ Room
    /\ NextByte = 0
    /\ read' = read + 1
    /\ dst' = Put(dst, code, search)
    /\ code' = write
    /\ write' = write + 1
    /\ search' = CodeAlone
    /\ UNCHANGED <<phase, src, status>>

\* Any other byte is copied; a block that is full ends, unless the input does.
EndsFullBlock(n, last) == n = MaxCode
EndsBlock(n, last) == n = MaxCode /\ ~last

EncodeOther ==
    /\ phase = "encode"
    /\ read < Len(src) /\ Room
    /\ NextByte # 0
    /\ read' = read + 1
    /\ LET copied == Put(dst, write, NextByte) IN
       IF EndsBlock(search + 1, read' = Len(src))
       THEN /\ dst' = Put(copied, code, search + 1)
            /\ code' = write + 1
            /\ write' = write + 2
            /\ search' = CodeAlone
       ELSE /\ dst' = copied
            /\ write' = write + 1
            /\ search' = search + 1
            /\ UNCHANGED code
    /\ UNCHANGED <<phase, src, status>>

\* After the loop: the last code byte, if it has a place.
CodeFitsUnchecked == TRUE
CodeFits == code < DstLen

FinishEncode ==
    /\ phase = "encode"
    /\ read = Len(src) \/ "OUT_BUFFER_OVERFLOW" \in status
    /\ IF CodeFits
       THEN dst' = Put(dst, code, search) /\ UNCHANGED <<write, status>>
       ELSE /\ status' = status \cup {"OUT_BUFFER_OVERFLOW"}
            /\ write' = DstLen
            /\ UNCHANGED dst
    /\ phase' = "encoded"
    /\ UNCHANGED <<src, read, blocks>>

\* The receiver decodes a packet, into a buffer of its own.
Decodes(packet) ==
    /\ phase' = "decode"
    /\ src' = packet
    /\ read' = 0 /\ write' = 0 /\ dst' = Empty /\ status' = {}
    /\ UNCHANGED blocks

-----------------------------------------------------------------------------
\* cobs_decode: an iteration of its loop, the bytes of a block at once.

NothingToDecode ==
    /\ phase = "decode"
    /\ src = <<>>
    /\ phase' = "decoded"
    /\ UNCHANGED <<src, read, dst, write, blocks, status>>

ZeroCode ==
    /\ phase = "decode"
    /\ read < Len(src)
    /\ NextByte = 0
    /\ read' = read + 1
    /\ status' = status \cup {"ZERO_BYTE_IN_INPUT"}
    /\ phase' = "decoded"
    /\ UNCHANGED <<src, dst, write, blocks>>

Least(a, b) == IF a <= b THEN a ELSE b

\* The block's bytes: as many as its code says, the input has and the output
\* has room for.
Claimed == NextByte - 1
InInput == Least(Claimed, Len(src) - (read + 1))
CopiesUnchecked == InInput
Copies == Least(InInput, DstLen - write)

BlockFlags ==
    {f \in Flags :
        \/ f = "INPUT_TOO_SHORT" /\ InInput < Claimed
        \/ f = "OUT_BUFFER_OVERFLOW" /\ Copies < InInput
        \/ f = "ZERO_BYTE_IN_INPUT" /\ \E k \in 1 .. Copies : src[read + 1 + k] = 0}

Block(k) ==
    [x \in DOMAIN dst \cup write .. (write + k - 1) |->
        IF x < write THEN dst[x] ELSE src[read + 2 + (x - write)]]

\* The last block stands for no zero, nor does a full one.
AlwaysStandsForZero(k) == TRUE
StandsForZero(k) == k # MaxCode - 1

DecodeBlock ==
    /\ phase = "decode"
    /\ read < Len(src)
    /\ NextByte # 0
    /\ read' = read + 1 + Copies
    /\ LET last  == read' = Len(src)
           zero  == ~last /\ StandsForZero(Copies)
           room  == write + Copies < DstLen
       IN
       /\ status' = status \cup BlockFlags \cup
                       IF zero /\ ~room THEN {"OUT_BUFFER_OVERFLOW"} ELSE {}
       /\ dst' = IF zero /\ room THEN Put(Block(Copies), write + Copies, 0)
                                 ELSE Block(Copies)
       /\ write' = write + Copies + IF zero /\ room THEN 1 ELSE 0
       /\ phase' = IF last \/ (zero /\ ~room) THEN "decoded" ELSE phase
    /\ UNCHANGED <<src, blocks>>

-----------------------------------------------------------------------------
Encode == NoRoom \/ EncodeZero \/ EncodeOther \/ FinishEncode

Decode == NothingToDecode \/ ZeroCode \/ DecodeBlock

-----------------------------------------------------------------------------
\* Properties.

\* Neither function writes outside the buffer it is given, whatever its input,
\* and the length it reports is the length it wrote.
InBuffer ==
    /\ DOMAIN dst \subseteq 0 .. (DstLen - 1)
    /\ phase \in {"encoded", "decode", "decoded"} =>
          write <= DstLen /\ DOMAIN dst = 0 .. (write - 1)

\* What is encoded has no zero byte, so that the zero after it is the only one.
NoZeroInside ==
    phase = "encoded" => \A i \in DOMAIN dst : dst[i] # 0
=============================================================================
