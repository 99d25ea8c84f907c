------------------------------- MODULE Packet -------------------------------
(***************************************************************************)
(* A packet from end to end: command_callback appends a checksum to the    *)
(* serialised message, encodes both and appends the zero that ends the     *)
(* packet; the line may damage a byte; decode_buffer cuts what it read at  *)
(* the zeros, decodes each piece and accepts it if its checksum is right.  *)
(* (The ECU does with feedback what the driver does with commands, and the *)
(* other way round.)  A behaviour is one packet, or one piece of noise.    *)
(*                                                                         *)
(* encoded_packet_, output_buffer_ and decoded_packet_ have DstLen bytes   *)
(* each.  The header says what that length is for: the encoding of the     *)
(* largest message, its checksum and the zero (MaxPayload here).           *)
(***************************************************************************)
EXTENDS Cobs, Crc

CONSTANTS
    MaxPayload,   \* FEEDBACK_PB_H_MAX_SIZE
    Payloads,     \* the serialised messages (a bound for TLC)
    Noise,        \* what is decoded without having been encoded (likewise)
    Damaged,      \* what a damaged byte becomes (likewise)
    NoPayload     \* the payload of a behaviour that only decodes

\* SerializeToArray refuses what does not fit encoded_packet_.
ASSUME PayloadAssumption ==
    /\ Payloads \subseteq Seq(Byte) /\ Noise \subseteq Seq(Byte) /\ Damaged \subseteq Byte
    /\ \A p \in Payloads : Len(p) <= DstLen
ASSUME NoPayloadAssumption == NoPayload \notin Payloads

\* uint8_t, for the codec and the checksum.
ASSUME WidthAssumption == MaxByte = 255

\* COBS_ENCODE_DST_BUF_LEN_MAX: one code for every MaxCode - 1 bytes.
EncodedMax(n) == IF n = 0 THEN 1 ELSE n + ((n + MaxCode - 2) \div (MaxCode - 1))

ASSUME SizeAssumption ==
    MaxPayload \in Nat /\ DstLen = EncodedMax(MaxPayload + 1) + 1

VARIABLES
    payload,  \* the serialised message, or NoPayload
    line,     \* the packet on the line, empty before it is sent
    intact,   \* no byte of it was damaged
    verdict   \* what became of it; "none" so far

packetVars == <<payload, line, intact, verdict>>
vars == <<codecVars, packetVars>>

Verdicts == {"none", "dropped", "waiting", "bad", "null", "accepted"}

TypeOK ==
    /\ CodecTypeOK
    /\ payload \in Payloads \cup {NoPayload}
    /\ line \in Seq(Byte)
    /\ intact \in BOOLEAN
    /\ verdict \in Verdicts

Init ==
    /\ \/ /\ payload \in Payloads
          /\ StartsEncoding(Append(payload, crcFast(payload)))
       \/ /\ payload = NoPayload
          /\ \E p \in Noise : StartsDecoding(p)
    /\ line = <<>>
    /\ intact = TRUE
    /\ verdict = "none"

\* cobs_encode's status is tested after the zero is appended: what was cut
\* short is not sent.
Send ==
    /\ phase = "encoded" /\ line = <<>> /\ verdict = "none"
    /\ status = {}
    /\ line' = Append(Written, 0)
    /\ UNCHANGED <<codecVars, payload, intact, verdict>>

Drop ==
    /\ phase = "encoded" /\ line = <<>> /\ verdict = "none"
    /\ status # {}
    /\ verdict' = "dropped"
    /\ UNCHANGED <<codecVars, payload, line, intact>>

\* The line changes a byte.
Damage ==
    /\ phase = "encoded" /\ line # <<>> /\ intact /\ verdict = "none"
    /\ \E i \in 1 .. Len(line), b \in Damaged :
          b # line[i] /\ line' = [line EXCEPT ![i] = b]
    /\ intact' = FALSE
    /\ UNCHANGED <<codecVars, payload, verdict>>

\* decode_buffer: a piece ends before each zero and begins after the last.
Ends == {i \in 1 .. Len(line) : line[i] = 0}

Starts(s) == s - 1 \in Ends \cup {0}

Receive ==
    /\ phase = "encoded" /\ line # <<>> /\ verdict = "none"
    /\ \E e \in Ends, s \in 1 .. Len(line) :
          /\ s <= e /\ Starts(s)
          /\ \A i \in s .. (e - 1) : line[i] # 0
          /\ Decodes(SubSeq(line, s, e - 1))
    /\ UNCHANGED packetVars

Wait ==
    /\ phase = "encoded" /\ line # <<>> /\ verdict = "none"
    /\ Ends = {}
    /\ verdict' = "waiting"
    /\ UNCHANGED <<codecVars, payload, line, intact>>

\* What decode_buffer makes of a decoded piece.
CRC_OK == 0

JudgeLength(m) == IF status # {} THEN "bad" ELSE IF m = <<>> THEN "null" ELSE "accepted"

Judge(m) ==
    IF status # {} THEN "bad"
    ELSE IF m = <<>> THEN "null"
    ELSE IF crcFast(m) # CRC_OK THEN "bad" ELSE "accepted"

Check ==
    /\ phase = "decoded" /\ verdict = "none"
    /\ verdict' = Judge(Written)
    /\ UNCHANGED <<codecVars, payload, line, intact>>

Next ==
    \/ (Encode \/ Decode) /\ UNCHANGED packetVars
    \/ Send \/ Drop \/ Damage \/ Receive \/ Wait \/ Check

Spec == Init /\ [][Next]_vars

-----------------------------------------------------------------------------
\* Properties.

\* A message of the size the buffers are made for is encoded whole and leaves
\* room for the zero, which command_callback appends without a test.
FrameFits ==
    phase = "encoded" /\ payload # NoPayload /\ Len(payload) <= MaxPayload =>
        status = {} /\ write + 1 <= DstLen

\* A packet that the line left alone is accepted, and is the message sent.
RoundTrip ==
    payload # NoPayload /\ intact /\ verdict \notin {"none", "dropped"} =>
        /\ verdict = "accepted"
        /\ Written = Append(payload, crcFast(payload))

\* The checksum behind a message is the remainder of its division by the
\* polynomial ("Tabela calculada com o polinomio 0x07", the header), though
\* crcFast takes whole bytes and a table.
CrcIsRemainder ==
    phase = "encoded" /\ payload # NoPayload => crcFast(payload) = Remainder(payload)

\* One wrong byte among those decoded, wherever it is, is never accepted.
DamageIsRejected ==
    payload # NoPayload /\ verdict = "accepted" /\ write = Len(payload) + 1 =>
        LET sent == Append(payload, crcFast(payload))
            wrong == {i \in 1 .. write : Written[i] # sent[i]}
        IN  \A i \in wrong : wrong # {i}
=============================================================================
