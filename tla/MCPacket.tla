------------------------------ MODULE MCPacket ------------------------------
\* Packet for TLC, with crcFast as it is: full blocks of 3 bytes instead of
\* 254, messages of every single byte, of up to 4 bytes over a zero and two
\* others and some of up to 8, more than the header counts with; noise of up to
\* 3 bytes, and some of 11.
EXTENDS Packet, CrcTable, SequencesExt

SomePayloads == [1 .. 1 -> Byte] \cup SeqOf({0, 1, 3}, 4)
                    \cup UNION {[1 .. n -> {0, 9}] : n \in 5 .. 8}
SomeNoise    == SeqOf(0 .. MaxCode, 3) \cup [1 .. 11 -> {1, 4}]
SomeDamaged  == {0, 1, 2, 3, 129}
=============================================================================
