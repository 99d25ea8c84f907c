-------------------------------- MODULE Crc --------------------------------
(***************************************************************************)
(* The checksum at the end of every packet: crcFast, which takes a byte of *)
(* the message at a time, and the division that it stands for, which takes *)
(* a bit: of the message, as a polynomial over the bits, times x^WIDTH by  *)
(* x^WIDTH + POLYNOMIAL.  The table is a parameter, for which CrcTable has *)
(* the code's.                                                             *)
(***************************************************************************)
EXTENDS Naturals, Sequences

CONSTANT Table    \* crcTable, indexed from 1

WIDTH      == 8   \* 8 * sizeof(CRC_t)
TOPBIT     == 128
POLYNOMIAL == 7

Octets == 0 .. 255    \* the values of CRC_t

-----------------------------------------------------------------------------
\* Bits.

Weights == <<TOPBIT, 64, 32, 16, 8, 4, 2, 1>>

Bit(byte, weight) == (byte \div weight) % 2

\* The code's ^ of two bytes.
ByteXor(a, b) ==
    LET differing(weight) == IF Bit(a, weight) = Bit(b, weight) THEN 0 ELSE weight
    IN  differing(128) + differing(64) + differing(32) + differing(16)
            + differing(8) + differing(4) + differing(2) + differing(1)

\* What a loop over the inputs has reached after each of them, from 0.
Loop(step, inputs) ==
    LET reached[n \in 0 .. Len(inputs)] ==
            IF n = 0 THEN 0 ELSE step[reached[n - 1]][inputs[n]]
    IN  reached

-----------------------------------------------------------------------------
\* The division.  A bit is brought down at a time, and the divisor subtracted
\* whenever it goes into what there is.

BringDown(r, bit) ==
    LET brought == 2 * (r % TOPBIT) + bit
    IN  IF r >= TOPBIT THEN ByteXor(brought, POLYNOMIAL) ELSE brought

\* The message's bits, and WIDTH zeros behind them.
Bits(message) ==
    [k \in 1 .. WIDTH * (Len(message) + 1) |->
        LET i == 1 + ((k - 1) \div WIDTH)
        IN  IF i <= Len(message)
            THEN Bit(message[i], Weights[1 + ((k - 1) % WIDTH)])
            ELSE 0]

remaindersByBit(message) ==
    Loop([r \in Octets |-> [bit \in {0, 1} |-> BringDown(r, bit)]], Bits(message))

Remainder(message) == remaindersByBit(message)[WIDTH * (Len(message) + 1)]

-----------------------------------------------------------------------------
\* What the table holds for a byte is its remainder: WIDTH zeros brought down.
Twice(r) == BringDown(BringDown(r, 0), 0)
ASSUME TableAssumption ==
    \A r \in Octets : Table[r + 1] = Twice(Twice(Twice(Twice(r))))

\* The remainder after one more byte.
NextLosesRemainder(remainder, byte) == Table[byte + 1]
NextRemainder(remainder, byte) == Table[ByteXor(byte, remainder) + 1]

remainders(message) ==
    Loop([r \in Octets |-> [byte \in Octets |-> NextRemainder(r, byte)]], message)

crcFast(message) == remainders(message)[Len(message)]
=============================================================================
