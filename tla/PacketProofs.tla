---------------------------- MODULE PacketProofs ----------------------------
(***************************************************************************)
(* Theorems about Packet and its codec, for every block size, buffer,      *)
(* message, damage and noise.                                              *)
(*                                                                         *)
(* The checksum: the division brings a bit down at a time, and is linear;  *)
(* so eight bits of it are an entry of the table and the byte, and crcFast *)
(* divides.  Its step loses nothing, so the remainders of two messages     *)
(* that differ in one byte never meet again behind it.                     *)
(*                                                                         *)
(* The buffers: while a message is encoded every place before the write    *)
(* pointer is filled but the one kept for the block's code, which may be   *)
(* the one just past the buffer: cobs_encode's last test is there for that *)
(* case.                                                                   *)
(*                                                                         *)
(* The message: the blocks that cobs_encode has ended form a chain in its  *)
(* buffer, each telling the place of the next in the buffer and in the     *)
(* message, and cobs_decode walks the same chain.  So what it has written  *)
(* is always the message's beginning.                                      *)
(***************************************************************************)
EXTENDS Packet, WellFoundedInduction, TLAPS

-----------------------------------------------------------------------------
(***************************************************************************)
(* The checksum.  A loop is a function of how many inputs were taken; what *)
(* holds of it holds by induction over them, for which the well-founded    *)
(* order of the naturals is used.                                          *)
(***************************************************************************)

\* What holds at 0 and is handed on as far as L holds up to L.
LEMMA UpTo ==
    ASSUME NEW L \in Nat, NEW T, 0 \in T, \A n \in 0 .. (L - 1) : n \in T => n + 1 \in T
    PROVE  \A n \in 0 .. L : n \in T
<1> DEFINE Less   == {ss \in Nat \X Nat : ss[1] < ss[2]}
           Others == {n \in 0 .. L : n \notin T}
<1>1. IsWellFoundedOn(Less, Nat)
  BY NatLessThanWellFounded DEF OpToRel
<1>2. \A n, m \in Nat : m < n => <<m, n>> \in Less
  OBVIOUS
<1> SUFFICES ASSUME Others # {} PROVE FALSE
  OBVIOUS
<1>3. Others \subseteq Nat
  OBVIOUS
<1> HIDE DEF Less
<1>4. PICK n \in Others : \A m \in Others : <<m, n>> \notin Less
  <2> HIDE DEF Others
  <2> QED
    BY <1>1, <1>3, WFMin, Zenon
<1>5. n \in 0 .. L /\ n \notin T /\ n # 0
  OBVIOUS
<1>6. n - 1 \in Nat /\ n \in Nat /\ n - 1 < n /\ n - 1 \in 0 .. (L - 1) /\ n - 1 \in 0 .. L
  BY <1>5
<1>7. n - 1 \notin Others
  BY <1>2, <1>4, <1>6
<1>8. (n - 1) + 1 \in T
  BY <1>6, <1>7
<1> QED
  BY <1>5, <1>6, <1>8

\* What a loop has reached up to its n-th input.
Reaches(r, step, inputs, n) ==
    /\ r \in [0 .. n -> Octets]
    /\ r[0] = 0
    /\ \A k \in 1 .. n : r[k] = step[r[k - 1]][inputs[k]]

LEMMA ZeroIsOctet == 0 \in Octets
BY DEF Octets

LEMMA LoopRuns ==
    ASSUME NEW D, NEW step \in [Octets -> [D -> Octets]], NEW inputs \in Seq(D)
    PROVE  \E r : Reaches(r, step, inputs, Len(inputs))
<1> DEFINE L == Len(inputs)
           T == {n \in 0 .. L : \E r : Reaches(r, step, inputs, n)}
<1>1. L \in Nat /\ 0 \in Octets /\ \A k \in 1 .. L : inputs[k] \in D
  BY ZeroIsOctet
<1>2. 0 \in T
  <2>1. Reaches([n \in 0 .. 0 |-> 0], step, inputs, 0)
    BY <1>1 DEF Reaches
  <2> QED
    BY <1>1, <2>1
<1> HIDE DEF L
<1>3. ASSUME NEW n \in 0 .. (L - 1), n \in T PROVE n + 1 \in T
  <2>1. PICK r : Reaches(r, step, inputs, n)
    BY <1>3
  <2>2. n \in Nat /\ n + 1 \in 1 .. L /\ n + 1 \in 0 .. L /\ n \in 0 .. n
    BY <1>1
  <2> DEFINE next == step[r[n]][inputs[n + 1]]
             s    == [k \in 0 .. (n + 1) |-> IF k = n + 1 THEN next ELSE r[k]]
  <2>3. next \in Octets
    BY <1>1, <2>1, <2>2 DEF Reaches
  <2> HIDE DEF next
  <2>4. s \in [0 .. (n + 1) -> Octets]
    <3>1. \A k \in 0 .. (n + 1) : k # n + 1 => k \in 0 .. n
      BY <2>2
    <3> QED
      BY <2>1, <2>3, <3>1 DEF Reaches
  <2>5. s[0] = 0
    BY <2>1, <2>2 DEF Reaches
  <2>6. ASSUME NEW k \in 1 .. (n + 1) PROVE s[k] = step[s[k - 1]][inputs[k]]
    <3>1. k - 1 \in 0 .. (n + 1) /\ k \in 0 .. (n + 1) /\ k - 1 # n + 1
      BY <2>2
    <3>2. s[k - 1] = r[k - 1]
      BY <3>1
    <3>3. CASE k = n + 1
      <4>1. k - 1 = n
        BY <2>2, <3>3
      <4> QED
        BY <3>1, <3>2, <3>3, <4>1 DEF next
    <3>4. CASE k # n + 1
      <4>1. k \in 1 .. n
        BY <2>2, <3>4
      <4> QED
        BY <2>1, <3>1, <3>2, <3>4, <4>1 DEF Reaches
    <3> QED
      BY <3>3, <3>4
  <2> HIDE DEF s
  <2>7. Reaches(s, step, inputs, n + 1)
    BY <2>4, <2>5, <2>6 DEF Reaches
  <2> QED
    BY <2>2, <2>7
<1>4. \A n \in 0 .. L : n \in T
  <2> HIDE DEF T
  <2> QED
    BY <1>1, <1>2, <1>3, UpTo
<1>5. L \in 0 .. L
  BY <1>1
<1>6. L \in T
  <2> HIDE DEF T
  <2> QED
    BY <1>4, <1>5
<1>7. \E r : Reaches(r, step, inputs, L)
  BY <1>6, Zenon
<1> QED
  BY <1>7 DEF L

\* The recursive definition has a value.
LEMMA LoopReaches ==
    ASSUME NEW D, NEW step \in [Octets -> [D -> Octets]], NEW inputs \in Seq(D)
    PROVE  Reaches(Loop(step, inputs), step, inputs, Len(inputs))
<1> DEFINE L == Len(inputs)
           Def(r) == [n \in 0 .. L |->
                         IF n = 0 THEN 0 ELSE step[r[n - 1]][inputs[n]]]
<1>1. PICK r : Reaches(r, step, inputs, L)
  BY LoopRuns
<1>2. L \in Nat
  OBVIOUS
<1>3. r = Def(r)
  <2>1. \A n \in 0 .. L : n # 0 => n \in 1 .. L
    BY <1>2
  <2> QED
    BY <1>1, <2>1 DEF Reaches
<1>4. Loop(step, inputs) = CHOOSE g : g = Def(g)
  BY DEF Loop
<1> HIDE DEF Def
<1>5. Loop(step, inputs) = Def(Loop(step, inputs))
  BY <1>3, <1>4
<1> DEFINE g == Loop(step, inputs)
<1>6. g = [n \in 0 .. L |-> IF n = 0 THEN 0 ELSE step[g[n - 1]][inputs[n]]]
  BY <1>5 DEF Def
<1> HIDE DEF g
<1>7. g[0] = 0
  BY <1>2, <1>6
<1>8. \A n \in 1 .. L : g[n] = step[g[n - 1]][inputs[n]]
  <2>1. \A n \in 1 .. L : n \in 0 .. L /\ n # 0
    BY <1>2
  <2> QED
    BY <1>6, <2>1
<1>9. \A n \in 0 .. L : g[n] \in Octets
  <2> DEFINE T == {n \in 0 .. L : g[n] \in Octets}
  <2>1. 0 \in T
    BY <1>2, <1>7, ZeroIsOctet
  <2>2. ASSUME NEW n \in 0 .. (L - 1), n \in T PROVE n + 1 \in T
    <3>1. n + 1 \in 1 .. L /\ n + 1 \in 0 .. L /\ (n + 1) - 1 = n
      BY <1>2
    <3>2. inputs[n + 1] \in D
      BY <3>1
    <3>3. g[n + 1] = step[g[n]][inputs[n + 1]]
      BY <1>8, <3>1
    <3> QED
      BY <2>2, <3>1, <3>2, <3>3
  <2>3. \A n \in 0 .. L : n \in T
    <3> HIDE DEF T
    <3> QED
      BY <1>2, <2>1, <2>2, UpTo
  <2> QED
    BY <2>3
<1>10. g \in [0 .. L -> Octets]
  BY <1>6, <1>9
<1> QED
  BY <1>7, <1>8, <1>10 DEF Reaches, g


-----------------------------------------------------------------------------
\* The bits of a byte.

Places == {128, 64, 32, 16, 8, 4, 2, 1}

LEMMA EightBits ==
    ASSUME NEW a \in Octets
    PROVE  /\ a = 128 * Bit(a, 128) + 64 * Bit(a, 64) + 32 * Bit(a, 32) + 16 * Bit(a, 16)
                    + 8 * Bit(a, 8) + 4 * Bit(a, 4) + 2 * Bit(a, 2) + Bit(a, 1)
           /\ \A w \in Places : Bit(a, w) \in {0, 1}
<1>1. \A w \in Places : w \in Nat \ {0}
  BY DEF Places
<1>2. \A w \in Places : Bit(a, w) \in {0, 1}
  BY <1>1 DEF Bit, Octets, Places
<1> QED
  BY <1>2 DEF Bit, Octets

LEMMA SumOfBits ==
    ASSUME NEW h \in {0, 1}, NEW g \in {0, 1}, NEW f \in {0, 1}, NEW e \in {0, 1},
           NEW d \in {0, 1}, NEW c \in {0, 1}, NEW b \in {0, 1}, NEW a \in {0, 1},
           NEW s, s = 128 * h + 64 * g + 32 * f + 16 * e + 8 * d + 4 * c + 2 * b + a
    PROVE  /\ s \in Octets
           /\ Bit(s, 128) = h /\ Bit(s, 64) = g /\ Bit(s, 32) = f /\ Bit(s, 16) = e
           /\ Bit(s, 8) = d /\ Bit(s, 4) = c /\ Bit(s, 2) = b /\ Bit(s, 1) = a
BY DEF Bit, Octets

LEMMA SameBits ==
    ASSUME NEW a \in Octets, NEW b \in Octets, \A w \in Places : Bit(a, w) = Bit(b, w)
    PROVE  a = b
<1>1. /\ Bit(a, 128) = Bit(b, 128) /\ Bit(a, 64) = Bit(b, 64) /\ Bit(a, 32) = Bit(b, 32)
      /\ Bit(a, 16) = Bit(b, 16) /\ Bit(a, 8) = Bit(b, 8) /\ Bit(a, 4) = Bit(b, 4)
      /\ Bit(a, 2) = Bit(b, 2) /\ Bit(a, 1) = Bit(b, 1)
  BY DEF Places
<1> QED
  BY <1>1, EightBits

LEMMA XorBits ==
    ASSUME NEW a \in Octets, NEW b \in Octets
    PROVE  /\ ByteXor(a, b) \in Octets
           /\ \A w \in Places :
                 Bit(ByteXor(a, b), w) = IF Bit(a, w) = Bit(b, w) THEN 0 ELSE 1
<1> DEFINE d(w) == IF Bit(a, w) = Bit(b, w) THEN 0 ELSE 1
<1>1. \A w \in Places : d(w) \in {0, 1}
  OBVIOUS
<1>2. /\ d(128) \in {0, 1} /\ d(64) \in {0, 1} /\ d(32) \in {0, 1} /\ d(16) \in {0, 1}
      /\ d(8) \in {0, 1} /\ d(4) \in {0, 1} /\ d(2) \in {0, 1} /\ d(1) \in {0, 1}
  OBVIOUS
<1>3. ByteXor(a, b) = 128 * d(128) + 64 * d(64) + 32 * d(32) + 16 * d(16)
                          + 8 * d(8) + 4 * d(4) + 2 * d(2) + d(1)
  BY DEF ByteXor
<1> HIDE DEF d
<1>4. /\ ByteXor(a, b) \in Octets
      /\ Bit(ByteXor(a, b), 128) = d(128) /\ Bit(ByteXor(a, b), 64) = d(64)
      /\ Bit(ByteXor(a, b), 32) = d(32) /\ Bit(ByteXor(a, b), 16) = d(16)
      /\ Bit(ByteXor(a, b), 8) = d(8) /\ Bit(ByteXor(a, b), 4) = d(4)
      /\ Bit(ByteXor(a, b), 2) = d(2) /\ Bit(ByteXor(a, b), 1) = d(1)
  BY <1>2, <1>3, SumOfBits
<1> QED
  BY <1>4 DEF d, Places

LEMMA XorFacts ==
    ASSUME NEW a \in Octets, NEW b \in Octets
    PROVE  /\ ByteXor(a, b) = ByteXor(b, a)
           /\ ByteXor(a, ByteXor(a, b)) = b
           /\ ByteXor(a, a) = 0
           /\ ByteXor(a, 0) = a
<1>1. ByteXor(a, b) \in Octets /\ ByteXor(b, a) \in Octets /\ ByteXor(a, a) \in Octets
  BY XorBits
<1>2. 0 \in Octets /\ \A w \in Places : Bit(0, w) = 0
  BY DEF Octets, Bit, Places
<1>3. ByteXor(a, b) = ByteXor(b, a)
  <2>1. \A w \in Places : Bit(ByteXor(a, b), w) = Bit(ByteXor(b, a), w)
    BY XorBits
  <2> QED
    BY <1>1, <2>1, SameBits
<1>4. ByteXor(a, ByteXor(a, b)) = b
  <2>1. \A w \in Places : Bit(ByteXor(a, ByteXor(a, b)), w) = Bit(b, w)
    BY <1>1, XorBits, EightBits
  <2>2. ByteXor(a, ByteXor(a, b)) \in Octets
    BY <1>1, XorBits
  <2> QED
    BY <2>1, <2>2, SameBits
<1>5. ByteXor(a, a) = 0
  <2>1. \A w \in Places : Bit(ByteXor(a, a), w) = Bit(0, w)
    BY <1>2, XorBits
  <2> QED
    BY <1>1, <1>2, <2>1, SameBits
<1>6. ByteXor(a, 0) = a
  <2>1. \A w \in Places : Bit(ByteXor(a, 0), w) = Bit(a, w)
    BY <1>2, XorBits, EightBits
  <2>2. ByteXor(a, 0) \in Octets
    BY <1>2, XorBits
  <2> QED
    BY <2>1, <2>2, SameBits
<1> QED
  BY <1>3, <1>4, <1>5, <1>6

\* A bit brought down moves the others up, and the top one changes those of the
\* divisor.
LEMMA DownBits ==
    ASSUME NEW r \in Octets, NEW bit \in {0, 1}
    PROVE  LET s == BringDown(r, bit)
               top == Bit(r, 128)
           IN  /\ s \in Octets
               /\ Bit(s, 128) = Bit(r, 64) /\ Bit(s, 64) = Bit(r, 32)
               /\ Bit(s, 32) = Bit(r, 16) /\ Bit(s, 16) = Bit(r, 8)
               /\ Bit(s, 8) = Bit(r, 4)
               /\ Bit(s, 4) = IF Bit(r, 2) = top THEN 0 ELSE 1
               /\ Bit(s, 2) = IF Bit(r, 1) = top THEN 0 ELSE 1
               /\ Bit(s, 1) = IF bit = top THEN 0 ELSE 1
<1> DEFINE brought == 2 * (r % TOPBIT) + bit
<1>1. /\ Bit(r, 128) \in {0, 1} /\ Bit(r, 64) \in {0, 1} /\ Bit(r, 32) \in {0, 1}
      /\ Bit(r, 16) \in {0, 1} /\ Bit(r, 8) \in {0, 1} /\ Bit(r, 4) \in {0, 1}
      /\ Bit(r, 2) \in {0, 1} /\ Bit(r, 1) \in {0, 1}
  BY EightBits DEF Places
<1>2. brought = 128 * Bit(r, 64) + 64 * Bit(r, 32) + 32 * Bit(r, 16) + 16 * Bit(r, 8)
                    + 8 * Bit(r, 4) + 4 * Bit(r, 2) + 2 * Bit(r, 1) + bit
  BY EightBits DEF Bit, Octets, TOPBIT
<1>3. r >= TOPBIT <=> Bit(r, 128) = 1
  BY DEF Bit, Octets, TOPBIT
<1>4. BringDown(r, bit) = IF Bit(r, 128) = 1 THEN ByteXor(brought, POLYNOMIAL) ELSE brought
  BY <1>3 DEF BringDown
<1> HIDE DEF brought
<1>5. /\ brought \in Octets
      /\ Bit(brought, 128) = Bit(r, 64) /\ Bit(brought, 64) = Bit(r, 32)
      /\ Bit(brought, 32) = Bit(r, 16) /\ Bit(brought, 16) = Bit(r, 8)
      /\ Bit(brought, 8) = Bit(r, 4) /\ Bit(brought, 4) = Bit(r, 2)
      /\ Bit(brought, 2) = Bit(r, 1) /\ Bit(brought, 1) = bit
  BY <1>1, <1>2, SumOfBits
<1>6. /\ POLYNOMIAL \in Octets
      /\ Bit(POLYNOMIAL, 128) = 0 /\ Bit(POLYNOMIAL, 64) = 0 /\ Bit(POLYNOMIAL, 32) = 0
      /\ Bit(POLYNOMIAL, 16) = 0 /\ Bit(POLYNOMIAL, 8) = 0 /\ Bit(POLYNOMIAL, 4) = 1
      /\ Bit(POLYNOMIAL, 2) = 1 /\ Bit(POLYNOMIAL, 1) = 1
  BY DEF POLYNOMIAL, Octets, Bit
<1>7. CASE Bit(r, 128) = 1
  <2>1. BringDown(r, bit) = ByteXor(brought, POLYNOMIAL)
    BY <1>4, <1>7
  <2>2. /\ ByteXor(brought, POLYNOMIAL) \in Octets
        /\ \A w \in Places : Bit(ByteXor(brought, POLYNOMIAL), w) =
              IF Bit(brought, w) = Bit(POLYNOMIAL, w) THEN 0 ELSE 1
    BY <1>5, <1>6, XorBits
  <2> QED
    BY <1>1, <1>5, <1>6, <1>7, <2>1, <2>2 DEF Places
<1>8. CASE Bit(r, 128) = 0
  BY <1>1, <1>4, <1>5, <1>8
<1> QED
  BY <1>1, <1>7, <1>8

\* Bringing down is linear: what is added below the top bit moves up with the
\* rest.
LEMMA DownXor ==
    ASSUME NEW r \in Octets, NEW v \in 0 .. 127, NEW bit \in {0, 1}
    PROVE  BringDown(ByteXor(r, v), bit) = ByteXor(BringDown(r, 0), 2 * v + bit)
<1> DEFINE x == ByteXor(r, v)
           s == BringDown(x, bit)
           t == BringDown(r, 0)
           u == 2 * v + bit
<1>1. v \in Octets /\ Bit(v, 128) = 0
  BY DEF Octets, Bit
<1>2. /\ x \in Octets
      /\ \A w \in Places : Bit(x, w) = IF Bit(r, w) = Bit(v, w) THEN 0 ELSE 1
  BY <1>1, XorBits
<1>3. /\ u \in Octets
      /\ Bit(u, 128) = Bit(v, 64) /\ Bit(u, 64) = Bit(v, 32) /\ Bit(u, 32) = Bit(v, 16)
      /\ Bit(u, 16) = Bit(v, 8) /\ Bit(u, 8) = Bit(v, 4) /\ Bit(u, 4) = Bit(v, 2)
      /\ Bit(u, 2) = Bit(v, 1) /\ Bit(u, 1) = bit
  <2>1. u = 128 * Bit(v, 64) + 64 * Bit(v, 32) + 32 * Bit(v, 16) + 16 * Bit(v, 8)
                + 8 * Bit(v, 4) + 4 * Bit(v, 2) + 2 * Bit(v, 1) + bit
    BY DEF Bit
  <2>2. \A w \in Places : Bit(v, w) \in {0, 1}
    BY <1>1, EightBits
  <2>3. /\ Bit(v, 64) \in {0, 1} /\ Bit(v, 32) \in {0, 1} /\ Bit(v, 16) \in {0, 1}
        /\ Bit(v, 8) \in {0, 1} /\ Bit(v, 4) \in {0, 1} /\ Bit(v, 2) \in {0, 1}
        /\ Bit(v, 1) \in {0, 1}
    BY <2>2 DEF Places
  <2> HIDE DEF u
  <2> QED
    BY <2>1, <2>3, SumOfBits
<1>4. /\ t \in Octets
      /\ Bit(t, 128) = Bit(r, 64) /\ Bit(t, 64) = Bit(r, 32) /\ Bit(t, 32) = Bit(r, 16)
      /\ Bit(t, 16) = Bit(r, 8) /\ Bit(t, 8) = Bit(r, 4)
      /\ Bit(t, 4) = IF Bit(r, 2) = Bit(r, 128) THEN 0 ELSE 1
      /\ Bit(t, 2) = IF Bit(r, 1) = Bit(r, 128) THEN 0 ELSE 1
      /\ Bit(t, 1) = IF 0 = Bit(r, 128) THEN 0 ELSE 1
  BY DownBits
<1> HIDE DEF x, t, u
<1>5. /\ s \in Octets
      /\ Bit(s, 128) = Bit(x, 64) /\ Bit(s, 64) = Bit(x, 32) /\ Bit(s, 32) = Bit(x, 16)
      /\ Bit(s, 16) = Bit(x, 8) /\ Bit(s, 8) = Bit(x, 4)
      /\ Bit(s, 4) = IF Bit(x, 2) = Bit(x, 128) THEN 0 ELSE 1
      /\ Bit(s, 2) = IF Bit(x, 1) = Bit(x, 128) THEN 0 ELSE 1
      /\ Bit(s, 1) = IF bit = Bit(x, 128) THEN 0 ELSE 1
  BY <1>2, DownBits
<1> HIDE DEF s
<1>6. \A w \in Places : Bit(r, w) \in {0, 1} /\ Bit(v, w) \in {0, 1}
  BY <1>1, EightBits
<1>7. /\ ByteXor(t, u) \in Octets
      /\ \A w \in Places : Bit(ByteXor(t, u), w) = IF Bit(t, w) = Bit(u, w) THEN 0 ELSE 1
  BY <1>3, <1>4, XorBits
<1>8. \A w \in Places : Bit(s, w) = Bit(ByteXor(t, u), w)
  BY <1>1, <1>2, <1>3, <1>4, <1>5, <1>6, <1>7 DEF Places
<1>9. s = ByteXor(t, u)
  BY <1>5, <1>7, <1>8, SameBits
<1> QED
  BY <1>9 DEF s, t, u, x

\* The bits of a byte, brought down one after the other: the table's entry for
\* what there was, plus the byte.
LEMMA ByteDown ==
    ASSUME NEW b \in Octets, NEW s0 \in Octets, NEW s1, NEW s2, NEW s3, NEW s4, NEW s5,
           NEW s6, NEW s7, NEW s8,
           s1 = BringDown(s0, Bit(b, 128)), s2 = BringDown(s1, Bit(b, 64)),
           s3 = BringDown(s2, Bit(b, 32)), s4 = BringDown(s3, Bit(b, 16)),
           s5 = BringDown(s4, Bit(b, 8)), s6 = BringDown(s5, Bit(b, 4)),
           s7 = BringDown(s6, Bit(b, 2)), s8 = BringDown(s7, Bit(b, 1))
    PROVE  s8 = ByteXor(Table[s0 + 1], b)
<1> DEFINE t1 == BringDown(s0, 0)
           t2 == BringDown(t1, 0)
           t3 == BringDown(t2, 0)
           t4 == BringDown(t3, 0)
           t5 == BringDown(t4, 0)
           t6 == BringDown(t5, 0)
           t7 == BringDown(t6, 0)
           t8 == BringDown(t7, 0)
<1>1. /\ Bit(b, 128) \in {0, 1} /\ Bit(b, 64) \in {0, 1} /\ Bit(b, 32) \in {0, 1}
      /\ Bit(b, 16) \in {0, 1} /\ Bit(b, 8) \in {0, 1} /\ Bit(b, 4) \in {0, 1}
      /\ Bit(b, 2) \in {0, 1} /\ Bit(b, 1) \in {0, 1}
  BY EightBits DEF Places
<1>2. /\ t1 \in Octets /\ t2 \in Octets /\ t3 \in Octets /\ t4 \in Octets
      /\ t5 \in Octets /\ t6 \in Octets /\ t7 \in Octets
  BY DownBits
<1>3. Table[s0 + 1] = t8
  BY TableAssumption DEF Twice
\* The bits that have come, as a number.
<1> DEFINE v1 == Bit(b, 128)
           v2 == 2 * v1 + Bit(b, 64)
           v3 == 2 * v2 + Bit(b, 32)
           v4 == 2 * v3 + Bit(b, 16)
           v5 == 2 * v4 + Bit(b, 8)
           v6 == 2 * v5 + Bit(b, 4)
           v7 == 2 * v6 + Bit(b, 2)
           v8 == 2 * v7 + Bit(b, 1)
<1>4. /\ v1 \in 0 .. 127 /\ v2 \in 0 .. 127 /\ v3 \in 0 .. 127 /\ v4 \in 0 .. 127
      /\ v5 \in 0 .. 127 /\ v6 \in 0 .. 127 /\ v7 \in 0 .. 127
  BY <1>1
<1>5. v8 = b
  BY <1>1, EightBits
<1> HIDE DEF t1, t2, t3, t4, t5, t6, t7, t8
<1>6. s1 = ByteXor(t1, v1)
  <2>1. 0 \in 0 .. 127 /\ 2 * 0 + Bit(b, 128) = Bit(b, 128) /\ ByteXor(s0, 0) = s0
    BY <1>1, XorFacts
  <2> QED
    BY <1>1, <2>1, DownXor DEF t1
<1> HIDE DEF v1, v2, v3, v4, v5, v6, v7, v8
<1>7. s2 = ByteXor(t2, v2)
  <2>1. t1 \in Octets /\ v1 \in 0 .. 127 /\ Bit(b, 64) \in {0, 1}
    BY <1>1, <1>2, <1>4
  <2>2. BringDown(ByteXor(t1, v1), Bit(b, 64)) =
          ByteXor(BringDown(t1, 0), 2 * v1 + Bit(b, 64))
    BY <2>1, DownXor
  <2> QED
    BY <1>6, <2>2 DEF t2, v2
<1>8. s3 = ByteXor(t3, v3)
  <2>1. t2 \in Octets /\ v2 \in 0 .. 127 /\ Bit(b, 32) \in {0, 1}
    BY <1>1, <1>2, <1>4
  <2>2. BringDown(ByteXor(t2, v2), Bit(b, 32)) =
          ByteXor(BringDown(t2, 0), 2 * v2 + Bit(b, 32))
    BY <2>1, DownXor
  <2> QED
    BY <1>7, <2>2 DEF t3, v3
<1>9. s4 = ByteXor(t4, v4)
  <2>1. t3 \in Octets /\ v3 \in 0 .. 127 /\ Bit(b, 16) \in {0, 1}
    BY <1>1, <1>2, <1>4
  <2>2. BringDown(ByteXor(t3, v3), Bit(b, 16)) =
          ByteXor(BringDown(t3, 0), 2 * v3 + Bit(b, 16))
    BY <2>1, DownXor
  <2> QED
    BY <1>8, <2>2 DEF t4, v4
<1>10. s5 = ByteXor(t5, v5)
  <2>1. t4 \in Octets /\ v4 \in 0 .. 127 /\ Bit(b, 8) \in {0, 1}
    BY <1>1, <1>2, <1>4
  <2>2. BringDown(ByteXor(t4, v4), Bit(b, 8)) =
          ByteXor(BringDown(t4, 0), 2 * v4 + Bit(b, 8))
    BY <2>1, DownXor
  <2> QED
    BY <1>9, <2>2 DEF t5, v5
<1>11. s6 = ByteXor(t6, v6)
  <2>1. t5 \in Octets /\ v5 \in 0 .. 127 /\ Bit(b, 4) \in {0, 1}
    BY <1>1, <1>2, <1>4
  <2>2. BringDown(ByteXor(t5, v5), Bit(b, 4)) =
          ByteXor(BringDown(t5, 0), 2 * v5 + Bit(b, 4))
    BY <2>1, DownXor
  <2> QED
    BY <1>10, <2>2 DEF t6, v6
<1>12. s7 = ByteXor(t7, v7)
  <2>1. t6 \in Octets /\ v6 \in 0 .. 127 /\ Bit(b, 2) \in {0, 1}
    BY <1>1, <1>2, <1>4
  <2>2. BringDown(ByteXor(t6, v6), Bit(b, 2)) =
          ByteXor(BringDown(t6, 0), 2 * v6 + Bit(b, 2))
    BY <2>1, DownXor
  <2> QED
    BY <1>11, <2>2 DEF t7, v7
<1>13. s8 = ByteXor(t8, v8)
  <2>1. t7 \in Octets /\ v7 \in 0 .. 127 /\ Bit(b, 1) \in {0, 1}
    BY <1>1, <1>2, <1>4
  <2>2. BringDown(ByteXor(t7, v7), Bit(b, 1)) =
          ByteXor(BringDown(t7, 0), 2 * v7 + Bit(b, 1))
    BY <2>1, DownXor
  <2> QED
    BY <1>12, <2>2 DEF t8, v8
<1> QED
  BY <1>3, <1>5, <1>13

\* Nothing is lost when a bit is brought down, for the polynomial has the lowest
\* bit; so the table has every byte once.
LEMMA DownTellsApart ==
    ASSUME NEW r \in Octets, NEW s \in Octets, BringDown(r, 0) = BringDown(s, 0)
    PROVE  r = s
<1> DEFINE x == BringDown(r, 0)
           y == BringDown(s, 0)
<1>1. \A w \in Places : Bit(r, w) \in {0, 1} /\ Bit(s, w) \in {0, 1}
  BY EightBits
<1>2. /\ Bit(x, 128) = Bit(r, 64) /\ Bit(x, 64) = Bit(r, 32) /\ Bit(x, 32) = Bit(r, 16)
      /\ Bit(x, 16) = Bit(r, 8) /\ Bit(x, 8) = Bit(r, 4)
      /\ Bit(x, 4) = IF Bit(r, 2) = Bit(r, 128) THEN 0 ELSE 1
      /\ Bit(x, 2) = IF Bit(r, 1) = Bit(r, 128) THEN 0 ELSE 1
      /\ Bit(x, 1) = IF 0 = Bit(r, 128) THEN 0 ELSE 1
  BY DownBits
<1>3. /\ Bit(y, 128) = Bit(s, 64) /\ Bit(y, 64) = Bit(s, 32) /\ Bit(y, 32) = Bit(s, 16)
      /\ Bit(y, 16) = Bit(s, 8) /\ Bit(y, 8) = Bit(s, 4)
      /\ Bit(y, 4) = IF Bit(s, 2) = Bit(s, 128) THEN 0 ELSE 1
      /\ Bit(y, 2) = IF Bit(s, 1) = Bit(s, 128) THEN 0 ELSE 1
      /\ Bit(y, 1) = IF 0 = Bit(s, 128) THEN 0 ELSE 1
  BY DownBits
<1>4. x = y
  OBVIOUS
<1> HIDE DEF x, y
<1>5. \A w \in Places : Bit(r, w) = Bit(s, w)
  BY <1>1, <1>2, <1>3, <1>4 DEF Places
<1> QED
  BY <1>5, SameBits

LEMMA TwiceTellsApart ==
    ASSUME NEW r \in Octets, NEW s \in Octets
    PROVE  Twice(r) \in Octets /\ (Twice(r) = Twice(s) => r = s)
<1>1. BringDown(r, 0) \in Octets /\ BringDown(s, 0) \in Octets
  BY DownBits
<1>2. Twice(r) \in Octets
  BY <1>1, DownBits DEF Twice
<1> QED
  BY <1>1, <1>2, DownTellsApart DEF Twice

LEMMA TableFacts ==
    /\ \A a \in Octets : Table[a + 1] \in Octets
    /\ \A a, b \in Octets : Table[a + 1] = Table[b + 1] => a = b
    /\ Table[1] = 0
<1>1. ASSUME NEW a \in Octets, NEW b \in Octets
      PROVE  /\ Table[a + 1] \in Octets
             /\ Table[a + 1] = Table[b + 1] => a = b
  <2> DEFINE f1 == Twice(a)
             f2 == Twice(f1)
             f3 == Twice(f2)
             g1 == Twice(b)
             g2 == Twice(g1)
             g3 == Twice(g2)
  <2>1. f1 \in Octets /\ g1 \in Octets /\ (f1 = g1 => a = b)
    BY TwiceTellsApart
  <2>2. Table[a + 1] = Twice(f3) /\ Table[b + 1] = Twice(g3)
    BY TableAssumption
  <2> HIDE DEF f1, g1
  <2>3. f2 \in Octets /\ g2 \in Octets /\ (f2 = g2 => f1 = g1)
    BY <2>1, TwiceTellsApart
  <2> HIDE DEF f2, g2
  <2>4. f3 \in Octets /\ g3 \in Octets /\ (f3 = g3 => f2 = g2)
    BY <2>3, TwiceTellsApart
  <2> HIDE DEF f3, g3
  <2>5. Twice(f3) \in Octets /\ (Twice(f3) = Twice(g3) => f3 = g3)
    BY <2>4, TwiceTellsApart
  <2> QED
    BY <2>1, <2>2, <2>3, <2>4, <2>5
<1>2. Table[1] = 0
  <2>1. 0 \in Octets /\ 0 + 1 = 1
    BY DEF Octets
  <2>2. BringDown(0, 0) = 0
    BY DEF BringDown, TOPBIT
  <2>3. Twice(0) = 0
    BY <2>2 DEF Twice
  <2> QED
    BY <2>1, <2>3, TableAssumption
<1> QED
  BY <1>1, <1>2

-----------------------------------------------------------------------------
\* The two loops.

LEMMA StepType ==
    ASSUME NEW a \in Octets, NEW b \in Octets
    PROVE  NextRemainder(a, b) \in Octets
BY TableFacts, XorBits DEF NextRemainder

\* The remainders of message up to the n-th byte.
Runs(r, message, n) ==
    /\ r \in [0 .. n -> Octets]
    /\ r[0] = 0
    /\ \A k \in 1 .. n : r[k] = NextRemainder(r[k - 1], message[k])

LEMMA Remainders ==
    ASSUME NEW message \in Seq(Octets)
    PROVE  Runs(remainders(message), message, Len(message))
<1> DEFINE L == Len(message)
           step == [r \in Octets |-> [byte \in Octets |-> NextRemainder(r, byte)]]
           r == remainders(message)
<1>1. step \in [Octets -> [Octets -> Octets]]
  BY StepType
<1>2. r = Loop(step, message)
  BY DEF remainders
<1>3. L \in Nat /\ \A k \in 1 .. L : message[k] \in Octets
  OBVIOUS
<1>4. Reaches(r, step, message, L)
  <2> HIDE DEF step
  <2> QED
    BY <1>1, <1>2, LoopReaches
<1>5. ASSUME NEW k \in 1 .. L PROVE r[k] = NextRemainder(r[k - 1], message[k])
  <2>1. k - 1 \in 0 .. L /\ r[k - 1] \in Octets /\ message[k] \in Octets
    BY <1>3, <1>4 DEF Reaches
  <2>2. r[k] = step[r[k - 1]][message[k]]
    <3> HIDE DEF step, L, r
    <3> QED
      BY <1>4 DEF Reaches
  <2> HIDE DEF r
  <2> QED
    BY <2>1, <2>2
<1> HIDE DEF r, step, L
<1>6. Runs(r, message, L)
  BY <1>4, <1>5 DEF Runs, Reaches
<1> QED
  BY <1>6 DEF r, L

\* The remainders of the division, from bit to bit.
LEMMA BitRemainders ==
    ASSUME NEW message \in Seq(Octets)
    PROVE  LET s == remaindersByBit(message)
               K == 8 * (Len(message) + 1)
           IN  /\ s[0] = 0
               /\ \A k \in 0 .. K : s[k] \in Octets
               /\ \A k \in 1 .. K : s[k] = BringDown(s[k - 1], Bits(message)[k])
               /\ \A k \in 1 .. K : Bits(message)[k] \in {0, 1}
<1> DEFINE L == Len(message)
           K == 8 * (L + 1)
           step == [r \in Octets |-> [bit \in {0, 1} |-> BringDown(r, bit)]]
           s == remaindersByBit(message)
<1>1. step \in [Octets -> [{0, 1} -> Octets]]
  BY DownBits
<1>2. L \in Nat /\ K \in Nat /\ \A i \in 1 .. L : message[i] \in Octets
  OBVIOUS
<1>3. ASSUME NEW k \in 1 .. K PROVE Bits(message)[k] \in {0, 1}
  <2> DEFINE i == 1 + ((k - 1) \div 8)
  <2>1. i \in Nat /\ i >= 1 /\ (k - 1) % 8 \in 0 .. 7
    BY <1>2
  <2>2. Bits(message)[k] =
            IF i <= L THEN Bit(message[i], Weights[1 + ((k - 1) % 8)]) ELSE 0
    BY DEF Bits, WIDTH
  <2>3. \A j \in 0 .. 7 : Weights[1 + j] \in Places
    BY DEF Weights, Places, TOPBIT
  <2> HIDE DEF i
  <2>4. i <= L => message[i] \in Octets
    BY <1>2, <2>1
  <2> QED
    BY <2>1, <2>2, <2>3, <2>4, EightBits
<1>4. Bits(message) \in Seq({0, 1}) /\ Len(Bits(message)) = K
  <2>1. Bits(message) \in [1 .. K -> {0, 1}]
    BY <1>3 DEF Bits, WIDTH
  <2> HIDE DEF K
  <2> QED
    BY <1>2, <2>1
<1>5. s = Loop(step, Bits(message))
  BY DEF remaindersByBit
<1> HIDE DEF K, L
<1>6. Reaches(s, step, Bits(message), K)
  <2> HIDE DEF step, s
  <2> QED
    BY <1>1, <1>4, <1>5, LoopReaches
<1>7. s[0] = 0 /\ \A k \in 0 .. K : s[k] \in Octets
  <2> HIDE DEF step, s
  <2> QED
    BY <1>2, <1>6 DEF Reaches
<1>8. ASSUME NEW k \in 1 .. K PROVE s[k] = BringDown(s[k - 1], Bits(message)[k])
  <2>1. k - 1 \in 0 .. K
    BY <1>2
  <2>2. s[k - 1] \in Octets /\ Bits(message)[k] \in {0, 1}
    BY <1>3, <1>7, <2>1
  <2>3. s[k] = step[s[k - 1]][Bits(message)[k]]
    <3> HIDE DEF step, s
    <3> QED
      BY <1>6 DEF Reaches
  <2> HIDE DEF s
  <2> QED
    BY <2>2, <2>3
<1> HIDE DEF s
<1> QED
  BY <1>3, <1>7, <1>8 DEF s, K, L

\* The bits of one byte.
LEMMA BitsOfByte ==
    ASSUME NEW message \in Seq(Octets), NEW n \in 0 .. Len(message)
    PROVE  LET b == IF n < Len(message) THEN message[n + 1] ELSE 0
               bits == Bits(message)
           IN  /\ b \in Octets
               /\ bits[8 * n + 1] = Bit(b, 128) /\ bits[8 * n + 2] = Bit(b, 64)
               /\ bits[8 * n + 3] = Bit(b, 32) /\ bits[8 * n + 4] = Bit(b, 16)
               /\ bits[8 * n + 5] = Bit(b, 8) /\ bits[8 * n + 6] = Bit(b, 4)
               /\ bits[8 * n + 7] = Bit(b, 2) /\ bits[8 * n + 8] = Bit(b, 1)
<1> DEFINE L == Len(message)
           b == IF n < L THEN message[n + 1] ELSE 0
<1>1. L \in Nat /\ n \in Nat /\ n <= L
  OBVIOUS
<1>2. b \in Octets
  <2>1. n < L => n + 1 \in 1 .. L
    BY <1>1
  <2> QED
    BY <2>1, ZeroIsOctet
<1>3. \A w \in Places : Bit(0, w) = 0
  BY DEF Bit, Places
<1>4. \A j \in 1 .. 8 : Weights[j] \in Places
  BY DEF Weights, Places, TOPBIT
<1>5. ASSUME NEW j \in 1 .. 8 PROVE Bits(message)[8 * n + j] = Bit(b, Weights[j])
  <2>1. /\ 8 * n + j \in 1 .. 8 * (L + 1)
        /\ (8 * n + j - 1) \div 8 = n
        /\ (8 * n + j - 1) % 8 = j - 1
    BY <1>1
  <2>2. Bits(message)[8 * n + j] =
            IF 1 + n <= L THEN Bit(message[1 + n], Weights[1 + (j - 1)]) ELSE 0
    BY <2>1 DEF Bits, WIDTH
  <2>3. 1 + n = n + 1 /\ 1 + (j - 1) = j /\ (1 + n <= L <=> n < L)
    BY <1>1
  <2> HIDE DEF L
  <2> QED
    BY <1>3, <1>4, <2>2, <2>3
<1>6. /\ Weights[1] = 128 /\ Weights[2] = 64 /\ Weights[3] = 32 /\ Weights[4] = 16
      /\ Weights[5] = 8 /\ Weights[6] = 4 /\ Weights[7] = 2 /\ Weights[8] = 1
  BY DEF Weights, TOPBIT
<1> HIDE DEF b
<1> DEFINE bit(j) == Bits(message)[8 * n + j]
<1>8. \A j \in 1 .. 8 : bit(j) = Bit(b, Weights[j])
  BY <1>5
<1> HIDE DEF bit
<1>9. /\ bit(1) = Bit(b, 128) /\ bit(2) = Bit(b, 64) /\ bit(3) = Bit(b, 32)
      /\ bit(4) = Bit(b, 16) /\ bit(5) = Bit(b, 8) /\ bit(6) = Bit(b, 4)
      /\ bit(7) = Bit(b, 2) /\ bit(8) = Bit(b, 1)
  BY <1>6, <1>8
<1>7. /\ Bits(message)[8 * n + 1] = Bit(b, 128) /\ Bits(message)[8 * n + 2] = Bit(b, 64)
      /\ Bits(message)[8 * n + 3] = Bit(b, 32) /\ Bits(message)[8 * n + 4] = Bit(b, 16)
      /\ Bits(message)[8 * n + 5] = Bit(b, 8) /\ Bits(message)[8 * n + 6] = Bit(b, 4)
      /\ Bits(message)[8 * n + 7] = Bit(b, 2) /\ Bits(message)[8 * n + 8] = Bit(b, 1)
  BY <1>9 DEF bit
<1> QED
  BY <1>2, <1>7 DEF b, L

(***************************************************************************)
(* crcFast returns, for every message, the remainder of its division by    *)
(* the polynomial, bit by bit, with WIDTH zeros behind the message.        *)
(***************************************************************************)
THEOREM CrcDivides ==
    ASSUME NEW message \in Seq(Octets)
    PROVE  crcFast(message) = Remainder(message)
<1> DEFINE L == Len(message)
           r == remainders(message)
           s == remaindersByBit(message)
           bits == Bits(message)
           byte(n) == IF n < L THEN message[n + 1] ELSE 0
<1>1. Runs(r, message, L) /\ L \in Nat
  BY Remainders
<1>2. /\ s[0] = 0
      /\ \A k \in 0 .. 8 * (L + 1) : s[k] \in Octets
      /\ \A k \in 1 .. 8 * (L + 1) : s[k] = BringDown(s[k - 1], bits[k])
  BY BitRemainders
<1>3. \A n \in 0 .. L :
          /\ byte(n) \in Octets
          /\ bits[8 * n + 1] = Bit(byte(n), 128) /\ bits[8 * n + 2] = Bit(byte(n), 64)
          /\ bits[8 * n + 3] = Bit(byte(n), 32) /\ bits[8 * n + 4] = Bit(byte(n), 16)
          /\ bits[8 * n + 5] = Bit(byte(n), 8) /\ bits[8 * n + 6] = Bit(byte(n), 4)
          /\ bits[8 * n + 7] = Bit(byte(n), 2) /\ bits[8 * n + 8] = Bit(byte(n), 1)
  BY BitsOfByte
<1>4. crcFast(message) = r[L] /\ Remainder(message) = s[8 * (L + 1)]
  BY DEF crcFast, Remainder, WIDTH
<1>5. \A n \in 0 .. (L - 1) : byte(n) = message[n + 1]
  BY <1>1
<1>6. byte(L) = 0
  BY <1>1
<1> HIDE DEF L, r, s, bits, byte
\* A byte of the division is an entry of the table and the byte.
<1>7. ASSUME NEW n \in 0 .. L
      PROVE  s[8 * n] \in Octets /\ s[8 * n + 8] = ByteXor(Table[s[8 * n] + 1], byte(n))
  <2> DEFINE k == 8 * n
  <2>1. /\ k \in 0 .. 8 * (L + 1)
        /\ k + 1 \in 1 .. 8 * (L + 1) /\ (k + 1) - 1 = k
        /\ k + 2 \in 1 .. 8 * (L + 1) /\ (k + 2) - 1 = k + 1
        /\ k + 3 \in 1 .. 8 * (L + 1) /\ (k + 3) - 1 = k + 2
        /\ k + 4 \in 1 .. 8 * (L + 1) /\ (k + 4) - 1 = k + 3
        /\ k + 5 \in 1 .. 8 * (L + 1) /\ (k + 5) - 1 = k + 4
        /\ k + 6 \in 1 .. 8 * (L + 1) /\ (k + 6) - 1 = k + 5
        /\ k + 7 \in 1 .. 8 * (L + 1) /\ (k + 7) - 1 = k + 6
        /\ k + 8 \in 1 .. 8 * (L + 1) /\ (k + 8) - 1 = k + 7
    BY <1>1
  <2>2. /\ byte(n) \in Octets
        /\ bits[k + 1] = Bit(byte(n), 128) /\ bits[k + 2] = Bit(byte(n), 64)
        /\ bits[k + 3] = Bit(byte(n), 32) /\ bits[k + 4] = Bit(byte(n), 16)
        /\ bits[k + 5] = Bit(byte(n), 8) /\ bits[k + 6] = Bit(byte(n), 4)
        /\ bits[k + 7] = Bit(byte(n), 2) /\ bits[k + 8] = Bit(byte(n), 1)
    BY <1>3
  <2> HIDE DEF k
  <2>3. ASSUME NEW i \in 1 .. 8 * (L + 1), NEW j, i - 1 = j
        PROVE  s[i] = BringDown(s[j], bits[i])
    BY <1>2, <2>3
  <2>4. /\ s[k] \in Octets
        /\ s[k + 1] = BringDown(s[k], bits[k + 1])
        /\ s[k + 2] = BringDown(s[k + 1], bits[k + 2])
    BY <1>2, <2>1, <2>3
  <2>5. /\ s[k + 3] = BringDown(s[k + 2], bits[k + 3])
        /\ s[k + 4] = BringDown(s[k + 3], bits[k + 4])
    BY <2>1, <2>3
  <2>6. /\ s[k + 5] = BringDown(s[k + 4], bits[k + 5])
        /\ s[k + 6] = BringDown(s[k + 5], bits[k + 6])
    BY <2>1, <2>3
  <2>7. /\ s[k + 7] = BringDown(s[k + 6], bits[k + 7])
        /\ s[k + 8] = BringDown(s[k + 7], bits[k + 8])
    BY <2>1, <2>3
  <2>8. s[k + 8] = ByteXor(Table[s[k] + 1], byte(n))
    BY <2>2, <2>4, <2>5, <2>6, <2>7, ByteDown
  <2> QED
    BY <2>8, <2>4 DEF k
\* What the table has for the division's remainder is crcFast's.
<1> DEFINE T == {n \in 0 .. L : Table[s[8 * n] + 1] = r[n]}
<1>8. 0 \in T
  <2>1. s[8 * 0] = 0 /\ 0 + 1 = 1
    BY <1>2
  <2> QED
    BY <1>1, <2>1, TableFacts DEF Runs
<1>9. ASSUME NEW n \in 0 .. (L - 1), n \in T PROVE n + 1 \in T
  <2>1. /\ n \in 0 .. L /\ n + 1 \in 0 .. L /\ n + 1 \in 1 .. L /\ (n + 1) - 1 = n
        /\ 8 * (n + 1) = 8 * n + 8
    BY <1>1
  <2>2. s[8 * (n + 1)] = ByteXor(r[n], message[n + 1])
    BY <1>5, <1>7, <1>9, <2>1
  <2>3. r[n] \in Octets /\ message[n + 1] \in Octets
    <3>1. r[n] \in Octets
      BY <1>1, <2>1 DEF Runs
    <3>2. byte(n) \in Octets /\ byte(n) = message[n + 1]
      BY <1>3, <1>5, <2>1
    <3> QED
      BY <3>1, <3>2
  <2>4. s[8 * (n + 1)] = ByteXor(message[n + 1], r[n])
    BY <2>2, <2>3, XorFacts
  <2>5. r[n + 1] = NextRemainder(r[n], message[n + 1])
    BY <1>1, <2>1 DEF Runs
  <2>6. r[n + 1] = Table[ByteXor(message[n + 1], r[n]) + 1]
    BY <2>5 DEF NextRemainder
  <2> QED
    BY <2>1, <2>4, <2>6
<1>10. \A n \in 0 .. L : n \in T
  <2> HIDE DEF T
  <2> QED
    BY <1>1, <1>8, <1>9, UpTo
\* The zeros behind the message are one more byte.
<1>11. s[8 * (L + 1)] = ByteXor(r[L], 0)
  <2>1. L \in 0 .. L /\ 8 * (L + 1) = 8 * L + 8
    BY <1>1
  <2> QED
    BY <1>6, <1>7, <1>10, <2>1
<1>12. r[L] \in Octets
  BY <1>1 DEF Runs
<1> QED
  BY <1>4, <1>11, <1>12, XorFacts

LEMMA ByteIsOctet == Byte = Octets
BY WidthAssumption DEF Byte, Octets

LEMMA CrcType ==
    ASSUME NEW message \in Seq(Octets)
    PROVE  crcFast(message) \in Octets
<1>1. Len(message) \in 0 .. Len(message)
  OBVIOUS
<1> QED
  BY <1>1, Remainders DEF Runs, crcFast

\* The remainder of a message with its own remainder behind it is CRC_OK.
LEMMA Residue ==
    ASSUME NEW message \in Seq(Octets)
    PROVE  crcFast(Append(message, crcFast(message))) = CRC_OK
<1> DEFINE L == Len(message)
           whole == Append(message, crcFast(message))
           r == remainders(message)
           s == remainders(whole)
<1>1. /\ L \in Nat /\ whole \in Seq(Octets) /\ Len(whole) = L + 1
      /\ whole[L + 1] = crcFast(message)
      /\ \A n \in 1 .. L : whole[n] = message[n]
  BY CrcType
<1>2. Runs(r, message, L) /\ Runs(s, whole, L + 1)
  BY <1>1, Remainders
<1>3. crcFast(message) = r[L] /\ crcFast(whole) = s[L + 1]
  BY <1>1 DEF crcFast
<1> HIDE DEF whole, L, r, s
<1>4. s[L] = r[L]
  <2> DEFINE T == {n \in 0 .. L : s[n] = r[n]}
  <2>1. 0 \in T
    BY <1>1, <1>2 DEF Runs
  <2>2. ASSUME NEW n \in 0 .. (L - 1), n \in T PROVE n + 1 \in T
    <3>1. n + 1 \in 1 .. L /\ n + 1 \in 1 .. (L + 1) /\ n + 1 \in 0 .. L /\ (n + 1) - 1 = n
      BY <1>1
    <3>2. r[n + 1] = NextRemainder(r[n], message[n + 1])
      BY <1>2, <3>1 DEF Runs
    <3>3. s[n + 1] = NextRemainder(s[n], whole[n + 1])
      BY <1>2, <3>1 DEF Runs
    <3> QED
      BY <1>1, <2>2, <3>1, <3>2, <3>3
  <2>3. \A n \in 0 .. L : n \in T
    <3> HIDE DEF T
    <3> QED
      BY <1>1, <2>1, <2>2, UpTo
  <2> QED
    BY <1>1, <2>3
<1>5. s[L + 1] = NextRemainder(r[L], r[L])
  <2>1. L + 1 \in 1 .. (L + 1) /\ (L + 1) - 1 = L
    BY <1>1
  <2>2. s[L + 1] = NextRemainder(s[L], whole[L + 1])
    BY <1>2, <2>1 DEF Runs
  <2> QED
    BY <1>1, <1>3, <1>4, <2>2
<1>6. r[L] \in Octets
  BY <1>1, <1>2 DEF Runs
<1>7. NextRemainder(r[L], r[L]) = 0
  <2>1. ByteXor(r[L], r[L]) = 0
    BY <1>6, XorFacts, XorBits
  <2> QED
    BY <2>1, TableFacts DEF NextRemainder
<1> QED
  BY <1>3, <1>5, <1>7 DEF whole, CRC_OK

\* Neither the byte nor the remainder before it can be exchanged unseen.
LEMMA StepTellsApart ==
    ASSUME NEW a \in Octets, NEW b \in Octets, NEW c \in Octets
    PROVE  /\ NextRemainder(a, b) = NextRemainder(a, c) => b = c
           /\ NextRemainder(b, a) = NextRemainder(c, a) => b = c
<1>1. ByteXor(a, b) = ByteXor(a, c) => b = c
  <2>1. ByteXor(a, ByteXor(a, b)) = b /\ ByteXor(a, ByteXor(a, c)) = c
    BY XorFacts, XorBits
  <2> QED
    BY <2>1
<1>2. /\ ByteXor(b, a) = ByteXor(a, b) /\ ByteXor(c, a) = ByteXor(a, c)
      /\ ByteXor(a, b) \in Octets /\ ByteXor(a, c) \in Octets
  BY XorFacts, XorBits
<1>3. Table[ByteXor(a, b) + 1] = Table[ByteXor(a, c) + 1] => ByteXor(a, b) = ByteXor(a, c)
  BY <1>2, TableFacts
<1> QED
  BY <1>1, <1>2, <1>3 DEF NextRemainder

(***************************************************************************)
(* One wrong byte, wherever it is, changes what crcFast returns, for every *)
(* message and every table that has each byte once.                        *)
(***************************************************************************)
THEOREM WrongByteIsSeen ==
    ASSUME NEW m \in Seq(Octets), NEW d \in Seq(Octets), Len(d) = Len(m),
           NEW i \in 1 .. Len(m), d[i] # m[i],
           \A n \in 1 .. Len(m) : n # i => d[n] = m[n]
    PROVE  crcFast(d) # crcFast(m)
<1> DEFINE L == Len(m)
           r == remainders(m)
           s == remainders(d)
<1>1. Runs(r, m, L) /\ Runs(s, d, L) /\ L \in Nat
  BY Remainders
<1>2. crcFast(m) = r[L] /\ crcFast(d) = s[L]
  BY DEF crcFast
<1>3. /\ \A n \in 1 .. L : m[n] \in Octets /\ d[n] \in Octets
      /\ \A n \in 1 .. L : n # i => d[n] = m[n]
      /\ i \in 1 .. L /\ d[i] # m[i]
  OBVIOUS
<1> HIDE DEF L, r, s
\* As long as the wrong byte has not been taken the remainders agree, and after
\* it they never do.
<1> DEFINE T == {n \in 0 .. L : r[n] = s[n] <=> n < i}
<1>4. 0 \in T
  BY <1>1, <1>3 DEF Runs
<1>5. ASSUME NEW n \in 0 .. (L - 1), n \in T PROVE n + 1 \in T
  <2>1. n + 1 \in 1 .. L /\ n + 1 \in 0 .. L /\ (n + 1) - 1 = n /\ n \in Nat /\ n \in 0 .. L
    BY <1>1
  <2>2. /\ r[n + 1] = NextRemainder(r[n], m[n + 1])
        /\ s[n + 1] = NextRemainder(s[n], d[n + 1])
        /\ r[n] \in Octets /\ s[n] \in Octets
    BY <1>1, <2>1 DEF Runs
  <2>3. m[n + 1] \in Octets /\ d[n + 1] \in Octets
    BY <1>3, <2>1
  <2>4. CASE n + 1 < i
    <3>1. n < i /\ n + 1 # i
      BY <1>3, <2>1, <2>4
    <3>2. r[n] = s[n] /\ d[n + 1] = m[n + 1]
      BY <1>3, <1>5, <2>1, <3>1
    <3> QED
      BY <2>1, <2>2, <2>4, <3>2
  <2>5. CASE n + 1 = i
    <3>1. n < i /\ ~(n + 1 < i)
      BY <1>3, <2>1, <2>5
    <3>2. r[n] = s[n] /\ d[n + 1] # m[n + 1]
      BY <1>3, <1>5, <2>5, <3>1
    <3>3. r[n + 1] # s[n + 1]
      BY <2>2, <2>3, <3>2, StepTellsApart
    <3> QED
      BY <2>1, <3>1, <3>3
  <2>6. CASE ~(n + 1 < i) /\ n + 1 # i
    <3>1. ~(n < i)
      BY <1>3, <2>1, <2>6
    <3>2. r[n] # s[n] /\ d[n + 1] = m[n + 1]
      BY <1>3, <1>5, <2>1, <2>6, <3>1
    <3>3. r[n + 1] # s[n + 1]
      BY <2>2, <2>3, <3>2, StepTellsApart
    <3> QED
      BY <2>1, <2>6, <3>3
  <2> QED
    BY <2>4, <2>5, <2>6
<1>6. \A n \in 0 .. L : n \in T
  <2> HIDE DEF T
  <2> QED
    BY <1>1, <1>4, <1>5, UpTo
<1>7. L \in T /\ ~(L < i)
  BY <1>1, <1>3, <1>6
<1> QED
  BY <1>2, <1>7

-----------------------------------------------------------------------------
\* The buffers.

Encoding ==
    /\ code < write /\ write <= DstLen + 1
    /\ write = DstLen + 1 => code = DstLen
    /\ DOMAIN dst = (0 .. (write - 1)) \ {code}
    /\ \A i \in DOMAIN dst : dst[i] # 0
    /\ search = MaxCode => read = Len(src)

Filled == write <= DstLen /\ DOMAIN dst = 0 .. (write - 1)

CobsInv ==
    /\ CodecTypeOK
    /\ phase = "encode" => Encoding
    /\ phase # "encode" => Filled
    /\ NoZeroInside

-----------------------------------------------------------------------------
\* A byte not yet read is a byte.
LEMMA NextByteType ==
  ASSUME CodecTypeOK, read < Len(src)
  PROVE  NextByte \in Byte
BY DEF CodecTypeOK, NextByte

LEMMA InitInv == Init => CobsInv
<1> SUFFICES ASSUME Init PROVE CobsInv
  OBVIOUS
<1>m. \A p \in Payloads : p \in Seq(Byte) /\ Append(p, crcFast(p)) \in Seq(Byte)
  BY PayloadAssumption, CrcType, ByteIsOctet
<1>a. Fresh /\ src \in Seq(Byte) /\ phase \in {"encode", "decode"} /\ write \in {0, 1}
         /\ (phase = "encode" => write = 1) /\ (phase = "decode" => write = 0)
  BY <1>m, PayloadAssumption DEF Init, StartsEncoding, StartsDecoding
<1>1. CodecTypeOK
  BY <1>a, CodeAssumption DEF Fresh, CodecTypeOK, Empty, CodeAlone, Flags, Byte
<1>2. DOMAIN dst = {}
  BY <1>a DEF Fresh, Empty
<1>3. phase = "encode" => Encoding
  BY <1>a, <1>2, CodeAssumption, BufferAssumption DEF Fresh, Encoding, CodeAlone
<1>4. phase # "encode" => Filled
  BY <1>a, <1>2, BufferAssumption DEF Filled
<1>5. NoZeroInside
  BY <1>a DEF NoZeroInside
<1> QED
  BY <1>1, <1>3, <1>4, <1>5 DEF CobsInv

-----------------------------------------------------------------------------
\* The steps of cobs_encode.

LEMMA EncodeZeroStep == CobsInv /\ EncodeZero => CobsInv'
<1> SUFFICES ASSUME CobsInv, EncodeZero PROVE CobsInv'
  OBVIOUS
<1>0. CodecTypeOK /\ Encoding /\ phase = "encode"
  BY DEF CobsInv, EncodeZero
<1>1. /\ search \in Byte /\ search # 0 /\ dst' = Put(dst, code, search)
      /\ dst \in [DOMAIN dst -> Byte]
  BY <1>0, CodeAssumption, ByteAssumption DEF CodecTypeOK, Byte, EncodeZero
<1>2. /\ DOMAIN dst' = DOMAIN dst \cup {code}
      /\ dst' \in [DOMAIN dst' -> Byte]
      /\ dst'[code] = search
      /\ \A x \in DOMAIN dst : x # code => dst'[x] = dst[x]
  BY <1>1 DEF Put
<1>3. CodecTypeOK'
  <2>1. read' \in 0 .. Len(src')
    BY <1>0 DEF CodecTypeOK, EncodeZero
  <2>2. write' \in Nat /\ code' \in Nat /\ search' \in 1 .. MaxCode
    BY <1>0, CodeAssumption DEF CodecTypeOK, EncodeZero, CodeAlone
  <2> QED
    BY <1>0, <1>2, <2>1, <2>2 DEF CodecTypeOK, EncodeZero
<1>4. Encoding'
  <2>1. /\ code' = write /\ write' = write + 1 /\ search' = 1 /\ write < DstLen
        /\ write \in Nat /\ code \in Nat /\ code < write
    BY <1>0 DEF EncodeZero, CodeAlone, Room, CodecTypeOK, Encoding
  <2>2. DOMAIN dst' = (0 .. (write' - 1)) \ {code'}
    BY <1>0, <1>2, <2>1 DEF Encoding
  <2>3. \A i \in DOMAIN dst' : dst'[i] # 0
    BY <1>0, <1>1, <1>2 DEF Encoding
  <2> QED
    BY <2>1, <2>2, <2>3, CodeAssumption, BufferAssumption DEF Encoding
<1>5. phase' = "encode"
  BY <1>0 DEF EncodeZero
<1> QED
  BY <1>3, <1>4, <1>5 DEF CobsInv, NoZeroInside

LEMMA EncodeOtherStep == CobsInv /\ EncodeOther => CobsInv'
<1> SUFFICES ASSUME CobsInv, EncodeOther PROVE CobsInv'
  OBVIOUS
<1>0. CodecTypeOK /\ Encoding /\ phase = "encode" /\ read < Len(src)
  BY DEF CobsInv, EncodeOther
<1> DEFINE copied == Put(dst, write, NextByte)
<1> HIDE DEF copied
<1>a. NextByte \in Byte /\ NextByte # 0 /\ dst \in [DOMAIN dst -> Byte]
  BY <1>0, NextByteType DEF CodecTypeOK, EncodeOther
<1>1. /\ DOMAIN copied = DOMAIN dst \cup {write}
      /\ copied \in [DOMAIN copied -> Byte]
      /\ copied[write] = NextByte
      /\ \A x \in DOMAIN dst : x # write => copied[x] = dst[x]
  BY <1>a DEF Put, copied
<1>b. search \in 1 .. (MaxCode - 1)
  BY <1>0, CodeAssumption DEF CodecTypeOK, Encoding
<1>c. read' = read + 1 /\ src' = src /\ read' \in 0 .. Len(src)
  BY <1>0 DEF CodecTypeOK, EncodeOther
<1>d. search + 1 \in Byte /\ search + 1 # 0 /\ search + 1 \in 1 .. MaxCode
  BY <1>b, CodeAssumption, ByteAssumption DEF Byte
<1>e. write \in Nat /\ code \in Nat /\ code < write /\ write < DstLen
  BY <1>0 DEF CodecTypeOK, Encoding, EncodeOther, Room
<1>f. status' = status /\ phase' = phase
  BY DEF EncodeOther
<1>2. /\ search + 1 \in Byte /\ search + 1 # 0 /\ search + 1 \in 1 .. MaxCode
      /\ write \in Nat /\ code \in Nat /\ code < write /\ write < DstLen
      /\ read' = read + 1 /\ src' = src /\ read' \in 0 .. Len(src)
      /\ phase' = "encode" /\ status' = status
  BY <1>0, <1>c, <1>d, <1>e, <1>f
<1>3. /\ DOMAIN copied = (0 .. write) \ {code}
      /\ \A i \in DOMAIN copied : copied[i] # 0
  BY <1>0, <1>a, <1>1, <1>2 DEF Encoding
<1>4. CASE EndsBlock(search + 1, read' = Len(src))
  <2>1. /\ dst' = Put(copied, code, search + 1)
        /\ code' = write + 1 /\ write' = write + 2 /\ search' = 1
    BY <1>4 DEF EncodeOther, copied, CodeAlone
  <2>2. /\ DOMAIN dst' = DOMAIN copied \cup {code}
        /\ dst' \in [DOMAIN dst' -> Byte]
        /\ dst'[code] = search + 1
        /\ \A x \in DOMAIN copied : x # code => dst'[x] = copied[x]
    BY <1>1, <1>2, <2>1 DEF Put
  <2>3. CodecTypeOK'
    BY <1>0, <1>2, <2>1, <2>2, CodeAssumption DEF CodecTypeOK
  <2>4. DOMAIN dst' = (0 .. (write' - 1)) \ {code'}
    BY <1>2, <1>3, <2>1, <2>2
  <2>5. \A i \in DOMAIN dst' : dst'[i] # 0
    BY <1>2, <1>3, <2>2
  <2>6. Encoding'
    BY <1>2, <2>1, <2>4, <2>5, CodeAssumption, BufferAssumption DEF Encoding
  <2> QED
    BY <1>2, <2>3, <2>6 DEF CobsInv, NoZeroInside
<1>5. CASE ~EndsBlock(search + 1, read' = Len(src))
  <2>1. dst' = copied /\ code' = code /\ write' = write + 1 /\ search' = search + 1
    BY <1>5 DEF EncodeOther, copied
  <2>2. CodecTypeOK'
    BY <1>0, <1>1, <1>2, <2>1, CodeAssumption DEF CodecTypeOK
  <2>3. search' = MaxCode => read' = Len(src')
    BY <1>2, <1>5, <2>1 DEF EndsBlock
  <2>4. DOMAIN dst' = (0 .. (write' - 1)) \ {code'}
    BY <1>2, <1>3, <2>1
  <2>5. Encoding'
    BY <1>2, <1>3, <2>1, <2>3, <2>4, BufferAssumption DEF Encoding
  <2> QED
    BY <1>2, <2>2, <2>5 DEF CobsInv, NoZeroInside
<1> QED
  BY <1>4, <1>5

LEMMA FinishEncodeStep == CobsInv /\ FinishEncode => CobsInv'
<1> SUFFICES ASSUME CobsInv, FinishEncode PROVE CobsInv'
  OBVIOUS
<1>0. CodecTypeOK /\ Encoding /\ phase = "encode" /\ phase' = "encoded"
  BY DEF CobsInv, FinishEncode
<1>1. /\ search \in Byte /\ search # 0 /\ dst \in [DOMAIN dst -> Byte]
      /\ write \in Nat /\ code \in Nat /\ code < write /\ write <= DstLen + 1
      /\ DstLen \in Nat
  BY <1>0, CodeAssumption, ByteAssumption, BufferAssumption DEF CodecTypeOK, Byte, Encoding
<1>2. CASE CodeFits
  <2>1. dst' = Put(dst, code, search) /\ write' = write /\ status' = status
    BY <1>2 DEF FinishEncode
  <2>2. /\ DOMAIN dst' = DOMAIN dst \cup {code}
        /\ dst' \in [DOMAIN dst' -> Byte]
        /\ dst'[code] = search
        /\ \A x \in DOMAIN dst : x # code => dst'[x] = dst[x]
    BY <1>1, <2>1 DEF Put
  <2>3. CodecTypeOK'
    BY <1>0, <2>1, <2>2 DEF CodecTypeOK, FinishEncode, blocks
  <2>4. Filled'
    BY <1>0, <1>1, <1>2, <2>1, <2>2 DEF Filled, Encoding, CodeFits
  <2>5. NoZeroInside'
    BY <1>0, <1>1, <2>2 DEF NoZeroInside, Encoding
  <2> QED
    BY <1>0, <2>3, <2>4, <2>5 DEF CobsInv
<1>3. CASE ~CodeFits
  <2>1. /\ dst' = dst /\ write' = DstLen
        /\ status' = status \cup {"OUT_BUFFER_OVERFLOW"}
    BY <1>3 DEF FinishEncode
  <2>2. CodecTypeOK'
    BY <1>0, <1>1, <2>1 DEF CodecTypeOK, FinishEncode, blocks, Flags
  <2>3. code = DstLen /\ write = DstLen + 1
    BY <1>1, <1>3 DEF CodeFits
  <2>4. Filled'
    BY <1>0, <1>1, <2>1, <2>3 DEF Filled, Encoding
  <2>5. NoZeroInside'
    BY <1>0, <2>1 DEF NoZeroInside, Encoding
  <2> QED
    BY <1>0, <2>2, <2>4, <2>5 DEF CobsInv
<1> QED
  BY <1>2, <1>3

-----------------------------------------------------------------------------
\* The steps of cobs_decode.

LEMMA DecodesStep ==
  ASSUME CobsInv, NEW packet \in Seq(Byte), Decodes(packet)
  PROVE  CobsInv'
<1>1. /\ src' = packet /\ read' = 0 /\ write' = 0 /\ dst' = Empty /\ status' = {}
      /\ phase' = "decode" /\ code' = code /\ search' = search
  BY DEF Decodes, blocks
<1>2. read' \in 0 .. Len(src')
  BY <1>1
<1>3. DOMAIN dst' = {} /\ dst' \in [DOMAIN dst' -> Byte]
  BY <1>1 DEF Empty
<1>4. CodecTypeOK'
  BY <1>1, <1>2, <1>3 DEF CobsInv, CodecTypeOK
<1>5. Filled'
  BY <1>1, <1>3, BufferAssumption DEF Filled
<1> QED
  BY <1>1, <1>4, <1>5 DEF CobsInv, NoZeroInside

LEMMA CopiesBounds ==
  ASSUME CodecTypeOK, Filled, read < Len(src), NextByte # 0
  PROVE  /\ Copies \in Nat
         /\ read + 1 + Copies <= Len(src)
         /\ write + Copies <= DstLen
<1>1. NextByte \in 1 .. MaxByte
  BY NextByteType DEF Byte
<1>2. Claimed \in Nat
  BY <1>1, ByteAssumption DEF Claimed
<1>3. /\ read \in Nat /\ write \in Nat /\ DstLen \in Nat /\ Len(src) \in Nat
      /\ write <= DstLen
  BY BufferAssumption DEF CodecTypeOK, Filled
<1>4. Len(src) - (read + 1) \in Nat /\ DstLen - write \in Nat
  BY <1>3
<1>5. InInput \in Nat /\ InInput <= Len(src) - (read + 1)
  BY <1>2, <1>4 DEF InInput, Least
<1>6. Copies \in Nat /\ Copies <= InInput /\ Copies <= DstLen - write
  BY <1>4, <1>5 DEF Copies, Least
<1> QED
  BY <1>3, <1>5, <1>6

LEMMA BlockType ==
  ASSUME CodecTypeOK, Filled, NEW k \in Nat, read + 1 + k <= Len(src)
  PROVE  /\ DOMAIN Block(k) = 0 .. (write + k - 1)
         /\ \A x \in DOMAIN Block(k) : Block(k)[x] \in Byte
         /\ Block(k) \in [DOMAIN Block(k) -> Byte]
<1>1. /\ DOMAIN dst = 0 .. (write - 1) /\ write \in Nat /\ read \in Nat
      /\ dst \in [DOMAIN dst -> Byte] /\ src \in Seq(Byte)
  BY DEF CodecTypeOK, Filled
<1>2. DOMAIN Block(k) = 0 .. (write + k - 1)
  BY <1>1 DEF Block
<1>3. ASSUME NEW x \in DOMAIN Block(k) PROVE Block(k)[x] \in Byte
  <2>1. CASE x < write
    BY <1>1, <1>2, <2>1 DEF Block
  <2>2. CASE ~(x < write)
    <3>1. read + 2 + (x - write) \in 1 .. Len(src)
      BY <1>1, <1>2, <2>2
    <3>2. src[read + 2 + (x - write)] \in Byte
      BY <1>1, <3>1
    <3> QED
      BY <1>1, <1>2, <2>2, <3>2 DEF Block
  <2> QED
    BY <2>1, <2>2
<1> QED
  BY <1>2, <1>3 DEF Block

LEMMA DecodeBlockStep == CobsInv /\ DecodeBlock => CobsInv'
<1> SUFFICES ASSUME CobsInv, DecodeBlock PROVE CobsInv'
  OBVIOUS
<1>0. CodecTypeOK /\ Filled /\ read < Len(src) /\ NextByte # 0 /\ phase = "decode"
  BY DEF CobsInv, DecodeBlock
<1>1. /\ Copies \in Nat /\ read + 1 + Copies <= Len(src)
      /\ write + Copies <= DstLen /\ DstLen \in Nat /\ write \in Nat
  BY <1>0, CopiesBounds, BufferAssumption DEF CodecTypeOK
<1>2. /\ DOMAIN Block(Copies) = 0 .. (write + Copies - 1)
      /\ Block(Copies) \in [DOMAIN Block(Copies) -> Byte]
  BY <1>0, <1>1, BlockType
<1> DEFINE zero == read' # Len(src) /\ StandsForZero(Copies)
           room == write + Copies < DstLen
<1>3. /\ DOMAIN dst' = 0 .. (write' - 1) /\ write' \in Nat /\ write' <= DstLen
      /\ dst' \in [DOMAIN dst' -> Byte]
  <2>1. CASE zero /\ room
    <3>1. /\ dst' = Put(Block(Copies), write + Copies, 0)
          /\ write' = write + Copies + 1
      BY <2>1 DEF DecodeBlock
    <3>2. 0 \in Byte
      BY ByteAssumption DEF Byte
    <3>3. /\ DOMAIN dst' = DOMAIN Block(Copies) \cup {write + Copies}
          /\ dst' \in [DOMAIN dst' -> Byte]
      BY <1>2, <3>1, <3>2 DEF Put
    <3>4. write' \in Nat /\ write' <= DstLen /\ write' - 1 = write + Copies
      BY <1>1, <2>1, <3>1
    <3>5. DOMAIN dst' = 0 .. (write + Copies)
      BY <1>1, <1>2, <3>3
    <3> QED
      BY <3>3, <3>4, <3>5
  <2>2. CASE ~(zero /\ room)
    <3>1. dst' = Block(Copies) /\ write' = write + Copies + 0
      BY <2>2 DEF DecodeBlock
    <3> QED
      BY <1>1, <1>2, <3>1
  <2> QED
    BY <2>1, <2>2
<1>4. phase' \in {"decode", "decoded"}
  BY <1>0 DEF DecodeBlock
<1>5. CodecTypeOK'
  <2>1. read' \in 0 .. Len(src')
    BY <1>0, <1>1 DEF CodecTypeOK, DecodeBlock
  <2>2. status' \subseteq Flags
    BY <1>0 DEF CodecTypeOK, DecodeBlock, BlockFlags, Flags
  <2> QED
    BY <1>0, <1>3, <1>4, <2>1, <2>2 DEF CodecTypeOK, DecodeBlock, blocks
<1> QED
  BY <1>3, <1>4, <1>5 DEF CobsInv, Filled, NoZeroInside

-----------------------------------------------------------------------------
\* The invariant, kept by every step.
LEMMA CodecStep == CobsInv /\ (Encode \/ Decode \/ UNCHANGED codecVars) => CobsInv'
<1> SUFFICES ASSUME CobsInv, Encode \/ Decode \/ UNCHANGED codecVars PROVE CobsInv'
  OBVIOUS
<1>1. CASE NoRoom
  BY <1>1 DEF CobsInv, NoRoom, CodecTypeOK, Flags, Encoding, Filled, NoZeroInside, blocks
<1>2. CASE NothingToDecode
  BY <1>2 DEF CobsInv, NothingToDecode, CodecTypeOK, Encoding, Filled, NoZeroInside,
     blocks
<1>3. CASE ZeroCode
  BY <1>3 DEF CobsInv, ZeroCode, CodecTypeOK, Flags, Encoding, Filled, NoZeroInside,
     blocks
<1>4. CASE UNCHANGED codecVars
  BY <1>4 DEF CobsInv, codecVars, CodecTypeOK, Encoding, Filled, NoZeroInside, blocks
<1> QED
  BY <1>1, <1>2, <1>3, <1>4, EncodeZeroStep, EncodeOtherStep, FinishEncodeStep,
     DecodeBlockStep DEF Encode, Decode

-----------------------------------------------------------------------------
\* The packet around the codec.

PacketInv ==
    /\ CobsInv
    /\ TypeOK

LEMMA InitPacket == Init => PacketInv
<1> SUFFICES ASSUME Init PROVE PacketInv
  OBVIOUS
<1>1. CobsInv
  BY InitInv
<1>2. payload \in Payloads \cup {NoPayload} /\ line \in Seq(Byte)
  BY DEF Init
<1> QED
  BY <1>1, <1>2 DEF PacketInv, CobsInv, TypeOK, Init, Verdicts

\* What was written is a sequence of bytes.
LEMMA WrittenType ==
  ASSUME CobsInv, phase # "encode"
  PROVE  Written \in Seq(Byte)
<1>1. Filled /\ write \in Nat /\ dst \in [DOMAIN dst -> Byte]
  BY DEF CobsInv, CodecTypeOK
<1>2. \A i \in 1 .. write : dst[i - 1] \in Byte
  BY <1>1 DEF Filled
<1> QED
  BY <1>1, <1>2 DEF Written

LEMMA PacketStep == PacketInv /\ [Next]_vars => PacketInv'
<1> SUFFICES ASSUME PacketInv, [Next]_vars PROVE PacketInv'
  OBVIOUS
<1>0. CobsInv /\ line \in Seq(Byte) /\ 0 \in Byte
  BY ByteAssumption DEF PacketInv, TypeOK, Byte
<1>t. ASSUME CobsInv', line' \in Seq(Byte), payload' = payload, intact' \in BOOLEAN,
             verdict' \in Verdicts
      PROVE  PacketInv'
  BY <1>t DEF PacketInv, CobsInv, TypeOK
<1>1. CASE (Encode \/ Decode) /\ UNCHANGED packetVars
  <2>1. CobsInv'
    BY <1>0, <1>1, CodecStep
  <2> QED
    BY <1>1, <1>t, <2>1 DEF packetVars, PacketInv, TypeOK
<1>2. CASE Send
  <2>1. CobsInv'
    BY <1>0, <1>2, CodecStep DEF Send
  <2>2. Written \in Seq(Byte)
    BY <1>0, <1>2, WrittenType DEF Send
  <2>3. line' \in Seq(Byte)
    BY <1>0, <1>2, <2>2 DEF Send
  <2> QED
    BY <1>2, <1>t, <2>1, <2>3 DEF Send, PacketInv, TypeOK
<1>3. CASE Drop \/ Wait \/ Check
  <2>1. CobsInv'
    BY <1>0, <1>3, CodecStep DEF Drop, Wait, Check
  <2>2. verdict' \in Verdicts
    BY <1>3 DEF Drop, Wait, Check, Judge, Verdicts
  <2> QED
    BY <1>0, <1>3, <1>t, <2>1, <2>2 DEF Drop, Wait, Check, PacketInv, TypeOK
<1>4. CASE Damage
  <2>1. CobsInv'
    BY <1>0, <1>4, CodecStep DEF Damage
  <2>2. line' \in Seq(Byte)
    BY <1>0, <1>4, PayloadAssumption DEF Damage
  <2> QED
    BY <1>4, <1>t, <2>1, <2>2 DEF Damage, PacketInv, TypeOK
<1>5. CASE Receive
  <2>1. PICK e \in Ends, s \in 1 .. Len(line) : s <= e /\ Decodes(SubSeq(line, s, e - 1))
    BY <1>5 DEF Receive
  <2>2. SubSeq(line, s, e - 1) \in Seq(Byte)
    BY <1>0, <2>1 DEF Ends
  <2>3. CobsInv'
    BY <1>0, <2>1, <2>2, DecodesStep
  <2> QED
    BY <1>0, <1>5, <1>t, <2>3 DEF Receive, packetVars, PacketInv, TypeOK
<1>6. CASE UNCHANGED vars
  <2>1. CobsInv'
    BY <1>0, <1>6, CodecStep DEF vars
  <2> QED
    BY <1>0, <1>6, <1>t, <2>1 DEF vars, packetVars, PacketInv, TypeOK
<1> QED
  BY <1>1, <1>2, <1>3, <1>4, <1>5, <1>6 DEF Next

LEMMA PacketInvAlways == Spec => []PacketInv
BY InitPacket, PacketStep, PTL DEF Spec

\* The codec's variables and the packet's keep their types, whatever is
\* encoded, damaged or decoded.
THEOREM PacketTypes == Spec => []TypeOK
<1>1. PacketInv => TypeOK
  BY DEF PacketInv
<1> QED
  BY <1>1, PacketInvAlways, PTL

\* The checksum that command_callback puts behind a message is the remainder of
\* its division by the polynomial, for every message.
THEOREM ChecksumIsRemainder == Spec => []CrcIsRemainder
<1>1. TypeOK => CrcIsRemainder
  <2> SUFFICES ASSUME TypeOK, payload # NoPayload
               PROVE  crcFast(payload) = Remainder(payload)
    BY DEF CrcIsRemainder
  <2>1. payload \in Seq(Octets)
    BY PayloadAssumption, ByteIsOctet DEF TypeOK
  <2> QED
    BY <2>1, CrcDivides
<1> QED
  BY <1>1, PacketTypes, PTL

(***************************************************************************)
(* cobs_encode and cobs_decode write inside the buffer they are given and  *)
(* report the length they wrote, for every buffer, message and noise.      *)
(***************************************************************************)
THEOREM WritesInBuffer == Spec => []InBuffer
<1>1. PacketInv => InBuffer
  <2> SUFFICES ASSUME CobsInv PROVE InBuffer
    BY DEF PacketInv
  <2>1. CASE phase = "encode"
    <3>1. Encoding /\ write \in Nat /\ code \in Nat /\ DstLen \in Nat
      BY <2>1, BufferAssumption DEF CobsInv, CodecTypeOK
    <3> QED
      BY <2>1, <3>1 DEF InBuffer, Encoding
  <2>2. CASE phase # "encode"
    <3>1. Filled /\ write \in Nat /\ DstLen \in Nat
      BY <2>2, BufferAssumption DEF CobsInv, CodecTypeOK
    <3> QED
      BY <3>1 DEF InBuffer, Filled
  <2> QED
    BY <2>1, <2>2
<1> QED
  BY <1>1, PacketInvAlways, PTL

\* No byte that cobs_encode leaves in its buffer is zero, even when it stops
\* for want of room: the zero that command_callback appends is the only one.
THEOREM NoZeroInEncoding == Spec => []NoZeroInside
<1>1. PacketInv => NoZeroInside
  BY DEF PacketInv, CobsInv
<1> QED
  BY <1>1, PacketInvAlways, PTL

-----------------------------------------------------------------------------
(***************************************************************************)
(* What FrameFits rests on.  After `full' blocks that were full, the write *)
(* pointer is that many places ahead of where the codes of other blocks    *)
(* would put it, and those blocks hold full * (MaxCode - 1) bytes.  The    *)
(* last of them is not the end of the message.                             *)
(***************************************************************************)

Per == MaxCode - 1

\* The message is one that the header counts with.
Counted == payload # NoPayload /\ Len(payload) <= MaxPayload

Sized ==
    phase = "encode" /\ Counted =>
        /\ src = Append(payload, crcFast(payload))
        /\ status = {}
        /\ \E full \in Nat :
              /\ write = read + 1 + full
              /\ full * Per + (search - 1) <= read
              /\ read = Len(src) => full * Per < read

\* The rounded-up division of EncodedMax counts a block that is begun.
LEMMA BlocksBegun ==
  ASSUME NEW n \in Nat, NEW most \in Nat, n <= most, NEW full \in Nat,
         full * Per < n
  PROVE  /\ (most + MaxCode - 2) \div (MaxCode - 1) \in Nat
         /\ full + 1 <= (most + MaxCode - 2) \div (MaxCode - 1)
<1> DEFINE k == MaxCode - 1
           a == most + k - 1
           q == a \div k
<1>1. k \in Nat /\ k > 0 /\ Per = k
  BY CodeAssumption DEF Per
<1>2. a \in Nat /\ full * k + k <= a
  BY <1>1
<1> HIDE DEF k, a
<1>3. q \in Nat /\ a < k * (q + 1) /\ k * q <= a
  BY <1>1, <1>2
<1> HIDE DEF q
<1>4. full + 1 <= q
  <2>1. SUFFICES ASSUME q < full + 1 PROVE FALSE
    BY <1>3
  <2>2. q + 1 <= full + 1
    BY <1>3, <2>1
  <2>3. k * (q + 1) <= k * (full + 1)
    BY <1>1, <1>3, <2>2
  <2>4. k * (full + 1) = full * k + k
    BY <1>1
  <2> QED
    BY <1>1, <1>2, <1>3, <2>3, <2>4
<1>5. q = (most + MaxCode - 2) \div (MaxCode - 1)
  BY CodeAssumption DEF q, a, k
<1> QED
  BY <1>3, <1>4, <1>5

\* While a counted message has bytes left there is room for one, and when it
\* has none there is room for its last code and the zero.
LEMMA RoomLeft ==
  ASSUME PacketInv, Sized, Counted, phase = "encode"
  PROVE  /\ read < Len(src) => Room
         /\ read = Len(src) => write + 1 <= DstLen
<1>1. /\ src = Append(payload, crcFast(payload)) /\ read \in 0 .. Len(src)
      /\ payload \in Seq(Byte) /\ crcFast(payload) \in Byte /\ search \in 1 .. MaxCode
      /\ MaxPayload \in Nat /\ Len(payload) <= MaxPayload
  BY PayloadAssumption, SizeAssumption, CrcType, ByteIsOctet
     DEF PacketInv, TypeOK, CodecTypeOK, Sized, Counted
<1>2. Len(src) \in Nat /\ Len(src) <= MaxPayload + 1 /\ Len(src) > 0
  BY <1>1
<1>3. PICK full \in Nat :
         /\ write = read + 1 + full
         /\ full * Per + (search - 1) <= read
         /\ read = Len(src) => full * Per < read
  BY DEF Sized
<1>4. full * Per \in Nat /\ full * Per <= read
  BY <1>1, <1>3, CodeAssumption DEF Per
<1>5. full * Per < Len(src)
  BY <1>1, <1>2, <1>3, <1>4
<1> DEFINE most == MaxPayload + 1
           rounded == (most + MaxCode - 2) \div (MaxCode - 1)
<1>6. most \in Nat /\ most # 0
  BY <1>1
<1>7. DstLen = most + rounded + 1
  BY <1>6, SizeAssumption DEF EncodedMax
<1> HIDE DEF most
<1>8. rounded \in Nat /\ full + 1 <= rounded
  BY <1>2, <1>5, <1>6, BlocksBegun DEF most
<1> HIDE DEF rounded
<1>9. Len(src) <= most
  BY <1>2 DEF most
<1> QED
  BY <1>1, <1>2, <1>3, <1>6, <1>7, <1>8, <1>9 DEF Room

SizeInv == PacketInv /\ Sized /\ FrameFits

LEMMA InitSize == Init => SizeInv
<1> SUFFICES ASSUME Init PROVE SizeInv
  OBVIOUS
<1>1. PacketInv
  BY InitPacket
<1>2. ASSUME phase = "encode", Counted PROVE SizeInv
  <2>1. /\ payload \in Payloads /\ src = Append(payload, crcFast(payload))
        /\ write = 1 /\ read = 0 /\ search = 1 /\ status = {}
    BY <1>2 DEF Init, StartsEncoding, StartsDecoding, Counted, Fresh, CodeAlone
  <2>2. Len(src) # 0
    BY <2>1, PayloadAssumption
  <2>3. 0 * Per + (search - 1) <= read /\ write = read + 1 + 0
    BY <2>1, CodeAssumption DEF Per
  <2>4. Sized
    BY <2>1, <2>2, <2>3 DEF Sized
  <2> QED
    BY <1>1, <1>2, <2>4 DEF SizeInv, FrameFits
<1>3. phase # "encoded"
  BY DEF Init, StartsEncoding, StartsDecoding
<1>4. Sized \/ (phase = "encode" /\ Counted)
  BY DEF Sized
<1> QED
  BY <1>1, <1>2, <1>3, <1>4 DEF SizeInv, FrameFits

LEMMA SizeStep == SizeInv /\ [Next]_vars => SizeInv'
<1> SUFFICES ASSUME SizeInv, [Next]_vars PROVE SizeInv'
  OBVIOUS
<1>0. PacketInv /\ Sized /\ FrameFits /\ PacketInv'
  BY PacketStep DEF SizeInv
<1>t. CodecTypeOK /\ read \in Nat /\ search \in 1 .. MaxCode /\ Per \in Nat
  BY <1>0, CodeAssumption DEF PacketInv, TypeOK, CodecTypeOK, Per
<1>c. payload' = payload
  BY DEF Next, packetVars, Send, Drop, Damage, Receive, Wait, Check, vars
\* A step that ends the encoding, or is not of it.
<1>1. CASE phase' # "encode"
  <2>1. Sized'
    BY <1>1 DEF Sized
  <2>2. CASE phase' # "encoded"
    BY <1>0, <2>1, <2>2 DEF SizeInv, FrameFits
  <2>3. CASE phase' = "encoded" /\ FinishEncode
    <3>1. ASSUME Counted PROVE status' = {} /\ write' + 1 <= DstLen
      <4>1. phase = "encode" /\ status = {}
        BY <1>0, <2>3, <3>1 DEF FinishEncode, Sized
      <4>2. read = Len(src)
        BY <2>3, <4>1 DEF FinishEncode
      <4>3. write + 1 <= DstLen
        BY <1>0, <3>1, <4>1, <4>2, RoomLeft
      <4>4. code < write /\ code \in Nat /\ write \in Nat
        BY <1>0, <1>t, <4>1 DEF PacketInv, CobsInv, Encoding, CodecTypeOK
      <4>5. CodeFits
        BY <4>3, <4>4, BufferAssumption DEF CodeFits
      <4> QED
        BY <2>3, <4>1, <4>3, <4>5 DEF FinishEncode
    <3>2. FrameFits'
      BY <1>c, <3>1 DEF FrameFits, Counted
    <3> QED
      BY <1>0, <2>1, <3>2 DEF SizeInv
  <2>4. CASE phase' = "encoded" /\ ~FinishEncode
    <3>1. phase = "encoded" /\ status' = status /\ write' = write
      BY <2>4 DEF Next, Encode, Decode, NoRoom, EncodeZero, EncodeOther,
         NothingToDecode, ZeroCode, DecodeBlock, Send, Drop, Damage, Receive, Decodes,
         Wait, Check, codecVars, vars
    <3>2. FrameFits'
      BY <1>0, <1>c, <2>4, <3>1 DEF FrameFits
    <3> QED
      BY <1>0, <2>1, <3>2 DEF SizeInv
  <2> QED
    BY <2>2, <2>3, <2>4
<1>2. CASE phase' = "encode"
  <2>0. FrameFits'
    BY <1>2 DEF FrameFits
  <2> SUFFICES ASSUME Counted PROVE Sized'
    BY <1>0, <1>c, <2>0 DEF SizeInv, Sized, Counted
  <2>1. phase = "encode" /\ src' = src
    BY <1>2 DEF Next, Encode, Decode, NoRoom, EncodeZero, EncodeOther, FinishEncode,
       NothingToDecode, ZeroCode, DecodeBlock, Send, Drop, Damage, Receive, Decodes,
       Wait, Check, codecVars, vars
  <2>2. src = Append(payload, crcFast(payload)) /\ status = {}
    BY <1>0, <2>1 DEF Sized
  <2>3. PICK full \in Nat :
           /\ write = read + 1 + full
           /\ full * Per + (search - 1) <= read
           /\ read = Len(src) => full * Per < read
    BY <1>0, <2>1 DEF Sized
  <2>4. full * Per \in Nat /\ full * Per <= read
    BY <1>t, <2>3
  <2> DEFINE fp == full * Per
  <2>f. ASSUME NEW other \in Nat, write' = read' + 1 + other,
               other * Per + (search' - 1) <= read',
               read' = Len(src) => other * Per < read', status' = {}
        PROVE  Sized'
    BY <1>c, <2>1, <2>2, <2>f DEF Sized
  <2>5. CASE NoRoom
    <3>1. Room
      BY <1>0, <2>1, <2>5, RoomLeft DEF NoRoom
    <3> QED
      BY <2>5, <3>1 DEF NoRoom
  <2>6. CASE EncodeZero
    <3>1. /\ read' = read + 1 /\ write' = write + 1 /\ search' = 1 /\ status' = {}
      BY <2>2, <2>6 DEF EncodeZero, CodeAlone
    <3>2. write' = read' + 1 + full /\ fp + (search' - 1) <= read' /\ fp < read'
      BY <1>t, <2>3, <2>4, <3>1
    <3> QED
      BY <2>f, <3>1, <3>2
  <2>7. CASE EncodeOther
    <3>1. read' = read + 1 /\ status' = {}
      BY <2>2, <2>7 DEF EncodeOther
    <3>2. CASE EndsBlock(search + 1, read' = Len(src))
      <4>1. write' = write + 2 /\ search' = 1 /\ search + 1 = MaxCode /\ read' # Len(src)
        BY <2>7, <3>2 DEF EncodeOther, EndsBlock, CodeAlone
      <4>2. (full + 1) * Per = fp + Per /\ search - 1 = Per - 1
        BY <1>t, <4>1, CodeAssumption DEF Per
      <4>3. write' = read' + 1 + (full + 1) /\ fp + Per + (search' - 1) <= read'
        BY <1>t, <2>3, <2>4, <3>1, <4>1, <4>2
      <4> QED
        BY <2>f, <3>1, <4>1, <4>2, <4>3
    <3>3. CASE ~EndsBlock(search + 1, read' = Len(src))
      <4>1. write' = write + 1 /\ search' = search + 1
        BY <2>7, <3>3 DEF EncodeOther
      <4>2. write' = read' + 1 + full /\ fp + (search' - 1) <= read' /\ fp < read'
        BY <1>t, <2>3, <2>4, <3>1, <4>1
      <4> QED
        BY <2>f, <3>1, <4>2
    <3> QED
      BY <3>2, <3>3
  <2>8. CASE ~(NoRoom \/ EncodeZero \/ EncodeOther)
    <3>1. read' = read /\ write' = write /\ search' = search /\ status' = status
      BY <1>2, <2>1, <2>8 DEF Next, Encode, Decode, FinishEncode, NothingToDecode,
         ZeroCode, DecodeBlock, Send, Drop, Damage, Receive, Decodes, Wait, Check,
         codecVars, blocks, vars
    <3> QED
      BY <2>2, <2>3, <2>f, <3>1
  <2> QED
    BY <2>5, <2>6, <2>7, <2>8
<1> QED
  BY <1>1, <1>2

(***************************************************************************)
(* The buffers' length is the one the header claims: a message no longer   *)
(* than the largest counted is encoded without overflow, and the zero that *)
(* command_callback appends before it looks at the status has a place.     *)
(***************************************************************************)
THEOREM ZeroHasItsPlace == Spec => []FrameFits
<1>1. SizeInv => FrameFits
  BY DEF SizeInv
<1> QED
  BY <1>1, InitSize, SizeStep, PTL DEF Spec

-----------------------------------------------------------------------------
(***************************************************************************)
(* What RoundTrip rests on.  cobs_encode is followed by the set of its     *)
(* blocks: <<c, j>> is the one whose code is at the place c, with j bytes  *)
(* of the message before it.  A block that has ended tells where the next  *)
(* one begins, which is how cobs_decode goes from one to the next.         *)
(***************************************************************************)

Pairs == Nat \X Nat

Copied(mem, m, c, j, k) == \A i \in 1 .. k : mem[c + i] = m[j + i]

\* The block at c holds k bytes, and with them the zero after it unless it is
\* full; the next is in S.
EndsWith(mem, m, S, c, j, k) ==
    /\ mem[c] = k + 1 /\ Copied(mem, m, c, j, k)
    /\ IF k = MaxCode - 1 THEN <<c + k + 1, j + k>> \in S
       ELSE j + k + 1 \in 1 .. Len(m) /\ m[j + k + 1] = 0 /\ <<c + k + 1, j + k + 1>> \in S

Ended(mem, m, S, c, j) == \E k \in 0 .. (MaxCode - 1) : EndsWith(mem, m, S, c, j, k)

\* The bytes of the message that the block being written begins behind.
Behind == read - (search - 1)

\* The blocks so far, the one at c being written.
Chain(mem, m, S, c, j) ==
    /\ <<0, 0>> \in S /\ <<c, j>> \in S
    /\ \A p \in S : p[1] <= c /\ p[2] <= j
    /\ \A p \in S : p[1] = c => p[2] = j
    /\ \A p \in S : p[1] # c => Ended(mem, m, S, p[1], p[2])

Chained ==
    /\ Behind \in Nat /\ write = code + search /\ read < write
    /\ Copied(dst, src, code, Behind, search - 1)
    /\ \E S \in SUBSET Pairs : Chain(dst, src, S, code, Behind)

\* A packet, as what decode_buffer cuts out: of its blocks the last ends with
\* it and with the message, and stands for no zero.
AtPlaces(packet) == [x \in 0 .. (Len(packet) - 1) |-> packet[x + 1]]

LastWith(packet, m, c, j, k) ==
    /\ AtPlaces(packet)[c] = k + 1 /\ Copied(AtPlaces(packet), m, c, j, k)
    /\ c + k + 1 = Len(packet) /\ j + k = Len(m)

Lasts(packet, m, c, j) == \E k \in 0 .. (MaxCode - 1) : LastWith(packet, m, c, j, k)

CodedBy(S, packet, m) ==
    /\ <<0, 0>> \in S
    /\ \A p \in S : p[1] < Len(packet) /\ p[2] <= Len(m)
    /\ \A p \in S : Ended(AtPlaces(packet), m, S, p[1], p[2]) \/ Lasts(packet, m, p[1], p[2])

Coded(packet, m) ==
    /\ packet \in Seq(Byte) /\ Len(m) < Len(packet) /\ Len(packet) <= DstLen
    /\ \A i \in 1 .. Len(packet) : packet[i] # 0
    /\ \E S \in SUBSET Pairs : CodedBy(S, packet, m)

\* An ended block is before the one that is written: what is put there or behind
\* it leaves it as it is.
LEMMA EndedKept ==
    ASSUME NEW mem, NEW new, NEW m, NEW S \in SUBSET Pairs, NEW T \in SUBSET Pairs,
           S \subseteq T, NEW place \in Nat, \A p \in S : p[1] <= place,
           \A x \in 0 .. (place - 1) : new[x] = mem[x],
           NEW p \in S, p[1] # place, Ended(mem, m, S, p[1], p[2])
    PROVE  Ended(new, m, T, p[1], p[2])
<1> DEFINE c == p[1]
           j == p[2]
<1>1. c \in Nat /\ j \in Nat /\ c < place
  BY DEF Pairs
<1>2. PICK k \in 0 .. (MaxCode - 1) : EndsWith(mem, m, S, c, j, k)
  BY DEF Ended
<1>3. PICK q \in S : q[1] = c + k + 1
  <2>1. k = MaxCode - 1 => <<c + k + 1, j + k>> \in S
    BY <1>2 DEF EndsWith
  <2>2. k # MaxCode - 1 => <<c + k + 1, j + k + 1>> \in S
    BY <1>2 DEF EndsWith
  <2> HIDE DEF c, j
  <2> QED
    BY <2>1, <2>2
<1> HIDE DEF c, j
<1>4. k \in Nat /\ c + k + 1 <= place
  BY <1>3, CodeAssumption
<1>5. new[c] = mem[c]
  <2>1. c \in 0 .. (place - 1)
    BY <1>1
  <2> QED
    BY <2>1
<1>6. Copied(new, m, c, j, k)
  <2> SUFFICES ASSUME NEW i \in 1 .. k PROVE new[c + i] = m[j + i]
    BY DEF Copied
  <2>1. c + i \in 0 .. (place - 1)
    BY <1>1, <1>4
  <2>2. mem[c + i] = m[j + i]
    BY <1>2 DEF EndsWith, Copied
  <2> QED
    BY <2>1, <2>2
<1>7. EndsWith(new, m, T, c, j, k)
  BY <1>2, <1>5, <1>6 DEF EndsWith
<1> QED
  BY <1>7 DEF Ended, c, j

\* The encoding begins with the block at 0.
LEMMA ChainBegins ==
    ASSUME StartsEncoding(src)
    PROVE  Chained
<1>1. read = 0 /\ code = 0 /\ search = 1 /\ write = 1 /\ Behind = 0
  BY DEF StartsEncoding, Fresh, CodeAlone, Behind
<1>2. {<<0, 0>>} \in SUBSET Pairs /\ Chain(dst, src, {<<0, 0>>}, code, Behind)
  BY <1>1 DEF Pairs, Chain
<1>3. Copied(dst, src, code, Behind, search - 1)
  BY <1>1 DEF Copied
<1> QED
  BY <1>1, <1>2, <1>3 DEF Chained

LEMMA ChainStays ==
    ASSUME NEW mem, NEW new, NEW m, NEW S \in SUBSET Pairs, NEW c \in Nat, NEW j \in Nat,
           Chain(mem, m, S, c, j), \A x \in 0 .. (c - 1) : new[x] = mem[x]
    PROVE  Chain(new, m, S, c, j)
<1>1. ASSUME NEW p \in S, p[1] # c PROVE Ended(new, m, S, p[1], p[2])
  <2>1. Ended(mem, m, S, p[1], p[2]) /\ \A q \in S : q[1] <= c
    BY <1>1 DEF Chain
  <2> QED
    BY <1>1, <2>1, EndedKept
<1> QED
  BY <1>1 DEF Chain

\* The block at c has ended, and the one at d is the next.
Follows(mem, new, m, S, c, j, d, i) ==
    /\ c < d /\ j <= i
    /\ Chain(mem, m, S, c, j) /\ \A x \in 0 .. (c - 1) : new[x] = mem[x]
    /\ Ended(new, m, S \cup {<<d, i>>}, c, j)

LEMMA ChainGrows ==
    ASSUME NEW mem, NEW new, NEW m, NEW S \in SUBSET Pairs, NEW c \in Nat, NEW j \in Nat,
           NEW d \in Nat, NEW i \in Nat, Follows(mem, new, m, S, c, j, d, i)
    PROVE  \E T \in SUBSET Pairs : Chain(new, m, T, d, i)
<1>0. /\ c < d /\ j <= i
      /\ Chain(mem, m, S, c, j) /\ \A x \in 0 .. (c - 1) : new[x] = mem[x]
      /\ Ended(new, m, S \cup {<<d, i>>}, c, j)
  BY DEF Follows
<1>1. PICK T : T = S \cup {<<d, i>>}
  OBVIOUS
<1>2. T \in SUBSET Pairs /\ S \subseteq T /\ <<d, i>> \in T
  BY <1>1 DEF Pairs
<1>3. \A p \in S : p[1] \in Nat /\ p[2] \in Nat /\ p[1] <= c /\ p[2] <= j
  BY <1>0 DEF Pairs, Chain
<1>4. \A p \in T : p[1] <= d /\ p[2] <= i
  BY <1>0, <1>1, <1>3
<1>5. \A p \in T : p[1] = d => p[2] = i
  BY <1>0, <1>1, <1>3
<1>6. ASSUME NEW p \in T, p[1] # d PROVE Ended(new, m, T, p[1], p[2])
  <2>1. p \in S
    BY <1>1, <1>6
  <2>2. CASE p[1] = c
    <3>1. p[2] = j
      BY <1>0, <2>1, <2>2 DEF Chain
    <3>2. Ended(new, m, T, c, j)
      BY <1>0, <1>1
    <3> QED
      BY <2>2, <3>1, <3>2
  <2>3. CASE p[1] # c
    <3>1. Ended(mem, m, S, p[1], p[2]) /\ \A q \in S : q[1] <= c
      BY <1>0, <2>1, <2>3 DEF Chain
    <3> QED
      BY <1>0, <1>2, <2>1, <2>3, <3>1, EndedKept
  <2> QED
    BY <2>2, <2>3
<1>7. <<0, 0>> \in T
  BY <1>0, <1>2 DEF Chain
<1> QED
  BY <1>2, <1>4, <1>5, <1>6, <1>7 DEF Chain

-----------------------------------------------------------------------------
\* A zero ends the block, and the next stands behind it.
LEMMA ZeroChained ==
    ASSUME CobsInv, Chained, EncodeZero
    PROVE  Chained'
<1>0. CodecTypeOK /\ Encoding
  BY DEF CobsInv, EncodeZero
<1>1. /\ code \in Nat /\ write \in Nat /\ search \in Nat /\ search > 0 /\ read \in Nat
      /\ write = code + search /\ code < write /\ read < write /\ read < Len(src)
      /\ Behind \in Nat /\ Behind = read - (search - 1) /\ Len(src) \in Nat
  BY <1>0 DEF CodecTypeOK, Encoding, Chained, EncodeZero, Behind
<1>2. /\ read' = read + 1 /\ code' = write /\ write' = write + 1 /\ search' = 1
      /\ src' = src /\ dst' = Put(dst, code, search) /\ src[read + 1] = 0
  BY DEF EncodeZero, CodeAlone, NextByte
<1>3. Behind' = read + 1
  BY <1>1, <1>2 DEF Behind
<1>4. /\ dst'[code] = search
      /\ \A x \in 0 .. (write - 1) : x # code => dst'[x] = dst[x]
  BY <1>0, <1>1, <1>2 DEF Encoding, Put
<1>5. PICK S \in SUBSET Pairs : Chain(dst, src, S, code, Behind)
  BY DEF Chained
<1>6. search - 1 \in 0 .. (MaxCode - 1) /\ search - 1 # MaxCode - 1
  BY <1>0, <1>1, CodeAssumption DEF CodecTypeOK, Encoding
<1>7. Copied(dst', src, code, Behind, search - 1)
  <2> SUFFICES ASSUME NEW i \in 1 .. (search - 1) PROVE dst'[code + i] = src[Behind + i]
    BY DEF Copied
  <2>1. code + i \in 0 .. (write - 1) /\ code + i # code
    BY <1>1
  <2> QED
    BY <1>4, <2>1 DEF Chained, Copied
<1>8. EndsWith(dst', src, S \cup {<<code', Behind'>>}, code, Behind, search - 1)
  <2>1. Behind + (search - 1) + 1 = read + 1 /\ code + (search - 1) + 1 = write
    BY <1>1
  <2>2. dst'[code] = (search - 1) + 1
    BY <1>1, <1>4
  <2>3. read + 1 \in 1 .. Len(src)
    BY <1>1
  <2> QED
    BY <1>2, <1>3, <1>6, <1>7, <2>1, <2>2, <2>3 DEF EndsWith
<1>9. \E T \in SUBSET Pairs : Chain(dst', src, T, code', Behind')
  <2>1. code' \in Nat /\ Behind' \in Nat /\ code < code' /\ Behind <= Behind'
    BY <1>1, <1>2, <1>3
  <2>2. \A x \in 0 .. (code - 1) : dst'[x] = dst[x]
    BY <1>1, <1>4
  <2>3. Ended(dst', src, S \cup {<<code', Behind'>>}, code, Behind)
    BY <1>6, <1>8 DEF Ended
  <2>4. Follows(dst, dst', src, S, code, Behind, code', Behind')
    BY <1>5, <2>1, <2>2, <2>3 DEF Follows
  <2> QED
    BY <1>1, <2>1, <2>4, ChainGrows
<1>10. Copied(dst', src', code', Behind', search' - 1)
  BY <1>2 DEF Copied
<1>11. Behind' \in Nat /\ write' = code' + search' /\ read' < write'
  BY <1>1, <1>2, <1>3
<1> QED
  BY <1>2, <1>9, <1>10, <1>11 DEF Chained

\* Any other byte is copied, and ends the block if that is full.
LEMMA OtherChained ==
    ASSUME CobsInv, Chained, EncodeOther
    PROVE  Chained'
<1>0. CodecTypeOK /\ Encoding
  BY DEF CobsInv, EncodeOther
<1>1. /\ code \in Nat /\ write \in Nat /\ search \in Nat /\ search > 0 /\ read \in Nat
      /\ write = code + search /\ code < write /\ read < write /\ read < Len(src)
      /\ Behind \in Nat /\ Behind = read - (search - 1) /\ Len(src) \in Nat
  BY <1>0 DEF CodecTypeOK, Encoding, Chained, EncodeOther, Behind
<1>2. read' = read + 1 /\ src' = src
  BY DEF EncodeOther
<1> DEFINE copied == Put(dst, write, NextByte)
<1>3. /\ copied[write] = src[read + 1]
      /\ \A x \in 0 .. (write - 1) : x # code => copied[x] = dst[x]
      /\ DOMAIN copied = (0 .. write) \ {code}
  BY <1>0, <1>1 DEF Encoding, Put, NextByte
<1> HIDE DEF copied
<1>4. PICK S \in SUBSET Pairs : Chain(dst, src, S, code, Behind)
  BY DEF Chained
\* What is copied is the block's next byte.
<1>5. ASSUME NEW i \in 1 .. search PROVE copied[code + i] = src[Behind + i]
  <2>1. CASE i = search
    <3>1. code + i = write /\ Behind + i = read + 1
      BY <1>1, <2>1
    <3> QED
      BY <1>3, <3>1
  <2>2. CASE i # search
    <3>1. i \in 1 .. (search - 1) /\ code + i \in 0 .. (write - 1) /\ code + i # code
      BY <1>1, <2>2
    <3> QED
      BY <1>3, <3>1 DEF Chained, Copied
  <2> QED
    BY <2>1, <2>2
<1>6. CASE EndsBlock(search + 1, read' = Len(src))
  <2>1. /\ dst' = Put(copied, code, search + 1) /\ code' = write + 1 /\ write' = write + 2
        /\ search' = 1 /\ search + 1 = MaxCode
    BY <1>6 DEF EncodeOther, copied, CodeAlone, EndsBlock
  <2>2. /\ dst'[code] = search + 1
        /\ \A x \in 0 .. write : x # code => dst'[x] = copied[x]
    BY <1>3, <2>1 DEF Put
  <2>3. Behind' = read + 1
    BY <1>1, <1>2, <2>1 DEF Behind
  <2>4. Copied(dst', src, code, Behind, search)
    <3> SUFFICES ASSUME NEW i \in 1 .. search PROVE dst'[code + i] = src[Behind + i]
      BY DEF Copied
    <3>1. code + i \in 0 .. write /\ code + i # code
      BY <1>1
    <3> QED
      BY <1>5, <2>2, <3>1
  <2>5. search \in 0 .. (MaxCode - 1) /\ search = MaxCode - 1
    BY <1>1, <2>1, CodeAssumption
  <2>6. code + search + 1 = code' /\ Behind + search = Behind'
    BY <1>1, <2>1, <2>3
  <2>7. EndsWith(dst', src, S \cup {<<code', Behind'>>}, code, Behind, search)
    BY <2>2, <2>4, <2>5, <2>6 DEF EndsWith
  <2>8. \E T \in SUBSET Pairs : Chain(dst', src, T, code', Behind')
    <3>1. code' \in Nat /\ Behind' \in Nat /\ code < code' /\ Behind <= Behind'
      BY <1>1, <2>1, <2>3
    <3>2. \A x \in 0 .. (code - 1) : dst'[x] = dst[x]
      BY <1>1, <1>3, <2>2
    <3>3. Ended(dst', src, S \cup {<<code', Behind'>>}, code, Behind)
      BY <2>5, <2>7 DEF Ended
    <3>4. Follows(dst, dst', src, S, code, Behind, code', Behind')
      BY <1>4, <3>1, <3>2, <3>3 DEF Follows
    <3> QED
      BY <1>1, <3>1, <3>4, ChainGrows
  <2>9. Copied(dst', src', code', Behind', search' - 1)
    BY <2>1 DEF Copied
  <2>10. Behind' \in Nat /\ write' = code' + search' /\ read' < write'
    BY <1>1, <1>2, <2>1, <2>3
  <2> QED
    BY <1>2, <2>8, <2>9, <2>10 DEF Chained
<1>7. CASE ~EndsBlock(search + 1, read' = Len(src))
  <2>1. dst' = copied /\ code' = code /\ write' = write + 1 /\ search' = search + 1
    BY <1>7 DEF EncodeOther, copied
  <2>2. Behind' = Behind
    BY <1>1, <1>2, <2>1 DEF Behind
  <2>3. \A x \in 0 .. (code - 1) : dst'[x] = dst[x]
    BY <1>1, <1>3, <2>1
  <2>4. Chain(dst', src, S, code, Behind)
    BY <1>1, <1>4, <2>3, ChainStays
  <2>5. search' - 1 = search
    BY <1>1, <2>1
  <2>6. Copied(dst', src', code', Behind', search' - 1)
    BY <1>2, <1>5, <2>1, <2>2, <2>5 DEF Copied
  <2>7. Behind' \in Nat /\ write' = code' + search' /\ read' < write'
    BY <1>1, <1>2, <2>1, <2>2
  <2> QED
    BY <1>2, <2>1, <2>2, <2>4, <2>6, <2>7 DEF Chained
<1> QED
  BY <1>6, <1>7

-----------------------------------------------------------------------------
\* Without overflow the last block ends with the message.
LEMMA FinishCodes ==
    ASSUME CobsInv, Chained, FinishEncode, status' = {}
    PROVE  Coded(Written', src)
<1>0. CodecTypeOK /\ Encoding /\ CobsInv'
  BY FinishEncodeStep DEF CobsInv, FinishEncode
<1>1. CodeFits /\ status = {} /\ read = Len(src) /\ write' = write
      /\ dst' = Put(dst, code, search) /\ phase' = "encoded"
  BY DEF FinishEncode
<1>2. /\ code \in Nat /\ write \in Nat /\ search \in 1 .. MaxCode /\ read \in Nat
      /\ write = code + search /\ code < write /\ read < write
      /\ Behind \in Nat /\ Behind = read - (search - 1) /\ Len(src) \in Nat
      /\ search - 1 \in 0 .. (MaxCode - 1) /\ search \in Nat /\ search > 0
  BY <1>0, CodeAssumption DEF CodecTypeOK, Encoding, Chained, Behind
<1>3. PICK packet : packet = Written'
  OBVIOUS
<1>4. /\ packet \in Seq(Byte) /\ Len(packet) = write
      /\ \A x \in 0 .. (write - 1) : packet[x + 1] = dst'[x]
  <2>1. Written' = [i \in 1 .. write |-> dst'[i - 1]]
    BY <1>1 DEF Written
  <2>2. DOMAIN dst' = 0 .. (write - 1) /\ dst' \in [DOMAIN dst' -> Byte]
    BY <1>0, <1>1 DEF CobsInv, Filled, CodecTypeOK
  <2>3. \A i \in 1 .. write : dst'[i - 1] \in Byte
    BY <1>2, <2>2
  <2>4. packet \in [1 .. write -> Byte]
    BY <1>3, <2>1, <2>3
  <2>5. packet \in Seq(Byte) /\ Len(packet) = write
    BY <1>2, <2>4
  <2>6. \A x \in 0 .. (write - 1) : packet[x + 1] = dst'[x]
    <3> SUFFICES ASSUME NEW x \in 0 .. (write - 1) PROVE packet[x + 1] = dst'[x]
      OBVIOUS
    <3>1. x + 1 \in 1 .. write /\ (x + 1) - 1 = x
      BY <1>2
    <3> QED
      BY <1>3, <2>1, <3>1
  <2> QED
    BY <2>5, <2>6
<1>5. \A i \in 1 .. Len(packet) : packet[i] # 0
  <2> SUFFICES ASSUME NEW i \in 1 .. Len(packet) PROVE packet[i] # 0
    OBVIOUS
  <2>1. i - 1 \in 0 .. (write - 1) /\ (i - 1) + 1 = i
    BY <1>2, <1>4
  <2>2. i - 1 \in DOMAIN dst'
    BY <1>0, <1>1, <2>1 DEF CobsInv, Filled
  <2>3. dst'[i - 1] # 0
    BY <1>0, <1>1, <2>2 DEF CobsInv, NoZeroInside
  <2>4. packet[(i - 1) + 1] = dst'[i - 1]
    BY <1>4, <2>1
  <2> QED
    BY <2>1, <2>3, <2>4
<1>6. PICK mem : mem = AtPlaces(packet)
  OBVIOUS
<1>7. /\ mem[code] = search
      /\ \A x \in 0 .. (write - 1) : x # code => mem[x] = dst[x]
  <2>1. \A x \in 0 .. (write - 1) : mem[x] = dst'[x]
    BY <1>4, <1>6 DEF AtPlaces
  <2>2. code \in 0 .. (write - 1)
    BY <1>2
  <2>3. /\ dst'[code] = search
        /\ \A x \in 0 .. (write - 1) : x # code => dst'[x] = dst[x]
    BY <1>0, <1>1, <2>2 DEF Encoding, Put
  <2> QED
    BY <2>1, <2>2, <2>3
<1>8. PICK S \in SUBSET Pairs : Chain(dst, src, S, code, Behind)
  BY DEF Chained
<1>9. Chain(mem, src, S, code, Behind)
  <2>1. \A x \in 0 .. (code - 1) : mem[x] = dst[x]
    BY <1>2, <1>7
  <2> QED
    BY <1>2, <1>8, <2>1, ChainStays
<1>10. Lasts(packet, src, code, Behind)
  <2>1. Copied(mem, src, code, Behind, search - 1)
    <3> SUFFICES ASSUME NEW i \in 1 .. (search - 1) PROVE mem[code + i] = src[Behind + i]
      BY DEF Copied
    <3>1. code + i \in 0 .. (write - 1) /\ code + i # code
      BY <1>2
    <3> QED
      BY <1>7, <3>1 DEF Chained, Copied
  <2>2. /\ mem[code] = (search - 1) + 1
        /\ code + (search - 1) + 1 = Len(packet) /\ Behind + (search - 1) = Len(src)
    BY <1>1, <1>2, <1>4, <1>7
  <2> QED
    BY <1>2, <1>6, <2>1, <2>2 DEF Lasts, LastWith
<1>11. CodedBy(S, packet, src)
  <2>1. <<0, 0>> \in S
    BY <1>9 DEF Chain
  <2>2. \A p \in S : p[1] < Len(packet) /\ p[2] <= Len(src)
    <3>1. Behind <= Len(src) /\ code < Len(packet)
      BY <1>1, <1>2, <1>4
    <3>2. \A p \in S : p[1] \in Nat /\ p[2] \in Nat /\ p[1] <= code /\ p[2] <= Behind
      BY <1>9 DEF Chain, Pairs
    <3> QED
      BY <1>2, <1>4, <3>1, <3>2
  <2>3. ASSUME NEW p \in S
        PROVE  Ended(AtPlaces(packet), src, S, p[1], p[2]) \/ Lasts(packet, src, p[1], p[2])
    <3>1. CASE p[1] = code
      BY <1>9, <1>10, <3>1 DEF Chain
    <3>2. CASE p[1] # code
      BY <1>6, <1>9, <3>2 DEF Chain
    <3> QED
      BY <3>1, <3>2
  <2> QED
    BY <2>1, <2>2, <2>3 DEF CodedBy
<1>12. Len(src) < Len(packet) /\ Len(packet) <= DstLen
  <2>1. write <= DstLen
    BY <1>0, <1>1 DEF CobsInv, Filled
  <2> QED
    BY <1>1, <1>2, <1>4, <2>1
<1>13. Coded(packet, src)
  BY <1>4, <1>5, <1>8, <1>11, <1>12 DEF Coded
<1> QED
  BY <1>3, <1>13

-----------------------------------------------------------------------------
\* cobs_decode is at the beginning of a block, with the message as far as that
\* written.
DecodingFrom(S, m) ==
    /\ Coded(src, m) /\ CodedBy(S, src, m)
    /\ <<read, write>> \in S
    /\ status = {}
    /\ \A i \in 1 .. write : dst[i - 1] = m[i]

Decoding(m) == \E S \in SUBSET Pairs : DecodingFrom(S, m)

Decoded(m) == status = {} /\ Written = m

LEMMA BeginsDecoding ==
    ASSUME NEW packet, NEW m, Coded(packet, m), Decodes(packet)
    PROVE  Decoding(m)'
<1>1. PICK S \in SUBSET Pairs : CodedBy(S, packet, m)
  BY DEF Coded
<1>2. src' = packet /\ read' = 0 /\ write' = 0 /\ status' = {}
  BY DEF Decodes
<1>3. <<0, 0>> \in S
  BY <1>1 DEF CodedBy
<1>4. DecodingFrom(S, m)'
  BY <1>1, <1>2, <1>3 DEF DecodingFrom
<1> QED
  BY <1>4 DEF Decoding

\* What cobs_decode does with a block that has k bytes, all there.
LEMMA BlockDecoded ==
    ASSUME CobsInv, NEW m \in Seq(Byte), NEW S \in SUBSET Pairs, DecodingFrom(S, m),
           DecodeBlock, NEW k \in 0 .. (MaxCode - 1), src[read + 1] = k + 1,
           Copied(AtPlaces(src), m, read, write, k), read + 1 + k <= Len(src),
           write + k <= Len(m)
    PROVE  /\ Copies = k /\ BlockFlags = {} /\ write + k < DstLen
           /\ \A i \in 1 .. (write + k) : Block(k)[i - 1] = m[i]
           /\ DOMAIN Block(k) = 0 .. (write + k - 1)
<1>1. /\ k \in Nat /\ read \in Nat /\ write \in Nat /\ Len(src) \in Nat /\ Len(m) \in Nat
      /\ DstLen \in Nat /\ Len(m) < Len(src) /\ Len(src) <= DstLen
      /\ DOMAIN dst = 0 .. (write - 1) /\ CodecTypeOK /\ Filled
  <2>1. CodecTypeOK /\ Filled
    BY DEF CobsInv, DecodeBlock
  <2>2. /\ read \in Nat /\ write \in Nat /\ Len(src) \in Nat /\ DstLen \in Nat
        /\ DOMAIN dst = 0 .. (write - 1)
    BY <2>1, CodeAssumption, BufferAssumption DEF CodecTypeOK, Filled
  <2>3. k \in Nat /\ Len(m) \in Nat /\ Len(m) < Len(src) /\ Len(src) <= DstLen
    BY <2>2, CodeAssumption DEF DecodingFrom, Coded
  <2> QED
    BY <2>1, <2>2, <2>3
<1>2. write + k < DstLen
  BY <1>1
<1>3. Claimed = k
  BY <1>1 DEF Claimed, NextByte
<1>4. InInput = k
  <2>1. k <= Len(src) - (read + 1)
    BY <1>1
  <2> QED
    BY <1>3, <2>1 DEF InInput, Least
<1>5. Copies = k
  <2>1. k <= DstLen - write
    BY <1>1, <1>2
  <2> QED
    BY <1>4, <2>1 DEF Copies, Least
<1>6. \A i \in 1 .. k : src[read + 1 + i] # 0
  <2> SUFFICES ASSUME NEW i \in 1 .. k PROVE src[read + 1 + i] # 0
    OBVIOUS
  <2>1. read + 1 + i \in 1 .. Len(src)
    BY <1>1
  <2> QED
    BY <2>1 DEF DecodingFrom, Coded
<1>7. BlockFlags = {}
  <2>1. ~(InInput < Claimed) /\ ~(Copies < InInput)
    BY <1>1, <1>3, <1>4, <1>5
  <2>2. ~ \E i \in 1 .. Copies : src[read + 1 + i] = 0
    BY <1>5, <1>6
  <2> QED
    BY <2>1, <2>2 DEF BlockFlags
<1>8. DOMAIN Block(k) = 0 .. (write + k - 1)
  BY <1>1, BlockType
<1>9. ASSUME NEW i \in 1 .. (write + k) PROVE Block(k)[i - 1] = m[i]
  <2>1. i - 1 \in DOMAIN dst \cup write .. (write + k - 1)
    BY <1>1
  <2>2. CASE i <= write
    <3>1. i - 1 < write /\ i \in 1 .. write
      BY <1>1, <2>2
    <3>2. Block(k)[i - 1] = dst[i - 1]
      BY <2>1, <3>1 DEF Block
    <3> QED
      BY <3>1, <3>2 DEF DecodingFrom
  <2>3. CASE ~(i <= write)
    <3>1. /\ ~(i - 1 < write) /\ i - write \in 1 .. k
          /\ read + 2 + ((i - 1) - write) = (read + (i - write)) + 1
          /\ read + (i - write) \in 0 .. (Len(src) - 1)
          /\ write + (i - write) = i
      BY <1>1, <2>3
    <3>2. Block(k)[i - 1] = src[(read + (i - write)) + 1]
      BY <2>1, <3>1 DEF Block
    <3>3. AtPlaces(src)[read + (i - write)] = src[(read + (i - write)) + 1]
      BY <3>1 DEF AtPlaces
    <3>4. AtPlaces(src)[read + (i - write)] = m[write + (i - write)]
      BY <3>1 DEF Copied
    <3> QED
      BY <3>1, <3>2, <3>3, <3>4
  <2> QED
    BY <2>2, <2>3
<1> QED
  BY <1>2, <1>5, <1>7, <1>8, <1>9

\* A block is decoded, and the next one begins where the decoder stands.
LEMMA DecodesOn ==
    ASSUME CobsInv, NEW m \in Seq(Byte), NEW S \in SUBSET Pairs, DecodingFrom(S, m),
           DecodeBlock, Ended(AtPlaces(src), m, S, read, write)
    PROVE  DecodingFrom(S, m)' /\ phase' = "decode"
<1>1. PICK k \in 0 .. (MaxCode - 1) : EndsWith(AtPlaces(src), m, S, read, write, k)
  BY DEF Ended
<1>2. /\ k \in Nat /\ read \in Nat /\ write \in Nat /\ Len(src) \in Nat /\ Len(m) \in Nat
      /\ read < Len(src) /\ DstLen \in Nat
      /\ \A p \in S : p[1] < Len(src) /\ p[2] <= Len(m)
  BY CodeAssumption, BufferAssumption
     DEF CobsInv, CodecTypeOK, DecodingFrom, CodedBy, DecodeBlock
<1> DEFINE z == IF k = MaxCode - 1 THEN 0 ELSE 1
<1>3. /\ <<read + k + 1, write + k + z>> \in S /\ z \in {0, 1}
      /\ z = 1 => m[write + k + 1] = 0
  <2>1. CASE k = MaxCode - 1
    <3>1. <<read + k + 1, write + k>> \in S
      BY <1>1, <2>1 DEF EndsWith
    <3>2. write + k + z = write + k
      BY <1>2, <2>1
    <3> QED
      BY <2>1, <3>1, <3>2
  <2>2. CASE k # MaxCode - 1
    BY <1>1, <2>2 DEF EndsWith
  <2> QED
    BY <2>1, <2>2
<1>4. z = 0 <=> k = MaxCode - 1
  OBVIOUS
<1> HIDE DEF z
<1>5. read + k + 1 < Len(src) /\ write + k + z <= Len(m) /\ write + k <= Len(m)
  BY <1>2, <1>3
<1>6. src[read + 1] = k + 1 /\ Copied(AtPlaces(src), m, read, write, k)
  BY <1>1, <1>2 DEF EndsWith, AtPlaces
<1>7. read + 1 + k <= Len(src)
  BY <1>2, <1>5
<1>8. /\ Copies = k /\ BlockFlags = {} /\ write + k < DstLen
      /\ \A i \in 1 .. (write + k) : Block(k)[i - 1] = m[i]
      /\ DOMAIN Block(k) = 0 .. (write + k - 1)
  BY <1>5, <1>6, <1>7, BlockDecoded
<1>9. read' = read + 1 + k /\ read' # Len(src) /\ src' = src
  BY <1>2, <1>5, <1>8 DEF DecodeBlock
<1>10. StandsForZero(Copies) <=> z = 1
  BY <1>3, <1>4, <1>8 DEF StandsForZero
<1>11. /\ status' = {} /\ phase' = "decode" /\ write' = write + k + z
       /\ dst' = IF z = 1 THEN Put(Block(k), write + k, 0) ELSE Block(k)
  <2>1. CASE z = 1
    <3>1. status' = status \cup BlockFlags \cup {}
      BY <1>8, <1>9, <1>10, <2>1 DEF DecodeBlock
    <3>2. phase' = phase /\ phase = "decode"
      BY <1>8, <1>9, <1>10, <2>1 DEF DecodeBlock
    <3>3. write' = write + k + 1 /\ dst' = Put(Block(k), write + k, 0)
      BY <1>8, <1>9, <1>10, <2>1 DEF DecodeBlock
    <3> QED
      BY <1>8, <2>1, <3>1, <3>2, <3>3 DEF DecodingFrom
  <2>2. CASE z = 0
    <3>1. status' = status \cup BlockFlags \cup {}
      BY <1>8, <1>9, <1>10, <2>2 DEF DecodeBlock
    <3>2. phase' = phase /\ phase = "decode"
      BY <1>8, <1>9, <1>10, <2>2 DEF DecodeBlock
    <3>3. write' = write + k + 0 /\ dst' = Block(k)
      BY <1>8, <1>9, <1>10, <2>2 DEF DecodeBlock
    <3> QED
      BY <1>8, <2>2, <3>1, <3>2, <3>3 DEF DecodingFrom
  <2> QED
    BY <1>3, <2>1, <2>2
<1>12. ASSUME NEW i \in 1 .. (write + k + z) PROVE dst'[i - 1] = m[i]
  <2>1. CASE i <= write + k
    <3>1. i \in 1 .. (write + k) /\ i - 1 # write + k /\ i - 1 \in 0 .. (write + k - 1)
      BY <1>2, <1>3, <2>1
    <3>2. dst'[i - 1] = Block(k)[i - 1]
      BY <1>8, <1>11, <3>1 DEF Put
    <3> QED
      BY <1>8, <3>1, <3>2
  <2>2. CASE ~(i <= write + k)
    <3>1. z = 1 /\ i = write + k + 1 /\ i - 1 = write + k
      BY <1>2, <1>3, <2>2
    <3>2. dst'[write + k] = 0
      BY <1>11, <3>1 DEF Put
    <3> QED
      BY <1>3, <3>1, <3>2
  <2> QED
    BY <2>1, <2>2
<1>13. <<read', write'>> \in S
  <2>1. read' = read + k + 1
    BY <1>2, <1>9
  <2> QED
    BY <1>3, <1>11, <2>1
<1>14. DecodingFrom(S, m)'
  BY <1>9, <1>11, <1>12, <1>13 DEF DecodingFrom
<1> QED
  BY <1>11, <1>14

\* The last block ends with the packet and the message.
LEMMA DecodesLast ==
    ASSUME CobsInv, NEW m \in Seq(Byte), NEW S \in SUBSET Pairs, DecodingFrom(S, m),
           DecodeBlock, Lasts(src, m, read, write)
    PROVE  Decoded(m)' /\ phase' = "decoded"
<1>1. PICK k \in 0 .. (MaxCode - 1) : LastWith(src, m, read, write, k)
  BY DEF Lasts
<1>2. /\ k \in Nat /\ read \in Nat /\ write \in Nat /\ Len(src) \in Nat /\ Len(m) \in Nat
      /\ read < Len(src)
  BY CodeAssumption DEF CobsInv, CodecTypeOK, DecodeBlock
<1>3. /\ src[read + 1] = k + 1 /\ Copied(AtPlaces(src), m, read, write, k)
      /\ read + 1 + k = Len(src) /\ write + k = Len(m)
  BY <1>1, <1>2 DEF LastWith, AtPlaces
<1>4. /\ Copies = k /\ BlockFlags = {}
      /\ \A i \in 1 .. (write + k) : Block(k)[i - 1] = m[i]
  <2>1. read + 1 + k <= Len(src) /\ write + k <= Len(m)
    BY <1>2, <1>3
  <2> QED
    BY <1>3, <2>1, BlockDecoded
<1>5. read' = read + 1 + k /\ read' = Len(src)
  BY <1>3, <1>4 DEF DecodeBlock
<1>6. status' = status \cup BlockFlags \cup {} /\ dst' = Block(k) /\ phase' = "decoded"
  BY <1>4, <1>5 DEF DecodeBlock
<1>7. write' = Len(m)
  <2>1. write' = write + k + 0
    BY <1>4, <1>5 DEF DecodeBlock
  <2> QED
    BY <1>2, <1>3, <2>1
<1>8. status' = {}
  BY <1>4, <1>6 DEF DecodingFrom
<1>9. Written' = m
  <2>1. Written' = [i \in 1 .. Len(m) |-> dst'[i - 1]]
    BY <1>7 DEF Written
  <2>2. \A i \in 1 .. Len(m) : dst'[i - 1] = m[i]
    BY <1>3, <1>4, <1>6
  <2>3. m = [i \in 1 .. Len(m) |-> m[i]]
    OBVIOUS
  <2> QED
    BY <2>1, <2>2, <2>3
<1> QED
  BY <1>6, <1>8, <1>9 DEF Decoded

\* One step of cobs_decode.
LEMMA DecodeTrip ==
    ASSUME CobsInv, NEW m \in Seq(Byte), Decoding(m), Decode
    PROVE  \/ phase' = "decode" /\ Decoding(m)'
           \/ phase' = "decoded" /\ Decoded(m)'
<1>1. PICK S \in SUBSET Pairs : DecodingFrom(S, m)
  BY DEF Decoding
<1>2. read \in Nat /\ Len(src) \in Nat /\ Len(m) \in Nat /\ Len(m) < Len(src)
  BY <1>1 DEF CobsInv, CodecTypeOK, DecodingFrom, Coded
<1>3. ~NothingToDecode
  BY <1>2 DEF NothingToDecode
<1>4. ~ZeroCode
  <2>1. read < Len(src) => read + 1 \in 1 .. Len(src)
    BY <1>2
  <2> QED
    BY <1>1, <2>1 DEF ZeroCode, NextByte, DecodingFrom, Coded
<1>5. DecodeBlock
  BY <1>3, <1>4 DEF Decode
<1>6. Ended(AtPlaces(src), m, S, read, write) \/ Lasts(src, m, read, write)
  BY <1>1 DEF DecodingFrom, CodedBy
<1>7. CASE Ended(AtPlaces(src), m, S, read, write)
  <2>1. DecodingFrom(S, m)' /\ phase' = "decode"
    BY <1>1, <1>5, <1>7, DecodesOn
  <2> QED
    BY <2>1 DEF Decoding
<1>8. CASE Lasts(src, m, read, write)
  BY <1>1, <1>5, <1>8, DecodesLast
<1> QED
  BY <1>6, <1>7, <1>8

-----------------------------------------------------------------------------
\* The way of a message, as long as the line leaves its packet alone.

Message == Append(payload, crcFast(payload))

Encodes ==
    phase = "encode" => src = Message /\ line = <<>> /\ verdict = "none" /\ Chained

OnItsWay ==
    phase = "encoded" =>
        /\ verdict \in {"none", "dropped"}
        /\ line = <<>> /\ status = {} => Coded(Written, Message)
        /\ line # <<>> =>
              \E packet \in Seq(Byte) : line = Append(packet, 0) /\ Coded(packet, Message)

Arrives ==
    /\ phase = "decode" => verdict = "none" /\ Decoding(Message)
    /\ phase = "decoded" => verdict \in {"none", "accepted"} /\ Decoded(Message)

Trip == payload # NoPayload => Encodes /\ (intact => OnItsWay /\ Arrives)

TripInv == PacketInv /\ Trip

LEMMA MessageType ==
    ASSUME PacketInv, payload # NoPayload
    PROVE  Message \in Seq(Byte) /\ Message # <<>> /\ crcFast(Message) = CRC_OK
<1>1. payload \in Payloads /\ payload \in Seq(Byte) /\ crcFast(payload) \in Byte
  BY PayloadAssumption, CrcType, ByteIsOctet DEF PacketInv, TypeOK
<1>2. crcFast(Message) = CRC_OK
  BY <1>1, Residue, ByteIsOctet DEF Message
<1>3. Message \in Seq(Byte) /\ Len(Message) = Len(payload) + 1 /\ Len(payload) \in Nat
  BY <1>1 DEF Message
<1>4. Message # <<>>
  BY <1>3
<1> QED
  BY <1>2, <1>3, <1>4

LEMMA InitTrip == Init => TripInv
<1> SUFFICES ASSUME Init, payload # NoPayload PROVE Trip
  BY InitPacket DEF TripInv, Trip
<1>1. /\ StartsEncoding(Message) /\ line = <<>> /\ verdict = "none"
  BY DEF Init, Message
<1>2. phase = "encode" /\ src = Message
  BY <1>1 DEF StartsEncoding
<1>3. Chained
  BY <1>1, <1>2, ChainBegins
<1> QED
  BY <1>1, <1>2, <1>3 DEF Trip, Encodes, OnItsWay, Arrives

\* A step of cobs_encode.
LEMMA EncodeTrip ==
    ASSUME TripInv, payload # NoPayload, Encode, UNCHANGED packetVars
    PROVE  Trip'
<1>1. /\ phase = "encode" /\ CobsInv /\ Chained /\ src = Message /\ line = <<>>
      /\ verdict = "none"
  BY DEF TripInv, PacketInv, Trip, Encodes, Encode, NoRoom, EncodeZero, EncodeOther,
     FinishEncode
<1>2. /\ payload' = payload /\ line' = <<>> /\ intact' = intact /\ verdict' = "none"
      /\ Message' = Message /\ src' = src
  BY <1>1 DEF packetVars, Message, Encode, NoRoom, EncodeZero, EncodeOther, FinishEncode
<1>3. CASE NoRoom \/ EncodeZero \/ EncodeOther
  <2>1. phase' = "encode"
    BY <1>1, <1>3 DEF NoRoom, EncodeZero, EncodeOther
  <2>2. Chained'
    <3>1. CASE NoRoom
      BY <1>1, <3>1 DEF NoRoom, blocks, Chained, Behind
    <3> QED
      BY <1>1, <1>3, <3>1, ZeroChained, OtherChained
  <2> QED
    BY <1>1, <1>2, <2>1, <2>2 DEF Trip, Encodes, OnItsWay, Arrives
<1>4. CASE FinishEncode
  <2>1. phase' = "encoded"
    BY <1>4 DEF FinishEncode
  <2>2. status' = {} => Coded(Written', src)
    BY <1>1, <1>4, FinishCodes
  <2>3. status' = {} => Coded(Written', Message')
    BY <1>1, <1>2, <2>2
  <2> QED
    BY <1>2, <2>1, <2>3 DEF Trip, Encodes, OnItsWay, Arrives
<1> QED
  BY <1>3, <1>4 DEF Encode

\* decode_buffer finds the zero that command_callback appended and no other.
LEMMA ReceiveTrip ==
    ASSUME TripInv, payload # NoPayload, intact, Receive
    PROVE  Decoding(Message)'
<1>1. PICK packet \in Seq(Byte) : line = Append(packet, 0) /\ Coded(packet, Message)
  BY DEF TripInv, Trip, OnItsWay, Receive
<1>2. PICK e \in Ends, s \in 1 .. Len(line) :
          /\ s <= e /\ Starts(s)
          /\ \A i \in s .. (e - 1) : line[i] # 0
          /\ Decodes(SubSeq(line, s, e - 1))
  BY DEF Receive
<1>3. /\ Len(packet) \in Nat /\ Len(line) = Len(packet) + 1
      /\ line[Len(packet) + 1] = 0
      /\ \A i \in 1 .. Len(packet) : line[i] = packet[i] /\ line[i] # 0
  BY <1>1 DEF Coded
<1>4. Ends = {Len(packet) + 1}
  <2>1. \A i \in 1 .. Len(line) : line[i] = 0 => i = Len(packet) + 1
    BY <1>3
  <2>2. Len(packet) + 1 \in 1 .. Len(line)
    BY <1>3
  <2> QED
    BY <1>3, <2>1, <2>2 DEF Ends
<1>5. e = Len(packet) + 1 /\ s = 1
  BY <1>2, <1>3, <1>4 DEF Starts
<1>6. SubSeq(line, s, e - 1) = packet
  <2>1. e - 1 = Len(packet)
    BY <1>3, <1>5
  <2>2. SubSeq(line, 1, Len(packet)) = packet
    BY <1>1, <1>3
  <2> QED
    BY <1>5, <2>1, <2>2
<1>7. Decodes(packet)
  BY <1>2, <1>6
<1>8. Message' = Message
  BY DEF Message, Receive, packetVars
<1>9. PICK m : m = Message
  OBVIOUS
<1>10. Decoding(m)'
  BY <1>1, <1>7, <1>9, BeginsDecoding
<1> QED
  BY <1>8, <1>9, <1>10 DEF Decoding, DecodingFrom

\* A step after cobs_encode, of a packet that stays intact.
LEMMA IntactTrip ==
    ASSUME TripInv, payload # NoPayload, [Next]_vars, ~Encode, intact, intact'
    PROVE  (OnItsWay /\ Arrives)'
<1>0. /\ CobsInv /\ CobsInv' /\ OnItsWay /\ Arrives /\ Message \in Seq(Byte)
      /\ Message # <<>> /\ crcFast(Message) = CRC_OK
  BY MessageType, PacketStep DEF TripInv, PacketInv, Trip
<1>m. payload' = payload /\ Message' = Message
  BY DEF Next, packetVars, Send, Drop, Damage, Receive, Wait, Check, vars, Message
<1>1. CASE Decode /\ UNCHANGED packetVars
  <2>1. phase = "decode" /\ verdict = "none" /\ Decoding(Message)
    BY <1>0, <1>1 DEF Decode, NothingToDecode, ZeroCode, DecodeBlock, Arrives
  <2>2. PICK m : m = Message
    OBVIOUS
  <2>3. \/ phase' = "decode" /\ Decoding(m)'
        \/ phase' = "decoded" /\ Decoded(m)'
    BY <1>0, <1>1, <2>1, <2>2, DecodeTrip
  <2>4. /\ phase' = "decode" => Decoding(Message)'
        /\ phase' = "decoded" => Decoded(Message)'
        /\ phase' # "encoded"
    BY <1>m, <2>2, <2>3 DEF Decoding, DecodingFrom, Decoded
  <2>5. verdict' = "none"
    BY <1>1, <2>1 DEF packetVars
  <2> QED
    BY <2>4, <2>5 DEF OnItsWay, Arrives
<1>2. CASE Send
  <2>1. /\ Coded(Written, Message) /\ line' = Append(Written, 0) /\ phase' = "encoded"
        /\ verdict' = "none"
    BY <1>0, <1>2 DEF Send, OnItsWay, codecVars
  <2>2. Written \in Seq(Byte)
    BY <2>1 DEF Coded
  <2>3. line' # <<>>
    BY <2>1, <2>2
  <2> QED
    BY <1>m, <2>1, <2>2, <2>3 DEF OnItsWay, Arrives
<1>3. CASE Drop
  <2>1. /\ line' = <<>> /\ status' # {} /\ phase' = "encoded" /\ verdict' = "dropped"
    BY <1>3 DEF Drop, codecVars
  <2> QED
    BY <2>1 DEF OnItsWay, Arrives
<1>4. CASE Damage
  BY <1>4 DEF Damage
<1>5. CASE Receive
  <2>1. phase' = "decode" /\ verdict' = "none"
    BY <1>5 DEF Receive, Decodes, packetVars
  <2> QED
    BY <1>5, <2>1, ReceiveTrip DEF OnItsWay, Arrives
\* The line has a zero.
<1>6. CASE Wait
  <2>1. PICK packet \in Seq(Byte) : line = Append(packet, 0)
    BY <1>0, <1>6 DEF Wait, OnItsWay
  <2>2. Len(line) \in 1 .. Len(line) /\ line[Len(line)] = 0
    BY <2>1
  <2> QED
    BY <1>6, <2>2 DEF Wait, Ends
<1>7. CASE Check
  <2>1. status = {} /\ Written = Message
    BY <1>0, <1>7 DEF Check, Arrives, Decoded
  <2>2. verdict' = "accepted" /\ phase' = "decoded"
    BY <1>0, <1>7, <2>1 DEF Check, Judge, codecVars
  <2>3. status' = {} /\ Written' = Message'
    BY <1>7, <1>m, <2>1 DEF Check, codecVars, Written
  <2> QED
    BY <2>2, <2>3 DEF OnItsWay, Arrives, Decoded
<1>8. CASE UNCHANGED vars
  BY <1>0, <1>8, <1>m DEF vars, codecVars, blocks, packetVars, OnItsWay, Arrives, Decoding,
     DecodingFrom, Decoded, Written
<1> QED
  BY <1>1, <1>2, <1>3, <1>4, <1>5, <1>6, <1>7, <1>8 DEF Next

LEMMA TripStep == TripInv /\ [Next]_vars => TripInv'
<1> SUFFICES ASSUME TripInv, [Next]_vars PROVE TripInv'
  OBVIOUS
<1>a. PacketInv'
  BY PacketStep DEF TripInv
<1>b. payload' = payload
  BY DEF Next, packetVars, Send, Drop, Damage, Receive, Wait, Check, vars
<1> SUFFICES ASSUME payload # NoPayload PROVE Trip'
  BY <1>a, <1>b DEF TripInv, Trip
<1>1. CASE Encode /\ UNCHANGED packetVars
  BY <1>1, EncodeTrip
<1>2. CASE ~Encode
  <2>1. intact' => intact
    BY <1>2 DEF Next, packetVars, Send, Drop, Damage, Receive, Wait, Check, vars
  <2>2. intact' => (OnItsWay /\ Arrives)'
    BY <1>2, <2>1, IntactTrip DEF TripInv, PacketInv, TypeOK
  <2>3. Encodes'
    <3>1. CASE phase' # "encode"
      BY <3>1 DEF Encodes
    <3>2. CASE phase' = "encode"
      <4>1. UNCHANGED vars
        BY <1>2, <3>2 DEF Next, Decode, NothingToDecode, ZeroCode, DecodeBlock, Send, Drop,
           Damage, Receive, Decodes, Wait, Check, codecVars, TripInv, Trip, Encodes
      <4> QED
        BY <3>2, <4>1 DEF vars, codecVars, blocks, packetVars, TripInv, Trip, Encodes, Message,
           Chained, Behind
    <3> QED
      BY <3>1, <3>2
  <2> QED
    BY <2>2, <2>3 DEF Trip
<1>3. Encode => phase = "encode"
  BY DEF Encode, NoRoom, EncodeZero, EncodeOther, FinishEncode
<1> QED
  BY <1>1, <1>2, <1>3 DEF Next, Send, Drop, Damage, Receive, Wait, Check, Decode,
     NothingToDecode, ZeroCode, DecodeBlock, vars

(***************************************************************************)
(* What the line leaves alone comes through: whatever the message, the     *)
(* size of a full block and the buffer, decode_buffer accepts the packet   *)
(* and has the message and its checksum, byte for byte.                    *)
(***************************************************************************)
THEOREM MessageComesBack == Spec => []RoundTrip
<1>1. TripInv => RoundTrip
  <2> SUFFICES ASSUME TripInv, payload # NoPayload, intact, verdict \notin {"none", "dropped"}
               PROVE  verdict = "accepted" /\ Written = Message
    BY DEF RoundTrip, Message
  <2>1. phase \in {"encode", "encoded", "decode", "decoded"}
    BY DEF TripInv, PacketInv, TypeOK, CodecTypeOK
  <2>2. phase = "decoded"
    BY <2>1 DEF TripInv, Trip, Encodes, OnItsWay, Arrives
  <2> QED
    BY <2>2 DEF TripInv, Trip, Arrives, Decoded
<1> QED
  BY <1>1, InitTrip, TripStep, PTL DEF Spec

-----------------------------------------------------------------------------
\* What was accepted was decoded whole, and its checksum is right.
Accepts ==
    verdict = "accepted" => phase = "decoded" /\ crcFast(Written) = CRC_OK

LEMMA AcceptsStep ==
    ASSUME PacketInv, Accepts, [Next]_vars
    PROVE  Accepts'
<1>1. CASE (Encode \/ Decode) /\ UNCHANGED packetVars
  <2>1. phase \in {"encode", "decode"}
    BY <1>1 DEF Encode, Decode, NoRoom, EncodeZero, EncodeOther, FinishEncode,
       NothingToDecode, ZeroCode, DecodeBlock
  <2> QED
    BY <1>1, <2>1 DEF Accepts, packetVars
<1>2. CASE Send \/ Drop \/ Damage \/ Receive \/ Wait
  BY <1>2 DEF Accepts, Send, Drop, Damage, Receive, Wait, packetVars
<1>3. CASE Check
  <2>1. ASSUME verdict' = "accepted" PROVE crcFast(Written) = CRC_OK
    BY <1>3, <2>1 DEF Check, Judge
  <2>2. phase' = "decoded" /\ Written' = Written
    BY <1>3 DEF Check, codecVars, Written
  <2> QED
    BY <2>1, <2>2 DEF Accepts
<1>4. CASE UNCHANGED vars
  BY <1>4 DEF Accepts, vars, codecVars, packetVars, Written
<1> QED
  BY <1>1, <1>2, <1>3, <1>4 DEF Next

(***************************************************************************)
(* A packet of which one byte came out wrong is never accepted, for every  *)
(* message, wherever the byte is and whatever it has become: by            *)
(* WrongByteIsSeen the checksum of what was decoded is not CRC_OK.         *)
(***************************************************************************)
THEOREM DamageIsSeen == Spec => []DamageIsRejected
<1>1. Init => Accepts
  BY DEF Init, Accepts
<1>2. PacketInv /\ Accepts => DamageIsRejected
  <2> SUFFICES ASSUME PacketInv, Accepts, payload # NoPayload, verdict = "accepted",
                      write = Len(payload) + 1,
                      NEW i \in 1 .. write, Written[i] # Message[i],
                      \A n \in 1 .. write : n # i => Written[n] = Message[n]
               PROVE  FALSE
    BY Zenon DEF DamageIsRejected, Message
  <2>1. /\ Message \in Seq(Byte) /\ crcFast(Message) = CRC_OK /\ Len(Message) = write
        /\ phase = "decoded" /\ crcFast(Written) = CRC_OK
    <3>1. payload \in Seq(Byte)
      BY PayloadAssumption DEF PacketInv, TypeOK
    <3>2. Len(Message) = Len(payload) + 1
      BY <3>1 DEF Message
    <3> QED
      BY <3>2, MessageType DEF Accepts
  <2>2. Written \in Seq(Byte)
    BY <2>1, WrittenType DEF PacketInv
  <2>3. Len(Written) = write
    <3>1. write \in Nat
      BY DEF PacketInv, TypeOK, CodecTypeOK
    <3> QED
      BY <3>1, <2>2 DEF Written
  <2> QED
    BY <2>1, <2>2, <2>3, WrongByteIsSeen, ByteIsOctet
<1> QED
  BY <1>1, <1>2, AcceptsStep, PacketInvAlways, PTL DEF Spec
=============================================================================
