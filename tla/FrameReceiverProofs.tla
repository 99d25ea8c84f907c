------------------------ MODULE FrameReceiverProofs -------------------------
(***************************************************************************)
(* Theorems about FrameReceiver, for any number of packets, sizes, heap,   *)
(* damage and failures: it is a PacketStream, and it decodes what it read  *)
(* whole.                                                                  *)
(*                                                                         *)
(* The reads are put over one another, so the buffer is not in the order   *)
(* of the line, and an end in it may be an old one.  What always holds is  *)
(* that the bytes in the buffer came before those that wait in the port,   *)
(* that it has none of them twice, and none of a packet that was decoded:  *)
(* so no packet is decoded twice.  In a buffer that was cleared for the    *)
(* packet that it gathers there is no old end; those that a read finds lie *)
(* in what was just read, and so the packets come in their order.          *)
(***************************************************************************)
EXTENDS FrameReceiver, FiniteSetTheorems, TLAPS

\* The place in buffer_ is one, which TypeOK leaves open when size is not within
\* the buffer.
TypeInv == TypeOK /\ pos <= MaxPacket

\* The bytes of the buffer, old ones too.
Stored == {buffer[i] : i \in 1 .. MaxPacket}

Waiting == {inbox[j] : j \in 1 .. Len(inbox)}

OfPacket(c) == c[1] # 0

Before(c, d) == c[1] < d[1] \/ (c[1] = d[1] /\ c[2] < d[2])

\* In the order of the line, which the ECU goes on with.
InOrder ==
    /\ \A i, j \in 1 .. Len(inbox) :
          i < j /\ OfPacket(inbox[i]) /\ OfPacket(inbox[j]) => Before(inbox[i], inbox[j])
    /\ \A c \in Stored, d \in Waiting : OfPacket(c) /\ OfPacket(d) => Before(c, d)
    /\ \A c \in Stored \cup Waiting : OfPacket(c) => Before(c, next)

StoredOnce ==
    \A i, j \in 1 .. MaxPacket : OfPacket(buffer[i]) /\ buffer[i] = buffer[j] => i = j

\* Of a packet that was decoded nothing is left or still to come.
Done ==
    \A p \in decoded :
        /\ Before(<<p, Body>>, next)
        /\ \A c \in Stored : c[1] # p
        /\ \A d \in Waiting : OfPacket(d) => p < d[1]

\* A second scan finds nothing new: before an end there is nothing.
Clean ==
    size <= MaxPacket =>
        \A e \in EndsIn(buffer, size) : \A i \in 1 .. (e - 1) : ~OfPacket(buffer[i])

\* What a cleared buffer gathers has no end and is newer than what was decoded.
Gathering == clean /\ (at = "read" \/ (at = "idle" /\ pos # 0))

Gathered ==
    Gathering =>
        /\ End \notin Stored
        /\ \A p \in decoded, c \in Stored : OfPacket(c) => p < c[1]

StreamInv ==
    InOrder /\ StoredOnce /\ Done /\ Clean /\ Gathered /\ published \in decoded \cup {0}

\* What ReadIsDecoded keeps of a read is the part of the buffer in use.
Keeping ==
    kept # <<>> =>
        /\ pos = Len(kept) /\ size = Len(kept)
        /\ \A i \in 1 .. pos : buffer[i] = kept[i] /\ kept[i] # End

-----------------------------------------------------------------------------
\* The greatest of a bounded set of places exists: the places from it on are the
\* fewest.
LEMMA MaxExists ==
    ASSUME NEW n \in Nat, NEW S \in SUBSET (0 .. n), S # {}
    PROVE  \E x \in S : \A y \in S : y <= x
<1> DEFINE F == {x .. n : x \in S}
<1>1. F \subseteq FiniteSubsetsOf(0 .. n) /\ F # {}
  <2>1. IsFiniteSet(0 .. n)
    BY FS_Interval
  <2>2. FiniteSubsetsOf(0 .. n) = SUBSET (0 .. n)
    BY <2>1, FS_FiniteSubsetsOfFinite
  <2>3. \A x \in S : (x .. n) \in SUBSET (0 .. n)
    OBVIOUS
  <2>4. F \subseteq SUBSET (0 .. n)
    BY <2>3
  <2>5. F # {}
    OBVIOUS
  <2> HIDE DEF F
  <2> QED
    BY <2>2, <2>4, <2>5
<1>2. PICK A \in F : \A B \in F : <<B, A>> \notin StrictSubsetOrdering(0 .. n)
  <2> HIDE DEF F
  <2> QED
    BY <1>1, FS_StrictSubsetOrderingWellFounded, WFMin
<1>3. PICK x \in S : A = x .. n
  BY <1>2
<1>4. ASSUME NEW y \in S, y > x PROVE FALSE
  <2>1. (y .. n) \in F /\ (y .. n) \subseteq (x .. n) /\ x \in x .. n /\ x \notin y .. n
    BY <1>3, <1>4
  <2>2. <<y .. n, A>> \in StrictSubsetOrdering(0 .. n)
    <3>1. (y .. n) \in SUBSET (0 .. n) /\ A \in SUBSET (0 .. n) /\ (y .. n) # A
      BY <1>3, <2>1
    <3> QED
      BY <1>3, <2>1, <3>1 DEF StrictSubsetOrdering
  <2> QED
    BY <1>2, <2>1, <2>2
<1> QED
  BY <1>4

LEMMA MaxOf ==
    ASSUME NEW n \in Nat, NEW S \in SUBSET (0 .. n), S # {}
    PROVE  /\ Max(S) \in S
           /\ \A y \in S : y <= Max(S)
<1>1. \E x \in S : \A y \in S : x >= y
  BY MaxExists
<1> QED
  BY <1>1 DEF Max

-----------------------------------------------------------------------------
\* Bytes, and what is read.

LEMMA CellType ==
    ASSUME NEW c \in Cells
    PROVE  /\ c[1] \in 0 .. Packets /\ c[2] \in Nat
           /\ OfPacket(c) => /\ c = <<c[1], c[2]>>
                             /\ c[1] \in 1 .. Packets /\ c[2] \in 1 .. Body
BY SizesAssumption DEF Cells, OfPacket, End, Fill, Junk

LEMMA Others ==
    /\ End \in Cells /\ Fill \in Cells /\ Junk \in Cells
    /\ ~OfPacket(End) /\ ~OfPacket(Fill) /\ ~OfPacket(Junk)
    /\ Fill # End /\ Junk # End
    /\ Blank \in [1 .. MaxPacket -> Cells] /\ \A i \in 1 .. MaxPacket : Blank[i] = Fill
BY DEF Cells, OfPacket, End, Fill, Junk, Blank

LEMMA NextCellType ==
    ASSUME TypeOK, next[1] <= Packets
    PROVE  /\ NextCell \in Cells
           /\ OfPacket(NextCell) => NextCell = next
BY SizesAssumption, Others DEF TypeOK, NextCell, Cells

Rest == SubSeq(inbox, Requested + 1, Len(inbox))

LEMMA ReadShape ==
    ASSUME TypeInv
    PROVE  /\ Requested \in 0 .. Len(inbox) /\ pos + Requested <= MaxPacket
           /\ SizeRead \in Nat /\ pos + Requested <= SizeRead
           /\ Filled \in [1 .. MaxPacket -> Cells]
           /\ Rest \in Seq(Cells) /\ Len(Rest) = Len(inbox) - Requested
           /\ \A j \in 1 .. Len(Rest) : Rest[j] = inbox[Requested + j]
           /\ Chunk \in Seq(Cells) /\ Len(Chunk) = Requested
           /\ \A j \in 1 .. Requested : Chunk[j] = inbox[j]
<1>1. /\ pos \in Nat /\ size \in Nat /\ pos <= size
      /\ inbox \in Seq(Cells) /\ Len(inbox) \in Nat
      /\ MaxPacket \in Nat /\ pos <= MaxPacket
  BY SizesAssumption DEF TypeInv, TypeOK
<1>2. /\ Requested \in 0 .. Len(inbox) /\ pos + Requested <= MaxPacket
      /\ SizeRead \in Nat /\ pos + Requested <= SizeRead
  BY <1>1 DEF Requested, Least, SizeRead
<1>3. buffer \in [1 .. MaxPacket -> Cells]
  BY DEF TypeInv, TypeOK
<1>4. Filled \in [1 .. MaxPacket -> Cells]
  <2>1. \A n \in (pos + 1) .. (pos + Requested) : n - pos \in 1 .. Len(inbox)
    BY <1>1, <1>2
  <2>2. \A n \in (pos + 1) .. (pos + Requested) : inbox[n - pos] \in Cells
    BY <1>1, <2>1
  <2> QED
    BY <1>3, <2>2 DEF Filled
<1>5. /\ Rest \in Seq(Cells) /\ Len(Rest) = Len(inbox) - Requested
      /\ \A j \in 1 .. Len(Rest) : Rest[j] = inbox[Requested + j]
  BY <1>1, <1>2 DEF Rest
<1>6. /\ Chunk \in Seq(Cells) /\ Len(Chunk) = Requested
      /\ \A j \in 1 .. Requested : Chunk[j] = inbox[j]
  BY <1>1, <1>2 DEF Chunk
<1> QED
  BY <1>2, <1>4, <1>5, <1>6

-----------------------------------------------------------------------------
\* decode_buffer.

LEMMA EndsType ==
    ASSUME NEW buf, NEW n \in Nat, n <= MaxPacket
    PROVE  /\ EndsIn(buf, n) \subseteq 1 .. MaxPacket /\ EndsIn(buf, n) \subseteq 1 .. n
           /\ \A e \in EndsIn(buf, n) : buf[e] = End
BY SizesAssumption DEF EndsIn

\* A segment begins behind every end that comes before its own.
LEMMA BeginAfter ==
    ASSUME NEW ends \in SUBSET (1 .. MaxPacket), NEW e \in ends
    PROVE  /\ Begin(ends, e) \in 1 .. e
           /\ Begin(ends, e) = 1 \/ Begin(ends, e) - 1 \in ends
           /\ \A d \in ends : d < e => d < Begin(ends, e)
<1> DEFINE S == {0} \cup {k \in ends : k < e}
<1>0. MaxPacket \in Nat
  BY SizesAssumption
<1>1. S \in SUBSET (0 .. MaxPacket) /\ S # {}
  <2>1. 0 \in 0 .. MaxPacket /\ \A k \in ends : k \in 0 .. MaxPacket
    BY <1>0
  <2> QED
    BY <2>1
<1>2. Max(S) \in S /\ \A y \in S : y <= Max(S)
  BY <1>0, <1>1, MaxOf
<1>3. Begin(ends, e) = 1 + Max(S)
  BY DEF Begin
<1>4. \A d \in ends : d \in Nat /\ (d < e => d \in S)
  OBVIOUS
<1>5. \A d \in S : d \in Nat /\ d < e /\ (d = 0 \/ d \in ends)
  OBVIOUS
<1> HIDE DEF S
<1> QED
  BY <1>2, <1>3, <1>4, <1>5

LEMMA BodyInjective ==
    ASSUME NEW p, NEW q, PacketBody(p) = PacketBody(q)
    PROVE  p = q
<1>1. PacketBody(p)[1] = <<p, 1>> /\ PacketBody(q)[1] = <<q, 1>>
  BY SizesAssumption DEF PacketBody
<1> QED
  BY <1>1

\* A segment that is the body of a packet is so byte by byte, and the other way
\* round.
LEMMA SegmentIs ==
    ASSUME NEW buf \in [1 .. MaxPacket -> Cells], NEW ends \in SUBSET (1 .. MaxPacket),
           NEW e \in ends
    PROVE  Segment(buf, ends, e) =
               [k \in 1 .. (e - Begin(ends, e)) |-> buf[Begin(ends, e) + k - 1]]
<1> DEFINE b == Begin(ends, e)
<1>1. b \in 1 .. e /\ e \in 1 .. MaxPacket /\ MaxPacket \in Nat
  BY BeginAfter, SizesAssumption
<1> QED
  BY <1>1 DEF Segment

\* The segment that ends at e is packet p, byte for byte.
HoldsPacket(buf, ends, e, p) ==
    /\ Begin(ends, e) + Body = e
    /\ \A k \in 1 .. Body : buf[Begin(ends, e) + k - 1] = <<p, k>>

LEMMA SegmentBytes ==
    ASSUME NEW buf \in [1 .. MaxPacket -> Cells], NEW ends \in SUBSET (1 .. MaxPacket),
           NEW e \in ends, NEW p, Segment(buf, ends, e) = PacketBody(p)
    PROVE  HoldsPacket(buf, ends, e, p)
<1> DEFINE b == Begin(ends, e)
<1>1. b \in 1 .. e /\ e \in 1 .. MaxPacket /\ MaxPacket \in Nat /\ Body \in Nat \ {0}
  BY BeginAfter, SizesAssumption
<1>2. [k \in 1 .. (e - b) |-> buf[b + k - 1]] = [k \in 1 .. Body |-> <<p, k>>]
  BY SegmentIs DEF PacketBody
<1> HIDE DEF b
<1>3. 1 .. (e - b) = 1 .. Body
  BY <1>2
<1>4. e - b = Body /\ b + Body = e
  BY <1>1, <1>3
<1>5. ASSUME NEW k \in 1 .. Body
      PROVE  buf[b + k - 1] = <<p, k>>
  <2>1. [j \in 1 .. (e - b) |-> buf[b + j - 1]][k] = [j \in 1 .. Body |-> <<p, j>>][k]
    BY <1>2
  <2> QED
    BY <1>4, <2>1
<1> QED
  BY <1>4, <1>5 DEF b, HoldsPacket

LEMMA SegmentOf ==
    ASSUME NEW buf \in [1 .. MaxPacket -> Cells], NEW ends \in SUBSET (1 .. MaxPacket),
           NEW e \in ends, NEW p, Begin(ends, e) + Body = e,
           \A k \in 1 .. Body : buf[Begin(ends, e) + k - 1] = <<p, k>>
    PROVE  Segment(buf, ends, e) = PacketBody(p)
<1>1. Begin(ends, e) \in 1 .. e /\ e \in 1 .. MaxPacket /\ MaxPacket \in Nat /\ Body \in Nat
  BY BeginAfter, SizesAssumption
<1>2. e - Begin(ends, e) = Body
  BY <1>1
<1>3. Segment(buf, ends, e) = [k \in 1 .. (e - Begin(ends, e)) |-> buf[Begin(ends, e) + k - 1]]
  BY SegmentIs
<1>4. Segment(buf, ends, e) = [k \in 1 .. Body |-> buf[Begin(ends, e) + k - 1]]
  BY <1>2, <1>3
<1> QED
  BY <1>4 DEF PacketBody

\* The packet of a good segment, and the last byte of it.
LEMMA GoodEnd ==
    ASSUME NEW buf \in [1 .. MaxPacket -> Cells], NEW ends \in SUBSET (1 .. MaxPacket),
           NEW e \in GoodEnds(buf, ends)
    PROVE  /\ e \in ends
           /\ PacketAt(buf, ends, e) \in 1 .. Packets
           /\ Segment(buf, ends, e) = PacketBody(PacketAt(buf, ends, e))
           /\ e - 1 \in 1 .. MaxPacket
           /\ buf[e - 1] = <<PacketAt(buf, ends, e), Body>>
           /\ \A d \in ends : d < e => d < e - 1
<1> DEFINE p == PacketAt(buf, ends, e)
<1>1. e \in ends /\ p \in 1 .. Packets /\ Segment(buf, ends, e) = PacketBody(p)
  BY DEF GoodEnds, PacketAt
<1>2. /\ Begin(ends, e) + Body = e
      /\ \A k \in 1 .. Body : buf[Begin(ends, e) + k - 1] = <<p, k>>
  <2> HIDE DEF p
  <2>1. HoldsPacket(buf, ends, e, p)
    BY <1>1, SegmentBytes
  <2> QED
    BY <2>1 DEF HoldsPacket
<1>3. /\ Begin(ends, e) \in 1 .. e /\ Body \in Nat \ {0} /\ e \in 1 .. MaxPacket
      /\ MaxPacket \in Nat
  BY <1>1, BeginAfter, SizesAssumption
<1>4. \A d \in ends : d \in Nat /\ (d < e => d < Begin(ends, e))
  BY <1>1, BeginAfter
<1> QED
  BY <1>1, <1>2, <1>3, <1>4

LEMMA GoodEndsFinite ==
    ASSUME NEW buf, NEW ends \in SUBSET (1 .. MaxPacket)
    PROVE  /\ GoodEnds(buf, ends) \in SUBSET (0 .. MaxPacket)
           /\ IsFiniteSet(GoodEnds(buf, ends)) /\ Cardinality(GoodEnds(buf, ends)) \in Nat
           /\ GoodEnds(buf, ends) = {} => Cardinality(GoodEnds(buf, ends)) = 0
<1>1. IsFiniteSet(1 .. MaxPacket)
  BY FS_Interval, SizesAssumption
<1>2. GoodEnds(buf, ends) \in SUBSET (1 .. MaxPacket)
  BY DEF GoodEnds
<1>3. IsFiniteSet(GoodEnds(buf, ends))
  BY <1>1, <1>2, FS_Subset
<1> QED
  BY <1>2, <1>3, FS_CardinalityType, FS_EmptySet

-----------------------------------------------------------------------------
\* The variables keep their types.

LEMMA DecodeType ==
    ASSUME TypeInv, NEW buf \in [1 .. MaxPacket -> Cells], NEW n \in Nat,
           NEW p \in 0 .. n, p <= MaxPacket, DecodeAndPublish(buf, n, p)
    PROVE  /\ at' \in Places
           /\ buffer' \in [1 .. MaxPacket -> Cells]
           /\ size' = n /\ pos' \in 0 .. n /\ pos' <= MaxPacket
           /\ good' \in Nat /\ decoded' \subseteq 1 .. Packets /\ bad' \in BOOLEAN
           /\ published' \in 0 .. Packets
<1>1. CASE Decodes(buf, n, p)
  <2> DEFINE ends == EndsIn(buf, n)
             oks == GoodEnds(buf, ends)
  <2>1. /\ n <= MaxPacket /\ at' = "idle"
        /\ buffer' = Wiped(buf, ends) /\ size' = n /\ pos' = PlaceAfter(ends, p)
        /\ good' = good + Cardinality(oks)
        /\ decoded' = decoded \cup {PacketAt(buf, ends, e) : e \in oks}
        /\ bad' = (bad \/ Bad(buf, ends))
        /\ published' = IF oks = {} THEN published ELSE PacketAt(buf, ends, Max(oks))
    BY <1>1 DEF Decodes
  <2>2. /\ ends \in SUBSET (1 .. MaxPacket)
        /\ oks \in SUBSET (0 .. MaxPacket) /\ Cardinality(oks) \in Nat /\ MaxPacket \in Nat
    BY <2>1, EndsType, GoodEndsFinite, SizesAssumption
  <2>3. \A e \in oks : PacketAt(buf, ends, e) \in 1 .. Packets
    BY <2>2, GoodEnd
  <2>4. oks # {} => Max(oks) \in oks
    BY <2>2, MaxOf
  <2>5. buffer' \in [1 .. MaxPacket -> Cells]
    BY <2>1, Others DEF Wiped
  <2>6. Bad(buf, ends) \in BOOLEAN
    BY DEF Bad
  <2>7. bad' \in BOOLEAN
    BY <2>1, <2>6 DEF TypeInv, TypeOK
  <2> HIDE DEF ends, oks
  <2>8. pos' \in 0 .. n /\ pos' <= MaxPacket
    BY <2>1, <2>2 DEF PlaceAfter
  <2>9. good' \in Nat /\ decoded' \subseteq 1 .. Packets /\ published' \in 0 .. Packets
    <3>1. good \in Nat /\ decoded \subseteq 1 .. Packets /\ published \in 0 .. Packets
      BY DEF TypeInv, TypeOK
    <3>2. good' \in Nat
      BY <2>1, <2>2, <3>1
    <3>3. decoded' \subseteq 1 .. Packets
      BY <2>1, <2>3, <3>1
    <3>4. published' \in 0 .. Packets
      BY <2>1, <2>3, <2>4, <3>1, SizesAssumption
    <3> QED
      BY <3>2, <3>3, <3>4
  <2> QED
    BY <2>1, <2>5, <2>7, <2>8, <2>9 DEF Places
<1>2. CASE Overruns(buf, n, p)
  BY <1>2 DEF Overruns, Places, output, TypeInv, TypeOK
<1> QED
  BY <1>1, <1>2 DEF DecodeAndPublish

LEMMA AdvanceType ==
    ASSUME TypeOK, Advance
    PROVE  /\ next' \in (1 .. (Packets + 1)) \X (1 .. (Body + 1))
           /\ NextCell \in Cells
           /\ OfPacket(NextCell) => NextCell = next
           /\ Before(next, next')
           /\ NextCell = End <=> next[2] = Body + 1
           /\ NextCell = End => next' = <<next[1] + 1, 1>>
           /\ NextCell # End => next' = <<next[1], next[2] + 1>> /\ NextCell = next
<1>1. NextCell \in Cells /\ (OfPacket(NextCell) => NextCell = next)
  BY NextCellType DEF Advance
<1>2. /\ next \in (1 .. (Packets + 1)) \X (1 .. (Body + 1))
      /\ Body \in Nat \ {0} /\ Packets \in Nat
  BY SizesAssumption DEF TypeOK
<1>3. next[1] \in 1 .. Packets /\ next[2] \in 1 .. (Body + 1) /\ next = <<next[1], next[2]>>
  BY <1>2 DEF Advance
<1>4. next # End
  BY <1>3 DEF End
<1> QED
  BY <1>1, <1>2, <1>3, <1>4 DEF Advance, NextCell, Before

LEMMA TypeInit == Init => TypeInv
<1> SUFFICES ASSUME Init PROVE TypeInv
  OBVIOUS
<1>1. <<1, 1>> \in (1 .. (Packets + 1)) \X (1 .. (Body + 1)) /\ <<>> \in Seq(Cells)
  BY SizesAssumption
<1>2. buffer \in [1 .. MaxPacket -> Cells]
  <2>1. buffer \in [1 .. MaxPacket -> {End, Fill, Junk}]
    BY HeapAssumption DEF Init
  <2> QED
    BY <2>1, Others
<1>3. 0 \in 0 .. MaxFailures /\ 0 \in 0 .. MaxDamage /\ 0 \in 0 .. Packets /\ 0 <= MaxPacket
      /\ MaxPacket \in Nat
  BY SizesAssumption
<1>4. /\ next \in (1 .. (Packets + 1)) \X (1 .. (Body + 1))
      /\ inbox \in Seq(Cells) /\ kept \in Seq(Cells)
  BY <1>1 DEF Init
<1>5. /\ connected \in BOOLEAN /\ bad \in BOOLEAN /\ clean \in BOOLEAN /\ at \in Places
      /\ decoded \subseteq 1 .. Packets
  BY DEF Init, Places
<1>6. size \in Nat /\ pos \in 0 .. size /\ pos <= MaxPacket /\ good \in Nat
  BY <1>3 DEF Init
<1>7. published \in 0 .. Packets /\ damage \in 0 .. MaxDamage /\ failures \in 0 .. MaxFailures
  BY <1>3 DEF Init
<1> QED
  BY <1>2, <1>4, <1>5, <1>6, <1>7 DEF TypeInv, TypeOK

LEMMA TypeStep ==
    ASSUME TypeInv, [Next]_vars
    PROVE  TypeInv'
<1> USE SizesAssumption DEF TypeInv
<1>0. /\ inbox \in Seq(Cells) /\ \A b \in Cells : Append(inbox, b) \in Seq(Cells)
      /\ <<>> \in Seq(Cells)
      /\ failures < MaxFailures => failures + 1 \in 0 .. MaxFailures
      /\ damage < MaxDamage => damage + 1 \in 0 .. MaxDamage
  BY DEF TypeOK
<1>1. CASE Arrives
  <2>1. NextCell \in Cells /\ next' \in (1 .. (Packets + 1)) \X (1 .. (Body + 1))
    BY <1>1, AdvanceType DEF Arrives
  <2>2. inbox' \in Seq(Cells)
    BY <1>0, <1>1, <2>1 DEF Arrives
  <2>3. UNCHANGED <<connected, at, memory, output, damage, failures, ghosts>>
    BY <1>1 DEF Arrives
  <2> QED
    BY <2>1, <2>2, <2>3 DEF TypeOK, memory, output, ghosts
<1>2. CASE Missed
  BY <1>2, AdvanceType DEF TypeOK, Missed, memory, output, ghosts
<1>3. CASE Lost
  BY <1>0, <1>3, AdvanceType DEF TypeOK, Lost, memory, output, ghosts
<1>4. ASSUME NEW b \in {Junk, End}, Changed(b)
      PROVE  TypeInv'
  <2>1. b \in Cells /\ next' \in (1 .. (Packets + 1)) \X (1 .. (Body + 1))
    BY <1>4, AdvanceType, Others DEF Changed
  <2>2. inbox' \in Seq(Cells) /\ damage' \in 0 .. MaxDamage
    BY <1>0, <1>4, <2>1 DEF Changed
  <2>3. UNCHANGED <<connected, at, memory, output, failures, ghosts>>
    BY <1>4 DEF Changed
  <2> QED
    BY <2>1, <2>2, <2>3 DEF TypeOK, memory, output, ghosts
<1>5. CASE Looks
  <2>1. /\ buffer' \in [1 .. MaxPacket -> Cells] /\ size' \in Nat /\ pos' = pos
        /\ pos \in 0 .. size'
    BY <1>5, Others DEF TypeOK, Looks, Starts
  <2>2. clean' \in BOOLEAN /\ at' \in Places
    BY <1>5 DEF TypeOK, Looks, Starts, Places
  <2>3. UNCHANGED <<line, connected, output, failures, kept>>
    BY <1>5 DEF Looks
  <2> QED
    BY <2>1, <2>2, <2>3 DEF TypeOK, line, output
<1>6. CASE Reads
  <2>1. /\ DecodeAndPublish(Filled, SizeRead, Requested) /\ inbox' = Rest
        /\ kept' = Chunk \/ kept' = <<>>
        /\ UNCHANGED <<next, connected, damage, failures, clean>>
    BY <1>6 DEF Reads, Rest
  <2>2. Requested \in 0 .. SizeRead /\ Requested <= MaxPacket
    <3>1. pos \in Nat /\ MaxPacket \in Nat
      BY DEF TypeOK
    <3> QED
      BY <3>1, ReadShape
  <2>3. /\ at' \in Places /\ buffer' \in [1 .. MaxPacket -> Cells]
        /\ size' = SizeRead /\ pos' \in 0 .. SizeRead /\ pos' <= MaxPacket
        /\ good' \in Nat /\ decoded' \subseteq 1 .. Packets /\ bad' \in BOOLEAN
        /\ published' \in 0 .. Packets
    BY <2>1, <2>2, ReadShape, DecodeType
  <2>4. inbox' \in Seq(Cells) /\ kept' \in Seq(Cells)
    BY <1>0, <2>1, ReadShape
  <2>5. /\ next' \in (1 .. (Packets + 1)) \X (1 .. (Body + 1)) /\ connected' \in BOOLEAN
        /\ damage' \in 0 .. MaxDamage /\ failures' \in 0 .. MaxFailures
        /\ clean' \in BOOLEAN
    BY <2>1 DEF TypeOK
  <2>6. size' \in Nat /\ pos' \in 0 .. size' /\ pos' <= MaxPacket
    BY <2>3, ReadShape
  <2> QED
    BY <2>3, <2>4, <2>5, <2>6 DEF TypeOK
<1>7. CASE AvailableThrows \/ ReadThrows
  <2>1. /\ DecodeAndPublish(buffer, size, pos)
        /\ failures < MaxFailures /\ failures' = failures + 1
        /\ connected' = FALSE /\ inbox' = <<>> /\ kept' = <<>>
        /\ UNCHANGED <<next, damage, clean>>
    BY <1>7 DEF AvailableThrows, ReadThrows, Throws
  <2>2. pos \in 0 .. size /\ size \in Nat /\ buffer \in [1 .. MaxPacket -> Cells]
    BY DEF TypeOK
  <2>3. /\ at' \in Places /\ buffer' \in [1 .. MaxPacket -> Cells]
        /\ size' = size /\ pos' \in 0 .. size /\ pos' <= MaxPacket
        /\ good' \in Nat /\ decoded' \subseteq 1 .. Packets /\ bad' \in BOOLEAN
        /\ published' \in 0 .. Packets
    BY <2>1, <2>2, DecodeType
  <2> QED
    BY <1>0, <2>1, <2>3 DEF TypeOK
<1>8. CASE WriteThrows
  BY <1>0, <1>8 DEF TypeOK, WriteThrows, memory, output
<1>9. CASE Reconnect
  BY <1>9 DEF TypeOK, Reconnect, line, memory, output, ghosts
<1>10. CASE UNCHANGED vars
  BY <1>10 DEF TypeOK, vars, line, memory, output, ghosts
<1> QED
  BY <1>1, <1>2, <1>3, <1>4, <1>5, <1>6, <1>7, <1>8, <1>9, <1>10 DEF Next

LEMMA TypeAlways == Spec => []TypeInv
BY TypeInit, TypeStep, PTL DEF Spec

\* The receiver's variables keep their types: its place is in buffer_ and in what
\* it takes to be in use, whatever the line, the port and the heap do.
THEOREM ReceiverTypeCorrect == Spec => []TypeOK
<1>1. TypeInv => TypeOK
  BY DEF TypeInv
<1> QED
  BY <1>1, TypeAlways, PTL

-----------------------------------------------------------------------------
\* The order of the bytes.  The ECU goes on.

LEMMA BeforeTransitive ==
    ASSUME NEW c \in Nat \X Nat, NEW d \in Nat \X Nat, NEW e \in Nat \X Nat,
           Before(c, d), Before(d, e)
    PROVE  Before(c, e)
BY DEF Before

LEMMA StoredType ==
    ASSUME TypeInv
    PROVE  /\ Stored \subseteq Cells /\ Waiting \subseteq Cells
           /\ \A i \in 1 .. MaxPacket : buffer[i] \in Stored
           /\ \A j \in 1 .. Len(inbox) : inbox[j] \in Cells /\ inbox[j] \in Waiting
           /\ Cells \subseteq Nat \X Nat
           /\ next \in Nat \X Nat
           /\ decoded \subseteq Nat /\ decoded \subseteq 1 .. Packets
           /\ \A p \in Nat : <<p, Body>> \in Nat \X Nat
<1>1. /\ buffer \in [1 .. MaxPacket -> Cells] /\ inbox \in Seq(Cells)
      /\ next \in (1 .. (Packets + 1)) \X (1 .. (Body + 1)) /\ decoded \subseteq 1 .. Packets
      /\ Packets \in Nat /\ Body \in Nat
  BY SizesAssumption DEF TypeInv, TypeOK
<1>2. Stored \subseteq Cells /\ \A i \in 1 .. MaxPacket : buffer[i] \in Stored
  BY <1>1 DEF Stored
<1>3. /\ Waiting \subseteq Cells
      /\ \A j \in 1 .. Len(inbox) : inbox[j] \in Cells /\ inbox[j] \in Waiting
  BY <1>1 DEF Waiting
<1>4. Cells \subseteq Nat \X Nat
  BY <1>1 DEF Cells, End, Fill, Junk
<1>5. /\ next \in Nat \X Nat /\ decoded \subseteq Nat
      /\ \A p \in Nat : <<p, Body>> \in Nat \X Nat
  BY <1>1
<1> QED
  BY <1>1, <1>2, <1>3, <1>4, <1>5

\* A byte of a packet that is behind the last one of packet p is of a later packet.
LEMMA BehindBody ==
    ASSUME NEW p \in Nat, NEW d \in Cells, OfPacket(d), Before(<<p, Body>>, d)
    PROVE  p < d[1]
BY CellType, SizesAssumption DEF Before

\* What the ECU sends is behind everything it has sent, and of no packet that was
\* decoded.
LEMMA AdvanceKeeps ==
    ASSUME TypeInv, StreamInv, Advance
    PROVE  /\ \A c \in Stored \cup Waiting : OfPacket(c) => Before(c, next')
           /\ \A p \in decoded : Before(<<p, Body>>, next')
           /\ OfPacket(NextCell) => \A p \in decoded : p < NextCell[1]
<1>1. /\ next' \in (1 .. (Packets + 1)) \X (1 .. (Body + 1)) /\ Before(next, next')
      /\ NextCell \in Cells /\ (OfPacket(NextCell) => NextCell = next)
  BY AdvanceType DEF TypeInv
<1>2. next' \in Nat \X Nat
  BY <1>1, SizesAssumption
<1>3. ASSUME NEW c \in Nat \X Nat, Before(c, next)
      PROVE  Before(c, next')
  BY <1>1, <1>2, <1>3, StoredType, BeforeTransitive
<1>4. \A c \in Stored \cup Waiting : OfPacket(c) => Before(c, next')
  BY <1>3, StoredType DEF StreamInv, InOrder
<1>5. \A p \in decoded : Before(<<p, Body>>, next')
  BY <1>3, StoredType DEF StreamInv, Done
<1>6. ASSUME OfPacket(NextCell), NEW p \in decoded
      PROVE  p < NextCell[1]
  BY <1>1, <1>6, StoredType, BehindBody DEF StreamInv, Done
<1> QED
  BY <1>4, <1>5, <1>6

\* The parts of the invariant that look at the buffer, and not at the line.
LEMMA BufferStays ==
    ASSUME StreamInv, UNCHANGED <<memory, output, at, clean>>
    PROVE  /\ Stored' = Stored
           /\ StoredOnce' /\ Clean' /\ Gathered' /\ published' \in decoded' \cup {0}
<1>1. Stored' = Stored
  BY DEF Stored, memory
<1>2. StoredOnce' /\ Clean'
  BY DEF StreamInv, StoredOnce, Clean, memory
<1>3. Gathered'
  BY <1>1 DEF StreamInv, Gathered, Gathering, memory, output
<1>4. published' \in decoded' \cup {0}
  BY DEF StreamInv, output
<1> QED
  BY <1>1, <1>2, <1>3, <1>4

\* Nothing arrives.
LEMMA SilentStep ==
    ASSUME TypeInv, StreamInv, Advance, UNCHANGED <<inbox, memory, output, at, clean>>
    PROVE  StreamInv'
<1>1. /\ Stored' = Stored
      /\ StoredOnce' /\ Clean' /\ Gathered' /\ published' \in decoded' \cup {0}
  BY BufferStays
<1>2. Waiting' = Waiting /\ decoded' = decoded
  BY DEF Waiting, output
<1>3. InOrder'
  BY <1>1, <1>2, AdvanceKeeps DEF StreamInv, InOrder
<1>4. Done'
  BY <1>1, <1>2, AdvanceKeeps DEF StreamInv, Done
<1> QED
  BY <1>1, <1>3, <1>4 DEF StreamInv

\* A byte arrives: the ECU's next one, or what the line made of it.
LEMMA ArrivalStep ==
    ASSUME TypeInv, StreamInv, Advance, NEW b \in {NextCell, Junk, End},
           inbox' = Append(inbox, b), UNCHANGED <<memory, output, at, clean>>
    PROVE  StreamInv'
<1>0. b \in Cells /\ (OfPacket(b) => b = next /\ b = NextCell)
  BY AdvanceType, Others DEF TypeInv
<1>1. /\ Len(inbox) \in Nat /\ Len(inbox') = Len(inbox) + 1
      /\ \A j \in 1 .. Len(inbox) : inbox'[j] = inbox[j] /\ inbox[j] \in Waiting
      /\ inbox'[Len(inbox) + 1] = b
  <2>1. inbox \in Seq(Cells)
    BY DEF TypeInv, TypeOK
  <2>2. /\ Len(inbox) \in Nat /\ Len(inbox') = Len(inbox) + 1
        /\ \A j \in 1 .. Len(inbox) : inbox'[j] = inbox[j]
        /\ inbox'[Len(inbox) + 1] = b
    BY <1>0, <2>1
  <2> QED
    BY <2>2, StoredType
<1>2. \A j \in 1 .. Len(inbox') : j \in 1 .. Len(inbox) \/ j = Len(inbox) + 1
  BY <1>1
<1>3. /\ Stored' = Stored
      /\ StoredOnce' /\ Clean' /\ Gathered' /\ published' \in decoded' \cup {0}
  BY BufferStays
<1>4. \A c \in Waiting' : c \in Waiting \/ c = b
  BY <1>1, <1>2 DEF Waiting
<1>5. InOrder'
  <2>1. ASSUME NEW i \in 1 .. Len(inbox'), NEW j \in 1 .. Len(inbox'), i < j,
               OfPacket(inbox'[i]), OfPacket(inbox'[j])
        PROVE  Before(inbox'[i], inbox'[j])
    <3>1. i \in 1 .. Len(inbox) /\ inbox'[i] = inbox[i] /\ inbox[i] \in Waiting
      BY <1>1, <2>1
    <3>2. CASE j \in 1 .. Len(inbox)
      BY <1>1, <2>1, <3>1, <3>2 DEF StreamInv, InOrder
    <3>3. CASE j = Len(inbox) + 1
      BY <1>0, <1>1, <2>1, <3>1, <3>3 DEF StreamInv, InOrder
    <3> QED
      BY <1>2, <3>2, <3>3
  <2>2. ASSUME NEW c \in Stored, NEW d \in Waiting', OfPacket(c), OfPacket(d)
        PROVE  Before(c, d)
    BY <1>0, <1>4, <2>2 DEF StreamInv, InOrder
  <2>3. ASSUME NEW c \in Stored \cup Waiting', OfPacket(c)
        PROVE  Before(c, next')
    <3>1. CASE c \in Stored \cup Waiting
      BY <2>3, <3>1, AdvanceKeeps
    <3>2. CASE c = b
      BY <1>0, <2>3, <3>2, AdvanceType DEF TypeInv
    <3> QED
      BY <1>4, <3>1, <3>2
  <2> QED
    BY <1>3, <2>1, <2>2, <2>3 DEF InOrder
<1>6. Done'
  <2>1. decoded' = decoded
    BY DEF output
  <2>2. ASSUME NEW p \in decoded
        PROVE  /\ Before(<<p, Body>>, next')
               /\ \A c \in Stored : c[1] # p
               /\ \A d \in Waiting' : OfPacket(d) => p < d[1]
    BY <1>0, <1>4, AdvanceKeeps DEF StreamInv, Done
  <2> QED
    BY <1>3, <2>1, <2>2 DEF Done
<1> QED
  BY <1>3, <1>5, <1>6 DEF StreamInv

-----------------------------------------------------------------------------
\* The order of the bytes.  A look, and a decode without a read.

LEMMA LooksStep ==
    ASSUME TypeInv, StreamInv, Looks
    PROVE  StreamInv'
<1>1. /\ inbox' = inbox /\ next' = next /\ pos' = pos /\ decoded' = decoded
      /\ published' = published
  BY DEF Looks, line, output
<1>2. Waiting' = Waiting
  BY <1>1 DEF Waiting
<1>3. published' \in decoded' \cup {0}
  BY <1>1 DEF StreamInv
<1>4. CASE Starts
  <2>1. buffer' = Blank /\ size' = 0
    BY <1>4 DEF Looks
  <2>2. \A c \in Stored' : c = Fill
    BY <2>1, Others DEF Stored
  <2>3. \A i \in 1 .. MaxPacket : buffer'[i] = Fill
    BY <2>1, Others
  <2>4. InOrder' /\ StoredOnce'
    BY <1>1, <1>2, <2>2, <2>3, Others DEF StreamInv, InOrder, StoredOnce
  <2>5. Done'
    <3>1. \A p \in decoded : p # 0
      BY StoredType
    <3> QED
      BY <1>1, <1>2, <2>2, <3>1 DEF StreamInv, Done, Fill
  <2>6. Clean'
    BY <2>1 DEF Clean, EndsIn
  <2>7. Gathered'
    BY <2>2, Others DEF Gathered
  <2> QED
    BY <1>3, <2>4, <2>5, <2>6, <2>7 DEF StreamInv
<1>5. CASE ~Starts
  <2>1. buffer' = buffer /\ size' = size /\ (clean' => clean /\ pos # 0) /\ at = "idle"
    BY <1>5 DEF Looks
  <2>2. Stored' = Stored
    BY <2>1 DEF Stored
  <2>3. InOrder' /\ StoredOnce' /\ Done' /\ Clean'
    BY <1>1, <1>2, <2>1, <2>2 DEF StreamInv, InOrder, StoredOnce, Done, Clean
  <2>4. Gathered'
    BY <1>1, <2>1, <2>2 DEF StreamInv, Gathered, Gathering
  <2> QED
    BY <1>3, <2>3, <2>4 DEF StreamInv
<1> QED
  BY <1>4, <1>5

\* What is decoded is cleared, so that a second scan finds nothing before an end.
LEMMA WipedClean ==
    ASSUME NEW buf, NEW n \in Nat, n <= MaxPacket,
           buffer' = Wiped(buf, EndsIn(buf, n)), size' = n
    PROVE  Clean'
<1> SUFFICES ASSUME NEW e \in EndsIn(buffer', n), NEW i \in 1 .. (e - 1)
             PROVE  ~OfPacket(buffer'[i])
  BY DEF Clean
<1>1. e \in 1 .. MaxPacket /\ e \in 1 .. n /\ buffer'[e] = End
  BY EndsType
<1>2. MaxPacket \in Nat
  BY SizesAssumption
<1>3. i \in 1 .. MaxPacket /\ i < e
  BY <1>1, <1>2
<1>4. \A k \in 1 .. MaxPacket :
          buffer'[k] = IF buf[k] # End /\ \E d \in EndsIn(buf, n) : k < d THEN Fill ELSE buf[k]
  BY DEF Wiped
<1>5. buf[e] = End
  BY <1>1, <1>4, Others
<1>6. e \in EndsIn(buf, n)
  BY <1>1, <1>2, <1>5 DEF EndsIn
<1>7. buffer'[i] = Fill \/ buffer'[i] = End
  BY <1>3, <1>4, <1>6
<1> QED
  BY <1>7, Others

LEMMA WipedAt ==
    ASSUME NEW buf, NEW ends, NEW i \in 1 .. MaxPacket
    PROVE  /\ Wiped(buf, ends)[i] = Fill \/ Wiped(buf, ends)[i] = buf[i]
           /\ OfPacket(Wiped(buf, ends)[i]) =>
                 Wiped(buf, ends)[i] = buf[i] /\ \A e \in ends : ~(i < e)
<1>1. Wiped(buf, ends)[i] =
          IF buf[i] # End /\ \E e \in ends : i < e THEN Fill ELSE buf[i]
  BY DEF Wiped
<1> QED
  BY <1>1, Others

LEMMA NothingNew ==
    ASSUME NEW buf \in [1 .. MaxPacket -> Cells], NEW ends \in SUBSET (1 .. MaxPacket),
           \A e \in ends : \A i \in 1 .. (e - 1) : ~OfPacket(buf[i])
    PROVE  GoodEnds(buf, ends) = {}
<1> SUFFICES ASSUME NEW e \in GoodEnds(buf, ends) PROVE FALSE
  OBVIOUS
<1>1. /\ e \in ends /\ PacketAt(buf, ends, e) \in 1 .. Packets
      /\ e - 1 \in 1 .. MaxPacket
      /\ buf[e - 1] = <<PacketAt(buf, ends, e), Body>>
  BY GoodEnd
<1>2. e - 1 \in 1 .. (e - 1)
  BY <1>1
<1>3. ~OfPacket(buf[e - 1])
  BY <1>1, <1>2
<1>4. PacketAt(buf, ends, e) # 0
  BY <1>1
<1> HIDE DEF PacketAt
<1> QED
  BY <1>1, <1>3, <1>4 DEF OfPacket

\* What a wiped buffer holds of packets is what the buffer held of them.
LEMMA WipedStored ==
    ASSUME TypeInv, NEW ends, buffer' = Wiped(buffer, ends), StoredOnce
    PROVE  /\ StoredOnce'
           /\ \A c \in Stored' : c = Fill \/ c \in Stored
<1>1. \A i \in 1 .. MaxPacket : buffer'[i] = Fill \/ buffer'[i] = buffer[i]
  BY WipedAt
<1>2. StoredOnce'
  BY <1>1, Others DEF StoredOnce
<1>3. \A c \in Stored' : c = Fill \/ c \in Stored
  BY <1>1 DEF Stored
<1> QED
  BY <1>2, <1>3

LEMMA ThrowsStep ==
    ASSUME TypeInv, StreamInv, AvailableThrows \/ ReadThrows
    PROVE  StreamInv' /\ UNCHANGED <<next, good, decoded, published, clean>>
<1>0. /\ DecodeAndPublish(buffer, size, pos)
      /\ inbox' = <<>> /\ UNCHANGED <<next, clean>>
      /\ at = "idle" \/ at = "read"
  BY DEF AvailableThrows, ReadThrows, Throws
<1>1. buffer \in [1 .. MaxPacket -> Cells] /\ size \in Nat /\ good \in Nat
  BY DEF TypeInv, TypeOK
<1>2. Waiting' = {} /\ Len(inbox') = 0
  BY <1>0 DEF Waiting
<1>3. CASE Decodes(buffer, size, pos)
  <2> DEFINE ends == EndsIn(buffer, size)
             oks == GoodEnds(buffer, ends)
  <2>1. /\ size <= MaxPacket /\ at' = "idle"
        /\ buffer' = Wiped(buffer, ends) /\ size' = size /\ pos' = PlaceAfter(ends, pos)
        /\ good' = good + Cardinality(oks)
        /\ decoded' = decoded \cup {PacketAt(buffer, ends, e) : e \in oks}
        /\ published' = IF oks = {} THEN published ELSE PacketAt(buffer, ends, Max(oks))
    BY <1>3 DEF Decodes
  <2>2. ends \in SUBSET (1 .. MaxPacket) /\ ends \subseteq 1 .. size
    BY <1>1, <2>1, EndsType
  <2>3. oks = {}
    BY <1>1, <2>1, <2>2, NothingNew DEF StreamInv, Clean
  <2>4. UNCHANGED <<good, decoded, published>>
    <3>1. Cardinality(oks) = 0
      BY <2>2, <2>3, GoodEndsFinite
    <3> HIDE DEF oks, ends
    <3> QED
      BY <1>1, <2>1, <2>3, <3>1
  <2>5. Clean'
    BY <1>1, <2>1, WipedClean
  <2>6. StoredOnce' /\ \A c \in Stored' : c = Fill \/ c \in Stored
    BY <2>1, WipedStored DEF StreamInv
  <2>7. InOrder'
    BY <1>0, <1>2, <2>6, Others DEF StreamInv, InOrder
  <2>8. Done'
    <3>1. \A p \in decoded : p # 0
      BY StoredType
    <3> QED
      BY <1>0, <1>2, <2>4, <2>6, <3>1 DEF StreamInv, Done, Fill
  \* While a packet is gathered there is no end, and the buffer stays as it is.
  <2>9. Gathered'
    <3> SUFFICES ASSUME Gathering' PROVE Gathered'
      BY DEF Gathered
    <3>1. ends = {} /\ pos # 0 /\ clean
      BY <1>0, <2>1 DEF Gathering, PlaceAfter
    <3>2. Gathering
      BY <1>0, <3>1 DEF Gathering
    <3> QED
      BY <2>4, <2>6, <3>2, Others DEF StreamInv, Gathered
  <2> QED
    BY <1>0, <2>4, <2>5, <2>6, <2>7, <2>8, <2>9 DEF StreamInv
<1>4. CASE Overruns(buffer, size, pos)
  <2>1. /\ at' = "overrun" /\ buffer' = buffer /\ size' = size /\ size > MaxPacket
        /\ good' = good /\ decoded' = decoded /\ published' = published
    BY <1>4 DEF Overruns, output
  <2>2. Stored' = Stored
    BY <2>1 DEF Stored
  <2>3. InOrder' /\ StoredOnce' /\ Done'
    BY <1>0, <1>2, <2>1, <2>2 DEF StreamInv, InOrder, StoredOnce, Done
  <2>4. Clean' /\ Gathered' /\ published' \in decoded' \cup {0}
    BY <2>1 DEF StreamInv, Clean, Gathered, Gathering
  <2> QED
    BY <1>0, <2>1, <2>3, <2>4 DEF StreamInv
<1> QED
  BY <1>0, <1>3, <1>4 DEF DecodeAndPublish

\* The port is closed, or opened again: of the line nothing comes.
LEMMA LineStep ==
    ASSUME TypeInv, StreamInv, inbox' = <<>> \/ inbox' = inbox,
           UNCHANGED <<next, memory, output, at, clean>>
    PROVE  StreamInv'
<1>1. /\ Stored' = Stored
      /\ StoredOnce' /\ Clean' /\ Gathered' /\ published' \in decoded' \cup {0}
  BY BufferStays
<1>2. CASE inbox' = <<>>
  <2>1. Waiting' = {} /\ Len(inbox') = 0 /\ decoded' = decoded
    BY <1>2 DEF Waiting, output
  <2> QED
    BY <1>1, <2>1 DEF StreamInv, InOrder, Done
<1>3. CASE inbox' = inbox
  <2>1. Waiting' = Waiting /\ decoded' = decoded
    BY <1>3 DEF Waiting, output
  <2> QED
    BY <1>1, <1>3, <2>1 DEF StreamInv, InOrder, Done
<1> QED
  BY <1>2, <1>3

-----------------------------------------------------------------------------
\* The order of the bytes.  A read.

LEMMA FilledAt ==
    ASSUME TypeInv, NEW i \in 1 .. MaxPacket
    PROVE  /\ i \in (pos + 1) .. (pos + Requested) =>
                  /\ i - pos \in 1 .. Requested /\ i - pos \in 1 .. Len(inbox)
                  /\ Filled[i] = inbox[i - pos] /\ Filled[i] \in Waiting
           /\ i \notin (pos + 1) .. (pos + Requested) =>
                  Filled[i] = buffer[i] /\ Filled[i] \in Stored
<1>1. pos \in Nat /\ Requested \in 0 .. Len(inbox) /\ Len(inbox) \in Nat
  BY ReadShape DEF TypeInv, TypeOK
<1>2. Filled[i] = IF i \in (pos + 1) .. (pos + Requested) THEN inbox[i - pos] ELSE buffer[i]
  BY DEF Filled
<1> QED
  BY <1>1, <1>2, StoredType

LEMMA ReadPlaces ==
    ASSUME TypeInv
    PROVE  /\ pos \in Nat /\ Requested \in Nat /\ Len(inbox) \in Nat /\ MaxPacket \in Nat
           /\ Requested <= Len(inbox)
           /\ Filled \in [1 .. MaxPacket -> Cells] /\ SizeRead \in Nat
           /\ pos + Requested <= SizeRead /\ pos + Requested <= MaxPacket
<1>1. pos \in Nat /\ Len(inbox) \in Nat /\ Requested \in 0 .. Len(inbox)
  BY ReadShape DEF TypeInv, TypeOK
<1> QED
  BY <1>1, ReadShape, SizesAssumption

LEMMA BeforeIsNot ==
    ASSUME NEW c \in Nat \X Nat, NEW d \in Nat \X Nat, Before(c, d)
    PROVE  c # d
BY DEF Before

\* No byte of a packet is twice in what a read makes of the buffer.
LEMMA FilledOnce ==
    ASSUME TypeInv, StreamInv, NEW i \in 1 .. MaxPacket, NEW j \in 1 .. MaxPacket,
           OfPacket(Filled[i]), Filled[i] = Filled[j]
    PROVE  i = j
<1> DEFINE Read(n) == n \in (pos + 1) .. (pos + Requested)
<1>0. Stored \subseteq Nat \X Nat /\ Waiting \subseteq Nat \X Nat
  BY StoredType
<1>1. ASSUME NEW c \in Stored, NEW d \in Waiting, OfPacket(c) PROVE c # d
  <2>1. c = d => OfPacket(d)
    BY <1>1 DEF OfPacket
  <2>2. OfPacket(d) => Before(c, d)
    BY <1>1 DEF StreamInv, InOrder
  <2> QED
    BY <1>0, <2>1, <2>2, BeforeIsNot
<1>2. CASE Read(i) /\ Read(j)
  <2>1. PICK k \in 1 .. Len(inbox) : k = i - pos /\ Filled[i] = inbox[k]
    BY <1>2, FilledAt
  <2>2. PICK l \in 1 .. Len(inbox) : l = j - pos /\ Filled[j] = inbox[l]
    BY <1>2, FilledAt
  <2>3. ~(k < l) /\ ~(l < k)
    <3>1. inbox[k] \in Nat \X Nat /\ inbox[l] \in Nat \X Nat
      BY <1>0, StoredType
    <3>2. k < l => Before(inbox[k], inbox[l])
      BY <2>1, <2>2 DEF StreamInv, InOrder
    <3>3. l < k => Before(inbox[l], inbox[k])
      BY <2>1, <2>2 DEF StreamInv, InOrder
    <3>4. inbox[k] = inbox[l]
      BY <2>1, <2>2
    <3> QED
      BY <3>1, <3>2, <3>3, <3>4, BeforeIsNot
  <2>4. k \in Nat /\ l \in Nat /\ pos \in Nat /\ i \in Nat /\ j \in Nat
    BY ReadPlaces
  <2> QED
    BY <2>1, <2>2, <2>3, <2>4
<1>3. CASE Read(i) /\ ~Read(j)
  BY <1>1, <1>3, FilledAt
<1>4. CASE ~Read(i) /\ Read(j)
  BY <1>1, <1>4, FilledAt
<1>5. CASE ~Read(i) /\ ~Read(j)
  <2>1. Filled[i] = buffer[i] /\ Filled[j] = buffer[j]
    BY <1>5, FilledAt
  <2> QED
    BY <2>1 DEF StreamInv, StoredOnce
<1> QED
  BY <1>2, <1>3, <1>4, <1>5

\* It comes before what the read leaves in the port.
LEMMA FilledBefore ==
    ASSUME TypeInv, StreamInv, NEW i \in 1 .. MaxPacket, OfPacket(Filled[i]),
           NEW j \in (Requested + 1) .. Len(inbox), OfPacket(inbox[j])
    PROVE  Before(Filled[i], inbox[j])
<1>1. j \in 1 .. Len(inbox) /\ inbox[j] \in Waiting
  BY ReadPlaces, StoredType
<1>2. CASE i \in (pos + 1) .. (pos + Requested)
  <2>1. PICK k \in 1 .. Requested : k \in 1 .. Len(inbox) /\ Filled[i] = inbox[k]
    BY <1>2, FilledAt
  <2>2. k < j
    BY <2>1, ReadPlaces
  <2> QED
    BY <1>1, <2>1, <2>2 DEF StreamInv, InOrder
<1>3. CASE i \notin (pos + 1) .. (pos + Requested)
  BY <1>1, <1>3, FilledAt DEF StreamInv, InOrder
<1> QED
  BY <1>2, <1>3

\* A good segment is of a packet that was not decoded, and whose bytes all came.
LEMMA ReadGood ==
    ASSUME TypeInv, StreamInv, SizeRead <= MaxPacket,
           NEW e \in GoodEnds(Filled, EndsIn(Filled, SizeRead)),
           NEW p, p = PacketAt(Filled, EndsIn(Filled, SizeRead), e)
    PROVE  /\ p \in 1 .. Packets /\ p \notin decoded
           /\ e - 1 \in 1 .. MaxPacket /\ Filled[e - 1] = <<p, Body>>
           /\ Before(<<p, Body>>, next)
           /\ \A j \in (Requested + 1) .. Len(inbox) : OfPacket(inbox[j]) => p < inbox[j][1]
<1> DEFINE ends == EndsIn(Filled, SizeRead)
           c == Filled[e - 1]
<1>0. ends \in SUBSET (1 .. MaxPacket) /\ Filled \in [1 .. MaxPacket -> Cells]
  BY ReadPlaces, EndsType
<1>1. /\ e \in ends /\ p \in 1 .. Packets /\ e - 1 \in 1 .. MaxPacket
      /\ c = <<p, Body>>
  BY <1>0, GoodEnd
<1>2. OfPacket(c) /\ c[1] = p /\ p \in Nat
  BY <1>1 DEF OfPacket
<1>3. c \in Stored \cup Waiting
  BY <1>1, FilledAt
<1>4. p \notin decoded
  <2> SUFFICES ASSUME p \in decoded PROVE FALSE
    OBVIOUS
  <2>1. (\A d \in Stored : d[1] # p) /\ (\A d \in Waiting : OfPacket(d) => p < d[1])
    BY DEF StreamInv, Done
  <2> QED
    BY <1>2, <1>3, <2>1
<1>5. Before(<<p, Body>>, next)
  BY <1>1, <1>2, <1>3 DEF StreamInv, InOrder
<1>6. ASSUME NEW j \in (Requested + 1) .. Len(inbox), OfPacket(inbox[j])
      PROVE  p < inbox[j][1]
  <2>1. Before(<<p, Body>>, inbox[j])
    BY <1>1, <1>2, <1>6, FilledBefore
  <2>2. inbox[j] \in Cells
    BY ReadPlaces, StoredType
  <2> QED
    BY <1>2, <1>6, <2>1, <2>2, BehindBody
<1> QED
  BY <1>1, <1>4, <1>5, <1>6

\* No two good segments are of one packet.
LEMMA ReadOnce ==
    ASSUME TypeInv, StreamInv, SizeRead <= MaxPacket,
           NEW e \in GoodEnds(Filled, EndsIn(Filled, SizeRead)),
           NEW f \in GoodEnds(Filled, EndsIn(Filled, SizeRead)),
           PacketAt(Filled, EndsIn(Filled, SizeRead), e)
               = PacketAt(Filled, EndsIn(Filled, SizeRead), f)
    PROVE  e = f
<1> DEFINE p == PacketAt(Filled, EndsIn(Filled, SizeRead), e)
<1>1. /\ p \in 1 .. Packets
      /\ e - 1 \in 1 .. MaxPacket /\ Filled[e - 1] = <<p, Body>>
  BY ReadGood
<1>2. f - 1 \in 1 .. MaxPacket /\ Filled[f - 1] = <<p, Body>>
  BY ReadGood
<1>3. OfPacket(Filled[e - 1])
  BY <1>1 DEF OfPacket
<1>4. e - 1 = f - 1
  BY <1>1, <1>2, <1>3, FilledOnce
<1>5. e \in 1 .. MaxPacket /\ f \in 1 .. MaxPacket
  BY ReadPlaces, EndsType DEF GoodEnds
<1> QED
  BY <1>4, <1>5

\* In a cleared buffer the ends lie in what was just read.
LEMMA ReadEnds ==
    ASSUME TypeInv, StreamInv, Gathering, SizeRead <= MaxPacket,
           NEW e \in EndsIn(Filled, SizeRead)
    PROVE  e \in 1 .. MaxPacket /\ e \in (pos + 1) .. (pos + Requested)
<1>1. e \in 1 .. MaxPacket /\ Filled[e] = End
  BY ReadPlaces, EndsType
<1> QED
  BY <1>1, FilledAt DEF StreamInv, Gathered

\* So the packets of a read are newer than those decoded before.
LEMMA ReadIsNew ==
    ASSUME TypeInv, StreamInv, Gathering, SizeRead <= MaxPacket,
           NEW e \in GoodEnds(Filled, EndsIn(Filled, SizeRead)), NEW q \in decoded
    PROVE  q < PacketAt(Filled, EndsIn(Filled, SizeRead), e)
<1> DEFINE p == PacketAt(Filled, EndsIn(Filled, SizeRead), e)
<1>1. p \in 1 .. Packets /\ e - 1 \in 1 .. MaxPacket /\ Filled[e - 1] = <<p, Body>>
  BY ReadGood
<1> HIDE DEF p
<1>2. OfPacket(Filled[e - 1]) /\ Filled[e - 1][1] = p
  BY <1>1 DEF OfPacket
<1>3. Filled[e - 1] \in Stored \cup Waiting
  BY <1>1, FilledAt
<1>4. q < Filled[e - 1][1]
  <2>1. /\ \A c \in Stored : OfPacket(c) => q < c[1]
        /\ \A d \in Waiting : OfPacket(d) => q < d[1]
    BY DEF StreamInv, Gathered, Done
  <2> QED
    BY <1>2, <1>3, <2>1
<1> QED
  BY <1>2, <1>4 DEF p

\* Of two good segments the later one is of the later packet.
LEMMA ReadOrder ==
    ASSUME TypeInv, StreamInv, Gathering, SizeRead <= MaxPacket,
           NEW e \in GoodEnds(Filled, EndsIn(Filled, SizeRead)),
           NEW f \in GoodEnds(Filled, EndsIn(Filled, SizeRead)), e < f
    PROVE  PacketAt(Filled, EndsIn(Filled, SizeRead), e)
               < PacketAt(Filled, EndsIn(Filled, SizeRead), f)
<1> DEFINE ends == EndsIn(Filled, SizeRead)
           p == PacketAt(Filled, ends, e)
           q == PacketAt(Filled, ends, f)
           c == Filled[e - 1]
           d == Filled[f - 1]
<1>0. ends \in SUBSET (1 .. MaxPacket) /\ Filled \in [1 .. MaxPacket -> Cells]
  BY ReadPlaces, EndsType
<1>1. /\ e \in ends /\ p \in 1 .. Packets /\ e - 1 \in 1 .. MaxPacket /\ c = <<p, Body>>
      /\ f \in ends /\ q \in 1 .. Packets /\ f - 1 \in 1 .. MaxPacket /\ d = <<q, Body>>
      /\ e < f - 1
  BY <1>0, GoodEnd
<1> HIDE DEF p, q
<1>2. /\ e \in 1 .. MaxPacket /\ e \in (pos + 1) .. (pos + Requested)
      /\ f \in 1 .. MaxPacket /\ f \in (pos + 1) .. (pos + Requested)
  BY <1>1, ReadEnds
<1>3. pos \in Nat /\ Requested \in Nat /\ Len(inbox) \in Nat /\ MaxPacket \in Nat
  BY ReadPlaces
<1>4. OfPacket(c) /\ OfPacket(d) /\ p \in Nat /\ q \in Nat /\ Body \in Nat
  BY <1>1, SizesAssumption DEF OfPacket
<1>5. f - 1 \in (pos + 1) .. (pos + Requested)
  BY <1>1, <1>2, <1>3
<1>6. PICK l \in 1 .. Len(inbox) : l = f - 1 - pos /\ d = inbox[l] /\ inbox[l] \in Waiting
  BY <1>1, <1>5, FilledAt
<1>7. Before(c, d)
  <2>1. CASE e - 1 \in (pos + 1) .. (pos + Requested)
    <3>1. PICK k \in 1 .. Len(inbox) : k = e - 1 - pos /\ c = inbox[k]
      BY <1>1, <2>1, FilledAt
    <3>2. k < l
      <4>1. e \in Nat /\ f \in Nat /\ k \in Nat /\ l \in Nat
        BY <1>2, <1>3
      <4> HIDE DEF c, d
      <4> QED
        BY <1>1, <1>3, <1>6, <3>1, <4>1
    <3> HIDE DEF c, d
    <3> QED
      BY <1>4, <1>6, <3>1, <3>2 DEF StreamInv, InOrder
  <2>2. CASE e - 1 \notin (pos + 1) .. (pos + Requested)
    <3>1. c \in Stored
      BY <1>1, <2>2, FilledAt
    <3> HIDE DEF c, d
    <3> QED
      BY <1>4, <1>6, <3>1 DEF StreamInv, InOrder
  <2> QED
    BY <2>1, <2>2
<1>8. p < q
  BY <1>1, <1>4, <1>7 DEF Before
<1> QED
  BY <1>8 DEF p, q

LEMMA ReadsStep ==
    ASSUME TypeInv, StreamInv, Reads
    PROVE  StreamInv'
<1>0. /\ DecodeAndPublish(Filled, SizeRead, Requested)
      /\ inbox' = Rest /\ next' = next /\ clean' = clean /\ at = "read"
  BY DEF Reads, Rest
<1>1. /\ pos \in Nat /\ Requested \in Nat /\ Len(inbox) \in Nat /\ MaxPacket \in Nat
      /\ Requested <= Len(inbox) /\ Filled \in [1 .. MaxPacket -> Cells] /\ SizeRead \in Nat
      /\ pos + Requested <= SizeRead /\ pos + Requested <= MaxPacket
  BY ReadPlaces
<1>2. /\ Len(inbox') = Len(inbox) - Requested
      /\ \A j \in 1 .. Len(inbox') : inbox'[j] = inbox[Requested + j]
  BY <1>0, ReadShape
<1>3. \A j \in 1 .. Len(inbox') : /\ Requested + j \in (Requested + 1) .. Len(inbox)
                                  /\ Requested + j \in 1 .. Len(inbox)
  BY <1>1, <1>2
<1>4. /\ Waiting' \subseteq Waiting
      /\ \A d \in Waiting' : \E j \in (Requested + 1) .. Len(inbox) : d = inbox[j]
  BY <1>2, <1>3 DEF Waiting
<1>5. \A i \in 1 .. MaxPacket : Filled[i] \in Stored \cup Waiting
  BY FilledAt
<1>6. \A i \in 1 .. MaxPacket : buffer'[i] = Fill \/ buffer'[i] = Filled[i]
  <2>1. CASE Decodes(Filled, SizeRead, Requested)
    BY <2>1, WipedAt DEF Decodes
  <2>2. CASE Overruns(Filled, SizeRead, Requested)
    BY <2>2 DEF Overruns
  <2> QED
    BY <1>0, <2>1, <2>2 DEF DecodeAndPublish
<1>7. \A c \in Stored' : c = Fill \/ \E i \in 1 .. MaxPacket : c = Filled[i]
  BY <1>6 DEF Stored
<1>8. InOrder'
  <2>1. ASSUME NEW i \in 1 .. Len(inbox'), NEW j \in 1 .. Len(inbox'), i < j,
               OfPacket(inbox'[i]), OfPacket(inbox'[j])
        PROVE  Before(inbox'[i], inbox'[j])
    <3>1. Requested + i < Requested + j
      BY <1>1, <2>1
    <3> QED
      BY <1>2, <1>3, <2>1, <3>1 DEF StreamInv, InOrder
  <2>2. ASSUME NEW c \in Stored', NEW d \in Waiting', OfPacket(c), OfPacket(d)
        PROVE  Before(c, d)
    <3>1. PICK i \in 1 .. MaxPacket : c = Filled[i]
      BY <1>7, <2>2, Others
    <3>2. PICK j \in (Requested + 1) .. Len(inbox) : d = inbox[j]
      BY <1>4
    <3> QED
      BY <2>2, <3>1, <3>2, FilledBefore
  <2>3. ASSUME NEW c \in Stored' \cup Waiting', OfPacket(c)
        PROVE  Before(c, next')
    <3>1. c \in Stored \cup Waiting
      BY <1>4, <1>5, <1>7, <2>3, Others
    <3> QED
      BY <1>0, <2>3, <3>1 DEF StreamInv, InOrder
  <2> QED
    BY <2>1, <2>2, <2>3 DEF InOrder
<1>9. StoredOnce'
  BY <1>6, FilledOnce, Others DEF StoredOnce
\* Of what was decoded before nothing comes back.
<1>10. ASSUME NEW p \in decoded
       PROVE  /\ Before(<<p, Body>>, next')
              /\ \A c \in Stored' : c[1] # p
              /\ \A d \in Waiting' : OfPacket(d) => p < d[1]
  <2>1. /\ Before(<<p, Body>>, next)
        /\ \A c \in Stored : c[1] # p
        /\ \A d \in Waiting : OfPacket(d) => p < d[1]
    BY DEF StreamInv, Done
  <2>2. p \in Nat /\ p # 0
    BY StoredType
  <2>3. \A d \in Waiting : d[1] # p
    BY <2>1, <2>2 DEF OfPacket
  <2>4. Fill[1] # p
    BY <2>2 DEF Fill
  <2> QED
    BY <1>0, <1>4, <1>5, <1>7, <2>1, <2>3, <2>4
<1>11. CASE Overruns(Filled, SizeRead, Requested)
  <2>1. /\ at' = "overrun" /\ size' = SizeRead /\ SizeRead > MaxPacket
        /\ decoded' = decoded /\ published' = published
    BY <1>11 DEF Overruns, output
  <2>2. Done'
    BY <1>10, <2>1 DEF Done
  <2>3. Clean' /\ Gathered' /\ published' \in decoded' \cup {0}
    BY <1>1, <2>1 DEF StreamInv, Clean, Gathered, Gathering
  <2> QED
    BY <1>8, <1>9, <2>2, <2>3 DEF StreamInv
<1>12. CASE Decodes(Filled, SizeRead, Requested)
  <2> DEFINE ends == EndsIn(Filled, SizeRead)
             oks == GoodEnds(Filled, ends)
  <2>1. /\ SizeRead <= MaxPacket /\ at' = "idle"
        /\ buffer' = Wiped(Filled, ends) /\ size' = SizeRead
        /\ pos' = PlaceAfter(ends, Requested)
        /\ decoded' = decoded \cup {PacketAt(Filled, ends, e) : e \in oks}
        /\ published' = IF oks = {} THEN published ELSE PacketAt(Filled, ends, Max(oks))
    BY <1>12 DEF Decodes
  <2>2. ends \in SUBSET (1 .. MaxPacket) /\ oks \in SUBSET (0 .. MaxPacket)
    BY <1>1, <2>1, EndsType, GoodEndsFinite
  <2>3. Clean'
    BY <1>1, <2>1, WipedClean
  \* A packet that is decoded now is wiped, and what comes is behind it.
  <2>4. ASSUME NEW e \in oks, NEW p, p = PacketAt(Filled, ends, e)
        PROVE  /\ Before(<<p, Body>>, next')
               /\ \A c \in Stored' : c[1] # p
               /\ \A d \in Waiting' : OfPacket(d) => p < d[1]
    <3>1. /\ p \in 1 .. Packets /\ Before(<<p, Body>>, next)
          /\ \A j \in (Requested + 1) .. Len(inbox) : OfPacket(inbox[j]) => p < inbox[j][1]
      BY <2>1, <2>4, ReadGood
    <3>2. Segment(Filled, ends, e) = PacketBody(p) /\ e \in ends
      BY <1>1, <2>2, <2>4, GoodEnd
    <3>3. /\ Begin(ends, e) + Body = e /\ Begin(ends, e) \in 1 .. e /\ e \in 1 .. MaxPacket
          /\ \A k \in 1 .. Body : Filled[Begin(ends, e) + k - 1] = <<p, k>>
      <4>1. e \in 1 .. MaxPacket
        BY <2>2, <3>2
      <4> HIDE DEF ends, oks
      <4>2. Begin(ends, e) \in 1 .. e
        BY <2>2, <3>2, BeginAfter
      <4>3. Filled \in [1 .. MaxPacket -> Cells]
        BY <1>1
      <4>4. HoldsPacket(Filled, ends, e, p)
        BY <2>2, <3>2, <4>3, SegmentBytes
      <4> QED
        BY <4>1, <4>2, <4>4 DEF HoldsPacket
    <3>4. ASSUME NEW c \in Stored', c[1] = p
          PROVE  FALSE
      <4>1. PICK i \in 1 .. MaxPacket : c = buffer'[i]
        BY DEF Stored
      <4>2. OfPacket(c)
        BY <3>1, <3>4 DEF OfPacket
      <4>3. c = Filled[i] /\ ~(i < e)
        BY <2>1, <3>2, <4>1, <4>2, WipedAt
      <4>4. c \in Cells
        BY <1>1, <4>3
      <4>5. c = <<p, c[2]>> /\ c[2] \in 1 .. Body
        BY <3>4, <4>2, <4>4, CellType
      <4>6. PICK n \in 1 .. MaxPacket : n = Begin(ends, e) + c[2] - 1 /\ n < e
        BY <1>1, <3>3, <4>5, SizesAssumption
      <4>7. Filled[n] = c
        BY <3>3, <4>5, <4>6
      <4>8. i = n
        BY <4>2, <4>3, <4>7, FilledOnce
      <4> QED
        BY <4>3, <4>6, <4>8
    <3> QED
      BY <1>0, <1>4, <3>1, <3>4
  <2>5. Done'
    <3>1. \A p \in decoded' : p \in decoded \/ \E e \in oks : p = PacketAt(Filled, ends, e)
      BY <2>1
    <3> QED
      BY <1>10, <2>4, <3>1 DEF Done
  <2>6. Gathered'
    <3> SUFFICES ASSUME Gathering'
                 PROVE  /\ End \notin Stored'
                        /\ \A p \in decoded', c \in Stored' : OfPacket(c) => p < c[1]
      BY DEF Gathered
    <3>1. ends = {} /\ Gathering
      BY <1>0, <2>1 DEF Gathering, PlaceAfter
    <3>2. oks = {} /\ decoded' = decoded
      <4>1. oks = {}
        BY <3>1 DEF GoodEnds
      <4> QED
        BY <2>1, <4>1
    <3>3. ASSUME NEW i \in 1 .. MaxPacket
          PROVE  Filled[i] # End
      <4>1. CASE i \in (pos + 1) .. (pos + Requested)
        <5>1. i \in 1 .. SizeRead
          BY <1>1, <4>1
        <5> QED
          BY <3>1, <5>1 DEF EndsIn
      <4>2. CASE i \notin (pos + 1) .. (pos + Requested)
        BY <3>1, <4>2, FilledAt DEF StreamInv, Gathered
      <4> QED
        BY <4>1, <4>2
    <3>4. End \notin Stored'
      BY <1>7, <3>3, Others
    <3>5. ASSUME NEW p \in decoded, NEW c \in Stored', OfPacket(c)
          PROVE  p < c[1]
      <4>1. c \in Stored \cup Waiting
        BY <1>5, <1>7, <3>5, Others
      <4> QED
        BY <3>1, <3>5, <4>1 DEF StreamInv, Gathered, Done
    <3> QED
      BY <3>2, <3>4, <3>5
  <2>7. published' \in decoded' \cup {0}
    <3>1. CASE oks = {}
      BY <2>1, <3>1 DEF StreamInv
    <3>2. CASE oks # {}
      <4>1. Max(oks) \in oks
        BY <1>1, <2>2, <3>2, MaxOf
      <4> HIDE DEF oks, ends
      <4> QED
        BY <2>1, <3>2, <4>1
    <3> QED
      BY <3>1, <3>2
  <2> QED
    BY <1>8, <1>9, <2>3, <2>5, <2>6, <2>7 DEF StreamInv
<1> QED
  BY <1>0, <1>11, <1>12 DEF DecodeAndPublish

-----------------------------------------------------------------------------
\* FrameReceiver implements PacketStream.

\* As many packets are decoded as there are good segments.
LEMMA Counted ==
    ASSUME NEW oks, IsFiniteSet(oks), NEW packet, NEW together,
           packet \in [oks -> together], together = {packet[e] : e \in oks},
           \A e, f \in oks : packet[e] = packet[f] => e = f
    PROVE  Cardinality(together) = Cardinality(oks)
<1>1. packet \in Bijection(oks, together)
  BY DEF Bijection, Injection, Surjection, IsInjective
<1> QED
  BY <1>1, FS_Bijection DEF ExistsBijection

\* The last of them is that of the last segment, when they are in their order.
LEMMA LatestIsLast ==
    ASSUME NEW oks \in SUBSET (0 .. MaxPacket), oks # {},
           NEW together \in SUBSET (0 .. Packets), NEW packet,
           together = {packet[e] : e \in oks},
           \A e, f \in oks : e < f => packet[e] < packet[f]
    PROVE  Max(together) = packet[Max(oks)]
<1>1. MaxPacket \in Nat /\ Packets \in Nat
  BY SizesAssumption
<1>2. Max(oks) \in oks /\ \A e \in oks : e <= Max(oks)
  BY <1>1, MaxOf
<1>3. together # {}
  BY <1>2
<1>4. Max(together) \in together /\ \A p \in together : p <= Max(together)
  BY <1>1, <1>3, MaxOf
<1>5. PICK e \in oks : Max(together) = packet[e]
  BY <1>4
<1>6. packet[Max(oks)] <= packet[e] /\ packet[e] \in Nat /\ packet[Max(oks)] \in Nat
  <2>1. packet[Max(oks)] \in together /\ packet[e] \in together
    BY <1>2
  <2>2. \A p \in together : p \in Nat
    BY <1>1
  <2> QED
    BY <1>4, <1>5, <2>1, <2>2
<1>7. e = Max(oks)
  <2>1. e \in Nat /\ Max(oks) \in Nat /\ e <= Max(oks)
    <3>1. \A x \in oks : x \in Nat
      BY <1>1
    <3> QED
      BY <1>2, <3>1
  <2>2. ~(e < Max(oks))
    <3>1. e < Max(oks) => packet[e] < packet[Max(oks)]
      BY <1>2, Zenon
    <3> QED
      BY <1>6, <3>1
  <2> QED
    BY <2>1, <2>2
<1> QED
  BY <1>5, <1>7

\* PacketStream counts with the same operators.
LEMMA SameCardinality == ASSUME NEW S PROVE Stream!Cardinality(S) = Cardinality(S)
BY DEF Stream!Cardinality, Cardinality

LEMMA SameMax == ASSUME NEW S PROVE Stream!Max(S) = Max(S)
BY DEF Stream!Max, Max

\* The packets that were sent whole.
Sent == IF next[2] = Body + 1 THEN next[1] ELSE next[1] - 1

LEMMA SentType ==
    ASSUME TypeInv
    PROVE  /\ Sent \in Nat /\ next[1] \in Nat
           /\ \A p \in Nat : Before(<<p, Body>>, next) => p <= Sent
<1>1. next[1] \in 1 .. (Packets + 1) /\ next[2] \in 1 .. (Body + 1)
      /\ Packets \in Nat /\ Body \in Nat
  BY SizesAssumption DEF TypeInv, TypeOK
<1> QED
  BY <1>1 DEF Sent, Before

LEMMA ReadsDelivers ==
    ASSUME TypeInv, StreamInv, Reads
    PROVE  Stream!Deliver \/ UNCHANGED <<next, good, decoded, published, clean>>
<1>0. /\ DecodeAndPublish(Filled, SizeRead, Requested)
      /\ at = "read" /\ UNCHANGED <<next, clean>>
  BY DEF Reads
<1>1. CASE Overruns(Filled, SizeRead, Requested)
  BY <1>0, <1>1 DEF Overruns, output
<1>2. CASE Decodes(Filled, SizeRead, Requested)
  <2> DEFINE ends == EndsIn(Filled, SizeRead)
             oks == GoodEnds(Filled, ends)
             packet == [e \in oks |-> PacketAt(Filled, ends, e)]
             together == {packet[e] : e \in oks}
  <2>1. /\ SizeRead <= MaxPacket
        /\ good' = good + Cardinality(oks)
        /\ decoded' = decoded \cup {PacketAt(Filled, ends, e) : e \in oks}
        /\ published' = IF oks = {} THEN published ELSE PacketAt(Filled, ends, Max(oks))
    BY <1>2 DEF Decodes
  <2>2. ends \in SUBSET (1 .. MaxPacket) /\ MaxPacket \in Nat
    BY <2>1, ReadPlaces, EndsType
  <2>3. /\ oks \in SUBSET (0 .. MaxPacket) /\ IsFiniteSet(oks)
        /\ oks = {} => Cardinality(oks) = 0
    BY <2>2, GoodEndsFinite
  <2>4. together = {PacketAt(Filled, ends, e) : e \in oks}
    OBVIOUS
  <2>5. ASSUME NEW e \in oks
        PROVE  /\ packet[e] \in 0 .. Packets /\ packet[e] \notin decoded
               /\ packet[e] \in 1 .. Sent
    <3>1. PICK p : p = PacketAt(Filled, ends, e)
      OBVIOUS
    <3>2. p \in 1 .. Packets /\ p \notin decoded /\ Before(<<p, Body>>, next)
      BY <2>1, <3>1, ReadGood
    <3>3. p \in 0 .. Packets /\ p \in 1 .. Sent
      BY <3>2, SentType, SizesAssumption
    <3>4. packet[e] = p
      BY <3>1
    <3> QED
      BY <3>2, <3>3, <3>4
  <2>6. \A e, f \in oks : packet[e] = packet[f] => e = f
    BY <2>1, ReadOnce
  <2>7. Gathering => \A e, f \in oks : e < f => packet[e] < packet[f]
    BY <2>1, ReadOrder
  <2>8. Gathering => \A e \in oks : \A q \in decoded : q < packet[e]
    BY <2>1, ReadIsNew
  <2>9. CASE oks = {}
    <3>1. good' = good
      BY <2>1, <2>3, <2>9 DEF TypeInv, TypeOK
    <3> QED
      BY <1>0, <2>1, <2>9, <3>1
  <2>10. CASE oks # {}
    <3>1. Max(oks) \in oks
      BY <2>2, <2>3, <2>10, MaxOf
    <3>2. together # {} /\ published' = packet[Max(oks)]
      BY <2>1, <2>10, <3>1
    <3>3. Cardinality(together) = Cardinality(oks)
      <4>1. packet \in [oks -> together] /\ together = {packet[e] : e \in oks}
        OBVIOUS
      <4> HIDE DEF oks, packet, together
      <4> QED
        BY <2>3, <2>6, <4>1, Counted
    <3> HIDE DEF oks, packet
    <3>4. together \in SUBSET Stream!Untaken
      BY <2>5 DEF Stream!Untaken, Sent
    <3>5. /\ decoded' = decoded \cup together /\ good' = good + Cardinality(together)
          /\ published' \in together /\ Sent' = Sent
      BY <1>0, <2>1, <2>4, <3>1, <3>2, <3>3 DEF Sent
    <3>6. ASSUME clean
          PROVE  together \subseteq Stream!Later /\ published' = Max(together)
      <4>1. Gathering
        BY <1>0, <3>6 DEF Gathering
      <4>2. together \in SUBSET (0 .. Packets)
        BY <2>5
      <4>3. published' = Max(together)
        BY <2>3, <2>7, <2>10, <3>2, <4>1, <4>2, LatestIsLast
      <4>4. published \in Nat /\ (published = 0 \/ published \in decoded)
        BY DEF StreamInv, TypeInv, TypeOK
      <4>5. ASSUME NEW e \in oks
            PROVE  packet[e] \in (published + 1) .. Sent
        <5>1. packet[e] \in 1 .. Sent
          BY <2>5
        <5>2. published < packet[e]
          BY <2>8, <4>1, <4>4, <5>1
        <5> QED
          BY <4>4, <5>1, <5>2, SentType
      <4>6. together \subseteq Stream!Later
        BY <4>5 DEF Stream!Later, Sent
      <4> QED
        BY <4>3, <4>6
    <3> HIDE DEF together
    <3>7. together \in (SUBSET Stream!Untaken) \ {{}}
      BY <3>2, <3>4
    <3> QED
      BY <1>0, <3>5, <3>6, <3>7, SameCardinality, SameMax DEF Stream!Deliver, Sent
  <2> QED
    BY <2>9, <2>10
<1> QED
  BY <1>0, <1>1, <1>2 DEF DecodeAndPublish

\* The ECU sends the last byte of a packet's body, or another one.
LEMMA AdvanceSends ==
    ASSUME TypeInv, Advance, UNCHANGED <<good, decoded, published, clean>>
    PROVE  Stream!Send \/ (Sent' = Sent /\ UNCHANGED <<good, decoded, published, clean>>)
<1>1. /\ next[1] \in 1 .. (Packets + 1) /\ next[2] \in 1 .. (Body + 1)
      /\ Packets \in Nat /\ Body \in Nat \ {0}
  BY SizesAssumption DEF TypeInv, TypeOK
<1>2. CASE next[2] <= Body
  <2>1. next' = <<next[1], next[2] + 1>>
    BY <1>2 DEF Advance
  <2>2. Sent' = Sent \/ Sent' = Sent + 1
    BY <1>1, <1>2, <2>1 DEF Sent
  <2> QED
    BY <2>2 DEF Stream!Send, Sent
<1>3. CASE ~(next[2] <= Body)
  <2>1. next' = <<next[1] + 1, 1>> /\ next[2] = Body + 1
    BY <1>1, <1>3 DEF Advance
  <2>2. Sent' = Sent
    BY <1>1, <2>1 DEF Sent
  <2> QED
    BY <2>2
<1> QED
  BY <1>2, <1>3

LEMMA StreamInit == Init => StreamInv /\ Stream!Init
<1> SUFFICES ASSUME Init PROVE StreamInv /\ Stream!Init
  OBVIOUS
<1>1. \A c \in Stored : ~OfPacket(c)
  <2>1. buffer \in [1 .. MaxPacket -> {End, Fill, Junk}]
    BY HeapAssumption DEF Init
  <2> QED
    BY <2>1, Others DEF Stored
<1>2. \A i \in 1 .. MaxPacket : ~OfPacket(buffer[i])
  BY <1>1 DEF Stored
<1>3. Waiting = {} /\ Len(inbox) = 0 /\ decoded = {} /\ published = 0 /\ ~clean
  BY DEF Init, Waiting
<1>4. InOrder /\ Done
  BY <1>1, <1>3 DEF InOrder, Done
<1>5. StoredOnce
  BY <1>2 DEF StoredOnce
<1>6. Clean
  <2> SUFFICES ASSUME size <= MaxPacket, NEW e \in EndsIn(buffer, size), NEW i \in 1 .. (e - 1)
               PROVE  ~OfPacket(buffer[i])
    BY DEF Clean
  <2>1. size \in Nat /\ MaxPacket \in Nat
    BY SizesAssumption DEF Init
  <2>2. e \in 1 .. MaxPacket
    BY <2>1, EndsType
  <2> QED
    BY <1>2, <2>1, <2>2
<1>7. Gathered
  BY <1>3 DEF Gathered, Gathering
<1>8. Stream!Init
  BY SizesAssumption DEF Init, Stream!Init
<1> QED
  BY <1>3, <1>4, <1>5, <1>6, <1>7, <1>8 DEF StreamInv

\* Every step keeps the order, and is one of the stream or none.
LEMMA StreamStep ==
    ASSUME TypeInv, StreamInv, [Next]_vars
    PROVE  StreamInv' /\ [Stream!Next]_(Stream!streamVars)
<1> USE DEF Stream!Next, Stream!streamVars
<1>1. CASE Arrives \/ (\E b \in {Junk, End} : Changed(b))
  <2>1. Advance /\ UNCHANGED <<memory, output, at, clean>>
    BY <1>1 DEF Arrives, Changed, ghosts
  <2>2. \E b \in {NextCell, Junk, End} : inbox' = Append(inbox, b)
    BY <1>1 DEF Arrives, Changed
  <2> QED
    BY <2>1, <2>2, ArrivalStep, AdvanceSends DEF output, Sent
<1>2. CASE Missed \/ Lost
  <2>1. Advance /\ UNCHANGED <<inbox, memory, output, at, clean>>
    BY <1>2 DEF Missed, Lost, ghosts
  <2> QED
    BY <2>1, SilentStep, AdvanceSends DEF output, Sent
<1>3. CASE Looks
  <2>1. clean' \in BOOLEAN /\ UNCHANGED <<next, good, decoded, published>>
    BY <1>3 DEF Looks, Starts, line, output, TypeInv, TypeOK
  <2> QED
    BY <1>3, <2>1, LooksStep DEF Stream!Turns
<1>4. CASE Reads
  BY <1>4, ReadsStep, ReadsDelivers
<1>5. CASE AvailableThrows \/ ReadThrows
  BY <1>5, ThrowsStep
<1>6. CASE WriteThrows \/ Reconnect \/ UNCHANGED vars
  <2>1. /\ UNCHANGED <<next, memory, output, at, clean>>
        /\ inbox' = <<>> \/ inbox' = inbox
    BY <1>6 DEF WriteThrows, Reconnect, vars, line, ghosts
  <2> QED
    BY <2>1, LineStep DEF output
<1> QED
  BY <1>1, <1>2, <1>3, <1>4, <1>5, <1>6 DEF Next

LEMMA StreamAlways == Spec => []StreamInv
BY StreamInit, StreamStep, TypeAlways, PTL DEF Spec

\* The receiver is a PacketStream: whatever the line loses or changes, however the
\* port fails and whenever bytes arrive between the two calls of available(), no
\* packet is decoded before its bytes were sent, none is counted twice, and those
\* gathered in a cleared buffer come in their order.
THEOREM PacketsInOrderOnce == Spec => InOrderOnce
<1>1. Spec => Stream!Init
  BY StreamInit DEF Spec
<1>2. TypeInv /\ StreamInv /\ [Next]_vars => [Stream!Next]_(Stream!streamVars)
  BY StreamStep
<1> QED
  BY <1>1, <1>2, TypeAlways, StreamAlways, PTL DEF Spec, InOrderOnce, Stream!Spec

-----------------------------------------------------------------------------
\* What is read whole is decoded.

\* The body of p lies between the end at b, or the start of the buffer, and the
\* end at e.
LiesAt(buf, n, b, e, p) ==
    /\ e = b + Body + 1 /\ e <= n
    /\ buf[e] = End /\ (b = 0 \/ buf[b] = End)
    /\ \A i \in 1 .. Body : buf[b + i] = <<p, i>>

\* Such a body is decoded.
LEMMA BodyIsDecoded ==
    ASSUME NEW buf \in [1 .. MaxPacket -> Cells], NEW n \in Nat,
           n <= MaxPacket, NEW b \in Nat, NEW e \in 1 .. MaxPacket, NEW p \in 1 .. Packets,
           LiesAt(buf, n, b, e, p)
    PROVE  /\ e \in GoodEnds(buf, EndsIn(buf, n))
           /\ PacketAt(buf, EndsIn(buf, n), e) = p
<1> DEFINE ends == EndsIn(buf, n)
<1>0. Body \in Nat \ {0} /\ MaxPacket \in Nat /\ ends \in SUBSET (1 .. MaxPacket)
  BY SizesAssumption, EndsType
<1>a. /\ e = b + Body + 1 /\ e <= n /\ buf[e] = End /\ (b = 0 \/ buf[b] = End)
      /\ \A i \in 1 .. Body : buf[b + i] = <<p, i>>
  BY DEF LiesAt
<1>1. \A d \in 1 .. e : buf[d] = End => d \in ends
  BY <1>0, <1>a DEF EndsIn
<1>2. e \in ends /\ (b = 0 \/ b \in ends)
  BY <1>0, <1>a, <1>1
<1>3. \A d \in (b + 1) .. (b + Body) : d \notin ends
  <2> SUFFICES ASSUME NEW d \in (b + 1) .. (b + Body), buf[d] = End PROVE FALSE
    BY EndsType
  <2>1. d - b \in 1 .. Body /\ b + (d - b) = d
    BY <1>0, <1>a
  <2>2. buf[d] = <<p, d - b>>
    BY <1>a, <2>1
  <2> QED
    BY <2>1, <2>2 DEF End
<1>4. Begin(ends, e) = b + 1
  <2> DEFINE s == Begin(ends, e)
  <2>1. s \in 1 .. e /\ (s = 1 \/ s - 1 \in ends) /\ \A d \in ends : d < e => d < s
    BY <1>0, <1>a, <1>2, BeginAfter
  <2> HIDE DEF s, ends
  <2>2. b < s
    BY <1>0, <1>a, <1>2, <2>1
  <2>3. s = b + 1 \/ s - 1 \in (b + 1) .. (b + Body)
    BY <1>0, <1>a, <2>1, <2>2
  <2> QED
    BY <1>0, <1>a, <1>3, <2>1, <2>2, <2>3 DEF s
<1>5. Segment(buf, ends, e) = PacketBody(p)
  <2>1. Begin(ends, e) + Body = e
    BY <1>0, <1>a, <1>4
  <2>2. \A k \in 1 .. Body : Begin(ends, e) + k - 1 = b + k
    BY <1>0, <1>a, <1>4
  <2>3. \A k \in 1 .. Body : buf[Begin(ends, e) + k - 1] = <<p, k>>
    BY <1>a, <2>2
  <2> QED
    BY <1>0, <1>a, <1>2, <2>1, <2>3, SegmentOf
<1>6. e \in GoodEnds(buf, ends)
  BY <1>2, <1>5 DEF GoodEnds
<1>7. Segment(buf, ends, e) = PacketBody(PacketAt(buf, ends, e))
  BY <1>0, <1>a, <1>6, GoodEnd
<1> QED
  BY <1>5, <1>6, <1>7, BodyInjective

LEMMA ChunkShape ==
    ASSUME TypeInv
    PROVE  /\ pos \in Nat /\ Requested \in Nat /\ MaxPacket \in Nat
           /\ pos + Requested <= MaxPacket
           /\ kept \in Seq(Cells) /\ Len(kept) \in Nat
           /\ Chunk \in Seq(Cells) /\ Len(Chunk) = Requested
           /\ \A j \in 1 .. Requested : Chunk[j] = inbox[j]
<1>1. pos \in Nat /\ MaxPacket \in Nat /\ inbox \in Seq(Cells) /\ kept \in Seq(Cells)
  BY SizesAssumption DEF TypeInv, TypeOK
<1>2. Requested \in Nat
  <2>1. Requested \in 0 .. Len(inbox) /\ Len(inbox) \in Nat
    BY <1>1, ReadShape
  <2> QED
    BY <2>1
<1>3. Len(kept) \in Nat
  BY <1>1
<1>4. /\ pos + Requested <= MaxPacket /\ Chunk \in Seq(Cells) /\ Len(Chunk) = Requested
      /\ \A j \in 1 .. Requested : Chunk[j] = inbox[j]
  BY ReadShape
<1> QED
  BY <1>1, <1>2, <1>3, <1>4

\* A read that is kept is in the buffer from its start, with the next one behind
\* it; any other read is where its place is.
LEMMA ReadIsFilled ==
    ASSUME TypeInv, Keeping, NEW o, o = IF kept # <<>> THEN 0 ELSE pos
    PROVE  /\ o \in Nat /\ kept \o Chunk \in Seq(Cells)
           /\ o + Len(kept \o Chunk) = pos + Requested
           /\ \A i \in 1 .. Len(kept \o Chunk) :
                 o + i \in 1 .. MaxPacket /\ Filled[o + i] = (kept \o Chunk)[i]
<1>1. /\ pos \in Nat /\ Requested \in Nat /\ pos + Requested <= MaxPacket
      /\ kept \in Seq(Cells) /\ Chunk \in Seq(Cells) /\ Len(Chunk) = Requested
      /\ \A j \in 1 .. Requested : Chunk[j] = inbox[j]
      /\ MaxPacket \in Nat
  BY ChunkShape
<1>2. CASE kept # <<>>
  <2>1. pos = Len(kept) /\ pos # 0 /\ \A i \in 1 .. pos : buffer[i] = kept[i]
    BY <1>1, <1>2 DEF Keeping
  <2>2. /\ kept \o Chunk \in Seq(Cells) /\ Len(kept \o Chunk) = pos + Requested
        /\ \A i \in 1 .. pos : (kept \o Chunk)[i] = kept[i]
        /\ \A i \in (pos + 1) .. (pos + Requested) : (kept \o Chunk)[i] = Chunk[i - pos]
    BY <1>1, <2>1
  <2>3. ASSUME NEW i \in 1 .. (pos + Requested)
        PROVE  i \in 1 .. MaxPacket /\ Filled[i] = (kept \o Chunk)[i]
    <3>1. i \in 1 .. MaxPacket
      BY <1>1
    <3>2. CASE i \in 1 .. pos
      <4>1. i \notin (pos + 1) .. (pos + Requested)
        BY <1>1, <3>2
      <4> QED
        BY <2>1, <2>2, <3>1, <3>2, <4>1, FilledAt
    <3>3. CASE i \in (pos + 1) .. (pos + Requested)
      BY <1>1, <2>2, <3>1, <3>3, FilledAt
    <3>4. i \in 1 .. pos \/ i \in (pos + 1) .. (pos + Requested)
      BY <1>1
    <3> QED
      BY <3>2, <3>3, <3>4
  <2>4. o = 0
    BY <1>2
  <2>5. ASSUME NEW i \in 1 .. Len(kept \o Chunk)
        PROVE  o + i \in 1 .. MaxPacket /\ Filled[o + i] = (kept \o Chunk)[i]
    <3>1. i \in 1 .. (pos + Requested) /\ o + i = i
      BY <1>1, <2>2, <2>4
    <3> QED
      BY <2>3, <3>1
  <2>6. o + Len(kept \o Chunk) = pos + Requested
    BY <1>1, <2>2, <2>4
  <2> QED
    BY <2>2, <2>4, <2>5, <2>6
<1>3. CASE kept = <<>>
  <2>1. kept \o Chunk = Chunk /\ o = pos
    BY <1>1, <1>3
  <2>2. ASSUME NEW i \in 1 .. Requested
        PROVE  pos + i \in 1 .. MaxPacket /\ Filled[pos + i] = Chunk[i]
    <3>1. /\ pos + i \in 1 .. MaxPacket /\ pos + i \in (pos + 1) .. (pos + Requested)
          /\ (pos + i) - pos = i
      BY <1>1
    <3> QED
      BY <1>1, <3>1, FilledAt
  <2> QED
    BY <1>1, <2>1, <2>2
<1> QED
  BY <1>2, <1>3

LEMMA ReadDecoded ==
    ASSUME TypeInv, Keeping, Reads, SizeRead <= MaxPacket
    PROVE  Holds(kept \o Chunk, kept # <<>> \/ pos = 0) \subseteq decoded'
<1> DEFINE bytes == kept \o Chunk
           aligned == kept # <<>> \/ pos = 0
           ends == EndsIn(Filled, SizeRead)
<1> SUFFICES ASSUME NEW p \in 1 .. Packets, NEW k \in 0 .. Len(bytes),
                    k + Body + 1 <= Len(bytes),
                    SubSeq(bytes, k + 1, k + Body + 1) = Append(PacketBody(p), End),
                    IF k = 0 THEN aligned ELSE bytes[k] = End
             PROVE  p \in decoded'
  BY DEF Holds
<1>1. PICK o : o = IF kept # <<>> THEN 0 ELSE pos
  OBVIOUS
<1>2. /\ o \in Nat /\ bytes \in Seq(Cells) /\ o + Len(bytes) = pos + Requested
      /\ \A i \in 1 .. Len(bytes) : o + i \in 1 .. MaxPacket /\ Filled[o + i] = bytes[i]
  BY <1>1, ReadIsFilled
<1>3. /\ Filled \in [1 .. MaxPacket -> Cells] /\ SizeRead \in Nat
      /\ pos + Requested <= SizeRead /\ Body \in Nat \ {0}
      /\ pos \in Nat /\ Requested \in Nat
      /\ Len(bytes) \in Nat /\ k \in Nat
  <2>1. Len(bytes) \in Nat /\ k \in Nat
    <3> HIDE DEF bytes
    <3> QED
      BY <1>2
  <2> HIDE DEF bytes
  <2> QED
    BY <2>1, ReadShape, ChunkShape, SizesAssumption
<1>4. (\A i \in 1 .. Body : bytes[k + i] = <<p, i>>) /\ bytes[k + Body + 1] = End
  <2>1. /\ PacketBody(p) \in Seq(Cells) /\ Len(PacketBody(p)) = Body
        /\ \A i \in 1 .. Body : PacketBody(p)[i] = <<p, i>>
    BY <1>3 DEF PacketBody, Cells
  <2>2. /\ \A i \in 1 .. Body : Append(PacketBody(p), End)[i] = <<p, i>>
        /\ Append(PacketBody(p), End)[Body + 1] = End
    BY <2>1, Others
  <2>3. \A i \in 1 .. (Body + 1) : SubSeq(bytes, k + 1, k + Body + 1)[i] = bytes[k + i]
    <3> HIDE DEF bytes
    <3> QED
      BY <1>2, <1>3
  <2>4. \A i \in 1 .. (Body + 1) : bytes[k + i] = Append(PacketBody(p), End)[i]
    BY <2>3
  <2> HIDE DEF bytes
  <2>5. \A i \in 1 .. Body : i \in 1 .. (Body + 1)
    BY <1>3
  <2>6. Body + 1 \in 1 .. (Body + 1) /\ k + (Body + 1) = k + Body + 1
    BY <1>3
  <2> QED
    BY <2>2, <2>4, <2>5, <2>6
<1> DEFINE b == o + k
           e == o + k + Body + 1
<1> HIDE DEF bytes, aligned
<1>5. /\ b \in Nat /\ e \in 1 .. MaxPacket /\ e = b + Body + 1 /\ e <= SizeRead
      /\ Filled[e] = End
  <2>1. k + Body + 1 \in 1 .. Len(bytes) /\ o + (k + Body + 1) = e
    BY <1>2, <1>3
  <2> QED
    BY <1>2, <1>3, <1>4, <2>1
<1>6. b = 0 \/ Filled[b] = End
  <2>1. CASE k = 0
    BY <1>1, <1>2, <1>3, <2>1 DEF aligned
  <2>2. CASE k # 0
    <3>1. k \in 1 .. Len(bytes)
      BY <1>3, <2>2
    <3> QED
      BY <1>2, <2>2, <3>1
  <2> QED
    BY <2>1, <2>2
<1>7. ASSUME NEW i \in 1 .. Body
      PROVE  Filled[b + i] = <<p, i>>
  <2>1. k + i \in 1 .. Len(bytes) /\ o + (k + i) = b + i
    BY <1>2, <1>3
  <2> QED
    BY <1>2, <1>4, <2>1
<1> HIDE DEF b, e
<1>8. e \in GoodEnds(Filled, ends) /\ PacketAt(Filled, ends, e) = p
  <2>1. \A i \in 1 .. Body : Filled[b + i] = <<p, i>>
    BY <1>7
  <2>2. LiesAt(Filled, SizeRead, b, e, p)
    BY <1>5, <1>6, <2>1 DEF LiesAt
  <2> QED
    BY <1>3, <1>5, <2>2, BodyIsDecoded
<1>9. decoded' = decoded \cup {PacketAt(Filled, ends, f) : f \in GoodEnds(Filled, ends)}
  BY <1>3, SizesAssumption DEF Reads, DecodeAndPublish, Decodes, Overruns
<1> QED
  BY <1>8, <1>9

LEMMA KeepingStep ==
    ASSUME TypeInv, Keeping, [Next]_vars
    PROVE  Keeping'
<1>1. CASE Reads /\ kept' # <<>>
  <2>1. /\ pos = 0 /\ kept' = Chunk /\ \A k \in 1 .. Requested : Chunk[k] # End
        /\ DecodeAndPublish(Filled, SizeRead, Requested)
    BY <1>1 DEF Reads
  <2>2. /\ Requested \in Nat /\ pos + Requested <= MaxPacket /\ Len(Chunk) = Requested
        /\ \A j \in 1 .. Requested : Chunk[j] = inbox[j]
        /\ Filled \in [1 .. MaxPacket -> Cells] /\ MaxPacket \in Nat
    BY ReadShape, ChunkShape
  <2>3. SizeRead = Requested /\ SizeRead <= MaxPacket
    BY <2>1, <2>2 DEF SizeRead
  <2>4. /\ buffer' = Wiped(Filled, EndsIn(Filled, SizeRead)) /\ size' = SizeRead
        /\ pos' = PlaceAfter(EndsIn(Filled, SizeRead), Requested)
    BY <2>1, <2>2, <2>3 DEF DecodeAndPublish, Decodes, Overruns
  <2>5. \A i \in 1 .. Requested : i \in 1 .. MaxPacket /\ Filled[i] = Chunk[i]
    <3> SUFFICES ASSUME NEW i \in 1 .. Requested
                 PROVE  i \in 1 .. MaxPacket /\ Filled[i] = Chunk[i]
      OBVIOUS
    <3>1. i \in 1 .. MaxPacket /\ i \in (pos + 1) .. (pos + Requested) /\ i - pos = i
      BY <2>1, <2>2
    <3> QED
      BY <2>2, <3>1, FilledAt
  <2>6. EndsIn(Filled, SizeRead) = {}
    <3> SUFFICES ASSUME NEW e \in EndsIn(Filled, SizeRead) PROVE FALSE
      OBVIOUS
    <3>1. e \in 1 .. Requested /\ Filled[e] = End
      BY <2>2, <2>3, EndsType
    <3> QED
      BY <2>1, <2>5, <3>1
  <2>7. pos' = Requested /\ \A i \in 1 .. MaxPacket : buffer'[i] = Filled[i]
    BY <2>4, <2>6 DEF PlaceAfter, Wiped
  <2> QED
    BY <2>1, <2>2, <2>3, <2>4, <2>5, <2>7 DEF Keeping
<1>2. CASE kept' = <<>>
  BY <1>2 DEF Keeping
\* A look leaves a buffer alone that is being gathered.
<1>3. CASE Looks
  <2> SUFFICES ASSUME kept # <<>> PROVE Keeping'
    BY <1>3 DEF Looks, Keeping
  <2>1. pos = Len(kept) /\ pos # 0
    <3>1. kept \in Seq(Cells)
      BY ChunkShape
    <3> QED
      BY <3>1 DEF Keeping
  <2>2. UNCHANGED <<buffer, size, pos, kept>>
    BY <1>3, <2>1 DEF Looks, Starts
  <2> QED
    BY <2>2 DEF Keeping
<1>4. CASE UNCHANGED <<memory, kept>>
  BY <1>4 DEF Keeping, memory
<1>5. Reads \/ kept' = <<>> \/ Looks \/ UNCHANGED <<memory, kept>>
  BY DEF Next, Arrives, Missed, Lost, Changed, AvailableThrows, ReadThrows, Throws, WriteThrows,
         Reconnect, vars, ghosts
<1> QED
  BY <1>1, <1>2, <1>3, <1>4, <1>5

LEMMA KeepingAlways == Spec => []Keeping
<1>1. Init => Keeping
  BY DEF Init, Keeping
<1> QED
  BY <1>1, KeepingStep, TypeAlways, PTL DEF Spec

\* A packet that one read brings whole, or that one begins and the next one ends,
\* is decoded while packet_size_ is within buffer_: the reads that are put over one
\* another lose no such packet.
THEOREM WhatIsReadIsDecoded == Spec => ReadIsDecoded
<1>1. TypeInv /\ Keeping /\ [Next]_vars =>
          [Reads /\ SizeRead <= MaxPacket =>
               Holds(kept \o Chunk, kept # <<>> \/ pos = 0) \subseteq decoded']_vars
  BY ReadDecoded
<1> QED
  BY <1>1, TypeAlways, KeepingAlways, PTL DEF Spec, ReadIsDecoded
=============================================================================
