-------------------------- MODULE MCFrameReceiver ---------------------------
\* FrameReceiver for TLC: packets of 2 bytes and an end.
EXTENDS FrameReceiver

\* A heap with zeros among other bytes.
MCHeap == {[n \in 1 .. MaxPacket |-> IF n \in {3, 6} THEN End ELSE Junk]}
=============================================================================
