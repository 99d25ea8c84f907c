------------------------- MODULE MCVelocityCommand --------------------------
\* VelocityCommand for TLC, in units of 500 ms: limits of 4 and 1 units, the
\* code's 2000 ms and 500 ms.
EXTENDS VelocityCommand
=============================================================================
