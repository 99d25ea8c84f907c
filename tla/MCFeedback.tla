----------------------------- MODULE MCFeedback -----------------------------
\* Feedback for TLC: four messages, one bad packet, and a fake charging that
\* ends after one failed transform, with a counter modulo 3.
EXTENDS Feedback
=============================================================================
