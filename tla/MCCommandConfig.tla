-------------------------- MODULE MCCommandConfig ---------------------------
\* CommandConfig for TLC: two values of each gain.
EXTENDS CommandConfig
=============================================================================
