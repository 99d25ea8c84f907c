---------------------------- MODULE MCSerialPort ----------------------------
\* SerialPort for TLC.  The timeouts are small, and the uint32_t wraps at 8.
EXTENDS SerialPort
=============================================================================
