----------------------------- MODULE SerialPort -------------------------------
(***************************************************************************)
(* The serial port (src/src/impl/unix.cc) as RobotSerial uses it: opened   *)
(* by connect(), once a second until it succeeds; read, written and asked  *)
(* for its available bytes by the timers; closed by try_serial_operation   *)
(* after an exception.  All of it runs on the ROS executor, one operation  *)
(* at a time, so the read and write locks of serial.cc are never contended *)
(* and are left out.                                                       *)
(*                                                                         *)
(* A read or a write is a loop around pselect with a timer.  Time is       *)
(* counted from the timer's start, in milliseconds: it passes in pselect,  *)
(* and wherever the scheduler holds the thread up, between asking the      *)
(* timer what remains and starting the wait as well.                       *)
(***************************************************************************)
EXTENDS Integers

CONSTANTS
    Fds,         \* the descriptors the process may have (a bound)
    ReadTotal,   \* the total timeout of a read
    WriteTotal,  \* the total timeout of a write
    InterByte,   \* inter_byte_timeout
    Wrap,        \* timespec_from_ms takes a uint32_t: 2^32 in the code
    MaxSize,     \* the bytes of a read or a write (a bound)
    Late         \* how long the thread is held up in an operation (a bound)

NoFd == -1       \* fd_ of a port that is not open

ASSUME FdsAssumption == NoFd \notin Fds
ASSUME TimesAssumption ==
    /\ ReadTotal \in Nat /\ WriteTotal \in Nat
    /\ InterByte \in Nat \ {0} /\ Wrap \in Nat \ {0}
    /\ MaxSize \in Nat /\ Late \in Nat
    /\ ReadTotal < Wrap /\ WriteTotal < Wrap

\* At the loop's test, between asking what remains and pselect, in pselect.
Reading == {"read", "readAsked", "readWait"}
Writing == {"write", "writeAsked", "writeWait"}

VARIABLES
    connected,  \* connected_
    isOpen,     \* serial_port_'s is_open_; FALSE if there is no serial_port_
    fd,         \* its fd_
    open,       \* the descriptors of the port that the process holds
    leaked,     \* history: those of ports whose constructor threw
    op,         \* where the operation in progress is
    todo,       \* the bytes it has still to move
    tried,      \* ~first_iteration of write
    elapsed,    \* time since its timer was made
    span,       \* the timeout it hands to pselect
    until,      \* when its pselect times out
    late,       \* how long it was held up so far
    held        \* how long of it between asking what remains and pselect

port  == <<connected, isOpen, fd, open, leaked>>
timer == <<elapsed, span, until, late, held>>
vars  == <<port, op, todo, tried, timer>>

TypeOK ==
    /\ connected \in BOOLEAN /\ isOpen \in BOOLEAN /\ tried \in BOOLEAN
    /\ fd \in Fds \cup {NoFd} /\ open \subseteq Fds /\ leaked \subseteq Fds
    /\ op \in Reading \cup Writing \cup {"idle", "failed", "dead"}
    /\ todo \in 0 .. MaxSize
    /\ elapsed \in Nat /\ span \in Nat /\ until \in Nat
    /\ late \in 0 .. Late /\ held \in 0 .. Late

Init ==
    /\ connected = FALSE /\ isOpen = FALSE /\ fd = NoFd
    /\ open = {} /\ leaked = {}
    /\ op = "idle" /\ todo = 0 /\ tried = FALSE
    /\ elapsed = 0 /\ span = 0 /\ until = 0 /\ late = 0 /\ held = 0

-----------------------------------------------------------------------------
\* connect(), from the constructor and from reconnect_callback.

Connecting == op = "idle" /\ ~connected

\* What the port holds of the process's descriptors.
Held == IF isOpen THEN {fd} ELSE {}

OpenFailsUnseen ==
    /\ Connecting
    /\ connected' = TRUE
    /\ UNCHANGED <<isOpen, fd, open, leaked, op, todo, tried, timer>>

\* ::open fails: serial_port_ is still the port that was closed.
OpenFails ==
    /\ Connecting
    /\ connected' = isOpen
    /\ UNCHANGED <<isOpen, fd, open, leaked, op, todo, tried, timer>>

\* reconfigurePort throws out of the constructor: no destructor runs, and
\* is_open_ was not yet set for close() to heed.
ReconfigureFails(f) ==
    /\ Connecting
    /\ f \notin open
    /\ open' = open \cup {f}
    /\ leaked' = leaked \cup {f}
    /\ connected' = isOpen
    /\ UNCHANGED <<isOpen, fd, op, todo, tried, timer>>

\* The new port takes the place of the old one, whose destructor closes it.
Connects(f) ==
    /\ Connecting
    /\ f \notin open
    /\ open' = (open \cup {f}) \ Held
    /\ fd' = f
    /\ isOpen' = TRUE
    /\ connected' = TRUE
    /\ UNCHANGED <<leaked, op, todo, tried, timer>>

-----------------------------------------------------------------------------
\* An exception out of an operation, caught by try_serial_operation.

Fail == op' = "failed" /\ UNCHANGED <<port, todo, tried, timer>>

ClosedButHeld == isOpen' = FALSE /\ fd' = NoFd /\ UNCHANGED open
Closed == isOpen' = FALSE /\ fd' = NoFd /\ open' = open \ Held

Close ==
    /\ op = "failed"
    /\ connected' = FALSE
    /\ Closed
    /\ op' = "idle"
    /\ UNCHANGED <<leaked, todo, tried, timer>>

\* The call of close() is outside the try block: its exception ends the node.
CloseThrows ==
    /\ op = "failed"
    /\ isOpen
    /\ connected' = FALSE
    /\ op' = "dead"
    /\ UNCHANGED <<isOpen, fd, open, leaked, todo, tried, timer>>

AvailableThrows == op = "idle" /\ connected /\ isOpen /\ Fail

-----------------------------------------------------------------------------
\* SerialImpl::read.

Least(a, b) == IF a <= b THEN a ELSE b

\* An int64_t passed as a uint32_t.
Unsigned(t) == t % Wrap

\* A port that is not open throws PortNotOpenedException.
Starts(kind, n) ==
    /\ op = "idle" /\ connected
    /\ op' = IF isOpen THEN kind ELSE "failed"
    /\ todo' = n /\ tried' = FALSE
    /\ elapsed' = 0 /\ span' = 0 /\ until' = 0 /\ late' = 0 /\ held' = 0
    /\ UNCHANGED port

\* The buffer is filled first with what is there.
Read(n, got) == got <= n /\ Starts("read", n - got)

ReadReturns ==
    /\ op = "read"
    /\ todo = 0 \/ ReadTotal - elapsed <= 0
    /\ op' = "idle"
    /\ UNCHANGED <<port, todo, tried, timer>>

\* The remaining time, or the inter-byte timeout if that is shorter.
ReadAsksForAll ==
    /\ op = "read"
    /\ todo > 0 /\ ReadTotal - elapsed > 0
    /\ op' = "readAsked"
    /\ span' = Least(ReadTotal, InterByte)
    /\ held' = 0
    /\ UNCHANGED <<port, todo, tried, elapsed, until, late>>

ReadAsksAfresh ==
    /\ op = "read"
    /\ todo > 0 /\ ReadTotal - elapsed > 0
    /\ op' = "readAsked"
    /\ elapsed' = 0
    /\ span' = Least(ReadTotal, InterByte)
    /\ held' = 0
    /\ UNCHANGED <<port, todo, tried, until, late>>

ReadAsks ==
    /\ op = "read"
    /\ todo > 0 /\ ReadTotal - elapsed > 0
    /\ op' = "readAsked"
    /\ span' = Least(Unsigned(ReadTotal - elapsed), InterByte)
    /\ held' = 0
    /\ UNCHANGED <<port, todo, tried, elapsed, until, late>>

ReadWaits ==
    /\ op = "readAsked"
    /\ op' = "readWait"
    /\ until' = elapsed + span
    /\ UNCHANGED <<port, todo, tried, elapsed, span, late, held>>

\* Neither the inter-byte timeout nor a signal ends the read.
ReadGoesOn ==
    /\ op = "readWait"
    /\ op' = "read"
    /\ UNCHANGED <<port, todo, tried, timer>>

ReadTimesOut == elapsed >= until /\ ReadGoesOn

ReadGetsTooMany(n) ==
    /\ op = "readWait"
    /\ todo' = todo - n
    /\ op' = "read"
    /\ UNCHANGED <<port, tried, timer>>

ReadGets(n) ==
    /\ op = "readWait"
    /\ n <= todo
    /\ todo' = todo - n
    /\ op' = "read"
    /\ UNCHANGED <<port, tried, timer>>

\* pselect fails, or says there is data and there is none.
ReadThrows == op = "readWait" /\ Fail

-----------------------------------------------------------------------------
\* SerialImpl::write.

Write(n) == Starts("write", n)

WriteReturns ==
    /\ op = "write"
    /\ todo = 0 \/ (tried /\ WriteTotal - elapsed <= 0)
    /\ op' = "idle"
    /\ UNCHANGED <<port, todo, tried, timer>>

\* On the first try what remains may be negative, and it becomes a uint32_t.
WriteAsks ==
    /\ op = "write"
    /\ todo > 0
    /\ ~tried \/ WriteTotal - elapsed > 0
    /\ op' = "writeAsked"
    /\ tried' = TRUE
    /\ span' = Unsigned(WriteTotal - elapsed)
    /\ held' = 0
    /\ UNCHANGED <<port, todo, elapsed, until, late>>

WriteWaits ==
    /\ op = "writeAsked"
    /\ op' = "writeWait"
    /\ until' = elapsed + span
    /\ UNCHANGED <<port, todo, tried, elapsed, span, late, held>>

WriteInterrupted ==
    /\ op = "writeWait"
    /\ op' = "write"
    /\ UNCHANGED <<port, todo, tried, timer>>

WriteTimesOut ==
    /\ op = "writeWait"
    /\ elapsed >= until
    /\ op' = "idle"
    /\ UNCHANGED <<port, todo, tried, timer>>

WritePuts(n) ==
    /\ op = "writeWait"
    /\ n <= todo
    /\ todo' = todo - n
    /\ op' = "write"
    /\ UNCHANGED <<port, tried, timer>>

WriteThrows == op = "writeWait" /\ Fail

-----------------------------------------------------------------------------
\* One millisecond: inside pselect, or while the thread is held up.

Waiting == op \in {"readWait", "writeWait"} /\ elapsed < until
Asked == op \in {"readAsked", "writeAsked"}

Tick ==
    /\ op \in Reading \cup Writing
    /\ elapsed' = elapsed + 1
    /\ IF Waiting THEN UNCHANGED late ELSE late < Late /\ late' = late + 1
    /\ held' = IF Asked THEN held + 1 ELSE held
    /\ UNCHANGED <<port, op, todo, tried, span, until>>

Connect == OpenFails \/ \E f \in Fds : ReconfigureFails(f) \/ Connects(f)

Uses ==
    \/ AvailableThrows
    \/ \E n, got \in 0 .. MaxSize : Read(n, got)
    \/ \E n \in 1 .. MaxSize : Write(n)

\* What an operation does of itself, and what the line makes of it.
Steps ==
    \/ ReadReturns \/ ReadAsks \/ ReadWaits \/ ReadTimesOut
    \/ WriteReturns \/ WriteAsks \/ WriteWaits \/ WriteTimesOut
    \/ Close \/ CloseThrows

Line ==
    \/ ReadGoesOn \/ ReadThrows \/ WriteInterrupted \/ WriteThrows
    \/ \E n \in 1 .. MaxSize : ReadGets(n) \/ WritePuts(n)

Next == Connect \/ Uses \/ Steps \/ Line \/ Tick

Spec == Init /\ [][Next]_vars

\* The thread runs on, and time passes however often signals interrupt it.
FairSpec == Spec /\ WF_vars(Steps) /\ SF_vars(Tick)

-----------------------------------------------------------------------------
\* Properties.

\* connected_, which every callback trusts before it uses the port, says whether
\* the port is open: so a lost port is closed before it is opened again.
ConnectedIsOpen == op = "idle" => connected = isOpen

\* However often the port is lost and opened again, the process holds its one
\* descriptor and those that ports which could not be configured leaked.
OneDescriptor == open = leaked \cup Held

\* An operation in progress has a descriptor that is open.
UsesOpenDescriptor == op \in Reading \cup Writing => fd \in open \ leaked

\* However often signals and the inter-byte timeout start its wait again, a read
\* waits past its total timeout only by the time it was held up after it last
\* asked what remained.
ReadWaitsInTime == op = "readWait" => until <= ReadTotal + held

\* Every read and write comes to an end.
OperationEnds == op \in Reading \cup Writing ~> op \in {"idle", "dead"}
=============================================================================
