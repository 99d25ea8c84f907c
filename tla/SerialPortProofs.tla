-------------------------- MODULE SerialPortProofs --------------------------
(***************************************************************************)
(* Theorems about SerialPort, for any timeouts, sizes and descriptors and  *)
(* however long the thread is held up.  The properties rest on where the   *)
(* node is: in an operation, or with its exception at hand, it is still    *)
(* connected and its port is open; between operations the two agree.       *)
(***************************************************************************)
EXTENDS SerialPort, TLAPS

\* The port's own descriptor is none of the leaked ones.
OwnFd == isOpen => fd \in Fds \ leaked

Busy == op \in Reading \cup Writing \cup {"failed"} => connected /\ isOpen

\* held is part of late, which bounds it.
HeldInTime == held <= late

\* A read that is about to wait goes past its total only by what it was held up.
AskedInTime == op = "readAsked" => elapsed + span <= ReadTotal + held

PortInv ==
    /\ TypeOK
    /\ ConnectedIsOpen /\ OneDescriptor /\ OwnFd /\ Busy
    /\ HeldInTime /\ AskedInTime /\ ReadWaitsInTime

-----------------------------------------------------------------------------
LEMMA PortInit == Init => PortInv
<1> SUFFICES ASSUME Init PROVE PortInv
  OBVIOUS
<1>1. TypeOK
  <2>1. connected \in BOOLEAN /\ isOpen \in BOOLEAN /\ tried \in BOOLEAN
    BY DEF Init
  <2>2. /\ todo \in 0 .. MaxSize /\ elapsed \in Nat /\ span \in Nat /\ until \in Nat
        /\ late \in 0 .. Late /\ held \in 0 .. Late
    BY TimesAssumption DEF Init
  <2> QED
    BY <2>1, <2>2 DEF Init, TypeOK
<1>2. ConnectedIsOpen /\ OneDescriptor /\ OwnFd
  BY DEF Init, ConnectedIsOpen, OneDescriptor, OwnFd, Held
<1>3. Busy /\ HeldInTime /\ AskedInTime /\ ReadWaitsInTime
  BY DEF Init, Busy, HeldInTime, AskedInTime, ReadWaitsInTime, Reading, Writing
<1> QED
  BY <1>1, <1>2, <1>3 DEF PortInv

\* The timeout of a wait is a time, and in a read it is within what remains.
LEMMA Timeouts ==
    ASSUME NEW now \in Nat
    PROVE  /\ Unsigned(WriteTotal - now) \in Nat
           /\ ReadTotal - now > 0 =>
                 /\ Least(Unsigned(ReadTotal - now), InterByte) \in Nat
                 /\ now + Least(Unsigned(ReadTotal - now), InterByte) <= ReadTotal
BY TimesAssumption DEF Unsigned, Least

-----------------------------------------------------------------------------
\* connect() and what follows an exception.
LEMMA ConnectStep == PortInv /\ Connect => PortInv'
<1> SUFFICES ASSUME PortInv, Connect PROVE PortInv'
  OBVIOUS
<1> USE DEF PortInv, TypeOK, ConnectedIsOpen, OneDescriptor, OwnFd, Busy, HeldInTime, AskedInTime,
        ReadWaitsInTime, Held, Connecting, timer
<1>1. CASE OpenFails
  BY <1>1 DEF OpenFails
<1>2. ASSUME NEW f \in Fds, ReconfigureFails(f) PROVE PortInv'
  BY <1>2 DEF ReconfigureFails
<1>3. ASSUME NEW f \in Fds, Connects(f) PROVE PortInv'
  BY <1>3 DEF Connects, Reading, Writing
<1> QED
  BY <1>1, <1>2, <1>3 DEF Connect

LEMMA CloseStep == PortInv /\ (Close \/ CloseThrows) => PortInv'
<1> SUFFICES ASSUME PortInv, Close \/ CloseThrows PROVE PortInv'
  OBVIOUS
<1> USE DEF PortInv, TypeOK, ConnectedIsOpen, OneDescriptor, OwnFd, Busy, HeldInTime, AskedInTime,
        ReadWaitsInTime, Held, timer, Reading, Writing
<1>1. CASE Close
  BY <1>1 DEF Close, Closed
<1>2. CASE CloseThrows
  BY <1>2 DEF CloseThrows
<1> QED
  BY <1>1, <1>2

\* Steps that leave the port alone: only where the operation is, its sizes and
\* its times change.
LEMMA OperationStep ==
    ASSUME PortInv, UNCHANGED port,
           op' \in Reading \cup Writing \cup {"failed"} => connected /\ isOpen,
           op' = "idle" => connected = isOpen,
           op' \in Reading \cup Writing \cup {"idle", "failed", "dead"},
           todo' \in 0 .. MaxSize, tried' \in BOOLEAN,
           elapsed' \in Nat, span' \in Nat, until' \in Nat,
           late' \in 0 .. Late, held' \in 0 .. Late, held' <= late',
           op' = "readAsked" => elapsed' + span' <= ReadTotal + held',
           op' = "readWait" => until' <= ReadTotal + held'
    PROVE  PortInv'
BY DEF PortInv, HeldInTime, AskedInTime, TypeOK, ConnectedIsOpen, OneDescriptor, OwnFd, Busy,
   ReadWaitsInTime, Held, port

LEMMA ReadStep ==
    PortInv /\ (ReadReturns \/ ReadAsks \/ ReadWaits \/ ReadTimesOut \/ ReadGoesOn) => PortInv'
<1> SUFFICES ASSUME PortInv, ReadReturns \/ ReadAsks \/ ReadWaits \/ ReadTimesOut \/ ReadGoesOn
             PROVE  PortInv'
  OBVIOUS
<1> USE DEF PortInv, TypeOK, Busy, HeldInTime, Reading, Writing, timer
<1>1. CASE ReadReturns
  BY <1>1, OperationStep DEF ReadReturns
<1>2. CASE ReadAsks
  <2>1. span' \in Nat /\ elapsed + span' <= ReadTotal
    BY <1>2, Timeouts DEF ReadAsks
  <2>2. held' = 0 /\ held' \in 0 .. Late /\ held' <= late'
    BY <1>2, TimesAssumption DEF ReadAsks
  <2> QED
    BY <1>2, <2>1, <2>2, OperationStep, TimesAssumption DEF ReadAsks
<1>3. CASE ReadWaits
  BY <1>3, OperationStep, TimesAssumption DEF ReadWaits, AskedInTime
<1>4. CASE ReadGoesOn
  BY <1>4, OperationStep DEF ReadGoesOn
<1> QED
  BY <1>1, <1>2, <1>4, <1>3 DEF ReadTimesOut

LEMMA WriteStep ==
    /\ PortInv
    /\ WriteReturns \/ WriteAsks \/ WriteWaits \/ WriteTimesOut \/ WriteInterrupted
    => PortInv'
<1> SUFFICES ASSUME PortInv,
                    WriteReturns \/ WriteAsks \/ WriteWaits \/ WriteTimesOut \/ WriteInterrupted
             PROVE  PortInv'
  OBVIOUS
<1> USE DEF PortInv, TypeOK, Busy, HeldInTime, Reading, Writing, timer
<1>1. CASE WriteReturns
  BY <1>1, OperationStep DEF WriteReturns
<1>2. CASE WriteAsks
  <2>1. span' \in Nat
    BY <1>2, Timeouts DEF WriteAsks
  <2>2. held' \in 0 .. Late /\ held' <= late'
    BY <1>2, TimesAssumption DEF WriteAsks
  <2> QED
    BY <1>2, <2>1, <2>2, OperationStep DEF WriteAsks
<1>5. CASE WriteWaits
  BY <1>5, OperationStep DEF WriteWaits
<1>3. CASE WriteTimesOut
  BY <1>3, OperationStep DEF WriteTimesOut
<1>4. CASE WriteInterrupted
  BY <1>4, OperationStep DEF WriteInterrupted
<1> QED
  BY <1>1, <1>2, <1>3, <1>4, <1>5

\* A transfer of n bytes out of the ones to do.
LEMMA MoveStep ==
    ASSUME PortInv, NEW n \in 1 .. MaxSize, ReadGets(n) \/ WritePuts(n)
    PROVE  PortInv'
<1> USE DEF PortInv, TypeOK, Busy, HeldInTime, Reading, Writing, timer
<1>1. n <= todo => todo - n \in 0 .. MaxSize
  BY TimesAssumption
<1>2. CASE ReadGets(n)
  BY <1>1, <1>2, OperationStep DEF ReadGets
<1>3. CASE WritePuts(n)
  BY <1>1, <1>3, OperationStep DEF WritePuts
<1> QED
  BY <1>2, <1>3

\* The start of an operation on the port that connected_ says is open.
LEMMA StartStep ==
    ASSUME PortInv, NEW kind \in {"read", "write"}, NEW n \in 0 .. MaxSize, Starts(kind, n)
    PROVE  PortInv'
<1> USE DEF PortInv, TypeOK, ConnectedIsOpen, Reading, Writing, timer
<1>1. isOpen
  BY DEF Starts
<1>2. op' \in {"read", "write"}
  BY <1>1 DEF Starts
<1>3. tried' \in BOOLEAN
  BY DEF Starts
<1>4. /\ todo' \in 0 .. MaxSize /\ elapsed' \in Nat /\ span' \in Nat /\ until' \in Nat
      /\ late' \in 0 .. Late /\ held' \in 0 .. Late /\ held' <= late'
  BY TimesAssumption DEF Starts
<1>5. connected /\ UNCHANGED port
  BY DEF Starts
<1> QED
  BY <1>1, <1>2, <1>3, <1>4, <1>5, OperationStep

\* An exception leaves everything but op as it was.
LEMMA FailStep ==
    ASSUME PortInv, connected, isOpen, Fail
    PROVE  PortInv'
BY OperationStep DEF Fail, PortInv, TypeOK, HeldInTime, Reading, Writing, timer

LEMMA UsesStep == PortInv /\ Uses => PortInv'
<1> SUFFICES ASSUME PortInv, Uses PROVE PortInv'
  OBVIOUS
<1>1. CASE AvailableThrows
  BY <1>1, FailStep DEF AvailableThrows
<1>2. ASSUME NEW n \in 0 .. MaxSize, NEW got \in 0 .. MaxSize, Read(n, got) PROVE PortInv'
  <2>1. n - got \in 0 .. MaxSize
    BY <1>2, TimesAssumption DEF Read
  <2> QED
    BY <1>2, <2>1, StartStep DEF Read
<1>3. ASSUME NEW n \in 1 .. MaxSize, Write(n) PROVE PortInv'
  BY <1>3, StartStep, TimesAssumption DEF Write
<1> QED
  BY <1>1, <1>2, <1>3 DEF Uses

LEMMA TickStep == PortInv /\ Tick => PortInv'
<1> SUFFICES ASSUME PortInv, Tick PROVE PortInv'
  OBVIOUS
<1> USE DEF PortInv, TypeOK, Busy
<1>1. elapsed' \in Nat
  BY DEF Tick
<1>2. late' \in 0 .. Late /\ held' \in 0 .. Late /\ held' <= late'
  BY TimesAssumption DEF Tick, HeldInTime, Waiting, Asked
<1>3. op' = "readAsked" => elapsed' + span' <= ReadTotal + held'
  BY TimesAssumption DEF Tick, Asked, AskedInTime
<1>4. op' = "readWait" => until' <= ReadTotal + held'
  BY DEF Tick, Asked, ReadWaitsInTime
<1> QED
  BY <1>1, <1>2, <1>3, <1>4, OperationStep DEF Tick, Reading, Writing

LEMMA PortStep == PortInv /\ [Next]_vars => PortInv'
<1> SUFFICES ASSUME PortInv, [Next]_vars PROVE PortInv'
  OBVIOUS
<1>1. CASE Steps
  BY <1>1, ReadStep, WriteStep, CloseStep DEF Steps
<1>2. CASE Line
  <2>1. CASE ReadThrows \/ WriteThrows
    BY <2>1, FailStep DEF ReadThrows, WriteThrows, PortInv, Busy, Reading, Writing
  <2> QED
    BY <1>2, <2>1, ReadStep, WriteStep, MoveStep DEF Line
<1>3. CASE UNCHANGED vars
  BY <1>3 DEF vars, port, timer, PortInv, TypeOK, ConnectedIsOpen, OneDescriptor, OwnFd, Busy,
     HeldInTime, AskedInTime, ReadWaitsInTime, Held
<1> QED
  BY <1>1, <1>2, <1>3, ConnectStep, UsesStep, TickStep DEF Next

LEMMA PortAlways == Spec => []PortInv
BY PortInit, PortStep, PTL DEF Spec

-----------------------------------------------------------------------------
\* The variables keep their types in every behaviour.
THEOREM TypeCorrect == Spec => []TypeOK
<1>1. PortInv => TypeOK
  BY DEF PortInv
<1> QED
  BY <1>1, PortAlways, PTL

\* connected_ always says, between operations, whether the port is open.
THEOREM ConnectedAgrees == Spec => []ConnectedIsOpen
<1>1. PortInv => ConnectedIsOpen
  BY DEF PortInv
<1> QED
  BY <1>1, PortAlways, PTL

\* A lost port gives its descriptor back, however often that happens; only one
\* that could not be configured keeps it.
THEOREM DescriptorsAccounted == Spec => []OneDescriptor
<1>1. PortInv => OneDescriptor
  BY DEF PortInv
<1> QED
  BY <1>1, PortAlways, PTL

\* No read or write works on a descriptor that is not the open port's.
THEOREM OnOpenDescriptor == Spec => []UsesOpenDescriptor
<1>1. PortInv => UsesOpenDescriptor
  BY DEF PortInv, UsesOpenDescriptor, OneDescriptor, OwnFd, Busy, Held
<1> QED
  BY <1>1, PortAlways, PTL

\* A read waits past its total timeout only by what the thread was held up between
\* asking what remained and starting the wait.
THEOREM ReadInTime == Spec => []ReadWaitsInTime
<1>1. PortInv => ReadWaitsInTime
  BY DEF PortInv
<1> QED
  BY <1>1, PortAlways, PTL
=============================================================================
