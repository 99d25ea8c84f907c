# A verification of robot_comm_serial

`robot_comm_serial` is the ROS 2 node between a robot's software and its ECU (the
board that drives the motors, lights and sensors). It sends one command packet
every 10 ms over a serial line, takes the ECU's feedback packets, publishes them
as topics, offers services, and serves a web page for tuning and tests. This
directory holds TLA+ models of its parts, the TLC configurations that check
them on small instances, and theorems about them proved with TLAPS.

`PROJECT.json` maps every definition to the lines it translates, and lists the
hazards of the code with the properties that cover them, the findings, and for
each property a plausible bug under which TLC finds it violated.

Paths below are relative to the repository, whose root is `src/`: the node's
source is `src/src/robot_comm_serial.cpp` ("the driver").

## 1. The system

### Threads

| thread | runs |
|---|---|
| ROS executor (one, `rclcpp::spin`) | timers `command_callback` (100 Hz), `packet_callback` (500 Hz), `reconnect_callback` (1 Hz); the topics `cmd_vel`, `led`, waypoints; the services |
| websocket server (websocketpp on asio) | `on_open`, `on_close`, `on_message` → `handle_gui_command`, which calls the same handlers as the services, and `NavigationTester::start` |
| SDL | the callback at the end of a sound |

Nothing but `m_mutex` of the websocket server (its set of connections) is locked:
`last_command_`, the status structs, `last_params_` and the navigation tester are
written by both of the first two threads. The models interleave the two at the
places where one thread's result depends on more than one field: a check and the
writes after it, the fields of a status or a sub-message, the flags of an ending,
a serialisation and the clear after it. One write to the protobuf message itself
is one step everywhere, though nothing makes it so: what a torn message holds is
undefined and not modelled.

### Components

| component | state | operations | module |
|---|---|---|---|
| ECU actions | four `RobotActionStatus`, `last_command_.actions`, `.state` | handlers of jump to boot, stand-by, emergency stop, reboot, fault acknowledgement, docking; `manage_robot_actions`; answers in `publish_data` | `RobotActions`, `ActionQueue` |
| Velocity | `last_command_.velocities`, two timestamps | `cmd_vel`, the page's joystick, the watchdog of `command_callback` | `VelocityCommand` |
| Settings | `last_command_.config`, `.led_cmd`, `last_params_` | `set_pid`, the LED topic, the page's versions of both, `clear_command` | `CommandConfig` |
| Feedback | `last_message_`, `last_message_ok_`, `last_command_.sync`, the battery's fake charging | `decode_buffer`'s effect, `publish_data`, the synchronisation's way back | `Feedback` |
| Receiver | `buffer_`, `packet_size_`, `current_buffer_pos_`, counters | `packet_callback`, `decode_buffer` | `FrameReceiver`, `PacketStream` |
| COBS codec | the pointers of a call | `cobs_encode`, `cobs_decode` | `Cobs`, `Packet` |
| CRC | none | `crcFast` and its table | `Crc`, `CrcTable`, `Packet` |
| Serial port | `connected_`, `fd_`, `is_open_`, timers | `connect`, `try_serial_operation`, open, read, write, close | `SerialPort` |
| Navigation tester | `acummulated_poses_`, the waypoints file, `running_`, `record_poses_` | `waypoints_callback`, `start` | `NavigationTester` |
| Websocket server | `m_connections`, `m_mutex`, where its thread is | `on_open`, `on_close`, `on_message`, `broadcast` | `WebControl` |
| Web page | `ws`, `joystickTimer`, a form | connection and reconnection, the joystick, messages | `WebControl` |
| Status for the page | `connected_`, `last_params_`, `last_message_`; the page's labels and indicators | `update_ecu_info`, `update_config_info`, `publish_full_status`, and the page's handlers of their messages | `StatusForPage` |
| Sounds | the globals `sound`, `finished`, `mute`; SDL's chunks and channels | `playSound`, the end of a sound, the parameter | `SoundPlayer`, in `StatusForPage` |

How they meet: the handlers fill `last_command_`; `command_callback` adds the
watchdog's zeros and the retries, moves the pending synchronisation into it,
serialises it, adds CRC and COBS and writes it in one `SerialPort` write; when
the whole frame was written, `clear_command` drops everything but the
velocities. `packet_callback` reads, cuts at the zero bytes, decodes, and
publishes the last message. An exception of the port, from any timer, ends in
`try_serial_operation`, which closes it; `reconnect_callback` opens it again.
The models share this cycle: each has the part of `last_command_` it is about,
with the same outcomes of a write (whole, in part, exception), the same
disconnections, and the write and the clear as one step after the
serialisation.

### What is hard here, and what makes it correct

* **Two threads, no lock**: what is left of one action at a time, of accepted
  gains and LED switches, of a live `cmd_vel` and of a route drawn while nothing
  runs when the page's thread comes between two steps of the other. Some of it is lost in the
  code (section 5); the properties say what remains.
* **A request that stays until it is sent**: through partial writes, closed
  ports, retries and refusals, `clear_command` drops only what was sent.
* **Retries that end**: at their limit, with the port closed too.
* **A base that stops**: when its commander dies, and however writes fail.
* **Bytes cut anywhere**: no packet before it was sent, none twice, whatever the
  reads were and whatever the line lost; in order while the buffer was cleared
  for them.
* **Pages that come and go**: a welcome before any status, broadcasts that reach
  everyone who is there, a joystick whose last word is its stop.
* **What a page shows**: the true state of the connection though two threads tell
  it, and as current gains those that a blank field will mean.
* **A pointer freed by another thread**: `sound`, which the end of one sound
  frees and the start of the next replaces.
* **Ports that come and go**: no descriptor but the port's and those leaked by
  failed configurations, `connected_` true to it, waits that end.
* **Limits**: full COBS blocks, full buffers, `uint8_t` counters, a `uint32_t`
  that takes a negative time.

## 2. The modules

Each component has a module `X` and a module `MCX` with what TLC needs (bounds,
inputs). Theorems are in modules `...Proofs`, one for a component or for two
that meet: `MotionProofs` is about `VelocityCommand` and `NavigationTester`,
`PageProofs` about `WebControl` and `CommandConfig`; the second of each pair
therefore has its own names for the usual operators (`NavInit`, `ConfigInit`,
...). Operators named like another
with a suffix (`FreeForLosesCheck`, `GivesUpLate`) are the bugs that
`PROJECT.json` lists as mutants; no action uses them.

**RobotActions.** A handler is its check (`Reboot(t)`, ... over `Check`) and then
its writes. Those of the ROS thread are one step more (`CommitAction`,
`CommitAckFault`): the websocket thread reads nothing of a status but `active`.
Those of the websocket thread are a step each (`GuiPuts` to `GuiStamps`), for
the ROS thread reads every field of them and may come between any two.
`CommandTick` begins `manage_robot_actions`, which the variable `ros` then takes
through the test of the current action, the put, the count of what was read, the
comparison, the ending (`Ends`: eight writes, `ended` counts them) and the
serialisation, to `WriteFull`, `WritePartial` or `WriteFails`. `Receive(n)` is a
read that holds n answers, and goes through the same ending. `Garbage` names the
status structs whose uninitialised bools are not zero; the constructor sets
none. The wire and the ECU are external: they lose, answer yes or no, or answer
something else. `ackFaultStatus` is written and never read, so it is not a
variable. `Requests` says who asks for what in a run. A frame that asks for
nothing is not followed.

**ActionQueue** is the abstract promise: at most one open request, put in the
command at most `MaxPuts` times, ended by an answer taken or after the last put.
`RobotActions!Promise` is the refinement, with `MaxRetries + 1` for `MaxPuts`:
the open requests are the queued statuses, with their data and with `puts`, a
history variable that counts each time an action is put in `last_command_`. The
last put is that of the call that gives the action up, which comes before its
test. The refinement is of handlers on the ROS thread, and `puts` is kept for
that thread only. A request is open no more once its ending has begun.

**VelocityCommand.** Time is in units of 500 ms, with the ages of the two
timestamps and of the velocity itself (`held`, a history variable). A callback
takes far less than a unit, so `TimePasses` waits for both threads to be
outside. Linear and angular speed are one value, whose origin is what the
properties are about. The joystick's handler is three steps: test, write,
timestamp.

**CommandConfig.** One of the four loops, with two groups of gains (`k_p`, and the
rest); absent, blank and zero are told apart, for the code mistakes one for
another (`Touched`, `Merge`). `SetPid` touches the loop's sub-message and
`SetPidWrites` writes a group of it (`setting` is what is left to write); the
LED handler writes the switch and then the request. The page's handlers are two
steps on their own thread, of which the assignment of its gains is one. `RosIsFree`
says that the ROS thread is in none of its own.

**Feedback.** Messages are numbered as the ECU sends them; a poll brings any
number of them, bad packets among them. `overtaken` marks a report hidden by a
later message of the same read. What `FrameReceiver` says of bytes and
`RobotActions` of answers is not repeated.

**FrameReceiver.** Bytes are pairs (packet, place), or the end, a filler, a
damaged byte. `packet_callback` is two steps, one for each of its calls of
`available()`: `Looks` decides whether to clear the buffer, `Reads` reads what is
there by then, decodes and publishes; the exceptions of `available()` and
`read()` are its other ends. Bytes may come between the two, and a byte or an end
may be lost or changed on the line. A segment is good exactly when it is a
packet's body: what CRC and codec make of other bytes is `Packet`'s question, and
one outcome here. `buffer_` and `packet_size_` start as the heap left them.
`Overruns` is a `packet_size_` beyond the buffer: what the program does then is
undefined, and the model ends there. `clean` remembers whether the buffer was
cleared for what it now gathers.

**PacketStream** is the abstract promise of the receiver: packets come after all
of their bytes were sent, some not at all, several at a time; all are counted,
none twice, and one of those that come together is published. While the stream
is `orderly` they come in the order in which they were sent and the last is
published. `FrameReceiver!InOrderOnce` is the refinement, with `clean` for
`orderly`, from bytes, polls and a buffer that is scanned again to that stream.

**Cobs** has the actions of the codec: it encodes byte by byte and decodes block
by block, with the buffer checks and the flags. Memory is a function on the
places written, so a write outside is visible. The tests for null pointers are
left out.

**Packet** is a packet's whole way: `command_callback` puts the checksum behind
the serialised message, encodes both with `Cobs` and appends the zero; the line
may change one byte; `decode_buffer` cuts at zeros, decodes one of the pieces
and judges it. The driver does the first half with commands and the second with
feedback, and the ECU the other two, so that here they meet in one behaviour.
The checksum is of octets (`WidthAssumption`), of which TLC takes a few.

**Crc** has the code's loop, with the table as a parameter, and next to it the
division of polynomials that the header names, bit by bit. Exclusive or is
defined here, from the bits. Of the table it assumes what its name claims: each
entry is what eight steps of the division make of its byte
(`TableAssumption`).

**CrcTable** is the code's table. TLC evaluates the assumption for it; to the
provers 256 numbers are too many, so they reason from the assumption.

**SoundPlayer** has the actions of the sounds: the gap of `publish_full_status`,
loading and playing as two steps (SDL's thread may come between), the sound that
gets no channel, and the callback at the end of a channel, which frees what the
global points to then. `finished` is TRUE from the start and in every assignment,
so it is not a variable. The gap is the ROS clock's, the length of a sound
SDL's, and the two are unrelated: `over` says whether by the ROS clock more than
ten seconds have passed since the static `dt`, `ClockMoves` sets it either way at
any time, and `ahead` remembers that it did while a sound was loaded or played.

**StatusForPage** composes them with the reports to the page. The ROS thread's
reports are one step each, for what they read no other thread writes, but for
the gains: `PublishData` assigns `last_params_`, which the websocket thread
merges with, and `TellGains` broadcasts it. The websocket thread's answer to
`get_ecu_info` is two steps, `GetEcuInfo`, which reads `connected_`, and
`SendReply`, which takes the lock and broadcasts. `line` is the page's websocket,
in order; it is lost with what it holds. The page keeps what it shows until it is
loaded again. Of what a message says, the flag `ecu_connected`, the gains as one
value and the charging state are told apart.

**SerialPort.** Time is in milliseconds from the start of an operation's timer;
it passes in `pselect` and, up to `Late`, wherever the thread is held up, also
between asking the timer what remains (`ReadAsks`, `WriteAsks`) and starting the
wait (`ReadWaits`, `WriteWaits`). Signals interrupt at any moment; the port may fail at any moment. The driver
calls the port from one thread only, so the library's mutexes are left out;
`waitByteTimes` returns at once for the chunk sizes the driver uses.

**NavigationTester.** Drawing: markers one at a time, then the file opened
(truncated), then written. `start()` on the other thread: read the file, wait
for the server, send. A step that pushes one pose to the vector is atomic (in
the code the race on it is undefined behaviour; the goal's pose order is what
is looked at). A file that is missing, or JSON without a list of waypoints
(`Foreign`), leaves the poses in memory; a truncated one throws. `nav_tester_` is taken as made, which is so 10 ms after start.
The goal handle is never saved (finding), so `stop()` changes nothing.

**WebControl.** Pages open websockets and open another after losing one; each
connection is `opening`, `open`, then perhaps `lost` (the server does not know),
`terminated` (sending throws, `on_close` has not erased it yet) and `closed`.
The server's thread accepts, handles one message at a time and drops; both
threads broadcast. `m_mutex` is the thread that holds it: `on_open` inserts and
welcomes under it, `on_close` erases under it, and a broadcast takes it, sends to
one connection at a time (`CastSends`) and lets go, and in between everything
that needs no lock goes on. Of the messages, those that are answered
(`get_ecu_info`), not routed (`get_all_configs`), make the handler throw
(`set_limits` with a blank field) and the joystick's are told apart; the others
end in the handlers of the modules above. What the server sends is delivered at
once, since no property looks at its way back. The static files of `on_http` and
the shutdown, which never runs (see the hazards), are left out.

## 3. The runs

| run | question | instance |
|---|---|---|
| `actions_ros` | Does the driver, with handlers on one thread, implement `ActionQueue`, send only what was asked and clear only what was sent? | 2 retries, counter modulo 4, 1 frame and 1 answer in flight; jump to boot and emergency stop (the two with a value), acknowledgement, docking |
| `actions_gui` | When the page's thread writes between the ROS thread's steps, do queued actions end, and is what is cleared unsent put again? | one action of each thread (reboot, stand-by: both may be queued), 1 retry, counter modulo 3, 1 frame and 1 answer in flight |
| `velocity` | Do frames carry only fresh motion, is the joystick released, does a live `cmd_vel` prevail, does the base stop? | the code's limits, 2000 and 500 ms, as 4 and 1 units |
| `config` | Does what `set_pid` has written, and the LED switch, wait for a whole frame (or the page's assignment), and an LED request with its switch? | two values of each of two gains |
| `refused_pid` | Does a refused `set_pid` send nothing? (violated) | as `config` |
| `feedback` | Newest message published, once, in order; synchronisations answered, in order and once, and kept until then | 4 messages, 1 bad packet, 1 failed transform allowed, counter modulo 3 |
| `receiver` | Is the receiver the stream of `PacketStream`, and are packets read in at most two pieces decoded at all? | 4 packets of 2 bytes and an end, 4 bytes waiting, 1 byte or end lost or changed, 1 failure, a buffer of 6 that starts with zeros at 3 and 6 and a `packet_size_` of 0 to 7 |
| `packet` | Are writes in the buffer, does the zero have its place, does an intact packet come back, is a damaged byte found out? | full block of 3 bytes, buffers of 9, made for messages of at most 5; messages of every single byte, of up to 4 over {0, 1, 3} and some of up to 8; any one byte changed to one of five; noise of up to 3 bytes, some of 11; the code's CRC |
| `serial_port` | Is `connected_` true, is every descriptor the port's or a leaked one, is every wait of a read in time but for what the thread was held up, every operation ended? | timeouts of 3 and 1, inter-byte 2, wrap at 8, 3 descriptors, 2 bytes, 3 ms of delay |
| `navigation` | Is the goal of a start that no drawing interrupts the route drawn last, and does `start()` return? | 2 poses, 4 drawings (empty, one, two, two with an arrow), a file that may be missing, torn, foreign or read-only |
| `web` | Is the welcome first, does a broadcast reach all that are open, does a released joystick end in its stop, is who asks answered? | a page with a joystick and one with a form, 2 connections between them, 2 messages on their way in each |
| `status` | Is each sound freed once while the clocks agree, do the page's gains mean what it shows, does it settle on the connection's state, has its indicator one colour? | 2 chunks of memory, a message of the ECU of each kind, two sets of gains, 1 message on its way to a page; sounds while no page is open, a page while they are muted (`OneAtATime`) |

Why the bounds are enough:

* Counters keep the order of their limits (`MaxRetries + 1 < SentModulus`,
  `MaxFails + 1 < CountModulus`), each limit is passed, and the theorems hold
  for all of them. One message in flight already gives loss, delay past the
  next request, and an answer that belongs to another command. With two threads
  one retry is enough, as it is both the first and the last, and one action of
  each, as a third only waits; what a third handler or an acknowledgement of the
  page does to the clear is proved (`ClearedOnlyWhenSent`).
* Ages past both limits are not told apart by the code, so `Old` loses nothing.
* The codec's cases depend on whether a block is full, whether the message ends
  with it, and whether the buffer does: with blocks of 3 and buffers of 9
  every combination occurs, several blocks long, with the zero or without room
  for it. The theorems about it hold for every size. For the checksum, messages
  of every single byte read every entry of the table, and longer ones chain
  them. That the loop computes the division's remainder (`CrcDivides`) and that
  one wrong byte changes it (`WrongByteIsSeen`) are proved for every message,
  place and byte.
* The receiver loses its place at the third read; polls of 0 to 4 bytes of
  packets of 3 pass that point in every way. A buffer of two packets is overrun
  as soon as one end is lost, with reads that add up to more (`Overruns` is
  reached), and bytes that come between the two `available()` are put over ends
  of before, of an earlier packet or of the heap, which lie at the places where
  packets of this length end. One damage and one failure do all of this; the
  theorems hold for any number.
* The serial port's cases are the order of "timed out", "data", "signal" and
  "held up"; each timeout is longer than one tick and shorter than the delay
  plus the wait, so that the time left gets negative at each place.

* The server's races need one connection being made or dropped while a broadcast
  reaches another, and a page that comes back on a second connection: two
  connections give both. An `onopen` sends two messages, so the inbox of two is
  full at once and a joystick's messages wait behind them.
* Two chunks are enough for one sound to be loaded over another, which with
  clocks that agree never happens: `SoundsAreSafe`, proved for any memory, keeps
  them to one but for those that got no channel. The ROS thread alone has to do
  with sounds and a page both, and they share no variable, so that exploring one
  at a time loses no state of either. One message on its way is enough for a
  report to arrive after another was made.

Stopping: `packet` ends with its packet and `serial_port` when `close()` throws out
of a callback, which ends the node; and `receiver`'s ECU ends its stream;
only they do not check for deadlock.

### Fairness

* `actions_gui`: strong fairness of the command tick. It is a wall timer, and
  the executor serves a ready timer before ready subscriptions and services, so
  callbacks that keep coming do not starve it. Weak fairness of what follows it
  up to the write (which has a timeout), of a handler that has passed its check,
  on either thread, and of time.
* `velocity`: weak fairness of the joystick's handler, which waits for nothing;
  strong of time, for threads are outside their callbacks again and again.
  `RobotStops` assumes that commands cease and frames get through again and
  again: with a dead line nothing can stop a base but its ECU.
* `feedback`: weak fairness of publication and reconnection (timers), strong of
  whole frames: a port that is tried for ever works at times.
* `serial_port`: weak fairness of the operation's own steps, strong of the
  clock, so that signals that interrupt every wait do not stop time.
* `web`: weak fairness of what the ROS thread does under `m_mutex`; strong of the
  server's callbacks, which wait for a mutex that the ROS thread holds for a
  moment every 33 ms, and of the handling of each connection's messages, which
  asio serves in turn. Nothing is asked of pages or the network.
* `status`: weak fairness of the report of a closed port (a timer), of the
  broadcast of gains once assigned, of the websocket thread's answer, which waits for `m_mutex` only, and of the page's
  handling of what has come. `FlagSettles` speaks of ports and pages that stay as
  they are, and for an open port of an ECU that goes on sending its data.
* `navigation`: weak fairness of each thread's steps. That the
  `follow_waypoints` server is there is not assumed: the wait has a timeout.

## 4. The proofs

TLAPS proves the theorems of the eight `...Proofs` modules for every value of
the constants that satisfies the modules' assumptions (each named there, and
evaluated by TLC in the runs). `PROJECT.json` lists the theorems.

* **RobotActionsProofs.** `TypeCorrect` and `ClearedOnlyWhenSent` hold for both
  thread sets and any garbage. `ClearInv`: what `last_command_` holds and the
  frame does not, during a send (`FrameFollows`), came from the websocket
  thread, which has it still in hand, has queued it unconfirmed, or wrote an
  acknowledgement. `OneActionAtATime` and `ImplementsActionQueue` assume
  `Threads = {"ros"}` and `Garbage = {}`; without these they are false, as section
  5 tells. `QueueInv` strengthens `CommandIsAsRequested` with `AtMostOneQueued`,
  with what a passed check still guarantees when the writes come (`Turn`), which is
  what the second thread breaks, with the counter and the puts at each place of
  `manage_robot_actions` (`Counts`: one put more than the counter allows, at the
  giving up) and with how far an ending has come (`EndsInOrder`). Each step is
  then a step of `ActionQueue` or a stutter.
* **MotionProofs.** `VelInv` says where the age of the velocity can be
  read off: it is that of the last `cmd_vel` while that is alive, and otherwise
  that of whoever wrote last; with what `Guard` leaves until the serialisation.
  `NavInv` follows a route from the drawing to the file to the vector: what
  `start()` has pushed and has still to push make up the last drawing, as long
  as no drawing is taken meanwhile.
* **PacketProofs.** `PacketInv`: while encoding, every place before the write
  pointer is filled but the one kept for the block's code, which may be the one
  just past the buffer. That is the case the function's last test is for.
  `SizeInv` relates the bytes read to the bytes written by the blocks ended so
  far, each of which was full: with the header's formula for the longest
  encoding it follows that the zero behind the longest message is in the buffer
  (`ZeroHasItsPlace`), though the driver writes it without a test.
  `MessageComesBack` (`RoundTrip`) is by `TripInv`: the codes
  written so far, each with the number of the message's bytes before its block,
  form a chain from the first place to the block that is being filled
  (`Chained`); a whole packet is such a chain up to its end (`Coded`); and the
  decoder goes down it, having written at each code just the bytes that belong
  before it (`DecodingFrom`). No induction over the message is needed: the
  encoder's steps lengthen the chain by a block and the decoder's follow it by
  one.
  The checksum: the division's steps are linear over exclusive or, bit by bit
  (`DownXor`, from `XorBits`), so eight of them on a byte and a remainder give
  the table's entry of the remainder's half and the byte (`ByteDown`): the loop
  through the table computes the remainder of the bitwise division, for every
  message (`CrcDivides`, and with it `ChecksumIsRemainder`). That no two entries
  of the table are equal is derived too (`TableFacts`), as no step of the
  division makes two remainders one (`DownTellsApart`).
  The remainders of a message are a recursive function, and what holds of each
  follows from `UpTo`, induction over the naturals up to a bound, which is
  got from `NatLessThanWellFounded` by way of a smallest counterexample, so
  that no operator has to be instantiated. Remainders that differ after a byte
  never meet again, hence `WrongByteIsSeen`; a message and its checksum leave no
  remainder (`Residue`); and with the round trip of the codec `DamageIsSeen`
  (`DamageIsRejected`).
* **StatusForPageProofs.** `SoundIInv`: unless the ROS clock ran ahead, a sound
  that is loaded or plays is the one that the global points to, and none is due
  before its end; what is allocated plays, is being loaded or got no channel
  (`InTime`). `GainsIInv`: the newest gains on their way to a page are those of
  `last_params_`, but between its assignment and the broadcast (`telling`).
  `IndicatorInv`: the indicator's classes are those it was loaded with, or all
  there are, or those of its text alone.
* **PageProofs.** Of the server, `ServerInv`: from where its thread is one can
  tell whether it holds `m_mutex` (`Locked`) and what its connection is
  (`Served`), so `m_connections` stands still while a broadcast goes through it;
  whoever is in it was welcomed, or is being welcomed by the holder of the lock
  (`Welcomed`), and is reached or still to be (`Reaching`). From these come
  `WelcomedFirst` and `BroadcastsReach`. Of the page, `PageInv`: no two pages
  share a connection (`PagesApart`), and nothing is on a connection before its
  page knows that it is open (`Unopened`, `NotYetUp`), so that what follows a
  stop is of the same joystick (`JoystickStops`). Of the settings, `ConfigInv`: what waits is in the frame being written
  (`FrameCarries`), as no ROS request comes between; a request under way has the
  sub-message it has still to write to (`Writing`); and between the page's two
  writes the switch still waits or a frame was cleared (`PageLighting`).
* **SerialPortProofs.** `PortInv`: in an operation, or with its exception at
  hand, the node is connected and the port open (`Busy`), and the port's
  descriptor is not a leaked one (`OwnFd`). A read that has asked what remains and
  is about to wait goes past its total by no more than what it was held up in
  between (`AskedInTime`), which is part of the lateness counted (`HeldInTime`).
* **FrameReceiverProofs.** `StreamInv`: the bytes stored and those that wait are
  in the line's order and before the next one of the ECU (`InOrder`), each is
  stored once (`StoredOnce`), and of a decoded packet nothing is left or still to
  come (`Done`). Old bytes may stay behind the part in use, as the two calls of
  `available()` let them; so before an end that an earlier poll left there is
  nothing of a packet (`Clean`), which a second scan therefore does not decode, and
  only of a buffer that was cleared and gathers is it said that it has no end and
  is newer than what was decoded (`Gathered`). Each step is then one of
  `PacketStream` or a stutter (`PacketsInOrderOnce`), with ends lost or damaged,
  any first `packet_size_` and any buffer. `Keeping`, that the part of the buffer
  in use is the read that `kept` remembers, gives `WhatIsReadIsDecoded`.
* **FeedbackProofs.** `PublishedInv`: `last_message_ok_` is set only between the
  decoding of the newest message and its publication. `AnswersInv`: answered,
  waiting in `last_command_`, waiting in `last_message_`: in this order the
  synchronisations get newer. Hence also that what a tick puts in the place of
  a waiting one is newer (`SyncIsKept`). `FakeInv` bounds the counter by its limit plus
  one, hence below its width.

Every safety property, action property and refinement that a passing run checks
is a theorem. Left to TLC are the liveness properties (`QueuedIsResolved`,
`RobotStops`, `OperationEnds`, `WaitingIsAnswered`, `StartReturns`,
`AskedIsAnswered`, `FlagSettles`), which are out of the prover's reach; that the
code's table meets `TableAssumption`; and the violation of
`RefusedIsNotSent`. What the argument for `WaitingIsAnswered` rests on is
proved (`WaitingIsKept`): no step but a new request takes back what has been
achieved.

Types are proved for every value of the constants (`TypeCorrect`,
`ReceiverTypeCorrect`, `RoutesCorrect`, `PacketTypes`, `StatusTypes`,
`SettingsCorrect`, `WebTypeCorrect`) and not repeated by the runs. Proved only
are `PidIsReport` (theorem `GainsShown`), `UsesOpenDescriptor`
(`OnOpenDescriptor`), `FakeChargingEnds` (`FakeEnds`) and `AtMostOneQueued`
(with `OneActionAtATime`). The hypotheses on the threads and the garbage in
`RobotActionsProofs` are named above. That an acknowledgement by the websocket
thread is excepted in `NothingClearedUnsent` is proved only: the requests of
`actions_gui` leave it out.

## 5. Findings

Disagreements between the code and its own documents, comments or logs, met
while translating it; each is in `PROJECT.json` with both places quoted. One is
shown by a run that must fail, `refused_pid`: a `set_pid` refused because the
ECU is not connected leaves zero gains to be sent.

The others are stated with their reasons only.

*Actions.* An ending clears every `active` before it sets every `confirmed`: a
websocket handler in between leaves an action active and confirmed, which is
never resent or ended and refuses all others until the ECU answers something. A handler makes its status active before it writes
counter, data and timestamp: in between `manage_robot_actions` takes those of the
last request, and may abort a request just made or send the old data. An action
that is given up is put into `last_command_` once more before the retries are
tested; reported as aborted it stays there and is sent, after a reconnection
however late (`manage_robot_actions` clears the status structs only). An acknowledgement that
the page writes during a send is cleared unsent, as it has no status that would
send it again.

*Receiver.* `current_buffer_pos_` takes the length of the last read, not of all of them, so a packet in three reads, after an
empty poll or behind another's end is lost, and by the same line `packet_size_`
may pass the buffer, which the run `receiver` reaches. The clear is decided by one
`available()` and the read sized by another: bytes in between are read behind
those of before, and an old end may end what is new; `packet_size_` has no first
value, and a port that throws at the first poll lets garbage be scanned.

*Settings and sounds.* `set_pid` writes its four fields into a message that the
page assigns whole: a mixture that nobody asked for may be sent, with
`success=true`. If the ROS clock runs ahead of the sounds, the next is loaded over
the global of the one that plays: a chunk is leaked and the other freed twice.

*Elsewhere.* `last_command_ok` confirms whatever its value; the status structs start uninitialised; the
acknowledgement does not check the emergency stop; blank fields of the page
bring back old gains; a write held up before its first `pselect` may wait for
49 days; a port that cannot be configured leaks a descriptor a second; a report
of gains hidden by the next message of the same read; the ROS time of a
synchronisation older than its frame; failed transforms counted for the node's
whole life; a battery of 25 % announced as 5 %; `start()` throwing for want of
a second executor, so that `stop()` cancels nothing; an empty route sent as a
goal; `get_all_configs`, which the page sends and `handle_gui_command` answers,
not routed by `on_message`, so that a page that comes back shows old gains;
`set_pid_enabled`, which nobody knows, logged by the page as done;
`get_ecu_info`, answered to every page with empty data; a form's check box
undone by a report; the right motor's current on the gauge of the bus voltage; a
packet rate divided by 101 zeros at the start; a node without its share
directory that ends in a null pointer.

## 6. Not modelled, and why

* What `publish_*`, `publish_full_status` and `update_nav_info` copy and format
  field by field, and the page draws: no state of their own.
* The packet rate: shown only. The race on its deque is undefined behaviour
  that a model of its value would not show.
* The rest of the serial library (setters, control lines, `readline`, flush,
  Windows, macOS, port enumeration): the driver does not use it.
* `control_logger.hpp`: never enabled.
* The ECU, the wire, rviz and the navigation server appear as what they may do
  to the driver.

## 7. Plan

Done, in this order: `RobotActions` with `ActionQueue` and its refinement,
`VelocityCommand`, `Cobs`, `FrameReceiver`, `CommandConfig`, `SerialPort`,
`NavigationTester`, `Feedback`, `WebControl`; `Crc`, `CrcTable` and `Packet`
around `Cobs`; `SoundPlayer` and `StatusForPage`; `PacketStream`, which
`FrameReceiver` implements; and the proofs of all the safety properties.

Next, if the project is carried on:

1. **A composition** of `VelocityCommand` with the page's joystick. A page that
   dies while its joystick is held is a joystick that says nothing more, which
   `RobotStops` and `JoystickIsReleased` already cover; what would be new is the
   delay of `WebControl`'s inbox in front of it.
2. **The node's start**: the pointer `nav_tester_`, null before the first command
   tick.
3. **Ranking properties** for the liveness arguments (`QueuedIsResolved`,
   `FlagSettles`, `AskedIsAnswered`), as `WaitingIsKept` is for the answers.
