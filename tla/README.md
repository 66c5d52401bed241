# autochal in TLA+

`autochal` is a challenge kit for small autonomous robots: an iRobot Create carries a
single-board computer that talks to the Create and to an ArduIMU over two serial
lines, runs a control program, and tells the other robots and a display where it is
over UDP multicast. This directory models the parts of it where threads, interrupts,
serial lines, datagrams and shutdown meet, checks them with TLC and proves the most
important facts with TLAPS.

Paths below are relative to `src/Software/Code` unless they start with `src/`.

## 1. The system

| component | state it keeps | operations | hard behaviour |
|---|---|---|---|
| **libcreateoi** (`libs/libcreateoi/createoi.c`) | `fd`, `THREAD_MODE`, `create_mutex`, `sensor_cache` with its mutex, the sensor thread, the static counter of `stopWait` | start and stop in three modes, one frame per command, sensor queries, cached getters, `waitDistance`/`waitAngle`, `driveDistance`/`turn`, scripts, songs | the robot *resets* distance and angle when it reports them; a query is a write and a read; the cache is filled by one thread and emptied by others; destroy after join; a port that moves part of a frame, or fails |
| **iMain** (`iMain/main.c`) | `shutdown_sys`, `execute_sys`, four semaphores, the control loop's locals | `main`, `func_50Hz`, `func_2Hz`, `execute` | three real-time threads, two library threads, one server thread, joined in a fixed order by threads that themselves must be woken |
| **status client** (`iMain/comms/iClient.c`) | socket `sd`, global `rc` | `startClient`, `sendStatus`, `closeClient` | sends a status that `main` is still filling; exits the process when a send fails |
| **status server** (`iMain/comms/iServer.c`) | socket, `not_done`, the status map and its mutex | `startServer`, the receive loop, `getStatus`, `closeServer` | a blocking select against the shutdown; a sender filter; the map read without its lock |
| **arena display** (`src/Software/java/robot-display`) | layers and their count, radars, robots | UDP listener, constructor, redraw | the listener starts before the layers exist and shares an unlocked counter |
| **libIMU** (`libs/libIMU/libIMU.c`) | `fd`, `sensor_cache`, the sensor thread | start in four modes, frame decoding, getters, stop | a stream without marks; frames that fail their checks; a global that another library also defines |
| **ArduIMU serial driver** (`src/Software/Arduino/FastSerial.*`) | two ring buffers per port | `begin`, `end`, `read`, `write`, two interrupt handlers | handlers that run between any two accesses |
| **ArduIMU firmware** (`src/Software/Arduino/*.pde`) | filters, the message | the slots of the main loop, `printdata` | how nine readings become 32 bytes |
| **control laws** (`iMain/utils`) | histories of the last commands | heading, speed and yaw loops, dead reckoning | floating point that divides by an error |
| **samples** (`Samples/`) | globals of four driving modes | drive by keys, by heading, to a position, around waypoints; wander, track | modes that interrupt each other and share globals |
| `iMain/inih`, `libs/libSQLite3`, `src/Tools` | | | third-party or offline code, left aside |

How they interact. A program calls `startOI*`, which opens the port and, in the
multi-threaded modes, starts a sensor thread that polls the robot every 20 ms or once
per post of a semaphore. Getters then read the cache. iMain starts both libraries in
the semaphore-driven mode: `execute` posts `sem_50Hz` and `sem_2Hz` by the clock,
`func_50Hz` passes each tick on to both sensor threads, `func_2Hz` broadcasts the
status, `main` steers. On the other robots a server keeps the last status of each peer;
the display draws a layer per robot. The IMU prints one message after the other through
the ring buffers of its serial port; libIMU reads as many bytes as a message has. At the
end `main` closes the sockets, sets `shutdown_sys` and joins; `func_50Hz` is the one that
stops both libraries.

What makes each part correct is listed, hazard by hazard, in `PROJECT.json`; the
properties of section 3 are aimed at those.

## 2. The modules

    CreateOI ── CreateOI_inv ── MCCreateOI                                   (TLC)
                      └──────── CreateOI_proofs ── CreateOI_call_proofs      (TLAPS)
    OIFrames ── OIStream ────── MCOIStream (TLC), OIStream_proofs (TLAPS)
    IMain ───── MCIMain (TLC), IMain_proofs (TLAPS)
    StatusNet (TLC), StatusNet_proofs (TLAPS)
    ByteQueue ── FastSerial ─── MCFastSerial (TLC), FastSerial_proofs (TLAPS)
    IMUFrame ─── IMULink (TLC), IMULink_proofs (TLAPS)
    Pilot (TLC), Pilot_proofs (TLAPS)

The layers fit together as follows. CreateOI takes a query or a frame for one step of
the line; OIStream shows what such a step is made of. IMain takes each library for what
the program joins; CreateOI and IMULink have their threads in full. IMULink takes the
firmware's transmit buffer for a queue; FastSerial is shown to implement that queue.
StatusNet follows what IMain's `SendStatus` and server thread carry.

### CreateOI: the library, its threads, the line and the robot

Threads are the calling program's threads (`Callers`) and the library's sensor thread.
Each has a label in `pc`, a return label in `ret` and the locals of the call it is in.

| in the model | in `createoi.c` |
|---|---|
| `LockLine`, `WriteFrame`, `WriteQuery`, `WriteFails`, `ReadReply`, `ReadFails` | every call's `pthread_mutex_lock(&create_mutex)`, `cwrite`, `cread`, unlock on each path |
| `SensorInit` … `SensorStore`, `SensorFault` | `sensorThreadFunc` and `sensorThreadFuncStandalone`; `+=` is a read and a write |
| `LockCache`, `TakeCache`, `ClearCache` | the threaded branch of the getters; reading and clearing are two steps |
| `Driven`, `Reset` … `Decide` | `driveDistance`, `turn`, `waitDistance`, `waitAngle`, `stopWait` |
| `startOI`, `StartFrames`, `StartedDirect`, `startOI_MT`, `Settle` | the three starts |
| `CallStop`, `ShutDown`, `Join`, `Goodbye`, `stopOI` | the two stops |
| `Move`, `SafetyTrip`, `Answer`, `Unplug`, `Post` | the robot, the cable, and the program's semaphore (outside the library) |

The data is cut to what the library can get wrong: of the sensor values the two
consuming counters, and one signal that stands for overcurrent, bumper or cliff.
`travelled`, `delivered`, `lost`, `seen` and `lastFrame` are history variables; no
action depends on them but `Move`, which they bound.

Assumptions made explicit:
- A one-way frame takes effect when it is written (the line is FIFO, the robot obeys in order).
- START stops the wheels (`Obey`); the repository does not say so, and `stopOI` relies on it.
- The line works until it is unplugged and then fails for good. A read that has no answer
  to wait for ends when the line goes down; a robot that is silent on a working line blocks it.
- The sleep of 100 ms after `pthread_create` is long enough for the sensor thread's first
  two statements (`Settle`).
- A program stops the interface when none of its threads is in a call.
- A failed `getAllSensors` is one that returns NULL. `readSensor` takes a reply of no
  bytes for a success of value 0, and so does the model; a reply cut between two bytes,
  and a write cut short, are the subject of OIStream.
- The getters of flags that `stopWait` calls (bumps, then four cliff sensors) are one query.
- In the C code `stopWait` sums INT_MIN values when queries fail; the overflow is a free choice.

### OIFrames and OIStream: the same line byte by byte

OIFrames has one operator per command: the bytes of its frame with the limits the code
enforces, how many bytes it then reads, and what its documentation says it asks of the
robot. A frame that contains memory the call never wrote (`readRawSensorList`,
`writeScript`) is a set of frames. It also has both decoders of sensor packets,
`readSensor` and `getAllSensors`.

OIStream moves those frames. `write()` and `read()` take and give as many bytes as they
like; `numzeroes` counts fruitless transfers over the whole call and gives up at the
fourth; a short count is taken for success; `cread` ends with `tcflush`; `getScript` reads
twice. The robot (external) knows where a frame ends only by counting data bytes, and
skips what is no opcode; an answer has as many bytes as its packets together (`AnswerSize`),
of those in `Sensed`. `obeyed`, `asked`, `answered`, `short` and `flushed` are history.

A request is `Proper` if each frame it may send is one whole command, means what the
documentation says the call asks for, and is answered by as many bytes as the call reads.
The theorems about the line assume that all `Requests` are; section 4 proves it for the calls
of the library, those of the run among them. Two calls are not: `writeScript`, whose first
byte is stack memory (TLC evaluates `MCNotProper`), and `readRawSensorList` with packets of two
bytes, whose frame has as many bytes as the answer.

### IMain: the program's threads from start to last join

One action per statement that touches shared state, for `main`, `func_50Hz`,
`func_2Hz`, `execute`, `serverThreadFunc` and the two sensor threads. The libraries
are reduced to what the program joins. `Launch` is the table
of what `main` starts and when. The control loop is one action, `Cycle`, that leaves the
robot moving or not. Exits of the process (`startServer`, `startClient`, `ini_parse`,
`sendStatus`) end all threads at once.

Both libraries define a global `sensor_cache`, of different types, and the program links
only because the compiler makes them common symbols (gcc's default for many years), so that
the two are one pointer. `startIMU_MTS` comes second and leaves it at the 56 bytes of libIMU's
cache. libcreateoi's thread then writes its `overcurrent` on libIMU's `shut_down` (byte 48 in
both layouts, where a double is aligned to 8), and libcreateoi's own `shut_down` (byte 64) is
behind the allocation: what its thread reads there is a free choice, with or without the
request of `stopOI_MT` (`OIUpdate`). What those writes do to other memory is left out.

Assumptions: both devices are present; the process may create SCHED_FIFO threads. A
semaphore forgets posts above `MaxPosts`; the code's would count them.

### StatusNet: client, network, server and display

| in the model | in the code |
|---|---|
| `LoadName`, `LoadPlace` | `handler` of `iMain/main.c`, called by `ini_parse` while `func_2Hz` already runs |
| `CopyPlace`, `sendStatus` | `sendStatus`: the numbers, then the name, then the datagram |
| `Top`, `Select`, `Recv`, `RecvFails`, `LockCache`, `Handle` | `serverThreadFunc`, with the sender filter, the switch and `put` |
| `Close`, `Shut`, `Join` | `closeServer` |
| `NewPane`, `ReadCount`, `AddBackground`, `AddRadar` | `ArenaDisplay`'s constructor; `layer_count++` is a read and a write |
| `Receive`, `LookUp`, `ReadLayer`, `AddLayer`, `setData` | the display's listener thread and `recv` |
| `Lose`, `Send` | multicast (external): a set of datagrams, so a datagram may come late, out of order or never |

A status is a name and a place, the two parts that are filled in separately. Receivers
share nothing, so that the model follows one of them, `host`, chosen at the start.
`inet_ntoa` has one static buffer, so the filter of `iServer.c:117` holds for every sender
and the server handles nothing (`FromMyself`). So that the rest of the loop (`LockCache`,
`Handle`, `put`) is exercised all the same, the constant `Patched` names servers that compare
addresses instead, which drop their own robot's datagrams only; no server of the repository
does, and no property is about what such a server holds.

Two more facts about `closeServer` that the model leaves out: it calls `close(rc)`, where
`rc` holds the length of the client's last datagram (54) or 0, which is no descriptor of
its own; and it only shuts the socket down and puts `sock` to 0, so that a thread still in
its loop selects on, and receives from, descriptor 0 (`watched`, `RecvFails`).

### FastSerial and ByteQueue: the IMU's serial port

FastSerial has the main loop's `begin`, `end`, `write` and `read` line by line where an
interrupt may come between two lines, and both handlers, which are not interrupted.
ByteQueue says what a ring promises: bytes come out in order, none twice, and none is lost,
but for what is offered to a full receive ring. `TxQueue` and `RxQueue` are the two
refinement mappings; `Contents` reads a ring from tail to head.
Heads and tails are 16-bit and the processor has 8 bits; a ring of at most 256 bytes
changes only one of the two. The firmware asks for 128 and 16, the defaults are 128 and 64,
and `PortAssumption` leaves out requests above 256: with rings of 512, which `BUFFER_MAX`
would allow, a handler could read half an update.

`flush`, which nothing in the repository calls, is left out. It would set
`_rxBuffer->head` to the tail, which its own comment explains must not be done, and
`_txBuffer->tail` to the head of the *receive* ring.

### IMUFrame and IMULink: from the firmware's readings to libIMU's cache

IMUFrame has `printdata` (how each reading is made a word or a long, in two's complement or
a full turn further, and the two checksums) and `readIMUData` with its tests and range
corrections. IMULink has the stream: a byte is `<<k, i>>`, byte i of message k. `iread`
takes what there is and goes on, `tcflush` throws away the rest, the frame is tested and
cached under the mutex; `stopIMU_MT` sets `shut_down` under the mutex and joins.

Abstractions: a frame passes the tests if its bytes (but for the first, the preamble's,
which no test looks at) are those of one message, each in its place. In the
code the header test joins its comparisons with `&&` (`libIMU.c:314`, `Refused`), so that a
frame with one wrong header byte is left to the checksums, which cover the header too; and a
mixed frame passes once in 65536 times, when both checksums match by chance. The
lowest value of a range (-250 degrees per second, -4 g, -180 degrees) has the code of the
highest and is decoded as that; `SameCodec` excludes it.

### Pilot: the samples that steer

`driveIMU` and `driveInnerLoop` round by round: read the sensors, read a key, let one mode
drive. The modes are `HeadingControl`, `positionControlMode`, `waypointControlMode` (as
seven actions) and `ManualControl`, in the order in which they take precedence. Places
stand for distances to targets; of the controller's numbers the model has the class
(finite, infinite, NaN) of those that last from round to round. The heading controller is
the same, line by line, in `iMain/utils/InnerLoop.c`.

## 3. What the runs check

| run | properties | shows |
|---|---|---|
| `CreateOI_data` (passes) | `Conservation`, `NothingLostInSession`, `ReplyToAsker`, `DistanceWaitExact`, `NoUseAfterDestroy` | two program threads plus the sensor thread: each increment of travel is in exactly one place; a reply goes to its asker; `waitDistance` returns all it was given; destroyed mutexes stay unused |
| `CreateOI_calls` (passes, fair) | `TypeOK`, `DriveForEndsHalted`, `CallsReturn`, `HazardEndsWait` | calls return, `stopOI_MT` unless it joins a thread that nobody posts any more; a persisting hazard ends an interruptible wait; `driveDistance` ends with a stop frame |
| `OIStream_calls` (passes, fair) | `TypeOK`, `ObeysCalls`, `GetsItsAnswer`, `SameDecoding`, `CallsReturn` | unless a write stops short, the robot obeys exactly what the calls' documentation asks for, in order; answers reach their askers whole; both decoders agree |
| `IMain_shutdown` (passes, fair) | `TypeOK`, `EndsClean`, `StopRequestStays`, `WorkersLeave` | an end through `main` leaves no thread and no moving wheel; the periodic threads get out of their semaphores; the request of `stopIMU_MT` is not overwritten |
| `StatusNet_arena` (passes, fair) | `TypeOK`, `InFront`, `DisplayShows`, `ServerCloses` | the display comes to hold the whole status and keeps it; robots are drawn in front of the background; `closeServer` returns, with the sender filter as it is and patched |
| `FastSerial_port` (passes, fair) | `TypeOK`, `Armed`, `TxInOrder`, `RxInOrder`, `WriteReturns` | both rings implement their queue under every interruption; a byte that waits has its interrupt enabled; a write into a full ring returns |
| `IMULink_frames` (passes, fair) | `TypeOK`, `InStepAfterPause`, `SameReadings`, `StopReturns` | a flush between two messages puts the reader in step; what is cached was measured; `stopIMU_MT` returns, even when no frame is ever accepted |
| `Pilot_mission` (passes, fair) | `TypeOK`, `TourInOrder`, `LapsFlown`, `HomeBeforeEnd`, `MissionEnds` | missions keep order and laps under every series of keys and headings, and end if they go on being steered |
| `CreateOI_restart` (violated) | `NoUseAfterDestroy` | `startOI` after `stopOI_MT` goes on with the destroyed cache mutex |
| `IMain_quit` (violated, fair) | `QuitEnds` | `func_50Hz` joins threads that only its own posts wake |
| `StatusNet_peers` (violated, fair) | `PeersKnown` | the server takes every sender for itself and holds no peer's status |
| `Pilot_deadon` (violated) | `InverseToError` | a heading error of zero makes the turn radius NaN for good |

The violated runs are disagreements between the code and a line of its own
documentation, comments or user interface; `PROJECT.json` quotes the line of each.

`LapsFlown` states what the code does: later missions of the same run fly one lap more
than the first, because a mission ends with a lap count of 0 and the program starts with 1.

**Further disagreements**, stated in the modules but not kept as runs. Each is found by TLC
within seconds when the property is checked with the constants named:

| property | module and constants | what it shows |
|---|---|---|
| `AngleWaitExact` | CreateOI, as in `CreateOI_data.cfg` | `waitAngle` reads the angle a second time for its progress report (`createoi.c:1629`), and that read takes what has been turned in between out of the count |
| `NullSampleNotUsed` | CreateOI, as in `CreateOI_data.cfg` | the sensor thread uses the NULL of a failed `getAllSensors` (`createoi.c:232`, documented at 1294) |
| `StartedMeansOpen` | CreateOI, as in `CreateOI_restart.cfg` | a failed open leaves `fd` at -1, which the next start takes for an open port and reports as 0 (`createoi.c:124`, documented at 113) |
| `IMUThreadStays` | IMain, as in `IMain_shutdown.cfg` | one overcurrent reading ends the IMU's thread, since the two `sensor_cache` are one (`libIMU.c:65`, `createoi.c:86`) |
| `ObeysCalls` | OIStream, as in `OIStream_calls.cfg` with `Requests <- MCScript` | `writeScript` stores its opcode where its loop overwrites it (`createoi.c:1410`): the first byte on the line is stack memory |
| `EndsAtHome` | Pilot, as in `Pilot_mission.cfg` | a robot driven away by another mode during its last turn finishes the mission where it is ("At Home Position", `Samples/driveIMU.c:484`) |

**Bounds.**
- `CreateOI_data` uses one increment, in either channel, with two program
  threads and the sensor thread: three contenders for each mutex are enough for a holder,
  a waiter and a thread in between, and one unit is enough to be lost or counted twice. The
  proofs of section 4 lift all three. `OverLimit` is 4 in the code and 1 in `CreateOI_calls`:
  the counter must climb more than once, reset, and fire. That run keeps the wheels still
  (no `Increments`) and its goal is behind, so that only a hazard can end a wait.
- `OIStream_calls`: two threads and two calls, so that one frame or answer can disturb the
  next; `GiveUpAt` is the code's 3. `MCRequests` has each command, with arguments below, at
  and above its limits. `Stray` has an opcode and a byte that is none, `Sensed` two bytes, one
  of them with the sign bit, so that a byte read twice or left over shows. The proofs have any
  threads, calls and bytes.
- In `IMain_shutdown` the clock posts 50 Hz every cycle and 2 Hz every other cycle (2 and 50
  in the code, with the wrap at 1000), which keeps their order and the wrap; a semaphore
  holds one post, which is enough for a leftover post and for none.
- `StatusNet_*`: one sender and one receiver at a time, which share nothing with others: in
  `StatusNet_arena` the display, a server as it is, a patched one and the patched one of the
  sender itself; in `StatusNet_peers` the display and a server as it is. Two
  datagrams in flight (an old half-written status and a new one, or a repetition), one radar
  (one interleaved `layer_count++` of the constructor after the background).
- `FastSerial_port`: rings of two bytes, always full or empty, and of four, which wrap with
  something left, each way round.
- `IMULink_frames`: messages of three bytes (preamble, one byte, the last), three of them,
  a transmit buffer of one place and an input queue of a message; one byte lost. `SameCodec`
  and `SamePackets` are functions of their inputs; they are evaluated at the ends of every
  range, around zero and byte limits and at some 50 values between (IMUFrame), and at each of
  the 52 bytes of a packet (OIFrames). `CodecExact` and `GroupAgrees` (section 4) have every value.
- `Pilot_mission`: one lap (two in a later mission), one step of the arrow keys. In both runs
  of Pilot the robot may point exactly at its target (`DeadOn`).

Deadlock is not checked: a process that has died, or has ended, stops.

**Fairness.** Weak fairness for each thread's steps: the kernel runs every thread that
can run; iMain's real-time threads block in every round. Strong fairness for a lock where a
waiter competes with a thread that takes it over and over (CreateOI, `StopLock` of IMULink,
`Shut` of StatusNet): holders do one transfer or a few assignments and then sleep or block, so a
waiter is not passed by for ever. OIStream needs only weak fairness, its calls being finite in
number. The robot answers while the line is up, the IMU prints for ever and an enabled
interrupt is served. Nothing makes a program go on posting the sensor thread's semaphore:
`func_50Hz` has stopped when it calls `stopOI_MT`, and `CallsReturn` says so (`Starved`).
IMULink's thread is one that `usleep` paces, or that goes on being posted (`Turn`); `QuitEnds`
of IMain has the other case. The network
is fair-lossy (`Arrives`): of a datagram sent over and over some arrive while somebody
listens. In Pilot a robot that from some time on is steered in every round (`Flying`) gets to
its targets, which is what the control law is for and what this model cannot show. Nothing is
assumed of a robot that is not: another mode or `q` has it, the key `w` starts the controller
again with a radius of 0 round after round, or its radius has become infinite or NaN, which
it never recovers from on the way. `MissionEnds` makes exactly these exceptions.
No fairness for the user's keys, the cable, the wheels, a full port, or the calls a
program makes.

Every property of a passing run has a mutant in `PROJECT.json`: a definition changed the
way a plausible error would change the code (a missing lock, an early unlock, a missing
join, a counter that is not kept), under which TLC finds the property violated. Mutants are
the operators whose comment starts with `Bug:`.

## 4. What is proved

For every number of callers, every choice of operations, every size and every bound:

**CreateOI**
- `TypeCorrect`: `Spec => []TypeOK`. The proof groups the variables and shows
  each action's effect on the groups it touches.
- `TravelInvariant`, and from it `TravelConserved` (`Conservation`), `RepliesReachAskers`
  (`ReplyToAsker`) and `NoTravelLost` (`NothingLostInSession`). `Conservation` is not
  inductive: that a step keeps the sum rests on who may touch the terms. The invariant
  `TravelInv` (module CreateOI_inv) adds
  - `LineInv`: a thread that writes or reads holds `create_mutex`, and the query on the line is
    its own (so `ReadReply` gives the reply to the one that asked, and only an idle line carries
    no counters);
  - `CacheInv`: a thread between load and store, or between take and clear, holds
    `sensor_cache_mutex`, and its copy is what the cache still holds;
  - `SessionInv`, `ResumeInv`, `Quiet`, `DeadInv`: which labels go with which session, so that a
    start, which clears the cache, meets no other thread in the middle of a read.

  TLC checked each part on the instances of section 3 before it was proved. The proof goes
  action by action; for a step of one thread the other threads' clauses are kept because
  the mutex it holds is not theirs.
- `DistanceCounted` (`DistanceWaitExact`), from `CountInv`: a wait for a distance is never at
  the label of the second getter, so what it counts and what it was given grow together.
- `DrivesEndHalted` (`DriveForEndsHalted`), from `HaltInv`: the only call through which
  `driveDistance` and `turn` come back to their end without having failed carries the stop
  frame.
- `NoDestroyedMutex` (`NoUseAfterDestroy`), under `~MixedModes`: `LifeInv` ties the line's
  mutex to the session and the cache's to the sensor thread or a threaded session, and says
  that getters use the cache only there, since a direct session has `THREAD_MODE` 0. With
  mixed modes that last clause is false: see the restart run of section 3.

**IMain**
- `MainTypeCorrect` and `EndIsClean`. `EndInv` records, for each label of `main` and
  of `func_50Hz`, which threads have been joined and that nobody drives after
  `stopOI_MT`: `main` has left its loop before `shutdown_sys` is set.
- `IMURequestStays` (`StopRequestStays`): the request rests on `EndInv`, which says that the
  thread that writes on the same byte has been joined by then. That nobody else ends the
  IMU's thread is false: see section 3.

**FastSerial**
- `PortTypeCorrect` and `AlwaysArmed` (`Armed`), from one invariant. `WriteInv`: between its
  steps the head `write` has computed is still the next one, from the end of its wait on there
  is room (the handler moves only the tail, and only makes room), and the cell about to be
  published holds the byte. `ReadInv`: the ring stays non-empty under `read`, and the byte
  taken is the one at the tail.
- `SendsInOrder` and `ReceivesInOrder`: FastSerial implements ByteQueue through both
  mappings, for rings of up to 256 bytes. Initial states map to initial states; each step maps to
  one of `Offer`, `Put`, `Lose`, `Take`, `Clear` or to none. The lemmas on rings say what
  storing, publishing and taking do to `Contents`, with the wrap as a case of its own.

**OIStream**, if `ProperRequests`
- `StreamTypeCorrect` (`TypeOK`), `CommandsObeyed` (`ObeysCalls`) and `AnswersArrive`
  (`GetsItsAnswer`), for any threads and calls and however a transfer is cut. Neither property is
  inductive: a state has bytes in five places and says nothing about commands. `Stream` is
  what the robot has heard of a command, what is on the cable and what the writing call has
  left. `LineInv` says that it is cut into frames, a queue q of whole commands
  (`Made`, with the function of cuts as its witness), and that what the robot obeyed followed by
  what q means is what was asked (`Pending`). A write moves bytes from one part of the stream
  to another; taking the line adds a frame to q; the byte that completes a command takes
  the first one from q, because a proper frame ends where the robot's count does and not before
  (`HearsFirst`). `Awaited` adds who may expect bytes: nothing is on its way to the program before
  the query is heard, only the last frame of q is a query, and then buffer, input queue and
  air together are its answer. When the port hangs up only the order of what was obeyed remains,
  and after a flush only the frames; `flushed` and `short` in the properties are exactly these two exits.
  TLC cannot look for q among all sequences of sequences; it checked the two properties.
- `CallsAreProper`: the hypothesis holds of every call but the two named above, for all
  shorts and bytes as arguments. Its lemmas have the limits (`Velocity`, `Curve`), a 16-bit
  number and its two bytes (`WordBack`) and what makes a frame whole (`FixedWhole`,
  `SongProper`, `ListProper`).
- `GroupAgrees` and `DecodersAgree` (`SameDecoding`): for all 52 bytes, `getAllSensors` finds
  every packet where the packets before it end. The offsets are a recursive function, unfolded
  once for each of the 36 packets (`OffsetIs`).

**StatusNet**
- `ArenaTypeCorrect` (`TypeOK`) and `RobotsInFront` (`InFront`). `layer_count++` is a read and a
  write in two threads without a lock, and counts get lost. `CountInv` bounds the count and both
  threads' copies by the layers there are; `FrontInv` says why no loss takes it back to 0 once the
  background is in place: each copy that is written then was read from a count that included it.

**IMULink**
- `CodecExact` and `ReadingsSurvive` (`SameReadings`): every nine readings within their ranges
  come back from the message as they were. The fields are cut out of the 32 bytes by lemmas on
  concatenation, each range is closed by its two's complement, and the checksums agree because both
  sides fold the same bytes.
- `LinkTypeCorrect` and `InStep` (`InStepAfterPause`). `StepInv` says that while `pause` holds
  on a line that is up, the bytes in frame, port and ring are those of message `due`, in their
  places, and the firmware is where they end; `LinkInv` how full a frame is at each label, and
  that before the start and after a hang-up there is no pause to rely on. The assumption that
  a round of message numbers is longer than what can be under way keeps two messages of the
  same number from being taken for one.

**Pilot**
- `PilotTypeCorrect`, and from `MissionInvariant` the theorems `WholeLaps` (`LapsFlown`),
  `HomeFirst` (`HomeBeforeEnd`) and `ToursInOrder` (`TourInOrder`). `MissionInv` relates the
  waypoint, the lap count and the flags of the mission to the number of waypoints reached,
  which no single flag determines.

The assumptions are the named ones on the constants in the modules.

Only model-checked: liveness (`CallsReturn` of CreateOI and of OIStream, `HazardEndsWait`,
`WorkersLeave`, `DisplayShows`, `ServerCloses`, `WriteReturns`, `StopReturns`,
`MissionEnds`), since fairness is out of the prover's reach, and what the violated runs show.
Every invariant and every action property of a passing run is proved.

## 5. Not modelled, and why

- **Vendored and offline code**: the headers of SQLite, `iMain/inih`, `vprintf.cpp` and the
  formatted output of the firmware, the CSA library and the MATLAB tools. Together they are
  more than half of the lines of the repository's sources, and none holds state of the robot.
- **Floating point**: control laws, dead reckoning and the attitude filter. TLC has no such
  numbers; Pilot has what can be said with classes of them.
- **ADC and slots of the firmware**: the slots run one after the other in one loop; the ADC
  handler's sums feed the filter only.
- **The other samples** (`wander`, `tracker`, `BumpCheck`, `Heading`, `Home`, `rectangle`,
  `square`): image processing, or straight-line use of libcreateoi.
- **libcreateoi**: the host's side of `setBaud`, `waitTime`, the debug flag.
- **libIMU**: the getters, which read the cache without its mutex (single words whose mixture
  is allowed by nothing and forbidden by nothing), and the output file.
- **iServer**: `getStatus`, which reads the map without its lock and which no program calls;
  `close(rc)`.
- **Display**: `paintComponent`, the printed messages, `radars.xml`. Two things the model
  shows and no line of the repository forbids: a listener that gets a status
  before `layeredPane` exists ends with a NullPointerException (`lpc = "dead"`), and a robot
  heard of before the background is added shares layer 0 with it.

What could come next: an abstract odometer implemented by CreateOI while the line is up; the
composition of Pilot with CreateOI's waits; the threads of `wander` around the camera.
