------------------------------ MODULE CreateOI ------------------------------
(***************************************************************************)
(* libcreateoi: the threads of a program that drives an iRobot Create over *)
(* one serial line, the library's two mutexes (create_mutex around the     *)
(* line, sensor_cache_mutex around the cache), the sensor thread of the    *)
(* multi-threaded modes, and the robot at the other end of the line.       *)
(*                                                                         *)
(* The data is reduced to what the library must not get wrong: of the 36   *)
(* sensor values a packet carries, the two that the robot RESETS when it   *)
(* reports them (distance and angle: every increment is reported once),    *)
(* and one signal standing for overcurrent, bumper and cliff bits.         *)
(*                                                                         *)
(* A one-way frame takes effect when it is written: the line is FIFO and   *)
(* the robot obeys in order.  A query takes three steps, so that another   *)
(* thread can come between the request and its answer.                     *)
(***************************************************************************)
EXTENDS Integers

CONSTANTS
  Callers,     \* the application threads that call the library
  OpsOf,       \* OpsOf[t]: the operations thread t calls
  Reported,    \* the signals the robot's sensors may show
  Increments,  \* what one Move adds to a wheel counter
  MaxTravel,   \* bound on the distance plus angle of a behaviour
  Goals,       \* the dist or angle arguments of waitDistance and waitAngle
  OverLimit,   \* polls with overcurrent that stopWait tolerates (4 in the code)
  MaxPosts,    \* bound on the value of the semaphore sem_sensor
  MixedModes   \* a program may call startOI after it has called stopOI_MT

Sensor   == "sensor"
Threads  == Callers \union {Sensor}
Channels == {"distance", "angle"}
Signals  == {"clear", "overcurrent", "obstacle"}
Zero     == [c \in Channels |-> 0]

StartOps == {"startOI", "startOI_MT", "startOI_MTS"}
StopOps  == {"stopOI", "stopOI_MT"}
Ops      == StartOps \union StopOps \union
            {"get", "readSensor", "drive", "wait", "driveFor"}
Frames   == {"query", "drive", "halt", "passive", "safe", "led"}

\* Where a thread is.  The labels of the second line are inside a critical
\* section of create_mutex, those of the third of sensor_cache_mutex.
Labels   == {"idle", "lockLine", "lockCache", "returned", "dead"} \union
            {"write", "read"} \union
            {"take", "clear", "load", "store"} \union
            {"passiveSent", "safeSent", "ledSent", "settle"} \union
            {"driven", "reset", "poll", "polled", "printed", "judge",
             "overSeen", "bumpSeen", "decide"} \union
            {"shutDown", "join", "goodbye", "stopSent"} \union
            {"none", "init", "await", "sampled", "done"}

ASSUME CallersAssumption ==
  /\ Callers # {}
  /\ Callers \intersect {Sensor, "free", "gone"} = {}
ASSUME OpsAssumption == OpsOf \in [Callers -> SUBSET Ops]
ASSUME ReportedAssumption == "clear" \in Reported /\ Reported \subseteq Signals
ASSUME IncrementsAssumption == Increments \subseteq Int
ASSUME GoalsAssumption == Goals \subseteq Int
ASSUME BoundsAssumption ==
  /\ MaxTravel \in Nat
  /\ OverLimit \in Nat
  /\ MaxPosts \in Nat
  /\ MixedModes \in BOOLEAN

VARIABLES
  \* the robot and the line
  mode,        \* "passive" or "safe"
  moving,      \* the wheels turn
  pending,     \* wheel counters the robot has not reported yet
  line,        \* "up", or "down" for good (the cable is out)
  wire,        \* the query on the line: its state, its author, its channels
  answer,      \* the counters of the reply that is on the line
  \* the library's globals
  fd,          \* 0, -1 (open failed) or 1 for any open descriptor
  THREAD_MODE,
  createOwner, \* create_mutex: "free", its holder, or "gone" when destroyed
  cacheOwner,  \* sensor_cache_mutex, likewise
  cache,       \* sensor_cache->distance and ->angle
  cacheSignal, \* the flag fields of sensor_cache
  shut_down,   \* sensor_cache->shut_down
  overCurrentCount, \* the static counter of stopWait
  triggered,   \* the sensor thread is the one that waits for sem_sensor
  posts,       \* the value of sem_sensor
  session,     \* between which calls we are: "closed", "starting", "direct" (startOI),
               \* "threaded" (startOI_MT, startOI_MTS) or "stopping"
  \* the threads' locals
  pc, ret,     \* where a thread is, and where the call it is in returns to
  frame,       \* what it writes to the line
  want,        \* the channels its call fetches
  result,      \* what the call returned
  signal,      \* the flags the call returned
  failed,      \* the call returned -1, INT_MIN or NULL
  loaded,      \* the register of "+=" in the sensor thread
  op, chan, goal, interrupt, \* a caller's operation and its arguments
  count,       \* count in waitDistance and waitAngle
  stopNow,     \* what stopWait returned
  \* history, read by no action's guard but Move's bound
  travelled,   \* all the robot ever reported or will report
  delivered,   \* all that some call returned
  lost,        \* all that neither is held anywhere nor was delivered
  seen,        \* what the getters returned to a caller since its wait began
  lastFrame    \* the last drive frame a caller's operation has sent

robotVars   == <<mode, moving, pending>>
lineVars    == <<line, wire, answer>>
libraryVars == <<fd, THREAD_MODE, triggered, session, createOwner, cacheOwner, posts>>
cacheVars   == <<cache, cacheSignal, shut_down, loaded>>
controlVars == <<pc, ret, frame, want>>
returnVars  == <<result, signal, failed>>
argVars     == <<op, chan, goal, interrupt>>
waitVars    == <<count, stopNow, seen, overCurrentCount>>
historyVars == <<travelled, delivered, lost, lastFrame>>
vars == <<robotVars, lineVars, libraryVars, cacheVars, controlVars, returnVars,
          argVars, waitVars, historyVars>>

\* What a step of a caller's own code leaves alone: it touches only its
\* locals, and reaches the shared state through the library's calls.
sharedVars == <<robotVars, lineVars, libraryVars, cacheVars, historyVars>>

Idle == [state |-> "idle", by |-> Sensor, chans |-> {}]

Init ==
  /\ mode = "passive" /\ moving = FALSE /\ pending = Zero
  /\ line = "up" /\ wire = Idle /\ answer = Zero
  /\ fd = 0 /\ THREAD_MODE = 0 /\ triggered = FALSE /\ session = "closed"
  /\ createOwner = "free" /\ cacheOwner = "gone"
  /\ cache = Zero /\ cacheSignal = "clear" /\ shut_down = FALSE
  /\ overCurrentCount = 0 /\ posts = 0
  /\ pc = [t \in Threads |-> IF t = Sensor THEN "none" ELSE "idle"]
  /\ ret = [t \in Threads |-> "idle"]
  /\ frame = [t \in Threads |-> "query"]
  /\ want = [t \in Threads |-> {}]
  /\ result = [t \in Threads |-> Zero]
  /\ signal = [t \in Threads |-> "clear"]
  /\ failed = [t \in Threads |-> FALSE]
  /\ loaded = Zero
  /\ op = [t \in Callers |-> "get"]
  /\ chan = [t \in Callers |-> "distance"]
  /\ goal = [t \in Callers |-> 0]
  /\ interrupt = [t \in Callers |-> FALSE]
  /\ count = [t \in Callers |-> 0]
  /\ stopNow = [t \in Callers |-> FALSE]
  /\ travelled = Zero /\ delivered = Zero /\ lost = Zero
  /\ seen = [t \in Callers |-> 0]
  /\ lastFrame = [t \in Callers |-> "halt"]

(* The operators whose comment starts with "Bug:" are no part of Spec; each *)
(* is a plausible error in the definition that follows it.                 *)

At(t, label)   == pc[t] = label
Goto(t, label) == pc' = [pc EXCEPT ![t] = label]
Plus(f, g)     == [c \in Channels |-> f[c] + g[c]]
Only(f, C)     == [c \in Channels |-> IF c \in C THEN f[c] ELSE 0]

----------------------------------------------------------------------------
(* The robot (external): what src/ says of it in the comments of           *)
(* enterPassiveMode, enterSafeMode, drive and getDistance.                  *)

\* The wheel counters advance while the wheels turn.
Move ==
  /\ moving
  /\ \E c \in Channels, d \in Increments :
       /\ travelled["distance"] + travelled["angle"] + d \in (-MaxTravel)..MaxTravel
       /\ pending' = [pending EXCEPT ![c] = @ + d]
       /\ travelled' = [travelled EXCEPT ![c] = @ + d]
  /\ UNCHANGED <<lineVars, libraryVars, cacheVars, controlVars, returnVars,
                 argVars, waitVars, mode, moving, delivered, lost, lastFrame>>

\* Safe mode: a cliff or a dropped wheel stops the robot and leaves it in
\* passive mode, where it ignores drive frames.
SafetyTrip ==
  /\ mode = "safe"
  /\ mode' = "passive" /\ moving' = FALSE
  /\ UNCHANGED <<lineVars, libraryVars, cacheVars, controlVars, returnVars,
                 argVars, waitVars, historyVars, pending>>

\* The robot answers a query and resets the counters it reports.
Answer ==
  /\ wire.state = "request" /\ line = "up"
  /\ wire' = [wire EXCEPT !.state = "reply"]
  /\ answer' = Only(pending, wire.chans)
  /\ pending' = Only(pending, Channels \ wire.chans)
  /\ UNCHANGED <<libraryVars, cacheVars, controlVars, returnVars, argVars,
                 waitVars, historyVars, mode, moving, line>>

\* The cable comes out: write and read fail from now on.
Unplug ==
  /\ line = "up" /\ line' = "down"
  /\ UNCHANGED <<robotVars, libraryVars, cacheVars, controlVars, returnVars,
                 argVars, waitVars, historyVars, wire, answer>>

\* The program around the library posts sem_sensor (startOI_MTS only), for as
\* long as it likes: func_50Hz of iMain has stopped when it calls stopOI_MT.
Post ==
  /\ triggered /\ pc[Sensor] \notin {"none", "done", "dead"}
  /\ posts < MaxPosts /\ posts' = posts + 1
  /\ UNCHANGED <<robotVars, lineVars, cacheVars, controlVars, returnVars,
                 argVars, waitVars, historyVars, fd, THREAD_MODE, triggered,
                 session, createOwner, cacheOwner>>

\* What a one-way frame does to the robot.  START leaves it in passive mode
\* with the wheels stopped; drive frames are ignored in passive mode.
Obey(f) ==
  \/ f = "passive" /\ mode' = "passive" /\ moving' = FALSE
  \/ f = "safe" /\ mode' = "safe" /\ UNCHANGED moving
  \/ f = "drive" /\ moving' = (mode = "safe") /\ UNCHANGED mode
  \/ f = "halt" /\ moving' = FALSE /\ UNCHANGED mode
  \/ f = "led" /\ UNCHANGED <<mode, moving>>

----------------------------------------------------------------------------
(* The serial line: every library call locks create_mutex, writes a frame, *)
(* for a query reads the reply, and unlocks on every path.                 *)

LockLine(t) ==
  /\ At(t, "lockLine") /\ createOwner = "free"
  /\ createOwner' = t
  /\ Goto(t, "write")
  /\ UNCHANGED <<robotVars, lineVars, cacheVars, returnVars, argVars,
                 waitVars, historyVars, fd, THREAD_MODE, triggered, session,
                 cacheOwner, posts, ret, frame, want>>

\* cwrite of a frame that has no answer.
WriteFrame(t) ==
  /\ At(t, "write") /\ line = "up" /\ frame[t] # "query"
  /\ Obey(frame[t])
  /\ lastFrame' = IF frame[t] \in {"drive", "halt"}
                  THEN [lastFrame EXCEPT ![t] = frame[t]] ELSE lastFrame
  /\ failed' = [failed EXCEPT ![t] = FALSE]
  /\ createOwner' = "free"
  /\ Goto(t, ret[t])
  /\ UNCHANGED <<lineVars, cacheVars, argVars, waitVars, pending, fd,
                 THREAD_MODE, triggered, session, cacheOwner, posts, ret,
                 frame, want, result, signal, travelled, delivered, lost>>

\* Bug: readRawSensor unlocks between cwrite and cread.
UnlockedQuery(t) == "free"

\* Who holds create_mutex while a query waits for its answer.
QueryHolder(t) == t

\* cwrite of the two bytes of readRawSensor: the thread goes on to cread.
WriteQuery(t) ==
  /\ At(t, "write") /\ line = "up" /\ frame[t] = "query"
  /\ wire' = [state |-> "request", by |-> t, chans |-> want[t]]
  /\ createOwner' = QueryHolder(t)
  /\ Goto(t, "read")
  /\ UNCHANGED <<robotVars, cacheVars, returnVars, argVars, waitVars,
                 historyVars, line, answer, fd, THREAD_MODE, triggered,
                 session, cacheOwner, posts, ret, frame, want>>

\* cwrite returns -1: the error path unlocks too.
WriteFails(t) ==
  /\ At(t, "write") /\ line = "down"
  /\ failed' = [failed EXCEPT ![t] = TRUE]
  /\ result' = [result EXCEPT ![t] = Zero]
  /\ createOwner' = "free"
  /\ Goto(t, ret[t])
  /\ UNCHANGED <<robotVars, lineVars, cacheVars, argVars, waitVars,
                 historyVars, fd, THREAD_MODE, triggered, session, cacheOwner,
                 posts, ret, frame, want, signal>>

\* cread gets the whole reply.  A caller has its value now; the sensor
\* thread still has to add its sample to the cache.  The flags matter to the
\* sensor thread and to the getters of flags.
ReadReply(t) ==
  /\ At(t, "read") /\ wire.state = "reply"
  /\ \E s \in Reported :
       /\ t \in Callers /\ want[t] # {} => s = "clear"
       /\ signal' = [signal EXCEPT ![t] = s]
  /\ result' = [result EXCEPT ![t] = answer]
  /\ failed' = [failed EXCEPT ![t] = FALSE]
  /\ delivered' = IF t = Sensor THEN delivered ELSE Plus(delivered, answer)
  /\ wire' = Idle /\ answer' = Zero
  /\ createOwner' = "free"
  /\ Goto(t, ret[t])
  /\ UNCHANGED <<robotVars, cacheVars, argVars, waitVars, line, fd,
                 THREAD_MODE, triggered, session, cacheOwner, posts, ret,
                 frame, want, travelled, lost, lastFrame>>

\* Bug: cread gives up on a reply that is only late.
Impatient == TRUE

\* read() fails, or returns 0 over and over, only on a line that hung up: the
\* port is in blocking mode.
CreadGivesUp == line = "down"

\* cread returns -1, or gives up short: what was on the line is gone.  Only
\* getAllSensors takes a short read for an error, readSensor returns 0, which
\* is a clear flag.
ReadFails(t) ==
  /\ At(t, "read") /\ CreadGivesUp
  /\ \E b \in BOOLEAN :
       /\ t = Sensor => b
       /\ failed' = [failed EXCEPT ![t] = b]
  /\ result' = [result EXCEPT ![t] = Zero]
  /\ signal' = [signal EXCEPT ![t] = "clear"]
  /\ lost' = Plus(lost, answer)
  /\ wire' = Idle /\ answer' = Zero
  /\ createOwner' = "free"
  /\ Goto(t, ret[t])
  /\ UNCHANGED <<robotVars, cacheVars, argVars, waitVars, line, fd,
                 THREAD_MODE, triggered, session, cacheOwner, posts, ret,
                 frame, want, travelled, delivered, lastFrame>>

LineStep(t) ==
  \/ LockLine(t)
  \/ WriteFrame(t)
  \/ WriteQuery(t)
  \/ WriteFails(t)
  \/ ReadReply(t)
  \/ ReadFails(t)

----------------------------------------------------------------------------
(* The sensor thread: sensorThreadFunc (waits for sem_sensor) and          *)
(* sensorThreadFuncStandalone (sleeps CYCLE_TIME instead).                  *)

\* sensor_cache->distance = 0; sensor_cache->angle = 0, under no lock.
SensorInit ==
  /\ At(Sensor, "init")
  /\ cache' = Zero
  /\ Goto(Sensor, "await")
  /\ UNCHANGED <<robotVars, lineVars, libraryVars, returnVars, argVars,
                 waitVars, historyVars, cacheSignal, shut_down, loaded, ret,
                 frame, want>>

\* sem_wait, in the variant that has it, and the call of getAllSensors.
SensorPoll ==
  /\ At(Sensor, "await")
  /\ \/ triggered /\ posts > 0 /\ posts' = posts - 1
     \/ ~triggered /\ UNCHANGED posts
  /\ frame' = [frame EXCEPT ![Sensor] = "query"]
  /\ want' = [want EXCEPT ![Sensor] = Channels]
  /\ ret' = [ret EXCEPT ![Sensor] = "sampled"]
  /\ Goto(Sensor, "lockLine")
  /\ UNCHANGED <<robotVars, lineVars, cacheVars, returnVars, argVars,
                 waitVars, historyVars, fd, THREAD_MODE, triggered, session,
                 createOwner, cacheOwner>>

\* Bug: the cache is used without its mutex.
NoLock == TRUE

\* pthread_mutex_lock(&sensor_cache_mutex) would return now.
CacheFree == cacheOwner = "free"

\* getAllSensors has returned, NULL if failed; nothing looks at that here.
SensorLockCache ==
  /\ At(Sensor, "sampled") /\ CacheFree
  /\ cacheOwner' = Sensor
  /\ Goto(Sensor, "load")
  /\ UNCHANGED <<robotVars, lineVars, cacheVars, returnVars, argVars,
                 waitVars, historyVars, fd, THREAD_MODE, triggered, session,
                 createOwner, posts, ret, frame, want>>

\* The read half of "+= sensors[12]" and "+= sensors[13]".
SensorLoad ==
  /\ At(Sensor, "load") /\ ~failed[Sensor]
  /\ loaded' = cache
  /\ Goto(Sensor, "store")
  /\ UNCHANGED <<robotVars, lineVars, libraryVars, returnVars, argVars,
                 waitVars, historyVars, cache, cacheSignal, shut_down, ret,
                 frame, want>>

\* sensors is NULL: reading sensors[12] kills the process, the mutexes held
\* and the robot in whatever motion it was told last.
SensorFault ==
  /\ At(Sensor, "load") /\ failed[Sensor]
  /\ pc' = [t \in Threads |-> "dead"]
  /\ UNCHANGED <<sharedVars, returnVars, argVars, waitVars, ret, frame, want>>

\* The write half, done = shut_down, unlock and free.
SensorStore ==
  /\ At(Sensor, "store")
  /\ cache' = Plus(loaded, result[Sensor])
  /\ cacheSignal' = signal[Sensor]
  /\ result' = [result EXCEPT ![Sensor] = Zero]
  /\ signal' = [signal EXCEPT ![Sensor] = "clear"]
  /\ loaded' = Zero
  /\ cacheOwner' = "free"
  /\ Goto(Sensor, IF shut_down THEN "done" ELSE "await")
  /\ UNCHANGED <<robotVars, lineVars, argVars, waitVars, historyVars, fd,
                 THREAD_MODE, triggered, session, createOwner, posts,
                 shut_down, ret, frame, want, failed>>

SensorStep ==
  \/ SensorInit
  \/ SensorPoll
  \/ SensorLockCache
  \/ SensorLoad
  \/ SensorFault
  \/ SensorStore

----------------------------------------------------------------------------
(* The calls an operation is made of.                                      *)

\* Writes frame f and comes back at label l.
Send(t, f, l) ==
  /\ frame' = [frame EXCEPT ![t] = f]
  /\ want' = [want EXCEPT ![t] = {}]
  /\ ret' = [ret EXCEPT ![t] = l]
  /\ Goto(t, "lockLine")

\* readSensor: asks the robot, whatever the mode.
ReadSensor(t, C, l) ==
  /\ frame' = [frame EXCEPT ![t] = "query"]
  /\ want' = [want EXCEPT ![t] = C]
  /\ ret' = [ret EXCEPT ![t] = l]
  /\ Goto(t, "lockLine")

\* getDistance, getAngle, and with C = {} the getters of the flag fields:
\* they ask the robot when THREAD_MODE is 0 and the cache otherwise.
Fetch(t, C, l) ==
  /\ frame' = [frame EXCEPT ![t] = "query"]
  /\ want' = [want EXCEPT ![t] = C]
  /\ ret' = [ret EXCEPT ![t] = l]
  /\ Goto(t, IF THREAD_MODE = 0 THEN "lockLine" ELSE "lockCache")

LockCache(t) ==
  /\ At(t, "lockCache") /\ CacheFree
  /\ cacheOwner' = t
  /\ Goto(t, "take")
  /\ UNCHANGED <<robotVars, lineVars, cacheVars, returnVars, argVars,
                 waitVars, historyVars, fd, THREAD_MODE, triggered, session,
                 createOwner, posts, ret, frame, want>>

\* dist = sensor_cache->distance
TakeCache(t) ==
  /\ At(t, "take")
  /\ result' = [result EXCEPT ![t] = Only(cache, want[t])]
  /\ signal' = [signal EXCEPT ![t] = IF want[t] = {} THEN cacheSignal ELSE "clear"]
  /\ failed' = [failed EXCEPT ![t] = FALSE]
  /\ Goto(t, "clear")
  /\ UNCHANGED <<sharedVars, argVars, waitVars, ret, frame, want>>

\* sensor_cache->distance = 0, unlock and return
ClearCache(t) ==
  /\ At(t, "clear")
  /\ cache' = Only(cache, Channels \ want[t])
  /\ delivered' = Plus(delivered, result[t])
  /\ cacheOwner' = "free"
  /\ Goto(t, ret[t])
  /\ UNCHANGED <<robotVars, lineVars, returnVars, argVars, waitVars, fd,
                 THREAD_MODE, triggered, session, createOwner, posts,
                 cacheSignal, shut_down, loaded, ret, frame, want, travelled,
                 lost, lastFrame>>

CacheStep(t) ==
  \/ LockCache(t)
  \/ TakeCache(t)
  \/ ClearCache(t)

----------------------------------------------------------------------------
(* waitDistance, waitAngle, driveDistance and turn.                        *)

\* driveDistance, turn: drive returned; on -1 the chain of || ends.
Driven(t) ==
  /\ At(t, "driven")
  /\ \/ failed[t] /\ Goto(t, "returned") /\ UNCHANGED <<ret, frame, want>>
     \/ ~failed[t] /\ Fetch(t, {chan[t]}, "reset")
  /\ UNCHANGED <<sharedVars, returnVars, argVars, waitVars>>

\* The first getDistance or getAngle, whose value is thrown away.
Reset(t) ==
  /\ At(t, "reset")
  /\ count' = [count EXCEPT ![t] = 0]
  /\ seen' = [seen EXCEPT ![t] = 0]
  /\ Goto(t, IF failed[t] THEN "returned" ELSE "poll")
  /\ UNCHANGED <<sharedVars, returnVars, argVars, ret, frame, want, stopNow,
                 overCurrentCount>>

\* usleep(20000) and the getter.
Poll(t) ==
  /\ At(t, "poll")
  /\ Fetch(t, {chan[t]}, "polled")
  /\ UNCHANGED <<sharedVars, returnVars, argVars, waitVars>>

\* Bug: waitDistance prints its progress the way waitAngle does.
PrintAgain(t) == Fetch(t, {chan[t]}, "printed")

\* The progress report: waitAngle prints what a SECOND getAngle returns.
Progress(t) ==
  \/ chan[t] = "distance" /\ Goto(t, "judge") /\ UNCHANGED <<ret, frame, want>>
  \/ chan[t] = "angle" /\ Fetch(t, {"angle"}, "printed")

\* count += current, and the progress report.
Polled(t) ==
  /\ At(t, "polled")
  /\ \/ /\ failed[t]
        /\ Goto(t, "returned")
        /\ UNCHANGED <<waitVars, ret, frame, want>>
     \/ /\ ~failed[t]
        /\ count' = [count EXCEPT ![t] = @ + result[t][chan[t]]]
        /\ seen' = [seen EXCEPT ![t] = @ + result[t][chan[t]]]
        /\ UNCHANGED <<stopNow, overCurrentCount>>
        /\ Progress(t)
  /\ UNCHANGED <<sharedVars, returnVars, argVars>>

\* The value printed by waitAngle went nowhere else.
Printed(t) ==
  /\ At(t, "printed")
  /\ seen' = [seen EXCEPT ![t] = @ + result[t][chan[t]]]
  /\ Goto(t, "judge")
  /\ UNCHANGED <<sharedVars, returnVars, argVars, ret, frame, want, count,
                 stopNow, overCurrentCount>>

\* interrupt && stopWait(): without interrupt nothing is asked.
Judge(t) ==
  /\ At(t, "judge")
  /\ stopNow' = [stopNow EXCEPT ![t] = FALSE]
  /\ \/ interrupt[t] /\ Fetch(t, {}, "overSeen")
     \/ ~interrupt[t] /\ Goto(t, "decide") /\ UNCHANGED <<ret, frame, want>>
  /\ UNCHANGED <<sharedVars, returnVars, argVars, count, seen,
                 overCurrentCount>>

\* Bug: overCurrentCount is an automatic variable.
CountFromZero(t) == IF signal[t] = "overcurrent" /\ ~failed[t] THEN 1 ELSE 0

\* The polls in a row that saw overcurrent; INT_MIN is not above 0.
OverCurrents(t) ==
  IF signal[t] = "overcurrent" /\ ~failed[t] THEN overCurrentCount + 1 ELSE 0

\* Bug: the counter goes on after it has stopped a wait.
KeepCounting(n) == n

\* The counter starts again once it has stopped a wait.
Recount(n) == IF n > OverLimit THEN 0 ELSE n

\* stopWait: getOvercurrent has returned; the static counter outlives the
\* wait.  Then bumpers, wheel drops and cliffs.
OverSeen(t) ==
  /\ At(t, "overSeen")
  /\ stopNow' = [stopNow EXCEPT ![t] = OverCurrents(t) > OverLimit]
  /\ overCurrentCount' = Recount(OverCurrents(t))
  /\ Fetch(t, {}, "bumpSeen")
  /\ UNCHANGED <<sharedVars, returnVars, argVars, count, seen>>

\* shouldStop += getBumpsAndWheelDrops() + getCliffs(): an obstacle, or the
\* INT_MIN of a query that failed (two of them overflow, to any value).
BumpSeen(t) ==
  /\ At(t, "bumpSeen")
  /\ \E b \in BOOLEAN :
       /\ ~failed[t] => b = (signal[t] = "obstacle")
       /\ stopNow' = [stopNow EXCEPT ![t] = @ \/ b]
  /\ Goto(t, "decide")
  /\ UNCHANGED <<sharedVars, returnVars, argVars, ret, frame, want, count,
                 seen, overCurrentCount>>

Reached(t) ==
  \/ goal[t] >= 0 /\ count[t] >= goal[t]
  \/ goal[t] < 0 /\ count[t] <= goal[t]

\* Bug: driveDistance forgets its drive(0, 0).
FinishMoving(t) == Goto(t, "returned") /\ UNCHANGED <<ret, frame, want>>

\* After the wait driveDistance and turn call drive(0, 0).
Finish(t) ==
  \/ op[t] = "driveFor" /\ Send(t, "halt", "returned")
  \/ op[t] = "wait" /\ Goto(t, "returned") /\ UNCHANGED <<ret, frame, want>>

\* break, or once more round.
Decide(t) ==
  /\ At(t, "decide")
  /\ \/ /\ stopNow[t] \/ Reached(t)
        /\ Finish(t)
        /\ failed' = [failed EXCEPT ![t] = FALSE]
     \/ /\ ~stopNow[t] /\ ~Reached(t)
        /\ Goto(t, "poll")
        /\ UNCHANGED <<ret, frame, want, failed>>
  /\ UNCHANGED <<sharedVars, argVars, waitVars, result, signal>>

WaitStep(t) ==
  \/ Driven(t)
  \/ Reset(t)
  \/ Poll(t)
  \/ Polled(t)
  \/ Printed(t)
  \/ Judge(t)
  \/ OverSeen(t)
  \/ BumpSeen(t)
  \/ Decide(t)

----------------------------------------------------------------------------
(* The operations a program calls.                                         *)

\* A caller that is not in a call takes up operation o with its arguments.
Begin(t, o, c, g, i) ==
  /\ At(t, "idle") /\ o \in OpsOf[t]
  /\ op' = [op EXCEPT ![t] = o]
  /\ chan' = [chan EXCEPT ![t] = c]
  /\ goal' = [goal EXCEPT ![t] = g]
  /\ interrupt' = [interrupt EXCEPT ![t] = i]

InSession == session \in {"direct", "threaded"}

\* getDistance and getAngle, or one of the getters of flags.
CallGet(t) ==
  /\ InSession
  /\ \E c \in Channels :
       /\ Begin(t, "get", c, 0, FALSE)
       /\ \E C \in {{c}, {}} : Fetch(t, C, "returned")
  /\ UNCHANGED <<sharedVars, returnVars, waitVars>>

\* readSensor(SENSOR_DISTANCE) or (SENSOR_ANGLE) straight from the program.
CallReadSensor(t) ==
  /\ InSession
  /\ \E c \in Channels :
       /\ Begin(t, "readSensor", c, 0, FALSE)
       /\ ReadSensor(t, {c}, "returned")
  /\ UNCHANGED <<sharedVars, returnVars, waitVars>>

\* drive(vel, rad), directDrive: frame "halt" when the velocities are 0.
CallDrive(t) ==
  /\ InSession
  /\ Begin(t, "drive", "distance", 0, FALSE)
  /\ \E f \in {"drive", "halt"} : Send(t, f, "returned")
  /\ UNCHANGED <<sharedVars, returnVars, waitVars>>

\* waitDistance(goal, interrupt) or waitAngle.
CallWait(t) ==
  /\ InSession
  /\ \E c \in Channels, g \in Goals, i \in BOOLEAN :
       /\ Begin(t, "wait", c, g, i)
       /\ Fetch(t, {c}, "reset")
  /\ UNCHANGED <<sharedVars, returnVars, waitVars>>

\* driveDistance(vel, rad, goal, interrupt) or turn.
CallDriveFor(t) ==
  /\ InSession
  /\ \E c \in Channels, g \in Goals, i \in BOOLEAN :
       /\ Begin(t, "driveFor", c, g, i)
       /\ Send(t, "drive", "driven")
  /\ UNCHANGED <<sharedVars, returnVars, waitVars>>

\* startOI, alone or as the first call of startOI_MT and startOI_MTS: opens
\* the port if fd is 0, and sends START.
startOI(t) ==
  /\ session = "closed"
  /\ \E o \in StartOps :
       /\ Begin(t, o, "distance", 0, FALSE)
       /\ o = "startOI" => MixedModes \/ THREAD_MODE = 0
  /\ createOwner' = "free"
  /\ \/ /\ fd = 0 /\ line = "down"
        /\ fd' = -1
        /\ failed' = [failed EXCEPT ![t] = TRUE]
        /\ Goto(t, "returned")
        /\ UNCHANGED <<session, ret, frame, want>>
     \/ /\ fd # 0 \/ line = "up"
        /\ fd' = IF fd = 0 THEN 1 ELSE fd
        /\ session' = "starting"
        /\ Send(t, "passive", "passiveSent")
        /\ UNCHANGED failed
  /\ UNCHANGED <<robotVars, lineVars, cacheVars, waitVars, historyVars,
                 THREAD_MODE, triggered, cacheOwner, posts, result, signal>>

\* enterSafeMode and setLEDState; what they return is not looked at.
StartFrames(t) ==
  /\ \/ At(t, "passiveSent") /\ Send(t, "safe", "safeSent")
     \/ At(t, "safeSent") /\ Send(t, "led", "ledSent")
  /\ UNCHANGED <<sharedVars, returnVars, argVars, waitVars>>

\* startOI returns 0.
StartedDirect(t) ==
  /\ At(t, "ledSent") /\ op[t] = "startOI"
  /\ session' = "direct"
  /\ failed' = [failed EXCEPT ![t] = FALSE]
  /\ Goto(t, "returned")
  /\ UNCHANGED <<robotVars, lineVars, cacheVars, argVars, waitVars,
                 historyVars, fd, THREAD_MODE, triggered, createOwner,
                 cacheOwner, posts, ret, frame, want, result, signal>>

\* startOI_MT and startOI_MTS: a fresh cache, whose flags nobody has written
\* yet, and the sensor thread.  What the last cache still held is forgotten.
startOI_MT(t) ==
  /\ At(t, "ledSent") /\ op[t] \in {"startOI_MT", "startOI_MTS"}
  /\ THREAD_MODE' = 1
  /\ triggered' = (op[t] = "startOI_MTS")
  /\ cacheOwner' = "free"
  /\ cache' = Zero /\ cacheSignal' \in Reported /\ shut_down' = FALSE
  /\ lost' = Plus(lost, cache)
  /\ pc' = [pc EXCEPT ![t] = "settle", ![Sensor] = "init"]
  /\ UNCHANGED <<robotVars, lineVars, returnVars, argVars, waitVars, fd,
                 session, createOwner, posts, loaded, ret, frame, want,
                 travelled, delivered, lastFrame>>

\* usleep(100000) "give sensor thread time": assumed long enough for the
\* thread's first two statements.  There is no return statement: the value
\* of the call is whatever it happens to be.
Settle(t) ==
  /\ At(t, "settle") /\ ~At(Sensor, "init")
  /\ session' = "threaded"
  /\ \E b \in BOOLEAN : failed' = [failed EXCEPT ![t] = b]
  /\ Goto(t, "returned")
  /\ UNCHANGED <<robotVars, lineVars, cacheVars, argVars, waitVars,
                 historyVars, fd, THREAD_MODE, triggered, createOwner,
                 cacheOwner, posts, ret, frame, want, result, signal>>

\* A program stops the interface when none of its threads is in a call.
CallStop(t) ==
  /\ InSession /\ \A u \in Callers : At(u, "idle")
  /\ \/ /\ session = "direct"
        /\ Begin(t, "stopOI", "distance", 0, FALSE)
        /\ Send(t, "passive", "goodbye")
     \/ /\ session = "threaded"
        /\ Begin(t, "stopOI_MT", "distance", 0, FALSE)
        /\ Goto(t, "shutDown") /\ UNCHANGED <<ret, frame, want>>
  /\ session' = "stopping"
  /\ UNCHANGED <<robotVars, lineVars, cacheVars, returnVars, waitVars,
                 historyVars, fd, THREAD_MODE, triggered, createOwner,
                 cacheOwner, posts>>

\* Bug: stopOI_MT unlocks only after the join.
HeldOverJoin(t) == t

\* sensor_cache_mutex after shut_down = 1.
UnlockedForJoin(t) == "free"

\* stopOI_MT: shut_down = 1 under the lock.
ShutDown(t) ==
  /\ At(t, "shutDown") /\ CacheFree
  /\ shut_down' = TRUE
  /\ cacheOwner' = UnlockedForJoin(t)
  /\ Goto(t, "join")
  /\ UNCHANGED <<robotVars, lineVars, returnVars, argVars, waitVars,
                 historyVars, fd, THREAD_MODE, triggered, session,
                 createOwner, posts, cache, cacheSignal, loaded, ret, frame,
                 want>>

\* Bug: stopOI_MT does not wait for the sensor thread.
NoJoin == TRUE

\* pthread_join(sensor_thread) would return now.
Joined == At(Sensor, "done")

\* pthread_join, pthread_mutex_destroy, and the first call of stopOI.
Join(t) ==
  /\ At(t, "join") /\ Joined
  /\ cacheOwner' = "gone"
  /\ Send(t, "passive", "goodbye")
  /\ UNCHANGED <<robotVars, lineVars, cacheVars, returnVars, argVars,
                 waitVars, historyVars, fd, THREAD_MODE, triggered, session,
                 createOwner, posts>>

\* stopOI: enterPassiveMode has returned whatever it has; directDrive(0, 0).
Goodbye(t) ==
  /\ At(t, "goodbye")
  /\ Send(t, "halt", "stopSent")
  /\ UNCHANGED <<sharedVars, returnVars, argVars, waitVars>>

\* The port is closed, or left open when directDrive returned -1.
stopOI(t) ==
  /\ At(t, "stopSent")
  /\ session' = "closed"
  /\ \/ failed[t] /\ UNCHANGED <<fd, createOwner>>
     \/ ~failed[t] /\ fd' = 0 /\ createOwner' = "gone"
  /\ Goto(t, "returned")
  /\ UNCHANGED <<robotVars, lineVars, cacheVars, returnVars, argVars,
                 waitVars, historyVars, THREAD_MODE, triggered, cacheOwner,
                 posts, ret, frame, want>>

\* The operation is over: its arguments and locals are out of scope.
Return(t) ==
  /\ At(t, "returned")
  /\ Goto(t, "idle")
  /\ ret' = [ret EXCEPT ![t] = "idle"]
  /\ frame' = [frame EXCEPT ![t] = "query"]
  /\ want' = [want EXCEPT ![t] = {}]
  /\ result' = [result EXCEPT ![t] = Zero]
  /\ signal' = [signal EXCEPT ![t] = "clear"]
  /\ failed' = [failed EXCEPT ![t] = FALSE]
  /\ op' = [op EXCEPT ![t] = "get"]
  /\ chan' = [chan EXCEPT ![t] = "distance"]
  /\ goal' = [goal EXCEPT ![t] = 0]
  /\ interrupt' = [interrupt EXCEPT ![t] = FALSE]
  /\ count' = [count EXCEPT ![t] = 0]
  /\ seen' = [seen EXCEPT ![t] = 0]
  /\ stopNow' = [stopNow EXCEPT ![t] = FALSE]
  /\ lastFrame' = [lastFrame EXCEPT ![t] = "halt"]
  /\ UNCHANGED <<robotVars, lineVars, libraryVars, cacheVars,
                 overCurrentCount, travelled, delivered, lost>>

CallStep(t) ==
  \/ CallGet(t)
  \/ CallReadSensor(t)
  \/ CallDrive(t)
  \/ CallWait(t)
  \/ CallDriveFor(t)
  \/ startOI(t)
  \/ CallStop(t)

SessionStep(t) ==
  \/ StartFrames(t)
  \/ StartedDirect(t)
  \/ startOI_MT(t)
  \/ Settle(t)
  \/ ShutDown(t)
  \/ Join(t)
  \/ Goodbye(t)
  \/ stopOI(t)
  \/ Return(t)

Robot == Move \/ SafetyTrip \/ Answer

Next ==
  \/ Robot
  \/ Unplug
  \/ Post
  \/ SensorStep
  \/ \E t \in Threads : LineStep(t)
  \/ \E t \in Callers : CacheStep(t) \/ WaitStep(t) \/ SessionStep(t) \/ CallStep(t)

\* The robot answers, and no thread that can run is left standing.  The mutexes
\* are free most of the time (their holders do one transfer and sleep), so a
\* thread that waits for one gets it: strong fairness, for the lock actions
\* only.  Nothing makes the program go on posting the semaphore.
Fairness ==
  /\ WF_vars(Answer)
  /\ WF_vars(SensorStep) /\ SF_vars(SensorLockCache)
  /\ \A t \in Threads : WF_vars(LineStep(t)) /\ SF_vars(LockLine(t))
  /\ \A t \in Callers :
       /\ WF_vars(CacheStep(t)) /\ SF_vars(LockCache(t))
       /\ WF_vars(WaitStep(t))
       /\ WF_vars(SessionStep(t)) /\ SF_vars(ShutDown(t))

Spec == Init /\ [][Next]_vars
FairSpec == Spec /\ Fairness

----------------------------------------------------------------------------
(* Properties.                                                             *)

RobotTypes ==
  /\ mode \in {"passive", "safe"} /\ moving \in BOOLEAN
  /\ pending \in [Channels -> Int]

LineTypes ==
  /\ line \in {"up", "down"}
  /\ wire \in [state : {"idle", "request", "reply"}, by : Threads,
               chans : SUBSET Channels]
  /\ answer \in [Channels -> Int]

LibraryTypes ==
  /\ fd \in {-1, 0, 1} /\ THREAD_MODE \in {0, 1} /\ triggered \in BOOLEAN
  /\ session \in {"closed", "starting", "direct", "threaded", "stopping"}
  /\ createOwner \in Threads \union {"free", "gone"}
  /\ cacheOwner \in Threads \union {"free", "gone"}
  /\ posts \in 0..MaxPosts

CacheTypes ==
  /\ cache \in [Channels -> Int] /\ cacheSignal \in Signals
  /\ shut_down \in BOOLEAN
  /\ loaded \in [Channels -> Int]

ControlTypes ==
  /\ pc \in [Threads -> Labels] /\ ret \in [Threads -> Labels]
  /\ frame \in [Threads -> Frames]
  /\ want \in [Threads -> SUBSET Channels]

ReturnTypes ==
  /\ result \in [Threads -> [Channels -> Int]]
  /\ signal \in [Threads -> Signals]
  /\ failed \in [Threads -> BOOLEAN]

ArgTypes ==
  /\ op \in [Callers -> Ops] /\ chan \in [Callers -> Channels]
  /\ goal \in [Callers -> Int] /\ interrupt \in [Callers -> BOOLEAN]

WaitTypes ==
  /\ count \in [Callers -> Int] /\ stopNow \in [Callers -> BOOLEAN]
  /\ seen \in [Callers -> Int]
  /\ overCurrentCount \in 0..OverLimit

HistoryTypes ==
  /\ travelled \in [Channels -> Int] /\ delivered \in [Channels -> Int]
  /\ lost \in [Channels -> Int]
  /\ lastFrame \in [Callers -> {"drive", "halt"}]

\* Every variable has its type: a mutex is held by a thread or nobody, and
\* stopWait's counter stays within its limit.
TypeOK ==
  /\ RobotTypes
  /\ LineTypes
  /\ LibraryTypes
  /\ CacheTypes
  /\ ControlTypes
  /\ ReturnTypes
  /\ ArgTypes
  /\ WaitTypes
  /\ HistoryTypes

\* Every increment the robot made is in exactly one place: still in the
\* robot, in a reply on the line, in the sensor thread's sample, in the cache,
\* or returned to a caller, or counted as lost.  getDistance and getAngle read
\* and reset in two statements, sensorThreadFunc adds with a read and a write,
\* and the robot resets what it reports: each would drop or repeat travel if
\* another thread came between (createoi.c:218-297, 1130-1170).
Conservation ==
  \A c \in Channels :
    travelled[c] = pending[c] + answer[c] + result[Sensor][c] + cache[c]
                   + delivered[c] + lost[c]

\* While the cable is in and the interface is open, no step loses travel:
\* neither a query of the program racing with the sensor thread's nor the
\* shutdown of the sensor thread drops an increment.
NothingLostInSession ==
  [][line = "up" /\ session \in {"direct", "threaded", "stopping"}
       => lost' = lost]_vars

\* A thread that reads a reply reads the answer to its own query: create_mutex
\* spans the write and the read of readRawSensor (createoi.c:950-977).
ReplyToAsker ==
  \A t \in Threads :
    At(t, "read") => wire.state # "idle" /\ wire.by = t /\ wire.chans = want[t]

\* When waitDistance ends, its count is all the travel the getter returned to
\* it since its reset ("Distance travelled", createoi.c:1568).
WaitReturnsAll(c) ==
  \A t \in Callers :
    At(t, "returned") /\ op[t] \in {"wait", "driveFor"} /\ chan[t] = c /\ ~failed[t]
      => count[t] = seen[t]
DistanceWaitExact == WaitReturnsAll("distance")

\* The same of waitAngle ("Angle turned", createoi.c:1611).
AngleWaitExact == WaitReturnsAll("angle")

\* driveDistance and turn that report success have sent drive(0, 0) last: "at
\* which point it will stop" (createoi.c:619-621).
DriveForEndsHalted ==
  \A t \in Callers :
    At(t, "returned") /\ op[t] = "driveFor" /\ ~failed[t] => lastFrame[t] = "halt"

\* No thread is in a call that uses a mutex which stopOI or stopOI_MT has
\* destroyed, the sensor thread included (createoi.c:1646-1688).
NoUseAfterDestroy ==
  \A t \in Threads :
    /\ pc[t] \in {"lockLine", "write", "read"} => createOwner # "gone"
    /\ pc[t] \in {"lockCache", "take", "clear", "sampled", "load", "store"}
         => cacheOwner # "gone"

\* getAllSensors returns "a NULL pointer on error" (createoi.c:1294): the
\* sensor thread must not use such a sample.
NullSampleNotUsed == ~(At(Sensor, "load") /\ failed[Sensor])

\* A start that says it succeeded ("0 if successful or -1 otherwise",
\* createoi.c:113) has opened the port.
StartedMeansOpen ==
  \A t \in Callers :
    At(t, "returned") /\ op[t] = "startOI" /\ ~failed[t] => fd > 0

\* The join of stopOI_MT waits for a sensor thread that waits for a post.
Starved(t) == At(t, "join") /\ At(Sensor, "await") /\ triggered /\ posts = 0

\* Every call but the waits comes back, or the process dies: no interleaving
\* of the two mutexes and the join leaves a caller hanging, unless it joins a
\* sensor thread that nobody posts any more (main.c:53, createoi.c:1677).
\* After startOI_MT stopOI_MT needs no post.
CallsReturn ==
  \A t \in Callers :
    []<>~Starved(t) =>
      (~At(t, "idle") /\ op[t] \notin {"wait", "driveFor"}
         ~> pc[t] \in {"idle", "dead"})

\* An interruptible wait does not outlast a hazard that stays in the cache: an
\* obstacle, or overcurrent, which only the static counter of stopWait turns
\* into a stop (createoi.c:1532-1552).
InWait(t) == op[t] \in {"wait", "driveFor"} /\ ~At(t, "idle")
HazardEndsWait ==
  \A t \in Callers, s \in {"overcurrent", "obstacle"} :
    [](InWait(t) /\ interrupt[t] /\ THREAD_MODE = 1
         => <>(cacheSignal # s \/ ~InWait(t) \/ At(t, "dead")))

=============================================================================
