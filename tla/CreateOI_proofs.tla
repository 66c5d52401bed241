--------------------------- MODULE CreateOI_proofs ---------------------------
(***************************************************************************)
(* Proofs about CreateOI for every set of program threads, every increment *)
(* of the wheels and every bound: the type invariant; and that TravelInv   *)
(* is inductive, so no increment of the wheels is ever dropped or counted  *)
(* twice, and every reply is read by the thread that asked.                *)
(***************************************************************************)
EXTENDS CreateOI_inv, TLAPS

----------------------------------------------------------------------------
(* Types.                                                                  *)


\* A step that leaves a group of variables alone keeps its types.
LEMMA SameTypes ==
  /\ RobotTypes /\ UNCHANGED robotVars => RobotTypes'
  /\ LineTypes /\ UNCHANGED lineVars => LineTypes'
  /\ LibraryTypes /\ UNCHANGED libraryVars => LibraryTypes'
  /\ CacheTypes /\ UNCHANGED cacheVars => CacheTypes'
  /\ ControlTypes /\ UNCHANGED controlVars => ControlTypes'
  /\ ReturnTypes /\ UNCHANGED returnVars => ReturnTypes'
  /\ ArgTypes /\ UNCHANGED argVars => ArgTypes'
  /\ WaitTypes /\ UNCHANGED waitVars => WaitTypes'
  /\ HistoryTypes /\ UNCHANGED historyVars => HistoryTypes'
<1>1. RobotTypes /\ UNCHANGED robotVars => RobotTypes'
  BY DEF RobotTypes, robotVars
<1>2. LineTypes /\ UNCHANGED lineVars => LineTypes'
  BY DEF LineTypes, lineVars
<1>3. LibraryTypes /\ UNCHANGED libraryVars => LibraryTypes'
  BY DEF LibraryTypes, libraryVars
<1>4. CacheTypes /\ UNCHANGED cacheVars => CacheTypes'
  BY DEF CacheTypes, cacheVars
<1>5. ControlTypes /\ UNCHANGED controlVars => ControlTypes'
  BY DEF ControlTypes, controlVars
<1>6. ReturnTypes /\ UNCHANGED returnVars => ReturnTypes'
  BY DEF ReturnTypes, returnVars
<1>7. ArgTypes /\ UNCHANGED argVars => ArgTypes'
  BY DEF ArgTypes, argVars
<1>8. WaitTypes /\ UNCHANGED waitVars => WaitTypes'
  BY DEF WaitTypes, waitVars
<1>9. HistoryTypes /\ UNCHANGED historyVars => HistoryTypes'
  BY DEF HistoryTypes, historyVars
<1> QED
  BY <1>1, <1>2, <1>3, <1>4, <1>5, <1>6, <1>7, <1>8, <1>9

\* The helpers that move a thread on keep the types of the control group.
LEMMA GotoTypes ==
  ASSUME ControlTypes, NEW t \in Threads, NEW l \in Labels, Goto(t, l),
         UNCHANGED <<ret, frame, want>>
  PROVE  ControlTypes'
  BY DEF ControlTypes, Goto

\* Queueing a frame (the head of every command) leaves the labels typed.
LEMMA SendTypes ==
  ASSUME ControlTypes, NEW t \in Threads, NEW f \in Frames, NEW l \in Labels,
         Send(t, f, l)
  PROVE  ControlTypes'
  BY DEF ControlTypes, Send, Goto, Labels

\* So does queueing a query, whether or not through the cache.
LEMMA FetchTypes ==
  ASSUME ControlTypes, NEW t \in Threads, NEW C \in SUBSET Channels,
         NEW l \in Labels, Fetch(t, C, l) \/ ReadSensor(t, C, l)
  PROVE  ControlTypes'
<1> USE DEF ControlTypes, Goto
<1>1. CASE Fetch(t, C, l)
  BY <1>1 DEF Fetch, Labels, Frames
<1>2. CASE ReadSensor(t, C, l)
  BY <1>2 DEF ReadSensor, Labels, Frames
<1> QED
  BY <1>1, <1>2

\* Sums and restrictions of counters are counters.
LEMMA CounterTypes ==
  ASSUME NEW f \in [Channels -> Int], NEW g \in [Channels -> Int], NEW C
  PROVE  /\ Plus(f, g) \in [Channels -> Int]
         /\ Only(f, C) \in [Channels -> Int]
         /\ Zero \in [Channels -> Int]
  BY DEF Plus, Only, Zero

\* The initial values have their types.
LEMMA TypeInit == Init => TypeOK
<1> SUFFICES ASSUME Init
             PROVE  TypeOK
  OBVIOUS
<1> USE BoundsAssumption DEF Init
<1>1. RobotTypes
  <2>1. pending \in [Channels -> Int]
    BY DEF Zero
  <2>2. mode \in {"passive", "safe"}
    OBVIOUS
  <2>3. moving \in BOOLEAN
    BY Zenon
  <2> QED
    BY <2>1, <2>2, <2>3, Zenon DEF RobotTypes
<1>2. LineTypes
  BY DEF LineTypes, Zero, Idle, Threads
<1>3. LibraryTypes
  <2>1. triggered \in BOOLEAN
    BY Zenon
  <2>2. /\ fd \in {-1, 0, 1} /\ THREAD_MODE \in {0, 1}
        /\ session \in {"closed", "starting", "direct", "threaded", "stopping"}
        /\ createOwner \in Threads \union {"free", "gone"}
        /\ cacheOwner \in Threads \union {"free", "gone"}
        /\ posts \in 0..MaxPosts
    OBVIOUS
  <2> QED
    BY <2>1, <2>2, Zenon DEF LibraryTypes
<1>4. CacheTypes
  <2>1. shut_down \in BOOLEAN
    BY Zenon
  <2>2. cache \in [Channels -> Int] /\ cacheSignal \in Signals
        /\ loaded \in [Channels -> Int]
    BY DEF Zero, Signals
  <2> QED
    BY <2>1, <2>2, Zenon DEF CacheTypes
<1>5. ControlTypes
  BY DEF ControlTypes, Labels, Frames
<1>6. ReturnTypes
  BY DEF ReturnTypes, Zero, Signals
<1>7. ArgTypes
  BY DEF ArgTypes, Ops, Channels
<1>8. WaitTypes
  BY DEF WaitTypes
<1>9. HistoryTypes
  BY DEF HistoryTypes, Zero
<1> QED
  BY <1>1, <1>2, <1>3, <1>4, <1>5, <1>6, <1>7, <1>8, <1>9 DEF TypeOK

\* The robot, the cable and the posts keep the types.
LEMMA TypeRobot ==
  ASSUME TypeOK, Robot \/ Unplug \/ Post
  PROVE  TypeOK'
<1> USE SameTypes DEF TypeOK
<1>1. CASE Move
  <2>1. RobotTypes' /\ HistoryTypes'
    BY <1>1, IncrementsAssumption DEF Move, RobotTypes, HistoryTypes
  <2> QED
    BY <1>1, <2>1 DEF Move
<1>2. CASE SafetyTrip
  <2>1. RobotTypes'
    BY <1>2 DEF SafetyTrip, RobotTypes
  <2> QED
    BY <1>2, <2>1 DEF SafetyTrip
<1>3. CASE Answer
  <2>1. RobotTypes'
    BY <1>3, CounterTypes DEF Answer, RobotTypes
  <2>2. LineTypes'
    BY <1>3, CounterTypes DEF Answer, RobotTypes, LineTypes
  <2> QED
    BY <1>3, <2>1, <2>2 DEF Answer
<1>4. CASE Unplug
  <2>1. LineTypes'
    BY <1>4 DEF Unplug, LineTypes
  <2> QED
    BY <1>4, <2>1 DEF Unplug
<1>5. CASE Post
  <2>1. LibraryTypes'
    BY <1>5, BoundsAssumption DEF Post, LibraryTypes
  <2> QED
    BY <1>5, <2>1 DEF Post
<1> QED
  BY <1>1, <1>2, <1>3, <1>4, <1>5 DEF Robot

\* What is common to the steps of a thread.
LEMMA CallersAreThreads == Callers \subseteq Threads /\ Sensor \in Threads
  BY DEF Threads

\* cwrite and cread keep the types.
LEMMA TypeLine ==
  ASSUME TypeOK, NEW t \in Threads, LineStep(t)
  PROVE  TypeOK'
<1> USE SameTypes, GotoTypes, CounterTypes DEF TypeOK
<1>0. ret[t] \in Labels
  BY DEF ControlTypes
<1>1. CASE LockLine(t)
  <2>1. LibraryTypes'
    BY <1>1 DEF LockLine, LibraryTypes
  <2>2. ControlTypes'
    BY <1>1 DEF LockLine, Labels
  <2> QED
    BY <1>1, <2>1, <2>2 DEF LockLine
<1>2. CASE WriteFrame(t)
  <2>1. RobotTypes'
    <3>1. CASE frame[t] = "drive"
      BY <1>2, <3>1 DEF WriteFrame, Obey, RobotTypes
    <3>2. CASE frame[t] # "drive"
      BY <1>2, <3>2 DEF WriteFrame, Obey, RobotTypes
    <3> QED
      BY <3>1, <3>2
  <2>2. LibraryTypes'
    BY <1>2 DEF WriteFrame, LibraryTypes
  <2>3. ControlTypes'
    BY <1>0, <1>2 DEF WriteFrame
  <2>4. ReturnTypes'
    BY <1>2 DEF WriteFrame, ReturnTypes
  <2>5. HistoryTypes'
    BY <1>2 DEF WriteFrame, HistoryTypes
  <2> QED
    BY <1>2, <2>1, <2>2, <2>3, <2>4, <2>5 DEF WriteFrame
<1>3. CASE WriteQuery(t)
  <2>1. LineTypes'
    BY <1>3 DEF WriteQuery, LineTypes, ControlTypes
  <2>2. LibraryTypes'
    BY <1>3 DEF WriteQuery, QueryHolder, LibraryTypes
  <2>3. ControlTypes'
    BY <1>3 DEF WriteQuery, Labels
  <2> QED
    BY <1>3, <2>1, <2>2, <2>3 DEF WriteQuery
<1>4. CASE WriteFails(t)
  <2>1. LibraryTypes'
    BY <1>4 DEF WriteFails, LibraryTypes
  <2>2. ControlTypes'
    BY <1>0, <1>4 DEF WriteFails
  <2>3. ReturnTypes'
    BY <1>4 DEF WriteFails, ReturnTypes, Zero
  <2> QED
    BY <1>4, <2>1, <2>2, <2>3 DEF WriteFails
<1>5. CASE ReadReply(t)
  <2>1. LineTypes'
    BY <1>5, CallersAreThreads DEF ReadReply, LineTypes, Idle, Zero
  <2>2. LibraryTypes'
    BY <1>5 DEF ReadReply, LibraryTypes
  <2>3. ControlTypes'
    BY <1>0, <1>5 DEF ReadReply
  <2>4. ReturnTypes'
    BY <1>5, ReportedAssumption DEF ReadReply, ReturnTypes, LineTypes
  <2>5. HistoryTypes'
    <3>1. Plus(delivered, answer) \in [Channels -> Int]
      BY DEF HistoryTypes, LineTypes
    <3> QED
      BY <1>5, <3>1 DEF ReadReply, HistoryTypes
  <2> QED
    BY <1>5, <2>1, <2>2, <2>3, <2>4, <2>5 DEF ReadReply
<1>6. CASE ReadFails(t)
  <2>1. LineTypes'
    BY <1>6, CallersAreThreads DEF ReadFails, LineTypes, Idle, Zero
  <2>2. LibraryTypes'
    BY <1>6 DEF ReadFails, LibraryTypes
  <2>3. ControlTypes'
    BY <1>0, <1>6 DEF ReadFails
  <2>4. ReturnTypes'
    BY <1>6 DEF ReadFails, ReturnTypes, Zero, Signals
  <2>5. HistoryTypes'
    <3>1. Plus(lost, answer) \in [Channels -> Int]
      BY DEF HistoryTypes, LineTypes
    <3> QED
      BY <1>6, <3>1 DEF ReadFails, HistoryTypes
  <2> QED
    BY <1>6, <2>1, <2>2, <2>3, <2>4, <2>5 DEF ReadFails
<1> QED
  BY <1>1, <1>2, <1>3, <1>4, <1>5, <1>6 DEF LineStep

\* The sensor thread keeps the types.
LEMMA TypeSensor ==
  ASSUME TypeOK, SensorStep
  PROVE  TypeOK'
<1> USE SameTypes, CallersAreThreads DEF TypeOK
<1>1. CASE SensorInit
  <2>1. CacheTypes'
    BY <1>1 DEF SensorInit, CacheTypes, Zero
  <2>2. ControlTypes'
    BY <1>1, GotoTypes DEF SensorInit, Labels
  <2> QED
    BY <1>1, <2>1, <2>2 DEF SensorInit
<1>2. CASE SensorPoll
  <2>1. LibraryTypes'
    BY <1>2, BoundsAssumption DEF SensorPoll, LibraryTypes
  <2>2. ControlTypes'
    BY <1>2 DEF SensorPoll, ControlTypes, Goto, Labels, Frames
  <2> QED
    BY <1>2, <2>1, <2>2 DEF SensorPoll
<1>3. CASE SensorLockCache
  <2>1. LibraryTypes'
    BY <1>3 DEF SensorLockCache, LibraryTypes
  <2>2. ControlTypes'
    BY <1>3, GotoTypes DEF SensorLockCache, Labels
  <2> QED
    BY <1>3, <2>1, <2>2 DEF SensorLockCache
<1>4. CASE SensorLoad
  <2>1. CacheTypes'
    BY <1>4 DEF SensorLoad, CacheTypes
  <2>2. ControlTypes'
    BY <1>4, GotoTypes DEF SensorLoad, Labels
  <2> QED
    BY <1>4, <2>1, <2>2 DEF SensorLoad
<1>5. CASE SensorFault
  <2>1. ControlTypes'
    BY <1>5 DEF SensorFault, ControlTypes, Labels
  <2> QED
    BY <1>5, <2>1 DEF SensorFault, sharedVars
<1>6. CASE SensorStore
  <2>1. CacheTypes'
    <3>1. Plus(loaded, result[Sensor]) \in [Channels -> Int]
      BY CounterTypes DEF CacheTypes, ReturnTypes
    <3>2. Zero \in [Channels -> Int]
      BY DEF Zero
    <3>3. signal[Sensor] \in Signals
      BY DEF ReturnTypes
    <3> QED
      BY <1>6, <3>1, <3>2, <3>3 DEF SensorStore, CacheTypes
  <2>2. LibraryTypes'
    BY <1>6 DEF SensorStore, LibraryTypes
  <2>3. ControlTypes'
    <3>1. (IF shut_down THEN "done" ELSE "await") \in Labels
      BY DEF Labels
    <3> QED
      BY <1>6, <3>1, GotoTypes DEF SensorStore
  <2>4. ReturnTypes'
    BY <1>6 DEF SensorStore, ReturnTypes, Zero, Signals
  <2> QED
    BY <1>6, <2>1, <2>2, <2>3, <2>4 DEF SensorStore
<1> QED
  BY <1>1, <1>2, <1>3, <1>4, <1>5, <1>6 DEF SensorStep

\* The cached getters keep the types.
LEMMA TypeCache ==
  ASSUME TypeOK, NEW t \in Callers, CacheStep(t)
  PROVE  TypeOK'
<1> USE SameTypes, CallersAreThreads DEF TypeOK
<1>0. t \in Threads /\ ret[t] \in Labels
  BY DEF ControlTypes
<1>1. CASE LockCache(t)
  <2>1. LibraryTypes'
    BY <1>0, <1>1 DEF LockCache, LibraryTypes
  <2>2. ControlTypes'
    BY <1>0, <1>1, GotoTypes DEF LockCache, Labels
  <2> QED
    BY <1>1, <2>1, <2>2 DEF LockCache
<1>2. CASE TakeCache(t)
  <2>1. ReturnTypes'
    <3>1. Only(cache, want[t]) \in [Channels -> Int]
      BY CounterTypes DEF CacheTypes
    <3>2. (IF want[t] = {} THEN cacheSignal ELSE "clear") \in Signals
      BY DEF CacheTypes, Signals
    <3> QED
      BY <1>2, <3>1, <3>2 DEF TakeCache, ReturnTypes
  <2>2. ControlTypes'
    BY <1>0, <1>2, GotoTypes DEF TakeCache, Labels
  <2> QED
    BY <1>2, <2>1, <2>2 DEF TakeCache, sharedVars
<1>3. CASE ClearCache(t)
  <2>1. CacheTypes'
    BY <1>3, CounterTypes DEF ClearCache, CacheTypes
  <2>2. LibraryTypes'
    BY <1>3 DEF ClearCache, LibraryTypes
  <2>3. ControlTypes'
    BY <1>0, <1>3, GotoTypes DEF ClearCache
  <2>4. HistoryTypes'
    <3>1. Plus(delivered, result[t]) \in [Channels -> Int]
      BY <1>0, CounterTypes DEF HistoryTypes, ReturnTypes
    <3> QED
      BY <1>3, <3>1 DEF ClearCache, HistoryTypes
  <2> QED
    BY <1>3, <2>1, <2>2, <2>3, <2>4 DEF ClearCache
<1> QED
  BY <1>1, <1>2, <1>3 DEF CacheStep

\* driveDistance, turn and the waits keep the types.
LEMMA TypeWait ==
  ASSUME TypeOK, NEW t \in Callers, WaitStep(t)
  PROVE  TypeOK'
<1> USE SameTypes, GotoTypes, SendTypes, FetchTypes DEF TypeOK
<1>0. /\ t \in Threads
      /\ {chan[t]} \in SUBSET Channels /\ {} \in SUBSET Channels
      /\ {"angle"} \in SUBSET Channels
      /\ result[t][chan[t]] \in Int
  BY CallersAreThreads DEF ArgTypes, ReturnTypes, Channels
<1>1. CASE Driven(t)
  <2>1. ControlTypes'
    BY <1>0, <1>1 DEF Driven, Labels
  <2> QED
    BY <1>1, <2>1 DEF Driven, sharedVars
<1>2. CASE Reset(t)
  <2>1. ControlTypes'
    <3>1. (IF failed[t] THEN "returned" ELSE "poll") \in Labels
      BY DEF Labels
    <3> QED
      BY <1>0, <1>2, <3>1 DEF Reset
  <2>2. WaitTypes'
    BY <1>2 DEF Reset, WaitTypes
  <2> QED
    BY <1>2, <2>1, <2>2 DEF Reset, sharedVars
<1>3. CASE Poll(t)
  <2>1. ControlTypes'
    BY <1>0, <1>3 DEF Poll, Labels
  <2> QED
    BY <1>3, <2>1 DEF Poll, sharedVars
<1>4. CASE Polled(t)
  <2>1. ControlTypes'
    BY <1>0, <1>4 DEF Polled, Progress, Labels
  <2>2. WaitTypes'
    <3>1. CASE UNCHANGED waitVars
      BY <3>1
    <3>2. CASE /\ count' = [count EXCEPT ![t] = @ + result[t][chan[t]]]
               /\ seen' = [seen EXCEPT ![t] = @ + result[t][chan[t]]]
               /\ UNCHANGED <<stopNow, overCurrentCount>>
      BY <1>0, <3>2 DEF WaitTypes
    <3> QED
      BY <1>4, <3>1, <3>2 DEF Polled
  <2> QED
    BY <1>4, <2>1, <2>2 DEF Polled, sharedVars
<1>5. CASE Printed(t)
  <2>1. ControlTypes'
    BY <1>0, <1>5 DEF Printed, Labels
  <2>2. WaitTypes'
    BY <1>0, <1>5 DEF Printed, WaitTypes
  <2> QED
    BY <1>5, <2>1, <2>2 DEF Printed, sharedVars
<1>6. CASE Judge(t)
  <2>1. ControlTypes'
    BY <1>0, <1>6 DEF Judge, Labels
  <2>2. WaitTypes'
    BY <1>6 DEF Judge, WaitTypes
  <2> QED
    BY <1>6, <2>1, <2>2 DEF Judge, sharedVars
<1>7. CASE OverSeen(t)
  <2>1. ControlTypes'
    BY <1>0, <1>7 DEF OverSeen, Labels
  <2>2. WaitTypes'
    <3>1. Recount(OverCurrents(t)) \in 0..OverLimit
      BY BoundsAssumption DEF WaitTypes, Recount, OverCurrents
    <3>2. (OverCurrents(t) > OverLimit) \in BOOLEAN
      OBVIOUS
    <3>3. stopNow' \in [Callers -> BOOLEAN]
      BY <1>7, <3>2 DEF OverSeen, WaitTypes
    <3> QED
      BY <1>7, <3>1, <3>3 DEF OverSeen, WaitTypes
  <2> QED
    BY <1>7, <2>1, <2>2 DEF OverSeen, sharedVars
<1>8. CASE BumpSeen(t)
  <2>1. ControlTypes'
    BY <1>0, <1>8 DEF BumpSeen, Labels
  <2>2. WaitTypes'
    <3>1. stopNow' \in [Callers -> BOOLEAN]
      BY <1>8 DEF BumpSeen, WaitTypes
    <3> QED
      BY <1>8, <3>1 DEF BumpSeen, WaitTypes
  <2> QED
    BY <1>8, <2>1, <2>2 DEF BumpSeen, sharedVars
<1>9. CASE Decide(t)
  <2>1. ControlTypes'
    BY <1>0, <1>9 DEF Decide, Finish, Labels, Frames
  <2>2. ReturnTypes'
    BY <1>0, <1>9 DEF Decide, ReturnTypes
  <2> QED
    BY <1>9, <2>1, <2>2 DEF Decide, sharedVars
<1> QED
  BY <1>1, <1>2, <1>3, <1>4, <1>5, <1>6, <1>7, <1>8, <1>9 DEF WaitStep

\* The arguments of a new call have their types.
LEMMA BeginTypes ==
  ASSUME ArgTypes, NEW t \in Callers, NEW o \in Ops, NEW c \in Channels,
         NEW g \in Int, NEW i \in BOOLEAN, Begin(t, o, c, g, i)
  PROVE  ArgTypes'
  BY DEF ArgTypes, Begin

\* The beginning and the end of a call keep the types.
LEMMA TypeCall ==
  ASSUME TypeOK, NEW t \in Callers, CallStep(t)
  PROVE  TypeOK'
<1> USE SameTypes, GotoTypes, SendTypes, FetchTypes, BeginTypes DEF TypeOK
<1>0. /\ t \in Threads
      /\ "distance" \in Channels /\ {} \in SUBSET Channels
      /\ \A c \in Channels : {c} \in SUBSET Channels
      /\ FALSE \in BOOLEAN /\ 0 \in Int
  BY CallersAreThreads DEF Channels
<1>1. CASE CallGet(t)
  <2>1. PICK c \in Channels : /\ Begin(t, "get", c, 0, FALSE)
                              /\ \E C \in {{c}, {}} : Fetch(t, C, "returned")
    BY <1>1 DEF CallGet
  <2>2. ControlTypes'
    BY <1>0, <2>1 DEF Labels
  <2>3. ArgTypes'
    BY <1>0, <2>1 DEF Ops
  <2> QED
    BY <1>1, <2>2, <2>3 DEF CallGet, sharedVars
<1>2. CASE CallReadSensor(t)
  <2>1. PICK c \in Channels : /\ Begin(t, "readSensor", c, 0, FALSE)
                              /\ ReadSensor(t, {c}, "returned")
    BY <1>2 DEF CallReadSensor
  <2>2. ControlTypes'
    BY <1>0, <2>1 DEF Labels
  <2>3. ArgTypes'
    BY <1>0, <2>1 DEF Ops
  <2> QED
    BY <1>2, <2>2, <2>3 DEF CallReadSensor, sharedVars
<1>3. CASE CallDrive(t)
  <2>1. ControlTypes'
    BY <1>0, <1>3 DEF CallDrive, Labels, Frames
  <2>2. ArgTypes'
    BY <1>0, <1>3 DEF CallDrive, Ops
  <2> QED
    BY <1>3, <2>1, <2>2 DEF CallDrive, sharedVars
<1>4. CASE CallWait(t)
  <2>1. PICK c \in Channels, g \in Goals, i \in BOOLEAN :
          /\ Begin(t, "wait", c, g, i)
          /\ Fetch(t, {c}, "reset")
    BY <1>4 DEF CallWait
  <2>2. ControlTypes'
    BY <1>0, <2>1 DEF Labels
  <2>3. ArgTypes'
    BY <2>1, GoalsAssumption DEF Ops
  <2> QED
    BY <1>4, <2>2, <2>3 DEF CallWait, sharedVars
<1>5. CASE CallDriveFor(t)
  <2>1. PICK c \in Channels, g \in Goals, i \in BOOLEAN :
          /\ Begin(t, "driveFor", c, g, i)
          /\ Send(t, "drive", "driven")
    BY <1>5 DEF CallDriveFor
  <2>2. ControlTypes'
    BY <1>0, <2>1 DEF Labels, Frames
  <2>3. ArgTypes'
    BY <2>1, GoalsAssumption DEF Ops
  <2> QED
    BY <1>5, <2>2, <2>3 DEF CallDriveFor, sharedVars
<1>6. CASE startOI(t)
  <2>1. ControlTypes'
    BY <1>0, <1>6 DEF startOI, Labels, Frames
  <2>2. ArgTypes'
    BY <1>0, <1>6 DEF startOI, StartOps, Ops
  <2>3. LibraryTypes'
    BY <1>6 DEF startOI, LibraryTypes
  <2>4. ReturnTypes'
    BY <1>6 DEF startOI, ReturnTypes
  <2> QED
    BY <1>6, <2>1, <2>2, <2>3, <2>4 DEF startOI
<1>7. CASE CallStop(t)
  <2>1. ControlTypes'
    BY <1>0, <1>7 DEF CallStop, Labels, Frames
  <2>2. ArgTypes'
    BY <1>0, <1>7 DEF CallStop, StopOps, Ops
  <2>3. LibraryTypes'
    BY <1>7 DEF CallStop, LibraryTypes
  <2> QED
    BY <1>7, <2>1, <2>2, <2>3 DEF CallStop
<1> QED
  BY <1>1, <1>2, <1>3, <1>4, <1>5, <1>6, <1>7 DEF CallStep

\* Starts and stops keep the types.
LEMMA TypeSession ==
  ASSUME TypeOK, NEW t \in Callers, SessionStep(t)
  PROVE  TypeOK'
<1> USE SameTypes, GotoTypes, SendTypes DEF TypeOK
<1>0. t \in Threads
  BY CallersAreThreads
<1>1. CASE StartFrames(t)
  <2>1. ControlTypes'
    BY <1>0, <1>1 DEF StartFrames, Labels, Frames
  <2> QED
    BY <1>1, <2>1 DEF StartFrames, sharedVars
<1>2. CASE StartedDirect(t)
  <2>1. ControlTypes'
    BY <1>0, <1>2 DEF StartedDirect, Labels
  <2>2. LibraryTypes'
    BY <1>2 DEF StartedDirect, LibraryTypes
  <2>3. ReturnTypes'
    BY <1>2 DEF StartedDirect, ReturnTypes
  <2> QED
    BY <1>2, <2>1, <2>2, <2>3 DEF StartedDirect
<1>3. CASE startOI_MT(t)
  <2>1. ControlTypes'
    BY <1>0, <1>3, CallersAreThreads DEF startOI_MT, ControlTypes, Labels
  <2>2. LibraryTypes'
    <3>1. (op[t] = "startOI_MTS") \in BOOLEAN
      OBVIOUS
    <3> QED
      BY <1>3, <3>1 DEF startOI_MT, LibraryTypes
  <2>3. CacheTypes'
    <3>1. cache' \in [Channels -> Int] /\ cacheSignal' \in Signals
          /\ loaded' \in [Channels -> Int]
      BY <1>3, ReportedAssumption DEF startOI_MT, CacheTypes, Zero
    <3>2. shut_down' \in BOOLEAN
      BY <1>3, Zenon DEF startOI_MT
    <3> QED
      BY <3>1, <3>2, Zenon DEF CacheTypes
  <2>4. HistoryTypes'
    <3>1. Plus(lost, cache) \in [Channels -> Int]
      BY CounterTypes DEF HistoryTypes, CacheTypes
    <3> QED
      BY <1>3, <3>1 DEF startOI_MT, HistoryTypes
  <2> QED
    BY <1>3, <2>1, <2>2, <2>3, <2>4 DEF startOI_MT
<1>4. CASE Settle(t)
  <2>1. ControlTypes'
    BY <1>0, <1>4 DEF Settle, Labels
  <2>2. LibraryTypes'
    BY <1>4 DEF Settle, LibraryTypes
  <2>3. ReturnTypes'
    BY <1>4 DEF Settle, ReturnTypes
  <2> QED
    BY <1>4, <2>1, <2>2, <2>3 DEF Settle
<1>5. CASE ShutDown(t)
  <2>1. ControlTypes'
    BY <1>0, <1>5 DEF ShutDown, Labels
  <2>2. LibraryTypes'
    BY <1>5 DEF ShutDown, UnlockedForJoin, LibraryTypes
  <2>3. CacheTypes'
    BY <1>5 DEF ShutDown, CacheTypes
  <2> QED
    BY <1>5, <2>1, <2>2, <2>3 DEF ShutDown
<1>6. CASE Join(t)
  <2>1. ControlTypes'
    BY <1>0, <1>6 DEF Join, Labels, Frames
  <2>2. LibraryTypes'
    BY <1>6 DEF Join, LibraryTypes
  <2> QED
    BY <1>6, <2>1, <2>2 DEF Join
<1>7. CASE Goodbye(t)
  <2>1. ControlTypes'
    BY <1>0, <1>7 DEF Goodbye, Labels, Frames
  <2> QED
    BY <1>7, <2>1 DEF Goodbye, sharedVars
<1>8. CASE stopOI(t)
  <2>1. ControlTypes'
    BY <1>0, <1>8 DEF stopOI, Labels
  <2>2. LibraryTypes'
    BY <1>8 DEF stopOI, LibraryTypes
  <2> QED
    BY <1>8, <2>1, <2>2 DEF stopOI
<1>9. CASE Return(t)
  <2>1. ControlTypes'
    BY <1>0, <1>9 DEF Return, ControlTypes, Goto, Labels, Frames
  <2>2. ReturnTypes'
    <3>1. Zero \in [Channels -> Int] /\ "clear" \in Signals
      BY DEF Zero, Signals
    <3>2. result' \in [Threads -> [Channels -> Int]]
      BY <1>9, <3>1 DEF Return, ReturnTypes
    <3>3. signal' \in [Threads -> Signals]
      BY <1>9, <3>1 DEF Return, ReturnTypes
    <3>4. failed' \in [Threads -> BOOLEAN]
      BY <1>9 DEF Return, ReturnTypes
    <3> QED
      BY <3>2, <3>3, <3>4 DEF ReturnTypes
  <2>3. ArgTypes'
    BY <1>9 DEF Return, ArgTypes, Ops, Channels
  <2>4. WaitTypes'
    BY <1>9 DEF Return, WaitTypes
  <2>5. HistoryTypes'
    BY <1>9 DEF Return, HistoryTypes
  <2> QED
    BY <1>9, <2>1, <2>2, <2>3, <2>4, <2>5 DEF Return
<1> QED
  BY <1>1, <1>2, <1>3, <1>4, <1>5, <1>6, <1>7, <1>8, <1>9 DEF SessionStep

\* Every behaviour keeps the types of TypeOK, whatever the program's threads
\* do: create_mutex and sensor_cache_mutex have one holder or none, and the
\* counter of stopWait stays within the limit after which it starts again.
THEOREM TypeCorrect == Spec => []TypeOK
<1>1. Init => TypeOK
  BY TypeInit
<1>2. TypeOK /\ [Next]_vars => TypeOK'
  <2> SUFFICES ASSUME TypeOK, [Next]_vars
               PROVE  TypeOK'
    OBVIOUS
  <2>1. CASE UNCHANGED vars
    BY <2>1, SameTypes DEF TypeOK, vars
  <2>2. CASE Next
    BY <2>2, TypeRobot, TypeLine, TypeSensor, TypeCache, TypeWait, TypeCall,
       TypeSession DEF Next
  <2> QED
    BY <2>1, <2>2
<1> QED
  BY <1>1, <1>2, PTL DEF Spec

----------------------------------------------------------------------------
(* Frame lemmas: what a step of one thread leaves of each conjunct.        *)

\* Sensor is no caller, and no thread is a mutex value.
LEMMA Names ==
  /\ Sensor \notin Callers /\ Sensor \in Threads
  /\ \A t \in Callers : t \in Threads /\ t # Sensor
  /\ \A t \in Threads : t \in Callers \/ t = Sensor
  /\ \A t \in Threads : t # "free" /\ t # "gone"
  BY CallersAssumption DEF Threads, Sensor

\* A conjunct whose variables stay is kept.
LEMMA SameInvs ==
  /\ ResumeInv /\ UNCHANGED controlVars => ResumeInv'
  /\ DeadInv /\ UNCHANGED controlVars => DeadInv'
  /\ SessionInv /\ UNCHANGED <<controlVars, session>> => SessionInv'
  /\ LineInv /\ UNCHANGED <<controlVars, wire, answer, createOwner>> => LineInv'
  /\ CacheInv /\ UNCHANGED <<controlVars, cache, loaded, cacheOwner, result>> => CacheInv'
<1> USE DEF controlVars, At
<1>1. ResumeInv /\ UNCHANGED controlVars => ResumeInv'
  BY DEF ResumeInv
<1>2. DeadInv /\ UNCHANGED controlVars => DeadInv'
  BY DEF DeadInv
<1>3. SessionInv /\ UNCHANGED <<controlVars, session>> => SessionInv'
  BY DEF SessionInv, Active, Fits, Place, Quiet
<1>4. LineInv /\ UNCHANGED <<controlVars, wire, answer, createOwner>> => LineInv'
  BY DEF LineInv, ReplyToAsker
<1>5. CacheInv /\ UNCHANGED <<controlVars, cache, loaded, cacheOwner, result>> => CacheInv'
  BY DEF CacheInv, Only
<1> QED
  BY <1>1, <1>2, <1>3, <1>4, <1>5

\* A live thread moves on and may come back only to a place without a mutex.
LEMMA ResumeKept ==
  ASSUME ControlTypes, ResumeInv, DeadInv, NEW t \in Threads, NEW l, NEW r,
         pc' = [pc EXCEPT ![t] = l], ret' = [ret EXCEPT ![t] = r],
         pc[t] # "dead", l # "dead",
         l \in InCall =>
           IF t = Sensor THEN r = "sampled"
           ELSE r \in StartPlaces \union StopPlaces \union WorkPlaces
  PROVE  ResumeInv' /\ DeadInv'
<1>1. ResumeInv'
  BY Names DEF ControlTypes, ResumeInv
<1>2. DeadInv'
  BY Names DEF ControlTypes, DeadInv, At
<1> QED
  BY <1>1, <1>2

\* A caller moves on within a session.
LEMMA SessionKept ==
  ASSUME ControlTypes, SessionInv, NEW t \in Callers, NEW l, NEW r,
         pc' = [pc EXCEPT ![t] = l], ret' = [ret EXCEPT ![t] = r],
         session' = session,
         pc[t] \notin {"settle", "shutDown", "join"},
         l \in {"idle", "returned"} \/ Fits(IF l \in InCall THEN r ELSE l),
         l \in {"idle", "returned"} \/ Active(t) \/ session \in {"direct", "threaded"}
  PROVE  SessionInv'
<1> USE Names
<1>1. pc'[t] = l /\ ret'[t] = r
      /\ \A u \in Threads \ {t} : pc'[u] = pc[u] /\ ret'[u] = ret[u]
  BY DEF ControlTypes
<1>2. \A u \in Callers : Active(u)' => Fits(Place(u))'
  <2> SUFFICES ASSUME NEW u \in Callers, Active(u)'
               PROVE  Fits(Place(u))'
    OBVIOUS
  <2>1. CASE u = t
    BY <1>1, <2>1 DEF Active, Fits, Place
  <2>2. CASE u # t
    BY <1>1, <2>2 DEF SessionInv, Active, Fits, Place
  <2> QED
    BY <2>1, <2>2
<1>3. session' \in {"starting", "stopping"} =>
        \A u, v \in Callers : Active(u)' /\ Active(v)' => u = v
  BY <1>1 DEF SessionInv, Active
<1>4. Quiet' = Quiet
  BY <1>1 DEF Quiet
<1>5. ~Quiet' => \/ session' = "threaded"
                 \/ \E u \in Callers : pc'[u] \in {"settle", "shutDown", "join"}
  BY <1>1, <1>4 DEF SessionInv
<1> QED
  BY <1>2, <1>3, <1>5 DEF SessionInv

\* The sensor thread moves on.
LEMMA SessionSensor ==
  ASSUME ControlTypes, SessionInv, ~Quiet, NEW l, NEW r,
         pc' = [pc EXCEPT ![Sensor] = l], ret' = [ret EXCEPT ![Sensor] = r],
         session' = session
  PROVE  SessionInv'
<1>1. \A u \in Callers : pc'[u] = pc[u] /\ ret'[u] = ret[u]
  BY Names DEF ControlTypes
<1> QED
  BY <1>1 DEF SessionInv, Active, Fits, Place, Quiet

\* A thread moves on outside the critical section of create_mutex.
LEMMA LineKept ==
  ASSUME ControlTypes, LineTypes, LineInv, DeadInv, NEW t \in Threads, NEW l, NEW W,
         pc' = [pc EXCEPT ![t] = l], want' = [want EXCEPT ![t] = W],
         pc[t] \notin {"write", "read", "dead"}, l \notin {"write", "read"},
         UNCHANGED <<wire, answer, createOwner>>
  PROVE  LineInv'
<1>1. pc'[t] = l
      /\ \A u \in Threads \ {t} : pc'[u] = pc[u] /\ want'[u] = want[u]
  BY DEF ControlTypes
<1>2. wire.by \in Threads
  BY DEF LineTypes
<1>3. \A u \in Threads : pc[u] # "dead"
  BY DEF DeadInv, At
<1> QED
  BY <1>1, <1>2, <1>3 DEF LineInv, ReplyToAsker, At

\* A caller moves on outside the critical section of sensor_cache_mutex.
LEMMA CacheKept ==
  ASSUME ControlTypes, ReturnTypes, CacheInv, NEW t \in Callers, NEW l, NEW W, NEW x,
         pc' = [pc EXCEPT ![t] = l], want' = [want EXCEPT ![t] = W],
         result' = [result EXCEPT ![t] = x],
         l \notin {"take", "clear"},
         UNCHANGED <<cache, loaded, cacheOwner>>
  PROVE  CacheInv'
<1>1. /\ pc'[t] = l
      /\ \A u \in Threads \ {t} :
           pc'[u] = pc[u] /\ want'[u] = want[u] /\ result'[u] = result[u]
  BY Names DEF ControlTypes, ReturnTypes
<1> QED
  BY <1>1, Names DEF CacheInv, At, Only

\* The sensor thread moves on outside the critical section, its sample with it.
LEMMA CacheSensorKept ==
  ASSUME ControlTypes, ReturnTypes, CacheInv, NEW l, NEW W, NEW x,
         pc' = [pc EXCEPT ![Sensor] = l], want' = [want EXCEPT ![Sensor] = W],
         result' = [result EXCEPT ![Sensor] = x],
         l \notin {"init", "load", "store"}, l # "sampled" => x = Zero,
         UNCHANGED <<cache, loaded, cacheOwner>>
  PROVE  CacheInv'
<1>1. /\ pc'[Sensor] = l /\ result'[Sensor] = x
      /\ \A u \in Callers : pc'[u] = pc[u] /\ want'[u] = want[u] /\ result'[u] = result[u]
  BY Names DEF ControlTypes, ReturnTypes
<1> QED
  BY <1>1, Names DEF CacheInv, At, Only

\* Where the sensor thread's sample and the other holders stay, so does the
\* travel.
LEMMA TravelKept ==
  ASSUME Conservation,
         UNCHANGED <<travelled, pending, answer, cache, delivered, lost>>,
         result'[Sensor] = result[Sensor]
  PROVE  Conservation'
  BY DEF Conservation

\* The frame lemmas together: a caller moves on outside all critical sections
\* and leaves every value that TravelInv speaks of alone.
LEMMA OwnStep ==
  ASSUME TypeOK, TravelInv, NEW t \in Callers, NEW l, NEW r, NEW W,
         pc' = [pc EXCEPT ![t] = l], ret' = [ret EXCEPT ![t] = r],
         want' = [want EXCEPT ![t] = W],
         UNCHANGED <<session, wire, answer, createOwner, cacheOwner, cache, loaded,
                     result, travelled, pending, delivered, lost>>,
         pc[t] \notin {"write", "read", "dead", "settle", "shutDown", "join"},
         l \notin {"write", "read", "take", "clear", "dead"},
         l \in InCall => r \in StartPlaces \union StopPlaces \union WorkPlaces,
         l \in {"idle", "returned"} \/ Fits(IF l \in InCall THEN r ELSE l),
         l \in {"idle", "returned"} \/ Active(t) \/ session \in {"direct", "threaded"}
  PROVE  TravelInv'
<1> USE Names DEF TypeOK, TravelInv
<1>1. ResumeInv' /\ DeadInv'
  BY ResumeKept
<1>2. SessionInv'
  BY SessionKept
<1>3. LineInv'
  BY LineKept
<1>4. CacheInv'
  <2>1. result' = [result EXCEPT ![t] = result[t]]
    BY DEF ReturnTypes
  <2> QED
    BY <2>1, CacheKept
<1>5. Conservation'
  BY TravelKept
<1> QED
  BY <1>1, <1>2, <1>3, <1>4, <1>5

----------------------------------------------------------------------------
(* The steps.                                                              *)

\* No travel is anywhere at the start.
LEMMA TravelInit == Init => TravelInv
<1> SUFFICES ASSUME Init
             PROVE  TravelInv
  OBVIOUS
<1> USE Names DEF Init
<1>1. ResumeInv /\ DeadInv
  BY DEF ResumeInv, DeadInv, At, InCall, InLine
<1>2. SessionInv
  BY DEF SessionInv, Active, Quiet
<1>3. LineInv
  <2>1. wire.state = "idle" /\ answer = Zero
    BY DEF Idle
  <2>2. \A t \in Threads : pc[t] \in {"none", "idle"}
    OBVIOUS
  <2> QED
    BY <2>1, <2>2 DEF LineInv, ReplyToAsker, At
<1>4. CacheInv
  BY DEF CacheInv, At
<1>5. Conservation
  BY DEF Conservation, Zero
<1> QED
  BY <1>1, <1>2, <1>3, <1>4, <1>5 DEF TravelInv

\* What Conservation adds up are integers.
LEMMA Counters ==
  ASSUME TypeOK, NEW c \in Channels
  PROVE  /\ travelled[c] \in Int /\ pending[c] \in Int /\ answer[c] \in Int
         /\ result[Sensor][c] \in Int /\ cache[c] \in Int
         /\ delivered[c] \in Int /\ lost[c] \in Int
<1> USE Names DEF TypeOK
<1>1. travelled[c] \in Int /\ delivered[c] \in Int /\ lost[c] \in Int
  BY DEF HistoryTypes
<1>2. pending[c] \in Int /\ answer[c] \in Int
  BY DEF RobotTypes, LineTypes
<1>3. result[Sensor][c] \in Int
  BY DEF ReturnTypes
<1>4. cache[c] \in Int
  BY DEF CacheTypes
<1> QED
  BY <1>1, <1>2, <1>3, <1>4

\* Moving, answering, unplugging and posting keep the travel invariant.
LEMMA TravelRobot ==
  ASSUME TypeOK, TravelInv, Robot \/ Unplug \/ Post
  PROVE  TravelInv'
<1> USE SameInvs DEF TypeOK, TravelInv, libraryVars, lineVars, cacheVars, returnVars,
        robotVars, historyVars
<1>1. CASE Move
  <2>1. Conservation'
    <3>1. PICK c \in Channels, d \in Increments :
            /\ pending' = [pending EXCEPT ![c] = @ + d]
            /\ travelled' = [travelled EXCEPT ![c] = @ + d]
      BY <1>1 DEF Move
    <3>2. UNCHANGED <<answer, result, cache, delivered, lost>>
      BY <1>1 DEF Move
    <3>3. d \in Int
      BY IncrementsAssumption
    <3>4. ASSUME NEW e \in Channels
          PROVE  pending'[e] - pending[e] = travelled'[e] - travelled[e]
      BY <3>1, <3>3 DEF RobotTypes, HistoryTypes
    <3>5. ASSUME NEW e \in Channels
          PROVE  travelled'[e] \in Int /\ pending'[e] \in Int
      BY <3>1, <3>3, <3>4 DEF RobotTypes, HistoryTypes
    <3> HIDE DEF TypeOK, TravelInv
    <3>6. ASSUME NEW e \in Channels
          PROVE  travelled'[e] = pending'[e] + answer[e] + result[Sensor][e] + cache[e]
                                 + delivered[e] + lost[e]
      <4>1. travelled[e] = pending[e] + answer[e] + result[Sensor][e] + cache[e]
                           + delivered[e] + lost[e]
        BY DEF TravelInv, Conservation
      <4> QED
        BY <3>4, <3>5, <4>1, Counters
    <3> QED
      BY <3>2, <3>6 DEF Conservation
  <2> QED
    BY <1>1, <2>1 DEF Move
<1>2. CASE SafetyTrip
  <2>1. Conservation'
    BY <1>2, TravelKept DEF SafetyTrip
  <2> QED
    BY <1>2, <2>1 DEF SafetyTrip
<1>3. CASE Answer
  <2>1. answer = Zero
    BY <1>3 DEF Answer, LineInv
  <2>2. LineInv'
    BY <1>3, <2>1 DEF Answer, LineInv, LineTypes, ReplyToAsker, At, controlVars
  <2>3. Conservation'
    BY <1>3, <2>1
    DEF Answer, Conservation, Only, Zero, RobotTypes, HistoryTypes, ReturnTypes, CacheTypes
  <2> QED
    BY <1>3, <2>2, <2>3 DEF Answer
<1>4. CASE Unplug
  <2>1. Conservation'
    BY <1>4, TravelKept DEF Unplug
  <2> QED
    BY <1>4, <2>1 DEF Unplug
<1>5. CASE Post
  <2>1. Conservation'
    BY <1>5, TravelKept DEF Post
  <2> QED
    BY <1>5, <2>1 DEF Post
<1> QED
  BY <1>1, <1>2, <1>3, <1>4, <1>5 DEF Robot

\* A thread on the line has come from a caller's operation or the sensor
\* thread's poll, and goes on to where it came from.
LEMMA OnLine ==
  ASSUME TypeOK, TravelInv, NEW t \in Threads, pc[t] \in InLine
  PROVE  /\ pc[t] # "dead" /\ ret[t] # "dead" /\ ret[t] \notin InCall
         /\ t \in Callers => Active(t) /\ Fits(ret[t])
         /\ t = Sensor => ~Quiet /\ ret[t] = "sampled"
  BY Names DEF TravelInv, ResumeInv, SessionInv, Active, Place, Quiet, InCall, InLine,
               StartPlaces, StopPlaces, WorkPlaces

\* The thread that writes or reads is alone on the line, and the process lives.
LEMMA AloneOnLine ==
  ASSUME TypeOK, TravelInv, NEW t \in Threads, pc[t] \in {"write", "read"}
  PROVE  /\ \A u \in Threads : pc[u] # "dead"
         /\ \A u \in Threads : pc[u] \in {"write", "read"} => u = t
         /\ At(t, "write") => wire.state = "idle" /\ answer = Zero
  BY DEF TypeOK, LineTypes, TravelInv, DeadInv, LineInv, At

\* Between the lock and the return of the call only the line is touched.
LEMMA LineMoves ==
  ASSUME TypeOK, TravelInv, NEW t \in Threads, pc[t] \in InLine,
         NEW l \in {"write", "read", ret[t]}, Goto(t, l), UNCHANGED <<ret, session>>
  PROVE  ResumeInv' /\ DeadInv' /\ SessionInv'
<1> USE OnLine, Names DEF TypeOK, TravelInv, Goto
<1>1. pc' = [pc EXCEPT ![t] = l] /\ ret' = [ret EXCEPT ![t] = ret[t]]
  BY DEF ControlTypes
<1>2. ResumeInv' /\ DeadInv'
  <2>1. pc[t] # "dead" /\ l # "dead" /\ pc[t] \in InCall
    BY DEF InCall
  <2>2. IF t = Sensor THEN ret[t] = "sampled"
        ELSE ret[t] \in StartPlaces \union StopPlaces \union WorkPlaces
    BY <2>1 DEF ResumeInv
  <2> QED
    BY <1>1, <2>1, <2>2, ResumeKept
<1>3. CASE t \in Callers
  <2>1. Fits(IF l \in InCall THEN ret[t] ELSE l)
    BY <1>3 DEF InCall, InLine
  <2>2. pc[t] \notin {"settle", "shutDown", "join"}
    BY DEF InLine
  <2> QED
    BY <1>1, <1>2, <1>3, <2>1, <2>2, SessionKept
<1>4. CASE t = Sensor
  BY <1>1, <1>2, <1>4, SessionSensor
<1> QED
  BY <1>3, <1>4

\* The cache is not touched on the line: a caller's result is its own, and the
\* sensor thread comes back with its sample.
LEMMA LineLeavesCache ==
  ASSUME TypeOK, TravelInv, NEW t \in Threads, pc[t] \in InLine,
         NEW l \in {"write", "read", ret[t]}, Goto(t, l), NEW x,
         result' = [result EXCEPT ![t] = x], l \in {"write", "read"} => x = result[t],
         UNCHANGED <<want, cacheVars, cacheOwner>>
  PROVE  CacheInv'
<1> USE OnLine, Names DEF TypeOK, TravelInv, Goto, cacheVars
<1>1. want' = [want EXCEPT ![t] = want[t]] /\ pc' = [pc EXCEPT ![t] = l]
  BY DEF ControlTypes
<1>2. CASE t \in Callers
  BY <1>1, <1>2, CacheKept DEF InCall
<1>3. CASE t = Sensor
  <2>1. result[Sensor] = Zero
    BY <1>3 DEF CacheInv, InLine
  <2>2. l \notin {"init", "load", "store"} /\ (l # "sampled" => x = Zero)
    BY <1>3, <2>1
  <2> QED
    BY <1>1, <1>3, <2>2, CacheSensorKept
<1> QED
  BY <1>2, <1>3

\* cwrite and cread keep it: a reply goes to the holder of the line, who asked.
LEMMA TravelLine ==
  ASSUME TypeOK, TravelInv, NEW t \in Threads, LineStep(t)
  PROVE  TravelInv'
<1>1. CASE LockLine(t)
  <2>1. pc[t] \in InLine /\ pc[t] = "lockLine"
    BY <1>1 DEF LockLine, At, InLine
  <2>2. ResumeInv' /\ DeadInv' /\ SessionInv'
    BY <1>1, <2>1, LineMoves DEF LockLine
  <2>3. LineInv'
    BY <1>1, <2>1, OnLine, Names
    DEF LockLine, TypeOK, ControlTypes, LineTypes, TravelInv, LineInv, ReplyToAsker, At,
        Goto, lineVars
  <2>4. CacheInv'
    <3>1. result' = [result EXCEPT ![t] = result[t]]
      BY <1>1 DEF LockLine, returnVars, TypeOK, ReturnTypes
    <3> QED
      BY <1>1, <2>1, <3>1, LineLeavesCache DEF LockLine
  <2>5. Conservation'
    BY <1>1, TravelKept
    DEF LockLine, TravelInv, robotVars, lineVars, cacheVars, returnVars, historyVars
  <2> QED
    BY <2>2, <2>3, <2>4, <2>5 DEF TravelInv
<1>2. CASE WriteFrame(t)
  <2>1. pc[t] \in InLine /\ pc[t] = "write"
    BY <1>2 DEF WriteFrame, At, InLine
  <2>2. ResumeInv' /\ DeadInv' /\ SessionInv'
    BY <1>2, <2>1, LineMoves DEF WriteFrame
  <2>3. LineInv'
    BY <1>2, <2>1, OnLine, AloneOnLine, Names
    DEF WriteFrame, TypeOK, ControlTypes, LineTypes, LineInv, ReplyToAsker, At, Goto,
        lineVars, InCall, InLine
  <2>4. CacheInv'
    <3>1. result' = [result EXCEPT ![t] = result[t]]
      BY <1>2 DEF WriteFrame, TypeOK, ReturnTypes
    <3> QED
      BY <1>2, <2>1, <3>1, LineLeavesCache DEF WriteFrame
  <2>5. Conservation'
    BY <1>2, TravelKept DEF WriteFrame, TravelInv, lineVars, cacheVars
  <2> QED
    BY <2>2, <2>3, <2>4, <2>5 DEF TravelInv
<1>3. CASE WriteQuery(t)
  <2>1. pc[t] \in InLine /\ pc[t] = "write"
    BY <1>3 DEF WriteQuery, At, InLine
  <2>2. ResumeInv' /\ DeadInv' /\ SessionInv'
    BY <1>3, <2>1, LineMoves DEF WriteQuery
  <2>3. LineInv'
    BY <1>3, <2>1, OnLine, AloneOnLine, Names
    DEF WriteQuery, QueryHolder, TypeOK, ControlTypes, LineTypes, LineInv, ReplyToAsker,
        At, Goto
  <2>4. CacheInv'
    <3>1. result' = [result EXCEPT ![t] = result[t]]
      BY <1>3 DEF WriteQuery, returnVars, TypeOK, ReturnTypes
    <3> QED
      BY <1>3, <2>1, <3>1, LineLeavesCache DEF WriteQuery
  <2>5. Conservation'
    BY <1>3, TravelKept
    DEF WriteQuery, TravelInv, robotVars, cacheVars, returnVars, historyVars
  <2> QED
    BY <2>2, <2>3, <2>4, <2>5 DEF TravelInv
<1>4. CASE WriteFails(t)
  <2>1. pc[t] \in InLine /\ pc[t] = "write"
    BY <1>4 DEF WriteFails, At, InLine
  <2>2. ResumeInv' /\ DeadInv' /\ SessionInv'
    BY <1>4, <2>1, LineMoves DEF WriteFails
  <2>3. LineInv'
    BY <1>4, <2>1, OnLine, AloneOnLine, Names
    DEF WriteFails, TypeOK, ControlTypes, LineTypes, LineInv, ReplyToAsker, At, Goto,
        lineVars, InCall, InLine
  <2>4. CacheInv'
    BY <1>4, <2>1, OnLine, LineLeavesCache DEF WriteFails, InCall, InLine
  <2>5. Conservation'
    <3>1. result'[Sensor] = result[Sensor]
      BY <1>4, <2>1, Names
      DEF WriteFails, TypeOK, ReturnTypes, TravelInv, CacheInv
    <3> QED
      BY <1>4, <3>1, TravelKept
      DEF WriteFails, TravelInv, robotVars, lineVars, cacheVars, historyVars
  <2> QED
    BY <2>2, <2>3, <2>4, <2>5 DEF TravelInv
<1>5. CASE ReadReply(t)
  <2>1. pc[t] \in InLine /\ pc[t] = "read"
    BY <1>5 DEF ReadReply, At, InLine
  <2>2. ResumeInv' /\ DeadInv' /\ SessionInv'
    BY <1>5, <2>1, LineMoves DEF ReadReply
  <2>3. LineInv'
    BY <1>5, <2>1, OnLine, AloneOnLine, Names
    DEF ReadReply, TypeOK, ControlTypes, LineTypes, LineInv, ReplyToAsker, At, Goto,
        Idle, InCall, InLine
  <2>4. CacheInv'
    BY <1>5, <2>1, OnLine, LineLeavesCache DEF ReadReply, InCall, InLine
  <2>5. ASSUME NEW c \in Channels
        PROVE  result'[Sensor][c] + delivered'[c]
               = result[Sensor][c] + delivered[c] + answer[c]
    <3>1. CASE t = Sensor
      <4>1. result[Sensor] = Zero /\ result'[Sensor] = answer /\ delivered' = delivered
        BY <1>5, <2>1, <3>1, Names
        DEF ReadReply, TypeOK, ReturnTypes, TravelInv, CacheInv
      <4> QED
        BY <4>1, Counters DEF Zero
    <3>2. CASE t \in Callers
      <4>1. result'[Sensor] = result[Sensor] /\ delivered' = Plus(delivered, answer)
        BY <1>5, <3>2, Names DEF ReadReply, TypeOK, ReturnTypes
      <4> QED
        BY <4>1, Counters DEF Plus
    <3> QED
      BY <3>1, <3>2, Names
  <2>6. Conservation'
    <3>1. answer' = Zero /\ UNCHANGED <<travelled, pending, cache, lost>>
      BY <1>5 DEF ReadReply, robotVars, cacheVars
    <3>2. TypeOK'
      BY <1>5, TypeLine DEF LineStep
    <3>3. ASSUME NEW c \in Channels
          PROVE  result'[Sensor][c] \in Int /\ delivered'[c] \in Int
      BY <3>2, Names DEF TypeOK, ReturnTypes, HistoryTypes
    <3>4. ASSUME NEW c \in Channels
          PROVE  travelled'[c] = pending'[c] + answer'[c] + result'[Sensor][c] + cache'[c]
                                 + delivered'[c] + lost'[c]
      <4>1. travelled[c] = pending[c] + answer[c] + result[Sensor][c] + cache[c]
                           + delivered[c] + lost[c]
        BY DEF TravelInv, Conservation
      <4>2. answer'[c] = 0
        BY <3>1 DEF Zero
      <4> QED
        BY <2>5, <3>1, <3>3, <4>1, <4>2, Counters
    <3> QED
      BY <3>4 DEF Conservation
  <2> QED
    BY <2>2, <2>3, <2>4, <2>6 DEF TravelInv
<1>6. CASE ReadFails(t)
  <2>1. pc[t] \in InLine /\ pc[t] = "read"
    BY <1>6 DEF ReadFails, At, InLine
  <2>2. ResumeInv' /\ DeadInv' /\ SessionInv'
    BY <1>6, <2>1, LineMoves DEF ReadFails
  <2>3. LineInv'
    BY <1>6, <2>1, OnLine, AloneOnLine, Names
    DEF ReadFails, TypeOK, ControlTypes, LineTypes, LineInv, ReplyToAsker, At, Goto,
        Idle, InCall, InLine
  <2>4. CacheInv'
    BY <1>6, <2>1, OnLine, LineLeavesCache DEF ReadFails, InCall, InLine
  <2>5. Conservation'
    <3>1. /\ answer' = Zero /\ lost' = Plus(lost, answer)
          /\ UNCHANGED <<travelled, pending, cache, delivered>>
      BY <1>6 DEF ReadFails, robotVars, cacheVars
    <3>2. result'[Sensor] = result[Sensor]
      BY <1>6, <2>1, Names DEF ReadFails, TypeOK, ReturnTypes, TravelInv, CacheInv
    <3> QED
      BY <3>1, <3>2, Counters DEF TravelInv, Conservation, Zero, Plus
  <2> QED
    BY <2>2, <2>3, <2>4, <2>5 DEF TravelInv
<1> QED
  BY <1>1, <1>2, <1>3, <1>4, <1>5, <1>6 DEF LineStep

\* The sensor thread moves on with neither the line nor the cache's mutex
\* in question.
LEMMA SensorMoves ==
  ASSUME TypeOK, TravelInv, ~Quiet, NEW l, NEW r, NEW W,
         pc' = [pc EXCEPT ![Sensor] = l], ret' = [ret EXCEPT ![Sensor] = r],
         want' = [want EXCEPT ![Sensor] = W],
         pc[Sensor] \notin {"write", "read"}, l \notin {"write", "read", "dead"},
         l \in InCall => r = "sampled",
         UNCHANGED <<session, wire, answer, createOwner>>
  PROVE  ResumeInv' /\ DeadInv' /\ SessionInv' /\ LineInv'
<1> USE Names DEF TypeOK, TravelInv
<1>1. pc[Sensor] # "dead"
  BY DEF Quiet
<1>2. ResumeInv' /\ DeadInv'
  BY <1>1, ResumeKept
<1>3. SessionInv'
  BY SessionSensor
<1>4. LineInv'
  BY <1>1, LineKept
<1> QED
  BY <1>2, <1>3, <1>4

\* The sensor thread keeps it: the load and the store are under one lock.
LEMMA TravelSensor ==
  ASSUME TypeOK, TravelInv, SensorStep
  PROVE  TravelInv'
<1>0. /\ ret = [ret EXCEPT ![Sensor] = ret[Sensor]]
      /\ want = [want EXCEPT ![Sensor] = want[Sensor]]
      /\ result = [result EXCEPT ![Sensor] = result[Sensor]]
  BY DEF TypeOK, ControlTypes, ReturnTypes
<1>1. CASE SensorInit
  <2>1. At(Sensor, "init") /\ cache = Zero /\ cache' = cache
    BY <1>1 DEF SensorInit, TravelInv, CacheInv
  <2>2. ResumeInv' /\ DeadInv' /\ SessionInv' /\ LineInv'
    BY <1>0, <1>1, <2>1, SensorMoves
    DEF SensorInit, At, Goto, Quiet, InCall, InLine, lineVars, libraryVars
  <2>3. CacheInv'
    <3>1. result[Sensor] = Zero
      BY <2>1 DEF At, TravelInv, CacheInv
    <3> QED
      BY <1>0, <1>1, <2>1, <3>1, CacheSensorKept
      DEF SensorInit, Goto, TypeOK, TravelInv, libraryVars, returnVars
  <2>4. Conservation'
    BY <1>1, <2>1, TravelKept
    DEF SensorInit, TravelInv, robotVars, lineVars, returnVars, historyVars
  <2> QED
    BY <2>2, <2>3, <2>4 DEF TravelInv
<1>2. CASE SensorPoll
  <2>1. At(Sensor, "await")
    BY <1>2 DEF SensorPoll
  <2>2. ResumeInv' /\ DeadInv' /\ SessionInv' /\ LineInv'
    BY <1>2, <2>1, SensorMoves
    DEF SensorPoll, At, Goto, Quiet, InCall, InLine, lineVars
  <2>3. CacheInv'
    <3>1. result[Sensor] = Zero
      BY <2>1 DEF At, TravelInv, CacheInv
    <3> QED
      BY <1>0, <1>2, <3>1, CacheSensorKept
      DEF SensorPoll, Goto, TypeOK, TravelInv, cacheVars, returnVars
  <2>4. Conservation'
    BY <1>2, TravelKept
    DEF SensorPoll, TravelInv, robotVars, lineVars, cacheVars, returnVars, historyVars
  <2> QED
    BY <2>2, <2>3, <2>4 DEF TravelInv
<1>3. CASE SensorLockCache
  <2>1. At(Sensor, "sampled")
    BY <1>3 DEF SensorLockCache
  <2>2. ResumeInv' /\ DeadInv' /\ SessionInv' /\ LineInv'
    BY <1>0, <1>3, <2>1, SensorMoves
    DEF SensorLockCache, At, Goto, Quiet, InCall, InLine, lineVars
  <2>3. CacheInv'
    <3>1. /\ pc'[Sensor] = "load" /\ cacheOwner' = Sensor
          /\ \A u \in Callers : pc'[u] = pc[u]
      BY <1>3, Names DEF SensorLockCache, Goto, TypeOK, ControlTypes
    <3>2. \A u \in Callers : pc[u] \notin {"take", "clear"}
      BY <1>3, Names DEF SensorLockCache, CacheFree, TravelInv, CacheInv
    <3> QED
      BY <3>1, <3>2 DEF CacheInv, At
  <2>4. Conservation'
    BY <1>3, TravelKept
    DEF SensorLockCache, TravelInv, robotVars, lineVars, cacheVars, returnVars, historyVars
  <2> QED
    BY <2>2, <2>3, <2>4 DEF TravelInv
<1>4. CASE SensorLoad
  <2>1. At(Sensor, "load")
    BY <1>4 DEF SensorLoad
  <2>2. ResumeInv' /\ DeadInv' /\ SessionInv' /\ LineInv'
    BY <1>0, <1>4, <2>1, SensorMoves
    DEF SensorLoad, At, Goto, Quiet, InCall, InLine, lineVars, libraryVars
  <2>3. CacheInv'
    <3>1. pc'[Sensor] = "store" /\ \A u \in Callers : pc'[u] = pc[u]
      BY <1>4, Names DEF SensorLoad, Goto, TypeOK, ControlTypes
    <3> QED
      BY <1>4, <2>1, <3>1
      DEF SensorLoad, TravelInv, CacheInv, At, Only, libraryVars, returnVars
  <2>4. Conservation'
    BY <1>4, TravelKept
    DEF SensorLoad, TravelInv, robotVars, lineVars, returnVars, historyVars
  <2> QED
    BY <2>2, <2>3, <2>4 DEF TravelInv
<1>5. CASE SensorFault
  <2>1. \A u \in Threads : pc'[u] = "dead"
    BY <1>5 DEF SensorFault
  <2>2. ResumeInv' /\ DeadInv'
    BY <2>1, Names DEF ResumeInv, DeadInv, At, InCall, InLine
  <2>3. SessionInv'
    BY <2>1, Names DEF SessionInv, Active, Quiet
  <2>4. LineInv'
    BY <1>5, <2>1
    DEF SensorFault, sharedVars, lineVars, TypeOK, LineTypes, TravelInv, LineInv,
        ReplyToAsker, At
  <2>5. CacheInv'
    BY <2>1, Names DEF CacheInv, At
  <2>6. Conservation'
    BY <1>5, TravelKept
    DEF SensorFault, TravelInv, sharedVars, robotVars, lineVars, cacheVars, returnVars,
        historyVars
  <2> QED
    BY <2>2, <2>3, <2>4, <2>5, <2>6 DEF TravelInv
<1>6. CASE SensorStore
  <2>1. At(Sensor, "store") /\ loaded = cache
    BY <1>6 DEF SensorStore, TravelInv, CacheInv
  <2>2. ResumeInv' /\ DeadInv' /\ SessionInv' /\ LineInv'
    <3>1. PICK l \in {"done", "await"} : pc' = [pc EXCEPT ![Sensor] = l]
      BY <1>6 DEF SensorStore, Goto
    <3> QED
      BY <1>0, <1>6, <2>1, <3>1, SensorMoves
      DEF SensorStore, At, Quiet, InCall, InLine, lineVars
  <2>3. result'[Sensor] = Zero /\ \A u \in Callers : result'[u] = result[u]
    BY <1>6, Names DEF SensorStore, TypeOK, ReturnTypes
  <2>4. CacheInv'
    <3>1. /\ pc'[Sensor] \in {"done", "await"}
          /\ \A u \in Callers : pc'[u] = pc[u]
      BY <1>6, Names DEF SensorStore, Goto, TypeOK, ControlTypes
    <3>2. \A u \in Callers : pc[u] \notin {"take", "clear"}
      BY <2>1, Names DEF At, TravelInv, CacheInv
    <3> QED
      BY <2>3, <3>1, <3>2 DEF CacheInv, At
  <2>5. Conservation'
    <3>1. /\ cache' = Plus(cache, result[Sensor])
          /\ UNCHANGED <<travelled, pending, answer, delivered, lost>>
      BY <1>6, <2>1 DEF SensorStore, robotVars, lineVars, historyVars
    <3> QED
      BY <2>3, <3>1, Counters DEF TravelInv, Conservation, Plus, Zero
  <2> QED
    BY <2>2, <2>4, <2>5 DEF TravelInv
<1> QED
  BY <1>1, <1>2, <1>3, <1>4, <1>5, <1>6 DEF SensorStep

\* The getters keep it: the reading and the clearing are under one lock.
LEMMA TravelCache ==
  ASSUME TypeOK, TravelInv, NEW t \in Callers, CacheStep(t)
  PROVE  TravelInv'
<1>0. /\ ret = [ret EXCEPT ![t] = ret[t]]
      /\ want = [want EXCEPT ![t] = want[t]]
  BY DEF TypeOK, ControlTypes
<1>1. ASSUME pc[t] \in InCall \ InLine, NEW l \in {"take", "clear", ret[t]}, Goto(t, l),
             UNCHANGED <<ret, want, session, wire, answer, createOwner>>
      PROVE  ResumeInv' /\ DeadInv' /\ SessionInv' /\ LineInv'
  <2> USE Names DEF TypeOK, TravelInv, Goto
  <2>1. /\ ret[t] \in StartPlaces \union StopPlaces \union WorkPlaces
        /\ Active(t) /\ Fits(ret[t])
    BY <1>1 DEF ResumeInv, SessionInv, Active, Place, InCall, InLine
  <2>2. /\ ret[t] \notin InCall /\ ret[t] # "dead" /\ pc[t] # "dead"
        /\ pc[t] \notin {"write", "read", "settle", "shutDown", "join"}
        /\ l \notin {"write", "read", "dead"}
    BY <1>1, <2>1 DEF InCall, InLine, StartPlaces, StopPlaces, WorkPlaces
  <2>3. ResumeInv' /\ DeadInv'
    BY <1>0, <1>1, <2>1, <2>2, ResumeKept
  <2>4. SessionInv'
    <3>1. Fits(IF l \in InCall THEN ret[t] ELSE l)
      BY <1>1, <2>1, <2>2 DEF InCall
    <3> QED
      BY <1>0, <1>1, <2>1, <2>2, <3>1, SessionKept
  <2>5. LineInv'
    BY <1>0, <1>1, <2>2, LineKept
  <2> QED
    BY <2>3, <2>4, <2>5
<1>2. CASE LockCache(t)
  <2>1. ResumeInv' /\ DeadInv' /\ SessionInv' /\ LineInv'
    BY <1>1, <1>2 DEF LockCache, At, InCall, InLine, lineVars
  <2>2. CacheInv'
    <3>1. pc'[t] = "take" /\ \A u \in Threads \ {t} : pc'[u] = pc[u]
      BY <1>2, Names DEF LockCache, Goto, TypeOK, ControlTypes
    <3>2. /\ \A u \in Callers : pc[u] \notin {"take", "clear"}
          /\ pc[Sensor] \notin {"load", "store"}
      BY <1>2, Names DEF LockCache, CacheFree, TravelInv, CacheInv
    <3> QED
      BY <1>2, <3>1, <3>2, Names
      DEF LockCache, TravelInv, CacheInv, At, cacheVars, returnVars
  <2>3. Conservation'
    BY <1>2, TravelKept
    DEF LockCache, TravelInv, robotVars, lineVars, cacheVars, returnVars, historyVars
  <2> QED
    BY <2>1, <2>2, <2>3 DEF TravelInv
<1>3. CASE TakeCache(t)
  <2>1. ResumeInv' /\ DeadInv' /\ SessionInv' /\ LineInv'
    BY <1>1, <1>3 DEF TakeCache, At, InCall, InLine, sharedVars, lineVars, libraryVars
  <2>2. /\ pc[t] = "take" /\ pc'[t] = "clear" /\ result'[t] = Only(cache, want[t])
        /\ \A u \in Threads \ {t} : pc'[u] = pc[u] /\ result'[u] = result[u]
    BY <1>3, Names DEF TakeCache, At, Goto, TypeOK, ControlTypes, ReturnTypes
  <2>3. CacheInv'
    BY <1>3, <2>2, Names
    DEF TakeCache, TravelInv, CacheInv, At, Only, sharedVars, cacheVars, libraryVars
  <2>4. Conservation'
    BY <1>3, <2>2, Names, TravelKept
    DEF TakeCache, TravelInv, sharedVars, robotVars, lineVars, cacheVars, historyVars
  <2> QED
    BY <2>1, <2>3, <2>4 DEF TravelInv
<1>4. CASE ClearCache(t)
  <2>1. ResumeInv' /\ DeadInv' /\ SessionInv' /\ LineInv'
    BY <1>1, <1>4 DEF ClearCache, At, InCall, InLine, lineVars
  <2>2. /\ pc[t] = "clear" /\ result[t] = Only(cache, want[t])
        /\ cache' = Only(cache, Channels \ want[t])
    BY <1>4 DEF ClearCache, At, TravelInv, CacheInv
  <2>3. CacheInv'
    <3>1. /\ pc'[t] = ret[t] /\ ret[t] \notin {"take", "clear"}
          /\ \A u \in Threads \ {t} : pc'[u] = pc[u]
      BY <1>4, <2>2, Names
      DEF ClearCache, Goto, TypeOK, ControlTypes, TravelInv, ResumeInv, InCall, InLine,
          StartPlaces, StopPlaces, WorkPlaces
    <3>2. /\ \A u \in Callers \ {t} : pc[u] \notin {"take", "clear"}
          /\ pc[Sensor] \notin {"load", "store"}
      BY <2>2, Names DEF TravelInv, CacheInv
    <3>3. At(Sensor, "init") => cache' = Zero
      BY <2>2 DEF TravelInv, CacheInv, Only, Zero
    <3> QED
      BY <1>4, <3>1, <3>2, <3>3, Names
      DEF ClearCache, TravelInv, CacheInv, At, returnVars
  <2>4. Conservation'
    <3>1. /\ delivered' = Plus(delivered, Only(cache, want[t]))
          /\ UNCHANGED <<travelled, pending, answer, result, lost>>
      BY <1>4, <2>2 DEF ClearCache, robotVars, lineVars, returnVars
    <3>2. ASSUME NEW c \in Channels
          PROVE  cache'[c] + delivered'[c] = cache[c] + delivered[c]
      BY <2>2, <3>1, Counters DEF Plus, Only
    <3>3. ASSUME NEW c \in Channels
          PROVE  cache'[c] \in Int /\ delivered'[c] \in Int
      BY <2>2, <3>1, Counters DEF Plus, Only
    <3> QED
      BY <3>1, <3>2, <3>3, Counters DEF TravelInv, Conservation
  <2> QED
    BY <2>1, <2>3, <2>4 DEF TravelInv
<1> QED
  BY <1>2, <1>3, <1>4 DEF CacheStep

\* Where waitDistance and its callers go next from one of their own places.
LEMMA WaitMoves ==
  ASSUME TypeOK, TravelInv, NEW t \in Callers, NEW l, NEW r, NEW W,
         pc' = [pc EXCEPT ![t] = l], ret' = [ret EXCEPT ![t] = r],
         want' = [want EXCEPT ![t] = W],
         UNCHANGED <<sharedVars, result>>,
         pc[t] \in (WorkPlaces \ {"returned"}) \union {"poll", "judge", "decide"},
         \/ l \in {"poll", "judge", "decide", "returned"}
         \/ l \in {"lockLine", "lockCache"} /\ r \in WorkPlaces
  PROVE  TravelInv'
<1>1. Active(t) /\ Fits(pc[t])
  BY DEF TravelInv, SessionInv, Active, Place, WorkPlaces, InCall, InLine
<1>2. session \notin {"closed", "starting", "stopping"}
  BY <1>1 DEF Fits, WorkPlaces, StartPlaces, StopPlaces
<1>3. Fits(IF l \in InCall THEN r ELSE l)
  BY <1>2 DEF Fits, WorkPlaces, StartPlaces, StopPlaces, InCall, InLine
<1> QED
  BY <1>1, <1>3, OwnStep
  DEF sharedVars, robotVars, lineVars, libraryVars, cacheVars, historyVars, WorkPlaces,
      InCall, InLine

\* The waits keep it: what a getter has given them is theirs to add.
LEMMA TravelWait ==
  ASSUME TypeOK, TravelInv, NEW t \in Callers, WaitStep(t)
  PROVE  TravelInv'
<1>0. /\ ret = [ret EXCEPT ![t] = ret[t]]
      /\ want = [want EXCEPT ![t] = want[t]]
  BY DEF TypeOK, ControlTypes
<1> USE WaitMoves DEF Goto, Send, Fetch, At, WorkPlaces, returnVars
<1>1. CASE Driven(t)
  BY <1>0, <1>1 DEF Driven
<1>2. CASE Reset(t)
  BY <1>0, <1>2 DEF Reset
<1>3. CASE Poll(t)
  BY <1>3 DEF Poll
<1>4. CASE Polled(t)
  BY <1>0, <1>4 DEF Polled, Progress
<1>5. CASE Printed(t)
  BY <1>0, <1>5 DEF Printed
<1>6. CASE Judge(t)
  BY <1>0, <1>6 DEF Judge
<1>7. CASE OverSeen(t)
  BY <1>7 DEF OverSeen
<1>8. CASE BumpSeen(t)
  BY <1>0, <1>8 DEF BumpSeen
<1>9. CASE Decide(t)
  BY <1>0, <1>9 DEF Decide, Finish
<1> QED
  BY <1>1, <1>2, <1>3, <1>4, <1>5, <1>6, <1>7, <1>8, <1>9 DEF WaitStep

\* A program thread takes up an operation inside a session.
LEMMA CallMoves ==
  ASSUME TypeOK, TravelInv, NEW t \in Callers, NEW l, NEW r, NEW W,
         pc' = [pc EXCEPT ![t] = l], ret' = [ret EXCEPT ![t] = r],
         want' = [want EXCEPT ![t] = W],
         UNCHANGED <<sharedVars, result>>,
         pc[t] = "idle", InSession,
         l \in {"lockLine", "lockCache"}, r \in WorkPlaces
  PROVE  TravelInv'
<1>1. Fits(IF l \in InCall THEN r ELSE l)
  BY DEF Fits, InSession, WorkPlaces, StartPlaces, StopPlaces, InCall, InLine
<1> QED
  BY <1>1, OwnStep
  DEF sharedVars, robotVars, lineVars, libraryVars, cacheVars, historyVars, InSession

\* A program thread starts or stops the interface: it is alone.
LEMMA SessionMoves ==
  ASSUME TypeOK, TravelInv, NEW t \in Callers, NEW l, NEW r,
         pc' = [pc EXCEPT ![t] = l], ret' = [ret EXCEPT ![t] = r],
         pc[t] # "dead", l # "dead",
         l \in InCall => r \in StartPlaces \union StopPlaces,
         \A u \in Callers \ {t} : ~Active(u),
         l \notin {"idle", "returned"} => Fits(IF l \in InCall THEN r ELSE l)',
         ~Quiet => session' = "threaded" \/ l \in {"settle", "shutDown", "join"}
  PROVE  ResumeInv' /\ DeadInv' /\ SessionInv'
<1> USE Names DEF TypeOK, TravelInv
<1>1. ResumeInv' /\ DeadInv'
  BY ResumeKept
<1>2. /\ pc'[t] = l /\ ret'[t] = r
      /\ \A u \in Threads \ {t} : pc'[u] = pc[u]
  BY DEF ControlTypes
<1>3. \A u \in Callers \ {t} : ~Active(u)'
  BY <1>2 DEF Active
<1>4. Active(t)' => Fits(Place(t))'
  BY <1>2 DEF Active, Place, Fits
<1>5. Quiet' = Quiet
  BY <1>2 DEF Quiet
<1> QED
  BY <1>1, <1>2, <1>3, <1>4, <1>5 DEF SessionInv

\* With nobody on the line create_mutex may change.
LEMMA LineEmpty ==
  ASSUME TypeOK, TravelInv,
         \A u \in Threads : pc[u] \notin {"write", "read", "dead"},
         \A u \in Threads : pc'[u] \notin {"write", "read"},
         UNCHANGED <<wire, answer>>
  PROVE  LineInv'
<1>1. wire.state = "idle"
  BY DEF TypeOK, LineTypes, TravelInv, LineInv
<1> QED
  BY <1>1 DEF TravelInv, LineInv, ReplyToAsker, At

\* In a start or a stop one caller is active, and the sensor thread lives only
\* around it.
LEMMA AloneInSession ==
  ASSUME TypeOK, TravelInv, NEW t \in Callers, pc[t] \in StartPlaces \union StopPlaces
  PROVE  /\ \A u \in Callers \ {t} : ~Active(u)
         /\ pc[t] \in StartPlaces => session = "starting"
         /\ pc[t] \in StopPlaces => session = "stopping"
         /\ pc[t] \notin {"settle", "shutDown", "join"} => Quiet
         /\ \A u \in Callers : pc[u] \notin InCall
         /\ \A u \in Threads : pc[u] # "dead"
<1> USE Names DEF TravelInv
<1>1. Active(t) /\ Place(t) = pc[t] /\ Fits(pc[t])
  BY DEF SessionInv, Active, Place, StartPlaces, StopPlaces, InCall, InLine
<1>2. /\ pc[t] \in StartPlaces => session = "starting"
      /\ pc[t] \in StopPlaces => session = "stopping"
  BY <1>1 DEF Fits
<1>3. \A u \in Callers \ {t} : ~Active(u)
  BY <1>1, <1>2 DEF SessionInv
<1>4. \A u \in Callers : pc[u] \notin InCall
  BY <1>3 DEF Active, InCall, InLine, StartPlaces, StopPlaces
<1>5. pc[t] \notin {"settle", "shutDown", "join"} => Quiet
  BY <1>2, <1>3 DEF SessionInv, Active
<1>6. \A u \in Threads : pc[u] # "dead"
  BY DEF DeadInv, At, StartPlaces, StopPlaces
<1> QED
  BY <1>2, <1>3, <1>4, <1>5, <1>6

\* The beginning and the end of a call keep it.
LEMMA TravelCall ==
  ASSUME TypeOK, TravelInv, NEW t \in Callers, CallStep(t)
  PROVE  TravelInv'
<1>0. /\ ret = [ret EXCEPT ![t] = ret[t]]
      /\ want = [want EXCEPT ![t] = want[t]]
      /\ result = [result EXCEPT ![t] = result[t]]
  BY DEF TypeOK, ControlTypes, ReturnTypes
<1> USE DEF Begin, Goto, Send, Fetch, ReadSensor, At, returnVars
<1>1. CASE CallGet(t)
  BY <1>1, CallMoves DEF CallGet, WorkPlaces
<1>2. CASE CallReadSensor(t)
  BY <1>2, CallMoves DEF CallReadSensor, WorkPlaces
<1>3. CASE CallDrive(t)
  BY <1>3, CallMoves DEF CallDrive, WorkPlaces
<1>4. CASE CallWait(t)
  <2>1. PICK c \in Channels : pc[t] = "idle" /\ Fetch(t, {c}, "reset")
    BY <1>4 DEF CallWait
  <2>2. InSession /\ UNCHANGED <<sharedVars, result>>
    BY <1>4 DEF CallWait
  <2> QED
    BY <2>1, <2>2, CallMoves DEF WorkPlaces
<1>5. CASE CallDriveFor(t)
  BY <1>5, CallMoves DEF CallDriveFor, WorkPlaces
<1>6. CASE startOI(t)
  <2>1. PICK l, r, W : /\ pc' = [pc EXCEPT ![t] = l] /\ ret' = [ret EXCEPT ![t] = r]
                       /\ want' = [want EXCEPT ![t] = W]
                       /\ \/ l = "returned" /\ session' = session
                          \/ l = "lockLine" /\ r = "passiveSent" /\ session' = "starting"
    <3>1. CASE fd = 0 /\ line = "down"
      BY <1>0, <1>6, <3>1 DEF startOI
    <3>2. CASE ~(fd = 0 /\ line = "down")
      BY <1>6, <3>2 DEF startOI
    <3> QED
      BY <3>1, <3>2
  <2>2. /\ pc[t] = "idle" /\ session = "closed"
        /\ \A u \in Callers : ~Active(u)
        /\ Quiet
        /\ UNCHANGED <<wire, answer, cacheOwner, cache, loaded, result, travelled,
                       pending, delivered, lost>>
    BY <1>6
    DEF startOI, TravelInv, SessionInv, Active, Fits, robotVars, lineVars, cacheVars,
        historyVars
  <2>3. ResumeInv' /\ DeadInv' /\ SessionInv'
    <3>1. l = "lockLine" => Fits(r)'
      BY <2>1 DEF Fits, StartPlaces, StopPlaces
    <3> QED
      BY <2>1, <2>2, <3>1, SessionMoves DEF InCall, InLine, StartPlaces, Fits
  <2>4. LineInv'
    <3>1. \A u \in Threads : pc[u] \notin {"write", "read", "dead"}
      BY <2>2, Names DEF Active, Quiet, TravelInv, DeadInv
    <3>2. \A u \in Threads : pc'[u] \notin {"write", "read"}
      BY <2>1, <3>1 DEF TypeOK, ControlTypes
    <3> QED
      BY <2>2, <3>1, <3>2, LineEmpty
  <2>5. CacheInv'
    BY <1>0, <2>1, <2>2, CacheKept DEF TypeOK, TravelInv
  <2>6. Conservation'
    BY <2>2, TravelKept DEF TravelInv
  <2> QED
    BY <2>3, <2>4, <2>5, <2>6 DEF TravelInv
<1>7. CASE CallStop(t)
  <2>1. PICK l, r, W : /\ pc' = [pc EXCEPT ![t] = l] /\ ret' = [ret EXCEPT ![t] = r]
                       /\ want' = [want EXCEPT ![t] = W]
                       /\ \/ session = "direct" /\ l = "lockLine" /\ r = "goodbye"
                          \/ session = "threaded" /\ l = "shutDown"
    <3>1. CASE session = "direct" /\ Send(t, "passive", "goodbye")
      BY <3>1
    <3>2. CASE session = "threaded" /\ Goto(t, "shutDown") /\ UNCHANGED <<ret, frame, want>>
      <4>1. /\ ret' = [ret EXCEPT ![t] = ret[t]]
            /\ want' = [want EXCEPT ![t] = want[t]]
        BY <1>0, <3>2
      <4> QED
        BY <3>2, <4>1
    <3> QED
      BY <1>7, <3>1, <3>2 DEF CallStop
  <2>2. /\ \A u \in Callers : pc[u] = "idle"
        /\ session' = "stopping"
        /\ UNCHANGED <<wire, answer, createOwner, cacheOwner, cache, loaded, result,
                       travelled, pending, delivered, lost>>
    BY <1>7 DEF CallStop, robotVars, lineVars, cacheVars, historyVars
  <2>3. session = "direct" => Quiet
    BY <2>2 DEF TravelInv, SessionInv
  <2>4. ResumeInv' /\ DeadInv' /\ SessionInv'
    <3>1. Fits(IF l \in InCall THEN r ELSE l)'
      BY <2>1, <2>2 DEF Fits, InCall, InLine, StartPlaces, StopPlaces
    <3>2. l \in InCall => r \in StartPlaces \union StopPlaces
      BY <2>1 DEF InCall, InLine, StopPlaces
    <3> QED
      BY <2>1, <2>2, <2>3, <3>1, <3>2, SessionMoves DEF Active
  <2>5. LineInv'
    BY <2>1, <2>2, Names, LineKept DEF TypeOK, TravelInv
  <2>6. CacheInv'
    BY <1>0, <2>1, <2>2, CacheKept DEF TypeOK, TravelInv
  <2>7. Conservation'
    BY <2>2, TravelKept DEF TravelInv
  <2> QED
    BY <2>4, <2>5, <2>6, <2>7 DEF TravelInv
<1> QED
  BY <1>1, <1>2, <1>3, <1>4, <1>5, <1>6, <1>7 DEF CallStep

\* Starts and stops keep it: a start clears a cache that nobody is reading.
LEMMA TravelSession ==
  ASSUME TypeOK, TravelInv, NEW t \in Callers, SessionStep(t)
  PROVE  TravelInv'
<1>0. /\ ret = [ret EXCEPT ![t] = ret[t]]
      /\ want = [want EXCEPT ![t] = want[t]]
      /\ result = [result EXCEPT ![t] = result[t]]
  BY DEF TypeOK, ControlTypes, ReturnTypes
<1>1. CASE StartFrames(t)
  <2>1. PICK l \in {"safeSent", "ledSent"} :
          /\ pc' = [pc EXCEPT ![t] = "lockLine"] /\ ret' = [ret EXCEPT ![t] = l]
          /\ want' = [want EXCEPT ![t] = {}]
    BY <1>1 DEF StartFrames, Send, Goto
  <2>2. pc[t] \in {"passiveSent", "safeSent"}
    BY <1>1 DEF StartFrames, At
  <2>3. Active(t) /\ Fits(l)
    BY <2>2, AloneInSession DEF Active, Fits, StartPlaces, StopPlaces
  <2> QED
    BY <1>1, <2>1, <2>2, <2>3, OwnStep
    DEF StartFrames, sharedVars, robotVars, lineVars, libraryVars, cacheVars, historyVars,
        returnVars, InCall, InLine, StartPlaces
<1>2. CASE StartedDirect(t)
  <2>1. /\ pc[t] = "ledSent" /\ pc' = [pc EXCEPT ![t] = "returned"]
        /\ pc[t] \notin {"write", "read", "dead"}
        /\ "returned" \notin {"write", "read", "take", "clear"}
    BY <1>2 DEF StartedDirect, At, Goto
  <2>2. ResumeInv' /\ DeadInv' /\ SessionInv'
    BY <1>0, <1>2, <2>1, AloneInSession, SessionMoves
    DEF StartedDirect, InCall, InLine, StartPlaces
  <2>3. LineInv'
    BY <1>0, <1>2, <2>1, Names, LineKept DEF StartedDirect, TypeOK, TravelInv, lineVars
  <2>4. CacheInv'
    <3>1. /\ want' = [want EXCEPT ![t] = want[t]]
          /\ result' = [result EXCEPT ![t] = result[t]]
          /\ UNCHANGED <<cache, loaded, cacheOwner>>
      BY <1>0, <1>2 DEF StartedDirect, cacheVars
    <3> QED
      BY <2>1, <3>1, CacheKept DEF TypeOK, TravelInv
  <2>5. Conservation'
    BY <1>2, TravelKept
    DEF StartedDirect, TravelInv, robotVars, lineVars, cacheVars, historyVars
  <2> QED
    BY <2>2, <2>3, <2>4, <2>5 DEF TravelInv
<1>3. CASE startOI_MT(t)
  <2>1. /\ pc[t] = "ledSent" /\ pc'[t] = "settle" /\ pc'[Sensor] = "init"
        /\ \A u \in Callers \ {t} : pc'[u] = pc[u]
        /\ UNCHANGED <<ret, want, session, wire, answer, createOwner, result, loaded,
                       travelled, pending, delivered>>
        /\ cache' = Zero /\ lost' = Plus(lost, cache)
    BY <1>3, Names
    DEF startOI_MT, At, TypeOK, ControlTypes, robotVars, lineVars, returnVars
  <2>2. /\ \A u \in Callers \ {t} : ~Active(u)
        /\ session = "starting" /\ Quiet
        /\ \A u \in Threads : pc[u] # "dead"
    BY <2>1, AloneInSession DEF StartPlaces
  <2>3. ResumeInv' /\ DeadInv'
    <3>1. \A u \in Callers : pc'[u] \notin InCall
      BY <2>1, <2>2 DEF Active, InCall, InLine
    <3>2. \A u \in Threads : pc'[u] # "dead"
      BY <2>1, <2>2, Names
    <3> QED
      BY <2>1, <3>1, <3>2 DEF ResumeInv, DeadInv, At, InCall, InLine
  <2>4. SessionInv'
    <3>1. \A u \in Callers \ {t} : ~Active(u)'
      BY <2>1, <2>2 DEF Active
    <3>2. Fits(Place(t))'
      BY <2>1, <2>2 DEF Fits, Place, InCall, InLine, StartPlaces, StopPlaces
    <3> QED
      BY <2>1, <3>1, <3>2 DEF SessionInv
  <2>5. LineInv'
    <3>1. \A u \in Threads : pc[u] \notin {"write", "read", "dead"}
      BY <2>1, <2>2, Names DEF Active, Quiet
    <3>2. \A u \in Threads : pc'[u] \notin {"write", "read"}
      BY <2>1, <3>1, Names
    <3> QED
      BY <2>1, <3>1, <3>2, LineEmpty
  <2>6. result[Sensor] = Zero
    BY <2>2, Names DEF TravelInv, CacheInv, Quiet
  <2>7. CacheInv'
    <3>1. \A u \in Callers : pc'[u] \notin {"take", "clear"}
      BY <2>1, <2>2 DEF Active
    <3> QED
      BY <2>1, <2>6, <3>1 DEF CacheInv, At
  <2>8. Conservation'
    BY <2>1, <2>6, Counters DEF TravelInv, Conservation, Zero, Plus
  <2> QED
    BY <2>3, <2>4, <2>5, <2>7, <2>8 DEF TravelInv
<1>4. CASE Settle(t)
  <2>1. /\ pc[t] = "settle" /\ pc' = [pc EXCEPT ![t] = "returned"]
        /\ pc[t] \notin {"write", "read", "dead"}
        /\ "returned" \notin {"write", "read", "take", "clear"}
    BY <1>4 DEF Settle, At, Goto
  <2>2. ResumeInv' /\ DeadInv' /\ SessionInv'
    BY <1>0, <1>4, <2>1, AloneInSession, SessionMoves
    DEF Settle, InCall, InLine, StartPlaces
  <2>3. LineInv'
    BY <1>0, <1>4, <2>1, Names, LineKept DEF Settle, TypeOK, TravelInv, lineVars
  <2>4. CacheInv'
    <3>1. /\ want' = [want EXCEPT ![t] = want[t]]
          /\ result' = [result EXCEPT ![t] = result[t]]
          /\ UNCHANGED <<cache, loaded, cacheOwner>>
      BY <1>0, <1>4 DEF Settle, cacheVars
    <3> QED
      BY <2>1, <3>1, CacheKept DEF TypeOK, TravelInv
  <2>5. Conservation'
    BY <1>4, TravelKept
    DEF Settle, TravelInv, robotVars, lineVars, cacheVars, historyVars
  <2> QED
    BY <2>2, <2>3, <2>4, <2>5 DEF TravelInv
<1>5. CASE ShutDown(t)
  <2>1. /\ pc[t] = "shutDown" /\ pc' = [pc EXCEPT ![t] = "join"]
        /\ pc[t] \notin {"write", "read", "dead"}
        /\ "join" \notin {"write", "read", "take", "clear"}
    BY <1>5 DEF ShutDown, At, Goto
  <2>2. ResumeInv' /\ DeadInv' /\ SessionInv'
    <3>1. session = "stopping" /\ Fits("join")'
      BY <1>5, <2>1, AloneInSession DEF ShutDown, Fits, StopPlaces, StartPlaces
    <3> QED
      BY <1>0, <1>5, <2>1, <3>1, AloneInSession, SessionMoves
      DEF ShutDown, InCall, InLine, StopPlaces
  <2>3. LineInv'
    BY <1>0, <1>5, <2>1, Names, LineKept DEF ShutDown, TypeOK, TravelInv, lineVars
  <2>4. CacheInv'
    <3>1. cacheOwner' = cacheOwner
      BY <1>5 DEF ShutDown, CacheFree, UnlockedForJoin
    <3>2. /\ want' = [want EXCEPT ![t] = want[t]]
          /\ result' = [result EXCEPT ![t] = result[t]]
          /\ UNCHANGED <<cache, loaded, cacheOwner>>
      BY <1>0, <1>5, <3>1 DEF ShutDown, returnVars
    <3> QED
      BY <2>1, <3>2, CacheKept DEF TypeOK, TravelInv
  <2>5. Conservation'
    BY <1>5, TravelKept
    DEF ShutDown, TravelInv, robotVars, lineVars, returnVars, historyVars
  <2> QED
    BY <2>2, <2>3, <2>4, <2>5 DEF TravelInv
<1>6. CASE Join(t)
  <2>1. /\ pc[t] = "join" /\ pc' = [pc EXCEPT ![t] = "lockLine"]
        /\ ret' = [ret EXCEPT ![t] = "goodbye"] /\ want' = [want EXCEPT ![t] = {}]
        /\ pc[t] \notin {"write", "read", "dead"}
        /\ "lockLine" \notin {"write", "read"} /\ pc[Sensor] = "done"
    BY <1>6 DEF Join, Joined, Send, At, Goto
  <2>2. ResumeInv' /\ DeadInv' /\ SessionInv'
    <3>1. session = "stopping" /\ Fits("goodbye")'
      BY <1>6, <2>1, AloneInSession DEF Join, Fits, StopPlaces, StartPlaces
    <3> QED
      BY <1>6, <2>1, <3>1, AloneInSession, SessionMoves
      DEF Join, Quiet, InCall, InLine, StopPlaces
  <2>3. LineInv'
    BY <1>6, <2>1, Names, LineKept DEF Join, TypeOK, TravelInv, lineVars
  <2>4. CacheInv'
    <3>1. \A u \in Callers : pc'[u] \notin {"take", "clear"}
      BY <2>1, AloneInSession DEF TypeOK, ControlTypes, StopPlaces, InCall
    <3>2. pc'[Sensor] = "done" /\ result'[Sensor] = Zero
      BY <1>6, <2>1, Names
      DEF Join, TypeOK, ControlTypes, TravelInv, CacheInv, returnVars
    <3> QED
      BY <3>1, <3>2 DEF CacheInv, At
  <2>5. Conservation'
    BY <1>6, TravelKept
    DEF Join, TravelInv, robotVars, lineVars, cacheVars, returnVars, historyVars
  <2> QED
    BY <2>2, <2>3, <2>4, <2>5 DEF TravelInv
<1>7. CASE Goodbye(t)
  <2>1. /\ pc[t] = "goodbye" /\ pc' = [pc EXCEPT ![t] = "lockLine"]
        /\ ret' = [ret EXCEPT ![t] = "stopSent"] /\ want' = [want EXCEPT ![t] = {}]
    BY <1>7 DEF Goodbye, Send, At, Goto
  <2>2. Active(t) /\ Fits("stopSent")
    BY <2>1, AloneInSession DEF Active, Fits, StartPlaces, StopPlaces
  <2> QED
    BY <1>7, <2>1, <2>2, OwnStep
    DEF Goodbye, sharedVars, robotVars, lineVars, libraryVars, cacheVars, historyVars,
        returnVars, InCall, InLine, StopPlaces
<1>8. CASE stopOI(t)
  <2>1. /\ pc[t] = "stopSent" /\ pc' = [pc EXCEPT ![t] = "returned"]
        /\ pc[t] \notin {"write", "read", "dead"}
        /\ "returned" \notin {"write", "read", "take", "clear"}
    BY <1>8 DEF stopOI, At, Goto
  <2>2. Quiet /\ \A u \in Callers \ {t} : ~Active(u)
    BY <2>1, AloneInSession DEF StopPlaces
  <2>3. ResumeInv' /\ DeadInv' /\ SessionInv'
    BY <1>0, <1>8, <2>1, <2>2, SessionMoves DEF stopOI, InCall, InLine
  <2>4. LineInv'
    <3>1. \A u \in Threads : pc[u] \notin {"write", "read", "dead"}
      BY <2>1, <2>2, Names, AloneInSession DEF InCall, InLine, Quiet, StopPlaces
    <3>2. \A u \in Threads : pc'[u] \notin {"write", "read"}
      BY <2>1, <3>1 DEF TypeOK, ControlTypes
    <3> QED
      BY <1>8, <3>1, <3>2, LineEmpty DEF stopOI, lineVars
  <2>5. CacheInv'
    <3>1. /\ want' = [want EXCEPT ![t] = want[t]]
          /\ result' = [result EXCEPT ![t] = result[t]]
          /\ UNCHANGED <<cache, loaded, cacheOwner>>
      BY <1>0, <1>8 DEF stopOI, cacheVars, returnVars
    <3> QED
      BY <2>1, <3>1, CacheKept DEF TypeOK, TravelInv
  <2>6. Conservation'
    BY <1>8, TravelKept
    DEF stopOI, TravelInv, robotVars, lineVars, cacheVars, returnVars, historyVars
  <2> QED
    BY <2>3, <2>4, <2>5, <2>6 DEF TravelInv
<1>9. CASE Return(t)
  <2>1. /\ pc[t] = "returned" /\ pc' = [pc EXCEPT ![t] = "idle"]
        /\ pc[t] \notin {"write", "read", "dead"}
        /\ "idle" \notin {"write", "read", "take", "clear"}
        /\ ret' = [ret EXCEPT ![t] = "idle"] /\ want' = [want EXCEPT ![t] = {}]
        /\ result' = [result EXCEPT ![t] = Zero]
        /\ UNCHANGED <<session, wire, answer, createOwner, cacheOwner, cache, loaded,
                       travelled, pending, delivered, lost>>
    BY <1>9
    DEF Return, At, Goto, robotVars, lineVars, libraryVars, cacheVars
  <2>2. ResumeInv' /\ DeadInv'
    BY <2>1, Names, ResumeKept DEF TypeOK, TravelInv, InCall, InLine
  <2>3. SessionInv'
    BY <2>1, SessionKept DEF TypeOK, TravelInv
  <2>4. LineInv'
    BY <2>1, Names, LineKept DEF TypeOK, TravelInv
  <2>5. CacheInv'
    BY <2>1, CacheKept DEF TypeOK, TravelInv
  <2>6. Conservation'
    <3>1. result'[Sensor] = result[Sensor]
      BY <2>1, Names DEF TypeOK, ReturnTypes
    <3> QED
      BY <2>1, <3>1, TravelKept DEF TravelInv
  <2> QED
    BY <2>2, <2>3, <2>4, <2>5, <2>6 DEF TravelInv
<1> QED
  BY <1>1, <1>2, <1>3, <1>4, <1>5, <1>6, <1>7, <1>8, <1>9 DEF SessionStep

----------------------------------------------------------------------------
(* The theorems.                                                           *)

\* Every step keeps the travel invariant.
LEMMA TravelStep == TypeOK /\ TravelInv /\ [Next]_vars => TravelInv'
<1> SUFFICES ASSUME TypeOK, TravelInv, [Next]_vars
             PROVE  TravelInv'
  OBVIOUS
<1>1. CASE UNCHANGED vars
  <2>1. Conservation'
    BY <1>1, TravelKept
    DEF vars, TravelInv, robotVars, lineVars, cacheVars, returnVars, historyVars
  <2> QED
    BY <1>1, <2>1, SameInvs
    DEF vars, TravelInv, lineVars, libraryVars, cacheVars, returnVars
<1>2. CASE Next
  BY <1>2, TravelRobot, TravelLine, TravelSensor, TravelCache, TravelWait, TravelCall,
     TravelSession DEF Next
<1> QED
  BY <1>1, <1>2

\* In every behaviour the invariant of CreateOI_inv holds.
THEOREM TravelInvariant == Spec => []TravelInv
<1>1. Init => TravelInv
  BY TravelInit
<1>2. TypeOK /\ TravelInv /\ [Next]_vars => TravelInv'
  BY TravelStep
<1> QED
  BY <1>1, <1>2, TypeCorrect, PTL DEF Spec

\* No increment of the wheels is dropped or counted twice between the robot,
\* the line, the sensor thread's sample, the cache and the callers, for every
\* number of program threads and every length of behaviour
\* (createoi.c:218-291, 950-977, 1130-1167).
THEOREM TravelConserved == Spec => []Conservation
<1>1. TravelInv => Conservation
  BY DEF TravelInv
<1> QED
  BY <1>1, TravelInvariant, PTL

\* A reply is read by the thread whose query it answers (createoi.c:950-977).
THEOREM RepliesReachAskers == Spec => []ReplyToAsker
<1>1. TravelInv => ReplyToAsker
  BY DEF TravelInv, LineInv
<1> QED
  BY <1>1, TravelInvariant, PTL

\* Only a failing read and a new cache lose travel.
LEMMA WhatLoses ==
  ASSUME Next, lost' # lost
  PROVE  \/ line = "down"
         \/ \E t \in Callers : startOI_MT(t)
<1> USE DEF historyVars, sharedVars
<1>1. ASSUME Robot \/ Unplug \/ Post
      PROVE  FALSE
  BY <1>1 DEF Robot, Move, SafetyTrip, Answer, Unplug, Post
<1>2. ASSUME NEW t \in Threads, LineStep(t)
      PROVE  line = "down"
  BY <1>2
  DEF LineStep, LockLine, WriteFrame, WriteQuery, WriteFails, ReadReply, ReadFails,
      CreadGivesUp
<1>3. ASSUME SensorStep
      PROVE  FALSE
  BY <1>3
  DEF SensorStep, SensorInit, SensorPoll, SensorLockCache, SensorLoad, SensorFault,
      SensorStore
<1>4. ASSUME NEW t \in Callers, CacheStep(t)
      PROVE  FALSE
  BY <1>4 DEF CacheStep, LockCache, TakeCache, ClearCache
<1>5. ASSUME NEW t \in Callers, WaitStep(t)
      PROVE  FALSE
  BY <1>5
  DEF WaitStep, Driven, Reset, Poll, Polled, Printed, Judge, OverSeen, BumpSeen, Decide
<1>6. ASSUME NEW t \in Callers, CallStep(t)
      PROVE  FALSE
  BY <1>6
  DEF CallStep, CallGet, CallReadSensor, CallDrive, CallWait, CallDriveFor, startOI,
      CallStop
<1>7. ASSUME NEW t \in Callers, SessionStep(t)
      PROVE  startOI_MT(t)
  BY <1>7
  DEF SessionStep, StartFrames, StartedDirect, Settle, ShutDown, Join, Goodbye, stopOI,
      Return
<1> QED
  BY <1>1, <1>2, <1>3, <1>4, <1>5, <1>6, <1>7 DEF Next

\* While the cable is in, no query, no interleaving with the sensor thread and
\* no shutdown of it loses an increment (createoi.c:950-977, 1671-1687).
THEOREM NoTravelLost == Spec => NothingLostInSession
<1>1. TypeOK /\ TravelInv /\ [Next]_vars =>
        [line = "up" /\ session \in {"direct", "threaded", "stopping"}
           => lost' = lost]_vars
  <2> SUFFICES ASSUME TypeOK, TravelInv, Next, line = "up",
                      session \in {"direct", "threaded", "stopping"}
               PROVE  lost' = lost
    OBVIOUS
  <2>1. ASSUME NEW t \in Callers, startOI_MT(t)
        PROVE  session = "starting"
    BY <2>1, AloneInSession DEF startOI_MT, At, StartPlaces
  <2> QED
    BY <2>1, WhatLoses
<1> QED
  BY <1>1, TypeCorrect, TravelInvariant, PTL DEF Spec, NothingLostInSession
=============================================================================
