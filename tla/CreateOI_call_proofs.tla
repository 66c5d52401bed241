------------------------- MODULE CreateOI_call_proofs -------------------------
(***************************************************************************)
(* Proofs about the calls of CreateOI: what a wait counts, how a drive     *)
(* ends, and that no thread uses a destroyed mutex.                        *)
(***************************************************************************)
EXTENDS CreateOI_proofs

----------------------------------------------------------------------------
(* What waitDistance counts.                                               *)

\* Nothing is counted before the first wait.
LEMMA CountInit == Init => CountInv
  BY Names DEF Init, CountInv, At

\* One step per action; the calls of the lower layer come back to places of
\* ResumeInv.
LEMMA CountStep == TypeOK /\ ResumeInv /\ CountInv /\ [Next]_vars => CountInv'
<1> SUFFICES ASSUME TypeOK, ResumeInv, CountInv, [Next]_vars PROVE CountInv'
  OBVIOUS
<1>0. ControlTypes /\ ArgTypes /\ WaitTypes
  BY DEF TypeOK
<1> USE <1>0, Names
    DEF CountInv, ControlTypes, ArgTypes, WaitTypes, At, Goto, InCall, InLine, sharedVars,
        robotVars, lineVars, libraryVars, cacheVars, controlVars, returnVars, argVars,
        waitVars, historyVars
<1>1. CASE Robot \/ Unplug \/ Post
  BY <1>1 DEF Robot, Move, SafetyTrip, Answer, Unplug, Post
<1>2. CASE SensorStep
  BY <1>2
  DEF SensorStep, SensorInit, SensorPoll, SensorLockCache, SensorLoad, SensorFault,
      SensorStore
<1>3. ASSUME NEW t \in Threads, LineStep(t)
      PROVE  CountInv'
  <2>1. CASE LockLine(t)
    BY <2>1 DEF LockLine
  <2>2. CASE WriteFrame(t)
    BY <2>2 DEF WriteFrame, ResumeInv, StartPlaces, StopPlaces, WorkPlaces
  <2>3. CASE WriteQuery(t)
    BY <2>3 DEF WriteQuery, QueryHolder
  <2>4. CASE WriteFails(t)
    BY <2>4 DEF WriteFails, ResumeInv, StartPlaces, StopPlaces, WorkPlaces
  <2>5. CASE ReadReply(t)
    BY <2>5 DEF ReadReply, ResumeInv, StartPlaces, StopPlaces, WorkPlaces
  <2>6. CASE ReadFails(t)
    BY <2>6 DEF ReadFails, ResumeInv, StartPlaces, StopPlaces, WorkPlaces
  <2> QED
    BY <1>3, <2>1, <2>2, <2>3, <2>4, <2>5, <2>6 DEF LineStep
<1>4. ASSUME NEW t \in Callers, CacheStep(t)
      PROVE  CountInv'
  <2>1. CASE LockCache(t)
    BY <2>1 DEF LockCache
  <2>2. CASE TakeCache(t)
    BY <2>2 DEF TakeCache
  <2>3. CASE ClearCache(t)
    BY <2>3 DEF ClearCache, ResumeInv, StartPlaces, StopPlaces, WorkPlaces
  <2> QED
    BY <1>4, <2>1, <2>2, <2>3 DEF CacheStep
<1>5. ASSUME NEW t \in Callers, WaitStep(t)
      PROVE  CountInv'
  <2>1. CASE Driven(t)
    BY <2>1 DEF Driven, Fetch
  <2>2. CASE Reset(t)
    BY <2>2 DEF Reset
  <2>3. CASE Poll(t)
    BY <2>3 DEF Poll, Fetch
  <2>4. CASE Polled(t)
    BY <2>4 DEF Polled, Progress, Fetch
  <2>5. CASE Printed(t)
    BY <2>5 DEF Printed
  <2>6. CASE Judge(t)
    BY <2>6 DEF Judge, Fetch
  <2>7. CASE OverSeen(t)
    BY <2>7 DEF OverSeen, Fetch
  <2>8. CASE BumpSeen(t)
    BY <2>8 DEF BumpSeen
  <2>9. CASE Decide(t)
    <3>1. UNCHANGED <<sharedVars, argVars, waitVars>>
      BY <2>9 DEF Decide
    <3>2. CASE op[t] = "driveFor" /\ Send(t, "halt", "returned")
      BY <3>1, <3>2 DEF Send
    <3>3. CASE op[t] = "wait" /\ Goto(t, "returned") /\ UNCHANGED <<ret, frame, want>>
      BY <3>1, <3>3
    <3>4. CASE Goto(t, "poll") /\ UNCHANGED <<ret, frame, want>>
      BY <3>1, <3>4
    <3> QED
      BY <2>9, <3>2, <3>3, <3>4 DEF Decide, Finish
  <2> QED
    BY <1>5, <2>1, <2>2, <2>3, <2>4, <2>5, <2>6, <2>7, <2>8, <2>9 DEF WaitStep
<1>6. ASSUME NEW t \in Callers, SessionStep(t)
      PROVE  CountInv'
  <2>1. CASE StartFrames(t)
    BY <2>1 DEF StartFrames, Send
  <2>2. CASE StartedDirect(t)
    BY <2>2 DEF StartedDirect
  <2>3. CASE startOI_MT(t)
    BY <2>3 DEF startOI_MT
  <2>4. CASE Settle(t)
    BY <2>4 DEF Settle
  <2>5. CASE ShutDown(t) \/ Join(t)
    BY <2>5 DEF ShutDown, UnlockedForJoin, CacheFree, Join, Joined, Send
  <2>6. CASE Goodbye(t)
    BY <2>6 DEF Goodbye, Send
  <2>7. CASE stopOI(t)
    BY <2>7 DEF stopOI
  <2>8. CASE Return(t)
    BY <2>8 DEF Return
  <2> QED
    BY <1>6, <2>1, <2>2, <2>3, <2>4, <2>5, <2>6, <2>7, <2>8 DEF SessionStep
<1>7. ASSUME NEW t \in Callers, CallStep(t)
      PROVE  CountInv'
  <2>1. CASE CallGet(t)
    BY <2>1 DEF CallGet, Begin, Fetch
  <2>2. CASE CallReadSensor(t)
    BY <2>2 DEF CallReadSensor, Begin, ReadSensor
  <2>3. CASE CallDrive(t)
    BY <2>3 DEF CallDrive, Begin, Send
  <2>4. CASE CallWait(t)
    BY <2>4 DEF CallWait, Begin, Fetch
  <2>5. CASE CallDriveFor(t)
    BY <2>5 DEF CallDriveFor, Begin, Send
  <2>6. CASE startOI(t)
    <3>1. /\ At(t, "idle") /\ \E o \in StartOps, c \in Channels :
               op' = [op EXCEPT ![t] = o] /\ chan' = [chan EXCEPT ![t] = "distance"]
          /\ UNCHANGED <<waitVars, historyVars>>
      BY <2>6 DEF startOI, Begin
    <3>2. CASE Goto(t, "returned") /\ UNCHANGED <<ret, frame>>
      BY <3>1, <3>2 DEF StartOps
    <3>3. CASE Send(t, "passive", "passiveSent") /\ UNCHANGED failed
      BY <3>1, <3>3 DEF StartOps, Send
    <3> QED
      BY <2>6, <3>2, <3>3 DEF startOI
  <2>7. CASE CallStop(t)
    BY <2>7 DEF CallStop, Begin, Send
  <2> QED
    BY <1>7, <2>1, <2>2, <2>3, <2>4, <2>5, <2>6, <2>7 DEF CallStep
<1>8. CASE UNCHANGED vars
  BY <1>8 DEF vars
<1> QED
  BY <1>1, <1>2, <1>3, <1>4, <1>5, <1>6, <1>7, <1>8 DEF Next

\* The count that waitDistance returns is the sum of what getDistance returned
\* to it, for any number of threads (createoi.c:1570-1595).
THEOREM DistanceCounted == Spec => []DistanceWaitExact
<1>1. CountInv => DistanceWaitExact
  BY DEF CountInv, DistanceWaitExact, WaitReturnsAll
<1>2. TravelInv => ResumeInv
  BY DEF TravelInv
<1> QED
  BY CountInit, CountStep, <1>1, <1>2, TypeCorrect, TravelInvariant, PTL DEF Spec

----------------------------------------------------------------------------
(* How driveDistance and turn end.                                         *)

\* No drive is under way at the start.
LEMMA HaltInit == Init => HaltInv
  BY Names DEF Init, HaltInv, At

\* One step per action.
LEMMA HaltStep == TypeOK /\ ResumeInv /\ HaltInv /\ [Next]_vars => HaltInv'
<1> SUFFICES ASSUME TypeOK, ResumeInv, HaltInv, [Next]_vars PROVE HaltInv'
  OBVIOUS
<1>0. ControlTypes /\ ArgTypes /\ ReturnTypes /\ HistoryTypes
  BY DEF TypeOK
<1> USE <1>0, Names
    DEF HaltInv, ControlTypes, ArgTypes, ReturnTypes, HistoryTypes, At, Goto, Place, InCall,
        InLine, StartPlaces, StopPlaces, sharedVars, robotVars, lineVars, libraryVars,
        cacheVars, controlVars,
        returnVars, argVars, waitVars, historyVars
<1>1. CASE Robot \/ Unplug \/ Post
  BY <1>1 DEF Robot, Move, SafetyTrip, Answer, Unplug, Post
<1>2. CASE SensorStep
  BY <1>2
  DEF SensorStep, SensorInit, SensorPoll, SensorLockCache, SensorLoad, SensorFault,
      SensorStore
<1>3. ASSUME NEW t \in Threads, LineStep(t)
      PROVE  HaltInv'
  <2>1. CASE LockLine(t)
    BY <2>1 DEF LockLine
  <2>2. CASE WriteFrame(t)
    BY <2>2 DEF WriteFrame, ResumeInv, StartPlaces, StopPlaces, WorkPlaces
  <2>3. CASE WriteQuery(t)
    BY <2>3 DEF WriteQuery, QueryHolder
  <2>4. CASE WriteFails(t)
    BY <2>4 DEF WriteFails, ResumeInv, StartPlaces, StopPlaces, WorkPlaces
  <2>5. CASE ReadReply(t)
    BY <2>5 DEF ReadReply, ResumeInv, StartPlaces, StopPlaces, WorkPlaces
  <2>6. CASE ReadFails(t)
    BY <2>6 DEF ReadFails, ResumeInv, StartPlaces, StopPlaces, WorkPlaces
  <2> QED
    BY <1>3, <2>1, <2>2, <2>3, <2>4, <2>5, <2>6 DEF LineStep
<1>4. ASSUME NEW t \in Callers, CacheStep(t)
      PROVE  HaltInv'
  <2>1. CASE LockCache(t)
    BY <2>1 DEF LockCache
  <2>2. CASE TakeCache(t)
    BY <2>2 DEF TakeCache
  <2>3. CASE ClearCache(t)
    BY <2>3 DEF ClearCache, ResumeInv, StartPlaces, StopPlaces, WorkPlaces
  <2> QED
    BY <1>4, <2>1, <2>2, <2>3 DEF CacheStep
<1>5. ASSUME NEW t \in Callers, WaitStep(t)
      PROVE  HaltInv'
  <2>1. CASE Driven(t)
    BY <2>1 DEF Driven, Fetch
  <2>2. CASE Reset(t)
    BY <2>2 DEF Reset
  <2>3. CASE Poll(t)
    BY <2>3 DEF Poll, Fetch
  <2>4. CASE Polled(t)
    BY <2>4 DEF Polled, Progress, Fetch
  <2>5. CASE Printed(t)
    BY <2>5 DEF Printed
  <2>6. CASE Judge(t)
    BY <2>6 DEF Judge, Fetch
  <2>7. CASE OverSeen(t)
    BY <2>7 DEF OverSeen, Fetch
  <2>8. CASE BumpSeen(t)
    BY <2>8 DEF BumpSeen
  <2>9. CASE Decide(t)
    <3>1. /\ At(t, "decide")
          /\ UNCHANGED <<sharedVars, argVars, waitVars>>
      BY <2>9 DEF Decide
    <3>2. CASE op[t] = "driveFor" /\ Send(t, "halt", "returned")
      <4>1. \A u \in Callers \ {t} : failed'[u] = failed[u]
        BY <2>9 DEF Decide
      <4> QED
        BY <3>1, <3>2, <4>1 DEF Send
    <3>3. CASE op[t] = "wait" /\ Goto(t, "returned") /\ UNCHANGED <<ret, frame, want>>
      <4>1. \A u \in Callers \ {t} : failed'[u] = failed[u]
        BY <2>9 DEF Decide
      <4> QED
        BY <3>1, <3>3, <4>1
    <3>4. CASE Goto(t, "poll") /\ UNCHANGED <<ret, frame, want, failed>>
      BY <3>1, <3>4
    <3> QED
      BY <2>9, <3>2, <3>3, <3>4 DEF Decide, Finish
  <2> QED
    BY <1>5, <2>1, <2>2, <2>3, <2>4, <2>5, <2>6, <2>7, <2>8, <2>9 DEF WaitStep
<1>6. ASSUME NEW t \in Callers, SessionStep(t)
      PROVE  HaltInv'
  <2>1. CASE StartFrames(t)
    <3>1. UNCHANGED <<sharedVars, returnVars, argVars, waitVars>>
      BY <2>1 DEF StartFrames
    <3>2. CASE At(t, "passiveSent") /\ Send(t, "safe", "safeSent")
      BY <3>1, <3>2 DEF Send
    <3>3. CASE At(t, "safeSent") /\ Send(t, "led", "ledSent")
      BY <3>1, <3>3 DEF Send
    <3> QED
      BY <2>1, <3>2, <3>3 DEF StartFrames
  <2>2. CASE StartedDirect(t)
    BY <2>2 DEF StartedDirect
  <2>3. CASE startOI_MT(t)
    BY <2>3 DEF startOI_MT
  <2>4. CASE Settle(t)
    BY <2>4 DEF Settle
  <2>5. CASE ShutDown(t) \/ Join(t)
    BY <2>5 DEF ShutDown, UnlockedForJoin, CacheFree, Join, Joined, Send
  <2>6. CASE Goodbye(t)
    BY <2>6 DEF Goodbye, Send
  <2>7. CASE stopOI(t)
    BY <2>7 DEF stopOI
  <2>8. CASE Return(t)
    BY <2>8 DEF Return
  <2> QED
    BY <1>6, <2>1, <2>2, <2>3, <2>4, <2>5, <2>6, <2>7, <2>8 DEF SessionStep
<1>7. ASSUME NEW t \in Callers, CallStep(t)
      PROVE  HaltInv'
  <2>1. CASE CallGet(t)
    BY <2>1 DEF CallGet, Begin, Fetch
  <2>2. CASE CallReadSensor(t)
    BY <2>2 DEF CallReadSensor, Begin, ReadSensor
  <2>3. CASE CallDrive(t)
    BY <2>3 DEF CallDrive, Begin, Send
  <2>4. CASE CallWait(t)
    BY <2>4 DEF CallWait, Begin, Fetch
  <2>5. CASE CallDriveFor(t)
    BY <2>5 DEF CallDriveFor, Begin, Send
  <2>6. CASE startOI(t)
    <3>1. PICK o \in StartOps : Begin(t, o, "distance", 0, FALSE)
      BY <2>6 DEF startOI
    <3>2. o # "driveFor"
      BY DEF StartOps
    <3>3. /\ op'[t] = o
          /\ \A u \in Callers \ {t} : op'[u] = op[u] /\ failed'[u] = failed[u]
          /\ UNCHANGED lastFrame
      BY <2>6, <3>1 DEF startOI, Begin
    <3>4. CASE Goto(t, "returned") /\ UNCHANGED <<ret, frame>>
      BY <3>2, <3>3, <3>4
    <3>5. CASE Send(t, "passive", "passiveSent")
      BY <3>2, <3>3, <3>5 DEF Send
    <3> QED
      BY <2>6, <3>4, <3>5 DEF startOI
  <2>7. CASE CallStop(t)
    BY <2>7 DEF CallStop, Begin, Send
  <2> QED
    BY <1>7, <2>1, <2>2, <2>3, <2>4, <2>5, <2>6, <2>7 DEF CallStep
<1>8. CASE UNCHANGED vars
  BY <1>8 DEF vars
<1> QED
  BY <1>1, <1>2, <1>3, <1>4, <1>5, <1>6, <1>7, <1>8 DEF Next

\* A driveDistance or turn that reports success has sent drive(0, 0) last
\* (createoi.c:644-652, 679-689).
THEOREM DrivesEndHalted == Spec => []DriveForEndsHalted
<1>1. HaltInv => DriveForEndsHalted
  BY DEF HaltInv, DriveForEndsHalted
<1>2. TravelInv => ResumeInv
  BY DEF TravelInv
<1> QED
  BY HaltInit, HaltStep, <1>1, <1>2, TypeCorrect, TravelInvariant, PTL DEF Spec

----------------------------------------------------------------------------
(* The mutexes that stopOI and stopOI_MT destroy.                          *)

\* Both mutexes are whole and unused at the start.
LEMMA LifeInit == Init => LifeInv
  BY Names DEF Init, LifeInv, At, Active, Quiet

\* SessionInv, place by place.
LEMMA Placed ==
  ASSUME LibraryTypes, SessionInv
  PROVE  /\ \A u \in Callers : pc[u] \notin {"idle", "returned", "dead"} => session # "closed"
         /\ \A u \in Callers : pc[u] \in StartPlaces => session = "starting"
         /\ \A u \in Callers : pc[u] \in StopPlaces => session = "stopping"
         /\ \A u \in Callers :
              pc[u] \in {"driven", "reset", "poll", "polled", "printed", "judge",
                        "overSeen", "bumpSeen", "decide"} => session \in {"direct", "threaded"}
         /\ session \in {"starting", "stopping"} =>
              \A u, v \in Callers : \/ pc[u] \in {"idle", "returned", "dead"}
                                     \/ pc[v] \in {"idle", "returned", "dead"} \/ u = v
         /\ ~Quiet => session # "closed"
  BY DEF LibraryTypes, SessionInv, Active, Fits, Place, InCall, InLine, StartPlaces, StopPlaces, Quiet

\* One step per action.
LEMMA LifeStep ==
  ASSUME ~MixedModes
  PROVE  TypeOK /\ ResumeInv /\ SessionInv /\ LifeInv /\ [Next]_vars => LifeInv'
<1> SUFFICES ASSUME TypeOK, ResumeInv, SessionInv, LifeInv, [Next]_vars PROVE LifeInv'
  OBVIOUS
<1>0. ControlTypes /\ ArgTypes /\ ReturnTypes /\ LibraryTypes /\ CacheTypes
  BY DEF TypeOK
<1>p. /\ \A u \in Callers : pc[u] \notin {"idle", "returned", "dead"} => session # "closed"
      /\ \A u \in Callers : pc[u] \in StartPlaces => session = "starting"
      /\ \A u \in Callers : pc[u] \in StopPlaces => session = "stopping"
      /\ \A u \in Callers :
           pc[u] \in {"driven", "reset", "poll", "polled", "printed", "judge",
                     "overSeen", "bumpSeen", "decide"} => session \in {"direct", "threaded"}
      /\ session \in {"starting", "stopping"} =>
           \A u, v \in Callers : \/ pc[u] \in {"idle", "returned", "dead"}
                                  \/ pc[v] \in {"idle", "returned", "dead"} \/ u = v
      /\ ~Quiet => session # "closed"
  BY <1>0, Placed
<1> USE <1>0, <1>p, Names
    DEF LifeInv, Active, Quiet, ControlTypes, ArgTypes, ReturnTypes, LibraryTypes,
        CacheTypes, At, Goto,
        InCall, InLine, StartPlaces, StopPlaces, sharedVars, robotVars, lineVars,
        libraryVars, cacheVars, controlVars, returnVars, argVars, waitVars, historyVars
<1>1. CASE Robot \/ Unplug \/ Post
  BY <1>1 DEF Robot, Move, SafetyTrip, Answer, Unplug, Post
<1>2. CASE SensorStep
  BY <1>2
  DEF SensorStep, SensorInit, SensorPoll, SensorLockCache, SensorLoad, SensorFault,
      SensorStore
<1>3. ASSUME NEW t \in Threads, LineStep(t)
      PROVE  LifeInv'
  <2>1. CASE LockLine(t)
    BY <2>1 DEF LockLine
  <2>2. CASE WriteFrame(t)
    BY <2>2 DEF WriteFrame, ResumeInv, StartPlaces, StopPlaces, WorkPlaces
  <2>3. CASE WriteQuery(t)
    BY <2>3 DEF WriteQuery, QueryHolder
  <2>4. CASE WriteFails(t) \/ ReadReply(t) \/ ReadFails(t)
    <3>1. /\ pc[t] \in {"write", "read"} /\ createOwner' = "free"
          /\ pc' = [pc EXCEPT ![t] = ret[t]]
          /\ UNCHANGED <<session, THREAD_MODE, op, cacheOwner, ret>>
      BY <2>4 DEF WriteFails, ReadReply, ReadFails
    <3>2. /\ t \in Callers => ret[t] \in StartPlaces \union StopPlaces \union WorkPlaces
          /\ t = Sensor => ret[t] = "sampled"
      BY <3>1 DEF ResumeInv
    <3> QED
      BY <3>1, <3>2 DEF WorkPlaces
  <2> QED
    BY <1>3, <2>1, <2>2, <2>3, <2>4 DEF LineStep
<1>4. ASSUME NEW t \in Callers, CacheStep(t)
      PROVE  LifeInv'
  <2>1. CASE LockCache(t)
    BY <2>1 DEF LockCache
  <2>2. CASE TakeCache(t)
    BY <2>2 DEF TakeCache
  <2>3. CASE ClearCache(t)
    BY <2>3 DEF ClearCache, ResumeInv, StartPlaces, StopPlaces, WorkPlaces
  <2> QED
    BY <1>4, <2>1, <2>2, <2>3 DEF CacheStep
<1>5. ASSUME NEW t \in Callers, WaitStep(t)
      PROVE  LifeInv'
  <2>1. CASE Driven(t)
    BY <2>1 DEF Driven, Fetch
  <2>2. CASE Reset(t)
    BY <2>2 DEF Reset
  <2>3. CASE Poll(t)
    BY <2>3 DEF Poll, Fetch
  <2>4. CASE Polled(t)
    BY <2>4 DEF Polled, Progress, Fetch
  <2>5. CASE Printed(t)
    BY <2>5 DEF Printed
  <2>6. CASE Judge(t)
    BY <2>6 DEF Judge, Fetch
  <2>7. CASE OverSeen(t)
    BY <2>7 DEF OverSeen, Fetch
  <2>8. CASE BumpSeen(t)
    BY <2>8 DEF BumpSeen
  <2>9. CASE Decide(t)
    BY <2>9 DEF Decide, Finish, Send
  <2> QED
    BY <1>5, <2>1, <2>2, <2>3, <2>4, <2>5, <2>6, <2>7, <2>8, <2>9 DEF WaitStep
<1>6. ASSUME NEW t \in Callers, SessionStep(t)
      PROVE  LifeInv'
  <2>1. CASE StartFrames(t)
    BY <2>1 DEF StartFrames, Send
  <2>2. CASE StartedDirect(t)
    BY <2>2 DEF StartedDirect
  <2>3. CASE startOI_MT(t)
    BY <2>3 DEF startOI_MT
  <2>4. CASE Settle(t)
    BY <2>4 DEF Settle
  <2>5. CASE ShutDown(t) \/ Join(t)
    BY <2>5 DEF ShutDown, UnlockedForJoin, CacheFree, Join, Joined, Send
  <2>6. CASE Goodbye(t)
    BY <2>6 DEF Goodbye, Send
  <2>7. CASE stopOI(t)
    BY <2>7 DEF stopOI
  <2>8. CASE Return(t)
    BY <2>8 DEF Return
  <2> QED
    BY <1>6, <2>1, <2>2, <2>3, <2>4, <2>5, <2>6, <2>7, <2>8 DEF SessionStep
<1>7. ASSUME NEW t \in Callers, CallStep(t)
      PROVE  LifeInv'
  <2>1. CASE CallGet(t)
    BY <2>1 DEF CallGet, InSession, Begin, Fetch
  <2>2. CASE CallReadSensor(t)
    BY <2>2 DEF CallReadSensor, Begin, ReadSensor
  <2>3. CASE CallDrive(t)
    BY <2>3 DEF CallDrive, Begin, Send
  <2>4. CASE CallWait(t)
    BY <2>4 DEF CallWait, InSession, Begin, Fetch
  <2>5. CASE CallDriveFor(t)
    BY <2>5 DEF CallDriveFor, Begin, Send
  <2>6. CASE startOI(t)
    BY <2>6 DEF startOI, Begin, Send
  <2>7. CASE CallStop(t)
    BY <2>7 DEF CallStop, Begin, Send
  <2> QED
    BY <1>7, <2>1, <2>2, <2>3, <2>4, <2>5, <2>6, <2>7 DEF CallStep
<1>8. CASE UNCHANGED vars
  BY <1>8 DEF vars
<1> QED
  BY <1>1, <1>2, <1>3, <1>4, <1>5, <1>6, <1>7, <1>8 DEF Next

\* In a program that keeps to one mode between its starts and stops no thread
\* uses a destroyed mutex, the sensor thread included, for any number of
\* threads (createoi.c:1646-1688).
THEOREM NoDestroyedMutex ==
  ASSUME ~MixedModes
  PROVE  Spec => []NoUseAfterDestroy
<1>1. TypeOK /\ SessionInv /\ LifeInv => NoUseAfterDestroy
  BY Placed DEF TypeOK, LifeInv, NoUseAfterDestroy, Threads, Quiet
<1>2. TravelInv => ResumeInv /\ SessionInv
  BY DEF TravelInv
<1>3. TypeOK /\ ResumeInv /\ SessionInv /\ LifeInv /\ [Next]_vars => LifeInv'
  BY LifeStep
<1> QED
  BY LifeInit, <1>1, <1>2, <1>3, TypeCorrect, TravelInvariant, PTL DEF Spec

=============================================================================
