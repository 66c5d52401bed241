---------------------------- MODULE IMain_proofs ----------------------------
(***************************************************************************)
(* Proofs about iMain: types, that a process which ends through the end of *)
(* main has ended its threads and stopped the wheels, and that a request   *)
(* to leave is still there for the thread of libIMU.                       *)
EXTENDS IMain, TLAPS

\* Where main is once it has set shutdown_sys, and from the join of the
\* server on.
Joining == {"joinFifty", "joinTwo", "stopSched", "joinSched", "end"}
Leaving == Joining \union {"shutdown"}

\* Nobody sees shutdown_sys before main joins.
SignalInv ==
  /\ shutdown_sys => pc["main"] \in Joining
  /\ pc["fifty"] \in {"stopOI", "joinOI", "stopIMU", "joinIMU", "done"} => shutdown_sys

\* What func_50Hz has stopped when it is past each of its two joins.
StopInv ==
  /\ pc["fifty"] \in {"stopIMU", "joinIMU", "done"} => ~moving /\ pc["oi"] = "done"
  /\ pc["fifty"] = "done" => pc["imu"] = "done"

\* What main has joined when it is past each of its joins.
JoinInv ==
  /\ pc["main"] \in Leaving => pc["server"] = "done"
  /\ pc["main"] \in Joining \ {"joinFifty"} => pc["fifty"] = "done"
  /\ pc["main"] \in {"stopSched", "joinSched", "end"} => pc["two"] = "done"
  /\ pc["main"] = "end" => pc["sched"] = "done"
  /\ process = "ended" => pc["main"] = "end"

EndInv == SignalInv /\ StopInv /\ JoinInv

----------------------------------------------------------------------------
(* Types.                                                                  *)

\* A post leaves a semaphore within its bound.
LEMMA PostedType ==
  ASSUME sem \in [Semaphores -> 0..MaxPosts], NEW s \in Semaphores
  PROVE  Posted(s) \in [Semaphores -> 0..MaxPosts]
  BY BoundsAssumption DEF Posted

\* execute's counter stays below its wrap.
LEMMA WrappedType ==
  ASSUME NEW n \in 0..(Wrap - 1)
  PROVE  Wrapped(n + 1) \in 0..(Wrap - 1)
  BY BoundsAssumption DEF Wrapped

\* What main starts: a worker, from one of the labels of its start-up.
Starting == {"startOI", "startIMU", "startServer", "createTwo", "createFifty", "createSched"}

\* What main starts, and the label it goes to then, are of their types.
LEMMA LaunchTable ==
  /\ DOMAIN Launch = Starting
  /\ \A l \in Starting :
       /\ Launch[l].thread \in Workers
       /\ Launch[l].next \in MainLabels \ (Leaving \union {"joinServer"})
  BY DEF Launch, Starting, Workers, MainLabels, Leaving, Joining

\* Every variable keeps its type (all of main.c's threads).
THEOREM MainTypeCorrect == Spec => []TypeOK
<1>1. Init => TypeOK
  <2> SUFFICES ASSUME Init PROVE TypeOK
    OBVIOUS
  <2>1. /\ sem \in [Semaphores -> 0..MaxPosts]
        /\ cnt \in 0..(Wrap - 1)
    BY BoundsAssumption DEF Init
  <2>2. pc \in [Threads -> MainLabels \union WorkerLabels]
    <3>1. "startOI" \in MainLabels /\ "none" \in WorkerLabels
      BY DEF MainLabels, WorkerLabels
    <3> QED BY <3>1 DEF Init
  <2> QED BY <2>1, <2>2 DEF Init, TypeOK
<1>2. TypeOK /\ [Next]_vars => TypeOK'
  <2> SUFFICES ASSUME TypeOK, [Next]_vars PROVE TypeOK'
    OBVIOUS
  <2> USE DEF TypeOK, At, Goto, sharedVars, programVars
  <2>1. CASE Main
    <3> USE DEF MainLabels, WorkerLabels, Threads, Workers
    <3>1. CASE Start
      <4> PICK l \in Starting :
            \/ /\ pc' = [pc EXCEPT !["main"] = Launch[l].next, ![Launch[l].thread] = "top"]
               /\ not_done' = (not_done \/ l = "startServer")
               /\ process' = process
            \/ process' = "failed" /\ pc' = pc /\ not_done' = not_done
        BY <3>1, LaunchTable DEF Start, Fail
      <4>1. not_done' \in BOOLEAN
        OBVIOUS
      <4>2. pc' \in [Threads -> MainLabels \union WorkerLabels]
        BY LaunchTable
      <4> QED BY <3>1, <4>1, <4>2 DEF Start
    <3>2. CASE startClient
      BY <3>2 DEF startClient, Fail
    <3>3. CASE LoadIni
      BY <3>3 DEF LoadIni, Fail
    <3>4. CASE Cycle
      BY <3>4 DEF Cycle
    <3>5. CASE closeClient
      BY <3>5 DEF closeClient
    <3>6. CASE closeServer
      BY <3>6 DEF closeServer
    <3>7. CASE Shutdown
      BY <3>7 DEF Shutdown, KeepsScheduling
    <3>8. CASE JoinThreads
      BY <3>8 DEF JoinThreads
    <3>9. CASE StopSched
      BY <3>9 DEF StopSched
    <3>10. CASE End
      BY <3>10 DEF End
    <3> QED BY <2>1, <3>1, <3>2, <3>3, <3>4, <3>5, <3>6, <3>7, <3>8, <3>9, <3>10 DEF Main
  <2>2. CASE HitS
    BY <2>2 DEF HitS, MainLabels, Threads
  <2>3. CASE Fifty
    <3> USE DEF WorkerLabels, Threads, Workers
    <3>1. CASE FiftyTop
      BY <3>1 DEF FiftyTop
    <3>2. CASE FiftyWait
      BY <3>2, BoundsAssumption DEF FiftyWait, Wait, Semaphores
    <3>3. CASE FiftyPost
      BY <3>3, PostedType DEF FiftyPost, Semaphores
    <3>4. CASE StopOI
      BY <3>4 DEF StopOI
    <3>5. CASE StopIMU
      BY <3>5 DEF StopIMU
    <3> QED BY <2>3, <3>1, <3>2, <3>3, <3>4, <3>5 DEF Fifty
  <2>4. CASE Two
    <3> USE DEF WorkerLabels, Threads, Workers
    <3>1. CASE TwoTop
      BY <3>1 DEF TwoTop
    <3>2. CASE TwoWait
      BY <3>2, BoundsAssumption DEF TwoWait, Wait, Semaphores
    <3>3. CASE SendStatus
      BY <3>3 DEF SendStatus, Fail
    <3> QED BY <2>4, <3>1, <3>2, <3>3 DEF Two
  <2>5. CASE Sched
    <3> USE DEF WorkerLabels, Threads, Workers
    <3>1. CASE SchedTop
      BY <3>1, PostedType DEF SchedTop, Semaphores
    <3>2. CASE SchedPost2Hz
      BY <3>2, PostedType, WrappedType DEF SchedPost2Hz, Semaphores
    <3> QED BY <2>5, <3>1, <3>2 DEF Sched
  <2>6. CASE Server
    BY <2>6 DEF Server, WorkerLabels, Threads, Workers
  <2>7. ASSUME NEW t \in Threads, NEW s \in Semaphores, SensorWait(t, s)
        PROVE  TypeOK'
    BY <2>7, BoundsAssumption DEF SensorWait, Wait, WorkerLabels
  <2>8. CASE OISensor
    <3>1. CASE OIUpdate
      BY <3>1 DEF OIUpdate, Leave, WorkerLabels, Threads, Workers
    <3> QED BY <2>8, <2>7, <3>1 DEF OISensor, Threads, Workers, Semaphores
  <2>9. CASE IMUSensor
    <3>1. CASE IMUUpdate
      BY <3>1 DEF IMUUpdate, Leave, WorkerLabels, Threads, Workers
    <3> QED BY <2>9, <2>7, <3>1 DEF IMUSensor, Threads, Workers, Semaphores
  <2>10. CASE UNCHANGED vars
    BY <2>10 DEF vars
  <2> QED BY <2>1, <2>2, <2>3, <2>4, <2>5, <2>6, <2>8, <2>9, <2>10 DEF Next
<1> QED BY <1>1, <1>2, PTL DEF Spec

----------------------------------------------------------------------------
(* The end of the program.                                                 *)

\* The three parts of the invariant hold at first, and every step keeps them.
LEMMA EndInit == Init => EndInv
  BY DEF Init, EndInv, SignalInv, StopInv, JoinInv, Joining, Leaving, Threads, Workers

\* Every step keeps the record of who has been joined.
LEMMA EndStep == TypeOK /\ EndInv /\ [Next]_vars => EndInv'
<1> SUFFICES ASSUME TypeOK, EndInv, [Next]_vars PROVE EndInv'
  OBVIOUS
<1> DEFINE Pc == [Threads -> MainLabels \union WorkerLabels]
<1>0. pc \in Pc
  BY DEF TypeOK
<1> USE <1>0 DEF EndInv, SignalInv, StopInv, JoinInv, Joining, Leaving, At, Goto,
                 Threads, Workers, sharedVars, programVars
<1>1. CASE Main
  <2>1. CASE Start
    <3> PICK l \in Starting :
          /\ pc["main"] = l
          /\ \/ pc' = [pc EXCEPT !["main"] = Launch[l].next, ![Launch[l].thread] = "top"]
             \/ pc' = pc
      BY <2>1, LaunchTable DEF Start, Fail
    <3>1. pc["main"] \notin Leaving /\ ~shutdown_sys
      BY DEF Starting
    <3>2. /\ pc'["main"] \notin Leaving
          /\ pc'["fifty"] \in {pc["fifty"], "top"}
      BY <3>1, LaunchTable
    <3>3. UNCHANGED <<shutdown_sys, moving>> /\ process' # "ended"
      BY <2>1 DEF Start, Fail
    <3> QED BY <3>1, <3>2, <3>3
  <2>2. CASE startClient
    BY <2>2 DEF startClient, Fail
  <2>3. CASE LoadIni
    BY <2>3 DEF LoadIni, Fail
  <2>4. CASE Cycle
    BY <2>4 DEF Cycle
  <2>5. CASE closeClient
    BY <2>5 DEF closeClient
  <2>6. CASE closeServer
    BY <2>6 DEF closeServer
  <2>7. CASE Shutdown
    BY <2>7 DEF Shutdown
  <2>8. CASE JoinThreads
    BY <2>8 DEF JoinThreads, Joined
  <2>9. CASE StopSched
    BY <2>9 DEF StopSched
  <2>10. CASE End
    BY <2>10 DEF End, Joined
  <2> QED BY <1>1, <2>1, <2>2, <2>3, <2>4, <2>5, <2>6, <2>7, <2>8, <2>9, <2>10 DEF Main
<1>2. CASE HitS
  BY <1>2 DEF HitS
<1>3. CASE Fifty
  <2>1. CASE FiftyTop
    BY <2>1 DEF FiftyTop
  <2>2. CASE FiftyWait
    BY <2>2 DEF FiftyWait, Wait
  <2>3. CASE FiftyPost
    BY <2>3 DEF FiftyPost
  <2>4. CASE StopOI
    BY <2>4 DEF StopOI, Joined
  <2>5. CASE StopIMU
    BY <2>5 DEF StopIMU, Joined
  <2> QED BY <1>3, <2>1, <2>2, <2>3, <2>4, <2>5 DEF Fifty
<1>4. CASE Two
  <2>1. CASE TwoTop
    BY <2>1 DEF TwoTop
  <2>2. CASE TwoWait
    BY <2>2 DEF TwoWait, Wait
  <2>3. CASE SendStatus
    BY <2>3 DEF SendStatus, Fail
  <2> QED BY <1>4, <2>1, <2>2, <2>3 DEF Two
<1>5. CASE Sched
  BY <1>5 DEF Sched, SchedTop, SchedPost2Hz
<1>6. CASE Server
  BY <1>6 DEF Server
<1>7. CASE OISensor
  BY <1>7 DEF OISensor, OIUpdate, SensorWait, Wait, Leave
<1>8. CASE IMUSensor
  BY <1>8 DEF IMUSensor, IMUUpdate, SensorWait, Wait, Leave
<1>9. CASE UNCHANGED vars
  BY <1>9 DEF vars
<1> QED BY <1>1, <1>2, <1>3, <1>4, <1>5, <1>6, <1>7, <1>8, <1>9 DEF Next

\* The end of main finds every thread ended and the wheels stopped
\* (main.c:357-375): the joins are in an order in which each thread's end has
\* been asked for, and nobody drives after stopOI_MT.
THEOREM EndIsClean == Spec => []EndsClean
<1>1. EndInv => EndsClean
  BY DEF EndInv, SignalInv, StopInv, JoinInv, Joining, Leaving, EndsClean, Workers
<1> QED BY MainTypeCorrect, EndInit, EndStep, <1>1, PTL DEF Spec

----------------------------------------------------------------------------
(* The request to libIMU's thread.                                         *)

\* When stopIMU_MT waits, or has waited, for libIMU's thread, the request is
\* in the cache and the thread that could have written over it is gone.
AskInv == StopRequestStays /\ EndInv

\* Every step keeps the request.
LEMMA AskStep == TypeOK /\ AskInv /\ [Next]_vars => AskInv'
<1> SUFFICES ASSUME TypeOK, AskInv, [Next]_vars PROVE StopRequestStays'
  BY EndStep DEF AskInv
<1>0. pc \in [Threads -> MainLabels \union WorkerLabels]
  BY DEF TypeOK
<1> USE <1>0 DEF AskInv, StopRequestStays, At, Goto, Threads, Workers, sharedVars,
                 programVars
<1>1. CASE Start
  <2> PICK l \in Starting :
        /\ pc["main"] = l
        /\ \/ pc' = [pc EXCEPT !["main"] = Launch[l].next, ![Launch[l].thread] = "top"]
           \/ pc' = pc
    BY <1>1, LaunchTable DEF Start, Fail
  <2>1. pc'["fifty"] \in {pc["fifty"], "top"}
    BY LaunchTable
  <2>2. imuShut' = imuShut
    BY <1>1 DEF Start
  <2> QED BY <2>1, <2>2
<1>2. CASE Main /\ ~Start
  BY <1>2 DEF Main, startClient, LoadIni, Cycle, closeClient, closeServer, Shutdown,
              JoinThreads, StopSched, End, Fail
<1>3. CASE HitS
  BY <1>3 DEF HitS
<1>4. CASE Fifty
  BY <1>4 DEF Fifty, FiftyTop, FiftyWait, FiftyPost, StopOI, StopIMU, Wait
<1>5. CASE Two \/ Sched \/ Server
  BY <1>5 DEF Two, TwoTop, TwoWait, SendStatus, Sched, SchedTop, SchedPost2Hz, Server,
              Wait, Fail
<1>6. CASE OIUpdate
  <2>1. pc["oi"] = "read" /\ pc["fifty"] \notin {"joinIMU", "done"}
    BY <1>6 DEF OIUpdate, EndInv, StopInv
  <2>2. pc'["fifty"] = pc["fifty"]
    BY <1>6 DEF OIUpdate, Leave
  <2> QED BY <2>1, <2>2
<1>7. CASE SensorWait("oi", "sem_create_m") \/ IMUSensor
  BY <1>7 DEF IMUSensor, IMUUpdate, SensorWait, Wait, Leave
<1>8. CASE UNCHANGED vars
  BY <1>8 DEF vars
<1> QED BY <1>1, <1>2, <1>3, <1>4, <1>5, <1>6, <1>7, <1>8 DEF Next, OISensor

\* While func_50Hz waits for libIMU's thread, the request that makes it leave
\* is in the shared cache: stopOI_MT has joined the thread that writes the
\* overcurrent on that byte (main.c:53-54, createoi.c:244, libIMU.c:238).
THEOREM IMURequestStays == Spec => []StopRequestStays
<1>1. Init => AskInv
  BY EndInit DEF Init, AskInv, StopRequestStays, Threads, Workers
<1>2. AskInv => StopRequestStays
  BY DEF AskInv
<1> QED BY MainTypeCorrect, AskStep, <1>1, <1>2, PTL DEF Spec

=============================================================================
