------------------------------- MODULE IMain -------------------------------
(***************************************************************************)
(* iMain: the program that runs on the robot.  Its main thread starts the  *)
(* two libraries, the server and the client, three real-time threads of    *)
(* its own (func_2Hz, func_50Hz, execute), and steers the robot until the  *)
(* user presses q.  The threads are paced by four semaphores: execute      *)
(* posts sem_50Hz and sem_2Hz, func_50Hz posts one semaphore to each       *)
(* library's sensor thread.  At the end everything is joined in a fixed    *)
(* order.                                                                  *)
(*                                                                         *)
(* The libraries are reduced to what the program joins: a sensor thread    *)
(* that waits, reads its device and leaves when it finds shut_down set.    *)
(* CreateOI has the detail of libcreateoi.  Both libraries define a global *)
(* sensor_cache, of different types, and the program links because they    *)
(* become one pointer, which is left at libIMU's 56 bytes: libcreateoi's   *)
(* overcurrent lies on libIMU's shut_down (byte 48), and libcreateoi's own *)
(* shut_down (byte 64) behind the allocation.                              *)
(* Assumed: both devices are there, the process may create SCHED_FIFO      *)
(* threads, and what is written behind the allocation breaks nothing else. *)
(***************************************************************************)
EXTENDS Integers

CONSTANTS
  Hz50, Hz2,  \* hz_50 and hz_2: execute's cycles per post (2 and 50)
  Wrap,       \* where execute's cnt starts again (1000)
  MaxPosts,   \* bound on the value of a semaphore: more posts are forgotten
  Online      \* sendto succeeds as long as its socket is open

ASSUME BoundsAssumption ==
  /\ Hz50 \in Nat \ {0} /\ Hz2 \in Nat \ {0} /\ Wrap \in Nat \ {0}
  /\ MaxPosts \in Nat \ {0}
ASSUME SwitchAssumption == Online \in BOOLEAN

\* main, its three threads, the server's thread and the sensor threads of
\* libcreateoi and libIMU.
Workers == {"fifty", "two", "sched", "server", "oi", "imu"}
Threads == Workers \union {"main"}
Semaphores == {"sem_50Hz", "sem_2Hz", "sem_create_m", "sem_imu_m"}

MainLabels ==
  {"startOI", "startIMU", "startServer", "startClient", "createTwo",
   "createFifty", "createSched", "ini", "hit", "loop", "closeClient",
   "closeServer", "joinServer", "shutdown", "joinFifty", "joinTwo",
   "stopSched", "joinSched", "end"}
WorkerLabels ==
  {"none", "top", "wait", "done"} \union
  {"postOI", "postIMU", "stopOI", "joinOI", "stopIMU", "joinIMU"} \union
  {"send", "post2Hz", "select", "read"}

VARIABLES
  shutdown_sys, execute_sys,
  sem,       \* the values of the semaphores
  not_done,  \* the server's global
  sd,        \* the client's socket: "none", "open" or "closed"
  cnt,       \* execute's local
  imuShut,   \* libIMU's shut_down, byte 48 of the one sensor_cache
  moving,    \* the last drive frame was not a stop
  process,   \* "up", or how it ended: "ended", "failed" (exit(1), return 1)
  pc         \* where each thread is

sharedVars  == <<shutdown_sys, execute_sys, sem, not_done, sd, imuShut>>
programVars == <<cnt, moving, process>>
vars == <<sharedVars, programVars, pc>>

Init ==
  /\ shutdown_sys = FALSE /\ execute_sys = TRUE
  /\ sem = [s \in Semaphores |-> 0]
  /\ not_done = FALSE /\ sd = "none" /\ cnt = 0
  /\ imuShut = FALSE /\ moving = FALSE /\ process = "up"
  /\ pc = [t \in Threads |-> IF t = "main" THEN "startOI" ELSE "none"]

(* The operators whose comment starts with "Bug:" are no part of Spec; each *)
(* is a plausible error in the definition that follows it.                 *)

At(t, label) == process = "up" /\ pc[t] = label
Goto(t, label) == pc' = [pc EXCEPT ![t] = label]

\* exit(1), and return 1 from main: every thread is gone.
Fail == process' = "failed" /\ UNCHANGED pc

Posted(s) == [sem EXCEPT ![s] = IF @ < MaxPosts THEN @ + 1 ELSE @]

\* sem_wait(&s), then label l.
Wait(t, s, l) ==
  /\ At(t, "wait") /\ sem[s] > 0
  /\ sem' = [sem EXCEPT ![s] = @ - 1]
  /\ Goto(t, l)

----------------------------------------------------------------------------
(* The main thread.                                                        *)

\* What main starts, in its order: the thread, and main's next label.
Launch ==
  [startOI     |-> [thread |-> "oi",     next |-> "startIMU"],
   startIMU    |-> [thread |-> "imu",    next |-> "startServer"],
   startServer |-> [thread |-> "server", next |-> "startClient"],
   createTwo   |-> [thread |-> "two",    next |-> "createFifty"],
   createFifty |-> [thread |-> "fifty",  next |-> "createSched"],
   createSched |-> [thread |-> "sched",  next |-> "ini"]]

\* startOI_MTS, startIMU_MTS, startServer and the three pthread_create.
\* initializeServer sets not_done, or exits when it gets no socket.
Start ==
  \E l \in DOMAIN Launch :
    /\ At("main", l)
    /\ \/ /\ pc' = [pc EXCEPT !["main"] = Launch[l].next,
                              ![Launch[l].thread] = "top"]
          /\ not_done' = (not_done \/ l = "startServer")
          /\ UNCHANGED process
       \/ l = "startServer" /\ Fail /\ UNCHANGED not_done
    /\ UNCHANGED <<shutdown_sys, execute_sys, sem, sd, imuShut, cnt, moving>>

\* The client's socket; without one startClient exits.
startClient ==
  /\ At("main", "startClient")
  /\ \/ sd' = "open" /\ Goto("main", "createTwo") /\ UNCHANGED process
     \/ Fail /\ UNCHANGED sd
  /\ UNCHANGED <<shutdown_sys, execute_sys, sem, not_done, imuShut, cnt, moving>>

\* ini_parse("create.ini"), with the threads already running.
LoadIni ==
  /\ At("main", "ini")
  /\ \/ Goto("main", "hit") /\ UNCHANGED process
     \/ Fail
  /\ UNCHANGED <<sharedVars, cnt, moving>>

\* "Hit s to begin...": the user may never do.
HitS ==
  /\ At("main", "hit") /\ Goto("main", "loop")
  /\ UNCHANGED <<sharedVars, programVars>>

\* Once round the main loop: two drive calls of which the second counts.
\* On the key q the commands of this round are still sent.
Cycle ==
  /\ At("main", "loop")
  /\ moving' \in BOOLEAN
  /\ \/ UNCHANGED pc
     \/ Goto("main", "closeClient")
  /\ UNCHANGED <<sharedVars, cnt, process>>

closeClient ==
  /\ At("main", "closeClient")
  /\ sd' = "closed"
  /\ Goto("main", "closeServer")
  /\ UNCHANGED <<shutdown_sys, execute_sys, sem, not_done, imuShut, programVars>>

\* closeServer ends the loop of serverThreadFunc and waits for it.
closeServer ==
  /\ \/ /\ At("main", "closeServer")
        /\ not_done' = FALSE
        /\ Goto("main", "joinServer")
     \/ /\ At("main", "joinServer") /\ pc["server"] = "done"
        /\ Goto("main", "shutdown") /\ UNCHANGED not_done
  /\ UNCHANGED <<shutdown_sys, execute_sys, sem, sd, imuShut, programVars>>

\* Bug: execute_sys is cleared together with the setting of shutdown_sys.
StopsScheduling == FALSE

\* What shutdown_sys = 1 leaves execute_sys at.
KeepsScheduling == execute_sys

Shutdown ==
  /\ At("main", "shutdown")
  /\ shutdown_sys' = TRUE
  /\ execute_sys' = KeepsScheduling
  /\ Goto("main", "joinFifty")
  /\ UNCHANGED <<sem, not_done, sd, imuShut, programVars>>

\* Bug: the joins do not wait.
JoinsNothing(t) == TRUE

\* pthread_join of thread t would return now.
Joined(t) == pc[t] = "done"

JoinThreads ==
  /\ \/ At("main", "joinFifty") /\ Joined("fifty") /\ Goto("main", "joinTwo")
     \/ At("main", "joinTwo") /\ Joined("two") /\ Goto("main", "stopSched")
  /\ UNCHANGED <<sharedVars, programVars>>

StopSched ==
  /\ At("main", "stopSched")
  /\ execute_sys' = FALSE
  /\ Goto("main", "joinSched")
  /\ UNCHANGED <<shutdown_sys, sem, not_done, sd, imuShut, programVars>>

\* The last join, and the end of main and of the process.
End ==
  /\ At("main", "joinSched") /\ Joined("sched")
  /\ process' = "ended"
  /\ Goto("main", "end")
  /\ UNCHANGED <<sharedVars, cnt, moving>>

Main ==
  \/ Start
  \/ startClient
  \/ LoadIni
  \/ Cycle
  \/ closeClient
  \/ closeServer
  \/ Shutdown
  \/ JoinThreads
  \/ StopSched
  \/ End

----------------------------------------------------------------------------
(* func_50Hz.                                                              *)

\* while (!shutdown_sys)
FiftyTop ==
  /\ At("fifty", "top")
  /\ Goto("fifty", IF shutdown_sys THEN "stopOI" ELSE "wait")
  /\ UNCHANGED <<sharedVars, programVars>>

FiftyWait ==
  /\ Wait("fifty", "sem_50Hz", "postOI")
  /\ UNCHANGED <<shutdown_sys, execute_sys, not_done, sd, imuShut, programVars>>

\* sem_post(&sem_create_m), then sem_post(&sem_imu_m)
FiftyPost ==
  /\ \/ At("fifty", "postOI") /\ sem' = Posted("sem_create_m") /\ Goto("fifty", "postIMU")
     \/ At("fifty", "postIMU") /\ sem' = Posted("sem_imu_m") /\ Goto("fifty", "top")
  /\ UNCHANGED <<shutdown_sys, execute_sys, not_done, sd, imuShut, programVars>>

\* stopOI_MT: asks the sensor thread to leave, by a byte nobody reads as
\* libIMU's, waits for it, then stopOI stops the wheels.
StopOI ==
  /\ \/ At("fifty", "stopOI") /\ Goto("fifty", "joinOI") /\ UNCHANGED moving
     \/ /\ At("fifty", "joinOI") /\ Joined("oi")
        /\ moving' = FALSE
        /\ Goto("fifty", "stopIMU")
  /\ UNCHANGED <<sharedVars, cnt, process>>

\* stopIMU_MT, likewise.
StopIMU ==
  /\ \/ /\ At("fifty", "stopIMU")
        /\ imuShut' = TRUE
        /\ Goto("fifty", "joinIMU")
     \/ /\ At("fifty", "joinIMU") /\ Joined("imu")
        /\ Goto("fifty", "done") /\ UNCHANGED imuShut
  /\ UNCHANGED <<shutdown_sys, execute_sys, sem, not_done, sd, programVars>>

Fifty ==
  \/ FiftyTop
  \/ FiftyWait
  \/ FiftyPost
  \/ StopOI
  \/ StopIMU

----------------------------------------------------------------------------
(* func_2Hz, execute and serverThreadFunc.                                 *)

TwoTop ==
  /\ At("two", "top")
  /\ Goto("two", IF shutdown_sys THEN "done" ELSE "wait")
  /\ UNCHANGED <<sharedVars, programVars>>

TwoWait ==
  /\ Wait("two", "sem_2Hz", "send")
  /\ UNCHANGED <<shutdown_sys, execute_sys, not_done, sd, imuShut, programVars>>

\* broadcastStatus: when sendto fails, as it does on the socket closeClient
\* has closed, sendStatus exits the process with the robot as it is.
SendStatus ==
  /\ At("two", "send")
  /\ \/ sd = "open" /\ Goto("two", "top") /\ UNCHANGED process
     \/ ~(Online /\ sd = "open") /\ Fail
  /\ UNCHANGED <<sharedVars, cnt, moving>>

Two ==
  \/ TwoTop
  \/ TwoWait
  \/ SendStatus

\* while (execute_sys) and the post of sem_50Hz, when it is due.
SchedTop ==
  /\ At("sched", "top")
  /\ \/ ~execute_sys /\ Goto("sched", "done") /\ UNCHANGED sem
     \/ /\ execute_sys
        /\ sem' = IF cnt % Hz50 = 0 THEN Posted("sem_50Hz") ELSE sem
        /\ Goto("sched", "post2Hz")
  /\ UNCHANGED <<shutdown_sys, execute_sys, not_done, sd, imuShut, programVars>>

\* Bug: the counter starts again at cnt > 1000, not at cnt == 1000.
LateWrap(n) == IF n > Wrap THEN 0 ELSE n

\* if (cnt == 1000) cnt = 0
Wrapped(n) == IF n = Wrap THEN 0 ELSE n

SchedPost2Hz ==
  /\ At("sched", "post2Hz")
  /\ sem' = IF cnt % Hz2 = 0 THEN Posted("sem_2Hz") ELSE sem
  /\ cnt' = Wrapped(cnt + 1)
  /\ Goto("sched", "top")
  /\ UNCHANGED <<shutdown_sys, execute_sys, not_done, sd, imuShut, moving, process>>

Sched ==
  \/ SchedTop
  \/ SchedPost2Hz

\* while (not_done), and select with its time-out of 5 seconds.
Server ==
  /\ \/ At("server", "top") /\ Goto("server", IF not_done THEN "select" ELSE "done")
     \/ At("server", "select") /\ Goto("server", "top")
  /\ UNCHANGED <<sharedVars, programVars>>

----------------------------------------------------------------------------
(* The sensor threads of the libraries.                                    *)

\* The loops start with a sem_wait.
SensorWait(t, s) ==
  /\ \/ At(t, "top") /\ Goto(t, "wait") /\ UNCHANGED sem
     \/ Wait(t, s, "read")
  /\ UNCHANGED <<shutdown_sys, execute_sys, not_done, sd, imuShut, programVars>>

\* Has this round found shut_down set?
Leave(t, b) == Goto(t, IF b THEN "done" ELSE "top")

\* sensorThreadFunc of libcreateoi: writes the overcurrent it has read on
\* libIMU's shut_down, and finds anything at its own, asked to leave or not.
OIUpdate ==
  /\ At("oi", "read")
  /\ imuShut' \in BOOLEAN
  /\ \E b \in BOOLEAN : Leave("oi", b)
  /\ UNCHANGED <<shutdown_sys, execute_sys, sem, not_done, sd, programVars>>

\* sensorThreadFunction of libIMU: with or without data, shut_down is looked
\* at.
IMUUpdate ==
  /\ At("imu", "read")
  /\ Leave("imu", imuShut)
  /\ UNCHANGED <<sharedVars, programVars>>

OISensor  == SensorWait("oi", "sem_create_m") \/ OIUpdate
IMUSensor == SensorWait("imu", "sem_imu_m") \/ IMUUpdate

Next ==
  \/ Main
  \/ HitS
  \/ Fifty
  \/ Two
  \/ Sched
  \/ Server
  \/ OISensor
  \/ IMUSensor

\* Every thread that can run goes on; the user need not press a key.
Fairness ==
  /\ WF_vars(Main) /\ WF_vars(Fifty) /\ WF_vars(Two) /\ WF_vars(Sched)
  /\ WF_vars(Server) /\ WF_vars(OISensor) /\ WF_vars(IMUSensor)

Spec == Init /\ [][Next]_vars
FairSpec == Spec /\ Fairness

----------------------------------------------------------------------------
(* Properties.                                                             *)

TypeOK ==
  /\ shutdown_sys \in BOOLEAN /\ execute_sys \in BOOLEAN
  /\ sem \in [Semaphores -> 0..MaxPosts]
  /\ not_done \in BOOLEAN /\ sd \in {"none", "open", "closed"}
  /\ cnt \in 0..(Wrap - 1)
  /\ imuShut \in BOOLEAN /\ moving \in BOOLEAN
  /\ process \in {"up", "ended", "failed"}
  /\ pc \in [Threads -> MainLabels \union WorkerLabels]

\* A process that ends through the end of main has ended every thread first
\* and leaves the wheels stopped, although main itself never stops them
\* (main.c:357-375, createoi.c:1646-1688).
EndsClean ==
  process = "ended" => ~moving /\ \A t \in Workers : pc[t] = "done"

\* After shutdown_sys = 1 the two periodic threads get out of their sem_wait:
\* execute has to go on posting until both are joined (main.c:368-372).
WorkersLeave ==
  shutdown_sys
    ~> process # "up" \/ (pc["two"] = "done" /\ pc["fifty"] \notin {"top", "wait"})

\* stopIMU_MT's request to leave is still in libIMU's shut_down while
\* func_50Hz waits for that thread: libcreateoi's thread, which writes the
\* overcurrent on the same byte, has been joined before (main.c:53-54).
StopRequestStays == pc["fifty"] \in {"joinIMU", "done"} => imuShut

\* "a dedicated thread reads all sensor values periodically" (libIMU.c:148):
\* libIMU's sensor thread leaves only when stopIMU_MT has asked for it.  Not
\* true of Spec: one overcurrent ends the thread.
IMUThreadStays ==
  [][pc["imu"] # "done" /\ pc'["imu"] = "done" => pc["fifty"] = "joinIMU"]_vars

\* "'q' to quit." (main.c:266): after the key the process ends, be it by
\* exit(1).
QuitEnds == pc["main"] = "closeClient" ~> process # "up"

=============================================================================
