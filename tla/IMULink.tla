------------------------------ MODULE IMULink ------------------------------
(***************************************************************************)
(* The stream from the IMU to libIMU's cache.  The firmware prints one     *)
(* message after the other through its serial port; libIMU's thread reads  *)
(* as many bytes as a message has, throws away what else has come, tests   *)
(* what it read and caches it.  Nothing marks where a message begins.      *)
(*                                                                         *)
(* A byte is <<k, i>>, byte i of message k.  The messages are numbered     *)
(* round, so that the firmware can go on for ever.  The port's buffer is   *)
(* the queue that FastSerial is shown to implement.                         *)
(***************************************************************************)
EXTENDS IMUFrame

CONSTANTS
  N,         \* bytes of a message (32 in the code): the preamble, the rest
  Ids,       \* the messages are numbered 0 to Ids - 1
  Ring,      \* places of the firmware's transmit buffer
  PortSize,  \* places of the host's input queue
  MaxLost    \* bound on the bytes a full or noisy line loses

ASSUME LinkAssumption ==
  /\ N \in Nat \ {0, 1} /\ Ring \in Nat \ {0} /\ PortSize \in Nat \ {0}
  /\ MaxLost \in Nat
  \* the bytes on their way and those lost are less than a round
  /\ Ids \in Nat /\ Ids * N > N + Ring + PortSize + MaxLost

Byte == (0..(Ids - 1)) \X (1..N)

VARIABLES
  msg, at,     \* the firmware: the message and the byte it prints next
  ring,        \* its transmit buffer
  line,        \* "up", or "down": the host's port has hung up
  port,        \* the host's input queue
  lost,        \* bytes lost, a bound
  pc,          \* libIMU's thread: "closed", "wait", "read", "flush", "lock",
               \*   "store", "exit"
  buf,         \* what iread has stored
  cache,       \* the message in sensor_cache, or -1 (malloc'ed)
  owner,       \* imu_sensor_cache_mutex: "free", "thread", "main" or "gone"
  shut_down,
  main,        \* stopIMU_MT: "running", "lock", "set", "join", "stopped"
  pause, due   \* history: the last flush fell between two messages and no
               \*   byte was lost since; the message that was to come next

firmwareVars == <<msg, at>>
historyVars  == <<pause, due>>
vars == <<firmwareVars, ring, line, port, lost, pc, buf, cache, owner,
          shut_down, main, historyVars>>

Init ==
  /\ msg = 0 /\ at = 1 /\ ring = <<>>
  /\ line = "up" /\ port = <<>> /\ lost = 0
  /\ pc = "closed" /\ buf = <<>>
  /\ cache = -1 /\ owner = "free" /\ shut_down = FALSE
  /\ main = "running"
  /\ pause = FALSE /\ due = 0

----------------------------------------------------------------------------
(* The firmware and the line. *)

\* Serial.print of the next byte, which waits for room; after the last one the
\* main loop turns to the rest of its 20 ms.
SendByte ==
  /\ Len(ring) < Ring
  /\ ring' = Append(ring, <<msg, at>>)
  /\ IF at = N THEN at' = 1 /\ msg' = (msg + 1) % Ids
     ELSE at' = at + 1 /\ UNCHANGED msg
  /\ UNCHANGED <<line, port, lost, pc, buf, cache, owner, shut_down, main,
                 historyVars>>

\* A byte comes to the host, which keeps it when its port is open.
Arrive ==
  /\ ring # <<>> /\ ring' = Tail(ring)
  /\ pc = "closed" \/ line = "down" \/ Len(port) < PortSize
  /\ port' = IF pc = "closed" \/ line = "down" THEN port
             ELSE Append(port, Head(ring))
  /\ UNCHANGED <<firmwareVars, line, lost, pc, buf, cache, owner, shut_down,
                 main, historyVars>>

\* A byte is lost to noise or to a full queue.
Lose ==
  /\ ring # <<>> /\ ring' = Tail(ring)
  /\ pc # "closed" /\ lost < MaxLost /\ lost' = lost + 1
  /\ pause' = FALSE
  /\ UNCHANGED <<firmwareVars, line, port, pc, buf, cache, owner, shut_down,
                 main, due>>

\* A port that hangs up loses its queue.
HangUp ==
  /\ line = "up" /\ pc # "closed" /\ line' = "down"
  /\ port' = <<>> /\ pause' = FALSE
  /\ UNCHANGED <<firmwareVars, ring, lost, pc, buf, cache, owner, shut_down,
                 main, due>>

----------------------------------------------------------------------------
(* libIMU. *)

\* The history of a flush.
Flushed == /\ pause' = (at = 1 /\ ring = <<>>)
           /\ due' = msg

\* startIMU and startIMU_MT (startIMU_MTS, startIMU_File): open, tcflush, a
\* cache nobody clears, the thread.
Start ==
  /\ pc = "closed" /\ main = "running"
  /\ pc' = "wait" /\ port' = <<>>
  /\ Flushed
  /\ UNCHANGED <<firmwareVars, ring, line, lost, buf, cache, owner, shut_down,
                 main>>

\* sem_wait or usleep is over.
Turn ==
  /\ pc = "wait" /\ pc' = "read"
  /\ buf' = <<>>
  /\ UNCHANGED <<firmwareVars, ring, line, port, lost, cache, owner, shut_down,
                 main, historyVars>>

\* Bug: after a short read the whole message is asked for again.
ReadsWhole ==
  /\ pc = "read" /\ port # <<>>
  /\ LET n == IF Len(port) < N THEN Len(port) ELSE N
     IN /\ buf' = buf \o SubSeq(port, 1, n)
        /\ port' = SubSeq(port, n + 1, Len(port))
  /\ pc' = IF Len(buf') >= N THEN "flush" ELSE "read"
  /\ UNCHANGED <<firmwareVars, ring, line, lost, cache, owner, shut_down, main,
                 historyVars>>

\* iread: read() gives what there is, up to what is missing, and waits when
\* there is nothing.
Read ==
  /\ pc = "read" /\ port # <<>>
  /\ LET n == IF Len(port) < N - Len(buf) THEN Len(port) ELSE N - Len(buf)
     IN /\ buf' = buf \o SubSeq(port, 1, n)
        /\ port' = SubSeq(port, n + 1, Len(port))
  /\ pc' = IF Len(buf') = N THEN "flush" ELSE "read"
  /\ UNCHANGED <<firmwareVars, ring, line, lost, cache, owner, shut_down, main,
                 historyVars>>

\* read() fails or gives nothing four times: fewer bytes than a message.
ReadFails ==
  /\ pc = "read" /\ line = "down"
  /\ pc' = "lock" /\ buf' = <<>>
  /\ UNCHANGED <<firmwareVars, ring, line, port, lost, cache, owner, shut_down,
                 main, historyVars>>

\* Bug: what was not read is kept.
KeepsRest ==
  /\ pc = "flush" /\ pc' = "lock"
  /\ Flushed
  /\ UNCHANGED <<firmwareVars, ring, line, port, lost, buf, cache, owner,
                 shut_down, main>>

\* tcflush(fd, TCIFLUSH)
Flush ==
  /\ pc = "flush" /\ pc' = "lock"
  /\ port' = <<>>
  /\ Flushed
  /\ UNCHANGED <<firmwareVars, ring, line, lost, buf, cache, owner, shut_down,
                 main>>

Lock ==
  /\ pc = "lock" /\ owner = "free"
  /\ pc' = "store" /\ owner' = "thread"
  /\ UNCHANGED <<firmwareVars, ring, line, port, lost, buf, cache, shut_down,
                 main, historyVars>>

\* The tests of readIMUData (Refused): all but the preamble are bytes of one
\* message, each in its place.  The header test joins its comparisons with &&,
\* so a frame with one wrong header byte goes on to the checksums, which cover
\* the header too.  That they tell every mixed frame is an abstraction: sums of
\* 16 bits miss a few.
Valid(b) == /\ Len(b) = N
            /\ \A i \in 2..N : b[i] = <<b[N][1], i>>

\* Bug: shut_down is looked at only when there is data.
StoresAndLooks ==
  /\ pc = "store" /\ owner' = "free"
  /\ cache' = IF Valid(buf) THEN buf[N][1] ELSE cache
  /\ pc' = IF Valid(buf) /\ shut_down THEN "exit" ELSE "wait"
  /\ UNCHANGED <<firmwareVars, ring, line, port, lost, buf, shut_down, main,
                 historyVars>>

Store ==
  /\ pc = "store" /\ owner' = "free"
  /\ cache' = IF Valid(buf) THEN buf[N][1] ELSE cache
  /\ pc' = IF shut_down THEN "exit" ELSE "wait"
  /\ UNCHANGED <<firmwareVars, ring, line, port, lost, buf, shut_down, main,
                 historyVars>>

CallStop ==
  /\ main = "running" /\ pc # "closed" /\ main' = "lock"
  /\ UNCHANGED <<firmwareVars, ring, line, port, lost, pc, buf, cache, owner,
                 shut_down, historyVars>>

StopLock ==
  /\ main = "lock" /\ owner = "free"
  /\ owner' = "main" /\ main' = "set"
  /\ UNCHANGED <<firmwareVars, ring, line, port, lost, pc, buf, cache,
                 shut_down, historyVars>>

StopSet ==
  /\ main = "set" /\ shut_down' = TRUE
  /\ owner' = "free" /\ main' = "join"
  /\ UNCHANGED <<firmwareVars, ring, line, port, lost, pc, buf, cache, historyVars>>

\* pthread_join, the mutex, and stopIMU, which closes the port.
StopJoin ==
  /\ main = "join" /\ pc = "exit"
  /\ owner' = "gone" /\ main' = "stopped"
  /\ UNCHANGED <<firmwareVars, ring, line, port, lost, pc, buf, cache,
                 shut_down, historyVars>>

----------------------------------------------------------------------------

ThreadStep == Turn \/ Read \/ ReadFails \/ Flush \/ Lock \/ Store
StopStep   == StopLock \/ StopSet \/ StopJoin

Next ==
  \/ SendByte \/ Arrive \/ Lose \/ HangUp
  \/ Start \/ ThreadStep
  \/ CallStop \/ StopStep

\* The firmware prints for ever and its bytes arrive, runnable threads run,
\* and main gets a mutex that is free over and over.
Fairness ==
  /\ WF_vars(SendByte) /\ WF_vars(Arrive)
  /\ WF_vars(Start) /\ WF_vars(ThreadStep)
  /\ SF_vars(StopLock) /\ WF_vars(StopSet \/ StopJoin)

Spec     == Init /\ [][Next]_vars
FairSpec == Spec /\ Fairness

----------------------------------------------------------------------------
(* Properties *)

TypeOK ==
  /\ msg \in 0..(Ids - 1) /\ at \in 1..N
  /\ ring \in Seq(Byte) /\ Len(ring) <= Ring
  /\ line \in {"up", "down"}
  /\ port \in Seq(Byte) /\ Len(port) <= PortSize
  /\ lost \in 0..MaxLost
  /\ pc \in {"closed", "wait", "read", "flush", "lock", "store", "exit"}
  /\ buf \in Seq(Byte) /\ Len(buf) <= N
  /\ cache \in -1..(Ids - 1)
  /\ owner \in {"free", "thread", "main", "gone"}
  /\ shut_down \in BOOLEAN
  /\ main \in {"running", "lock", "set", "join", "stopped"}
  /\ pause \in BOOLEAN /\ due \in 0..(Ids - 1)

\* When a flush falls into the pause between two messages and no byte is lost,
\* the next frame passes the tests and is the very next message, whatever was
\* read, refused or left over before: the flush puts the reader in step again.
InStepAfterPause ==
  pc = "flush" /\ pause => Valid(buf) /\ buf[N][1] = due

\* What is cached is what the firmware measured.
SameReadings == cache # -1 => SameCodec

\* stopIMU_MT returns, also when no frame ever passed the tests, as long as
\* the IMU goes on sending or the port hangs up, and the thread is paced by
\* usleep or posted on: after startIMU_MTS the poster may have stopped (IMain).
StopReturns == main = "lock" ~> main = "stopped"

=============================================================================
