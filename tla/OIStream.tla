------------------------------ MODULE OIStream ------------------------------
(***************************************************************************)
(* The serial line of libcreateoi, byte by byte: how cwrite and cread move *)
(* the frames of OIFrames through a port that takes and gives as many      *)
(* bytes as it likes, and how the robot, which knows a frame's end only by *)
(* counting, takes the stream apart.                                       *)
(*                                                                         *)
(* CreateOI has the same calls as single steps, with the threads, caches   *)
(* and movement around them; here a call is its bytes and nothing else.    *)
(***************************************************************************)
EXTENDS OIFrames, FiniteSets

CONSTANTS
  Threads,   \* the threads of the program
  Requests,  \* the calls they make, built by the operators below
  Sensed,    \* the bytes the robot's sensors may give
  MaxCalls,  \* bound on the calls of a behaviour
  GiveUpAt   \* fruitless transfers a call tolerates (3 in the code)

ASSUME StreamAssumption ==
  /\ "free" \notin Threads
  /\ Sensed \subseteq Bytes
  /\ MaxCalls \in Nat
  /\ GiveUpAt \in Nat

----------------------------------------------------------------------------
(* The robot's side (external): how many data bytes follow an opcode, what *)
(* it takes a whole command to mean, and what it answers.                  *)

Opcodes == 128..158

DataBytes(c) ==
  CASE c[1] \in {129, 136, 138, 141, 142, 147, 151, 155} -> 1
    [] c[1] \in {139, 144} -> 3
    [] c[1] \in {137, 145} -> 4
    [] c[1] \in {149, 152} -> IF Len(c) < 2 THEN 1 ELSE 1 + c[2]
    [] c[1] = 140 -> IF Len(c) < 3 THEN 2 ELSE 2 + 2 * c[3]
    [] OTHER -> 0

Plainly == [b \in {128, 131, 132, 134, 135, 143, 153, ShowScript} |->
  CASE b = 128 -> "start" [] b = 131 -> "safe" [] b = 132 -> "full"
    [] b = 134 -> "spot" [] b = 135 -> "cover" [] b = 143 -> "cover and dock"
    [] b = 153 -> "play script" [] b = ShowScript -> "show script"]
OneByte == [b \in {129, 136, 138, 141, 142, 147, 151} |->
  CASE b = 129 -> "baud" [] b = 136 -> "demo" [] b = 138 -> "drivers"
    [] b = 141 -> "play song" [] b = 142 -> "sensors" [] b = 147 -> "outputs"
    [] b = 151 -> "ir"]

Meaning(c) ==
  CASE c[1] \in DOMAIN Plainly -> <<Plainly[c[1]]>>
    [] c[1] \in DOMAIN OneByte -> <<OneByte[c[1]], c[2]>>
    [] c[1] = 137 -> <<"drive", Signed(c[2], c[3]), Signed(c[4], c[5])>>
    [] c[1] = 145 -> <<"wheels", Signed(c[4], c[5]), Signed(c[2], c[3])>>
    [] c[1] = 139 -> <<"led", c[2], c[3], c[4]>>
    [] c[1] = 144 -> <<"duty", c[4], c[3], c[2]>>
    [] c[1] = 140 -> <<"song", c[2], SubSeq(c, 4, Len(c))>>
    [] c[1] = 149 -> <<"list", SubSeq(c, 3, Len(c))>>
    [] c[1] = 152 -> <<"script", SubSeq(c, 3, Len(c))>>
    [] OTHER -> <<"nothing">>

\* Packet 6 is the group of all.
PacketSize(packet) == IF packet = 6 THEN 52 ELSE Size(packet)

\* A query's answer has as many bytes as its packets together.
Packets(c) == IF c[1] = 142 THEN <<c[2]>> ELSE SubSeq(c, 3, Len(c))
AnswerSize(c) ==
  Cardinality(UNION {{i} \X (1..PacketSize(Packets(c)[i])) : i \in DOMAIN Packets(c)})

\* What a call has to read at first: of a script the byte that tells how long
\* it is.
ReplySize(c) == CASE c[1] \in {142, 149} -> AnswerSize(c)
                  [] c[1] = ShowScript   -> 1
                  [] OTHER               -> 0

\* A frame is a whole command: it ends where the robot's count does, not before.
Whole(f) ==
  /\ f \in Seq(Bytes) /\ f # <<>> /\ f[1] \in Opcodes
  /\ \A k \in 1..Len(f) : k = 1 + DataBytes(SubSeq(f, 1, k)) <=> k = Len(f)

\* A call is proper if its frames are whole commands that mean what it asks and
\* it reads as many bytes as the robot answers.
Proper(r) ==
  \A f \in r.frames : Whole(f) /\ Meaning(f) = r.asks /\ r.size = ReplySize(f)

ProperRequests == \A r \in Requests : Proper(r)

----------------------------------------------------------------------------
VARIABLES
  owner,       \* create_mutex: "free" or its holder
  pc,          \* "idle", "lock", "write", "read", "script" (getScript's second cread)
  request,     \* what the thread's call asks
  frame,       \* cmd: the bytes it writes
  moved,       \* numwritten or numread
  numzeroes,   \* fruitless transfers of the cwrite or cread under way
  wanted,      \* numbytes of the cread under way
  buffer,      \* what cread has stored
  line,        \* "up", or "down": the port hung up
  toRobot,     \* bytes written and not yet heard
  air, input,  \* bytes the robot sends; those in the port's input queue
  heard,       \* the robot's command so far
  script,      \* the script it stores
  calls,       \* calls made, a bound
  \* history
  obeyed,      \* what the robot took the commands to mean, in order
  asked,       \* what the calls asked for, in the order they got the line
  answered,    \* the bytes of the robot's last answer
  short,       \* a cwrite returned less than its frame
  flushed      \* a flush threw away bytes of an answer

threadVars  == <<pc, request, frame, moved, numzeroes, wanted, buffer>>
robotVars   == <<heard, script, air, obeyed, answered>>
vars == <<owner, threadVars, line, toRobot, input, robotVars, calls, asked, short, flushed>>

Init ==
  /\ owner = "free" /\ line = "up" /\ calls = 0
  /\ pc = [t \in Threads |-> "idle"]
  /\ request = [t \in Threads |-> startOI]
  /\ frame = [t \in Threads |-> <<>>]
  /\ moved = [t \in Threads |-> 0]
  /\ numzeroes = [t \in Threads |-> 0]
  /\ wanted = [t \in Threads |-> 0]
  /\ buffer = [t \in Threads |-> <<>>]
  /\ toRobot = <<>> /\ air = <<>> /\ input = <<>>
  /\ heard = <<>> /\ script = <<128>>
  /\ obeyed = <<>> /\ asked = <<>> /\ answered = <<>>
  /\ short = FALSE /\ flushed = FALSE

\* A thread builds its frame and queues for create_mutex.
Call(t) ==
  /\ pc[t] = "idle" /\ calls < MaxCalls /\ calls' = calls + 1
  /\ \E r \in Requests : \E f \in r.frames :
       /\ request' = [request EXCEPT ![t] = r]
       /\ frame' = [frame EXCEPT ![t] = f]
  /\ pc' = [pc EXCEPT ![t] = "lock"]
  /\ UNCHANGED <<owner, moved, numzeroes, wanted, buffer, line, toRobot,
                 input, robotVars, asked, short, flushed>>

Lock(t) ==
  /\ pc[t] = "lock" /\ owner = "free"
  /\ owner' = t
  /\ pc' = [pc EXCEPT ![t] = "write"]
  /\ moved' = [moved EXCEPT ![t] = 0]
  /\ numzeroes' = [numzeroes EXCEPT ![t] = 0]
  /\ asked' = Append(asked, request[t].asks)
  /\ UNCHANGED <<request, frame, wanted, buffer, line, toRobot, input,
                 robotVars, calls, short, flushed>>

\* Bug: the error path of a call forgets to unlock.
StaysLocked(t) ==
  /\ UNCHANGED owner
  /\ pc' = [pc EXCEPT ![t] = "idle"]
  /\ UNCHANGED <<request, frame, moved, numzeroes, wanted, buffer>>

\* The call gives the line back; every path out of it unlocks.
Return(t) ==
  /\ owner' = "free"
  /\ pc' = [pc EXCEPT ![t] = "idle"]
  /\ request' = [request EXCEPT ![t] = startOI]
  /\ frame' = [frame EXCEPT ![t] = <<>>]
  /\ moved' = [moved EXCEPT ![t] = 0]
  /\ numzeroes' = [numzeroes EXCEPT ![t] = 0]
  /\ wanted' = [wanted EXCEPT ![t] = 0]
  /\ buffer' = [buffer EXCEPT ![t] = <<>>]

\* Bug: the call unlocks between cwrite and cread.
ReadsUnlocked(t, l, n) ==
  /\ owner' = "free"
  /\ pc' = [pc EXCEPT ![t] = l]
  /\ moved' = [moved EXCEPT ![t] = 0]
  /\ numzeroes' = [numzeroes EXCEPT ![t] = 0]
  /\ wanted' = [wanted EXCEPT ![t] = n]
  /\ buffer' = [buffer EXCEPT ![t] = <<>>]
  /\ UNCHANGED <<request, frame>>

\* A cread of n bytes begins, at label l.
StartRead(t, l, n) ==
  /\ pc' = [pc EXCEPT ![t] = l]
  /\ moved' = [moved EXCEPT ![t] = 0]
  /\ numzeroes' = [numzeroes EXCEPT ![t] = 0]
  /\ wanted' = [wanted EXCEPT ![t] = n]
  /\ buffer' = [buffer EXCEPT ![t] = <<>>]
  /\ UNCHANGED <<owner, request, frame>>

\* cwrite has returned a count: only a negative one is an error.
Written(t) == IF request[t].size = 0 THEN Return(t)
              ELSE StartRead(t, "read", request[t].size)

----------------------------------------------------------------------------
(* cwrite *)

\* Bug: the break is forgotten.
KeepsTrying(t) == FALSE

\* if (3 < numzeroes) break.  The counter is never reset within a call: the
\* fourth fruitless transfer ends it, however many bytes moved in between.
GivesUp(t) == GiveUpAt < numzeroes[t] + 1

\* write() takes n > 0 of the remaining bytes.
WriteSome(t) ==
  /\ pc[t] = "write" /\ line = "up"
  /\ \E n \in 1..(Len(frame[t]) - moved[t]) :
       /\ toRobot' = toRobot \o SubSeq(frame[t], moved[t] + 1, moved[t] + n)
       /\ IF moved[t] + n = Len(frame[t]) THEN Written(t)
          ELSE /\ moved' = [moved EXCEPT ![t] = @ + n]
               /\ UNCHANGED <<owner, pc, request, frame, numzeroes, wanted,
                              buffer>>
  /\ UNCHANGED <<line, input, robotVars, calls, asked, short, flushed>>

\* write() takes nothing.  What cwrite then returns is a count, no error.
WriteNothing(t) ==
  /\ pc[t] = "write" /\ line = "up"
  /\ IF GivesUp(t)
     THEN Written(t) /\ short' = TRUE
     ELSE /\ numzeroes' = [numzeroes EXCEPT ![t] = @ + 1]
          /\ UNCHANGED <<owner, pc, request, frame, moved, wanted, buffer, short>>
  /\ UNCHANGED <<line, toRobot, input, robotVars, calls, asked, flushed>>

\* write() fails: cwrite returns -1 and so does the call.
WriteFails(t) ==
  /\ pc[t] = "write" /\ line = "down"
  /\ Return(t)
  /\ UNCHANGED <<line, toRobot, input, robotVars, calls, asked, short, flushed>>

----------------------------------------------------------------------------
(* cread.  The port blocks: read() waits for a byte while the line is up.  *)

\* tcflush(fd, TCIFLUSH), unless the loop ended with an error.
Flush(rest) == /\ input' = <<>>
               /\ flushed' = (flushed \/ rest # <<>>)

\* What the call does after a cread: getScript reads on, as many bytes as the
\* first one says (size is uninitialised when there is none).
HasRead(t, bytes) ==
  IF pc[t] = "read" /\ frame[t] = <<ShowScript>>
  THEN \E n \in IF bytes = <<>> THEN Stray ELSE {bytes[1]} :
         StartRead(t, "script", n)
  ELSE Return(t)

ReadSome(t) ==
  /\ pc[t] \in {"read", "script"}
  /\ LET n == MIN(Len(input), wanted[t] - moved[t])
         bytes == buffer[t] \o SubSeq(input, 1, n)
     IN /\ n > 0 \/ wanted[t] = 0
        /\ IF moved[t] + n = wanted[t]
           THEN /\ HasRead(t, bytes)
                /\ Flush(SubSeq(input, n + 1, Len(input)))
           ELSE /\ input' = SubSeq(input, n + 1, Len(input))
                /\ moved' = [moved EXCEPT ![t] = @ + n]
                /\ buffer' = [buffer EXCEPT ![t] = bytes]
                /\ UNCHANGED <<owner, pc, request, frame, numzeroes, wanted, flushed>>
  /\ UNCHANGED <<line, toRobot, robotVars, calls, asked, short>>

\* read() returns 0: the port has hung up.
ReadNothing(t) ==
  /\ pc[t] \in {"read", "script"} /\ line = "down" /\ input = <<>>
  /\ wanted[t] > 0
  /\ IF GivesUp(t)
     THEN HasRead(t, buffer[t])
     ELSE /\ numzeroes' = [numzeroes EXCEPT ![t] = @ + 1]
          /\ UNCHANGED <<owner, pc, request, frame, moved, wanted, buffer>>
  /\ UNCHANGED <<line, toRobot, input, robotVars, calls, asked, short, flushed>>

\* read() fails: the call returns -1 (getScript: NULL) at once.
ReadFails(t) ==
  /\ pc[t] \in {"read", "script"} /\ line = "down" /\ wanted[t] > 0
  /\ Return(t)
  /\ UNCHANGED <<line, toRobot, input, robotVars, calls, asked, short, flushed>>

ThreadStep(t) ==
  \/ Lock(t)
  \/ WriteSome(t)
  \/ WriteNothing(t)
  \/ WriteFails(t)
  \/ ReadSome(t)
  \/ ReadNothing(t)
  \/ ReadFails(t)

----------------------------------------------------------------------------
(* The robot and the line (external). *)

\* What the robot answers the command c; v and w take turns.
Reply(c, v, w) ==
  CASE c[1] \in {142, 149} -> [i \in 1..AnswerSize(c) |-> IF i % 2 = 1 THEN v ELSE w]
    [] c[1] = ShowScript   -> <<Len(script)>> \o script
    [] OTHER               -> <<>>

\* A byte arrives.  Where a command should begin, anything that is no opcode
\* is skipped; a command is obeyed with its last byte.
Hear ==
  /\ toRobot # <<>> /\ line = "up"
  /\ toRobot' = Tail(toRobot)
  /\ LET c == Append(heard, Head(toRobot))
         whole == Len(c) = 1 + DataBytes(c)
     IN \/ /\ c[1] \notin Opcodes
           /\ UNCHANGED <<heard, script, air, obeyed, answered>>
        \/ /\ c[1] \in Opcodes /\ ~whole
           /\ heard' = c
           /\ UNCHANGED <<script, air, obeyed, answered>>
        \/ /\ c[1] \in Opcodes /\ whole
           /\ heard' = <<>>
           /\ obeyed' = Append(obeyed, Meaning(c))
           /\ script' = IF c[1] = 152 THEN SubSeq(c, 3, Len(c)) ELSE script
           /\ \E v, w \in Sensed :
                LET reply == Reply(c, v, w)
                IN /\ air' = air \o reply
                   /\ answered' = IF reply = <<>> THEN answered ELSE reply
  /\ UNCHANGED <<owner, threadVars, line, input, calls, asked, short, flushed>>

\* Some of the bytes on their way reach the port together.
Arrive ==
  /\ air # <<>> /\ line = "up"
  /\ \E n \in 1..Len(air) :
       /\ input' = input \o SubSeq(air, 1, n)
       /\ air' = SubSeq(air, n + 1, Len(air))
  /\ UNCHANGED <<owner, threadVars, line, toRobot, heard, script, obeyed,
                 answered, calls, asked, short, flushed>>

\* The port hangs up; what is on the cable is lost.
HangUp ==
  /\ line = "up" /\ line' = "down"
  /\ toRobot' = <<>> /\ air' = <<>>
  /\ UNCHANGED <<owner, threadVars, input, heard, script, obeyed, answered,
                 calls, asked, short, flushed>>

Next ==
  \/ \E t \in Threads : Call(t) \/ ThreadStep(t)
  \/ Hear
  \/ Arrive
  \/ HangUp

\* A runnable thread runs, and the robot answers.  Calls are finite in
\* number, so weak fairness of Lock is what a mutex without queue gives.
Fairness ==
  /\ \A t \in Threads : WF_vars(ThreadStep(t))
  /\ WF_vars(Hear) /\ WF_vars(Arrive)

Spec     == Init /\ [][Next]_vars
FairSpec == Spec /\ Fairness

----------------------------------------------------------------------------
(* Properties *)

TypeOK ==
  /\ owner \in Threads \union {"free"}
  /\ pc \in [Threads -> {"idle", "lock", "write", "read", "script"}]
  /\ request \in [Threads -> Requests \union {startOI}]
  /\ moved \in [Threads -> Nat]
  /\ numzeroes \in [Threads -> 0..GiveUpAt]
  /\ wanted \in [Threads -> Nat]
  /\ frame \in [Threads -> Seq(Bytes)] /\ buffer \in [Threads -> Seq(Bytes)]
  /\ line \in {"up", "down"}
  /\ \A s \in {toRobot, air, input, heard, script, answered} : s \in Seq(Bytes)
  /\ calls \in 0..MaxCalls
  /\ short \in BOOLEAN /\ flushed \in BOOLEAN

\* As long as every cwrite has put its whole frame on the line, the robot
\* obeys what the calls asked for (with the limits the documentation gives),
\* in the order in which they got the line and nothing else; and once the
\* line is quiet it has obeyed all of it and stands at the start of a frame.
ObeysCalls ==
  ~short =>
    /\ IsPrefix(obeyed, asked)
    /\ owner = "free" /\ toRobot = <<>> /\ line = "up"
         => obeyed = asked /\ heard = <<>>

\* A call that reads gets the bytes of the answer to its own question, not a
\* part of another's, unless the port hung up, or an earlier cwrite stopped
\* short, or a flush threw away what was to come.
GetsItsAnswer ==
  \A t \in Threads :
     /\ pc[t] \in {"read", "script"} /\ ~short /\ ~flushed /\ line = "up"
     => LET before == IF pc[t] = "script" THEN <<Len(script)>> ELSE <<>>
        IN toRobot = <<>> => before \o buffer[t] \o input \o air = answered

\* Bytes that a call has read mean the same to readSensor and getAllSensors.
SameDecoding == (\E t \in Threads : buffer[t] # <<>>) => SamePackets

\* Every call returns and gives the line back, unless a cwrite of a query
\* stopped short or getScript's first cread flushed the script away: then
\* nothing will come and the call waits for ever with create_mutex held.
CallsReturn ==
  \A t \in Threads : pc[t] = "lock" ~> (pc[t] = "idle" \/ short \/ flushed)

=============================================================================
