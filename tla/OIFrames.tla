------------------------------ MODULE OIFrames ------------------------------
(***************************************************************************)
(* What libcreateoi puts on the serial line and how it reads what comes    *)
(* back: the frame of every command with the limits it enforces, and the   *)
(* two decoders of sensor packets, readSensor and getAllSensors.           *)
(***************************************************************************)
EXTENDS Integers, Sequences, SequencesExt

CONSTANT Stray   \* what an uninitialised byte may hold

Bytes == 0..255

ASSUME StrayAssumption == Stray \subseteq Bytes

----------------------------------------------------------------------------
(* The frames.  A request has the frames its call may write (several when  *)
(* it sends memory it never wrote), the number of bytes it then reads, and *)
(* what its documentation says it asks of the robot.                       *)

Request(frames, size, asks) == [frames |-> frames, size |-> size, asks |-> asks]
Command(frame, asks)        == Request({frame}, 0, asks)

\* The high and the low byte of a 16-bit integer.
Word(x)   == <<(x \div 256) % 256, x % 256>>
Signed(h, l) == LET w == 256 * h + l IN IF w >= 32768 THEN w - 65536 ELSE w

MIN(a, b) == IF a < b THEN a ELSE b
MAX(a, b) == IF a > b THEN a ELSE b
Keep(x, lo, hi) == MAX(lo, MIN(hi, x))

\* What "ranges from lo to hi" promises: the value of the range next to x.
Nearest(x, lo, hi) == IF x \in lo..hi THEN x ELSE IF x < lo THEN lo ELSE hi

startOI == Command(<<128>>, <<"start">>)
enterSafeMode == Command(<<131>>, <<"safe">>)
enterFullMode == Command(<<132>>, <<"full">>)
runSpotDemo  == Command(<<134>>, <<"spot">>)
runCoverDemo == Command(<<135>>, <<"cover">>)
runCoverAndDockDemo == Command(<<143>>, <<"cover and dock">>)
runDemo(demo) == Command(<<136, demo>>, <<"demo", demo>>)
setBaud(rate) == Command(<<129, rate>>, <<"baud", rate>>)

\* 32768 as a short: the manual's code for driving straight.
Straight == -32768
\* Bug: the special case for driving straight is forgotten.
RadiusAsIs(rad) == rad

\* A radius of 0 stands for straight on.
Radius(rad) == IF rad = 0 THEN Straight ELSE rad

drive(vel, rad) ==
  Command(<<137>> \o Word(Keep(vel, -500, 500))
                  \o Word(Radius(Keep(rad, -2000, 2000))),
          <<"drive", Nearest(vel, -500, 500),
            IF rad = 0 THEN Straight ELSE Nearest(rad, -2000, 2000)>>)

directDrive(Lwheel, Rwheel) ==
  Command(<<145>> \o Word(Keep(Rwheel, -500, 500))
                  \o Word(Keep(Lwheel, -500, 500)),
          <<"wheels", Nearest(Lwheel, -500, 500), Nearest(Rwheel, -500, 500)>>)

setLEDState(lflags, pColor, pInten) ==
  Command(<<139, lflags, pColor, pInten>>, <<"led", lflags, pColor, pInten>>)
setDigitalOuts(oflags)    == Command(<<147, oflags>>, <<"outputs", oflags>>)
setLowSideDrivers(oflags) == Command(<<138, oflags>>, <<"drivers", oflags>>)
setPWMLowSideDrivers(pwm0, pwm1, pwm2) ==
  Command(<<144, MIN(128, pwm2), MIN(128, pwm1), MIN(128, pwm0)>>,
          <<"duty", Nearest(pwm0, 0, 128), Nearest(pwm1, 0, 128),
            Nearest(pwm2, 0, 128)>>)
sendIRbyte(irbyte) == Command(<<151, irbyte>>, <<"ir", irbyte>>)

\* song alternates notes and durations; its length counts pairs.
writeSong(number, length, song) ==
  Command(<<140, number, length>> \o SubSeq(song, 1, 2 * length),
          <<"song", number, song>>)
playSong(number) == Command(<<141, number>>, <<"play song", number>>)
playScript       == Command(<<153>>, <<"play script">>)

readRawSensor(packet, size) ==
  Request({<<142, packet>>}, size, <<"sensors", packet>>)

\* The frame is as long as the ANSWER: what follows the packet numbers is
\* stack memory.
readRawSensorList(packets, size) ==
  Request({<<149, Len(packets)>> \o packets \o more :
             more \in [1..(size - Len(packets)) -> Stray]},
          size, <<"list", packets>>)

\* OPCODE_SCRIPT goes to cmd[1], where the loop overwrites it: cmd[0] is
\* stack memory.  script starts with its own length.
writeScript(script) ==
  Request({<<byte>> \o script : byte \in Stray}, 0, <<"script", Tail(script)>>)

\* One byte tells how many follow.
ShowScript == 154
getScript  == Request({<<ShowScript>>}, 1, <<"show script">>)

----------------------------------------------------------------------------
(* The sensor packets.  readSensor knows one packet, getAllSensors the     *)
(* group of all of them, packets 7 to 42 in this order.                     *)

INT_MIN == -2147483647 - 1

UnsignedBytes == (7..14) \union {17, 18, 21, 32} \union (34..38)
SignedBytes   == {24}
UnsignedWords == {22, 33} \union (25..31)
SignedWords   == {19, 20, 23} \union (39..42)

\* b[1] and b[2] are *buffer, in the order they came.
readSensor(packet, b) ==
  CASE packet \in UnsignedBytes -> b[1]
    [] packet \in SignedBytes   -> IF b[1] > 127 THEN b[1] - 256 ELSE b[1]
    [] packet \in UnsignedWords -> 256 * b[1] + b[2]
    [] packet \in SignedWords   -> Signed(b[1], b[2])
    [] OTHER -> INT_MIN

\* Packets 15 and 16, which readSensor refuses, are one unused byte each.
Size(packet) == IF packet \in UnsignedWords \union SignedWords THEN 2 ELSE 1

\* Bug: the two-byte packets after the battery temperature start at buf[23].
LateCharge(i) == 23 + 2 * i

\* Where in buf result[i + 18] starts.
Charge(i) == 22 + 2 * i

\* buf has 52 bytes, buf[0] the first; result has 36 numbers.
getAllSensors(buf) ==
  LET U(i) == 256 * buf[i] + buf[i + 1]
      S(i) == Signed(buf[i], buf[i + 1])
  IN [i \in 0..35 |->
        CASE i \in 0..11  -> buf[i]
          [] i \in 12..13 -> S(2 * i - 12)
          [] i = 14       -> buf[16]
          [] i = 15       -> U(17)
          [] i = 16       -> S(19)
          [] i = 17       -> IF buf[21] > 127 THEN buf[21] - 256 ELSE buf[21]
          [] i \in 18..24 -> U(Charge(i - 18))
          [] i = 25       -> buf[36]
          [] i = 26       -> U(37)
          [] i \in 27..31 -> buf[i + 12]
          [] i \in 32..35 -> S(44 + 2 * (i - 32))]

\* Where in the group a packet starts: after those before it.
Offset[p \in 7..43] == IF p = 7 THEN 0 ELSE Offset[p - 1] + Size(p - 1)

\* For every packet the number getAllSensors finds in buf is the one readSensor
\* would have returned for the same bytes: both agree where the packet lies,
\* how long it is and whether it is signed.
SameIn(buf) ==
  \A p \in (7..42) \ {15, 16} :
     getAllSensors(buf)[p - 7] = readSensor(p, <<buf[Offset[p]], buf[Offset[p] + 1]>>)

\* The group has 52 bytes, and in every group with one byte (of 1, 128 or 255)
\* that is not zero both find the same.
SamePackets ==
  /\ Offset[43] = 52
  /\ \A at \in 0..51, v \in {1, 128, 255} :
       SameIn([i \in 0..52 |-> IF i = at THEN v ELSE 0])

=============================================================================
