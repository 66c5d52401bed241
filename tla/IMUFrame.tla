------------------------------ MODULE IMUFrame ------------------------------
(***************************************************************************)
(* The message of the IMU: how printdata of the firmware makes 32 bytes of *)
(* nine readings and how readIMUData of libIMU makes readings of them.     *)
(* Rates and angles are in hundredths of a degree, accelerations in        *)
(* thousandths of g, as the firmware truncates them.                        *)
(***************************************************************************)
EXTENDS Integers, Sequences, SequencesExt

\* The low byte comes first.  tempint has 16 bits on the firmware's processor:
\* a sum beyond them wraps, and the bytes are the same.
Word(x) == <<x % 256, (x \div 256) % 256>>
Long(x) == Word(x) \o Word(x \div 65536)

Unsigned(x, turn) == IF x < 0 THEN x + turn ELSE x

gyroBytes(x)  == Word(Unsigned(x, 50000))
accelBytes(x) == Long(Unsigned(x, 8000))
angleBytes(x) == Word(Unsigned(x, 36000))
yawBytes(x)   == Word(Unsigned(IF x > 36000 THEN x - 36000 ELSE x, 36000))

\* ck_a and ck_b, which are bytes.
Checksums(body) ==
  LET ck == FoldLeft(LAMBDA c, y : <<(c[1] + y) % 256, (c[1] + y + c[2]) % 256>>,
                     <<0, 0>>, body)
  IN <<ck[1], ck[2]>>

\* r: gyroX, gyroY, gyroZ, accelX, accelY, accelZ, roll, pitch, yaw.
printdata(r) ==
  LET body == <<6, 2>> \o gyroBytes(r[1]) \o gyroBytes(r[2]) \o gyroBytes(r[3])
                \o accelBytes(r[4]) \o accelBytes(r[5]) \o accelBytes(r[6])
                \o angleBytes(r[7]) \o angleBytes(r[8]) \o yawBytes(r[9])
  IN <<68, 73, 89, 100>> \o body \o Checksums(body)

----------------------------------------------------------------------------

\* x, outside -half..half, is a turn away from what it stands for.
Ranged(x, half) == CASE x > half -> x - 2 * half
                     [] x < -half -> x + 2 * half
                     [] OTHER -> x
RangeGyro(x) == Ranged(x, 25000)
Range4G(x)   == Ranged(x, 4000)

\* Bug: only the upper half turn is brought back.
Deg360(x) == IF x > 36000 THEN x - 36000 ELSE x

Deg180(x)    == Ranged(x, 18000)

\* buf[i] of the code is b[i + 1].
ShortAt(b, i) == 256 * b[i + 2] + b[i + 1]
IntAt(b, i) == LET high == IF b[i + 4] > 127 THEN b[i + 4] - 256 ELSE b[i + 4]
                 IN ((256 * high + b[i + 3]) * 256 + b[i + 2]) * 256 + b[i + 1]

\* A frame is refused when both header bytes are wrong or a checksum is; the
\* preamble is not looked at.
Refused(b) ==
  \/ b[5] # 6 /\ b[6] # 2
  \/ Checksums(SubSeq(b, 5, 30)) # SubSeq(b, 31, 32)

readIMUData(b) ==
  <<RangeGyro(ShortAt(b, 6)), RangeGyro(ShortAt(b, 8)),
    RangeGyro(ShortAt(b, 10)), Range4G(IntAt(b, 12)), Range4G(IntAt(b, 16)),
    Range4G(IntAt(b, 20)), Deg180(ShortAt(b, 24)), Deg180(ShortAt(b, 26)),
    Deg180(ShortAt(b, 28))>>

----------------------------------------------------------------------------

\* The readings a field may have: the ends of its range, the values next to
\* zero and to the limits of a byte, and some between.
Probes(lo, hi) == {x \in lo..hi : \/ x \in {lo, lo + 1, hi - 1, hi}
                                  \/ x \in -2..2 \/ x \in 254..257 \/ x \in -257..-254
                                  \/ x % 1009 = 0}
Least    == <<-24999, -24999, -24999, -3999, -3999, -3999, -17999, -17999, -17999>>
Greatest == <<25000, 25000, 25000, 4000, 4000, 4000, 18000, 18000, 18000>>

\* What the sensors measure (above the lowest value, which is taken for the
\* highest).
Readings == {r \in [1..9 -> Int] : \A f \in 1..9 : r[f] \in Least[f]..Greatest[f]}

\* The frame of a reading passes libIMU's tests, and what libIMU caches is what
\* the firmware measured, in every field.
RoundTrip(r) ==
  LET b == printdata(r)
  IN /\ Len(b) = 32
     /\ ~Refused(b)
     /\ readIMUData(b) = r

\* So it is with each field at every probe, the others at the ends of their
\* ranges and at rest.
SameCodec ==
  \A f \in 1..9 : \A x \in Probes(Least[f], Greatest[f]) : \A rest \in 1..3 :
    RoundTrip([g \in 1..9 |-> IF g = f THEN x
                             ELSE CASE rest = 1 -> Least[g]
                                    [] rest = 2 -> 0
                                    [] rest = 3 -> Greatest[g]])

=============================================================================
