--------------------------- MODULE IMULink_proofs ---------------------------
(***************************************************************************)
(* For messages of any length and buffers of any size: the types, and that *)
(* a reader is in step after a flush between two messages.  For every      *)
(* reading the sensors can give: the codec brings it back.                 *)
(***************************************************************************)
EXTENDS IMULink, SequenceTheorems, TLAPS

\* The bytes of s, which follow n others of the message that was due, are in
\* their places, as far as that message goes.
Follows(s, n) == \A i \in 1..Len(s) : n + i <= N => s[i] = <<due, n + i>>

\* The bytes between the last flush and the firmware: those iread has, those
\* in the port's queue, those in the ring.
Held    == IF pc \in {"read", "flush"} THEN buf ELSE <<>>
Between == Len(Held) + Len(port) + Len(ring)

\* The message due is on its way in order, and the firmware is where it ends.
StepInv ==
  pause /\ line = "up" =>
    /\ Follows(Held, 0)
    /\ Follows(port, Len(Held))
    /\ Follows(ring, Len(Held) + Len(port))
    /\ Between < N => msg = due /\ at = Between + 1

\* A frame that is complete has all its bytes; a port that has hung up gives
\* none; before the port is open there was no flush.
LinkInv ==
  /\ pc = "flush" => Len(buf) = N
  /\ pc = "read" => Len(buf) < N
  /\ pc = "closed" => ~pause
  /\ line = "down" => port = <<>> /\ (pc = "flush" => ~pause)

IInv == TypeOK /\ LinkInv /\ StepInv

----------------------------------------------------------------------------
(* Sequences *)

\* A byte is added at the end of a queue.
LEMMA AppendByte ==
  ASSUME NEW s \in Seq(Byte), NEW b \in Byte
  PROVE  /\ Append(s, b) \in Seq(Byte) /\ Len(Append(s, b)) = Len(s) + 1
         /\ Append(s, b)[Len(s) + 1] = b
         /\ \A i \in 1..Len(s) : Append(s, b)[i] = s[i]
  OBVIOUS

\* A byte is taken from the front of a queue.
LEMMA TakeByte ==
  ASSUME NEW s \in Seq(Byte), s # <<>>
  PROVE  /\ Tail(s) \in Seq(Byte) /\ Len(s) \in Nat \ {0}
         /\ Len(Tail(s)) = Len(s) - 1
         /\ Head(s) \in Byte /\ Head(s) = s[1]
         /\ \A i \in 1..Len(Tail(s)) : Tail(s)[i] = s[i + 1]
  OBVIOUS

\* read() of n bytes.
LEMMA Split ==
  ASSUME NEW b \in Seq(Byte), NEW s \in Seq(Byte), NEW n \in 0..Len(s)
  PROVE  /\ b \o SubSeq(s, 1, n) \in Seq(Byte)
         /\ Len(b \o SubSeq(s, 1, n)) = Len(b) + n
         /\ \A i \in 1..Len(b) : (b \o SubSeq(s, 1, n))[i] = b[i]
         /\ \A i \in 1..n : (b \o SubSeq(s, 1, n))[Len(b) + i] = s[i]
         /\ SubSeq(s, n + 1, Len(s)) \in Seq(Byte)
         /\ Len(SubSeq(s, n + 1, Len(s))) = Len(s) - n
         /\ \A i \in 1..(Len(s) - n) : SubSeq(s, n + 1, Len(s))[i] = s[n + i]
<1>1. /\ SubSeq(s, 1, n) \in Seq(Byte) /\ Len(SubSeq(s, 1, n)) = n
      /\ \A i \in 1..n : SubSeq(s, 1, n)[i] = s[i]
  OBVIOUS
<1>2. /\ SubSeq(s, n + 1, Len(s)) \in Seq(Byte)
      /\ Len(SubSeq(s, n + 1, Len(s))) = Len(s) - n
      /\ \A i \in 1..(Len(s) - n) : SubSeq(s, n + 1, Len(s))[i] = s[n + i]
  OBVIOUS
<1>3. ASSUME NEW a \in Seq(Byte), NEW c \in Seq(Byte)
      PROVE  /\ a \o c \in Seq(Byte) /\ Len(a \o c) = Len(a) + Len(c)
             /\ \A i \in 1..Len(a) : (a \o c)[i] = a[i]
             /\ \A i \in 1..Len(c) : (a \o c)[Len(a) + i] = c[i]
  OBVIOUS
<1> QED
  BY <1>1, <1>2, <1>3

----------------------------------------------------------------------------
(* Types *)

\* The constants are numbers.
LEMMA Numbers ==
  /\ N \in Nat /\ N > 1 /\ Ids \in Nat /\ Ids > 0
  /\ Ring \in Nat /\ Ring > 0 /\ PortSize \in Nat /\ PortSize > 0
  /\ MaxLost \in Nat
<1>1. /\ N \in Nat /\ N > 1 /\ Ids \in Nat /\ Ring \in Nat /\ Ring > 0
      /\ PortSize \in Nat /\ PortSize > 0 /\ MaxLost \in Nat
  BY LinkAssumption DEF LinkAssumption
<1>2. Ids * N > N + Ring + PortSize + MaxLost
  BY LinkAssumption DEF LinkAssumption
<1>3. ASSUME Ids = 0 PROVE FALSE
  <2>1. 0 * N > N + Ring + PortSize + MaxLost
    BY <1>2, <1>3
  <2> QED
    BY <1>1, <2>1
<1> QED
  BY <1>1, <1>3

\* The message after the last one is the first.
LEMMA NextId ==
  ASSUME NEW m \in 0..(Ids - 1)
  PROVE  (m + 1) % Ids \in 0..(Ids - 1)
  BY Numbers

\* What is cached is a message.
LEMMA StoredTyped ==
  ASSUME NEW b \in Seq(Byte), Valid(b)
  PROVE  b[N][1] \in 0..(Ids - 1)
<1>1. N \in 1..Len(b)
  BY Numbers DEF Valid
<1>2. b[N] \in Byte
  BY <1>1
<1> QED
  BY <1>2 DEF Byte

\* The stream starts empty.
LEMMA InitInv == Init => IInv
<1> SUFFICES ASSUME Init PROVE IInv
  OBVIOUS
<1>1. TypeOK
  <2>1. /\ msg \in 0..(Ids - 1) /\ at \in 1..N /\ lost \in 0..MaxLost
        /\ cache \in -1..(Ids - 1) /\ due \in 0..(Ids - 1)
    BY Numbers DEF Init
  <2>2. /\ ring \in Seq(Byte) /\ Len(ring) <= Ring
        /\ port \in Seq(Byte) /\ Len(port) <= PortSize
        /\ buf \in Seq(Byte) /\ Len(buf) <= N
    BY Numbers DEF Init
  <2>3. shut_down \in BOOLEAN /\ pause \in BOOLEAN
    BY Zenon DEF Init
  <2>4. /\ line \in {"up", "down"} /\ owner \in {"free", "thread", "main", "gone"}
        /\ pc \in {"closed", "wait", "read", "flush", "lock", "store", "exit"}
        /\ main \in {"running", "lock", "set", "join", "stopped"}
    BY DEF Init
  <2> QED
    BY <2>1, <2>2, <2>3, <2>4 DEF TypeOK
<1>2. LinkInv
  BY DEF Init, LinkInv
<1>3. StepInv
  BY DEF Init, StepInv
<1> QED
  BY <1>1, <1>2, <1>3 DEF IInv

----------------------------------------------------------------------------
(* The steps of the firmware and the line *)

\* A byte the firmware prints continues the stream.
LEMMA SendByteInv == IInv /\ SendByte => IInv'
<1> SUFFICES ASSUME IInv, SendByte PROVE IInv'
  OBVIOUS
<1> DEFINE b == <<msg, at>>
<1>1. TypeOK /\ LinkInv /\ StepInv
  BY DEF IInv
<1>2. b \in Byte /\ ring \in Seq(Byte)
  BY <1>1 DEF TypeOK, Byte
<1>3. ring' = Append(ring, b)
  BY DEF SendByte
<1>4. /\ ring' \in Seq(Byte) /\ Len(ring') = Len(ring) + 1
      /\ ring'[Len(ring) + 1] = b
      /\ \A i \in 1..Len(ring) : ring'[i] = ring[i]
  BY <1>2, <1>3, AppendByte
<1>5. /\ line' = line /\ port' = port /\ lost' = lost /\ pc' = pc /\ buf' = buf
      /\ cache' = cache /\ owner' = owner /\ shut_down' = shut_down
      /\ main' = main /\ pause' = pause /\ due' = due
  BY DEF SendByte, historyVars
<1>6. msg' \in 0..(Ids - 1) /\ at' \in 1..N
  BY <1>1, NextId, Numbers DEF TypeOK, SendByte
<1>7. TypeOK'
  <2>1. Len(ring') <= Ring
    BY <1>1, <1>4, Numbers DEF TypeOK, SendByte
  <2> QED
    BY <1>1, <1>4, <1>5, <1>6, <2>1 DEF TypeOK
<1>8. LinkInv'
  BY <1>1, <1>5 DEF LinkInv
<1>9. StepInv'
  <2> SUFFICES ASSUME pause, line = "up" PROVE StepInv'
    BY <1>5 DEF StepInv
  <2>1. Held' = Held /\ due' = due
    BY <1>5 DEF Held
  <2>2. Len(Held) \in Nat /\ Len(port) \in Nat /\ Len(ring) \in Nat
    BY <1>1 DEF TypeOK, Held
  <2>3. /\ Follows(Held, 0) /\ Follows(port, Len(Held))
        /\ Follows(ring, Len(Held) + Len(port))
        /\ Between < N => msg = due /\ at = Between + 1
    BY <1>1 DEF StepInv
  <2>4. Follows(Held, 0)' /\ Follows(port, Len(Held))'
    BY <2>1, <2>3, <1>5 DEF Follows
  <2>5. Follows(ring, Len(Held) + Len(port))'
    <3> SUFFICES ASSUME NEW i \in 1..Len(ring'),
                        Len(Held) + Len(port) + i <= N
                 PROVE  ring'[i] = <<due, Len(Held) + Len(port) + i>>
      BY <2>1, <1>5 DEF Follows
    <3>1. CASE i \in 1..Len(ring)
      BY <3>1, <2>3, <1>4 DEF Follows
    <3>2. CASE i = Len(ring) + 1
      <4>1. Between < N
        BY <3>2, <2>2, Numbers DEF Between
      <4>2. b = <<due, Len(Held) + Len(port) + i>>
        BY <4>1, <3>2, <2>2, <2>3 DEF Between
      <4> QED
        BY <4>2, <3>2, <1>4
    <3> QED
      BY <3>1, <3>2, <1>4, <2>2
  <2>6. (Between < N => msg = due /\ at = Between + 1)'
    <3>1. Between' = Between + 1 /\ Between \in Nat
      BY <1>4, <1>5, <2>1, <2>2 DEF Between
    <3> SUFFICES ASSUME Between + 1 < N
                 PROVE  msg' = due /\ at' = Between + 2
      BY <3>1, <2>1
    <3>2. msg = due /\ at = Between + 1
      BY <2>3, <3>1, Numbers
    <3> QED
      BY <3>1, <3>2, Numbers DEF SendByte
  <2> QED
    BY <2>4, <2>5, <2>6 DEF StepInv
<1> QED
  BY <1>7, <1>8, <1>9 DEF IInv

\* A byte that arrives moves from one queue to the next, in its place.
LEMMA ArriveInv == IInv /\ Arrive => IInv'
<1> SUFFICES ASSUME IInv, Arrive PROVE IInv'
  OBVIOUS
<1>1. TypeOK /\ LinkInv /\ StepInv
  BY DEF IInv
<1>2. ring \in Seq(Byte) /\ ring # <<>> /\ ring' = Tail(ring)
  BY <1>1 DEF TypeOK, Arrive
<1>3. /\ ring' \in Seq(Byte) /\ Len(ring) \in Nat \ {0}
      /\ Len(ring') = Len(ring) - 1
      /\ Head(ring) \in Byte /\ Head(ring) = ring[1]
      /\ \A i \in 1..Len(ring') : ring'[i] = ring[i + 1]
  BY <1>2, TakeByte
<1>4. /\ msg' = msg /\ at' = at /\ line' = line /\ lost' = lost /\ pc' = pc
      /\ buf' = buf /\ cache' = cache /\ owner' = owner
      /\ shut_down' = shut_down /\ main' = main /\ pause' = pause /\ due' = due
  BY DEF Arrive, firmwareVars, historyVars
<1>5. CASE pc = "closed" \/ line = "down"
  <2>1. port' = port
    BY <1>5 DEF Arrive
  <2>2. TypeOK'
    BY <1>1, <1>3, <1>4, <2>1, Numbers DEF TypeOK
  <2>3. LinkInv'
    BY <1>1, <1>4, <2>1 DEF LinkInv
  <2>4. StepInv'
    BY <1>1, <1>4, <1>5 DEF LinkInv, StepInv
  <2> QED
    BY <2>2, <2>3, <2>4 DEF IInv
<1>6. CASE pc # "closed" /\ line # "down"
  <2>1. port' = Append(port, Head(ring)) /\ Len(port) < PortSize
    BY <1>6 DEF Arrive
  <2>2. /\ port' \in Seq(Byte) /\ Len(port') = Len(port) + 1
        /\ port'[Len(port) + 1] = ring[1]
        /\ \A i \in 1..Len(port) : port'[i] = port[i]
    BY <2>1, <1>1, <1>3, AppendByte DEF TypeOK
  <2>3. Len(Held) \in Nat /\ Len(port) \in Nat
    BY <1>1 DEF TypeOK, Held
  <2>4. TypeOK'
    <3>1. Len(port') <= PortSize /\ Len(ring') <= Ring
      BY <1>1, <1>3, <2>1, <2>2, <2>3, Numbers DEF TypeOK
    <3> QED
      BY <1>1, <1>3, <1>4, <2>2, <3>1 DEF TypeOK
  <2>5. LinkInv'
    BY <1>1, <1>4, <1>6 DEF LinkInv
  <2>6. StepInv'
    <3> SUFFICES ASSUME pause, line = "up" PROVE StepInv'
      BY <1>4 DEF StepInv
    <3>1. Held' = Held
      BY <1>4 DEF Held
    <3>2. /\ Follows(Held, 0) /\ Follows(port, Len(Held))
          /\ Follows(ring, Len(Held) + Len(port))
          /\ Between < N => msg = due /\ at = Between + 1
      BY <1>1 DEF StepInv
    <3>3. Follows(Held, 0)'
      BY <3>1, <3>2, <1>4 DEF Follows
    <3>4. Follows(port, Len(Held))'
      <4> SUFFICES ASSUME NEW i \in 1..Len(port'), Len(Held) + i <= N
                   PROVE  port'[i] = <<due, Len(Held) + i>>
        BY <3>1, <1>4 DEF Follows
      <4>1. CASE i \in 1..Len(port)
        BY <4>1, <3>2, <2>2 DEF Follows
      <4>2. CASE i = Len(port) + 1
        <5>1. 1 \in 1..Len(ring) /\ Len(Held) + Len(port) + 1 <= N
          BY <4>2, <1>3, <2>3
        <5>2. ring[1] = <<due, Len(Held) + Len(port) + 1>>
          BY <5>1, <3>2 DEF Follows
        <5> QED
          BY <5>2, <4>2, <2>2, <2>3
      <4> QED
        BY <4>1, <4>2, <2>2, <2>3
    <3>5. Follows(ring, Len(Held) + Len(port))'
      <4> SUFFICES ASSUME NEW i \in 1..Len(ring'),
                          Len(Held) + (Len(port) + 1) + i <= N
                   PROVE  ring'[i] = <<due, Len(Held) + (Len(port) + 1) + i>>
        BY <3>1, <1>4, <2>2 DEF Follows
      <4>1. i + 1 \in 1..Len(ring) /\ Len(Held) + Len(port) + (i + 1) <= N
        BY <1>3, <2>3, Numbers
      <4>2. ring[i + 1] = <<due, Len(Held) + Len(port) + (i + 1)>>
        BY <4>1, <3>2 DEF Follows
      <4> QED
        BY <4>2, <1>3, <2>3
    <3>6. (Between < N => msg = due /\ at = Between + 1)'
      <4>1. Between' = Between
        BY <3>1, <2>2, <2>3, <1>3 DEF Between
      <4> QED
        BY <4>1, <3>2, <1>4
    <3> QED
      BY <3>3, <3>4, <3>5, <3>6 DEF StepInv
  <2> QED
    BY <2>4, <2>5, <2>6 DEF IInv
<1> QED
  BY <1>5, <1>6

\* A loss ends the pause it could have spoilt.
LEMMA BreakInv == IInv /\ (Lose \/ HangUp) => IInv'
<1> SUFFICES ASSUME IInv, Lose \/ HangUp PROVE IInv'
  OBVIOUS
<1>1. TypeOK /\ LinkInv
  BY DEF IInv
<1>2. CASE Lose
  <2>1. ring' = Tail(ring) /\ ring # <<>> /\ lost' \in 0..MaxLost
    BY <1>1, <1>2, Numbers DEF Lose, TypeOK
  <2>2. ring' \in Seq(Byte) /\ Len(ring') <= Ring
    BY <1>1, <2>1, TakeByte, Numbers DEF TypeOK
  <2>3. pause' = FALSE
    BY <1>2 DEF Lose
  <2>4. pause' \in BOOLEAN
    BY <2>3, Zenon
  <2>5. TypeOK'
    BY <1>1, <1>2, <2>1, <2>2, <2>4 DEF TypeOK, Lose, firmwareVars
  <2>6. LinkInv'
    BY <1>1, <1>2, <2>3 DEF LinkInv, Lose
  <2> QED
    BY <2>3, <2>5, <2>6 DEF IInv, StepInv
<1>3. CASE HangUp
  <2>1. pause' = FALSE /\ line' = "down" /\ port' = <<>>
    BY <1>3 DEF HangUp
  <2>2. pause' \in BOOLEAN
    BY <2>1, Zenon
  <2>3. TypeOK'
    BY <1>1, <1>3, <2>1, <2>2, Numbers DEF TypeOK, HangUp, firmwareVars
  <2>4. LinkInv'
    BY <1>1, <1>3, <2>1 DEF LinkInv, HangUp
  <2> QED
    BY <2>1, <2>3, <2>4 DEF IInv, StepInv
<1> QED
  BY <1>2, <1>3

----------------------------------------------------------------------------
(* The steps of libIMU *)

\* A flush between two messages makes the next one the one that is due.
LEMMA FlushInv == IInv /\ (Start \/ Flush) => IInv'
<1> SUFFICES ASSUME IInv, Start \/ Flush PROVE IInv'
  OBVIOUS
<1>1. TypeOK /\ LinkInv
  BY DEF IInv
<1>2. /\ port' = <<>> /\ pc' \in {"wait", "lock"} /\ due' = msg
      /\ pause' = (at = 1 /\ ring = <<>>)
      /\ msg' = msg /\ at' = at /\ ring' = ring /\ line' = line
      /\ lost' = lost /\ buf' = buf /\ cache' = cache /\ owner' = owner
      /\ shut_down' = shut_down /\ main' = main
  BY DEF Start, Flush, Flushed, firmwareVars
<1>3. pause' \in BOOLEAN
  BY <1>2, Zenon
<1>4. TypeOK'
  BY <1>1, <1>2, <1>3, Numbers DEF TypeOK
<1>5. LinkInv'
  BY <1>1, <1>2 DEF LinkInv
<1>6. StepInv'
  <2> SUFFICES ASSUME pause' PROVE StepInv'
    BY DEF StepInv
  <2>1. at = 1 /\ ring = <<>>
    BY <1>2
  <2>2. Held' = <<>> /\ port' = <<>> /\ ring' = <<>>
    BY <1>2, <2>1 DEF Held
  <2>3. Follows(Held, 0)' /\ Follows(port, Len(Held))'
        /\ Follows(ring, Len(Held) + Len(port))'
    BY <2>2 DEF Follows
  <2>4. Between' = 0
    BY <2>2 DEF Between
  <2>5. msg' = due' /\ at' = Between' + 1
    BY <1>2, <2>1, <2>4
  <2> QED
    BY <2>3, <2>5 DEF StepInv
<1> QED
  BY <1>4, <1>5, <1>6 DEF IInv

\* What is held is what the steps that read nothing and lose nothing keep.
LEMMA KeptInv ==
  ASSUME IInv, TypeOK', LinkInv', Held' = Held,
         UNCHANGED <<msg, at, ring, line, port, pause, due>>
  PROVE  IInv'
<1>1. StepInv
  BY DEF IInv
<1>2. Between' = Between
  BY DEF Between
<1>3. /\ Follows(Held, 0)' <=> Follows(Held, 0)
      /\ Follows(port, Len(Held))' <=> Follows(port, Len(Held))
      /\ Follows(ring, Len(Held) + Len(port))'
           <=> Follows(ring, Len(Held) + Len(port))
  BY DEF Follows
<1>4. StepInv'
  BY <1>1, <1>2, <1>3 DEF StepInv
<1> QED
  BY <1>4 DEF IInv

\* read() moves a stretch of the stream into the frame.
LEMMA ReadInv == IInv /\ Read => IInv'
<1> SUFFICES ASSUME IInv, Read PROVE IInv'
  OBVIOUS
<1> DEFINE n == IF Len(port) < N - Len(buf) THEN Len(port) ELSE N - Len(buf)
<1>1. TypeOK /\ LinkInv /\ StepInv
  BY DEF IInv
<1>2. /\ pc = "read" /\ port # <<>>
      /\ buf' = buf \o SubSeq(port, 1, n)
      /\ port' = SubSeq(port, n + 1, Len(port))
      /\ pc' = IF Len(buf') = N THEN "flush" ELSE "read"
      /\ msg' = msg /\ at' = at /\ ring' = ring /\ line' = line
      /\ lost' = lost /\ cache' = cache /\ owner' = owner
      /\ shut_down' = shut_down /\ main' = main /\ pause' = pause /\ due' = due
  BY DEF Read, firmwareVars, historyVars
<1>3. /\ buf \in Seq(Byte) /\ port \in Seq(Byte) /\ Len(buf) < N
      /\ Len(buf) \in Nat /\ Len(port) \in Nat
  BY <1>1, <1>2 DEF TypeOK, LinkInv
<1>4. n \in 0..Len(port) /\ Len(buf) + n <= N
  BY <1>3, Numbers
<1> HIDE DEF n
<1>5. /\ buf' \in Seq(Byte) /\ Len(buf') = Len(buf) + n
      /\ \A i \in 1..Len(buf) : buf'[i] = buf[i]
      /\ \A i \in 1..n : buf'[Len(buf) + i] = port[i]
      /\ port' \in Seq(Byte) /\ Len(port') = Len(port) - n
      /\ \A i \in 1..(Len(port) - n) : port'[i] = port[n + i]
  BY <1>2, <1>3, <1>4, Split
<1>6. TypeOK'
  <2>1. Len(buf') <= N /\ Len(port') <= PortSize
    BY <1>1, <1>3, <1>4, <1>5, Numbers DEF TypeOK
  <2> QED
    BY <1>1, <1>2, <1>5, <2>1 DEF TypeOK
<1>7. line = "up" /\ LinkInv'
  <2>1. line = "up"
    BY <1>1, <1>2 DEF LinkInv, TypeOK
  <2>2. pc' = "flush" => Len(buf') = N
    BY <1>2
  <2>3. pc' = "read" => Len(buf') < N
    BY <1>2, <1>3, <1>4, <1>5, Numbers
  <2> QED
    BY <1>2, <2>1, <2>2, <2>3 DEF LinkInv
<1>8. StepInv'
  <2> SUFFICES ASSUME pause PROVE StepInv'
    BY <1>2 DEF StepInv
  <2>1. Held = buf /\ Held' = buf'
    BY <1>2 DEF Held
  <2>2. /\ Follows(buf, 0) /\ Follows(port, Len(buf))
        /\ Follows(ring, Len(buf) + Len(port))
        /\ Between < N => msg = due /\ at = Between + 1
    BY <1>1, <1>7, <2>1 DEF StepInv
  <2>3. Follows(Held, 0)'
    <3> SUFFICES ASSUME NEW i \in 1..Len(buf'), 0 + i <= N
                 PROVE  buf'[i] = <<due, 0 + i>>
      BY <2>1, <1>2 DEF Follows
    <3>1. CASE i \in 1..Len(buf)
      <4>1. buf[i] = <<due, 0 + i>>
        BY <3>1, <2>2 DEF Follows
      <4> QED
        BY <4>1, <3>1, <1>5
    <3>2. CASE i > Len(buf)
      <4>1. PICK j \in 1..n : i = Len(buf) + j
        <5>1. i - Len(buf) \in 1..n /\ i = Len(buf) + (i - Len(buf))
          BY <3>2, <1>3, <1>4, <1>5
        <5> QED
          BY <5>1
      <4>2. port[j] = <<due, Len(buf) + j>>
        BY <4>1, <2>2, <1>3, <1>4 DEF Follows
      <4>3. 0 + i = Len(buf) + j
        BY <4>1, <1>3
      <4>4. buf'[i] = port[j]
        BY <4>1, <1>5
      <4> QED
        BY <4>2, <4>3, <4>4
    <3> QED
      BY <3>1, <3>2, <1>3, <1>5
  <2>4. Follows(port, Len(Held))'
    <3> SUFFICES ASSUME NEW i \in 1..(Len(port) - n), Len(buf) + n + i <= N
                 PROVE  port'[i] = <<due, Len(buf) + n + i>>
      BY <2>1, <1>2, <1>5 DEF Follows
    <3>1. n + i \in 1..Len(port) /\ Len(buf) + (n + i) <= N
      BY <1>3, <1>4
    <3>2. port[n + i] = <<due, Len(buf) + (n + i)>>
      BY <3>1, <2>2 DEF Follows
    <3>3. Len(buf) + n + i = Len(buf) + (n + i)
      BY <1>3, <1>4
    <3>4. port'[i] = port[n + i]
      BY <1>5
    <3> QED
      BY <3>2, <3>3, <3>4
  <2>5. Len(Held') + Len(port') = Len(buf) + Len(port)
    BY <2>1, <1>3, <1>4, <1>5
  <2>6. Follows(ring, Len(Held) + Len(port))'
    BY <2>2, <2>5, <1>2 DEF Follows
  <2>7. (Between < N => msg = due /\ at = Between + 1)'
    <3>1. Between' = Between
      BY <2>1, <2>5, <1>2 DEF Between
    <3> QED
      BY <3>1, <2>2, <1>2
  <2> QED
    BY <2>3, <2>4, <2>6, <2>7 DEF StepInv
<1> QED
  BY <1>6, <1>7, <1>8 DEF IInv

\* The thread's other steps.
LEMMA ThreadInv == IInv /\ (Turn \/ ReadFails \/ Lock \/ Store) => IInv'
<1> SUFFICES ASSUME IInv, Turn \/ ReadFails \/ Lock \/ Store PROVE IInv'
  OBVIOUS
<1>1. TypeOK /\ LinkInv /\ StepInv
  BY DEF IInv
<1>2. CASE Turn
  <2>1. /\ Held' = <<>> /\ Held = <<>>
        /\ UNCHANGED <<msg, at, ring, line, port, pause, due>>
    BY <1>2 DEF Turn, Held, firmwareVars, historyVars
  <2>2. TypeOK'
    BY <1>1, <1>2, Numbers DEF Turn, TypeOK, firmwareVars, historyVars
  <2>3. LinkInv'
    BY <1>1, <1>2, Numbers DEF Turn, LinkInv, historyVars
  <2> QED
    BY <2>1, <2>2, <2>3, KeptInv
<1>3. CASE ReadFails
  <2>1. TypeOK'
    BY <1>1, <1>3, Numbers DEF ReadFails, TypeOK, firmwareVars, historyVars
  <2>2. LinkInv'
    BY <1>1, <1>3 DEF ReadFails, LinkInv, historyVars
  <2>3. line' = "down"
    BY <1>3 DEF ReadFails
  <2> QED
    BY <2>1, <2>2, <2>3 DEF IInv, StepInv
<1>4. CASE Lock
  <2>1. Held' = Held /\ UNCHANGED <<msg, at, ring, line, port, pause, due>>
    BY <1>4 DEF Lock, Held, firmwareVars, historyVars
  <2>2. TypeOK'
    BY <1>1, <1>4 DEF Lock, TypeOK, firmwareVars, historyVars
  <2>3. LinkInv'
    BY <1>1, <1>4 DEF Lock, LinkInv, historyVars
  <2> QED
    BY <2>1, <2>2, <2>3, KeptInv
<1>5. CASE Store
  <2>1. Held' = Held /\ UNCHANGED <<msg, at, ring, line, port, pause, due>>
    BY <1>5 DEF Store, Held, firmwareVars, historyVars
  <2>2. cache' \in -1..(Ids - 1)
    <3>1. CASE Valid(buf)
      <4>1. cache' = buf[N][1] /\ buf \in Seq(Byte)
        BY <1>1, <1>5, <3>1 DEF Store, TypeOK
      <4>2. buf[N][1] \in 0..(Ids - 1)
        BY <3>1, <4>1, StoredTyped
      <4> QED
        BY <4>1, <4>2, Numbers
    <3>2. CASE ~Valid(buf)
      BY <1>1, <1>5, <3>2 DEF Store, TypeOK
    <3> QED
      BY <3>1, <3>2
  <2>3. /\ owner' = "free" /\ pc' \in {"wait", "exit"}
        /\ UNCHANGED <<lost, buf, shut_down, main>>
    BY <1>5 DEF Store
  <2>4. TypeOK'
    BY <1>1, <2>1, <2>2, <2>3 DEF TypeOK
  <2>5. LinkInv'
    BY <1>1, <2>1, <2>3 DEF LinkInv
  <2> QED
    BY <2>1, <2>4, <2>5, KeptInv
<1> QED
  BY <1>2, <1>3, <1>4, <1>5

\* stopIMU_MT does not touch the stream.
LEMMA StopInv == IInv /\ (CallStop \/ StopStep) => IInv'
<1> SUFFICES ASSUME IInv, CallStop \/ StopStep PROVE IInv'
  OBVIOUS
<1>1. TypeOK /\ LinkInv
  BY DEF IInv
<1>2. UNCHANGED <<msg, at, ring, line, port, lost, pc, buf, cache, pause, due>>
  BY DEF CallStop, StopStep, StopLock, StopSet, StopJoin, firmwareVars,
         historyVars
<1>3. Held' = Held
  BY <1>2 DEF Held
<1>4. /\ main' \in {"running", "lock", "set", "join", "stopped"}
      /\ owner' \in {"free", "thread", "main", "gone"}
  BY <1>1 DEF TypeOK, CallStop, StopStep, StopLock, StopSet, StopJoin
<1>5. shut_down' \in BOOLEAN
  <2>1. shut_down' = shut_down \/ shut_down' = TRUE
    BY Zenon DEF CallStop, StopStep, StopLock, StopSet, StopJoin
  <2> QED
    BY <1>1, <2>1, Zenon DEF TypeOK
<1>6. TypeOK'
  BY <1>1, <1>2, <1>4, <1>5 DEF TypeOK
<1>7. LinkInv'
  BY <1>1, <1>2 DEF LinkInv
<1> QED
  BY <1>2, <1>3, <1>6, <1>7, KeptInv

----------------------------------------------------------------------------
(* The theorems *)

\* Every step keeps the invariant.
LEMMA NextInv == IInv /\ [Next]_vars => IInv'
<1> SUFFICES ASSUME IInv, [Next]_vars PROVE IInv'
  OBVIOUS
<1>1. CASE SendByte
  BY <1>1, SendByteInv
<1>2. CASE Arrive
  BY <1>2, ArriveInv
<1>3. CASE Lose \/ HangUp
  BY <1>3, BreakInv
<1>4. CASE Start \/ Flush
  BY <1>4, FlushInv
<1>5. CASE Read
  BY <1>5, ReadInv
<1>6. CASE Turn \/ ReadFails \/ Lock \/ Store
  BY <1>6, ThreadInv
<1>7. CASE CallStop \/ StopStep
  BY <1>7, StopInv
<1>8. CASE UNCHANGED vars
  <2>1. UNCHANGED <<msg, at, ring, line, port, lost, pc, buf, cache, owner,
                    shut_down, main, pause, due>>
    BY <1>8 DEF vars, firmwareVars, historyVars
  <2>2. TypeOK /\ LinkInv
    BY DEF IInv
  <2>3. TypeOK'
    BY <2>1, <2>2 DEF TypeOK
  <2>4. LinkInv'
    BY <2>1, <2>2 DEF LinkInv
  <2>5. Held' = Held
    BY <2>1 DEF Held
  <2> QED
    BY <2>1, <2>3, <2>4, <2>5, KeptInv
<1> QED
  BY <1>1, <1>2, <1>3, <1>4, <1>5, <1>6, <1>7, <1>8 DEF Next, ThreadStep

\* Every message, buffer and lock of the link is always what its declaration
\* says: iread never stores more bytes than a message has (iread, readIMUData).
THEOREM LinkTypeCorrect == Spec => []TypeOK
<1>1. IInv => TypeOK
  BY DEF IInv
<1> QED
  BY <1>1, InitInv, NextInv, PTL DEF Spec

\* After a flush that falls between two messages, and while no byte is lost, the
\* next frame readIMUData reads is the very next message the firmware printed,
\* for messages and buffers of any size.
THEOREM InStep == Spec => []InStepAfterPause
<1>1. IInv => InStepAfterPause
  <2> SUFFICES ASSUME IInv, pc = "flush", pause
               PROVE  Valid(buf) /\ buf[N][1] = due
    BY DEF InStepAfterPause
  <2>1. Len(buf) = N /\ line = "up"
    BY DEF IInv, LinkInv, TypeOK
  <2>2. Follows(buf, 0)
    BY <2>1 DEF IInv, StepInv, Held
  <2>3. \A i \in 1..N : buf[i] = <<due, i>>
    BY <2>1, <2>2, Numbers DEF Follows
  <2>4. buf[N] = <<due, N>>
    BY <2>3, Numbers
  <2>5. buf[N][1] = due
    BY <2>4
  <2> QED
    BY <2>1, <2>3, <2>5, Numbers DEF Valid
<1> QED
  BY <1>1, InitInv, NextInv, PTL DEF Spec

----------------------------------------------------------------------------
(* The codec. *)

\* t is s and then w.
Joins(S, s, w, t) ==
  /\ t \in Seq(S) /\ Len(t) = Len(s) + Len(w)
  /\ \A i \in 1..Len(s) : t[i] = s[i]
  /\ \A i \in 1..Len(w) : t[Len(s) + i] = w[i]

\* A frame grows by the bytes of one field at its end.
LEMMA Joined ==
  ASSUME NEW S, NEW s \in Seq(S), NEW w \in Seq(S)
  PROVE  Joins(S, s, w, s \o w)
<1>1. Len(s) \in Nat /\ Len(w) \in Nat
  OBVIOUS
<1>2. /\ s \o w \in Seq(S) /\ Len(s \o w) = Len(s) + Len(w)
      /\ \A i \in 1..Len(s) + Len(w) :
            (s \o w)[i] = IF i <= Len(s) THEN s[i] ELSE w[i - Len(s)]
  BY ConcatProperties
<1>3. ASSUME NEW i \in 1..Len(w)
      PROVE  (s \o w)[Len(s) + i] = w[i]
  <2>1. Len(s) + i \in 1..Len(s) + Len(w) /\ ~(Len(s) + i <= Len(s))
    BY <1>1
  <2>2. Len(s) + i - Len(s) = i
    BY <1>1
  <2> QED
    BY <1>2, <2>1, <2>2
<1> QED
  BY <1>1, <1>2, <1>3 DEF Joins

\* Two bytes carry a number below 2^16.
LEMMA WordCarries ==
  ASSUME NEW v \in Int, 0 <= v, v < 65536
  PROVE  /\ 0 <= v % 256 /\ v % 256 < 256
         /\ 0 <= (v \div 256) % 256 /\ (v \div 256) % 256 < 256
         /\ v % 256 \in Int /\ (v \div 256) % 256 \in Int
         /\ 256 * ((v \div 256) % 256) + (v % 256) = v
  OBVIOUS

\* What the reader finds where a word was put.
LEMMA WordRead ==
  ASSUME NEW x \in Int, 0 <= x, x < 65536, NEW w, w = Word(x)
  PROVE  /\ w \in Seq(Int) /\ Len(w) = 2
         /\ 0 <= w[1] /\ w[1] < 256 /\ 0 <= w[2] /\ w[2] < 256
         /\ 256 * w[2] + w[1] = x
<1> DEFINE l == x % 256  h == (x \div 256) % 256
<1>1. /\ 0 <= l /\ l < 256 /\ 0 <= h /\ h < 256
      /\ l \in Int /\ h \in Int /\ 256 * h + l = x
  BY WordCarries
<1>2. w = <<l, h>>
  BY DEF Word
<1> HIDE DEF l, h
<1> QED
  BY <1>1, <1>2

\* A long that a word could carry has zeros in its upper half.
LEMMA LongRead ==
  ASSUME NEW x \in Int, 0 <= x, x < 65536, NEW t, t = Long(x)
  PROVE  /\ t \in Seq(Int) /\ Len(t) = 4
         /\ 0 <= t[1] /\ t[1] < 256 /\ 0 <= t[2] /\ t[2] < 256
         /\ t[3] = 0 /\ t[4] = 0
         /\ 256 * t[2] + t[1] = x
<1>1. x \div 65536 = 0
  OBVIOUS
<1>2. 0 % 256 = 0 /\ (0 \div 256) % 256 = 0
  OBVIOUS
<1>3. Word(0) = <<0, 0>>
  BY <1>2 DEF Word
<1> DEFINE h == x \div 65536  u == Word(x)  w == Word(h)  c == u \o w
<1>9. t = c
  BY DEF Long
<1> HIDE DEF h
<1>4. w = <<0, 0>>
  BY <1>1, <1>3 DEF h
<1>5. /\ u \in Seq(Int) /\ Len(u) = 2
      /\ 0 <= u[1] /\ u[1] < 256 /\ 0 <= u[2] /\ u[2] < 256
      /\ 256 * u[2] + u[1] = x
  BY WordRead
<1> HIDE DEF u, w
<1>6. w \in Seq(Int) /\ Len(w) = 2 /\ w[1] = 0 /\ w[2] = 0
  BY <1>4
<1>7. Joins(Int, u, w, c)
  BY <1>5, <1>6, Joined
<1> HIDE DEF c
<1>8. /\ c \in Seq(Int) /\ Len(c) = 4
      /\ c[1] = u[1] /\ c[2] = u[2] /\ c[3] = w[1] /\ c[4] = w[2]
  BY <1>5, <1>6, <1>7 DEF Joins
<1> QED
  BY <1>5, <1>6, <1>8, <1>9

\* t is s and then u, v and w, of n bytes each.
Joins3(s, u, v, w, t, n) ==
  /\ t \in Seq(Int) /\ Len(t) = Len(s) + 3 * n
  /\ \A i \in 1..Len(s) : t[i] = s[i]
  /\ \A i \in 1..n : /\ t[Len(s) + i] = u[i]
                     /\ t[Len(s) + n + i] = v[i]
                     /\ t[Len(s) + 2 * n + i] = w[i]

\* A frame grows by three fields of one kind.
LEMMA Joined3 ==
  ASSUME NEW n \in Nat, NEW s \in Seq(Int),
         NEW u \in Seq(Int), NEW v \in Seq(Int), NEW w \in Seq(Int),
         Len(u) = n, Len(v) = n, Len(w) = n
  PROVE  Joins3(s, u, v, w, s \o u \o v \o w, n)
<1> DEFINE m == Len(s)
<1>0. m \in Nat
  OBVIOUS
<1> DEFINE a == s \o u  b == a \o v  c == b \o w
<1>1. Joins(Int, s, u, a)
  BY Joined
<1>2. a \in Seq(Int)
  BY <1>1 DEF Joins
<1> HIDE DEF a
<1>3. Joins(Int, a, v, b)
  BY <1>2, Joined
<1>4. b \in Seq(Int)
  BY <1>3 DEF Joins
<1> HIDE DEF b
<1>5. Joins(Int, b, w, c)
  BY <1>4, Joined
<1>6. s \o u \o v \o w = c
  BY DEF a, b, c
<1> HIDE DEF c
<1>7. /\ Len(a) = m + n /\ Len(b) = m + 2 * n
      /\ Len(c) = m + 3 * n /\ c \in Seq(Int)
  BY <1>0, <1>1, <1>3, <1>5 DEF Joins
<1>8. ASSUME NEW i \in 1..m
      PROVE  c[i] = s[i]
  <2>1. i \in 1..Len(a) /\ i \in 1..Len(b)
    BY <1>0, <1>7
  <2> QED
    BY <1>1, <1>3, <1>5, <2>1 DEF Joins
<1>9. ASSUME NEW i \in 1..n
      PROVE  c[m + i] = u[i] /\ c[m + n + i] = v[i] /\ c[m + 2 * n + i] = w[i]
  <2>1. m + i \in 1..Len(a) /\ m + i \in 1..Len(b) /\ m + n + i \in 1..Len(b)
    BY <1>0, <1>7
  <2> QED
    BY <1>1, <1>3, <1>5, <1>7, <2>1 DEF Joins
<1>10. Joins3(s, u, v, w, c, n)
  BY <1>7, <1>8, <1>9 DEF Joins3
<1> QED
  BY <1>6, <1>10

\* What the bytes of a field bring the reader.
IsGyro(w, x)  == w \in Seq(Int) /\ Len(w) = 2 /\ RangeGyro(256 * w[2] + w[1]) = x
IsAccel(w, x) == /\ w \in Seq(Int) /\ Len(w) = 4 /\ w[3] = 0 /\ w[4] = 0
                 /\ Range4G(256 * w[2] + w[1]) = x
IsAngle(w, x) == w \in Seq(Int) /\ Len(w) = 2 /\ Deg180(256 * w[2] + w[1]) = x

\* Each field brings the reading it was made of.
LEMMA GyroField ==
  ASSUME NEW x \in Int, -24999 <= x, x <= 25000
  PROVE  IsGyro(gyroBytes(x), x)
<1> DEFINE v == Unsigned(x, 50000)  w == Word(v)
<1>1. /\ v \in Int /\ 0 <= v /\ v < 50000
      /\ Ranged(v, 25000) = x
  BY DEF Unsigned, Ranged
<1>2. gyroBytes(x) = w
  BY DEF gyroBytes
<1> HIDE DEF v
<1>3. w \in Seq(Int) /\ Len(w) = 2 /\ 256 * w[2] + w[1] = v
  BY <1>1, WordRead
<1> HIDE DEF w
<1> QED
  BY <1>1, <1>2, <1>3 DEF IsGyro, RangeGyro

\* An acceleration comes back from its four bytes as it was.
LEMMA AccelField ==
  ASSUME NEW x \in Int, -3999 <= x, x <= 4000
  PROVE  IsAccel(accelBytes(x), x)
<1> DEFINE v == Unsigned(x, 8000)  w == Long(v)
<1>1. /\ v \in Int /\ 0 <= v /\ v < 8000
      /\ Ranged(v, 4000) = x
  BY DEF Unsigned, Ranged
<1>2. accelBytes(x) = w
  BY DEF accelBytes
<1> HIDE DEF v
<1>3. /\ w \in Seq(Int) /\ Len(w) = 4 /\ w[3] = 0 /\ w[4] = 0
      /\ 256 * w[2] + w[1] = v
  BY <1>1, LongRead
<1> HIDE DEF w
<1> QED
  BY <1>1, <1>2, <1>3 DEF IsAccel, Range4G

\* An angle comes back from its two bytes, of either encoder, as it was.
LEMMA AngleField ==
  ASSUME NEW x \in Int, -17999 <= x, x <= 18000
  PROVE  IsAngle(angleBytes(x), x) /\ IsAngle(yawBytes(x), x)
<1> DEFINE v == Unsigned(x, 36000)  w == Word(v)
<1>1. /\ v \in Int /\ 0 <= v /\ v < 36000
      /\ Ranged(v, 18000) = x
  BY DEF Unsigned, Ranged
<1>2. angleBytes(x) = w /\ yawBytes(x) = w
  BY DEF angleBytes, yawBytes
<1> HIDE DEF v
<1>3. w \in Seq(Int) /\ Len(w) = 2 /\ 256 * w[2] + w[1] = v
  BY <1>1, WordRead
<1> HIDE DEF w
<1> QED
  BY <1>1, <1>2, <1>3 DEF IsAngle, Deg180

\* The readings in the bytes of a message.
Body(r) == <<6, 2>> \o gyroBytes(r[1]) \o gyroBytes(r[2]) \o gyroBytes(r[3])
                    \o accelBytes(r[4]) \o accelBytes(r[5]) \o accelBytes(r[6])
                    \o angleBytes(r[7]) \o angleBytes(r[8]) \o yawBytes(r[9])

\* body holds the fields of r.
Carries(body, r) ==
  /\ body \in Seq(Int) /\ Len(body) = 26
  /\ body[1] = 6 /\ body[2] = 2
  /\ RangeGyro(256 * body[4] + body[3]) = r[1]
  /\ RangeGyro(256 * body[6] + body[5]) = r[2]
  /\ RangeGyro(256 * body[8] + body[7]) = r[3]
  /\ body[11] = 0 /\ body[12] = 0 /\ Range4G(256 * body[10] + body[9]) = r[4]
  /\ body[15] = 0 /\ body[16] = 0 /\ Range4G(256 * body[14] + body[13]) = r[5]
  /\ body[19] = 0 /\ body[20] = 0 /\ Range4G(256 * body[18] + body[17]) = r[6]
  /\ Deg180(256 * body[22] + body[21]) = r[7]
  /\ Deg180(256 * body[24] + body[23]) = r[8]
  /\ Deg180(256 * body[26] + body[25]) = r[9]

\* A body carries the readings it was made of.
LEMMA BodyCarries ==
  ASSUME NEW r \in Readings
  PROVE  Carries(Body(r), r)
<1>1. \A f \in 1..9 : r[f] \in Int
  BY DEF Readings
<1>2. /\ \A f \in 1..3 : -24999 <= r[f] /\ r[f] <= 25000
      /\ \A f \in 4..6 : -3999 <= r[f] /\ r[f] <= 4000
      /\ \A f \in 7..9 : -17999 <= r[f] /\ r[f] <= 18000
  BY DEF Readings, Least, Greatest
<1> DEFINE g1 == gyroBytes(r[1])   g2 == gyroBytes(r[2])   g3 == gyroBytes(r[3])
           a4 == accelBytes(r[4])  a5 == accelBytes(r[5])  a6 == accelBytes(r[6])
           d7 == angleBytes(r[7])  d8 == angleBytes(r[8])  d9 == yawBytes(r[9])
           p == <<6, 2>>
           q == p \o g1 \o g2 \o g3
           s == q \o a4 \o a5 \o a6
           t == s \o d7 \o d8 \o d9
<1>3. IsGyro(g1, r[1]) /\ IsGyro(g2, r[2]) /\ IsGyro(g3, r[3])
  BY <1>1, <1>2, GyroField
<1>4. IsAccel(a4, r[4]) /\ IsAccel(a5, r[5]) /\ IsAccel(a6, r[6])
  BY <1>1, <1>2, AccelField
<1>5. IsAngle(d7, r[7]) /\ IsAngle(d8, r[8]) /\ IsAngle(d9, r[9])
  BY <1>1, <1>2, AngleField
<1>6. p \in Seq(Int) /\ Len(p) = 2 /\ p[1] = 6 /\ p[2] = 2
  OBVIOUS
<1>7. Body(r) = t
  BY DEF Body
<1> HIDE DEF g1, g2, g3, a4, a5, a6, d7, d8, d9, p
<1>8. Joins3(p, g1, g2, g3, q, 2)
  <2>1. /\ g1 \in Seq(Int) /\ Len(g1) = 2
        /\ g2 \in Seq(Int) /\ Len(g2) = 2
        /\ g3 \in Seq(Int) /\ Len(g3) = 2
    BY <1>3 DEF IsGyro
  <2> QED
    BY <1>6, <2>1, Joined3
<1> HIDE DEF q
<1>9. q \in Seq(Int) /\ Len(q) = 8
  BY <1>6, <1>8 DEF Joins3
<1>10. Joins3(q, a4, a5, a6, s, 4)
  <2>1. /\ a4 \in Seq(Int) /\ Len(a4) = 4
        /\ a5 \in Seq(Int) /\ Len(a5) = 4
        /\ a6 \in Seq(Int) /\ Len(a6) = 4
    BY <1>4 DEF IsAccel
  <2> QED
    BY <1>9, <2>1, Joined3
<1> HIDE DEF s
<1>11. s \in Seq(Int) /\ Len(s) = 20
  BY <1>9, <1>10 DEF Joins3
<1>12. Joins3(s, d7, d8, d9, t, 2)
  <2>1. /\ d7 \in Seq(Int) /\ Len(d7) = 2
        /\ d8 \in Seq(Int) /\ Len(d8) = 2
        /\ d9 \in Seq(Int) /\ Len(d9) = 2
    BY <1>5 DEF IsAngle
  <2> QED
    BY <1>11, <2>1, Joined3
<1> HIDE DEF t
<1>13. t \in Seq(Int) /\ Len(t) = 26
  BY <1>11, <1>12 DEF Joins3
<1>14. \A i \in 1..20 : t[i] = s[i]
  BY <1>11, <1>12 DEF Joins3
<1>15. \A i \in 1..8 : t[i] = q[i]
  <2>1. \A i \in 1..8 : s[i] = q[i] /\ i \in 1..20
    BY <1>9, <1>10 DEF Joins3
  <2> QED
    BY <1>14, <2>1
<1>16. t[1] = 6 /\ t[2] = 2
  BY <1>6, <1>8, <1>15 DEF Joins3
<1>17. /\ t[3] = g1[1] /\ t[4] = g1[2] /\ t[5] = g2[1] /\ t[6] = g2[2]
       /\ t[7] = g3[1] /\ t[8] = g3[2]
  BY <1>6, <1>8, <1>15 DEF Joins3
<1>18. /\ t[9] = a4[1] /\ t[10] = a4[2] /\ t[11] = a4[3] /\ t[12] = a4[4]
       /\ t[13] = a5[1] /\ t[14] = a5[2] /\ t[15] = a5[3] /\ t[16] = a5[4]
       /\ t[17] = a6[1] /\ t[18] = a6[2] /\ t[19] = a6[3] /\ t[20] = a6[4]
  <2>1. \A i \in 1..4 : s[8 + i] = a4[i] /\ s[8 + 4 + i] = a5[i] /\ s[8 + 2 * 4 + i] = a6[i]
    BY <1>9, <1>10 DEF Joins3
  <2>2. /\ s[9] = a4[1] /\ s[10] = a4[2] /\ s[11] = a4[3] /\ s[12] = a4[4]
        /\ s[13] = a5[1] /\ s[14] = a5[2] /\ s[15] = a5[3] /\ s[16] = a5[4]
        /\ s[17] = a6[1] /\ s[18] = a6[2] /\ s[19] = a6[3] /\ s[20] = a6[4]
    BY <2>1
  <2> QED
    BY <1>14, <2>2
<1>19. /\ t[21] = d7[1] /\ t[22] = d7[2] /\ t[23] = d8[1] /\ t[24] = d8[2]
       /\ t[25] = d9[1] /\ t[26] = d9[2]
  BY <1>11, <1>12 DEF Joins3
<1>20. /\ RangeGyro(256 * t[4] + t[3]) = r[1]
       /\ RangeGyro(256 * t[6] + t[5]) = r[2]
       /\ RangeGyro(256 * t[8] + t[7]) = r[3]
  BY <1>3, <1>17 DEF IsGyro
<1>21. /\ t[11] = 0 /\ t[12] = 0 /\ Range4G(256 * t[10] + t[9]) = r[4]
       /\ t[15] = 0 /\ t[16] = 0 /\ Range4G(256 * t[14] + t[13]) = r[5]
       /\ t[19] = 0 /\ t[20] = 0 /\ Range4G(256 * t[18] + t[17]) = r[6]
  BY <1>4, <1>18 DEF IsAccel
<1>22. /\ Deg180(256 * t[22] + t[21]) = r[7]
       /\ Deg180(256 * t[24] + t[23]) = r[8]
       /\ Deg180(256 * t[26] + t[25]) = r[9]
  BY <1>5, <1>19 DEF IsAngle
<1>23. Carries(t, r)
  BY <1>13, <1>16, <1>20, <1>21, <1>22 DEF Carries
<1> QED
  BY <1>7, <1>23

\* body is bytes 5 to 30 of b.
Holds(b, body) == \A i \in 1..26 : b[i + 4] = body[i]

\* The fields of a body, wherever the frame puts it, are what readIMUData
\* reads there.
LEMMA BodyRead ==
  ASSUME NEW r \in Readings, NEW body, Carries(body, r),
         NEW b, Holds(b, body)
  PROVE  b[5] = 6 /\ readIMUData(b) = r
<1>1. body \in Seq(Int) /\ Len(body) = 26
  BY DEF Carries
<1>2. \A i \in 1..26 : body[i] \in Int
  BY <1>1, ElementOfSeq
<1>3. /\ b[5] = 6
      /\ RangeGyro(256 * b[8] + b[7]) = r[1]
      /\ RangeGyro(256 * b[10] + b[9]) = r[2]
      /\ RangeGyro(256 * b[12] + b[11]) = r[3]
  <2>1. /\ b[5] = body[1] /\ b[8] = body[4] /\ b[7] = body[3] /\ b[10] = body[6]
        /\ b[9] = body[5] /\ b[12] = body[8] /\ b[11] = body[7]
    BY DEF Holds
  <2> QED
    BY <2>1 DEF Carries
<1>4. /\ b[15] = 0 /\ b[16] = 0 /\ Range4G(256 * b[14] + b[13]) = r[4]
      /\ b[19] = 0 /\ b[20] = 0 /\ Range4G(256 * b[18] + b[17]) = r[5]
      /\ b[23] = 0 /\ b[24] = 0 /\ Range4G(256 * b[22] + b[21]) = r[6]
  <2>1. /\ b[16] = body[12] /\ b[15] = body[11] /\ b[14] = body[10] /\ b[13] = body[9]
        /\ b[20] = body[16] /\ b[19] = body[15] /\ b[18] = body[14] /\ b[17] = body[13]
        /\ b[24] = body[20] /\ b[23] = body[19] /\ b[22] = body[18] /\ b[21] = body[17]
    BY DEF Holds
  <2> QED
    BY <2>1 DEF Carries
<1>5. /\ Deg180(256 * b[26] + b[25]) = r[7]
      /\ Deg180(256 * b[28] + b[27]) = r[8]
      /\ Deg180(256 * b[30] + b[29]) = r[9]
  <2>1. /\ b[26] = body[22] /\ b[25] = body[21] /\ b[28] = body[24] /\ b[27] = body[23]
        /\ b[30] = body[26] /\ b[29] = body[25]
    BY DEF Holds
  <2> QED
    BY <2>1 DEF Carries
<1>6. /\ b[13] \in Int /\ b[14] \in Int /\ b[17] \in Int
      /\ b[18] \in Int /\ b[21] \in Int /\ b[22] \in Int
  <2>1. /\ b[14] = body[10] /\ b[13] = body[9] /\ b[18] = body[14] /\ b[17] = body[13]
        /\ b[22] = body[18] /\ b[21] = body[17]
    BY DEF Holds
  <2> QED
    BY <1>2, <2>1
<1>7. ASSUME NEW i \in {12, 16, 20}, b[i + 4] = 0, b[i + 3] = 0,
             NEW h \in Int, b[i + 2] = h, NEW l \in Int, b[i + 1] = l
      PROVE  IntAt(b, i) = 256 * h + l
  <2>1. IntAt(b, i) = ((256 * 0 + 0) * 256 + h) * 256 + l
    BY <1>7 DEF IntAt
  <2> QED
    BY <2>1
<1>8. /\ IntAt(b, 12) = 256 * b[14] + b[13]
      /\ IntAt(b, 16) = 256 * b[18] + b[17]
      /\ IntAt(b, 20) = 256 * b[22] + b[21]
  BY <1>4, <1>6, <1>7
<1>9. /\ ShortAt(b, 6) = 256 * b[8] + b[7]
      /\ ShortAt(b, 8) = 256 * b[10] + b[9]
      /\ ShortAt(b, 10) = 256 * b[12] + b[11]
      /\ ShortAt(b, 24) = 256 * b[26] + b[25]
      /\ ShortAt(b, 26) = 256 * b[28] + b[27]
      /\ ShortAt(b, 28) = 256 * b[30] + b[29]
  BY DEF ShortAt
<1>10. readIMUData(b) = <<r[1], r[2], r[3], r[4], r[5], r[6], r[7], r[8], r[9]>>
  BY <1>3, <1>4, <1>5, <1>8, <1>9 DEF readIMUData
<1>11. r \in [1..9 -> Int]
  BY DEF Readings
<1>12. <<r[1], r[2], r[3], r[4], r[5], r[6], r[7], r[8], r[9]>> = r
  BY <1>11
<1> QED
  BY <1>3, <1>10, <1>12

\* For every reading the sensors can give, the frame passes libIMU's tests and
\* libIMU finds the reading in it.
THEOREM CodecExact == \A r \in Readings : RoundTrip(r)
<1> SUFFICES ASSUME NEW r \in Readings
             PROVE  RoundTrip(r)
  OBVIOUS
<1> DEFINE body == Body(r)  ck == Checksums(body)
           preamble == <<68, 73, 89, 100>>
           p == preamble \o body
           b == p \o ck
           S == Int \union {ck[1], ck[2]}
<1>1. printdata(r) = b
  BY DEF printdata, Body
<1>2. Carries(body, r)
  BY BodyCarries
<1> HIDE DEF body
<1>3. ck = <<ck[1], ck[2]>> /\ Len(ck) = 2
  BY DEF Checksums
<1> HIDE DEF ck
<1>4. body \in Seq(S) /\ Len(body) = 26
  <2>1. body \in Seq(Int) /\ Len(body) = 26
    BY <1>2 DEF Carries
  <2>2. Int \subseteq S
    OBVIOUS
  <2> HIDE DEF S
  <2> QED
    BY <2>1, <2>2, SeqMonotonic
<1>5. ck \in Seq(S)
  <2>1. ck[1] \in S /\ ck[2] \in S
    OBVIOUS
  <2> HIDE DEF S
  <2>2. <<ck[1], ck[2]>> \in Seq(S)
    BY <2>1
  <2> QED
    BY <1>3, <2>2
<1>6. preamble \in Seq(S) /\ Len(preamble) = 4
  OBVIOUS
<1> HIDE DEF preamble, S
<1>7. Joins(S, preamble, body, p)
  BY <1>4, <1>6, Joined
<1> HIDE DEF p
<1>8. p \in Seq(S) /\ Len(p) = 30 /\ \A i \in 1..26 : p[4 + i] = body[i]
  BY <1>4, <1>6, <1>7 DEF Joins
<1>9. Joins(S, p, ck, b)
  BY <1>5, <1>8, Joined
<1> HIDE DEF b
<1>10. b \in Seq(S) /\ Len(b) = 32
  BY <1>3, <1>8, <1>9 DEF Joins
<1>17. \A i \in 1..32 : b[i] \in S
  BY <1>10, ElementOfSeq
<1>11. Holds(b, body)
  <2>1. \A i \in 1..30 : b[i] = p[i]
    BY <1>8, <1>9 DEF Joins
  <2>2. \A i \in 1..26 : i + 4 \in 1..30 /\ b[i + 4] = p[i + 4] /\ i + 4 = 4 + i
    BY <2>1
  <2> QED
    BY <1>8, <2>2 DEF Holds
<1>12. b[31] = ck[1] /\ b[32] = ck[2]
  BY <1>3, <1>8, <1>9 DEF Joins
<1>13. b[5] = 6 /\ readIMUData(b) = r
  BY <1>2, <1>11, BodyRead
<1>14. SubSeq(b, 5, 30) = body
  <2> DEFINE c == SubSeq(b, 5, 30)
  <2>1. /\ c \in Seq(S) /\ Len(c) = 26
        /\ \A i \in 1..26 : c[i] = b[5 + i - 1]
    <3>1. \A i \in 5..30 : b[i] \in S
      BY <1>17
    <3> QED
      BY <3>1, SubSeqProperties
  <2> HIDE DEF c
  <2>2. \A i \in 1..26 : c[i] = body[i]
    <3> SUFFICES ASSUME NEW i \in 1..26
                 PROVE  c[i] = body[i]
      OBVIOUS
    <3>1. 5 + i - 1 = i + 4
      OBVIOUS
    <3>2. c[i] = b[i + 4]
      BY <2>1, <3>1
    <3> QED
      BY <1>11, <3>2 DEF Holds
  <2>3. c = body
    BY <1>4, <2>1, <2>2, SeqEqual
  <2> QED
    BY <2>3 DEF c
<1>15. SubSeq(b, 31, 32) = ck
  <2>1. SubSeq(b, 31, 32) = <<b[31], b[32]>>
    <3> DEFINE c == SubSeq(b, 31, 32)
    <3>1. \A i \in 31..32 : b[i] \in S
      BY <1>17
    <3>2. c \in Seq(S) /\ Len(c) = 2 /\ \A i \in 1..2 : c[i] = b[31 + i - 1]
      BY <3>1, SubSeqProperties
    <3> HIDE DEF c
    <3>3. c[1] = b[31] /\ c[2] = b[32]
      BY <3>2
    <3>4. c = <<b[31], b[32]>>
      BY <3>2, <3>3
    <3> QED
      BY <3>4 DEF c
  <2> QED
    BY <1>3, <1>12, <2>1
<1>16. ~Refused(b)
  BY <1>13, <1>14, <1>15 DEF Refused, ck
<1> QED
  BY <1>1, <1>10, <1>13, <1>16 DEF RoundTrip

\* The probes are readings.
LEMMA CodecAgrees == SameCodec
<1> SUFFICES ASSUME NEW f \in 1..9, NEW x \in Probes(Least[f], Greatest[f]), NEW rest \in 1..3
             PROVE  RoundTrip([g \in 1..9 |-> IF g = f THEN x
                             ELSE CASE rest = 1 -> Least[g]
                                    [] rest = 2 -> 0
                                    [] rest = 3 -> Greatest[g]])
  BY DEF SameCodec
<1> DEFINE r == [g \in 1..9 |-> IF g = f THEN x
                             ELSE CASE rest = 1 -> Least[g]
                                    [] rest = 2 -> 0
                                    [] rest = 3 -> Greatest[g]]
<1>1. \A g \in 1..9 : /\ Least[g] \in Int /\ Greatest[g] \in Int
                      /\ Least[g] <= 0 /\ 0 <= Greatest[g]
  BY DEF Least, Greatest
<1>2. x \in Int /\ Least[f] <= x /\ x <= Greatest[f]
  BY <1>1 DEF Probes
<1>3. \A g \in 1..9 : r[g] \in Least[g]..Greatest[g]
  <2> SUFFICES ASSUME NEW g \in 1..9
               PROVE  r[g] \in Least[g]..Greatest[g]
    OBVIOUS
  <2>1. CASE g = f
    BY <1>1, <1>2, <2>1
  <2>2. CASE g # f /\ rest = 1
    BY <1>1, <2>2
  <2>3. CASE g # f /\ rest = 2
    BY <1>1, <2>3
  <2>4. CASE g # f /\ rest = 3
    BY <1>1, <2>4
  <2> QED
    BY <2>1, <2>2, <2>3, <2>4
<1>4. r \in Readings
  <2>1. r \in [1..9 -> Int]
    BY <1>1, <1>3
  <2> QED
    BY <1>3, <2>1 DEF Readings
<1> QED
  BY <1>4, CodecExact

\* What libIMU hands to the program is what the firmware measured: the codec
\* the cached readings have come through changes none.
THEOREM ReadingsSurvive == Spec => []SameReadings
<1>1. IInv => SameReadings
  BY CodecAgrees DEF SameReadings
<1> QED
  BY <1>1, InitInv, NextInv, PTL DEF Spec

=============================================================================
