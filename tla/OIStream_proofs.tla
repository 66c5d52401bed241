---------------------------- MODULE OIStream_proofs ----------------------------
(***************************************************************************)
(* For any threads, any proper calls, however many bytes the port takes or *)
(* gives at a time: the types, that the robot obeys the calls in order and *)
(* nothing else, and that every call reads the answer to its own question. *)
(* And for every byte the robot may send: the two decoders of its sensor   *)
(* packets agree.                                                          *)
(*                                                                         *)
(* The argument is about frames where the model has bytes: the bytes from  *)
(* the robot's command so far to what the writing call has left are        *)
(* a queue of whole frames, and what the robot obeyed followed by what     *)
(* that queue means is what was asked.                                     *)
(***************************************************************************)
EXTENDS OIStream, SequenceTheorems, FiniteSetTheorems, TLAPS

----------------------------------------------------------------------------
(* Facts about sequences of bytes and about the robot's counting of frames. *)

\* A byte is a number.
LEMMA BytesAreNat == \A x \in Bytes : x \in Nat
BY DEF Bytes

\* The first n bytes of b move over to a.
LEMMA MoveOver ==
  ASSUME NEW a \in Seq(Bytes), NEW b \in Seq(Bytes), NEW n \in 0..Len(b)
  PROVE  /\ SubSeq(b, 1, n) \in Seq(Bytes) /\ SubSeq(b, n + 1, Len(b)) \in Seq(Bytes)
         /\ Len(SubSeq(b, 1, n)) = n /\ Len(SubSeq(b, n + 1, Len(b))) = Len(b) - n
         /\ (a \o SubSeq(b, 1, n)) \o SubSeq(b, n + 1, Len(b)) = a \o b
<1> DEFINE x == SubSeq(b, 1, n)  y == SubSeq(b, n + 1, Len(b))
<1>1. Len(b) \in Nat /\ n \in Nat /\ n <= Len(b)
  OBVIOUS
<1>2. \A i \in 1..Len(b) : b[i] \in Bytes
  BY ElementOfSeq
<1>3. x \in Seq(Bytes) /\ Len(x) = n
  <2>1. \A i \in 1..n : b[i] \in Bytes
    BY <1>1, <1>2
  <2> QED
    BY <1>1, <2>1, SubSeqProperties
<1>4. y \in Seq(Bytes) /\ Len(y) = Len(b) - n
  <2>1. \A i \in n + 1..Len(b) : b[i] \in Bytes
    BY <1>1, <1>2
  <2>2. n + 1 \in Int /\ Len(b) \in Int
    BY <1>1
  <2>3. y \in Seq(Bytes) /\ Len(y) = IF n + 1 <= Len(b) THEN Len(b) - (n + 1) + 1 ELSE 0
    BY <2>1, <2>2, SubSeqProperties
  <2> HIDE DEF y
  <2> QED
    BY <1>1, <2>3
<1>5. x \o y = b
  <2>1. 1 \in 1..Len(b) + 1 /\ n \in 1 - 1..Len(b) /\ Len(b) \in n..Len(b)
    BY <1>1
  <2>2. x \o y = SubSeq(b, 1, Len(b))
    BY <2>1, ConcatAdjacentSubSeq
  <2> QED
    BY <2>2, SubSeqFull
<1> HIDE DEF x, y
<1>7. x \in Seq(Bytes) /\ y \in Seq(Bytes)
  BY <1>3, <1>4
<1>6. (a \o x) \o y = a \o (x \o y)
  BY <1>7, ConcatAssociative
<1> QED
  BY <1>3, <1>4, <1>5, <1>6 DEF x, y

\* Sequences that agree from i to j have the same part there.
LEMMA SameSlice ==
  ASSUME NEW s, NEW t, NEW i \in Int, NEW j \in Int,
         \A k \in i..j : s[k] = t[k] /\ s[k] \in Bytes
  PROVE  SubSeq(s, i, j) = SubSeq(t, i, j)
<1> DEFINE x == SubSeq(s, i, j)  y == SubSeq(t, i, j)
<1>1. \A k \in i..j : s[k] \in Bytes
  OBVIOUS
<1>2. \A k \in i..j : t[k] \in Bytes
  OBVIOUS
<1>3. /\ x \in Seq(Bytes) /\ Len(x) = IF i <= j THEN j - i + 1 ELSE 0
      /\ \A k \in 1..j - i + 1 : x[k] = s[i + k - 1]
  BY <1>1, SubSeqProperties
<1>4. /\ y \in Seq(Bytes) /\ Len(y) = IF i <= j THEN j - i + 1 ELSE 0
      /\ \A k \in 1..j - i + 1 : y[k] = t[i + k - 1]
  BY <1>2, SubSeqProperties
<1> HIDE DEF x, y
<1>5. ASSUME NEW k \in 1..Len(x)
      PROVE  x[k] = y[k]
  <2>1. k \in 1..j - i + 1 /\ i + k - 1 \in i..j
    BY <1>3
  <2> QED
    BY <1>3, <1>4, <2>1
<1>6. x = y
  BY <1>3, <1>4, <1>5, SeqEqual
<1> QED
  BY <1>6 DEF x, y

\* What was added to s.
LEMMA SecondPart ==
  ASSUME NEW s \in Seq(Bytes), NEW f \in Seq(Bytes)
  PROVE  SubSeq(s \o f, Len(s) + 1, Len(s) + Len(f)) = f
<1> DEFINE t == s \o f  x == SubSeq(t, Len(s) + 1, Len(s) + Len(f))
<1>1. Len(s) \in Nat /\ Len(f) \in Nat
  OBVIOUS
<1>2. /\ t \in Seq(Bytes) /\ Len(t) = Len(s) + Len(f)
      /\ \A i \in 1..Len(s) + Len(f) : t[i] = IF i <= Len(s) THEN s[i] ELSE f[i - Len(s)]
  BY ConcatProperties
<1> HIDE DEF t
<1>3. \A i \in 1..Len(t) : t[i] \in Bytes
  BY <1>2, ElementOfSeq
<1>4. \A i \in Len(s) + 1..Len(s) + Len(f) : t[i] \in Bytes
  BY <1>1, <1>2, <1>3
<1> DEFINE a == Len(s) + 1  b == Len(s) + Len(f)
<1>5. a \in Int /\ b \in Int /\ b - a + 1 = Len(f) /\ (a <= b \/ Len(f) = 0)
  BY <1>1
<1>6. /\ x \in Seq(Bytes) /\ Len(x) = IF a <= b THEN b - a + 1 ELSE 0
      /\ \A k \in 1..b - a + 1 : x[k] = t[a + k - 1]
  BY <1>4, <1>5, SubSeqProperties
<1> HIDE DEF x
<1>7. ASSUME NEW k \in 1..Len(f)
      PROVE  x[k] = f[k]
  <2>1. /\ a + k - 1 = Len(s) + k /\ Len(s) + k \in 1..Len(s) + Len(f)
        /\ ~(Len(s) + k <= Len(s)) /\ Len(s) + k - Len(s) = k
    BY <1>1
  <2>2. x[k] = t[Len(s) + k]
    BY <1>5, <1>6, <2>1
  <2> QED
    BY <1>2, <2>1, <2>2
<1>8. Len(x) = Len(f)
  BY <1>1, <1>5, <1>6
<1>9. x = f
  BY <1>6, <1>7, <1>8, SeqEqual
<1> QED
  BY <1>9 DEF x, t

\* s is the frames of q, one after another: each ends where the next begins.
Made(s, q) ==
  \E cut \in [0..Len(q) -> Nat] :
     /\ cut[0] = 0 /\ cut[Len(q)] = Len(s)
     /\ \A i, j \in 0..Len(q) : i <= j => cut[i] <= cut[j]
     /\ \A k \in 1..Len(q) : q[k] = SubSeq(s, cut[k - 1] + 1, cut[k])

\* No frame makes no byte, and nothing else does.
LEMMA MadeEmpty ==
  ASSUME NEW s \in Seq(Bytes)
  PROVE  Made(s, <<>>) <=> s = <<>>
<1>1. ASSUME Made(s, <<>>)
      PROVE  s = <<>>
  <2>1. Len(s) = 0
    BY <1>1 DEF Made
  <2> QED
    BY <2>1, EmptySeq
<1>2. ASSUME s = <<>>
      PROVE  Made(s, <<>>)
  <2> DEFINE cut == [i \in 0..0 |-> 0]
  <2>1. /\ cut \in [0..Len(<<>>) -> Nat] /\ cut[0] = 0 /\ cut[Len(<<>>)] = Len(s)
        /\ \A i, j \in 0..Len(<<>>) : i <= j => cut[i] <= cut[j]
        /\ \A k \in 1..Len(<<>>) : <<>>[k] = SubSeq(s, cut[k - 1] + 1, cut[k])
    BY <1>2
  <2> QED
    BY <2>1 DEF Made
<1> QED
  BY <1>1, <1>2

\* A frame more at the end.
LEMMA MadeMore ==
  ASSUME NEW s \in Seq(Bytes), NEW q \in Seq(Seq(Bytes)), NEW f \in Seq(Bytes),
         Made(s, q)
  PROVE  Made(s \o f, Append(q, f))
<1> DEFINE n == Len(q)  p == Append(q, f)  t == s \o f
<1>1. PICK cut \in [0..n -> Nat] :
        /\ cut[0] = 0 /\ cut[n] = Len(s)
        /\ \A i, j \in 0..n : i <= j => cut[i] <= cut[j]
        /\ \A k \in 1..n : q[k] = SubSeq(s, cut[k - 1] + 1, cut[k])
  BY DEF Made
<1>2. n \in Nat /\ Len(s) \in Nat /\ Len(f) \in Nat
  OBVIOUS
<1>3. /\ t \in Seq(Bytes) /\ Len(t) = Len(s) + Len(f)
      /\ \A i \in 1..Len(s) + Len(f) : t[i] = IF i <= Len(s) THEN s[i] ELSE f[i - Len(s)]
  BY ConcatProperties
<1>4. /\ p \in Seq(Seq(Bytes)) /\ Len(p) = n + 1
      /\ \A k \in 1..n : p[k] = q[k]
      /\ p[n + 1] = f
  BY AppendProperties
<1> DEFINE cut2 == [i \in 0..n + 1 |-> IF i <= n THEN cut[i] ELSE Len(s) + Len(f)]
<1>5. cut2 \in [0..n + 1 -> Nat] /\ cut2[0] = 0 /\ cut2[n + 1] = Len(t)
  BY <1>1, <1>2, <1>3
<1>6. ASSUME NEW i \in 0..n + 1, NEW j \in 0..n + 1, i <= j
      PROVE  cut2[i] <= cut2[j]
  <2>1. CASE j <= n
    BY <1>1, <1>2, <1>6, <2>1
  <2>2. CASE j = n + 1 /\ i <= n
    <3>0. i \in 0..n /\ n \in 0..n
      BY <1>2, <2>2
    <3>1. cut[i] <= cut[n] /\ cut[i] \in Nat
      BY <1>1, <2>2, <3>0
    <3>2. cut2[i] = cut[i] /\ cut2[j] = Len(s) + Len(f)
      BY <1>2, <2>2
    <3> QED
      BY <1>1, <1>2, <3>1, <3>2
  <2>3. CASE j = n + 1 /\ i = n + 1
    BY <1>2, <2>3
  <2> QED
    BY <1>2, <1>6, <2>1, <2>2, <2>3
<1>7. ASSUME NEW k \in 1..n + 1
      PROVE  p[k] = SubSeq(t, cut2[k - 1] + 1, cut2[k])
  <2>1. CASE k \in 1..n
    <3>1. k - 1 \in 0..n /\ k \in 0..n /\ n \in 0..n /\ k <= n
      BY <1>2, <2>1
    <3> DEFINE c == cut[k - 1]  d == cut[k]
    <3>5. cut2[k - 1] = c /\ cut2[k] = d
      BY <1>2, <3>1
    <3>2. c \in Nat /\ d \in Nat /\ d <= Len(s)
      BY <1>1, <3>1
    <3>3. \A i \in c + 1..d : t[i] = s[i] /\ s[i] \in Bytes /\ t[i] \in Bytes
      <4>1. \A i \in c + 1..d : i \in 1..Len(s) /\ i \in 1..Len(s) + Len(f) /\ i <= Len(s)
        BY <1>2, <3>2
      <4>2. \A i \in 1..Len(s) : s[i] \in Bytes
        BY ElementOfSeq
      <4> QED
        BY <1>3, <4>1, <4>2
    <3>6. q[k] = SubSeq(s, c + 1, d)
      BY <1>1, <2>1
    <3> HIDE DEF c, d, t, cut2
    <3>4. SubSeq(s, c + 1, d) = SubSeq(t, c + 1, d)
      <4> DEFINE m == c + 1
      <4>1. m \in Int /\ d \in Int
        BY <3>2
      <4>2. \A i \in m..d : s[i] = t[i] /\ s[i] \in Bytes
        BY <3>3
      <4> HIDE DEF m
      <4>3. SubSeq(s, m, d) = SubSeq(t, m, d)
        BY <4>1, <4>2, SameSlice
      <4> QED
        BY <4>3 DEF m
    <3> QED
      BY <1>4, <2>1, <3>4, <3>5, <3>6
  <2>2. CASE k = n + 1
    <3>1. cut2[k - 1] = Len(s) /\ cut2[k] = Len(s) + Len(f)
      BY <1>1, <1>2, <2>2
    <3>2. SubSeq(t, Len(s) + 1, Len(s) + Len(f)) = f
      BY SecondPart
    <3> QED
      BY <1>4, <2>2, <3>1, <3>2
  <2>3. k \in 1..n \/ k = n + 1
    BY <1>2
  <2> QED
    BY <2>1, <2>2, <2>3
<1> QED
  BY <1>3, <1>4, <1>5, <1>6, <1>7 DEF Made

\* The first frame, and what comes after it.
LEMMA MadeFirst ==
  ASSUME NEW s \in Seq(Bytes), NEW q \in Seq(Seq(Bytes)), Made(s, q), q # <<>>
  PROVE  /\ Len(q[1]) <= Len(s)
         /\ q[1] = SubSeq(s, 1, Len(q[1]))
         /\ Made(SubSeq(s, Len(q[1]) + 1, Len(s)), Tail(q))
<1> DEFINE n == Len(q)
<1>1. PICK cut \in [0..n -> Nat] :
        /\ cut[0] = 0 /\ cut[n] = Len(s)
        /\ \A i, j \in 0..n : i <= j => cut[i] <= cut[j]
        /\ \A k \in 1..n : q[k] = SubSeq(s, cut[k - 1] + 1, cut[k])
  BY DEF Made
<1>2. n \in Nat /\ n >= 1 /\ Len(s) \in Nat
  BY EmptySeq
<1> DEFINE a == cut[1]
<1>3. \A i \in 1..n : cut[i] \in Nat /\ a <= cut[i] /\ cut[i] <= Len(s)
  <2>1. 1 \in 0..n /\ n \in 0..n
    BY <1>2
  <2>2. \A i \in 1..n : i \in 0..n /\ 1 <= i /\ i <= n
    BY <1>2
  <2> QED
    BY <1>1, <2>1, <2>2
<1>4. a \in Nat /\ a <= Len(s)
  BY <1>2, <1>3
<1>5. q[1] = SubSeq(s, 1, a)
  <2>1. 1 \in 1..n /\ cut[1 - 1] + 1 = 1
    BY <1>1, <1>2
  <2> QED
    BY <1>1, <2>1
<1> HIDE DEF a
<1>6. \A i \in 1..Len(s) : s[i] \in Bytes
  BY ElementOfSeq
<1>7. Len(q[1]) = a
  <2>1. \A i \in 1..a : s[i] \in Bytes
    BY <1>2, <1>4, <1>6
  <2>2. Len(SubSeq(s, 1, a)) = IF 1 <= a THEN a - 1 + 1 ELSE 0
    BY <1>4, <2>1, SubSeqProperties
  <2> QED
    BY <1>4, <1>5, <2>2
<1> DEFINE t == SubSeq(s, a + 1, Len(s))  p == Tail(q)
           cut2 == [i \in 0..n - 1 |-> cut[i + 1] - a]
<1>8. /\ t \in Seq(Bytes) /\ Len(t) = Len(s) - a
      /\ \A i \in 1..Len(s) - a : t[i] = s[a + i]
  <2>1. \A i \in a + 1..Len(s) : s[i] \in Bytes
    BY <1>2, <1>4, <1>6
  <2>2. a + 1 \in Int /\ Len(s) \in Int
    BY <1>2, <1>4
  <2>3. /\ t \in Seq(Bytes) /\ Len(t) = IF a + 1 <= Len(s) THEN Len(s) - (a + 1) + 1 ELSE 0
        /\ \A i \in 1..Len(s) - (a + 1) + 1 : t[i] = s[a + 1 + i - 1]
    BY <2>1, <2>2, SubSeqProperties
  <2> HIDE DEF t
  <2>4. Len(s) - (a + 1) + 1 = Len(s) - a
    BY <1>2, <1>4
  <2>5. \A i \in 1..Len(s) - a : a + 1 + i - 1 = a + i
    BY <1>2, <1>4
  <2>6. Len(t) = Len(s) - a
    <3>1. Len(t) = IF a + 1 <= Len(s) THEN Len(s) - (a + 1) + 1 ELSE 0
      BY <2>3
    <3>2. a = Len(s) \/ a + 1 <= Len(s)
      BY <1>2, <1>4
    <3>3. CASE a = Len(s)
      <4>1. ~(a + 1 <= Len(s)) /\ Len(s) - a = 0
        BY <1>2, <1>4, <3>3
      <4> QED
        BY <3>1, <4>1
    <3>4. CASE a + 1 <= Len(s)
      BY <2>4, <3>1, <3>4
    <3> QED
      BY <3>2, <3>3, <3>4
  <2>7. ASSUME NEW i \in 1..Len(s) - a
        PROVE  t[i] = s[a + i]
    BY <2>3, <2>4, <2>5
  <2> QED
    BY <2>3, <2>6, <2>7
<1> HIDE DEF t
<1>9. /\ p \in Seq(Seq(Bytes)) /\ Len(p) = n - 1
      /\ \A k \in 1..n - 1 : p[k] = q[k + 1]
  BY HeadTailProperties
<1> HIDE DEF p
<1>10. /\ cut2 \in [0..n - 1 -> Nat] /\ cut2[0] = 0 /\ cut2[n - 1] = Len(t)
  <2>1. \A i \in 0..n - 1 : i + 1 \in 1..n /\ cut[i + 1] - a \in Nat
    BY <1>2, <1>3, <1>4
  <2>2. cut2[0] = a - a
    BY <1>2 DEF a
  <2>3. cut2[n - 1] = Len(s) - a
    BY <1>1, <1>2
  <2> QED
    BY <1>4, <1>8, <2>1, <2>2, <2>3
<1>11. ASSUME NEW i \in 0..n - 1, NEW j \in 0..n - 1, i <= j
       PROVE  cut2[i] <= cut2[j]
  <2>1. i + 1 \in 1..n /\ j + 1 \in 1..n /\ i + 1 <= j + 1 /\ i + 1 \in 0..n /\ j + 1 \in 0..n
    BY <1>2, <1>11
  <2>2. cut[i + 1] <= cut[j + 1] /\ cut[i + 1] \in Nat /\ cut[j + 1] \in Nat
    BY <1>1, <1>3, <2>1
  <2>3. cut2[i] = cut[i + 1] - a /\ cut2[j] = cut[j + 1] - a
    OBVIOUS
  <2> HIDE DEF cut2
  <2> QED
    BY <1>4, <2>2, <2>3
<1>12. ASSUME NEW k \in 1..n - 1
       PROVE  p[k] = SubSeq(t, cut2[k - 1] + 1, cut2[k])
  <2> DEFINE c == cut[k]  d == cut[k + 1]
  <2>1. k \in 1..n /\ k + 1 \in 1..n /\ k \in 0..n - 1 /\ k - 1 \in 0..n - 1
        /\ k - 1 + 1 = k /\ k + 1 - 1 = k
    BY <1>2
  <2>2. c \in Nat /\ d \in Nat /\ a <= c /\ a <= d /\ d <= Len(s)
    BY <1>3, <2>1
  <2>3. p[k] = SubSeq(s, c + 1, d)
    <3>1. q[k + 1] = SubSeq(s, cut[k + 1 - 1] + 1, cut[k + 1])
      BY <1>1, <2>1
    <3>2. p[k] = q[k + 1]
      BY <1>9
    <3> QED
      BY <2>1, <3>1, <3>2
  <2>4. cut2[k - 1] = c - a /\ cut2[k] = d - a
    BY <2>1
  <2> HIDE DEF c, d, cut2
  <2> DEFINE x == SubSeq(s, c + 1, d)  y == SubSeq(t, c - a + 1, d - a)
  <2>5. /\ x \in Seq(Bytes) /\ Len(x) = IF c + 1 <= d THEN d - (c + 1) + 1 ELSE 0
        /\ \A i \in 1..d - (c + 1) + 1 : x[i] = s[c + 1 + i - 1]
    <3>1. \A i \in c + 1..d : s[i] \in Bytes
      BY <1>2, <1>6, <2>2
    <3> DEFINE m == c + 1
    <3>2. m \in Int /\ d \in Int /\ \A i \in m..d : s[i] \in Bytes
      BY <2>2, <3>1
    <3> HIDE DEF m
    <3>3. /\ SubSeq(s, m, d) \in Seq(Bytes)
          /\ Len(SubSeq(s, m, d)) = IF m <= d THEN d - m + 1 ELSE 0
          /\ \A i \in 1..d - m + 1 : SubSeq(s, m, d)[i] = s[m + i - 1]
      BY <3>2, SubSeqProperties
    <3> QED
      BY <3>3 DEF m
  <2>6. /\ y \in Seq(Bytes) /\ Len(y) = IF c - a + 1 <= d - a THEN d - a - (c - a + 1) + 1 ELSE 0
        /\ \A i \in 1..d - a - (c - a + 1) + 1 : y[i] = t[c - a + 1 + i - 1]
    <3>1. \A i \in c - a + 1..d - a : i \in 1..Len(t)
      BY <1>2, <1>4, <1>8, <2>2
    <3>2. \A i \in 1..Len(t) : t[i] \in Bytes
      BY <1>8, ElementOfSeq
    <3> DEFINE m == c - a + 1  e == d - a
    <3>3. m \in Int /\ e \in Int /\ \A i \in m..e : t[i] \in Bytes
      BY <1>4, <2>2, <3>1, <3>2
    <3> HIDE DEF m, e
    <3>4. /\ SubSeq(t, m, e) \in Seq(Bytes)
          /\ Len(SubSeq(t, m, e)) = IF m <= e THEN e - m + 1 ELSE 0
          /\ \A i \in 1..e - m + 1 : SubSeq(t, m, e)[i] = t[m + i - 1]
      BY <3>3, SubSeqProperties
    <3> QED
      BY <3>4 DEF m, e
  <2> HIDE DEF x, y
  <2>7. Len(x) = Len(y) /\ d - (c + 1) + 1 = d - c /\ d - a - (c - a + 1) + 1 = d - c
    BY <1>4, <2>2, <2>5, <2>6
  <2>8. ASSUME NEW i \in 1..Len(x)
        PROVE  x[i] = y[i]
    <3>1. i \in 1..d - c /\ d - c \in Nat
      BY <2>2, <2>5
    <3>2. /\ c + 1 + i - 1 = c + i /\ c - a + 1 + i - 1 = c - a + i
          /\ c - a + i \in 1..Len(s) - a /\ a + (c - a + i) = c + i
      BY <1>2, <1>4, <2>2, <3>1
    <3>3. x[i] = s[c + i]
      BY <2>5, <2>7, <3>1, <3>2
    <3>4. y[i] = t[c - a + i]
      BY <2>6, <2>7, <3>1, <3>2
    <3>5. t[c - a + i] = s[c + i]
      BY <1>8, <3>2
    <3> QED
      BY <3>3, <3>4, <3>5
  <2>9. x = y
    BY <2>5, <2>6, <2>7, <2>8, SeqEqual
  <2> QED
    BY <2>3, <2>4, <2>9 DEF x, y
<1>13. Made(t, p)
  BY <1>9, <1>10, <1>11, <1>12 DEF Made
<1> QED
  BY <1>4, <1>5, <1>7, <1>13 DEF t, p

----------------------------------------------------------------------------
(* The types, with the threads' part of the call: who holds the line.      *)

\* What commands mean and calls ask.
Said == {Meaning(c) : c \in Seq(Bytes)} \union {r.asks : r \in Requests}

Types == TypeOK /\ obeyed \in Seq(Said) /\ asked \in Seq(Said)

\* Who holds the line is in the midst of a call, and nobody else is; it writes
\* a frame of its request and reads as many bytes as the request says.
CallOK(t) ==
  /\ owner = t <=> pc[t] \in {"write", "read", "script"}
  /\ pc[t] # "idle" => request[t] \in Requests /\ frame[t] \in request[t].frames
  /\ pc[t] = "write" => moved[t] < Len(frame[t])
  /\ pc[t] = "read" => wanted[t] = request[t].size /\ wanted[t] > 0
  /\ pc[t] \in {"read", "script"} =>
       moved[t] = Len(buffer[t]) /\ (moved[t] < wanted[t] \/ (wanted[t] = 0 /\ moved[t] = 0))

\* A script's length is a byte.
ScriptOK == Len(script) \in Bytes

Base == /\ ProperRequests
        /\ Types
        /\ \A t \in Threads : CallOK(t)
        /\ ScriptOK

\* The robot's answers have a length.
LEMMA AnswerSizeIsNat ==
  ASSUME NEW c \in Seq(Bytes)
  PROVE  AnswerSize(c) \in Nat
<1> DEFINE P == Packets(c)
           W == UNION {{i} \X (1..PacketSize(P[i])) : i \in DOMAIN P}
<1>1. PICK n \in Nat : DOMAIN P = 1..n
  <2>1. CASE c[1] = 142
    BY <2>1 DEF Packets
  <2>2. CASE c[1] # 142
    <3>1. SubSeq(c, 3, Len(c)) \in Seq(Bytes)
      <4>1. \A i \in 3..Len(c) : c[i] \in Bytes
        BY ElementOfSeq
      <4>2. Len(c) \in Int
        OBVIOUS
      <4> QED
        BY <4>1, <4>2, SubSeqProperties
    <3>2. P = SubSeq(c, 3, Len(c))
      BY <2>2 DEF Packets
    <3> HIDE DEF P
    <3> QED
      BY <3>1, <3>2, LenProperties
  <2> QED
    BY <2>1, <2>2
<1>2. \A x : PacketSize(x) \in 1..52
  BY DEF PacketSize, Size
<1> HIDE DEF P
<1>3. W \in SUBSET ((1..n) \X (1..52))
  <2> SUFFICES ASSUME NEW x \in W
               PROVE  x \in (1..n) \X (1..52)
    OBVIOUS
  <2>1. PICK i \in 1..n : x \in {i} \X (1..PacketSize(P[i]))
    BY <1>1
  <2>2. PacketSize(P[i]) \in 1..52
    BY <1>2
  <2>3. \A m \in 1..52 : 1..m \subseteq 1..52
    OBVIOUS
  <2>4. 1..PacketSize(P[i]) \subseteq 1..52
    BY <2>2, <2>3
  <2> QED
    BY <2>1, <2>4
<1>4. IsFiniteSet((1..n) \X (1..52))
  <2>0. \A a, b \in Int : IsFiniteSet(a..b)
    BY FS_Interval
  <2>1. IsFiniteSet(1..n) /\ IsFiniteSet(1..52)
    <3>1. 1 \in Int /\ n \in Int /\ 52 \in Int
      OBVIOUS
    <3> QED
      BY <2>0, <3>1
  <2> QED
    BY <2>1, FS_Product
<1> HIDE DEF W
<1>5. IsFiniteSet(W)
  BY <1>3, <1>4, FS_Subset
<1>6. Cardinality(W) \in Nat
  BY <1>5, FS_CardinalityType
<1> QED
  BY <1>6 DEF W, P, AnswerSize

\* So have the bytes a call has to read at first.
LEMMA ReplySizeIsNat ==
  ASSUME NEW c \in Seq(Bytes)
  PROVE  ReplySize(c) \in Nat
BY AnswerSizeIsNat DEF ReplySize

\* What proper requests promise.
LEMMA RequestIsProper ==
  ASSUME ProperRequests, NEW r \in Requests, NEW f \in r.frames
  PROVE  /\ Whole(f) /\ f \in Seq(Bytes) /\ Len(f) \in Nat \ {0}
         /\ Meaning(f) = r.asks /\ r.asks \in Said
         /\ r.size = ReplySize(f) /\ r.size \in Nat
<1>1. Whole(f) /\ Meaning(f) = r.asks /\ r.size = ReplySize(f)
  BY DEF ProperRequests, Proper
<1>2. f \in Seq(Bytes) /\ f # <<>>
  BY <1>1 DEF Whole
<1> QED
  BY <1>1, <1>2, EmptySeq, ReplySizeIsNat DEF Said

\* A reply is bytes.
LEMMA ReplyTyped ==
  ASSUME NEW c \in Seq(Bytes), NEW v \in Sensed, NEW w \in Sensed,
         script \in Seq(Bytes), ScriptOK
  PROVE  Reply(c, v, w) \in Seq(Bytes)
<1>1. CASE c[1] \in {142, 149}
  <2> DEFINE n == AnswerSize(c)  s == [i \in 1..n |-> IF i % 2 = 1 THEN v ELSE w]
  <2>1. n \in Nat
    BY AnswerSizeIsNat
  <2>2. Reply(c, v, w) = s
    <3>1. c[1] \in {142, 149} /\ c[1] # ShowScript
      BY <1>1 DEF ShowScript
    <3> QED
      BY <3>1 DEF Reply
  <2> HIDE DEF n
  <2>3. v \in Bytes /\ w \in Bytes
    BY StreamAssumption DEF StreamAssumption
  <2>4. s \in [1..n -> Bytes]
    BY <2>3
  <2>5. s \in Seq(Bytes)
    BY <2>1, <2>4
  <2> QED
    BY <2>2, <2>5
<1>2. CASE c[1] = ShowScript
  <2>1. <<Len(script)>> \in Seq(Bytes)
    BY DEF ScriptOK
  <2>2. <<Len(script)>> \o script \in Seq(Bytes)
    BY <2>1, ConcatProperties
  <2>3. Reply(c, v, w) = <<Len(script)>> \o script
    BY <1>2 DEF Reply, ShowScript
  <2> QED
    BY <2>2, <2>3
<1>3. CASE c[1] \notin {142, 149, ShowScript}
  <2>1. Reply(c, v, w) = <<>>
    BY <1>3 DEF Reply
  <2> QED
    BY <2>1
<1> QED
  BY <1>1, <1>2, <1>3

\* The program starts so.
LEMMA InitBase == ProperRequests /\ Init => Base
<1> SUFFICES ASSUME ProperRequests, Init
             PROVE  Base
  OBVIOUS
<1>1. <<128>> \in Seq(Bytes) /\ Len(<<128>>) = 1
  BY DEF Bytes
<1>2. <<>> \in Seq(Bytes) /\ <<>> \in Seq(Said)
  OBVIOUS
<1>3. Types
  <2> USE StreamAssumption DEF StreamAssumption, Init
  <2>1. /\ frame \in [Threads -> Seq(Bytes)] /\ buffer \in [Threads -> Seq(Bytes)]
        /\ request \in [Threads -> Requests \union {startOI}]
        /\ pc \in [Threads -> {"idle", "lock", "write", "read", "script"}]
    BY <1>2
  <2>2. /\ numzeroes \in [Threads -> 0..GiveUpAt] /\ moved \in [Threads -> Nat]
        /\ wanted \in [Threads -> Nat] /\ calls \in 0..MaxCalls
    OBVIOUS
  <2>3. \A s \in {toRobot, air, input, heard, script, answered} : s \in Seq(Bytes)
    BY <1>1, <1>2
  <2> QED
    BY <1>2, <2>1, <2>2, <2>3 DEF Types, TypeOK
<1>4. \A t \in Threads : CallOK(t)
  BY StreamAssumption DEF CallOK, Init, StreamAssumption
<1>5. ScriptOK
  BY <1>1 DEF ScriptOK, Init, Bytes
<1> QED
  BY <1>3, <1>4, <1>5 DEF Base

\* A call is begun.
LEMMA CallBase ==
  ASSUME Base, NEW t \in Threads, Call(t)
  PROVE  Base'
<1> USE DEF Base
<1>0. PICK r \in Requests : \E f \in r.frames :
        request' = [request EXCEPT ![t] = r] /\ frame' = [frame EXCEPT ![t] = f]
  BY DEF Call
<1>1. PICK f \in r.frames :
        request' = [request EXCEPT ![t] = r] /\ frame' = [frame EXCEPT ![t] = f]
  BY <1>0
<1>2. f \in Seq(Bytes)
  BY <1>1, RequestIsProper
<1>3. calls' \in 0..MaxCalls
  <2>1. calls \in 0..MaxCalls /\ MaxCalls \in Nat /\ calls < MaxCalls /\ calls' = calls + 1
    BY StreamAssumption DEF Call, Types, TypeOK, StreamAssumption
  <2> QED
    BY <2>1
<1>4. Types'
  BY <1>1, <1>2, <1>3 DEF Types, TypeOK, Call, robotVars
<1>5. ASSUME NEW u \in Threads
      PROVE  CallOK(u)'
  BY <1>1, <1>5 DEF CallOK, Call, Types, TypeOK, robotVars
<1>6. ScriptOK' /\ ProperRequests'
  BY DEF ScriptOK, ProperRequests, Call, robotVars
<1> QED
  BY <1>4, <1>5, <1>6

\* A thread gets the line.
LEMMA LockBase ==
  ASSUME Base, NEW t \in Threads, Lock(t)
  PROVE  Base'
<1> USE DEF Base
<1>1. request[t] \in Requests /\ frame[t] \in request[t].frames
  BY DEF Lock, CallOK
<1>2. request[t].asks \in Said /\ Len(frame[t]) \in Nat \ {0}
  BY <1>1, RequestIsProper
<1>3. asked' \in Seq(Said)
  BY <1>2, AppendProperties DEF Lock, Types
<1>6. numzeroes' \in [Threads -> 0..GiveUpAt] /\ moved' \in [Threads -> Nat]
  BY StreamAssumption DEF Types, TypeOK, Lock, StreamAssumption
<1>4. Types'
  BY <1>3, <1>6 DEF Types, TypeOK, Lock, robotVars
<1>5. ASSUME NEW u \in Threads
      PROVE  CallOK(u)'
  <2>1. CallOK(u) /\ u # "free" /\ pc \in [Threads -> {"idle", "lock", "write", "read", "script"}]
        /\ moved \in [Threads -> Nat]
    BY StreamAssumption DEF Types, TypeOK, StreamAssumption
  <2>2. CASE u = t
    BY <1>2, <2>1, <2>2 DEF CallOK, Lock
  <2>3. CASE u # t
    BY <2>1, <2>3 DEF CallOK, Lock
  <2> QED
    BY <2>2, <2>3
<1>7. ScriptOK' /\ ProperRequests'
  BY DEF ScriptOK, ProperRequests, Lock, robotVars
<1> QED
  BY <1>4, <1>5, <1>7

\* The thread's own variables when a call ends and when a cread begins.
ThreadTypes ==
  /\ owner \in Threads \union {"free"}
  /\ pc \in [Threads -> {"idle", "lock", "write", "read", "script"}]
  /\ request \in [Threads -> Requests \union {startOI}]
  /\ frame \in [Threads -> Seq(Bytes)] /\ buffer \in [Threads -> Seq(Bytes)]
  /\ moved \in [Threads -> Nat]
  /\ numzeroes \in [Threads -> 0..GiveUpAt]
  /\ wanted \in [Threads -> Nat]
  /\ \A t \in Threads : CallOK(t)

\* A call returns.
LEMMA ReturnKeeps ==
  ASSUME ThreadTypes, NEW t \in Threads, owner = t, Return(t)
  PROVE  ThreadTypes'
<1>1. \A u \in Threads : CallOK(u)'
  BY StreamAssumption DEF ThreadTypes, CallOK, Return, StreamAssumption
<1> QED
  BY <1>1, StreamAssumption DEF ThreadTypes, Return, StreamAssumption

\* A cread begins.
LEMMA StartReadKeeps ==
  ASSUME ThreadTypes, NEW t \in Threads, owner = t, NEW l \in {"read", "script"}, NEW n \in Nat,
         l = "read" => n = request[t].size /\ n > 0, StartRead(t, l, n)
  PROVE  ThreadTypes'
<1>1. \A u \in Threads : CallOK(u)'
  BY EmptySeq DEF ThreadTypes, CallOK, StartRead
<1>2. ThreadTypes' 
  BY <1>1, StreamAssumption, EmptySeq DEF ThreadTypes, StartRead, StreamAssumption
<1> QED
  BY <1>2

\* cwrite has returned a count.
LEMMA WrittenKeeps ==
  ASSUME ThreadTypes, ProperRequests, NEW t \in Threads, owner = t, Written(t)
  PROVE  ThreadTypes'
<1>1. request[t].size \in Nat
  BY RequestIsProper DEF ThreadTypes, CallOK
<1> QED
  BY <1>1, ReturnKeeps, StartReadKeeps DEF Written

----------------------------------------------------------------------------
(* The types and the threads' part are kept by every step.                 *)

\* The line's and the robot's variables.
OtherTypes ==
  /\ line \in {"up", "down"}
  /\ toRobot \in Seq(Bytes) /\ air \in Seq(Bytes) /\ input \in Seq(Bytes)
  /\ heard \in Seq(Bytes) /\ script \in Seq(Bytes) /\ answered \in Seq(Bytes)
  /\ calls \in 0..MaxCalls /\ short \in BOOLEAN /\ flushed \in BOOLEAN
  /\ obeyed \in Seq(Said) /\ asked \in Seq(Said)

\* Base is about the threads and about the rest.
LEMMA BaseParts == Base <=> ProperRequests /\ ThreadTypes /\ OtherTypes /\ ScriptOK
BY DEF Base, Types, TypeOK, ThreadTypes, OtherTypes

\* A cwrite goes on or ends.
LEMMA WriteBase ==
  ASSUME Base, NEW t \in Threads, WriteSome(t) \/ WriteNothing(t) \/ WriteFails(t)
  PROVE  Base'
<1>1. ProperRequests /\ ThreadTypes /\ OtherTypes /\ ScriptOK
  BY BaseParts
<1>2. owner = t /\ pc[t] = "write" /\ moved[t] < Len(frame[t])
      /\ moved[t] \in Nat /\ frame[t] \in Seq(Bytes) /\ Len(frame[t]) \in Nat
  BY <1>1 DEF ThreadTypes, CallOK, WriteSome, WriteNothing, WriteFails
<1>3. ProperRequests' /\ ScriptOK'
  BY <1>1 DEF ProperRequests, ScriptOK, WriteSome, WriteNothing, WriteFails, robotVars
<1>4. CASE WriteSome(t)
  <2>1. PICK n \in 1..(Len(frame[t]) - moved[t]) :
       /\ toRobot' = toRobot \o SubSeq(frame[t], moved[t] + 1, moved[t] + n)
       /\ IF moved[t] + n = Len(frame[t]) THEN Written(t)
          ELSE /\ moved' = [moved EXCEPT ![t] = @ + n]
               /\ UNCHANGED <<owner, pc, request, frame, numzeroes, wanted, buffer>>
    BY <1>4 DEF WriteSome
  <2>2. SubSeq(frame[t], moved[t] + 1, moved[t] + n) \in Seq(Bytes)
    <3> DEFINE i == moved[t] + 1  j == moved[t] + n
    <3>1. i \in Int /\ j \in Int /\ \A k \in i..j : k \in 1..Len(frame[t])
      BY <1>2
    <3>2. \A k \in i..j : frame[t][k] \in Bytes
      BY <1>2, <3>1, ElementOfSeq
    <3> HIDE DEF i, j
    <3>3. SubSeq(frame[t], i, j) \in Seq(Bytes)
      BY <3>1, <3>2, SubSeqProperties
    <3> QED
      BY <3>3 DEF i, j
  <2>3. OtherTypes'
    <3>1. toRobot' \in Seq(Bytes)
      BY <1>1, <2>1, <2>2, ConcatProperties DEF OtherTypes
    <3> QED
      BY <1>1, <1>4, <3>1 DEF OtherTypes, WriteSome, robotVars
  <2>4. CASE Written(t)
    <3>1. ThreadTypes'
      BY <1>1, <1>2, <2>4, WrittenKeeps
    <3> QED
      BY <1>3, <2>3, <3>1, BaseParts, PTL
  <2>5. CASE moved[t] + n # Len(frame[t])
    <3>1. moved' = [moved EXCEPT ![t] = @ + n] /\ moved[t] + n \in Nat
          /\ moved[t] + n < Len(frame[t])
          /\ UNCHANGED <<owner, pc, request, frame, numzeroes, wanted, buffer>>
      <4> DEFINE m == moved[t]  l == Len(frame[t])
      <4>1. m \in Nat /\ l \in Nat /\ n \in 1..(l - m) /\ m + n # l
        BY <1>2, <2>1, <2>5
      <4> HIDE DEF m, l
      <4>2. m + n \in Nat /\ m + n < l
        BY <4>1
      <4> QED
        BY <2>1, <2>5, <4>2 DEF m, l
    <3>2. ASSUME NEW u \in Threads
          PROVE  CallOK(u)'
      BY <1>1, <1>2, <3>1 DEF ThreadTypes, CallOK
    <3>3. ThreadTypes'
      BY <1>1, <3>1, <3>2 DEF ThreadTypes
    <3> QED
      BY <1>3, <2>3, <3>3, BaseParts, PTL
  <2> QED
    BY <2>1, <2>4, <2>5
<1>5. CASE WriteNothing(t)
  <2>1. OtherTypes'
    BY <1>1, <1>5 DEF OtherTypes, WriteNothing, robotVars
  <2>2. CASE Written(t)
    <3>1. ThreadTypes'
      BY <1>1, <1>2, <2>2, WrittenKeeps
    <3> QED
      BY <1>3, <2>1, <3>1, BaseParts, PTL
  <2>3. CASE ~GivesUp(t)
    <3>1. numzeroes' = [numzeroes EXCEPT ![t] = @ + 1] /\ numzeroes[t] + 1 \in 0..GiveUpAt
          /\ UNCHANGED <<owner, pc, request, frame, moved, wanted, buffer>>
      BY <1>1, <1>5, <2>3, StreamAssumption
      DEF WriteNothing, GivesUp, ThreadTypes, StreamAssumption
    <3>2. \A u \in Threads : CallOK(u)'
      BY <1>1, <3>1 DEF ThreadTypes, CallOK
    <3>3. ThreadTypes'
      BY <1>1, <3>1, <3>2 DEF ThreadTypes
    <3> QED
      BY <1>3, <2>1, <3>3, BaseParts, PTL
  <2> QED
    BY <1>5, <2>2, <2>3 DEF WriteNothing
<1>6. CASE WriteFails(t)
  <2>1. OtherTypes'
    BY <1>1, <1>6 DEF OtherTypes, WriteFails, robotVars
  <2>2. ThreadTypes'
    BY <1>1, <1>2, <1>6, ReturnKeeps DEF WriteFails
  <2> QED
    BY <1>3, <2>1, <2>2, BaseParts, PTL
<1> QED
  BY <1>4, <1>5, <1>6

\* A cread has returned.
LEMMA HasReadKeeps ==
  ASSUME ThreadTypes, NEW t \in Threads, owner = t, NEW b \in Seq(Bytes), HasRead(t, b)
  PROVE  ThreadTypes'
<1>1. CASE pc[t] = "read" /\ frame[t] = <<ShowScript>>
  <2>1. PICK n \in IF b = <<>> THEN Stray ELSE {b[1]} : StartRead(t, "script", n)
    BY <1>1 DEF HasRead
  <2>2. n \in Nat
    <3>1. b # <<>> => b[1] \in Bytes
      BY EmptySeq, ElementOfSeq
    <3> QED
      <4>1. n \in Bytes
        BY <2>1, <3>1, StrayAssumption DEF StrayAssumption
      <4> QED
        BY <4>1 DEF Bytes
  <2> QED
    BY <1>1, <2>1, <2>2, StartReadKeeps
<1>2. CASE Return(t)
  BY <1>2, ReturnKeeps
<1> QED
  BY <1>1, <1>2 DEF HasRead

\* What a read takes of the input, what the thread then has, what is left.
Taken(t) == MIN(Len(input), wanted[t] - moved[t])
Got(t)   == buffer[t] \o SubSeq(input, 1, Taken(t))
Left(t)  == SubSeq(input, Taken(t) + 1, Len(input))

\* A read ends the cread, or takes all there is.
LEMMA ReadParts ==
  ASSUME Base, NEW t \in Threads, ReadSome(t)
  PROVE  /\ owner = t /\ pc[t] \in {"read", "script"}
         /\ Taken(t) \in Nat /\ (Taken(t) > 0 \/ wanted[t] = 0)
         /\ Taken(t) > 0 => input # <<>>
         /\ Got(t) \in Seq(Bytes) /\ Left(t) \in Seq(Bytes)
         /\ Len(Got(t)) = moved[t] + Taken(t) /\ Len(Got(t)) <= wanted[t]
         /\ Got(t) \o Left(t) = buffer[t] \o input
         /\ \/ Len(Got(t)) = wanted[t] /\ HasRead(t, Got(t)) /\ Flush(Left(t))
            \/ /\ Len(Got(t)) < wanted[t] /\ input' = Left(t)
               /\ moved' = [moved EXCEPT ![t] = @ + Taken(t)]
               /\ buffer' = [buffer EXCEPT ![t] = Got(t)]
               /\ UNCHANGED <<owner, pc, request, frame, numzeroes, wanted, flushed>>
         /\ UNCHANGED <<line, toRobot, robotVars, calls, asked, short>>
<1>0. /\ moved[t] \in Nat /\ wanted[t] \in Nat /\ input \in Seq(Bytes)
      /\ buffer[t] \in Seq(Bytes)
  BY DEF Base, Types, TypeOK
<1>1. /\ owner = t /\ moved[t] \in Nat /\ wanted[t] \in Nat /\ Len(input) \in Nat
      /\ moved[t] <= wanted[t] /\ moved[t] = Len(buffer[t])
      /\ buffer[t] \in Seq(Bytes) /\ input \in Seq(Bytes)
  <2>1. /\ owner = t /\ moved[t] = Len(buffer[t])
        /\ moved[t] < wanted[t] \/ (wanted[t] = 0 /\ moved[t] = 0)
    BY DEF Base, CallOK, ReadSome
  <2> QED
    BY <1>0, <2>1
<1>2. Taken(t) \in 0..Len(input) /\ moved[t] + Taken(t) <= wanted[t]
  BY <1>1 DEF MIN, Taken
<1>3. /\ SubSeq(input, 1, Taken(t)) \in Seq(Bytes) /\ Left(t) \in Seq(Bytes)
      /\ Len(SubSeq(input, 1, Taken(t))) = Taken(t)
      /\ Got(t) \o Left(t) = buffer[t] \o input
  <2>1. \A n \in 0..Len(input) :
          /\ SubSeq(input, 1, n) \in Seq(Bytes) /\ SubSeq(input, n + 1, Len(input)) \in Seq(Bytes)
          /\ Len(SubSeq(input, 1, n)) = n
          /\ (buffer[t] \o SubSeq(input, 1, n)) \o SubSeq(input, n + 1, Len(input)) = buffer[t] \o input
    BY <1>1, MoveOver
  <2>2. Taken(t) \in 0..Len(input)
    BY <1>2
  <2> QED
    BY <2>1, <2>2 DEF Got, Left
<1>4. Got(t) \in Seq(Bytes) /\ Len(Got(t)) = moved[t] + Taken(t)
  BY <1>1, <1>3, ConcatProperties DEF Got
<1>5. \/ moved[t] + Taken(t) = wanted[t] /\ HasRead(t, Got(t)) /\ Flush(Left(t))
      \/ /\ moved[t] + Taken(t) # wanted[t] /\ input' = Left(t)
         /\ moved' = [moved EXCEPT ![t] = @ + Taken(t)]
         /\ buffer' = [buffer EXCEPT ![t] = Got(t)]
         /\ UNCHANGED <<owner, pc, request, frame, numzeroes, wanted, flushed>>
  BY DEF ReadSome, Taken, Got, Left
<1>6. /\ pc[t] \in {"read", "script"} /\ (Taken(t) > 0 \/ wanted[t] = 0)
      /\ UNCHANGED <<line, toRobot, robotVars, calls, asked, short>>
  BY DEF ReadSome, Taken
<1>7. Taken(t) \in Nat
  BY <1>1, <1>2
<1> HIDE DEF Taken, Got, Left
<1>8. moved[t] + Taken(t) = wanted[t] \/ moved[t] + Taken(t) < wanted[t]
  BY <1>1, <1>2, <1>7
<1>9. Len(Got(t)) <= wanted[t]
  BY <1>2, <1>4
<1>10. Taken(t) > 0 => input # <<>>
  BY <1>1, <1>2, <1>7
<1> QED
  BY <1>1, <1>3, <1>4, <1>5, <1>6, <1>7, <1>8, <1>9, <1>10

\* A cread goes on or ends.
LEMMA ReadBase ==
  ASSUME Base, NEW t \in Threads, ReadSome(t) \/ ReadNothing(t) \/ ReadFails(t)
  PROVE  Base'
<1>1. ProperRequests /\ ThreadTypes /\ OtherTypes /\ ScriptOK
  BY BaseParts
<1>2. owner = t /\ pc[t] \in {"read", "script"} /\ buffer[t] \in Seq(Bytes)
      /\ moved[t] \in Nat
  BY <1>1 DEF ThreadTypes, CallOK, ReadSome, ReadNothing, ReadFails
<1>3. ProperRequests' /\ ScriptOK'
  BY <1>1 DEF ProperRequests, ScriptOK, ReadSome, ReadNothing, ReadFails, robotVars
<1>4. CASE ReadSome(t)
  <2>1. CASE HasRead(t, Got(t)) /\ Flush(Left(t))
    <3>1. ThreadTypes'
      BY <1>1, <1>2, <1>4, <2>1, ReadParts, HasReadKeeps
    <3>2. input' \in Seq(Bytes) /\ flushed' \in BOOLEAN
      BY <1>1, <2>1 DEF Flush, OtherTypes
    <3>3. OtherTypes'
      BY <1>1, <1>4, <3>2, ReadParts DEF OtherTypes, robotVars
    <3> QED
      BY <1>3, <3>1, <3>3, BaseParts, PTL
  <2>2. CASE /\ Len(Got(t)) < wanted[t] /\ input' = Left(t)
             /\ moved' = [moved EXCEPT ![t] = @ + Taken(t)]
             /\ buffer' = [buffer EXCEPT ![t] = Got(t)]
             /\ UNCHANGED <<owner, pc, request, frame, numzeroes, wanted, flushed>>
    <3>1. Got(t) \in Seq(Bytes) /\ Len(Got(t)) = moved[t] + Taken(t) /\ Taken(t) \in Nat
          /\ Left(t) \in Seq(Bytes) /\ moved[t] + Taken(t) \in Nat
      <4>1. Got(t) \in Seq(Bytes) /\ Len(Got(t)) = moved[t] + Taken(t) /\ Taken(t) \in Nat
            /\ Left(t) \in Seq(Bytes)
        BY <1>4, ReadParts
      <4> DEFINE m == moved[t]  n == Taken(t)
      <4>2. m \in Nat /\ n \in Nat
        BY <1>2, <4>1
      <4> HIDE DEF m, n
      <4>3. m + n \in Nat
        BY <4>2
      <4> QED
        BY <4>1, <4>3 DEF m, n
    <3>2. ASSUME NEW u \in Threads
          PROVE  CallOK(u)'
      <4>1. CASE u = t
        <5>1. /\ owner' = t /\ pc'[t] = pc[t] /\ request'[t] = request[t] /\ frame'[t] = frame[t]
              /\ wanted'[t] = wanted[t] /\ buffer'[t] = Got(t)
              /\ moved'[t] = moved[t] + Taken(t)
          BY <1>1, <1>2, <2>2 DEF ThreadTypes
        <5>2. moved'[t] = Len(buffer'[t]) /\ moved'[t] < wanted'[t]
          BY <2>2, <3>1, <5>1
        <5>3. CallOK(t)
          BY <1>1 DEF ThreadTypes
        <5> QED
          BY <1>2, <4>1, <5>1, <5>2, <5>3 DEF CallOK
      <4>2. CASE u # t
        BY <1>1, <2>2, <4>2 DEF ThreadTypes, CallOK
      <4> QED
        BY <4>1, <4>2
    <3>3. ThreadTypes'
      BY <1>1, <2>2, <3>1, <3>2 DEF ThreadTypes
    <3>4. OtherTypes'
      BY <1>1, <1>4, <2>2, <3>1, ReadParts DEF OtherTypes, robotVars
    <3> QED
      BY <1>3, <3>3, <3>4, BaseParts, PTL
  <2> QED
    BY <1>4, <2>1, <2>2, ReadParts
<1>5. CASE ReadNothing(t)
  <2>1. OtherTypes'
    BY <1>1, <1>5 DEF OtherTypes, ReadNothing, robotVars
  <2>2. CASE HasRead(t, buffer[t])
    <3>1. ThreadTypes'
      BY <1>1, <1>2, <2>2, HasReadKeeps
    <3> QED
      BY <1>3, <2>1, <3>1, BaseParts, PTL
  <2>3. CASE ~GivesUp(t)
    <3>1. numzeroes' = [numzeroes EXCEPT ![t] = @ + 1] /\ numzeroes[t] + 1 \in 0..GiveUpAt
          /\ UNCHANGED <<owner, pc, request, frame, moved, wanted, buffer>>
      BY <1>1, <1>5, <2>3, StreamAssumption
      DEF ReadNothing, GivesUp, ThreadTypes, StreamAssumption
    <3>2. \A u \in Threads : CallOK(u)'
      BY <1>1, <3>1 DEF ThreadTypes, CallOK
    <3>3. ThreadTypes'
      BY <1>1, <3>1, <3>2 DEF ThreadTypes
    <3> QED
      BY <1>3, <2>1, <3>3, BaseParts, PTL
  <2> QED
    BY <1>5, <2>2, <2>3 DEF ReadNothing
<1>6. CASE ReadFails(t)
  <2>1. OtherTypes'
    BY <1>1, <1>6 DEF OtherTypes, ReadFails, robotVars
  <2>2. ThreadTypes'
    BY <1>1, <1>2, <1>6, ReturnKeeps DEF ReadFails
  <2> QED
    BY <1>3, <2>1, <2>2, BaseParts, PTL
<1> QED
  BY <1>4, <1>5, <1>6

\* A whole command that stores a script is as long as it says.
LEMMA ScriptLength ==
  ASSUME NEW c \in Seq(Bytes), c # <<>>, c[1] = 152, Len(c) = 1 + DataBytes(c)
  PROVE  SubSeq(c, 3, Len(c)) \in Seq(Bytes) /\ Len(SubSeq(c, 3, Len(c))) \in Bytes
<1>1. DataBytes(c) = IF Len(c) < 2 THEN 1 ELSE 1 + c[2]
  BY DEF DataBytes
<1>2. Len(c) \in Nat /\ Len(c) # 1 /\ Len(c) # 0
  BY <1>1, EmptySeq
<1>3. c[2] \in Bytes /\ Len(c) = 2 + c[2]
  <2>1. 2 \in 1..Len(c)
    BY <1>2
  <2>2. c[2] \in Bytes
    BY <2>1, ElementOfSeq
  <2> DEFINE n == c[2]
  <2>3. DataBytes(c) = 1 + n /\ n \in Int
    <3>1. ~(Len(c) < 2)
      BY <1>2
    <3> QED
      BY <1>1, <2>2, <3>1, BytesAreNat
  <2> HIDE DEF n
  <2>4. Len(c) = 2 + n
    BY <2>3
  <2> QED
    BY <2>2, <2>4 DEF n
<1>4. \A k \in 3..Len(c) : c[k] \in Bytes
  BY ElementOfSeq
<1> DEFINE x == SubSeq(c, 3, Len(c))
<1>5. x \in Seq(Bytes) /\ Len(x) = IF 3 <= Len(c) THEN Len(c) - 3 + 1 ELSE 0
  BY <1>2, <1>4, SubSeqProperties
<1> HIDE DEF x
<1>6. Len(x) = c[2]
  <2> DEFINE n == c[2]  m == Len(c)
  <2>1. n \in Nat /\ m = 2 + n /\ Len(x) = IF 3 <= m THEN m - 3 + 1 ELSE 0
    <3>1. c[2] \in Nat
      BY <1>3, BytesAreNat
    <3> QED
      BY <1>3, <1>5, <3>1
  <2> HIDE DEF n, m
  <2>2. Len(x) = n
    <3>1. CASE 3 <= m
      BY <2>1, <3>1
    <3>2. CASE ~(3 <= m)
      BY <2>1, <3>2
    <3> QED
      BY <3>1, <3>2
  <2> QED
    BY <2>2 DEF n
<1> QED
  BY <1>3, <1>5, <1>6 DEF x

\* The robot hears a byte.
LEMMA HearBase ==
  ASSUME Base, Hear
  PROVE  Base'
<1>1. ProperRequests /\ ThreadTypes /\ OtherTypes /\ ScriptOK
  BY BaseParts
<1>2. ProperRequests' /\ ThreadTypes'
  BY <1>1 DEF ProperRequests, ThreadTypes, CallOK, Hear, threadVars
<1> DEFINE c == Append(heard, Head(toRobot))
<1>3. toRobot' \in Seq(Bytes) /\ c \in Seq(Bytes) /\ c # <<>>
  <2>1. toRobot \in Seq(Bytes) /\ toRobot # <<>> /\ heard \in Seq(Bytes)
        /\ toRobot' = Tail(toRobot)
    BY <1>1 DEF Hear, OtherTypes
  <2>2. Head(toRobot) \in Bytes /\ toRobot' \in Seq(Bytes)
    BY <2>1, HeadTailProperties
  <2>3. c \in Seq(Bytes) /\ Len(c) = Len(heard) + 1
    BY <2>1, <2>2, AppendProperties
  <2> HIDE DEF c
  <2>4. Len(c) # 0
    BY <2>1, <2>3
  <2> QED
    BY <2>2, <2>3, <2>4, EmptySeq
<1>4. \/ UNCHANGED <<script, air, obeyed, answered>> /\ heard' \in {heard, c}
      \/ /\ heard' = <<>> /\ obeyed' = Append(obeyed, Meaning(c))
         /\ Len(c) = 1 + DataBytes(c)
         /\ script' = IF c[1] = 152 THEN SubSeq(c, 3, Len(c)) ELSE script
         /\ \E v, w \in Sensed : /\ air' = air \o Reply(c, v, w)
                                 /\ answered' \in {answered, Reply(c, v, w)}
  BY DEF Hear
<1> HIDE DEF c
<1>5. UNCHANGED <<line, input, calls, asked, short, flushed>>
  BY DEF Hear
<1>6. CASE UNCHANGED <<script, air, obeyed, answered>> /\ heard' \in {heard, c}
  <2>1. OtherTypes'
    BY <1>1, <1>3, <1>5, <1>6 DEF OtherTypes
  <2>2. ScriptOK'
    BY <1>1, <1>6 DEF ScriptOK
  <2> QED
    BY <1>2, <2>1, <2>2, BaseParts, PTL
<1>7. CASE /\ heard' = <<>> /\ obeyed' = Append(obeyed, Meaning(c))
           /\ Len(c) = 1 + DataBytes(c)
           /\ script' = IF c[1] = 152 THEN SubSeq(c, 3, Len(c)) ELSE script
           /\ \E v, w \in Sensed : /\ air' = air \o Reply(c, v, w)
                                   /\ answered' \in {answered, Reply(c, v, w)}
  <2>1. script' \in Seq(Bytes) /\ Len(script') \in Bytes
    BY <1>1, <1>3, <1>7, ScriptLength DEF ScriptOK, OtherTypes
  <2>2. PICK v \in Sensed, w \in Sensed : /\ air' = air \o Reply(c, v, w)
                                          /\ answered' \in {answered, Reply(c, v, w)}
    BY <1>7
  <2>3. script \in Seq(Bytes) /\ air \in Seq(Bytes)
    BY <1>1 DEF OtherTypes
  <2>4. Reply(c, v, w) \in Seq(Bytes)
    BY <1>1, <1>3, <2>3, ReplyTyped
  <2>5. air' \in Seq(Bytes)
    BY <2>2, <2>3, <2>4, ConcatProperties
  <2>6. obeyed' \in Seq(Said)
    <3>1. Meaning(c) \in Said /\ obeyed \in Seq(Said)
      BY <1>1, <1>3 DEF Said, OtherTypes
    <3> QED
      BY <1>7, <3>1, AppendProperties
  <2>7. OtherTypes'
    BY <1>1, <1>3, <1>5, <1>7, <2>1, <2>2, <2>4, <2>5, <2>6 DEF OtherTypes
  <2>8. ScriptOK'
    BY <2>1 DEF ScriptOK
  <2> QED
    BY <1>2, <2>7, <2>8, BaseParts, PTL
<1> QED
  BY <1>4, <1>6, <1>7

\* Bytes arrive, or the port hangs up.
LEMMA ArriveBase ==
  ASSUME Base, Arrive \/ HangUp
  PROVE  Base'
<1>1. ProperRequests /\ ThreadTypes /\ OtherTypes /\ ScriptOK
  BY BaseParts
<1>2. ProperRequests' /\ ThreadTypes' /\ ScriptOK'
  BY <1>1 DEF ProperRequests, ThreadTypes, CallOK, ScriptOK, Arrive, HangUp, threadVars
<1>3. CASE Arrive
  <2>1. PICK n \in 1..Len(air) :
          input' = input \o SubSeq(air, 1, n) /\ air' = SubSeq(air, n + 1, Len(air))
    BY <1>3 DEF Arrive
  <2>2. air \in Seq(Bytes) /\ input \in Seq(Bytes) /\ n \in 0..Len(air)
    BY <1>1 DEF OtherTypes
  <2>3. SubSeq(air, 1, n) \in Seq(Bytes) /\ SubSeq(air, n + 1, Len(air)) \in Seq(Bytes)
    BY <2>2, MoveOver
  <2>4. input' \in Seq(Bytes) /\ air' \in Seq(Bytes)
    BY <2>1, <2>2, <2>3, ConcatProperties
  <2>5. OtherTypes'
    BY <1>1, <1>3, <2>4 DEF OtherTypes, Arrive
  <2> QED
    BY <1>2, <2>5, BaseParts, PTL
<1>4. CASE HangUp
  <2>1. OtherTypes'
    BY <1>1, <1>4 DEF OtherTypes, HangUp
  <2> QED
    BY <1>2, <2>1, BaseParts, PTL
<1> QED
  BY <1>3, <1>4

\* Base is inductive.
LEMMA BaseStep == Base /\ [Next]_vars => Base'
<1> SUFFICES ASSUME Base, [Next]_vars
             PROVE  Base'
  OBVIOUS
<1>1. ASSUME NEW t \in Threads, Call(t) \/ ThreadStep(t)
      PROVE  Base'
  BY <1>1, CallBase, LockBase, WriteBase, ReadBase DEF ThreadStep
<1>2. CASE Hear
  BY <1>2, HearBase
<1>3. CASE Arrive \/ HangUp
  BY <1>3, ArriveBase
<1>4. CASE UNCHANGED vars
  BY <1>4 DEF vars, threadVars, robotVars, Base, Types, TypeOK, CallOK, ScriptOK, ProperRequests
<1> QED
  BY <1>1, <1>2, <1>3, <1>4 DEF Next

----------------------------------------------------------------------------
(* The line: the frames that are under way and the answers.                *)

\* The first part of two is the first again.
LEMMA FirstPart ==
  ASSUME NEW a \in Seq(Bytes), NEW b \in Seq(Bytes), a # <<>>
  PROVE  SubSeq(a \o b, 1, Len(a)) = a
<1>1. Len(a) \in Nat /\ Len(a) # 0
  BY EmptySeq
<1>2. 1 \in 1..Len(a) /\ Len(a) \in 1..Len(a)
  BY <1>1
<1>3. SubSeq(a \o b, 1, Len(a)) = SubSeq(a, 1, Len(a))
  BY <1>2, SubSeqOfConcat1
<1> QED
  BY <1>3, SubSeqFull

\* If f begins the sequence a \o b and a is no longer than f, then a begins f;
\* if they are equally long, a is f and b is what comes after it.
LEMMA Begins ==
  ASSUME NEW a \in Seq(Bytes), NEW b \in Seq(Bytes), a # <<>>,
         NEW n \in Nat, Len(a) <= n, n <= Len(a \o b)
  PROVE  /\ a = SubSeq(SubSeq(a \o b, 1, n), 1, Len(a))
         /\ n = Len(a) => a = SubSeq(a \o b, 1, n) /\ b = SubSeq(a \o b, n + 1, Len(a \o b))
<1> DEFINE s == a \o b  k == Len(a)
<1>1. k \in Nat /\ k # 0 /\ k <= n
  BY EmptySeq
<1>2. s \in Seq(Bytes) /\ Len(s) = Len(a) + Len(b) /\ Len(s) \in Nat
  BY ConcatProperties
<1>3. SubSeq(s, 1, k) = a
  BY FirstPart
<1>4. SubSeq(s, Len(a) + 1, Len(a) + Len(b)) = b
  BY SecondPart
<1>5. n = Len(a) => a = SubSeq(s, 1, n) /\ b = SubSeq(s, n + 1, Len(s))
  BY <1>2, <1>3, <1>4
<1>6. n <= Len(s)
  OBVIOUS
<1> HIDE DEF s, k
<1>7. 1 \in 1..Len(s) /\ n \in 1..Len(s) /\ 1 \in 1..(n - 1 + 1) /\ k \in 1..(n - 1 + 1)
  BY <1>1, <1>2, <1>6
<1>8. SubSeq(SubSeq(s, 1, n), 1, k) = SubSeq(s, 1 + 1 - 1, 1 + k - 1)
  BY <1>2, <1>7, SubSeqOfSubSeq
<1>9. 1 + 1 - 1 = 1 /\ 1 + k - 1 = k
  BY <1>1
<1> QED
  BY <1>3, <1>5, <1>8, <1>9 DEF s, k

\* The beginning of a whole command: it has the same opcode, and the robot
\* goes on counting until it has it all.
LEMMA WholeEnds ==
  ASSUME NEW f, Whole(f), NEW k \in 1..Len(f)
  PROVE  /\ SubSeq(f, 1, k)[1] \in Opcodes
         /\ Len(SubSeq(f, 1, k)) = k
         /\ k = 1 + DataBytes(SubSeq(f, 1, k)) <=> k = Len(f)
<1>1. f \in Seq(Bytes) /\ Len(f) \in Nat /\ f[1] \in Opcodes
  BY DEF Whole
<1>2. k \in Int /\ \A i \in 1..k : f[i] \in Bytes
  BY <1>1, ElementOfSeq
<1> DEFINE c == SubSeq(f, 1, k)
<1>3. /\ Len(c) = IF 1 <= k THEN k - 1 + 1 ELSE 0
      /\ \A i \in 1..k - 1 + 1 : c[i] = f[1 + i - 1]
  BY <1>2, SubSeqProperties
<1> HIDE DEF c
<1>4. Len(c) = k /\ 1 \in 1..k - 1 + 1 /\ 1 + 1 - 1 = 1
  BY <1>2, <1>3
<1>5. c[1] = f[1]
  BY <1>3, <1>4
<1> QED
  BY <1>1, <1>4, <1>5 DEF c, Whole

\* What the robot answers is as long as the call expects; getScript expects the
\* length first.
LEMMA ReplyFits ==
  ASSUME NEW c \in Seq(Bytes), NEW v \in Sensed, NEW w \in Sensed, Whole(c),
         Base
  PROVE  /\ ReplySize(c) = 0 <=> Reply(c, v, w) = <<>>
         /\ c[1] = ShowScript => c = <<ShowScript>> /\ Reply(c, v, w) = <<Len(script)>> \o script
         /\ c[1] # ShowScript => Len(Reply(c, v, w)) = ReplySize(c)
<1>1. CASE c[1] \in {142, 149}
  <2> DEFINE n == AnswerSize(c)  s == [i \in 1..n |-> IF i % 2 = 1 THEN v ELSE w]
  <2>1. n \in Nat
    BY AnswerSizeIsNat
  <2>2. c[1] # ShowScript /\ Reply(c, v, w) = s /\ ReplySize(c) = n
    BY <1>1 DEF Reply, ReplySize, ShowScript
  <2> HIDE DEF n
  <2>3. v \in Bytes /\ w \in Bytes
    BY StreamAssumption DEF StreamAssumption
  <2>4. s \in [1..n -> Bytes]
    BY <2>3
  <2>5. s \in Seq(Bytes) /\ Len(s) = n
    BY <2>1, <2>4, LenProperties
  <2> HIDE DEF s
  <2>6. s = <<>> <=> n = 0
    BY <2>5, EmptySeq
  <2> QED
    BY <2>2, <2>5, <2>6
<1>2. CASE c[1] = ShowScript
  <2>1. script \in Seq(Bytes) /\ <<Len(script)>> \in Seq(Bytes) /\ <<Len(script)>> # <<>>
    BY DEF Base, Types, TypeOK, ScriptOK
  <2>2. <<Len(script)>> \o script # <<>>
    BY <2>1, ConcatEqualIffEmpty
  <2>3. Reply(c, v, w) = <<Len(script)>> \o script /\ ReplySize(c) = 1
    BY <1>2 DEF Reply, ReplySize, ShowScript
  <2>4. c # <<>> /\ Len(c) \in Nat /\ Len(c) # 0
    BY EmptySeq DEF Whole
  <2>5. SubSeq(c, 1, 1)[1] = c[1]
    <3>1. c[1] \in Bytes
      BY <2>4, ElementOfSeq
    <3>2. \A i \in 1..1 : c[i] \in Bytes
      BY <3>1
    <3>3. \A i \in 1..1 - 1 + 1 : SubSeq(c, 1, 1)[i] = c[1 + i - 1]
      BY <3>2, SubSeqProperties
    <3> QED
      BY <3>3
  <2>6. DataBytes(SubSeq(c, 1, 1)) = 0
    <3>1. SubSeq(c, 1, 1)[1] = 154
      BY <1>2, <2>5 DEF ShowScript
    <3> QED
      BY <3>1 DEF DataBytes
  <2>7. 1 \in 1..Len(c)
    BY <2>4
  <2>8. Len(c) = 1
    BY <2>6, <2>7, WholeEnds
  <2>9. c = <<c[1]>>
    BY <2>8
  <2> QED
    BY <1>2, <2>2, <2>3, <2>9
<1>3. CASE c[1] \notin {142, 149, ShowScript}
  <2>1. Reply(c, v, w) = <<>> /\ ReplySize(c) = 0
    BY <1>3 DEF Reply, ReplySize
  <2> QED
    BY <1>3, <2>1
<1> QED
  BY <1>1, <1>2, <1>3

----------------------------------------------------------------------------
(* What is on the line *)

\* What the thread that writes has still to put on the line.
Rest == IF owner \in Threads /\ pc[owner] = "write"
        THEN SubSeq(frame[owner], moved[owner] + 1, Len(frame[owner]))
        ELSE <<>>

\* What the robot has heard of a command, is to hear and will get to hear.
Stream == (heard \o toRobot) \o Rest

\* q are the frames of that stream: the commands that were asked for and that
\* the robot has not yet obeyed.
Pending(q) ==
  /\ Made(Stream, q)
  /\ \A k \in 1..Len(q) : Whole(q[k])
  /\ q # <<>> => Len(heard) < Len(q[1])
  /\ Len(asked) = Len(obeyed) + Len(q)
  /\ \A i \in 1..Len(obeyed) : asked[i] = obeyed[i]
  /\ \A k \in 1..Len(q) : asked[Len(obeyed) + k] = Meaning(q[k])

\* What a call may read: nothing of an answer before the robot has its query,
\* then all of this answer and nothing else.
ReadOK(q, t) ==
  /\ pc[t] = "write" => q # <<>> /\ q[Len(q)] = frame[t]
  /\ pc[t] = "read" /\ q # <<>> => q[Len(q)] = frame[t] /\ buffer[t] = <<>>
  /\ pc[t] = "read" /\ q = <<>> =>
       /\ (buffer[t] \o input) \o air = answered
       /\ IF frame[t] = <<ShowScript>> THEN answered = <<Len(script)>> \o script
          ELSE Len(answered) = wanted[t]
  /\ pc[t] = "script" =>
       /\ q = <<>> /\ wanted[t] = Len(script)
       /\ answered = <<Len(script)>> \o script
       /\ (buffer[t] \o input) \o air = script

\* Nothing of an answer is on its way before its query is heard, only the last
\* frame of the stream is a query, and only while its call has the line.
Awaited(q) ==
  /\ owner = "free" \/ pc[owner] = "write" \/ q # <<>> => air = <<>> /\ input = <<>>
  /\ \A k \in 1..Len(q) : k < Len(q) \/ owner = "free" => ReplySize(q[k]) = 0
  /\ \A t \in Threads : ReadOK(q, t)

\* The line's part of the invariant; once it is down, or a flush has thrown
\* bytes away, less is promised.
LineInv ==
  ~short => IF line = "down" THEN IsPrefix(obeyed, asked)
            ELSE \E q \in Seq(Seq(Bytes)) : Pending(q) /\ (flushed \/ Awaited(q))

\* Everything on the line is bytes.
LEMMA StreamTyped ==
  ASSUME Base
  PROVE  /\ Rest \in Seq(Bytes) /\ heard \o toRobot \in Seq(Bytes) /\ Stream \in Seq(Bytes)
         /\ Len(Stream) = Len(heard) + Len(toRobot) + Len(Rest)
         /\ Len(heard) \in Nat /\ Len(toRobot) \in Nat /\ Len(Rest) \in Nat
         /\ heard \in Seq(Bytes) /\ toRobot \in Seq(Bytes)
<1>1. heard \in Seq(Bytes) /\ toRobot \in Seq(Bytes)
  BY DEF Base, Types, TypeOK
<1>2. Rest \in Seq(Bytes)
  <2>1. CASE owner \in Threads /\ pc[owner] = "write"
    <3> DEFINE f == frame[owner]  m == moved[owner]
    <3>1. f \in Seq(Bytes) /\ m \in Nat /\ m < Len(f)
      BY <2>1 DEF Base, Types, TypeOK, CallOK
    <3>2. Rest = SubSeq(f, m + 1, Len(f))
      BY <2>1 DEF Rest
    <3> HIDE DEF f, m
    <3>3. <<>> \in Seq(Bytes) /\ m \in 0..Len(f)
      BY <3>1
    <3> QED
      BY <3>1, <3>2, <3>3, MoveOver
  <2>2. CASE ~(owner \in Threads /\ pc[owner] = "write")
    BY <2>2 DEF Rest
  <2> QED
    BY <2>1, <2>2
<1>3. heard \o toRobot \in Seq(Bytes) /\ Len(heard \o toRobot) = Len(heard) + Len(toRobot)
  BY <1>1, ConcatProperties
<1>4. Stream \in Seq(Bytes) /\ Len(Stream) = Len(heard \o toRobot) + Len(Rest)
  BY <1>2, <1>3, ConcatProperties DEF Stream
<1> QED
  BY <1>1, <1>2, <1>3, <1>4

\* As long as the stream does not change, the same commands are pending.
LEMMA PendingKept ==
  ASSUME NEW q, Pending(q), Stream' = Stream, UNCHANGED <<heard, obeyed, asked>>
  PROVE  Pending(q)'
BY DEF Pending

----------------------------------------------------------------------------
(* The line is kept by the steps that move no bytes to the robot.          *)

\* A prefix stays one when something is added.
LEMMA PrefixMore ==
  ASSUME NEW S, NEW s \in Seq(S), NEW t \in Seq(S), NEW e \in S, IsPrefix(s, t)
  PROVE  IsPrefix(s, Append(t, e))
<1>1. Len(s) \in Nat /\ Len(t) \in Nat /\ Len(s) <= Len(t)
  BY DEF IsPrefix
<1>2. Append(t, e) = t \o <<e>> /\ <<e>> \in Seq(S) /\ Len(Append(t, e)) = Len(t) + 1
  BY AppendIsConcat, AppendProperties
<1>3. SubSeq(t, 1, Len(s)) = SubSeq(Append(t, e), 1, Len(s))
  <2>1. CASE Len(s) = 0
    <3>1. SubSeq(t, 1, 0) = <<>> /\ SubSeq(Append(t, e), 1, 0) = <<>>
      BY SubSeqEmpty
    <3> QED
      BY <2>1, <3>1
  <2>2. CASE Len(s) # 0
    <3>1. 1 \in 1..Len(t) /\ Len(s) \in 1..Len(t)
      BY <1>1, <2>2
    <3> QED
      BY <1>2, <3>1, SubSeqOfConcat1
  <2> QED
    BY <2>1, <2>2
<1> QED
  BY <1>1, <1>2, <1>3 DEF IsPrefix

\* What has been obeyed is the beginning of what was asked for.
LEMMA PendingPrefix ==
  ASSUME Base, NEW q \in Seq(Seq(Bytes)), Pending(q)
  PROVE  IsPrefix(obeyed, asked)
<1>1. obeyed \in Seq(Said) /\ asked \in Seq(Said)
  BY DEF Base, Types
<1>2. Len(obeyed) \in Nat /\ Len(asked) \in Nat /\ Len(obeyed) <= Len(asked)
  BY <1>1 DEF Pending
<1> DEFINE n == Len(obeyed)  x == SubSeq(asked, 1, n)
<1>3. n \in Int /\ \A i \in 1..n : asked[i] \in Said
  <2>1. \A i \in 1..n : i \in 1..Len(asked)
    BY <1>2
  <2> QED
    BY <1>1, <1>2, <2>1, ElementOfSeq
<1> HIDE DEF n
<1>4. /\ x \in Seq(Said) /\ Len(x) = IF 1 <= n THEN n - 1 + 1 ELSE 0
      /\ \A i \in 1..n - 1 + 1 : x[i] = asked[1 + i - 1]
  BY <1>3, SubSeqProperties
<1> HIDE DEF x
<1>5. n \in Nat /\ n = Len(obeyed)
  BY <1>2 DEF n
<1>6. Len(x) = n
  BY <1>4, <1>5
<1>7. ASSUME NEW i \in 1..n
      PROVE  x[i] = obeyed[i]
  <2>1. i \in 1..n - 1 + 1 /\ 1 + i - 1 = i
    BY <1>5
  <2>2. asked[i] = obeyed[i]
    BY <1>5 DEF Pending
  <2> QED
    BY <1>4, <2>1, <2>2
<1>8. x = obeyed
  BY <1>1, <1>4, <1>5, <1>6, <1>7, SeqEqual
<1>9. SubSeq(obeyed, 1, n) = obeyed
  BY <1>1, <1>5, SubSeqFull
<1> QED
  BY <1>2, <1>5, <1>8, <1>9 DEF IsPrefix, x

\* At first nothing is on the line.
LEMMA LineInit == Init => LineInv
<1> SUFFICES ASSUME Init
             PROVE  LineInv
  OBVIOUS
<1> DEFINE q == <<>>
<1>1. <<>> \in Seq(Bytes) /\ q \in Seq(Seq(Bytes))
  OBVIOUS
<1>2. Stream = <<>>
  <2>1. Rest = <<>>
    BY StreamAssumption DEF Init, Rest, StreamAssumption
  <2>2. heard = <<>> /\ toRobot = <<>>
    BY DEF Init
  <2>3. <<>> \o <<>> = <<>>
    BY <1>1, ConcatEmptySeq
  <2> QED
    BY <2>1, <2>2, <2>3 DEF Stream
<1>3. Made(Stream, q)
  BY <1>1, <1>2, MadeEmpty
<1>4. Pending(q)
  BY <1>3 DEF Init, Pending
<1>5. Awaited(q)
  BY DEF Init, Awaited, ReadOK
<1>6. line = "up"
  BY DEF Init
<1> QED
  BY <1>1, <1>4, <1>5, <1>6 DEF LineInv

\* What a step that leaves the line alone has to keep.
LEMMA LineKept ==
  ASSUME LineInv, UNCHANGED <<line, obeyed, asked, heard>>, ~short' => ~short,
         line = "up" => Stream' = Stream,
         ASSUME NEW q \in Seq(Seq(Bytes)), Pending(q), Awaited(q), line = "up", ~short', ~flushed'
         PROVE  Awaited(q)',
         ~flushed' => ~flushed, line \in {"up", "down"}, flushed' \in BOOLEAN
  PROVE  LineInv'
<1> SUFFICES ASSUME ~short'
             PROVE  (IF line = "down" THEN IsPrefix(obeyed, asked)
                     ELSE \E q \in Seq(Seq(Bytes)) : Pending(q) /\ (flushed \/ Awaited(q)))'
  BY DEF LineInv
<1>1. CASE line = "down"
  BY <1>1 DEF LineInv
<1>2. CASE line = "up"
  <2>1. PICK q \in Seq(Seq(Bytes)) : Pending(q) /\ (flushed \/ Awaited(q))
    BY <1>2 DEF LineInv
  <2>2. Pending(q)'
    BY <1>2, <2>1, PendingKept
  <2>3. flushed' \/ Awaited(q)'
    BY <1>2, <2>1
  <2> QED
    BY <1>2, <2>1, <2>2, <2>3
<1> QED
  BY <1>1, <1>2

\* A call that waits for the line has nothing to do with it.
LEMMA CallLine ==
  ASSUME Base, LineInv, NEW t \in Threads, Call(t)
  PROVE  LineInv'
<1>1. owner # t /\ pc[t] = "idle" /\ pc' = [pc EXCEPT ![t] = "lock"]
      /\ pc \in [Threads -> {"idle", "lock", "write", "read", "script"}]
      /\ frame \in [Threads -> Seq(Bytes)] /\ line \in {"up", "down"} /\ flushed \in BOOLEAN
  BY DEF Base, Types, TypeOK, CallOK, Call
<1>2. UNCHANGED <<owner, moved, numzeroes, wanted, buffer, line, toRobot, input,
                  heard, script, air, obeyed, answered, asked, short, flushed>>
  BY DEF Call, robotVars
<1>3. \A u \in Threads : u # t => pc'[u] = pc[u] /\ frame'[u] = frame[u]
  BY <1>1 DEF Call
<1>4. Stream' = Stream
  BY <1>1, <1>2, <1>3 DEF Stream, Rest
<1>5. ASSUME NEW q \in Seq(Seq(Bytes)), Awaited(q)
      PROVE  Awaited(q)'
  <2>1. \A u \in Threads : ReadOK(q, u)'
    BY <1>1, <1>2, <1>3, <1>5 DEF Awaited, ReadOK
  <2>2. owner # "free" => (pc'[owner] = "write" => pc[owner] = "write")
    BY <1>1
  <2> QED
    BY <1>2, <1>5, <2>1, <2>2 DEF Awaited
<1> QED
  BY <1>1, <1>2, <1>4, <1>5, LineKept

\* cwrite or cread goes round once more, or fails: nothing moves.
LEMMA NothingMoves ==
  ASSUME Base, LineInv, NEW t \in Threads, WriteNothing(t) \/ WriteFails(t) \/ ReadNothing(t) \/ ReadFails(t)
  PROVE  LineInv'
<1>0. line \in {"up", "down"} /\ flushed \in BOOLEAN
  BY DEF Base, Types, TypeOK
<1>1. CASE line = "down"
  <2>1. UNCHANGED <<line, obeyed, asked, short>> \/ short'
    BY <1>1 DEF WriteNothing, WriteFails, ReadNothing, ReadFails, robotVars
  <2> QED
    BY <1>1, <2>1 DEF LineInv
<1>2. CASE line = "up"
  <2>1. WriteNothing(t)
    BY <1>2 DEF WriteFails, ReadNothing, ReadFails
  <2>2. CASE short'
    BY <2>2 DEF LineInv
  <2>3. CASE ~short'
    <3>1. UNCHANGED <<owner, pc, request, frame, moved, wanted, buffer, short,
                      line, toRobot, input, heard, script, air, obeyed, answered, asked, flushed>>
      BY <2>1, <2>3 DEF WriteNothing, robotVars
    <3>2. Stream' = Stream
      BY <3>1 DEF Stream, Rest
    <3>3. ASSUME NEW q \in Seq(Seq(Bytes)), Awaited(q)
          PROVE  Awaited(q)'
      BY <3>1, <3>3 DEF Awaited, ReadOK
    <3> QED
      BY <1>0, <3>1, <3>2, <3>3, LineKept
  <2> QED
    BY <2>2, <2>3
<1> QED
  BY <1>0, <1>1, <1>2

\* The port hangs up.
LEMMA HangUpLine ==
  ASSUME Base, LineInv, HangUp
  PROVE  LineInv'
<1>1. line = "up" /\ line' = "down" /\ UNCHANGED <<obeyed, asked, short>>
  BY DEF HangUp
<1>2. ~short => IsPrefix(obeyed, asked)
  BY <1>1, PendingPrefix DEF LineInv
<1> QED
  BY <1>1, <1>2 DEF LineInv

\* Bytes reach the port: what the caller will have read is the same.
LEMMA ArriveLine ==
  ASSUME Base, LineInv, Arrive
  PROVE  LineInv'
<1>0. line \in {"up", "down"} /\ flushed \in BOOLEAN /\ air \in Seq(Bytes) /\ input \in Seq(Bytes)
      /\ buffer \in [Threads -> Seq(Bytes)]
  BY DEF Base, Types, TypeOK
<1>1. UNCHANGED <<owner, pc, request, frame, moved, wanted, buffer, line, toRobot, heard,
                  script, obeyed, answered, asked, short, flushed>>
  BY DEF Arrive, threadVars
<1>2. PICK n \in 1..Len(air) :
        input' = input \o SubSeq(air, 1, n) /\ air' = SubSeq(air, n + 1, Len(air))
  BY DEF Arrive
<1>3. input' \in Seq(Bytes) /\ air' \in Seq(Bytes) /\ input' \o air' = input \o air
  <2>1. n \in 0..Len(air)
    BY <1>0
  <2>2. SubSeq(air, 1, n) \in Seq(Bytes) /\ SubSeq(air, n + 1, Len(air)) \in Seq(Bytes)
        /\ (input \o SubSeq(air, 1, n)) \o SubSeq(air, n + 1, Len(air)) = input \o air
    BY <1>0, <2>1, MoveOver
  <2>3. input \o SubSeq(air, 1, n) \in Seq(Bytes)
    BY <1>0, <2>2, ConcatProperties
  <2> QED
    BY <1>2, <2>2, <2>3
<1>4. ASSUME NEW u \in Threads
      PROVE  (buffer[u] \o input') \o air' = (buffer[u] \o input) \o air
  <2>1. buffer[u] \in Seq(Bytes)
    BY <1>0
  <2>2. (buffer[u] \o input') \o air' = buffer[u] \o (input' \o air')
    <3> DEFINE b == buffer[u]  x == input'  y == air'
    <3>1. b \in Seq(Bytes) /\ x \in Seq(Bytes) /\ y \in Seq(Bytes)
      BY <1>3, <2>1
    <3> HIDE DEF b, x, y
    <3>2. (b \o x) \o y = b \o (x \o y)
      BY <3>1, ConcatAssociative
    <3> QED
      BY <3>2 DEF b, x, y
  <2>3. (buffer[u] \o input) \o air = buffer[u] \o (input \o air)
    BY <1>0, <2>1, ConcatAssociative
  <2> QED
    BY <1>3, <2>2, <2>3
<1>5. Stream' = Stream
  BY <1>1 DEF Stream, Rest
<1>6. ASSUME NEW q \in Seq(Seq(Bytes)), Awaited(q)
      PROVE  Awaited(q)'
  <2>1. air # <<>>
    BY DEF Arrive
  <2>2. ~(owner = "free" \/ pc[owner] = "write" \/ q # <<>>)
    BY <1>6, <2>1 DEF Awaited
  <2>3. \A u \in Threads : ReadOK(q, u)'
    BY <1>1, <1>4, <1>6 DEF Awaited, ReadOK
  <2> QED
    BY <1>1, <1>6, <2>2, <2>3 DEF Awaited
<1> QED
  BY <1>0, <1>1, <1>5, <1>6, LineKept

----------------------------------------------------------------------------
(* The line is kept by cwrite.                                             *)

\* Concatenation, for the provers to leave folded.
Cat(a, b) == a \o b

\* It makes bytes of bytes.
LEMMA CatTwo ==
  ASSUME NEW a \in Seq(Bytes), NEW b \in Seq(Bytes)
  PROVE  Cat(a, b) \in Seq(Bytes)
BY ConcatProperties DEF Cat

\* It does not care for brackets.
LEMMA CatThree ==
  ASSUME NEW a \in Seq(Bytes), NEW b \in Seq(Bytes), NEW c \in Seq(Bytes)
  PROVE  Cat(Cat(a, b), c) = Cat(a, Cat(b, c))
<1>1. (a \o b) \o c = a \o (b \o c)
  BY ConcatAssociative
<1> QED
  BY <1>1, Zenon DEF Cat

\* Nor do four parts.
LEMMA Regroup ==
  ASSUME NEW h \in Seq(Bytes), NEW r \in Seq(Bytes), NEW s \in Seq(Bytes), NEW l \in Seq(Bytes)
  PROVE  Cat(Cat(h, Cat(r, s)), l) = Cat(Cat(h, r), Cat(s, l))
<1>1. Cat(h, Cat(r, s)) = Cat(Cat(h, r), s)
  BY CatThree
<1>2. Cat(h, r) \in Seq(Bytes)
  BY CatTwo
<1>3. Cat(Cat(Cat(h, r), s), l) = Cat(Cat(h, r), Cat(s, l))
  BY <1>2, CatThree
<1> QED
  BY <1>1, <1>3

\* A call that gets the line adds its frame to the stream.
LEMMA LockLine ==
  ASSUME Base, LineInv, NEW t \in Threads, Lock(t)
  PROVE  LineInv'
<1>1. /\ owner = "free" /\ owner' = t /\ pc' = [pc EXCEPT ![t] = "write"]
      /\ moved' = [moved EXCEPT ![t] = 0] /\ asked' = Append(asked, request[t].asks)
      /\ UNCHANGED <<request, frame, wanted, buffer, line, toRobot, input, heard, script, air,
                     obeyed, answered, short, flushed>>
  BY DEF Lock, robotVars
<1>2. /\ obeyed \in Seq(Said) /\ asked \in Seq(Said) /\ line \in {"up", "down"}
      /\ pc \in [Threads -> {"idle", "lock", "write", "read", "script"}]
      /\ moved \in [Threads -> Nat]
  BY DEF Base, Types, TypeOK
<1>7. frame[t] \in Seq(Bytes)
  BY DEF Base, Types, TypeOK
<1>8. PICK f \in Seq(Bytes) : f = frame[t]
  BY <1>7
<1>3. Whole(f) /\ f \in Seq(Bytes) /\ Len(f) \in Nat \ {0} /\ Meaning(f) = request[t].asks
      /\ request[t].asks \in Said
  <2>1. ProperRequests /\ request[t] \in Requests /\ f \in request[t].frames
    BY <1>8 DEF Base, CallOK, Lock
  <2> QED
    BY <2>1, RequestIsProper
<1>4. ~short' => ~short
  BY <1>1
<1>5. CASE line = "down"
  BY <1>1, <1>2, <1>3, <1>5, PrefixMore DEF LineInv
<1>6. CASE line = "up" /\ ~short
  <2>1. PICK q \in Seq(Seq(Bytes)) : Pending(q) /\ (flushed \/ Awaited(q))
    BY <1>6 DEF LineInv
  <2> DEFINE p == Append(q, f)
  <2>2. /\ p \in Seq(Seq(Bytes)) /\ p # <<>> /\ Len(p) = Len(q) + 1 /\ Len(q) \in Nat
        /\ \A i \in 1..Len(q) : p[i] = q[i]
        /\ p[Len(q) + 1] = f
    BY <1>3, <2>1, AppendProperties
  <2>3. Stream' = Stream \o f
    <3>1. owner \notin Threads
      BY <1>1, StreamAssumption DEF StreamAssumption
    <3>2. Rest = <<>>
      BY <3>1 DEF Rest
    <3>3. Stream = heard \o toRobot
      BY <3>2, StreamTyped, ConcatEmptySeq DEF Stream
    <3>4. owner' = t /\ pc'[t] = "write" /\ moved'[t] = 0 /\ frame'[t] = f
      BY <1>8, <1>1, <1>2
    <3>5. Rest' = SubSeq(f, 0 + 1, Len(f))
      BY <3>4 DEF Rest
    <3>6. Rest' = f
      BY <1>3, <3>5, SubSeqFull
    <3> QED
      BY <1>1, <3>3, <3>6 DEF Stream
  <2>5. Pending(p)'
    <3>1. Made(Stream', p)
      BY <1>3, <2>1, <2>3, StreamTyped, MadeMore DEF Pending
    <3>2. \A k \in 1..Len(p) : Whole(p[k])
      <4>1. \A k \in 1..Len(p) : k \in 1..Len(q) \/ k = Len(q) + 1
        BY <2>2
      <4> QED
        BY <1>3, <2>1, <2>2, <4>1 DEF Pending
    <3>3. Len(heard') < Len(p[1])
      <4>1. CASE q = <<>>
        <5>1. Stream = <<>> /\ Len(q) = 0
          BY <2>1, <4>1, StreamTyped, MadeEmpty DEF Pending
        <5>2. Len(heard) = 0
          BY <5>1, StreamTyped
        <5>3. p[1] = f
          BY <2>2, <5>1
        <5> QED
          BY <1>1, <1>3, <5>2, <5>3
      <4>2. CASE q # <<>>
        <5>1. 1 \in 1..Len(q)
          BY <2>1, <2>2, <4>2, EmptySeq
        <5>2. Len(heard) < Len(q[1])
          BY <2>1, <4>2 DEF Pending
        <5> QED
          BY <1>1, <2>2, <5>1, <5>2
      <4> QED
        BY <4>1, <4>2
    <3>4. /\ Len(asked') = Len(asked) + 1 /\ Len(asked) \in Nat /\ Len(obeyed) \in Nat
          /\ \A i \in 1..Len(asked) : asked'[i] = asked[i]
          /\ asked'[Len(asked) + 1] = request[t].asks
      BY <1>1, <1>2, <1>3, AppendProperties
    <3>5. Len(asked) = Len(obeyed) + Len(q)
      BY <2>1 DEF Pending
    <3>6. Len(asked') = Len(obeyed') + Len(p)
      BY <1>1, <2>2, <3>4, <3>5
    <3>7. \A i \in 1..Len(obeyed') : asked'[i] = obeyed'[i]
      <4>1. \A i \in 1..Len(obeyed) : i \in 1..Len(asked)
        BY <2>2, <3>4, <3>5
      <4>2. \A i \in 1..Len(obeyed) : asked[i] = obeyed[i]
        BY <2>1 DEF Pending
      <4> QED
        BY <1>1, <3>4, <4>1, <4>2
    <3>8. ASSUME NEW k \in 1..Len(p)
          PROVE  asked'[Len(obeyed') + k] = Meaning(p[k])
      <4>1. CASE k \in 1..Len(q)
        <5>1. Len(obeyed) + k \in 1..Len(asked)
          BY <2>2, <3>4, <3>5, <4>1
        <5>2. asked[Len(obeyed) + k] = Meaning(q[k])
          BY <2>1, <4>1 DEF Pending
        <5> QED
          BY <1>1, <2>2, <3>4, <4>1, <5>1, <5>2
      <4>2. CASE k = Len(q) + 1
        <5>1. Len(obeyed) + k = Len(asked) + 1
          BY <2>2, <3>4, <3>5, <4>2
        <5> QED
          BY <1>1, <1>3, <2>2, <3>4, <4>2, <5>1
      <4>3. k \in 1..Len(q) \/ k = Len(q) + 1
        BY <2>2
      <4> QED
        BY <4>1, <4>2, <4>3
    <3> QED
      BY <3>1, <3>2, <3>3, <3>6, <3>7, <3>8 DEF Pending
  <2>6. ASSUME Awaited(q)
        PROVE  Awaited(p)'
    <3>1. air' = <<>> /\ input' = <<>>
      BY <1>1, <2>6 DEF Awaited
    <3>2. \A k \in 1..Len(p) : k < Len(p) \/ owner' = "free" => ReplySize(p[k]) = 0
      <4>1. owner' # "free"
        BY <1>1, StreamAssumption DEF StreamAssumption
      <4>2. \A k \in 1..Len(p) : k < Len(p) => k \in 1..Len(q)
        BY <2>2
      <4>3. \A k \in 1..Len(q) : ReplySize(q[k]) = 0
        BY <1>1, <2>6 DEF Awaited
      <4> QED
        BY <2>2, <4>1, <4>2, <4>3
    <3>3. ReadOK(p, t)'
      <4>1. pc'[t] = "write" /\ frame'[t] = f
        BY <1>8, <1>1, <1>2
      <4> QED
        BY <2>2, <4>1 DEF ReadOK
    <3>4. Base'
      BY LockBase
    <3>5. \A u \in Threads : ReadOK(p, u)'
      <4>1. ASSUME NEW u \in Threads, u # t
            PROVE  pc'[u] \notin {"write", "read", "script"}
        BY <1>1, <3>4, <4>1 DEF Base, CallOK
      <4>2. ASSUME NEW u \in Threads, u # t
            PROVE  ReadOK(p, u)'
        BY <4>1, <4>2 DEF ReadOK
      <4> QED
        BY <3>3, <4>2
    <3> QED
      BY <3>1, <3>2, <3>5 DEF Awaited
  <2>7. flushed' \/ Awaited(p)'
    BY <1>1, <2>1, <2>6
  <2>8. line' # "down"
    BY <1>1, <1>6
  <2> QED
    BY <2>2, <2>5, <2>7, <2>8 DEF LineInv
<1> QED
  BY <1>2, <1>4, <1>5, <1>6 DEF LineInv

\* Writing moves bytes from the frame to the cable: the stream stays the same.
LEMMA WriteLine ==
  ASSUME Base, LineInv, NEW t \in Threads, WriteSome(t)
  PROVE  LineInv'
<1>1. /\ pc[t] = "write" /\ line = "up" /\ owner = t
      /\ UNCHANGED <<line, input, heard, script, air, obeyed, answered, asked, short, flushed>>
  BY DEF WriteSome, robotVars, Base, CallOK
<1>2. /\ line \in {"up", "down"} /\ flushed \in BOOLEAN
      /\ pc \in [Threads -> {"idle", "lock", "write", "read", "script"}]
      /\ moved \in [Threads -> Nat] /\ frame \in [Threads -> Seq(Bytes)]
      /\ buffer \in [Threads -> Seq(Bytes)]
  BY DEF Base, Types, TypeOK
<1>3. PICK f \in Seq(Bytes), m \in Nat : f = frame[t] /\ m = moved[t]
  BY <1>2
<1>4. m < Len(f) /\ Len(f) \in Nat /\ Len(f) # 0 /\ f # <<>>
  <2>1. m < Len(f)
    BY <1>1, <1>3 DEF Base, CallOK
  <2> QED
    BY <2>1, EmptySeq
<1>5. PICK n \in 1..(Len(f) - m) :
        /\ toRobot' = toRobot \o SubSeq(f, m + 1, m + n)
        /\ IF m + n = Len(f) THEN Written(t)
           ELSE /\ moved' = [moved EXCEPT ![t] = @ + n]
                /\ UNCHANGED <<owner, pc, request, frame, numzeroes, wanted, buffer>>
  BY <1>3 DEF WriteSome
<1> DEFINE sent == SubSeq(f, m + 1, m + n)  left == SubSeq(f, m + n + 1, Len(f))
<1>6. Rest = sent \o left /\ sent \in Seq(Bytes) /\ left \in Seq(Bytes)
      /\ (m + n = Len(f) => left = <<>>)
  <2>1. m + 1 \in 1..Len(f) + 1 /\ m + n \in m + 1 - 1..Len(f) /\ Len(f) \in m + n..Len(f)
    BY <1>4
  <2>2. sent \o left = SubSeq(f, m + 1, Len(f))
    BY <2>1, ConcatAdjacentSubSeq
  <2>3. Rest = SubSeq(f, m + 1, Len(f))
    BY <1>1, <1>3 DEF Rest
  <2>4. left \in Seq(Bytes) /\ (m + n = Len(f) => left = <<>>)
    <3>1. m + n \in 0..Len(f)
      BY <1>4
    <3> DEFINE k == m + n
    <3>2. k \in 0..Len(f)
      BY <3>1
    <3>3. <<>> \in Seq(Bytes)
      OBVIOUS
    <3> HIDE DEF k
    <3>4. SubSeq(f, k + 1, Len(f)) \in Seq(Bytes) /\ Len(SubSeq(f, k + 1, Len(f))) = Len(f) - k
      BY <3>2, <3>3, MoveOver
    <3>5. k = Len(f) => SubSeq(f, k + 1, Len(f)) = <<>>
      BY <1>4, <3>4, EmptySeq
    <3> QED
      BY <3>4, <3>5 DEF k
  <2>5. sent \in Seq(Bytes)
    <3> DEFINE i == m + 1  j == m + n
    <3>1. i \in Int /\ j \in Int /\ \A k \in i..j : k \in 1..Len(f)
      BY <1>4
    <3>2. \A k \in i..j : f[k] \in Bytes
      BY <3>1, ElementOfSeq
    <3> HIDE DEF i, j
    <3>3. SubSeq(f, i, j) \in Seq(Bytes)
      BY <3>1, <3>2, SubSeqProperties
    <3> QED
      BY <3>3 DEF i, j
  <2> QED
    BY <2>2, <2>3, <2>4, <2>5
<1>7. (heard \o (toRobot \o sent)) \o left = Stream
  <2>1. heard \in Seq(Bytes) /\ toRobot \in Seq(Bytes)
    BY StreamTyped
  <2>2. PICK h \in Seq(Bytes), r \in Seq(Bytes) : h = heard /\ r = toRobot
    BY <2>1
  <2>3. PICK s \in Seq(Bytes), l \in Seq(Bytes) : s = sent /\ l = left
    BY <1>6
  <2>4. Cat(Cat(h, Cat(r, s)), l) = Cat(Cat(h, r), Cat(s, l))
    BY Regroup
  <2>5. (h \o (r \o s)) \o l = (h \o r) \o (s \o l)
    BY <2>4, Zenon DEF Cat
  <2> QED
    BY <1>6, <2>2, <2>3, <2>5 DEF Stream
<1> HIDE DEF sent, left
<1>8. toRobot' = toRobot \o sent
  BY <1>5 DEF sent
<1>9. CASE m + n # Len(f)
  <2>1. /\ moved' = [moved EXCEPT ![t] = @ + n]
        /\ UNCHANGED <<owner, pc, request, frame, numzeroes, wanted, buffer>>
    BY <1>5, <1>9
  <2>2. Rest' = left
    <3>1. moved'[t] = m + n
      BY <1>2, <1>3, <2>1
    <3> QED
      BY <1>1, <1>3, <2>1, <3>1 DEF Rest, left
  <2>3. Stream' = Stream
    BY <1>1, <1>7, <1>8, <2>2 DEF Stream
  <2>4. ASSUME NEW q \in Seq(Seq(Bytes)), Awaited(q)
        PROVE  Awaited(q)'
    BY <1>1, <2>1, <2>4 DEF Awaited, ReadOK
  <2> QED
    BY <1>1, <1>2, <2>3, <2>4, LineKept
<1>10. CASE m + n = Len(f)
  <2>1. Written(t)
    BY <1>5, <1>10
  <2>2. pc'[t] # "write" /\ (owner' = t \/ owner' = "free")
    BY <1>1, <1>2, <2>1 DEF Written, Return, StartRead
  <2>3. Stream' = Stream
    <3>1. Rest' = left
      BY <1>6, <1>10, <2>2, StreamAssumption DEF Rest, StreamAssumption
    <3> QED
      BY <1>1, <1>7, <1>8, <3>1 DEF Stream
  <2>4. request[t].size = ReplySize(f)
    BY <1>1, <1>3, RequestIsProper DEF Base, CallOK
  <2>5. Base'
    BY WriteBase
  <2>6. ASSUME NEW q \in Seq(Seq(Bytes)), Awaited(q)
        PROVE  Awaited(q)'
    <3>1. /\ q # <<>> /\ q[Len(q)] = f /\ air = <<>> /\ input = <<>>
          /\ \A k \in 1..Len(q) : k < Len(q) => ReplySize(q[k]) = 0
      BY <1>1, <1>3, <2>6 DEF Awaited, ReadOK
    <3>2. CASE Return(t) /\ request[t].size = 0
      <4>1. owner' = "free"
        BY <3>2 DEF Return
      <4>2. \A u \in Threads : ReadOK(q, u)'
        BY <2>5, <4>1, StreamAssumption DEF Base, CallOK, ReadOK, StreamAssumption
      <4>3. \A k \in 1..Len(q) : ReplySize(q[k]) = 0
        <5>1. \A k \in 1..Len(q) : k < Len(q) \/ k = Len(q)
          OBVIOUS
        <5> QED
          BY <2>4, <3>1, <3>2, <5>1
      <4> QED
        BY <1>1, <3>1, <4>2, <4>3 DEF Awaited
    <3>3. CASE StartRead(t, "read", request[t].size)
      <4>1. owner' = t /\ pc'[t] = "read" /\ buffer'[t] = <<>> /\ frame'[t] = f
        BY <1>1, <1>2, <1>3, <3>3 DEF StartRead
      <4>2. ReadOK(q, t)'
        BY <3>1, <4>1 DEF ReadOK
      <4>3. \A u \in Threads : ReadOK(q, u)'
        BY <2>5, <4>1, <4>2 DEF Base, CallOK, ReadOK
      <4>4. owner' # "free"
        BY <4>1, StreamAssumption DEF StreamAssumption
      <4> QED
        BY <1>1, <3>1, <4>1, <4>3, <4>4 DEF Awaited
    <3> QED
      BY <2>1, <3>2, <3>3 DEF Written
  <2> QED
    BY <1>1, <1>2, <2>3, <2>6, LineKept
<1> QED
  BY <1>9, <1>10

----------------------------------------------------------------------------
(* The line is kept by cread.                                              *)

\* Reading takes bytes of the answer to the call's own query, and when the call
\* ends nothing of it is left.
LEMMA ReadLine ==
  ASSUME Base, LineInv, NEW t \in Threads, ReadSome(t)
  PROVE  LineInv'
<1>1. /\ owner = t /\ pc[t] \in {"read", "script"}
      /\ UNCHANGED <<line, toRobot, heard, script, air, obeyed, answered, asked, short>>
  BY ReadParts DEF robotVars
<1>2. /\ line \in {"up", "down"} /\ flushed \in BOOLEAN /\ flushed' \in BOOLEAN
      /\ pc \in [Threads -> {"idle", "lock", "write", "read", "script"}]
      /\ buffer \in [Threads -> Seq(Bytes)] /\ wanted \in [Threads -> Nat]
      /\ script \in Seq(Bytes) /\ air \in Seq(Bytes) /\ input \in Seq(Bytes)
      /\ answered \in Seq(Bytes) /\ <<>> \in Seq(Bytes)
  <2>1. Base'
    BY ReadBase
  <2>2. flushed' \in BOOLEAN
    BY <2>1 DEF Base, Types, TypeOK
  <2>3. <<>> \in Seq(Bytes)
    OBVIOUS
  <2>4. /\ line \in {"up", "down"} /\ flushed \in BOOLEAN
        /\ pc \in [Threads -> {"idle", "lock", "write", "read", "script"}]
        /\ buffer \in [Threads -> Seq(Bytes)] /\ wanted \in [Threads -> Nat]
        /\ script \in Seq(Bytes) /\ air \in Seq(Bytes) /\ input \in Seq(Bytes)
        /\ answered \in Seq(Bytes)
    BY DEF Base, Types, TypeOK
  <2> QED
    BY <2>2, <2>3, <2>4
<1>3. PICK got \in Seq(Bytes), left \in Seq(Bytes) :
        /\ got = Got(t) /\ left = Left(t) /\ got \o left = buffer[t] \o input
        /\ \/ Len(got) = wanted[t] /\ HasRead(t, got) /\ Flush(left)
           \/ /\ input' = left /\ buffer' = [buffer EXCEPT ![t] = got]
              /\ UNCHANGED <<owner, pc, request, frame, numzeroes, wanted, flushed>>
  BY ReadParts
<1>4. pc'[t] # "write" /\ (owner' = t \/ owner' = "free")
  BY <1>1, <1>2, <1>3 DEF HasRead, Return, StartRead
<1>5. Stream' = Stream
  <2>1. Rest = <<>> /\ Rest' = <<>>
    BY <1>1, <1>4, StreamAssumption DEF Rest, StreamAssumption
  <2> QED
    BY <1>1, <2>1 DEF Stream
<1>6. ~flushed' => ~flushed
  BY <1>2, <1>3 DEF Flush
<1>7. Base'
  BY ReadBase
<1>8. ASSUME NEW q \in Seq(Seq(Bytes)), Awaited(q), ~flushed'
      PROVE  Awaited(q)'
  <2>1. q = <<>> /\ Len(q) = 0
    <3>1. pc[t] = "script" => q = <<>>
      BY <1>8 DEF Awaited, ReadOK
    <3>2. pc[t] = "read" => input # <<>>
      BY <1>1, ReadParts DEF Base, CallOK
    <3>3. q # <<>> => input = <<>>
      BY <1>8 DEF Awaited
    <3> QED
      BY <1>1, <3>1, <3>2, <3>3
  <2>2. /\ pc[t] = "read" =>
             /\ (got \o left) \o air = answered
             /\ IF frame[t] = <<ShowScript>> THEN answered = <<Len(script)>> \o script
                ELSE Len(answered) = wanted[t]
        /\ pc[t] = "script" =>
             /\ wanted[t] = Len(script) /\ answered = <<Len(script)>> \o script
             /\ (got \o left) \o air = script
    BY <1>3, <1>8, <2>1 DEF Awaited, ReadOK
  <2>3. CASE /\ input' = left /\ buffer' = [buffer EXCEPT ![t] = got]
             /\ UNCHANGED <<owner, pc, request, frame, numzeroes, wanted, flushed>>
    <3>1. buffer'[t] = got
      BY <1>2, <2>3
    <3>2. ReadOK(q, t)'
      BY <1>1, <2>1, <2>2, <2>3, <3>1 DEF ReadOK
    <3>3. \A u \in Threads : u # t => pc'[u] \notin {"write", "read", "script"}
      BY <1>1, <1>7, <2>3 DEF Base, CallOK
    <3>4. \A u \in Threads : ReadOK(q, u)'
      BY <3>2, <3>3 DEF ReadOK
    <3>5. owner' = t /\ t # "free"
      BY <1>1, <2>3, StreamAssumption DEF StreamAssumption
    <3> QED
      BY <1>4, <2>1, <3>4, <3>5 DEF Awaited
  <2>4. CASE Len(got) = wanted[t] /\ HasRead(t, got) /\ Flush(left)
    <3>1. left = <<>> /\ input' = <<>>
      BY <1>8, <2>4 DEF Flush
    <3>2. got \o left = got
      BY <3>1, ConcatEmptySeq
    <3>3. CASE pc[t] = "read" /\ frame[t] = <<ShowScript>>
      <4>1. wanted[t] = 1
        <5>1. wanted[t] = request[t].size /\ request[t].size = ReplySize(frame[t])
          BY <1>1, <3>3, RequestIsProper DEF Base, CallOK
        <5> QED
          BY <3>3, <5>1 DEF ReplySize, ShowScript
      <4>2. got = <<got[1]>> /\ got[1] \in Bytes /\ got # <<>>
        <5>1. Len(got) = 1
          BY <2>4, <4>1
        <5>2. \A i \in 1..Len(got) : got[i] \in Bytes
          BY ElementOfSeq
        <5>3. got[1] \in Bytes
          BY <5>1, <5>2
        <5>4. got = <<got[1]>>
          BY <5>1
        <5>5. got # <<>>
          BY <5>1
        <5> QED
          BY <5>3, <5>4, <5>5, Zenon
      <4>3. PICK b \in Bytes : b = got[1]
        BY <4>2
      <4>4. StartRead(t, "script", b)
        BY <2>4, <3>3, <4>2, <4>3 DEF HasRead
      <4>5. <<b>> \o air = <<Len(script)>> \o script
        BY <2>2, <3>2, <3>3, <4>2, <4>3
      <4>6. <<b>> \in Seq(Bytes) /\ <<Len(script)>> \in Seq(Bytes)
        BY DEF Base, ScriptOK
      <4>7. b = Len(script)
        <5>1. 1 \in 1..Len(<<b>>) + Len(air) /\ 1 \in 1..Len(<<Len(script)>>) + Len(script)
          BY <1>2
        <5>2. (<<b>> \o air)[1] = b
          BY <1>2, <4>6, <5>1, ConcatProperties
        <5>3. (<<Len(script)>> \o script)[1] = Len(script)
          BY <1>2, <4>6, <5>1, ConcatProperties
        <5> QED
          BY <4>5, <5>2, <5>3
      <4>8. air = script
        <5>1. \A S : \A x, y, z \in Seq(S) : x \o y = x \o z => y = z
          BY ConcatSimplifications, Zenon
        <5>2. <<b>> \o air = <<b>> \o script
          BY <4>5, <4>7
        <5> QED
          BY <1>2, <4>6, <5>1, <5>2
      <4>9. (<<>> \o <<>>) \o air = air
        BY <1>2, ConcatEmptySeq
      <4>10. /\ owner' = t /\ pc'[t] = "script" /\ wanted'[t] = b /\ buffer'[t] = <<>>
        BY <1>1, <1>2, <4>4 DEF StartRead
      <4>11. ReadOK(q, t)'
        BY <1>1, <2>1, <2>2, <3>1, <3>3, <4>7, <4>8, <4>9, <4>10 DEF ReadOK
      <4>12. \A u \in Threads : u # t => pc'[u] \notin {"write", "read", "script"}
        BY <1>7, <4>10 DEF Base, CallOK
      <4>13. \A u \in Threads : ReadOK(q, u)'
        BY <4>11, <4>12 DEF ReadOK
      <4>14. owner' # "free"
        BY <4>10, StreamAssumption DEF StreamAssumption
      <4> QED
        BY <2>1, <4>10, <4>13, <4>14 DEF Awaited
    <3>4. CASE Return(t) /\ ~(pc[t] = "read" /\ frame[t] = <<ShowScript>>)
      <4>1. PICK all \in Seq(Bytes) : got \o air = all /\ Len(all) = wanted[t]
        BY <1>1, <1>2, <2>2, <3>2, <3>4
      <4>2. air = <<>>
        <5>1. Len(all) = Len(got) + Len(air)
          BY <1>2, <4>1, ConcatProperties
        <5>2. Len(air) = 0
          BY <1>2, <2>4, <4>1, <5>1
        <5> QED
          BY <1>2, <5>2, EmptySeq
      <4>3. owner' = "free"
        BY <3>4 DEF Return
      <4>4. \A u \in Threads : pc'[u] \notin {"write", "read", "script"}
        BY <1>7, <4>3, StreamAssumption DEF Base, CallOK, StreamAssumption
      <4>5. \A u \in Threads : ReadOK(q, u)'
        BY <4>4 DEF ReadOK
      <4> QED
        BY <1>1, <2>1, <3>1, <4>2, <4>5 DEF Awaited
    <3> QED
      BY <2>4, <3>3, <3>4 DEF HasRead
  <2> QED
    BY <1>3, <2>3, <2>4
<1> QED
  BY <1>1, <1>2, <1>5, <1>6, <1>8, LineKept

----------------------------------------------------------------------------
(* What a byte the robot hears does to the frames under way.               *)

\* A byte that is heard moves from the cable to the command.
LEMMA HeadMoves ==
  ASSUME NEW h \in Seq(Bytes), NEW r \in Seq(Bytes), r # <<>>
  PROVE  \E c, y \in Seq(Bytes) :
           /\ c = Append(h, Head(r)) /\ y = Tail(r)
           /\ c # <<>> /\ Len(c) = Len(h) + 1 /\ Cat(c, y) = Cat(h, r)
<1>1. Head(r) \in Bytes /\ Tail(r) \in Seq(Bytes) /\ Len(r) \in Nat /\ Len(r) # 0
  BY HeadTailProperties, EmptySeq
<1>2. PICK e \in Bytes, y \in Seq(Bytes) : e = Head(r) /\ y = Tail(r)
  BY <1>1
<1>3. Append(h, e) \in Seq(Bytes) /\ Append(h, e) # <<>> /\ Len(Append(h, e)) = Len(h) + 1
  BY AppendProperties
<1>4. PICK c \in Seq(Bytes) : c = Append(h, e)
  BY <1>3
<1>5. c \o y = h \o r
  <2>1. (h \o SubSeq(r, 1, 1)) \o SubSeq(r, 1 + 1, Len(r)) = h \o r
    <3>1. 1 \in 0..Len(r)
      BY <1>1
    <3> QED
      BY <3>1, MoveOver
  <2>2. SubSeq(r, 1 + 1, Len(r)) = y
    BY <1>2, TailIsSubSeq
  <2>3. SubSeq(r, 1, 1) = <<e>>
    <3>1. \A i \in 1..1 : r[i] \in Bytes
      BY <1>1, ElementOfSeq
    <3> DEFINE x == SubSeq(r, 1, 1)
    <3>2. x \in Seq(Bytes) /\ Len(x) = 1 /\ x[1] = r[1]
      BY <3>1, SubSeqProperties
    <3> HIDE DEF x
    <3>3. x = <<x[1]>>
      BY <3>2
    <3> QED
      BY <1>2, <3>2, <3>3 DEF x
  <2>4. c = h \o <<e>>
    BY <1>4, AppendIsConcat
  <2> QED
    BY <2>1, <2>2, <2>3, <2>4
<1>6. Cat(c, y) = Cat(h, r)
  BY <1>5 DEF Cat
<1>7. c = Append(h, Head(r)) /\ c # <<>> /\ Len(c) = Len(h) + 1
  BY <1>2, <1>3, <1>4
<1> QED
  BY <1>2, <1>6, <1>7, Zenon

\* A byte of a command: the robot stands within the first pending frame, and
\* with its last byte it has the whole frame.
LEMMA HearsFirst ==
  ASSUME Base, NEW q \in Seq(Seq(Bytes)), Pending(q), toRobot # <<>>
  PROVE  \E c, b \in Seq(Bytes) :
           /\ c = Append(heard, Head(toRobot)) /\ b = Tail(toRobot) \o Rest
           /\ (c \o Tail(toRobot)) \o Rest = Stream
           /\ q # <<>> /\ q[1] \in Seq(Bytes) /\ Whole(q[1])
           /\ c[1] \in Opcodes /\ Len(c) <= Len(q[1])
           /\ Len(c) = 1 + DataBytes(c) <=> Len(c) = Len(q[1])
           /\ Len(c) = Len(q[1]) => c = q[1] /\ Made(b, Tail(q))
<1>0. heard \in Seq(Bytes) /\ toRobot \in Seq(Bytes) /\ Rest \in Seq(Bytes)
      /\ Stream = (heard \o toRobot) \o Rest /\ Stream \in Seq(Bytes)
  BY StreamTyped DEF Stream
<1>13. PICK h \in Seq(Bytes), r \in Seq(Bytes), l \in Seq(Bytes) :
        h = heard /\ r = toRobot /\ l = Rest
  BY <1>0
<1>14. PICK c \in Seq(Bytes), y \in Seq(Bytes) :
           /\ c = Append(h, Head(r)) /\ y = Tail(r)
           /\ c # <<>> /\ Len(c) = Len(h) + 1 /\ Cat(c, y) = Cat(h, r)
  BY <1>13, HeadMoves
<1>15. /\ Cat(y, l) \in Seq(Bytes)
      /\ Cat(Cat(c, y), l) = Cat(Cat(h, r), l)
      /\ Cat(c, Cat(y, l)) = Cat(Cat(h, r), l)
  <2>1. Cat(c, y) = Cat(h, r)
    BY <1>14
  <2>2. Cat(y, l) \in Seq(Bytes)
    BY CatTwo
  <2>3. Cat(Cat(c, y), l) = Cat(c, Cat(y, l))
    BY CatThree
  <2> QED
    BY <2>1, <2>2, <2>3
<1>16. PICK b \in Seq(Bytes) : b = Cat(y, l)
  BY <1>15
<1>17. Stream = Cat(Cat(h, r), l)
  BY <1>0, <1>13, Zenon DEF Cat
<1>18. c \o b = Stream /\ (c \o y) \o l = Stream /\ b = y \o l
  BY <1>15, <1>16, <1>17, Zenon DEF Cat
<1>1. heard \in Seq(Bytes) /\ toRobot \in Seq(Bytes) /\ Rest \in Seq(Bytes)
      /\ Stream \in Seq(Bytes)
  BY <1>0
<1>2. c # <<>> /\ Len(c) = Len(heard) + 1 /\ c \o b = Stream
  BY <1>13, <1>14, <1>18
<1>3. q # <<>>
  <2>1. SUFFICES ASSUME q = <<>>
                 PROVE  FALSE
    OBVIOUS
  <2>2. Stream = <<>>
    BY <1>1, <2>1, MadeEmpty DEF Pending
  <2> QED
    BY <1>2, <2>2, ConcatEqualIffEmpty
<1>4. Len(q) \in Nat /\ Len(q) # 0 /\ 1 \in 1..Len(q)
  BY <1>3, EmptySeq
<1>5. q[1] \in Seq(Bytes) /\ Whole(q[1])
  BY <1>4, ElementOfSeq DEF Pending
<1>6. PICK f \in Seq(Bytes) : f = q[1]
  BY <1>5
<1>7. Len(f) <= Len(Stream) /\ f = SubSeq(Stream, 1, Len(f))
      /\ Made(SubSeq(Stream, Len(f) + 1, Len(Stream)), Tail(q))
  BY <1>1, <1>3, <1>6, MadeFirst DEF Pending
<1>8. Len(c) <= Len(f) /\ Len(c) \in Nat /\ Len(f) \in Nat /\ Len(c) # 0
  <2>1. Len(heard) < Len(f) /\ Len(heard) \in Nat /\ Len(f) \in Nat
    BY <1>1, <1>3, <1>6 DEF Pending
  <2> QED
    BY <1>2, <2>1
<1>9. c = SubSeq(f, 1, Len(c))
      /\ (Len(f) = Len(c) => c = f /\ b = SubSeq(Stream, Len(f) + 1, Len(Stream)))
  <2>1. PICK n \in Nat, s \in Seq(Bytes) : n = Len(f) /\ s = Stream
    BY <1>1, <1>8
  <2>2. Len(c) <= n /\ n <= Len(c \o b) /\ c \o b = s
    BY <1>2, <1>7, <1>8, <2>1
  <2>3. /\ c = SubSeq(SubSeq(c \o b, 1, n), 1, Len(c))
        /\ n = Len(c) => c = SubSeq(c \o b, 1, n) /\ b = SubSeq(c \o b, n + 1, Len(c \o b))
    <3>1. PICK x \in Seq(Bytes), z \in Seq(Bytes) : x = c /\ z = b
      BY <1>2
    <3>2. x # <<>> /\ Len(x) <= n /\ n <= Len(x \o z)
      BY <1>2, <2>2, <3>1
    <3>3. /\ x = SubSeq(SubSeq(x \o z, 1, n), 1, Len(x))
          /\ n = Len(x) => x = SubSeq(x \o z, 1, n) /\ z = SubSeq(x \o z, n + 1, Len(x \o z))
      BY <3>2, Begins
    <3> QED
      BY <3>1, <3>3
  <2>4. f = SubSeq(s, 1, n)
    BY <1>7, <2>1
  <2> QED
    BY <2>1, <2>2, <2>3, <2>4
<1>10. /\ c[1] \in Opcodes
       /\ Len(c) = 1 + DataBytes(c) <=> Len(c) = Len(f)
  <2>1. Len(c) \in 1..Len(f)
    BY <1>8
  <2>2. /\ SubSeq(f, 1, Len(c))[1] \in Opcodes
        /\ Len(c) = 1 + DataBytes(SubSeq(f, 1, Len(c))) <=> Len(c) = Len(f)
    BY <1>5, <1>6, <2>1, WholeEnds
  <2> QED
    BY <1>9, <2>2
<1>11. /\ c = Append(heard, Head(toRobot)) /\ b = Tail(toRobot) \o Rest
       /\ (c \o Tail(toRobot)) \o Rest = Stream
  BY <1>13, <1>14, <1>18, Zenon
<1>12. /\ q # <<>> /\ q[1] \in Seq(Bytes) /\ Whole(q[1])
       /\ c[1] \in Opcodes /\ Len(c) <= Len(q[1])
       /\ Len(c) = 1 + DataBytes(c) <=> Len(c) = Len(q[1])
       /\ Len(c) = Len(q[1]) => c = q[1] /\ Made(b, Tail(q))
  BY <1>3, <1>5, <1>6, <1>7, <1>8, <1>9, <1>10
<1> QED
  BY <1>11, <1>12, Zenon

\* The rest of the pending frames is pending when the first is obeyed.
LEMMA PendingTail ==
  ASSUME Base, NEW q \in Seq(Seq(Bytes)), Pending(q), q # <<>>,
         Made(Stream', Tail(q)), heard' = <<>>, asked' = asked,
         obeyed' = Append(obeyed, Meaning(q[1])), Meaning(q[1]) \in Said
  PROVE  Pending(Tail(q))'
<1>1. PICK p \in Seq(Seq(Bytes)) :
        /\ p = Tail(q) /\ Len(p) = Len(q) - 1
        /\ \A i \in 1..Len(p) : p[i] = q[i + 1]
  BY HeadTailProperties
<1>2. Len(q) \in Nat /\ Len(q) # 0 /\ Len(p) \in Nat /\ Len(obeyed) \in Nat
  BY EmptySeq DEF Base, Types
<1>3. \A k \in 1..Len(p) : k + 1 \in 1..Len(q)
  BY <1>1, <1>2
<1>4. \A k \in 1..Len(p) : Whole(p[k])
  BY <1>1, <1>3 DEF Pending
<1>5. p # <<>> => Len(heard') < Len(p[1])
  <2>1. SUFFICES ASSUME p # <<>>
                 PROVE  Len(heard') < Len(p[1])
    OBVIOUS
  <2>2. 1 \in 1..Len(p)
    BY <1>2, <2>1, EmptySeq
  <2>3. Whole(p[1])
    BY <1>4, <2>2
  <2>4. p[1] \in Seq(Bytes) /\ p[1] # <<>>
    BY <2>3 DEF Whole
  <2>5. Len(p[1]) \in Nat /\ Len(p[1]) # 0
    BY <2>4, EmptySeq
  <2> QED
    BY <2>5
<1>6. /\ Len(obeyed') = Len(obeyed) + 1
      /\ \A i \in 1..Len(obeyed) : obeyed'[i] = obeyed[i]
      /\ obeyed'[Len(obeyed) + 1] = Meaning(q[1])
  BY AppendProperties DEF Base, Types
<1>7. Len(asked') = Len(obeyed') + Len(p)
  <2>1. Len(asked) = Len(obeyed) + Len(q)
    BY DEF Pending
  <2> QED
    BY <1>1, <1>2, <1>6, <2>1
<1>8. ASSUME NEW i \in 1..Len(obeyed')
      PROVE  asked'[i] = obeyed'[i]
  <2>1. i \in 1..Len(obeyed) \/ i = Len(obeyed) + 1
    BY <1>2, <1>6
  <2>2. 1 \in 1..Len(q)
    BY <1>2
  <2>3. asked[Len(obeyed) + 1] = Meaning(q[1])
    BY <2>2 DEF Pending
  <2> QED
    BY <1>6, <2>1, <2>3 DEF Pending
<1>9. ASSUME NEW k \in 1..Len(p)
      PROVE  asked'[Len(obeyed') + k] = Meaning(p[k])
  <2>1. Len(obeyed') + k = Len(obeyed) + (k + 1)
    BY <1>2, <1>6
  <2>2. asked[Len(obeyed) + (k + 1)] = Meaning(q[k + 1])
    BY <1>3 DEF Pending
  <2> QED
    BY <1>1, <2>1, <2>2
<1> QED
  BY <1>1, <1>4, <1>5, <1>7, <1>8, <1>9 DEF Pending

----------------------------------------------------------------------------
(* The line is kept by the robot.                                          *)

\* The robot has a whole frame.  If it answers, this was the last one, its call
\* is reading and finds the answer, all of it, on its way.
LEMMA ObeyAnswers ==
  ASSUME Base, NEW q \in Seq(Seq(Bytes)), Pending(q), Awaited(q),
         NEW c \in Seq(Bytes), Whole(c), q # <<>>, c = q[1],
         Rest # <<>> => Tail(q) # <<>>,
         NEW v \in Sensed, NEW w \in Sensed,
         air' = air \o Reply(c, v, w),
         answered' = IF Reply(c, v, w) = <<>> THEN answered ELSE Reply(c, v, w),
         c[1] = ShowScript => script' = script,
         UNCHANGED <<owner, pc, request, frame, moved, wanted, buffer, input>>
  PROVE  Awaited(Tail(q))'
<1>1. PICK p \in Seq(Seq(Bytes)) :
        /\ p = Tail(q) /\ Len(p) = Len(q) - 1
        /\ \A i \in 1..Len(p) : p[i] = q[i + 1]
  BY HeadTailProperties
<1>2. Len(q) \in Nat /\ Len(q) # 0 /\ Len(p) \in Nat
  BY EmptySeq
<1>3. air = <<>> /\ input = <<>> /\ \A t \in Threads : ReadOK(q, t)
  BY DEF Awaited
<1>4. \A t \in Threads : pc[t] # "script"
  BY <1>3 DEF ReadOK
<1>5. PICK reply \in Seq(Bytes) : reply = Reply(c, v, w)
  <2>1. script \in Seq(Bytes) /\ ScriptOK
    BY DEF Base, Types, TypeOK
  <2> QED
    BY <2>1, ReplyTyped
<1>6. /\ ReplySize(c) = 0 <=> reply = <<>>
      /\ c[1] = ShowScript => c = <<ShowScript>> /\ reply = <<Len(script)>> \o script
      /\ c[1] # ShowScript => Len(reply) = ReplySize(c)
  BY <1>5, ReplyFits
<1>7. air' = reply
  <2>1. <<>> \o reply = reply
    BY ConcatEmptySeq
  <2> QED
    BY <1>3, <1>5, <2>1
<1>8. \A i \in 1..Len(p) : i + 1 \in 1..Len(q) /\ (i < Len(p) <=> i + 1 < Len(q))
  <2>1. PICK m \in Nat, n \in Nat : m = Len(p) /\ n = Len(q)
    BY <1>2
  <2>2. m = n - 1
    BY <1>1, <2>1
  <2>3. \A i \in 1..m : i + 1 \in 1..n /\ (i < m <=> i + 1 < n)
    BY <2>2
  <2> QED
    BY <2>1, <2>3
<1>9. \A k \in 1..Len(p) : k < Len(p) \/ owner' = "free" => ReplySize(p[k]) = 0
  BY <1>1, <1>8 DEF Awaited
<1>10. p # <<>> => p[Len(p)] = q[Len(q)]
  <2>1. p # <<>> => Len(p) # 0
    BY EmptySeq
  <2>2. p # <<>> => Len(p) \in 1..Len(p) /\ Len(p) + 1 = Len(q)
    BY <1>1, <1>2, <2>1
  <2> QED
    BY <1>1, <2>2
<1>11. p = <<>> => Len(q) = 1 /\ q[Len(q)] = c
  <2>1. p = <<>> => Len(p) = 0
    OBVIOUS
  <2>2. p = <<>> => Len(q) = 1
    BY <1>1, <1>2, <2>1
  <2> QED
    BY <2>2
<1>12. ASSUME NEW t \in Threads, pc[t] = "write"
       PROVE  p # <<>> /\ p[Len(p)] = frame[t]
  <2>1. owner = t /\ moved[t] < Len(frame[t]) /\ moved[t] \in Nat /\ frame[t] \in Seq(Bytes)
    BY <1>12 DEF Base, Types, TypeOK, CallOK
  <2>2. Rest # <<>>
    <3>1. PICK f \in Seq(Bytes), m \in Nat : f = frame[t] /\ m = moved[t] /\ m < Len(f)
      BY <2>1
    <3>2. <<>> \in Seq(Bytes) /\ m \in 0..Len(f)
      BY <3>1
    <3>3. Len(SubSeq(f, m + 1, Len(f))) = Len(f) - m
      BY <3>2, MoveOver
    <3>4. Rest = SubSeq(f, m + 1, Len(f))
      BY <1>12, <2>1, <3>1 DEF Rest
    <3>5. Len(Rest) # 0
      BY <3>1, <3>3, <3>4
    <3> QED
      BY <3>5
  <2> QED
    BY <1>1, <1>3, <1>10, <1>12, <2>2 DEF ReadOK
<1>13. CASE reply = <<>>
  <2>1. air' = <<>> /\ input' = <<>> /\ answered' = answered
    BY <1>3, <1>5, <1>7, <1>13
  <2>2. ASSUME NEW t \in Threads
        PROVE  ReadOK(p, t)'
    <3>1. CASE pc[t] = "write"
      BY <1>12, <3>1 DEF ReadOK
    <3>2. CASE pc[t] = "read"
      <4>1. q[Len(q)] = frame[t] /\ buffer[t] = <<>>
        BY <1>3, <3>2 DEF ReadOK
      <4>2. ReplySize(frame[t]) # 0
        <5>1. ProperRequests /\ request[t] \in Requests /\ frame[t] \in request[t].frames
              /\ wanted[t] = request[t].size /\ wanted[t] > 0
          BY <3>2 DEF Base, CallOK
        <5>2. request[t].size = ReplySize(frame[t])
          BY <5>1, RequestIsProper
        <5> QED
          BY <5>1, <5>2
      <4>3. p # <<>>
        BY <1>6, <1>11, <1>13, <4>1, <4>2
      <4> QED
        BY <1>10, <3>2, <4>1, <4>3 DEF ReadOK
    <3>3. CASE pc[t] \notin {"write", "read", "script"}
      BY <3>3 DEF ReadOK
    <3> QED
      BY <1>4, <3>1, <3>2, <3>3
  <2>3. Awaited(p)'
    BY <1>9, <2>1, <2>2 DEF Awaited
  <2> QED
    BY <1>1, <2>3
<1>14. CASE reply # <<>>
  <2>1. 1 \in 1..Len(q) /\ ReplySize(q[1]) # 0
    BY <1>2, <1>6, <1>14
  <2>2. ~(1 < Len(q)) /\ owner # "free"
    BY <2>1 DEF Awaited
  <2>3. p = <<>> /\ Len(p) = 0
    BY <1>1, <1>2, <2>2, EmptySeq
  <2>4. owner \in Threads /\ pc[owner] = "read"
    <3>1. owner \in Threads
      BY <2>2 DEF Base, Types, TypeOK
    <3>2. pc[owner] \in {"write", "read", "script"}
      BY <3>1 DEF Base, CallOK
    <3> QED
      BY <1>4, <1>12, <2>3, <3>1, <3>2
  <2>5. PICK t \in Threads : t = owner /\ pc[t] = "read"
    BY <2>4
  <2>6. frame[t] = c /\ buffer[t] = <<>> /\ wanted[t] = ReplySize(c)
    <3>1. q[Len(q)] = frame[t] /\ buffer[t] = <<>>
      BY <1>3, <2>5 DEF ReadOK
    <3>2. wanted[t] = ReplySize(frame[t])
      BY <2>5, RequestIsProper DEF Base, CallOK
    <3> QED
      BY <1>11, <2>3, <3>1, <3>2
  <2>7. (<<>> \o <<>>) \o reply = reply
    BY ConcatEmptySeq
  <2>8. answered' = reply
    BY <1>5, <1>14
  <2>9. IF c = <<ShowScript>> THEN answered' = <<Len(script')>> \o script'
        ELSE Len(answered') = wanted'[t]
    <3>1. CASE c[1] = ShowScript
      BY <1>6, <2>8, <3>1
    <3>2. CASE c[1] # ShowScript
      <4>1. c # <<ShowScript>>
        BY <3>2
      <4>2. Len(answered') = wanted'[t]
        BY <1>6, <2>6, <2>8, <3>2
      <4> QED
        BY <4>1, <4>2
    <3> QED
      BY <3>1, <3>2
  <2>10. ReadOK(p, t)'
    BY <1>3, <1>7, <2>3, <2>5, <2>6, <2>7, <2>8, <2>9 DEF ReadOK
  <2>11. \A u \in Threads : u # t => pc[u] \notin {"write", "read", "script"}
    BY <2>5 DEF Base, CallOK
  <2>12. \A u \in Threads : ReadOK(p, u)'
    BY <2>10, <2>11 DEF ReadOK
  <2>13. Awaited(p)'
    BY <2>2, <2>3, <2>4, <2>12 DEF Awaited
  <2> QED
    BY <1>1, <2>13
<1> QED
  BY <1>13, <1>14

\* The robot takes from the stream the commands of the calls, one by one.
LEMMA HearLine ==
  ASSUME Base, LineInv, Hear
  PROVE  LineInv'
<1>1. /\ toRobot # <<>> /\ line = "up" /\ toRobot' = Tail(toRobot)
      /\ UNCHANGED <<owner, pc, request, frame, moved, wanted, buffer, line, input, asked, short, flushed>>
  BY DEF Hear, threadVars
<1>2. CASE short
  BY <1>1, <1>2 DEF LineInv
<1>3. CASE ~short
  <2>1. PICK q \in Seq(Seq(Bytes)) : Pending(q) /\ (flushed \/ Awaited(q))
    BY <1>1, <1>3 DEF LineInv
  <2>2. PICK c \in Seq(Bytes), b \in Seq(Bytes) :
           /\ c = Append(heard, Head(toRobot)) /\ b = Tail(toRobot) \o Rest
           /\ (c \o Tail(toRobot)) \o Rest = Stream
           /\ q # <<>> /\ q[1] \in Seq(Bytes) /\ Whole(q[1])
           /\ c[1] \in Opcodes /\ Len(c) <= Len(q[1])
           /\ Len(c) = 1 + DataBytes(c) <=> Len(c) = Len(q[1])
           /\ Len(c) = Len(q[1]) => c = q[1] /\ Made(b, Tail(q))
    BY <1>1, <2>1, HearsFirst
  <2>3. \/ /\ Len(c) # 1 + DataBytes(c) /\ heard' = c
           /\ UNCHANGED <<script, air, obeyed, answered>>
        \/ /\ Len(c) = 1 + DataBytes(c) /\ heard' = <<>> /\ obeyed' = Append(obeyed, Meaning(c))
           /\ script' = IF c[1] = 152 THEN SubSeq(c, 3, Len(c)) ELSE script
           /\ \E v, w \in Sensed :
                /\ air' = air \o Reply(c, v, w)
                /\ answered' = IF Reply(c, v, w) = <<>> THEN answered ELSE Reply(c, v, w)
    BY <2>2 DEF Hear
  <2>4. Rest' = Rest
    BY <1>1 DEF Rest
  <2>5. CASE Len(c) # 1 + DataBytes(c) /\ heard' = c /\ UNCHANGED <<script, air, obeyed, answered>>
    <3>1. Stream' = Stream
      BY <1>1, <2>2, <2>4, <2>5 DEF Stream
    <3>2. Len(c) < Len(q[1])
      <4>1. Len(c) # Len(q[1]) /\ Len(c) <= Len(q[1]) /\ Len(c) \in Nat /\ Len(q[1]) \in Nat
        BY <2>2, <2>5
      <4> QED
        BY <4>1
    <3>3. Pending(q)'
      BY <1>1, <2>1, <2>5, <3>1, <3>2 DEF Pending
    <3>4. flushed' \/ Awaited(q)'
      BY <1>1, <2>1, <2>5 DEF Awaited, ReadOK
    <3> QED
      BY <1>1, <3>3, <3>4 DEF LineInv
  <2>6. CASE /\ Len(c) = 1 + DataBytes(c) /\ heard' = <<>> /\ obeyed' = Append(obeyed, Meaning(c))
             /\ script' = IF c[1] = 152 THEN SubSeq(c, 3, Len(c)) ELSE script
             /\ \E v, w \in Sensed :
                  /\ air' = air \o Reply(c, v, w)
                  /\ answered' = IF Reply(c, v, w) = <<>> THEN answered ELSE Reply(c, v, w)
    <3>1. c = q[1] /\ Whole(c) /\ Made(b, Tail(q))
      BY <2>2, <2>6
    <3>2. PICK p \in Seq(Seq(Bytes)) : p = Tail(q)
      BY <2>2, HeadTailProperties
    <3>3. Tail(toRobot) \in Seq(Bytes) /\ Rest \in Seq(Bytes) /\ Stream' = b
      <4>1. toRobot \in Seq(Bytes) /\ Rest \in Seq(Bytes)
        BY StreamTyped
      <4>2. Tail(toRobot) \in Seq(Bytes)
        BY <1>1, <4>1, HeadTailProperties
      <4>3. <<>> \o Tail(toRobot) = Tail(toRobot)
        BY <4>2, ConcatEmptySeq
      <4>4. Stream' = (<<>> \o Tail(toRobot)) \o Rest
        BY <1>1, <2>4, <2>6 DEF Stream
      <4> QED
        BY <2>2, <4>1, <4>2, <4>3, <4>4
    <3>4. Pending(p)'
      <4>1. Meaning(q[1]) \in Said
        BY <3>1 DEF Said
      <4>2. Pending(Tail(q))'
        BY <1>1, <2>1, <2>2, <2>6, <3>1, <3>3, <4>1, PendingTail
      <4> QED
        BY <3>2, <4>2
    <3>5. Rest # <<>> => Tail(q) # <<>>
      <4>1. SUFFICES ASSUME Rest # <<>>, Tail(q) = <<>>
                     PROVE  FALSE
        OBVIOUS
      <4>2. b = <<>>
        BY <3>1, <4>1, MadeEmpty
      <4>3. PICK x \in Seq(Bytes), y \in Seq(Bytes) : x = Tail(toRobot) /\ y = Rest
        BY <3>3
      <4>4. x \o y = <<>>
        BY <2>2, <4>2, <4>3
      <4> QED
        BY <4>1, <4>3, <4>4, ConcatEqualIffEmpty
    <3>6. ASSUME Awaited(q)
          PROVE  Awaited(Tail(q))'
      <4>1. PICK v \in Sensed, w \in Sensed :
                  /\ air' = air \o Reply(c, v, w)
                  /\ answered' = IF Reply(c, v, w) = <<>> THEN answered ELSE Reply(c, v, w)
        BY <2>6
      <4>2. c[1] = ShowScript => script' = script
        BY <2>6 DEF ShowScript
      <4> QED
        BY <1>1, <2>1, <2>2, <3>1, <3>5, <3>6, <4>1, <4>2, ObeyAnswers
    <3>7. flushed' \/ Awaited(p)'
      BY <1>1, <2>1, <3>2, <3>6
    <3> QED
      BY <1>1, <3>2, <3>4, <3>7 DEF LineInv
  <2> QED
    BY <2>3, <2>5, <2>6
<1> QED
  BY <1>2, <1>3

----------------------------------------------------------------------------
(* The theorems about the line.                                            *)

\* Every step keeps the line's invariant.
LEMMA LineStep == Base /\ LineInv /\ [Next]_vars => LineInv'
<1> SUFFICES ASSUME Base, LineInv, [Next]_vars
             PROVE  LineInv'
  OBVIOUS
<1>1. ASSUME NEW t \in Threads, Call(t) \/ ThreadStep(t)
      PROVE  LineInv'
  BY <1>1, CallLine, LockLine, WriteLine, ReadLine, NothingMoves DEF ThreadStep
<1>2. CASE Hear
  BY <1>2, HearLine
<1>3. CASE Arrive
  BY <1>3, ArriveLine
<1>4. CASE HangUp
  BY <1>4, HangUpLine
<1>5. CASE UNCHANGED vars
  <2>1. line \in {"up", "down"} /\ flushed \in BOOLEAN
    BY DEF Base, Types, TypeOK
  <2>2. UNCHANGED <<owner, pc, request, frame, moved, wanted, buffer, line, toRobot, input, heard,
                    script, air, obeyed, answered, asked, short, flushed>>
    BY <1>5 DEF vars, threadVars, robotVars
  <2>3. Stream' = Stream
    BY <2>2 DEF Stream, Rest
  <2>4. ASSUME NEW q \in Seq(Seq(Bytes)), Awaited(q)
        PROVE  Awaited(q)'
    BY <2>2, <2>4 DEF Awaited, ReadOK
  <2> QED
    BY <2>1, <2>2, <2>3, <2>4, LineKept
<1> QED
  BY <1>1, <1>2, <1>3, <1>4, <1>5 DEF Next

\* The inductive invariant.
IInv == Base /\ LineInv

\* The invariant holds from the start.
LEMMA InitInv == ProperRequests /\ Init => IInv
BY InitBase, LineInit DEF IInv

\* It is inductive.
LEMMA NextInv == IInv /\ [Next]_vars => IInv'
BY BaseStep, LineStep DEF IInv

\* If nothing is left on the cable and nobody holds the line or its holder has
\* written its frame, then no command is pending.
LEMMA QuietLine ==
  ASSUME Base, NEW q \in Seq(Seq(Bytes)), Pending(q), toRobot = <<>>, Rest = <<>>
  PROVE  q = <<>> /\ heard = <<>>
<1>1. heard \in Seq(Bytes) /\ Stream \in Seq(Bytes) /\ Stream = heard
  <2>1. heard \in Seq(Bytes) /\ Stream \in Seq(Bytes)
    BY StreamTyped
  <2>2. (heard \o <<>>) \o <<>> = heard
    BY <2>1, ConcatEmptySeq
  <2> QED
    BY <2>1, <2>2 DEF Stream
<1>2. q = <<>>
  <2>1. SUFFICES ASSUME q # <<>>
                 PROVE  FALSE
    OBVIOUS
  <2>2. Len(q[1]) <= Len(heard)
    BY <1>1, <2>1, MadeFirst DEF Pending
  <2>3. Len(heard) < Len(q[1]) /\ Len(heard) \in Nat
    BY <1>1, <2>1 DEF Pending
  <2>4. 1 \in 1..Len(q)
    BY <2>1, EmptySeq
  <2>5. Len(q[1]) \in Nat
    BY <2>4, ElementOfSeq
  <2> QED
    BY <2>2, <2>3, <2>5
<1>3. heard = <<>>
  BY <1>1, <1>2, MadeEmpty DEF Pending
<1> QED
  BY <1>2, <1>3

\* Type correctness, for every number of threads, every set of proper calls and
\* all the ways the port and the robot split the bytes.
THEOREM StreamTypeCorrect == ProperRequests /\ Spec => []TypeOK
<1>1. IInv => TypeOK
  BY DEF IInv, Base, Types
<1> QED
  BY InitInv, NextInv, <1>1, PTL DEF Spec

\* The robot obeys the calls: although cwrite may put a frame on the line in any
\* pieces and the robot tells the frames apart only by counting, it obeys, in
\* their order, exactly the commands the calls meant, and stands between two
\* commands when the line is quiet.
THEOREM CommandsObeyed == ProperRequests /\ Spec => []ObeysCalls
<1>1. ASSUME IInv
      PROVE  ObeysCalls
  <2>1. Base /\ LineInv
    BY <1>1 DEF IInv
  <2>2. SUFFICES ASSUME ~short
                 PROVE  /\ IsPrefix(obeyed, asked)
                        /\ owner = "free" /\ toRobot = <<>> /\ line = "up"
                             => obeyed = asked /\ heard = <<>>
    BY DEF ObeysCalls
  <2>3. CASE line = "down"
    BY <2>1, <2>2, <2>3 DEF LineInv
  <2>4. CASE line # "down"
    <3>1. PICK q \in Seq(Seq(Bytes)) : Pending(q)
      BY <2>1, <2>2, <2>4 DEF LineInv
    <3>2. IsPrefix(obeyed, asked)
      BY <2>1, <3>1, PendingPrefix
    <3>3. ASSUME owner = "free", toRobot = <<>>
          PROVE  obeyed = asked /\ heard = <<>>
      <4>1. Rest = <<>>
        BY <3>3, StreamAssumption DEF Rest, StreamAssumption
      <4>2. q = <<>> /\ heard = <<>>
        BY <2>1, <3>1, <3>3, <4>1, QuietLine
      <4>3. obeyed \in Seq(Said) /\ asked \in Seq(Said)
        BY <2>1 DEF Base, Types
      <4>4. Len(asked) = Len(obeyed) /\ \A i \in 1..Len(obeyed) : asked[i] = obeyed[i]
        <5>1. Len(q) = 0 /\ Len(obeyed) \in Nat
          BY <4>2, <4>3
        <5> QED
          BY <3>1, <5>1 DEF Pending
      <4> QED
        BY <4>2, <4>3, <4>4, SeqEqual
    <3> QED
      BY <3>2, <3>3
  <2> QED
    BY <2>3, <2>4
<1> QED
  BY InitInv, NextInv, <1>1, PTL DEF Spec

\* Every call reads the answer to its own query: what it has read, what waits in
\* the port and what is under way are together the robot's last answer.
THEOREM AnswersArrive == ProperRequests /\ Spec => []GetsItsAnswer
<1>1. ASSUME IInv
      PROVE  GetsItsAnswer
  <2>1. Base /\ LineInv
    BY <1>1 DEF IInv
  <2>2. SUFFICES ASSUME NEW t \in Threads, pc[t] \in {"read", "script"}, ~short, ~flushed,
                        line = "up", toRobot = <<>>
                 PROVE  LET before == IF pc[t] = "script" THEN <<Len(script)>> ELSE <<>>
                        IN before \o buffer[t] \o input \o air = answered
    BY DEF GetsItsAnswer
  <2>3. PICK q \in Seq(Seq(Bytes)) : Pending(q) /\ Awaited(q)
    BY <2>1, <2>2 DEF LineInv
  <2>4. owner = t
    BY <2>1, <2>2 DEF Base, CallOK
  <2>5. Rest = <<>>
    BY <2>2, <2>4 DEF Rest
  <2>6. q = <<>>
    BY <2>1, <2>2, <2>3, <2>5, QuietLine
  <2>7. PICK b \in Seq(Bytes), i \in Seq(Bytes), a \in Seq(Bytes), s \in Seq(Bytes) :
          b = buffer[t] /\ i = input /\ a = air /\ s = script
    BY <2>1 DEF Base, Types, TypeOK
  <2>8. CASE pc[t] = "read"
    <3>1. (b \o i) \o a = answered
      BY <2>3, <2>6, <2>7, <2>8 DEF Awaited, ReadOK
    <3>2. <<>> \o b = b
      BY ConcatEmptySeq
    <3> QED
      BY <2>7, <2>8, <3>1, <3>2
  <2>9. CASE pc[t] = "script"
    <3>1. (b \o i) \o a = s /\ answered = <<Len(s)>> \o s
      BY <2>3, <2>7, <2>9 DEF Awaited, ReadOK
    <3>2. PICK x \in Seq(Bytes) : x = <<Len(s)>>
      <4>1. Len(s) \in Bytes
        BY <2>1, <2>7 DEF Base, ScriptOK
      <4>2. <<Len(s)>> \in Seq(Bytes)
        BY <4>1
      <4> QED
        BY <4>2
    <3>3. Cat(b, i) \in Seq(Bytes) /\ Cat(Cat(x, b), i) = Cat(x, Cat(b, i))
      BY CatTwo, CatThree
    <3>4. Cat(Cat(x, Cat(b, i)), a) = Cat(x, Cat(Cat(b, i), a))
      BY <3>3, CatThree
    <3>5. Cat(Cat(b, i), a) = s /\ answered = Cat(x, s)
      BY <3>1, <3>2, Zenon DEF Cat
    <3>6. Cat(Cat(Cat(x, b), i), a) = answered
      BY <3>3, <3>4, <3>5
    <3>7. ((x \o b) \o i) \o a = answered
      BY <3>6, Zenon DEF Cat
    <3> QED
      BY <2>7, <2>9, <3>2, <3>7
  <2> QED
    BY <2>2, <2>8, <2>9
<1> QED
  BY InitInv, NextInv, <1>1, PTL DEF Spec

----------------------------------------------------------------------------
(* The two decoders of sensor packets agree.                               *)

\* Where the packets start, in closed form.
Starts(p) ==
  CASE p \in 7..19  -> p - 7
    [] p = 20       -> 14
    [] p \in 21..22 -> p - 5
    [] p = 23       -> 19
    [] p \in 24..25 -> p - 3
    [] p \in 26..32 -> 22 + 2 * (p - 25)
    [] p = 33       -> 37
    [] p \in 34..39 -> p + 5
    [] p \in 40..43 -> 44 + 2 * (p - 39)

\* The closed form obeys the recursion.
LEMMA StartsStep ==
  Starts(7) = 0 /\ \A p \in 8..43 : Starts(p) = Starts(p - 1) + Size(p - 1)
<1> SUFFICES ASSUME NEW p \in 8..43
             PROVE  Starts(7) = 0 /\ Starts(p) = Starts(p - 1) + Size(p - 1)
  OBVIOUS
<1>1. p \in 8..19 => Starts(p) = Starts(p - 1) + Size(p - 1)
  BY DEF Starts, Size, UnsignedWords, SignedWords
<1>2. p \in 20..26 => Starts(p) = Starts(p - 1) + Size(p - 1)
  BY DEF Starts, Size, UnsignedWords, SignedWords
<1>3. p \in 27..35 => Starts(p) = Starts(p - 1) + Size(p - 1)
  BY DEF Starts, Size, UnsignedWords, SignedWords
<1>4. p \in 36..43 => Starts(p) = Starts(p - 1) + Size(p - 1)
  BY DEF Starts, Size, UnsignedWords, SignedWords
<1>5. p \in 8..19 \/ p \in 20..26 \/ p \in 27..35 \/ p \in 36..43
  OBVIOUS
<1>6. Starts(7) = 0
  BY DEF Starts
<1> QED
  BY <1>1, <1>2, <1>3, <1>4, <1>5, <1>6

\* Every packet starts where the ones before it end.
LEMMA OffsetStep ==
  Offset[7] = 0 /\ \A p \in 8..43 : Offset[p] = Offset[p - 1] + Size(p - 1)
<1> DEFINE Rec(f) == [p \in 7..43 |-> IF p = 7 THEN 0 ELSE f[p - 1] + Size(p - 1)]
           o == [p \in 7..43 |-> Starts(p)]
<1>1. o = Rec(o)
  <2>1. ASSUME NEW p \in 7..43
        PROVE  o[p] = IF p = 7 THEN 0 ELSE o[p - 1] + Size(p - 1)
    <3>1. CASE p = 7
      BY <3>1, StartsStep
    <3>2. CASE p # 7
      <4>1. p \in 8..43 /\ p - 1 \in 7..43
        BY <3>2
      <4> QED
        BY <3>2, <4>1, StartsStep
    <3> QED
      BY <3>1, <3>2
  <2> QED
    BY <2>1
<1>2. Offset = CHOOSE f : f = Rec(f)
  BY DEF Offset
<1> HIDE DEF o
<1>3. Offset = Rec(Offset)
  BY <1>1, <1>2
<1>4. Offset[7] = 0
  BY <1>3
<1>5. ASSUME NEW p \in 8..43
      PROVE  Offset[p] = Offset[p - 1] + Size(p - 1)
  <2>1. p \in 7..43 /\ p # 7
    OBVIOUS
  <2> QED
    BY <1>3, <2>1
<1> QED
  BY <1>4, <1>5

\* A packet starts where the closed form says.
LEMMA OffsetIs == \A p \in 7..43 : Offset[p] = Starts(p)
<1>1. Offset[7] = Starts(7)
  BY StartsStep, OffsetStep
<1>2. ASSUME NEW p \in 8..43, Offset[p - 1] = Starts(p - 1)
      PROVE  Offset[p] = Starts(p)
  BY <1>2, StartsStep, OffsetStep
<1>3. \A n \in 7..42 : Offset[n] = Starts(n) => Offset[n + 1] = Starts(n + 1)
  <2>1. ASSUME NEW n \in 7..42, Offset[n] = Starts(n)
        PROVE  Offset[n + 1] = Starts(n + 1)
    <3>1. n + 1 \in 8..43 /\ n + 1 - 1 = n
      OBVIOUS
    <3> QED
      BY <1>2, <2>1, <3>1
  <2> QED
    BY <2>1
<1> DEFINE Same(n) == Offset[n] = Starts(n)
<1>4. Same(7) /\ \A n \in 7..42 : Same(n) => Same(n + 1)
  BY <1>1, <1>3
<1> HIDE DEF Same
<1>5. Same(7) /\ Same(8) /\ Same(9) /\ Same(10) /\ Same(11) /\ Same(12) /\ Same(13)
  BY <1>4
<1>6. Same(14) /\ Same(15) /\ Same(16) /\ Same(17) /\ Same(18) /\ Same(19) /\ Same(20)
  BY <1>4, <1>5
<1>7. Same(21) /\ Same(22) /\ Same(23) /\ Same(24) /\ Same(25) /\ Same(26) /\ Same(27)
  BY <1>4, <1>6
<1>8. Same(28) /\ Same(29) /\ Same(30) /\ Same(31) /\ Same(32) /\ Same(33) /\ Same(34)
  BY <1>4, <1>7
<1>9. Same(35) /\ Same(36) /\ Same(37) /\ Same(38) /\ Same(39) /\ Same(40) /\ Same(41)
  BY <1>4, <1>8
<1>10. Same(42) /\ Same(43)
  BY <1>4, <1>9
<1>11. \A n \in 7..43 : Same(n)
  BY <1>5, <1>6, <1>7, <1>8, <1>9, <1>10
<1> QED
  BY <1>11 DEF Same

\* For every content of the group, not the single bytes that TLC tries: each
\* number getAllSensors takes out of it is the one readSensor makes of the same
\* bytes.
THEOREM GroupAgrees == \A buf : SameIn(buf)
<1> SUFFICES ASSUME NEW buf, NEW p \in (7..42) \ {15, 16}
             PROVE  getAllSensors(buf)[p - 7] =
                      readSensor(p, <<buf[Offset[p]], buf[Offset[p] + 1]>>)
  BY DEF SameIn
<1>1. PICK o : o = Offset[p] /\ o = Starts(p)
  BY OffsetIs
<1> USE DEF Starts, getAllSensors, readSensor, UnsignedBytes, SignedBytes, UnsignedWords,
            SignedWords, Charge
<1>2. CASE p \in 7..14
  <2>1. o = p - 7 /\ p - 7 \in 0..11
    BY <1>1, <1>2
  <2> QED
    BY <1>1, <1>2, <2>1
<1>3. CASE p \in {17, 18}
  BY <1>1, <1>3
<1>4. CASE p \in {19, 20}
  BY <1>1, <1>4
<1>5. CASE p \in {21, 22}
  BY <1>1, <1>5
<1>6. CASE p \in {23, 24}
  BY <1>1, <1>6
<1>7. CASE p \in 25..31
  BY <1>1, <1>7
<1>8. CASE p \in {32, 33}
  BY <1>1, <1>8
<1>9. CASE p \in 34..38
  BY <1>1, <1>9
<1>10. CASE p \in 39..42
  BY <1>1, <1>10
<1> HIDE DEF Starts, getAllSensors, readSensor, UnsignedBytes, SignedBytes, UnsignedWords,
            SignedWords, Charge
<1>11. \/ p \in 7..14 \/ p \in {17, 18} \/ p \in {19, 20} \/ p \in {21, 22}
       \/ p \in {23, 24} \/ p \in 25..31 \/ p \in {32, 33} \/ p \in 34..38 \/ p \in 39..42
  OBVIOUS
<1> QED
  BY <1>2, <1>3, <1>4, <1>5, <1>6, <1>7, <1>8, <1>9, <1>10, <1>11

\* The group has 52 bytes and both decoders agree on it.
LEMMA PacketsAgree == SamePackets
<1>1. Offset[43] = 52
  BY OffsetIs DEF Starts
<1> QED
  BY <1>1, GroupAgrees DEF SamePackets

\* What a thread has read means the same to readSensor and getAllSensors.
THEOREM DecodersAgree == Spec => []SameDecoding
<1>1. SameDecoding
  BY PacketsAgree DEF SameDecoding
<1> QED
  BY <1>1, PTL

----------------------------------------------------------------------------
(* The calls of the library are proper, whatever they are asked.           *)

\* The numbers a short holds.
Shorts == {x \in Int : -32768 <= x /\ x <= 32767}

\* A 16-bit integer survives the two bytes.
LEMMA WordBack ==
  ASSUME NEW x \in Int, -32768 <= x, x <= 32767
  PROVE  /\ Word(x)[1] \in Bytes /\ Word(x)[2] \in Bytes /\ Word(x) = <<Word(x)[1], Word(x)[2]>>
         /\ Signed(Word(x)[1], Word(x)[2]) = x
<1> DEFINE q == x \div 256  r == x % 256  h == q % 256  w == 256 * h + r
<1>1. q \in Int /\ r \in Int /\ x = 256 * q + r /\ 0 <= r /\ r <= 255
  OBVIOUS
<1>2. h \in Int /\ 0 <= h /\ h <= 255 /\ (h = q \/ h = q + 256)
  <2>1. -128 <= q /\ q <= 127
    BY <1>1
  <2> HIDE DEF q
  <2>2. h \in Int /\ 0 <= h /\ h <= 255
    BY <1>1
  <2>3. h = q \/ h = q + 256
    BY <1>1, <2>1
  <2> QED
    BY <2>2, <2>3
<1>3. Word(x) = <<h, r>>
  BY DEF Word
<1>4. Signed(h, r) = IF w >= 32768 THEN w - 65536 ELSE w
  BY DEF Signed
<1> HIDE DEF q, r, h
<1>5. Signed(h, r) = x
  BY <1>1, <1>2, <1>4
<1>6. h \in Bytes /\ r \in Bytes
  BY <1>1, <1>2 DEF Bytes
<1> QED
  BY <1>3, <1>5, <1>6

\* A velocity's limits.
LEMMA Velocity ==
  ASSUME NEW x \in Int
  PROVE  /\ Keep(x, -500, 500) = Nearest(x, -500, 500)
         /\ Keep(x, -500, 500) \in Int /\ -500 <= Keep(x, -500, 500) /\ Keep(x, -500, 500) <= 500
BY DEF Keep, Nearest, MIN, MAX

\* A radius's limits.
LEMMA Curve ==
  ASSUME NEW x \in Int
  PROVE  /\ Keep(x, -2000, 2000) = Nearest(x, -2000, 2000)
         /\ Keep(x, -2000, 2000) \in Int /\ -2000 <= Keep(x, -2000, 2000)
         /\ Keep(x, -2000, 2000) <= 2000
         /\ Keep(x, -2000, 2000) = 0 <=> x = 0
BY DEF Keep, Nearest, MIN, MAX

\* Commands whose opcode alone tells their length.
Fixed(b) ==
  CASE b \in {129, 136, 138, 141, 142, 147, 151} -> 1
    [] b \in {139, 144} -> 3
    [] b \in {137, 145} -> 4
    [] OTHER -> 0

\* They are not the ones of a song, a list and a script, nor wait for an event.
FixedOpcodes == Opcodes \ {140, 149, 152, 155}

\* Such a frame is whole when it has that many bytes.
LEMMA FixedWhole ==
  ASSUME NEW f \in Seq(Bytes), f # <<>>, f[1] \in FixedOpcodes,
         Len(f) = 1 + Fixed(f[1])
  PROVE  Whole(f)
<1>1. ASSUME NEW k \in 1..Len(f)
      PROVE  k = 1 + DataBytes(SubSeq(f, 1, k)) <=> k = Len(f)
  <2>1. k \in Int /\ \A i \in 1..k : f[i] \in Bytes
    BY ElementOfSeq
  <2> DEFINE c == SubSeq(f, 1, k)
  <2>2. \A i \in 1..k - 1 + 1 : c[i] = f[1 + i - 1]
    BY <2>1, SubSeqProperties
  <2>3. c[1] = f[1]
    <3>1. 1 \in 1..k - 1 + 1 /\ 1 + 1 - 1 = 1
      OBVIOUS
    <3> QED
      BY <2>2, <3>1
  <2> HIDE DEF c
  <2>4. DataBytes(c) = Fixed(f[1])
    BY <2>3 DEF DataBytes, Fixed, FixedOpcodes
  <2> QED
    BY <2>4 DEF c
<1> QED
  BY <1>1 DEF Whole, FixedOpcodes

\* A call is proper if its one frame is a whole command that means what it asks
\* and gets no answer.
LEMMA CommandProper ==
  ASSUME NEW f, NEW asks, Whole(f), Meaning(f) = asks, ReplySize(f) = 0
  PROVE  Proper(Command(f, asks))
BY DEF Proper, Command, Request

\* The opcodes that Plainly and OneByte know.
LEMMA Tables ==
  /\ DOMAIN Plainly = {128, 131, 132, 134, 135, 143, 153, 154}
  /\ DOMAIN OneByte = {129, 136, 138, 141, 142, 147, 151}
BY DEF Plainly, OneByte, ShowScript

\* An opcode and two words are five bytes.
LEMMA FiveInAll ==
  \A a, b, c, d, e \in Bytes : <<a>> \o <<b, c>> \o <<d, e>> = <<a, b, c, d, e>>
<1> SUFFICES ASSUME NEW a \in Bytes, NEW b \in Bytes, NEW c \in Bytes, NEW d \in Bytes, NEW e \in Bytes
             PROVE  <<a>> \o <<b, c>> \o <<d, e>> = <<a, b, c, d, e>>
  OBVIOUS
<1> DEFINE p == <<a>>  q == <<b, c>>  r == <<d, e>>  s == p \o q \o r  t == <<a, b, c, d, e>>
<1>1. p \in Seq(Bytes) /\ Len(p) = 1 /\ p[1] = a
  OBVIOUS
<1>2. q \in Seq(Bytes) /\ Len(q) = 2 /\ q[1] = b /\ q[2] = c
  OBVIOUS
<1>3. r \in Seq(Bytes) /\ Len(r) = 2 /\ r[1] = d /\ r[2] = e
  OBVIOUS
<1>4. /\ t \in Seq(Bytes) /\ Len(t) = 5
      /\ t[1] = a /\ t[2] = b /\ t[3] = c /\ t[4] = d /\ t[5] = e
  OBVIOUS
<1> HIDE DEF p, q, r, t
<1>5. /\ p \o q \in Seq(Bytes) /\ Len(p \o q) = 3
      /\ \A i \in 1..3 : (p \o q)[i] = IF i <= 1 THEN p[i] ELSE q[i - 1]
  BY <1>1, <1>2, ConcatProperties
<1>6. PICK u \in Seq(Bytes) :
        u = p \o q /\ Len(u) = 3 /\ \A i \in 1..3 : u[i] = IF i <= 1 THEN p[i] ELSE q[i - 1]
  BY <1>5
<1>7. u[1] = a /\ u[2] = b /\ u[3] = c
  BY <1>1, <1>2, <1>6
<1>8. u \in Seq(Bytes) /\ Len(u) = 3
  BY <1>6
<1>9. r \in Seq(Bytes) /\ Len(r) = 2
  BY <1>3
<1>10. /\ u \o r \in Seq(Bytes) /\ Len(u \o r) = Len(u) + Len(r)
       /\ \A i \in 1..Len(u) + Len(r) : (u \o r)[i] = IF i <= Len(u) THEN u[i] ELSE r[i - Len(u)]
  BY <1>8, <1>9, ConcatProperties
<1>11. Len(u) + Len(r) = 5
  BY <1>8, <1>9
<1>12. /\ u \o r \in Seq(Bytes) /\ Len(u \o r) = 5
      /\ \A i \in 1..5 : (u \o r)[i] = IF i <= 3 THEN u[i] ELSE r[i - 3]
  BY <1>8, <1>10, <1>11, Zenon
<1>13. s = u \o r
  BY <1>6
<1> HIDE DEF s
<1>14. /\ s \in Seq(Bytes) /\ Len(s) = 5
       /\ \A i \in 1..5 : s[i] = IF i <= 3 THEN u[i] ELSE r[i - 3]
  BY <1>12, <1>13
<1>15. s[1] = a /\ s[2] = b /\ s[3] = c /\ s[4] = d /\ s[5] = e
  BY <1>3, <1>7, <1>14
<1>16. \A i \in 1..5 : s[i] = t[i]
  <2>1. \A i \in 1..5 : i = 1 \/ i = 2 \/ i = 3 \/ i = 4 \/ i = 5
    OBVIOUS
  <2> QED
    BY <1>4, <1>15, <2>1, Zenon
<1>17. s = t
  BY <1>4, <1>14, <1>16, SeqEqual
<1> QED
  BY <1>17 DEF s, t, p, q, r

\* A command that is its opcode.
LEMMA OpcodeProper ==
  ASSUME NEW b \in {128, 131, 132, 134, 135, 143, 153, 154}
  PROVE  /\ Whole(<<b>>) /\ Meaning(<<b>>) = <<Plainly[b]>>
         /\ ReplySize(<<b>>) = IF b = 154 THEN 1 ELSE 0
<1>1. b \in Int /\ 128 <= b /\ b <= 158
  OBVIOUS
<1>2. b \in Bytes /\ b \in FixedOpcodes
  BY <1>1 DEF Bytes, Opcodes, FixedOpcodes
<1> DEFINE f == <<b>>
<1>3. f \in Seq(Bytes) /\ Len(f) = 1 /\ f # <<>> /\ f[1] = b
  BY <1>2
<1> HIDE DEF f
<1>4. b \notin {142, 149}
  OBVIOUS
<1>5. Fixed(b) = 0
  BY DEF Fixed
<1>6. Whole(f)
  <2>1. Len(f) = 1 + Fixed(f[1])
    BY <1>3, <1>5
  <2> QED
    BY <1>2, <1>3, <2>1, FixedWhole
<1>7. Meaning(f) = <<Plainly[b]>>
  <2>1. /\ b \in DOMAIN Plainly /\ b \notin DOMAIN OneByte
        /\ b # 137 /\ b # 145 /\ b # 139 /\ b # 144 /\ b # 140 /\ b # 149 /\ b # 152
    BY Tables
  <2> QED
    BY <1>3, <2>1, Zenon DEF Meaning
<1>8. ReplySize(f) = IF b = 154 THEN 1 ELSE 0
  BY <1>3, <1>4 DEF ReplySize, ShowScript
<1> QED
  BY <1>3, <1>6, <1>7, <1>8, Zenon DEF f

\* The opcodes' meanings.
LEMMA PlainMeanings ==
  /\ Plainly[128] = "start" /\ Plainly[131] = "safe" /\ Plainly[132] = "full"
  /\ Plainly[134] = "spot" /\ Plainly[135] = "cover" /\ Plainly[143] = "cover and dock"
  /\ Plainly[153] = "play script" /\ Plainly[154] = "show script"
BY DEF Plainly, ShowScript

\* Those of the commands without an answer.
PlainOpcodes == {128, 131, 132, 134, 135, 143, 153}

\* A command of one byte is proper.
LEMMA PlainCommand ==
  ASSUME NEW b \in PlainOpcodes, NEW m, Plainly[b] = m
  PROVE  Proper(Command(<<b>>, <<m>>))
<1>1. b # 154 /\ b \in {128, 131, 132, 134, 135, 143, 153, 154}
  BY DEF PlainOpcodes
<1>2. Whole(<<b>>) /\ Meaning(<<b>>) = <<m>> /\ ReplySize(<<b>>) = 0
  BY <1>1, OpcodeProper
<1> QED
  BY <1>2, CommandProper

\* The calls without arguments.
Plain == {startOI, enterSafeMode, enterFullMode, runSpotDemo, runCoverDemo,
          runCoverAndDockDemo, playScript, getScript}

\* They are proper.
LEMMA PlainProper == \A r \in Plain : Proper(r)
<1>1. Proper(startOI)
  <2>1. 128 \in PlainOpcodes /\ Plainly[128] = "start"
    BY PlainMeanings DEF PlainOpcodes
  <2>2. Proper(Command(<<128>>, <<"start">>))
    BY <2>1, PlainCommand, Zenon
  <2> QED
    BY <2>2 DEF startOI
<1>2. Proper(enterSafeMode)
  <2>1. 131 \in PlainOpcodes /\ Plainly[131] = "safe"
    BY PlainMeanings DEF PlainOpcodes
  <2>2. Proper(Command(<<131>>, <<"safe">>))
    BY <2>1, PlainCommand, Zenon
  <2> QED
    BY <2>2 DEF enterSafeMode
<1>3. Proper(enterFullMode)
  <2>1. 132 \in PlainOpcodes /\ Plainly[132] = "full"
    BY PlainMeanings DEF PlainOpcodes
  <2>2. Proper(Command(<<132>>, <<"full">>))
    BY <2>1, PlainCommand, Zenon
  <2> QED
    BY <2>2 DEF enterFullMode
<1>4. Proper(runSpotDemo)
  <2>1. 134 \in PlainOpcodes /\ Plainly[134] = "spot"
    BY PlainMeanings DEF PlainOpcodes
  <2>2. Proper(Command(<<134>>, <<"spot">>))
    BY <2>1, PlainCommand, Zenon
  <2> QED
    BY <2>2 DEF runSpotDemo
<1>5. Proper(runCoverDemo)
  <2>1. 135 \in PlainOpcodes /\ Plainly[135] = "cover"
    BY PlainMeanings DEF PlainOpcodes
  <2>2. Proper(Command(<<135>>, <<"cover">>))
    BY <2>1, PlainCommand, Zenon
  <2> QED
    BY <2>2 DEF runCoverDemo
<1>6. Proper(runCoverAndDockDemo)
  <2>1. 143 \in PlainOpcodes /\ Plainly[143] = "cover and dock"
    BY PlainMeanings DEF PlainOpcodes
  <2>2. Proper(Command(<<143>>, <<"cover and dock">>))
    BY <2>1, PlainCommand, Zenon
  <2> QED
    BY <2>2 DEF runCoverAndDockDemo
<1>7. Proper(playScript)
  <2>1. 153 \in PlainOpcodes /\ Plainly[153] = "play script"
    BY PlainMeanings DEF PlainOpcodes
  <2>2. Proper(Command(<<153>>, <<"play script">>))
    BY <2>1, PlainCommand, Zenon
  <2> QED
    BY <2>2 DEF playScript
<1>8. Proper(getScript)
  <2>1. 154 \in {128, 131, 132, 134, 135, 143, 153, 154} /\ Plainly[154] = "show script"
    BY PlainMeanings
  <2>2. Whole(<<154>>) /\ Meaning(<<154>>) = <<"show script">> /\ ReplySize(<<154>>) = 1
    <3>1. /\ Whole(<<154>>) /\ Meaning(<<154>>) = <<Plainly[154]>>
          /\ ReplySize(<<154>>) = IF 154 = 154 THEN 1 ELSE 0
      BY <2>1, OpcodeProper, Zenon
    <3> QED
      BY <2>1, <3>1, Zenon
  <2>3. getScript = [frames |-> {<<154>>}, size |-> 1, asks |-> <<"show script">>]
    BY DEF getScript, Request, ShowScript
  <2>4. getScript.frames = {<<154>>} /\ getScript.size = 1 /\ getScript.asks = <<"show script">>
    BY <2>3
  <2> QED
    BY <2>2, <2>4, Zenon DEF Proper
<1> QED
  BY <1>1, <1>2, <1>3, <1>4, <1>5, <1>6, <1>7, <1>8 DEF Plain

\* A command of an opcode and a byte.
LEMMA OneByteProper ==
  ASSUME NEW b \in {129, 136, 138, 141, 147, 151}, NEW x \in Bytes
  PROVE  Proper(Command(<<b, x>>, <<OneByte[b], x>>))
<1>1. b \in Int /\ 128 <= b /\ b <= 158
  OBVIOUS
<1>2. b \in Bytes /\ b \in FixedOpcodes
  BY <1>1 DEF Bytes, Opcodes, FixedOpcodes
<1> DEFINE f == <<b, x>>
<1>3. f \in Seq(Bytes) /\ Len(f) = 2 /\ f # <<>> /\ f[1] = b /\ f[2] = x
  BY <1>2
<1> HIDE DEF f
<1>4. b \notin {142, 149, 154}
  OBVIOUS
<1>5. Fixed(b) = 1
  BY DEF Fixed
<1>6. Whole(f)
  <2>1. Len(f) = 1 + Fixed(f[1])
    BY <1>3, <1>5
  <2> QED
    BY <1>2, <1>3, <2>1, FixedWhole
<1>7. Meaning(f) = <<OneByte[b], x>>
  <2>1. /\ b \in DOMAIN OneByte /\ b \notin DOMAIN Plainly
        /\ b # 137 /\ b # 145 /\ b # 139 /\ b # 144 /\ b # 140 /\ b # 149 /\ b # 152
    BY Tables
  <2> QED
    BY <1>3, <2>1, Zenon DEF Meaning
<1>8. ReplySize(f) = 0
  BY <1>3, <1>4 DEF ReplySize, ShowScript
<1>9. Whole(<<b, x>>) /\ Meaning(<<b, x>>) = <<OneByte[b], x>> /\ ReplySize(<<b, x>>) = 0
  BY <1>3, <1>6, <1>7, <1>8, Zenon DEF f
<1> QED
  BY <1>9, CommandProper

\* The calls of one byte.
OfAByte == UNION {{setBaud(x), runDemo(x), setLowSideDrivers(x), playSong(x),
                   setDigitalOuts(x), sendIRbyte(x)} : x \in Bytes}

\* They are proper.
LEMMA OfAByteProper == \A r \in OfAByte : Proper(r)
<1>1. /\ OneByte[129] = "baud" /\ OneByte[136] = "demo" /\ OneByte[138] = "drivers"
      /\ OneByte[141] = "play song" /\ OneByte[147] = "outputs" /\ OneByte[151] = "ir"
  BY DEF OneByte
<1>2. ASSUME NEW x \in Bytes
      PROVE  /\ Proper(setBaud(x)) /\ Proper(runDemo(x)) /\ Proper(setLowSideDrivers(x))
             /\ Proper(playSong(x)) /\ Proper(setDigitalOuts(x)) /\ Proper(sendIRbyte(x))
  <2>1. \A b \in {129, 136, 138, 141, 147, 151} : Proper(Command(<<b, x>>, <<OneByte[b], x>>))
    BY OneByteProper
  <2>2. /\ Proper(Command(<<129, x>>, <<"baud", x>>))
        /\ Proper(Command(<<136, x>>, <<"demo", x>>))
        /\ Proper(Command(<<138, x>>, <<"drivers", x>>))
    BY <1>1, <2>1
  <2>3. /\ Proper(Command(<<141, x>>, <<"play song", x>>))
        /\ Proper(Command(<<147, x>>, <<"outputs", x>>))
        /\ Proper(Command(<<151, x>>, <<"ir", x>>))
    BY <1>1, <2>1
  <2> QED
    BY <2>2, <2>3, Zenon DEF setBaud, runDemo, setLowSideDrivers, playSong,
                             setDigitalOuts, sendIRbyte
<1> QED
  BY <1>2 DEF OfAByte

\* A velocity and a radius, each within its limits, go out as two bytes each.
LEMMA DriveProper == \A vel \in Shorts, rad \in Shorts : Proper(drive(vel, rad))
<1> SUFFICES ASSUME NEW vel \in Shorts, NEW rad \in Shorts
             PROVE  Proper(drive(vel, rad))
  OBVIOUS
<1>1. vel \in Int /\ rad \in Int
  BY DEF Shorts
<1> DEFINE v == Keep(vel, -500, 500)
           k == Keep(rad, -2000, 2000)
           u == Radius(k)
           n == Nearest(vel, -500, 500)
           m == IF rad = 0 THEN Straight ELSE Nearest(rad, -2000, 2000)
<1>2. v \in Int /\ -500 <= v /\ v <= 500 /\ v = n
  BY <1>1, Velocity
<1>3. k \in Int /\ -2000 <= k /\ k <= 2000 /\ k = Nearest(rad, -2000, 2000)
  BY <1>1, Curve
<1>4. k = 0 <=> rad = 0
  BY <1>1, Curve
<1>5. /\ u \in Int /\ -32768 <= u /\ u <= 2000
      /\ u = m
  BY <1>3, <1>4 DEF Radius, Straight
<1>6. drive(vel, rad) =
        Command(<<137>> \o Word(v) \o Word(u), <<"drive", n, m>>)
  BY DEF drive
<1> HIDE DEF v, k, u, n, m
<1>7. drive(vel, rad) = Command(<<137>> \o Word(v) \o Word(u), <<"drive", v, u>>)
  <2>1. v = n
    BY <1>2
  <2>2. u = m
    BY <1>5
  <2> QED
    BY <1>6, <2>1, <2>2, Zenon
<1>8. PICK a \in Bytes, b \in Bytes : Word(v) = <<a, b>> /\ Signed(a, b) = v
  BY <1>2, WordBack
<1>9. PICK c \in Bytes, d \in Bytes : Word(u) = <<c, d>> /\ Signed(c, d) = u
  BY <1>5, WordBack
<1>10. 137 \in Bytes /\ 137 \in FixedOpcodes /\ Fixed(137) = 4
  BY DEF Bytes, Opcodes, FixedOpcodes, Fixed
<1> DEFINE f == <<137, a, b, c, d>>
<1>11. /\ f \in Seq(Bytes) /\ Len(f) = 5 /\ f # <<>>
       /\ f[1] = 137 /\ f[2] = a /\ f[3] = b /\ f[4] = c /\ f[5] = d
  BY <1>10
<1> HIDE DEF f
<1>12. Whole(f)
  <2>1. Len(f) = 1 + Fixed(f[1]) /\ f[1] \in FixedOpcodes
    BY <1>10, <1>11
  <2> QED
    BY <1>11, <2>1, FixedWhole, Zenon
<1>13. Meaning(f) = <<"drive", v, u>>
  <2>1. 137 \notin DOMAIN Plainly /\ 137 \notin DOMAIN OneByte
    BY Tables
  <2>2. Meaning(f) = <<"drive", Signed(f[2], f[3]), Signed(f[4], f[5])>>
    BY <1>11, <2>1 DEF Meaning
  <2> QED
    BY <1>8, <1>9, <1>11, <2>2, Zenon
<1>14. ReplySize(f) = 0
  BY <1>11 DEF ReplySize, ShowScript
<1>15. <<137>> \o <<a, b>> \o <<c, d>> = <<137, a, b, c, d>>
  BY <1>10, FiveInAll
<1>16. drive(vel, rad) = Command(f, <<"drive", v, u>>)
  BY <1>7, <1>8, <1>9, <1>15, Zenon DEF f
<1> QED
  BY <1>12, <1>13, <1>14, <1>16, CommandProper

\* So do the two wheels' velocities, the right one first.
LEMMA WheelsProper == \A l \in Shorts, r \in Shorts : Proper(directDrive(l, r))
<1> SUFFICES ASSUME NEW l \in Shorts, NEW r \in Shorts
             PROVE  Proper(directDrive(l, r))
  OBVIOUS
<1>1. l \in Int /\ r \in Int
  BY DEF Shorts
<1> DEFINE v == Keep(r, -500, 500)
           u == Keep(l, -500, 500)
           n == Nearest(r, -500, 500)
           m == Nearest(l, -500, 500)
<1>2. v \in Int /\ -500 <= v /\ v <= 500 /\ v = n
  BY <1>1, Velocity
<1>3. u \in Int /\ -500 <= u /\ u <= 500 /\ u = m
  BY <1>1, Velocity
<1>6. directDrive(l, r) =
        Command(<<145>> \o Word(v) \o Word(u), <<"wheels", m, n>>)
  BY DEF directDrive
<1> HIDE DEF v, u, n, m
<1>7. directDrive(l, r) = Command(<<145>> \o Word(v) \o Word(u), <<"wheels", u, v>>)
  <2>1. v = n
    BY <1>2
  <2>2. u = m
    BY <1>3
  <2> QED
    BY <1>6, <2>1, <2>2, Zenon
<1>8. PICK a \in Bytes, b \in Bytes : Word(v) = <<a, b>> /\ Signed(a, b) = v
  BY <1>2, WordBack
<1>9. PICK c \in Bytes, d \in Bytes : Word(u) = <<c, d>> /\ Signed(c, d) = u
  BY <1>3, WordBack
<1>10. 145 \in Bytes /\ 145 \in FixedOpcodes /\ Fixed(145) = 4
  BY DEF Bytes, Opcodes, FixedOpcodes, Fixed
<1> DEFINE f == <<145, a, b, c, d>>
<1>11. /\ f \in Seq(Bytes) /\ Len(f) = 5 /\ f # <<>>
       /\ f[1] = 145 /\ f[2] = a /\ f[3] = b /\ f[4] = c /\ f[5] = d
  BY <1>10
<1> HIDE DEF f
<1>12. Whole(f)
  <2>1. Len(f) = 1 + Fixed(f[1]) /\ f[1] \in FixedOpcodes
    BY <1>10, <1>11
  <2> QED
    BY <1>11, <2>1, FixedWhole, Zenon
<1>13. Meaning(f) = <<"wheels", u, v>>
  <2>1. 145 \notin DOMAIN Plainly /\ 145 \notin DOMAIN OneByte
    BY Tables
  <2>2. Meaning(f) = <<"wheels", Signed(f[4], f[5]), Signed(f[2], f[3])>>
    BY <1>11, <2>1 DEF Meaning
  <2> QED
    BY <1>8, <1>9, <1>11, <2>2, Zenon
<1>14. ReplySize(f) = 0
  BY <1>11 DEF ReplySize, ShowScript
<1>15. <<145>> \o <<a, b>> \o <<c, d>> = <<145, a, b, c, d>>
  BY <1>10, FiveInAll
<1>16. directDrive(l, r) = Command(f, <<"wheels", u, v>>)
  BY <1>7, <1>8, <1>9, <1>15, Zenon DEF f
<1> QED
  BY <1>12, <1>13, <1>14, <1>16, CommandProper

\* The lights' three bytes go out as they are.
LEMMA LightsProper == \A x, y, z \in Bytes : Proper(setLEDState(x, y, z))
<1> SUFFICES ASSUME NEW x \in Bytes, NEW y \in Bytes, NEW z \in Bytes
             PROVE  Proper(setLEDState(x, y, z))
  OBVIOUS
<1>1. 139 \in Bytes /\ 139 \in FixedOpcodes /\ Fixed(139) = 3
  BY DEF Bytes, Opcodes, FixedOpcodes, Fixed
<1> DEFINE f == <<139, x, y, z>>
<1>2. f \in Seq(Bytes) /\ Len(f) = 4 /\ f # <<>> /\ f[1] = 139 /\ f[2] = x /\ f[3] = y /\ f[4] = z
  BY <1>1
<1> HIDE DEF f
<1>3. Whole(f)
  <2>1. Len(f) = 1 + Fixed(f[1]) /\ f[1] \in FixedOpcodes
    BY <1>1, <1>2
  <2> QED
    BY <1>2, <2>1, FixedWhole, Zenon
<1>4. Meaning(f) = <<"led", x, y, z>>
  <2>1. 139 \notin DOMAIN Plainly /\ 139 \notin DOMAIN OneByte
    BY Tables
  <2> QED
    BY <1>2, <2>1 DEF Meaning
<1>5. ReplySize(f) = 0
  BY <1>2 DEF ReplySize, ShowScript
<1>6. setLEDState(x, y, z) = Command(f, <<"led", x, y, z>>)
  BY Zenon DEF setLEDState, f
<1> QED
  BY <1>3, <1>4, <1>5, <1>6, CommandProper

\* The drivers' duties go out in the opposite order, at most 128 each.
LEMMA DutiesProper == \A x, y, z \in Bytes : Proper(setPWMLowSideDrivers(x, y, z))
<1> SUFFICES ASSUME NEW x \in Bytes, NEW y \in Bytes, NEW z \in Bytes
             PROVE  Proper(setPWMLowSideDrivers(x, y, z))
  OBVIOUS
<1>1. 144 \in Bytes /\ 144 \in FixedOpcodes /\ Fixed(144) = 3
  BY DEF Bytes, Opcodes, FixedOpcodes, Fixed
<1>2. \A n \in Bytes : MIN(128, n) \in Bytes /\ MIN(128, n) = Nearest(n, 0, 128)
  BY DEF Bytes, MIN, Nearest
<1>3. PICK a \in Bytes, b \in Bytes, c \in Bytes :
        /\ a = MIN(128, x) /\ b = MIN(128, y) /\ c = MIN(128, z)
        /\ a = Nearest(x, 0, 128) /\ b = Nearest(y, 0, 128) /\ c = Nearest(z, 0, 128)
  BY <1>2
<1> DEFINE f == <<144, c, b, a>>
<1>4. f \in Seq(Bytes) /\ Len(f) = 4 /\ f # <<>> /\ f[1] = 144 /\ f[2] = c /\ f[3] = b /\ f[4] = a
  BY <1>1
<1> HIDE DEF f
<1>5. Whole(f)
  <2>1. Len(f) = 1 + Fixed(f[1]) /\ f[1] \in FixedOpcodes
    BY <1>1, <1>4
  <2> QED
    BY <1>4, <2>1, FixedWhole, Zenon
<1>6. Meaning(f) = <<"duty", a, b, c>>
  <2>1. 144 \notin DOMAIN Plainly /\ 144 \notin DOMAIN OneByte
    BY Tables
  <2> QED
    BY <1>4, <2>1 DEF Meaning
<1>7. ReplySize(f) = 0
  BY <1>4 DEF ReplySize, ShowScript
<1>8. setPWMLowSideDrivers(x, y, z) = Command(f, <<"duty", a, b, c>>)
  BY <1>3, Zenon DEF setPWMLowSideDrivers, f
<1> QED
  BY <1>5, <1>6, <1>7, <1>8, CommandProper

\* The answer to a question for one packet is that packet.
LEMMA OneAnswer ==
  ASSUME NEW f, NEW p, f[1] = 142, f[2] = p, PacketSize(p) \in Nat
  PROVE  ReplySize(f) = PacketSize(p)
<1>1. Packets(f) = <<p>>
  BY DEF Packets
<1>2. DOMAIN <<p>> = {1} /\ <<p>>[1] = p
  OBVIOUS
<1>3. UNION {{i} \X (1..PacketSize(<<p>>[i])) : i \in {1}} = {1} \X (1..PacketSize(p))
  BY <1>2
<1>4. AnswerSize(f) = Cardinality({1} \X (1..PacketSize(p)))
  BY <1>1, <1>2, <1>3 DEF AnswerSize
<1>5. IsFiniteSet({1}) /\ Cardinality({1}) = 1
  BY FS_Singleton
<1>6. IsFiniteSet(1..PacketSize(p)) /\ Cardinality(1..PacketSize(p)) = PacketSize(p)
  BY FS_Interval
<1>7. Cardinality({1} \X (1..PacketSize(p))) = 1 * PacketSize(p)
  <2>1. \A A, B : IsFiniteSet(A) /\ IsFiniteSet(B) =>
                   Cardinality(A \X B) = Cardinality(A) * Cardinality(B)
    BY FS_Product
  <2>2. Cardinality({1} \X (1..PacketSize(p)))
          = Cardinality({1}) * Cardinality(1..PacketSize(p))
    BY <1>5, <1>6, <2>1, Zenon
  <2> QED
    BY <1>5, <1>6, <2>2, Zenon
<1>8. AnswerSize(f) = PacketSize(p)
  <2>1. 1 * PacketSize(p) = PacketSize(p)
    OBVIOUS
  <2> QED
    BY <1>4, <1>7, <2>1, Zenon
<1> QED
  BY <1>8 DEF ReplySize, ShowScript

\* A question for one packet is proper if it reads as many bytes as that has.
LEMMA SensorProper == \A p \in 6..42 : Proper(readRawSensor(p, PacketSize(p)))
<1> SUFFICES ASSUME NEW p \in 6..42
             PROVE  Proper(readRawSensor(p, PacketSize(p)))
  OBVIOUS
<1>1. p \in Bytes /\ 142 \in Bytes /\ 142 \in FixedOpcodes /\ Fixed(142) = 1
  BY DEF Bytes, Opcodes, FixedOpcodes, Fixed
<1> DEFINE f == <<142, p>>
<1>2. f \in Seq(Bytes) /\ Len(f) = 2 /\ f # <<>> /\ f[1] = 142 /\ f[2] = p
  BY <1>1
<1>3. readRawSensor(p, PacketSize(p)) =
        [frames |-> {f}, size |-> PacketSize(p), asks |-> <<"sensors", p>>]
  BY DEF readRawSensor, Request
<1> HIDE DEF f
<1>4. Whole(f)
  <2>1. Len(f) = 1 + Fixed(f[1]) /\ f[1] \in FixedOpcodes
    BY <1>1, <1>2
  <2> QED
    BY <1>2, <2>1, FixedWhole, Zenon
<1>5. Meaning(f) = <<"sensors", p>>
  <2>1. 142 \notin DOMAIN Plainly /\ 142 \in DOMAIN OneByte /\ OneByte[142] = "sensors"
    BY Tables DEF OneByte
  <2>2. Meaning(f) = <<OneByte[142], p>>
    BY <1>2, <2>1 DEF Meaning
  <2> QED
    BY <2>1, <2>2, Zenon
<1>6. ReplySize(f) = PacketSize(p)
  <2>1. PacketSize(p) \in Nat
    BY DEF PacketSize, Size
  <2> QED
    BY <1>2, <2>1, OneAnswer
<1> DEFINE r == readRawSensor(p, PacketSize(p))
<1>7. r.frames = {f} /\ r.size = PacketSize(p) /\ r.asks = <<"sensors", p>>
  BY <1>3
<1> HIDE DEF r
<1>8. Proper(r)
  BY <1>4, <1>5, <1>6, <1>7, Zenon DEF Proper
<1> QED
  BY <1>8 DEF r

\* A frame's beginning: its length and its bytes.
LEMMA Beginning ==
  ASSUME NEW f \in Seq(Bytes), NEW k \in 1..Len(f)
  PROVE  Len(SubSeq(f, 1, k)) = k /\ \A i \in 1..k : SubSeq(f, 1, k)[i] = f[i]
<1>1. k \in Int /\ 1 <= k /\ k <= Len(f) /\ \A i \in 1..k : f[i] \in Bytes
  BY ElementOfSeq
<1>2. /\ Len(SubSeq(f, 1, k)) = IF 1 <= k THEN k - 1 + 1 ELSE 0
      /\ \A i \in 1..k - 1 + 1 : SubSeq(f, 1, k)[i] = f[1 + i - 1]
  BY <1>1, SubSeqProperties
<1>3. k - 1 + 1 = k
  BY <1>1
<1>4. ASSUME NEW i \in 1..k
      PROVE  SubSeq(f, 1, k)[i] = f[i]
  <2>1. 1 + i - 1 = i /\ i \in 1..k - 1 + 1
    BY <1>1
  <2> QED
    BY <1>2, <2>1
<1> QED
  BY <1>1, <1>2, <1>3, <1>4

\* A head and a tail in one frame.
LEMMA Joined ==
  ASSUME NEW h \in Seq(Bytes), NEW x \in Seq(Bytes)
  PROVE  \E f \in Seq(Bytes) :
           /\ f = h \o x /\ Len(f) = Len(h) + Len(x)
           /\ \A i \in 1..Len(h) : f[i] = h[i]
           /\ SubSeq(f, Len(h) + 1, Len(f)) = x
<1>1. /\ h \o x \in Seq(Bytes) /\ Len(h \o x) = Len(h) + Len(x)
      /\ \A i \in 1..Len(h) + Len(x) : (h \o x)[i] = IF i <= Len(h) THEN h[i] ELSE x[i - Len(h)]
  BY ConcatProperties
<1>2. SubSeq(h \o x, Len(h) + 1, Len(h) + Len(x)) = x
  BY SecondPart
<1>3. PICK f \in Seq(Bytes) :
        /\ f = h \o x /\ Len(f) = Len(h) + Len(x)
        /\ \A i \in 1..Len(h) + Len(x) : f[i] = IF i <= Len(h) THEN h[i] ELSE x[i - Len(h)]
        /\ SubSeq(f, Len(h) + 1, Len(f)) = x
  BY <1>1, <1>2
<1>4. Len(h) \in Nat /\ Len(x) \in Nat
  OBVIOUS
<1>5. \A i \in 1..Len(h) : f[i] = h[i]
  <2>1. \A i \in 1..Len(h) : i \in 1..Len(h) + Len(x) /\ i <= Len(h)
    BY <1>4
  <2> QED
    BY <1>3, <2>1
<1> QED
  BY <1>3, <1>5, Zenon

\* A song is proper if its length is the number of its notes.
LEMMA SongProper ==
  ASSUME NEW number \in Bytes, NEW length \in Bytes, NEW song \in Seq(Bytes),
         Len(song) = 2 * length
  PROVE  Proper(writeSong(number, length, song))
<1>1. 140 \in Bytes /\ 140 \in Opcodes
  BY DEF Bytes, Opcodes
<1> DEFINE h == <<140, number, length>>
<1>2. /\ h \in Seq(Bytes) /\ Len(h) = 3
      /\ h[1] = 140 /\ h[2] = number /\ h[3] = length
  BY <1>1
<1>3. SubSeq(song, 1, 2 * length) = song
  BY SubSeqFull
<1>4. writeSong(number, length, song) = Command(h \o song, <<"song", number, song>>)
  BY <1>3, Zenon DEF writeSong
<1> HIDE DEF h
<1>5. PICK f \in Seq(Bytes) :
        /\ f = h \o song /\ Len(f) = Len(h) + Len(song)
        /\ \A i \in 1..Len(h) : f[i] = h[i]
        /\ SubSeq(f, Len(h) + 1, Len(f)) = song
  BY <1>2, Joined
<1>6. /\ Len(f) = 3 + 2 * length /\ length \in Nat
      /\ f[1] = 140 /\ f[2] = number /\ f[3] = length /\ SubSeq(f, 4, Len(f)) = song
  <2>1. length \in Nat
    BY DEF Bytes
  <2>2. 1 \in 1..Len(h) /\ 2 \in 1..Len(h) /\ 3 \in 1..Len(h) /\ Len(h) + 1 = 4
    BY <1>2
  <2>3. SubSeq(f, 4, Len(f)) = song
    BY <1>5, <2>2, Zenon
  <2>4. f[1] = h[1] /\ f[2] = h[2] /\ f[3] = h[3]
    BY <1>5, <2>2
  <2> QED
    BY <1>2, <1>5, <2>1, <2>3, <2>4
<1>7. Whole(f)
  <2>1. ASSUME NEW k \in 1..Len(f)
        PROVE  k = 1 + DataBytes(SubSeq(f, 1, k)) <=> k = Len(f)
    <3> DEFINE c == SubSeq(f, 1, k)
    <3>1. Len(c) = k /\ \A i \in 1..k : c[i] = f[i]
      BY Beginning
    <3>2. k \in Int /\ 1 <= k
      OBVIOUS
    <3> HIDE DEF c
    <3>3. 1 \in 1..k /\ (3 <= k => 3 \in 1..k)
      BY <3>2
    <3>4. c[1] = 140 /\ (3 <= k => c[3] = length)
      BY <1>6, <3>1, <3>3
    <3>5. DataBytes(c) = IF k < 3 THEN 2 ELSE 2 + 2 * c[3]
      BY <3>1, <3>4 DEF DataBytes
    <3>6. k = 1 + DataBytes(c) <=> k = 3 + 2 * length
      BY <1>6, <3>2, <3>4, <3>5
    <3> QED
      BY <1>6, <3>6 DEF c
  <2>2. f # <<>>
    BY <1>6, EmptySeq
  <2> QED
    BY <1>1, <1>6, <2>1, <2>2 DEF Whole
<1>8. Meaning(f) = <<"song", number, song>>
  <2>1. 140 \notin DOMAIN Plainly /\ 140 \notin DOMAIN OneByte
    BY Tables
  <2>2. Meaning(f) = <<"song", f[2], SubSeq(f, 4, Len(f))>>
    BY <1>6, <2>1 DEF Meaning
  <2> QED
    BY <1>6, <2>2, Zenon
<1>9. ReplySize(f) = 0
  BY <1>6 DEF ReplySize, ShowScript
<1>10. writeSong(number, length, song) = Command(f, <<"song", number, song>>)
  BY <1>4, <1>5, Zenon
<1> QED
  BY <1>7, <1>8, <1>9, <1>10, CommandProper

\* The answer to a list of one-byte packets has as many bytes as the list.
LEMMA ListAnswer ==
  ASSUME NEW f, NEW x \in Seq(Bytes), Packets(f) = x, f[1] = 149,
         \A i \in 1..Len(x) : PacketSize(x[i]) = 1
  PROVE  ReplySize(f) = Len(x)
<1>1. Len(x) \in Nat /\ DOMAIN x = 1..Len(x)
  OBVIOUS
<1>2. UNION {{i} \X (1..PacketSize(x[i])) : i \in 1..Len(x)} = (1..Len(x)) \X (1..1)
  <2>1. ASSUME NEW i \in 1..Len(x)
        PROVE  1..PacketSize(x[i]) = 1..1
    OBVIOUS
  <2>2. UNION {{i} \X (1..PacketSize(x[i])) : i \in 1..Len(x)}
          = UNION {{i} \X (1..1) : i \in 1..Len(x)}
    BY <2>1
  <2>3. UNION {{i} \X (1..1) : i \in 1..Len(x)} = (1..Len(x)) \X (1..1)
    OBVIOUS
  <2> QED
    BY <2>2, <2>3, Zenon
<1>3. AnswerSize(f) = Cardinality((1..Len(x)) \X (1..1))
  <2>1. AnswerSize(f) = Cardinality(UNION {{i} \X (1..PacketSize(x[i])) : i \in DOMAIN x})
    BY DEF AnswerSize
  <2> QED
    BY <1>1, <1>2, <2>1, Zenon
<1>4. IsFiniteSet(1..Len(x)) /\ Cardinality(1..Len(x)) = Len(x)
  <2>1. PICK n \in Nat : n = Len(x)
    BY <1>1
  <2>2. 1 \in Int /\ n \in Int /\ (IF 1 > n THEN 0 ELSE n - 1 + 1) = n
    OBVIOUS
  <2>3. IsFiniteSet(1..n) /\ Cardinality(1..n) = n
    BY <2>2, FS_Interval
  <2> QED
    BY <2>1, <2>3
<1>5. IsFiniteSet(1..1) /\ Cardinality(1..1) = 1
  <2>1. 1..1 = {1}
    OBVIOUS
  <2> QED
    <3>1. IsFiniteSet({1}) /\ Cardinality({1}) = 1
      BY FS_Singleton
    <3> QED
      BY <2>1, <3>1
<1>6. Cardinality((1..Len(x)) \X (1..1)) = Len(x) * 1
  <2>1. \A A, B : IsFiniteSet(A) /\ IsFiniteSet(B) =>
                   Cardinality(A \X B) = Cardinality(A) * Cardinality(B)
    BY FS_Product
  <2>2. Cardinality((1..Len(x)) \X (1..1)) = Cardinality(1..Len(x)) * Cardinality(1..1)
    BY <1>4, <1>5, <2>1, Zenon
  <2> QED
    BY <1>4, <1>5, <2>2, Zenon
<1>7. Len(x) * 1 = Len(x)
  <2>1. \A n \in Nat : n * 1 = n
    OBVIOUS
  <2> QED
    BY <1>1, <2>1, Zenon
<1>8. AnswerSize(f) = Len(x)
  BY <1>3, <1>6, <1>7, Zenon
<1> QED
  BY <1>8 DEF ReplySize, ShowScript

\* A list of one-byte packets is proper: its frame holds nothing but the list.
LEMMA ListProper ==
  ASSUME NEW x \in Seq(Bytes), Len(x) \in Bytes,
         \A i \in 1..Len(x) : PacketSize(x[i]) = 1
  PROVE  Proper(readRawSensorList(x, Len(x)))
<1>1. 149 \in Bytes /\ 149 \in Opcodes
  BY DEF Bytes, Opcodes
<1> DEFINE h == <<149, Len(x)>>
<1>2. /\ h \in Seq(Bytes) /\ Len(h) = 2
      /\ h[1] = 149 /\ h[2] = Len(x)
  BY <1>1
<1> DEFINE empties == [1..(Len(x) - Len(x)) -> Stray]
<1>3. empties = {<<>>}
  <2>1. Len(x) - Len(x) = 0
    OBVIOUS
  <2>2. 1..0 = {}
    OBVIOUS
  <2>3. <<>> \in [{} -> Stray] /\ \A e \in [{} -> Stray] : e = <<>>
    OBVIOUS
  <2> QED
    BY <2>1, <2>2, <2>3
<1> DEFINE r == readRawSensorList(x, Len(x))
<1>4. r = [frames |-> {h \o x \o more : more \in empties}, size |-> Len(x), asks |-> <<"list", x>>]
  BY DEF readRawSensorList, Request
<1> HIDE DEF empties, h
<1>5. PICK f \in Seq(Bytes) :
        /\ f = h \o x /\ Len(f) = Len(h) + Len(x)
        /\ \A i \in 1..Len(h) : f[i] = h[i]
        /\ SubSeq(f, Len(h) + 1, Len(f)) = x
  BY <1>2, Joined
<1>6. {h \o x \o more : more \in empties} = {f}
  <2>1. f \o <<>> = f
    BY ConcatEmptySeq
  <2>2. {h \o x \o more : more \in empties} = {h \o x \o <<>>}
    BY <1>3
  <2> QED
    BY <1>5, <2>1, <2>2, Zenon
<1> HIDE DEF r
<1>7. r.frames = {f} /\ r.size = Len(x) /\ r.asks = <<"list", x>>
  BY <1>4, <1>6
<1>8. /\ Len(f) = 2 + Len(x) /\ Len(x) \in Nat
      /\ f[1] = 149 /\ f[2] = Len(x) /\ SubSeq(f, 3, Len(f)) = x
  <2>1. 1 \in 1..Len(h) /\ 2 \in 1..Len(h) /\ Len(h) + 1 = 3
    BY <1>2
  <2>2. SubSeq(f, 3, Len(f)) = x
    BY <1>5, <2>1, Zenon
  <2>3. f[1] = h[1] /\ f[2] = h[2]
    BY <1>5, <2>1
  <2> QED
    BY <1>2, <1>5, <2>2, <2>3
<1>9. Whole(f)
  <2>1. ASSUME NEW k \in 1..Len(f)
        PROVE  k = 1 + DataBytes(SubSeq(f, 1, k)) <=> k = Len(f)
    <3> DEFINE c == SubSeq(f, 1, k)
    <3>1. Len(c) = k /\ \A i \in 1..k : c[i] = f[i]
      BY Beginning
    <3>2. k \in Int /\ 1 <= k
      OBVIOUS
    <3> HIDE DEF c
    <3>3. 1 \in 1..k /\ (2 <= k => 2 \in 1..k)
      BY <3>2
    <3>4. c[1] = 149 /\ (2 <= k => c[2] = Len(x))
      BY <1>8, <3>1, <3>3
    <3>5. DataBytes(c) = IF k < 2 THEN 1 ELSE 1 + c[2]
      BY <3>1, <3>4 DEF DataBytes
    <3>6. k = 1 + DataBytes(c) <=> k = 2 + Len(x)
      BY <1>8, <3>2, <3>4, <3>5
    <3> QED
      BY <1>8, <3>6 DEF c
  <2>2. f # <<>>
    BY <1>8, EmptySeq
  <2> QED
    BY <1>1, <1>8, <2>1, <2>2 DEF Whole
<1>10. Meaning(f) = <<"list", x>>
  <2>1. 149 \notin DOMAIN Plainly /\ 149 \notin DOMAIN OneByte
    BY Tables
  <2>2. Meaning(f) = <<"list", SubSeq(f, 3, Len(f))>>
    BY <1>8, <2>1 DEF Meaning
  <2> QED
    BY <1>8, <2>2, Zenon
<1>11. ReplySize(f) = Len(x)
  <2>1. Packets(f) = x
    BY <1>8 DEF Packets
  <2> QED
    BY <1>8, <2>1, ListAnswer
<1>12. Proper(r)
  BY <1>7, <1>9, <1>10, <1>11, Zenon DEF Proper
<1> QED
  BY <1>12 DEF r

\* A song's number, its length, its notes and durations; lists of packets of one byte.
Songs == {s \in Bytes \X Bytes \X Seq(Bytes) : Len(s[3]) = 2 * s[2]}
Lists == {x \in Seq(Bytes) : Len(x) \in Bytes /\ \A i \in 1..Len(x) : x[i] \in 7..42 /\ PacketSize(x[i]) = 1}

\* Every call of the library but writeScript and lists of longer packets, with
\* every argument of the types it takes: songs as long as they say, and as many
\* bytes to read as the packet has.
ProperCalls ==
  Plain \union OfAByte
  \union {drive(v, r) : v \in Shorts, r \in Shorts}
  \union {directDrive(l, r) : l \in Shorts, r \in Shorts}
  \union {setLEDState(x, y, z) : x \in Bytes, y \in Bytes, z \in Bytes}
  \union {setPWMLowSideDrivers(x, y, z) : x \in Bytes, y \in Bytes, z \in Bytes}
  \union {writeSong(s[1], s[2], s[3]) : s \in Songs}
  \union {readRawSensor(p, PacketSize(p)) : p \in 6..42}
  \union {readRawSensorList(x, Len(x)) : x \in Lists}

\* What the theorems about the line ask of the calls holds of the library's:
\* whatever they are asked, they send one whole frame, which means what the
\* documentation says, limits included, and read what the robot answers.
THEOREM CallsAreProper == Requests \subseteq ProperCalls => ProperRequests
<1>1. \A s \in Songs : Proper(writeSong(s[1], s[2], s[3]))
  <2> SUFFICES ASSUME NEW s \in Songs
               PROVE  Proper(writeSong(s[1], s[2], s[3]))
    OBVIOUS
  <2>1. s[1] \in Bytes /\ s[2] \in Bytes /\ s[3] \in Seq(Bytes) /\ Len(s[3]) = 2 * s[2]
    BY DEF Songs
  <2> QED
    BY <2>1, SongProper
<1>2. \A x \in Lists : Proper(readRawSensorList(x, Len(x)))
  BY ListProper DEF Lists
<1> DEFINE A == {drive(v, r) : v \in Shorts, r \in Shorts}
           B == {directDrive(l, r) : l \in Shorts, r \in Shorts}
           C == {setLEDState(x, y, z) : x \in Bytes, y \in Bytes, z \in Bytes}
           D == {setPWMLowSideDrivers(x, y, z) : x \in Bytes, y \in Bytes, z \in Bytes}
           E == {writeSong(s[1], s[2], s[3]) : s \in Songs}
           F == {readRawSensor(p, PacketSize(p)) : p \in 6..42}
           G == {readRawSensorList(x, Len(x)) : x \in Lists}
<1>3. ProperCalls = Plain \union OfAByte \union A \union B \union C \union D \union E \union F \union G
  BY DEF ProperCalls
<1>4. (\A c \in A : Proper(c)) /\ (\A c \in B : Proper(c))
  BY DriveProper, WheelsProper
<1>5. (\A c \in C : Proper(c)) /\ (\A c \in D : Proper(c))
  BY LightsProper, DutiesProper
<1>6. (\A c \in E : Proper(c)) /\ (\A c \in F : Proper(c)) /\ (\A c \in G : Proper(c))
  BY <1>1, <1>2, SensorProper
<1> HIDE DEF A, B, C, D, E, F, G
<1>7. \A c \in ProperCalls : Proper(c)
  BY <1>3, <1>4, <1>5, <1>6, PlainProper, OfAByteProper
<1> QED
  BY <1>7 DEF ProperRequests

================================================================================
