------------------------- MODULE FastSerial_proofs -------------------------
(***************************************************************************)
(* Both rings of FastSerial implement ByteQueue, for rings of every size.  *)
(* The proof is about one ring first: what storing a byte, moving head and *)
(* moving tail do to its contents.                                         *)
(***************************************************************************)
EXTENDS FastSerial, TLAPS

\* The size begin is asked for is a number.
LEMMA SpaceNat ==
  ASSUME NEW r \in Nat, NEW d \in Nat
  PROVE  Space(r, d) \in Nat
BY DEF Space

\* A ring has at least two cells.
LEMMA RingSizeType ==
  ASSUME NEW size \in Nat
  PROVE  RingSize(size) \in Nat \ {0}
<1> DEFINE wanted == IF size < BUFFER_MAX THEN size ELSE BUFFER_MAX
           Sizes  == {2, 4, 8, 16, 32, 64, 128, 256, 512}
           Fit(n) == /\ n >= wanted
                     /\ \A k \in Sizes : k >= wanted => n <= k
<1>1. wanted \in Nat /\ wanted <= 512
  BY DEF BUFFER_MAX
<1>2. \E n \in Sizes : Fit(n)
  <2>1. CASE wanted <= 2                     BY <2>1, <1>1
  <2>2. CASE wanted > 2 /\ wanted <= 4       BY <2>2, <1>1
  <2>3. CASE wanted > 4 /\ wanted <= 8       BY <2>3, <1>1
  <2>4. CASE wanted > 8 /\ wanted <= 16      BY <2>4, <1>1
  <2>5. CASE wanted > 16 /\ wanted <= 32     BY <2>5, <1>1
  <2>6. CASE wanted > 32 /\ wanted <= 64     BY <2>6, <1>1
  <2>7. CASE wanted > 64 /\ wanted <= 128    BY <2>7, <1>1
  <2>8. CASE wanted > 128 /\ wanted <= 256   BY <2>8, <1>1
  <2>9. CASE wanted > 256                    BY <2>9, <1>1
  <2> QED
    BY <1>1, <2>1, <2>2, <2>3, <2>4, <2>5, <2>6, <2>7, <2>8, <2>9
<1>3. RingSize(size) = CHOOSE n \in Sizes : Fit(n)
  BY DEF RingSize
<1>4. RingSize(size) \in Sizes
  <2> HIDE DEF Fit
  <2> QED BY <1>2, <1>3
<1> QED
  BY <1>4

\* A new ring is well formed and empty.
LEMMA NewRing ==
  ASSUME NEW n \in Nat \ {0}
  PROVE  /\ RingOK(Ring(n))
         /\ Contents(Ring(n)) = <<>>
<1>1. RingOK(Ring(n))
  BY PortAssumption DEF RingOK, Ring
<1>2. Used(Ring(n)) = 0
  BY DEF Used, Ring
<1>3. Contents(Ring(n)) = <<>>
  BY <1>2 DEF Contents
<1> QED
  BY <1>1, <1>3

\* A freed ring is well formed and empty, with no place for a byte.
LEMMA FreedRing == RingOK(Freed) /\ Contents(Freed) = <<>> /\ Freed.size = 1
<1>1. RingOK(Ring(1)) /\ Contents(Ring(1)) = <<>>
  BY NewRing
<1>2. Ring(1).size = 1
  BY DEF Ring
<1> QED
  BY <1>1, <1>2 DEF Freed

\* The bytes a ring holds lie in cells of its own, none of them under the head.
LEMMA UsedRange ==
  ASSUME NEW ring, RingOK(ring)
  PROVE  /\ Used(ring) \in 0..(ring.size - 1)
         /\ Used(ring) = 0 <=> ring.head = ring.tail
         /\ \A k \in 0..(Used(ring) - 1) : Cell(ring, k) \in 0..(ring.size - 1)
         /\ \A k \in 0..(Used(ring) - 1) : Cell(ring, k) # ring.head
<1>1. /\ ring.size \in Nat \ {0}
      /\ ring.head \in 0..(ring.size - 1) /\ ring.tail \in 0..(ring.size - 1)
  BY DEF RingOK
<1>2. CASE ring.head >= ring.tail
  <2>1. Used(ring) = ring.head - ring.tail
    BY <1>2 DEF Used
  <2>2. \A k \in 0..(Used(ring) - 1) : Cell(ring, k) = ring.tail + k
    BY <1>1, <2>1 DEF Cell
  <2> QED
    BY <1>1, <1>2, <2>1, <2>2
<1>3. CASE ~(ring.head >= ring.tail)
  <2>1. Used(ring) = ring.head - ring.tail + ring.size
    BY <1>3 DEF Used
  <2>2. \A k \in 0..(Used(ring) - 1) :
          \/ Cell(ring, k) = ring.tail + k /\ ring.tail + k < ring.size
          \/ Cell(ring, k) = ring.tail + k - ring.size /\ ring.tail + k >= ring.size
    BY <1>1, <2>1 DEF Cell
  <2> QED
    BY <1>1, <1>3, <2>1, <2>2
<1> QED
  BY <1>2, <1>3

\* What a ring holds is a sequence as long as the distance of head and tail.
LEMMA ContentsType ==
  ASSUME NEW ring, RingOK(ring)
  PROVE  /\ Contents(ring) \in Seq(Data)
         /\ Len(Contents(ring)) = Used(ring)
<1>1. Used(ring) \in Nat
  BY UsedRange
<1>2. \A k \in 1..Used(ring) : ring.bytes[Cell(ring, k - 1)] \in Data
  <2> TAKE k \in 1..Used(ring)
  <2>1. k - 1 \in 0..(Used(ring) - 1)
    BY <1>1
  <2>2. Cell(ring, k - 1) \in 0..(ring.size - 1)
    BY <2>1, UsedRange
  <2> QED
    BY <2>2 DEF RingOK
<1>3. Contents(ring) \in [1..Used(ring) -> Data]
  BY <1>2 DEF Contents
<1> QED
  BY <1>1, <1>3

\* new is ring with b stored at head.
StoredIn(new, ring, b) ==
  /\ new.head = ring.head /\ new.tail = ring.tail /\ new.size = ring.size
  /\ new.bytes = [ring.bytes EXCEPT ![ring.head] = b]
  /\ DOMAIN new = DOMAIN ring

\* A byte stored at head is not yet one of the contents.
LEMMA StoreKeeps ==
  ASSUME NEW ring, RingOK(ring), NEW b \in Data,
         NEW new, StoredIn(new, ring, b)
  PROVE  /\ RingOK(new)
         /\ Contents(new) = Contents(ring)
         /\ new.bytes[new.head] = b
<1>1. /\ new.head = ring.head /\ new.tail = ring.tail /\ new.size = ring.size
      /\ new.bytes = [ring.bytes EXCEPT ![ring.head] = b]
      /\ DOMAIN new = DOMAIN ring
  BY DEF StoredIn
<1>2. RingOK(new) /\ new.bytes[new.head] = b
  BY <1>1 DEF RingOK
<1>3. Used(new) = Used(ring) /\ \A k : Cell(new, k) = Cell(ring, k)
  BY <1>1 DEF Used, Cell
<1>4. \A k \in 1..Used(ring) :
        new.bytes[Cell(new, k - 1)] = ring.bytes[Cell(ring, k - 1)]
  <2> TAKE k \in 1..Used(ring)
  <2>1. k - 1 \in 0..(Used(ring) - 1)
    BY UsedRange
  <2>2. Cell(ring, k - 1) \in 0..(ring.size - 1) /\ Cell(ring, k - 1) # ring.head
    BY <2>1, UsedRange
  <2> QED
    BY <1>1, <1>3, <2>2 DEF RingOK
<1>5. Contents(new) = Contents(ring)
  BY <1>3, <1>4 DEF Contents
<1> QED
  BY <1>1, <1>2, <1>5

\* Moving head over the byte stored there appends it.
LEMMA HeadAppends ==
  ASSUME NEW ring, RingOK(ring), Room(ring, After(ring, ring.head)),
         NEW new, new = [ring EXCEPT !.head = After(ring, ring.head)]
  PROVE  /\ RingOK(new)
         /\ Used(ring) < ring.size - 1
         /\ new.size = ring.size
         /\ new.head # new.tail
         /\ Contents(new) = Append(Contents(ring), ring.bytes[ring.head])
<1>1. /\ new.head = After(ring, ring.head) /\ new.tail = ring.tail
      /\ new.size = ring.size /\ new.bytes = ring.bytes
      /\ DOMAIN new = DOMAIN ring
  BY DEF RingOK
<1>2. RingOK(new) /\ new.head # new.tail
  BY <1>1 DEF RingOK, After, Room
<1>3. Used(new) = Used(ring) + 1 /\ Used(ring) < ring.size - 1
  BY <1>1 DEF RingOK, After, Used, Room
<1>4. \A k : Cell(new, k) = Cell(ring, k)
  BY <1>1 DEF Cell
<1>5. Cell(ring, Used(ring)) = ring.head
  BY DEF Cell, Used, RingOK
<1>6. Contents(new) = Append(Contents(ring), ring.bytes[ring.head])
  <2>1. /\ Contents(ring) \in Seq(Data) /\ Len(Contents(ring)) = Used(ring)
        /\ Contents(new) \in Seq(Data) /\ Len(Contents(new)) = Used(ring) + 1
    BY <1>2, <1>3, ContentsType
  <2>2. Append(Contents(ring), ring.bytes[ring.head]) \in Seq(Data)
    BY <2>1 DEF RingOK
  <2>3. Len(Append(Contents(ring), ring.bytes[ring.head])) = Used(ring) + 1
    BY <2>1
  <2>4. ASSUME NEW k \in 1..(Used(ring) + 1)
        PROVE  Contents(new)[k] = Append(Contents(ring), ring.bytes[ring.head])[k]
    <3>0. Used(ring) \in Nat
      BY UsedRange
    <3>1. Contents(new)[k] = ring.bytes[Cell(ring, k - 1)]
      BY <1>1, <1>3, <1>4 DEF Contents
    <3>2. CASE k = Used(ring) + 1
      BY <3>0, <3>1, <3>2, <1>5, <2>1
    <3>3. CASE k \in 1..Used(ring)
      <4>1. Contents(ring)[k] = ring.bytes[Cell(ring, k - 1)]
        BY <3>3 DEF Contents
      <4> QED
        BY <3>0, <3>1, <3>3, <4>1, <2>1
    <3>4. k = Used(ring) + 1 \/ k \in 1..Used(ring)
      BY <3>0
    <3> QED
      BY <3>2, <3>3, <3>4
  <2>5. \A s, t \in Seq(Data) :
           Len(s) = Len(t) /\ (\A k \in 1..Len(s) : s[k] = t[k]) => s = t
    OBVIOUS
  <2> QED
    BY <2>1, <2>2, <2>3, <2>4, <2>5
<1> QED
  BY <1>1, <1>2, <1>3, <1>6

\* Moving tail takes the oldest byte away.
LEMMA TailTakes ==
  ASSUME NEW ring, RingOK(ring), ring.head # ring.tail,
         NEW new, new = [ring EXCEPT !.tail = After(ring, ring.tail)]
  PROVE  /\ RingOK(new)
         /\ new.size = ring.size
         /\ Contents(ring) # <<>>
         /\ Head(Contents(ring)) = ring.bytes[ring.tail]
         /\ Contents(new) = Tail(Contents(ring))
<1>1. /\ new.tail = After(ring, ring.tail) /\ new.head = ring.head
      /\ new.size = ring.size /\ new.bytes = ring.bytes
      /\ DOMAIN new = DOMAIN ring
  BY DEF RingOK
<1>2. RingOK(new)
  BY <1>1 DEF RingOK, After
<1>3. Used(ring) \in Nat \ {0} /\ Used(new) = Used(ring) - 1
  BY <1>1 DEF RingOK, After, Used
<1>4. \A k \in 0..(Used(ring) - 2) : Cell(new, k) = Cell(ring, k + 1)
  <2> TAKE k \in 0..(Used(ring) - 2)
  <2>1. CASE ring.tail + 1 = ring.size
    BY <1>1, <1>3, <2>1 DEF Cell, After, Used, RingOK
  <2>2. CASE ring.tail + 1 # ring.size
    BY <1>1, <1>3, <2>2 DEF Cell, After, Used, RingOK
  <2> QED
    BY <2>1, <2>2
<1>5. /\ Contents(ring) \in Seq(Data) /\ Len(Contents(ring)) = Used(ring)
      /\ Contents(new) \in Seq(Data) /\ Len(Contents(new)) = Used(ring) - 1
  BY <1>2, <1>3, ContentsType
<1>6. Contents(ring) # <<>>
  BY <1>3, <1>5
<1>7. Head(Contents(ring)) = ring.bytes[ring.tail]
  <2>1. Cell(ring, 0) = ring.tail
    BY DEF Cell, RingOK
  <2>2. Contents(ring)[1] = ring.bytes[Cell(ring, 0)]
    BY <1>3 DEF Contents
  <2> QED
    BY <2>1, <2>2, <1>5, <1>6
<1>8. Contents(new) = Tail(Contents(ring))
  <2>1. /\ Tail(Contents(ring)) \in Seq(Data)
        /\ Len(Tail(Contents(ring))) = Used(ring) - 1
    BY <1>3, <1>5, <1>6
  <2>2. ASSUME NEW k \in 1..(Used(ring) - 1)
        PROVE  Contents(new)[k] = Tail(Contents(ring))[k]
    <3>1. Contents(new)[k] = ring.bytes[Cell(new, k - 1)]
      BY <1>1, <1>3 DEF Contents
    <3>2. k - 1 \in 0..(Used(ring) - 2) /\ (k - 1) + 1 = k
      BY <1>3
    <3>3. Cell(new, k - 1) = Cell(ring, (k - 1) + 1)
      BY <1>4, <3>2
    <3>4. k + 1 \in 1..Used(ring) /\ (k + 1) - 1 = k
      BY <1>3
    <3>5. Contents(ring)[k + 1] = ring.bytes[Cell(ring, k)]
      BY <3>4 DEF Contents
    <3>6. Tail(Contents(ring))[k] = Contents(ring)[k + 1]
      BY <1>3, <1>5, <1>6
    <3> QED
      BY <3>1, <3>2, <3>3, <3>5, <3>6
  <2>3. \A s, t \in Seq(Data) :
           Len(s) = Len(t) /\ (\A k \in 1..Len(s) : s[k] = t[k]) => s = t
    OBVIOUS
  <2> QED
    BY <1>3, <1>5, <2>1, <2>2, <2>3
<1> QED
  BY <1>1, <1>2, <1>6, <1>7, <1>8

----------------------------------------------------------------------------
(* The invariant: what write and read know about the rings between their  *)
(* steps, whatever the handlers do meanwhile.                              *)

WriteInv ==
  /\ pc \in {"wait", "store", "publish"} => i = After(tx, tx.head)
  /\ pc \in {"store", "publish"} => Room(tx, i)
  /\ pc = "publish" => tx.bytes[tx.head] = c

ReadInv ==
  /\ pc \in {"load", "advance"} => rx.head # rx.tail
  /\ pc = "advance" => got = rx.bytes[rx.tail]

Inv == TypeOK /\ WriteInv /\ ReadInv

\* The port starts closed, with rings that are freed.
LEMMA InitInv == Init => Inv /\ Armed
<1> SUFFICES ASSUME Init PROVE Inv /\ Armed
  OBVIOUS
<1>1. RingOK(Freed)
  BY NewRing DEF Freed
<1>2. TypeOK
  BY <1>1, PortAssumption DEF Init, TypeOK
<1>3. WriteInv /\ ReadInv
  BY DEF Init, WriteInv, ReadInv
<1>4. Armed
  BY DEF Init, Armed, Freed, Ring
<1> QED
  BY <1>2, <1>3, <1>4 DEF Inv

\* begin makes two rings of at least one place each, or none.
LEMMA BegunRings ==
  ASSUME Begin
  PROVE  /\ pc = "idle" /\ UNCHANGED <<mainVars, result, udr, rxudr>>
         /\ open' \in BOOLEAN /\ udrie' \in {udrie, FALSE} /\ rxc' = FALSE
         /\ RingOK(rx') /\ Contents(rx') = <<>> /\ rx'.size \in Nat \ {0}
         /\ RingOK(tx') /\ Contents(tx') = <<>> /\ tx'.size \in Nat \ {0}
         /\ tx'.head = tx'.tail
<1>1. pc = "idle" /\ UNCHANGED <<mainVars, result, udr, rxudr>>
  BY DEF Begin
<1>2. \A n \in Nat \ {0} : Ring(n).size = n /\ Ring(n).head = Ring(n).tail
  BY DEF Ring
<1>3. CASE Closed
  <2>1. RingOK(Ring(1)) /\ Contents(Ring(1)) = <<>> /\ 1 \in Nat \ {0}
    BY NewRing
  <2> QED
    BY <1>1, <1>2, <1>3, <2>1 DEF Closed, Freed
<1>4. CASE \E r \in Requests :
             /\ open' = TRUE
             /\ rx' = Ring(RingSize(Space(r[1], RX_BUFFER_SIZE)))
             /\ tx' = Ring(RingSize(Space(r[2], TX_BUFFER_SIZE)))
             /\ udrie' = (udrie /\ ~open)
             /\ rxc' = FALSE
  <2> PICK r \in Requests :
             /\ open' = TRUE
             /\ rx' = Ring(RingSize(Space(r[1], RX_BUFFER_SIZE)))
             /\ tx' = Ring(RingSize(Space(r[2], TX_BUFFER_SIZE)))
             /\ udrie' = (udrie /\ ~open)
             /\ rxc' = FALSE
    BY <1>4
  <2>1. r[1] \in Nat /\ r[2] \in Nat
    BY PortAssumption
  <2>2. /\ Space(r[1], RX_BUFFER_SIZE) \in Nat
        /\ Space(r[2], TX_BUFFER_SIZE) \in Nat
    BY <2>1, SpaceNat DEF RX_BUFFER_SIZE, TX_BUFFER_SIZE
  <2>3. /\ RingSize(Space(r[1], RX_BUFFER_SIZE)) \in Nat \ {0}
        /\ RingSize(Space(r[2], TX_BUFFER_SIZE)) \in Nat \ {0}
    BY <2>2, RingSizeType
  <2>4. /\ RingOK(rx') /\ Contents(rx') = <<>> /\ rx'.size \in Nat \ {0}
        /\ RingOK(tx') /\ Contents(tx') = <<>> /\ tx'.size \in Nat \ {0}
        /\ tx'.head = tx'.tail
    BY <2>3, <1>2, NewRing
  <2>5. udrie' \in {udrie, FALSE}
    OBVIOUS
  <2> QED
    BY <1>1, <2>4, <2>5
<1> QED
  BY <1>3, <1>4 DEF Begin

\* Every access of the main loop and of a handler keeps the invariant.
LEMMA NextInv == Inv /\ Armed /\ [Next]_vars => Inv' /\ Armed'
<1> SUFFICES ASSUME Inv, Armed, [Next]_vars PROVE Inv' /\ Armed'
  OBVIOUS
<1>0. TypeOK /\ WriteInv /\ ReadInv /\ RingOK(rx) /\ RingOK(tx)
  BY DEF Inv, TypeOK
<1> USE DEF Inv, mainVars
<1>1. CASE Begin
  <2>1. RingOK(rx') /\ RingOK(tx') /\ tx'.head = tx'.tail /\ pc' = "idle"
    BY <1>1, BegunRings
  <2>2. TypeOK'
    BY <1>0, <1>1, <2>1, BegunRings DEF TypeOK
  <2> QED
    BY <2>1, <2>2 DEF WriteInv, ReadInv, Armed
<1>2. CASE End
  <2>0. RingOK(Ring(1))
    BY NewRing
  <2>1. RingOK(Freed) /\ Freed.head = Freed.tail
    BY <2>0 DEF Freed, Ring
  <2>2. TypeOK'
    BY <1>0, <1>2, <2>1 DEF End, Closed, TypeOK
  <2> QED
    BY <1>2, <2>1, <2>2 DEF End, Closed, WriteInv, ReadInv, Armed
<1>3. CASE Write
  <2>1. After(tx, tx.head) \in Nat
    BY <1>0 DEF RingOK, After
  <2>2. TypeOK'
    BY <1>0, <1>3, <2>1 DEF Write, Goto, TypeOK
  <2> QED
    BY <1>0, <1>3, <2>2 DEF Write, Goto, WriteInv, ReadInv, Armed
<1>4. CASE Read
  BY <1>0, <1>4 DEF Read, Goto, TypeOK, WriteInv, ReadInv, Armed
<1>5. CASE WaitForRoom
  BY <1>0, <1>5 DEF WaitForRoom, Goto, NextStep, TypeOK, WriteInv, ReadInv, Armed
<1>6. CASE Store
  <2>1. /\ pc = "store" /\ pc' = "publish" /\ i = After(tx, tx.head) /\ Room(tx, i)
        /\ c \in Data /\ tx' = [tx EXCEPT !.bytes[tx.head] = c]
        /\ UNCHANGED <<open, rx, udrie, c, i, got, result, udr, rxudr, rxc>>
    BY <1>0, <1>6 DEF Store, Goto, NextStep, WriteInv, TypeOK
  <2>2. /\ RingOK(tx') /\ tx'.bytes[tx'.head] = c /\ tx'.head = tx.head
        /\ tx'.tail = tx.tail /\ tx'.size = tx.size
    <3>1. StoredIn(tx', tx, c)
      BY <1>0, <2>1 DEF StoredIn, RingOK
    <3>2. RingOK(tx') /\ tx'.bytes[tx'.head] = c
      BY <1>0, <2>1, <3>1, StoreKeeps
    <3> QED
      BY <3>1, <3>2 DEF StoredIn
  <2>3. TypeOK'
    BY <1>0, <2>1, <2>2 DEF TypeOK
  <2>4. WriteInv' /\ ReadInv' /\ Armed'
    BY <1>0, <2>1, <2>2 DEF WriteInv, ReadInv, Armed, After, Room
  <2> QED
    BY <2>3, <2>4
<1>7. CASE Publish
  <2>1. /\ pc = "publish" /\ pc' = "enable" /\ i = After(tx, tx.head) /\ Room(tx, i)
        /\ tx' = [tx EXCEPT !.head = i]
        /\ UNCHANGED <<open, rx, udrie, c, i, got, result, udr, rxudr, rxc>>
    BY <1>0, <1>7 DEF Publish, Goto, NextStep, WriteInv
  <2>2. RingOK(tx')
    BY <1>0, <2>1, HeadAppends
  <2>3. TypeOK'
    BY <1>0, <2>1, <2>2 DEF TypeOK
  <2>4. WriteInv' /\ ReadInv' /\ Armed'
    BY <1>0, <2>1 DEF WriteInv, ReadInv, Armed
  <2> QED
    BY <2>3, <2>4
<1>8. CASE Enable
  BY <1>0, <1>8 DEF Enable, Goto, NextStep, TypeOK, WriteInv, ReadInv, Armed
<1>9. CASE Load
  <2>1. rx.bytes[rx.tail] \in Data
    BY <1>0 DEF RingOK
  <2> QED
    BY <1>0, <1>9, <2>1 DEF Load, Goto, TypeOK, WriteInv, ReadInv, Armed
<1>10. CASE Advance
  <2>1. rx.head # rx.tail /\ rx' = [rx EXCEPT !.tail = After(rx, rx.tail)]
    BY <1>0, <1>10 DEF Advance, Goto, ReadInv
  <2>2. RingOK(rx')
    BY <1>0, <2>1, TailTakes
  <2>3. TypeOK'
    BY <1>0, <1>10, <2>2 DEF Advance, Goto, TypeOK
  <2> QED
    BY <1>0, <1>10, <2>3 DEF Advance, Goto, WriteInv, ReadInv, Armed
<1>11. CASE Transmit
  <2>1. CASE /\ tx.tail # tx.head /\ udrie
             /\ udr' = tx.bytes[tx.tail]
             /\ tx' = [tx EXCEPT !.tail = After(tx, @)]
             /\ UNCHANGED <<udrie, open, rx, mainVars, result, rxudr, rxc>>
    <3>1. RingOK(tx') /\ tx'.size = tx.size
      BY <1>0, <2>1, TailTakes
    <3>2. tx'.head = tx.head /\ tx'.bytes = tx.bytes /\ tx'.tail = After(tx, tx.tail)
      BY <1>0, <2>1 DEF RingOK
    <3>3. tx.bytes[tx.tail] \in Data
      BY <1>0 DEF RingOK
    <3>4. TypeOK'
      BY <1>0, <2>1, <3>1, <3>3 DEF TypeOK
    <3>5. Room(tx, i) /\ i = After(tx, tx.head) => Room(tx', i)
      BY <1>0, <2>1, <3>2 DEF Room, After, RingOK
    <3>6. After(tx', tx'.head) = After(tx, tx.head)
      BY <3>1, <3>2 DEF After
    <3>7. WriteInv'
      BY <1>0, <2>1, <3>2, <3>5, <3>6 DEF WriteInv
    <3> QED
      BY <1>0, <2>1, <3>4, <3>7 DEF ReadInv, Armed
  <2>2. CASE /\ tx.tail = tx.head /\ udrie' = FALSE
             /\ UNCHANGED <<udr, tx, open, rx, mainVars, result, rxudr, rxc>>
    BY <1>0, <2>2 DEF TypeOK, WriteInv, ReadInv, Armed
  <2> QED
    BY <1>11, <2>1, <2>2 DEF Transmit
<1>12. CASE Arrive
  BY <1>0, <1>12 DEF Arrive, TypeOK, WriteInv, ReadInv, Armed
<1>13. CASE Receive
  <2>1. CASE Fits(rx)
    <3> DEFINE stored == [rx EXCEPT !.bytes[rx.head] = rxudr]
    <3>1. rxudr \in Data
      BY <1>0 DEF TypeOK
    <3>s. StoredIn(stored, rx, rxudr)
      BY <1>0 DEF RingOK, StoredIn
    <3>2. /\ RingOK(stored) /\ stored.head = rx.head /\ stored.tail = rx.tail
          /\ stored.size = rx.size
      <4>1. RingOK(stored)
        BY <1>0, <3>1, <3>s, StoreKeeps
      <4> QED
        BY <3>s, <4>1 DEF StoredIn
    <3>3. stored.bytes = [rx.bytes EXCEPT ![rx.head] = rxudr]
      BY <3>s DEF StoredIn
    <3>4. rx' = [stored EXCEPT !.head = After(stored, stored.head)]
      BY <1>0, <1>13, <2>1, <3>2 DEF Receive, RingOK, After
    <3>5. After(stored, stored.head) = After(rx, rx.head)
      BY <3>2 DEF After
    <3>6. Room(stored, After(stored, stored.head))
      BY <2>1, <3>2, <3>5 DEF Fits, Room
    <3>7. RingOK(rx') /\ rx'.head # rx'.tail
      BY <3>2, <3>4, <3>6, HeadAppends
    <3>8. TypeOK'
      BY <1>0, <1>13, <3>7 DEF Receive, TypeOK
    <3>9. rx'.tail = rx.tail /\ rx'.bytes = stored.bytes
      BY <3>2, <3>4 DEF RingOK
    <3>10. rx.head # rx.tail => rx'.bytes[rx'.tail] = rx.bytes[rx.tail]
      BY <1>0, <3>3, <3>9 DEF RingOK
    <3> QED
      BY <1>0, <1>13, <3>7, <3>8, <3>10 DEF Receive, WriteInv, ReadInv, Armed
  <2>2. CASE ~Fits(rx)
    BY <1>0, <1>13, <2>2 DEF Receive, TypeOK, WriteInv, ReadInv, Armed
  <2> QED
    BY <2>1, <2>2
<1>14. CASE UNCHANGED vars
  BY <1>0, <1>14 DEF vars, TypeOK, RingOK, WriteInv, ReadInv, After, Room, Armed
<1> QED
  BY <1>1, <1>2, <1>3, <1>4, <1>5, <1>6, <1>7, <1>8, <1>9, <1>10, <1>11, <1>12,
     <1>13, <1>14 DEF Next, MainStep, WriteStep, ReadStep

\* The invariant holds for ever.
LEMMA Invariant == Spec => [](Inv /\ Armed)
BY InitInv, NextInv, PTL DEF Spec

\* Every variable of the port keeps its type: head and tail stay inside the
\* ring whatever its size.
THEOREM PortTypeCorrect == Spec => []TypeOK
BY Invariant, PTL DEF Inv

\* A byte that waits to be sent has its interrupt enabled, whichever step of
\* write the handler interrupts.
THEOREM AlwaysArmed == Spec => []Armed
BY Invariant, PTL

----------------------------------------------------------------------------
(* The refinements. *)

\* The transmit ring starts as an empty queue.
LEMMA TxInit == Init => TxQueue!Init
<1> SUFFICES ASSUME Init PROVE TxQueue!Init
  OBVIOUS
<1>1. Contents(Freed) = <<>> /\ Freed.size = 1
  BY FreedRing
<1> QED
  BY <1>1, PortAssumption DEF Init, TxQueue!Init

\* Every step is one of the lossless queue, seen through the transmit ring.
LEMMA TxStep == Inv /\ Inv' /\ [Next]_vars => [TxQueue!Next]_(TxQueue!qvars)
<1> SUFFICES ASSUME Inv, Inv', [Next]_vars
             PROVE  TxQueue!Next \/ UNCHANGED TxQueue!qvars
  OBVIOUS
<1>0. TypeOK /\ WriteInv /\ RingOK(tx)
  BY DEF Inv, TypeOK
<1> USE DEF mainVars
<1>1. CASE Begin
  <2>1. /\ pc = "idle" /\ pc' = "idle" /\ c' = c /\ udr' = udr
        /\ Contents(tx') = <<>> /\ tx'.size - 1 \in Nat
    BY <1>1, BegunRings
  <2> QED
    BY <2>1 DEF TxQueue!Next, TxQueue!Clear
<1>2. CASE End
  <2>1. Contents(Freed) = <<>> /\ Freed.size = 1
    BY FreedRing
  <2>2. /\ pc = "idle" /\ pc' = "idle" /\ c' = c /\ udr' = udr
        /\ Contents(tx') = <<>> /\ tx'.size - 1 \in Nat
    BY <1>2, <2>1 DEF End, Closed
  <2> QED
    BY <2>2 DEF TxQueue!Next, TxQueue!Clear
<1>3. CASE Write
  BY <1>0, <1>3 DEF Write, Goto, TxQueue!Next, TxQueue!Offer
<1>4. CASE Read \/ Load \/ Advance
  BY <1>4 DEF Read, Load, Advance, Goto, TxQueue!qvars
<1>5. CASE WaitForRoom
  BY <1>5 DEF WaitForRoom, Goto, NextStep, TxQueue!qvars
<1>6. CASE Store
  <2>1. /\ pc = "store" /\ pc' = "publish" /\ c \in Data
        /\ tx' = [tx EXCEPT !.bytes[tx.head] = c]
        /\ UNCHANGED <<c, udr>>
    BY <1>0, <1>6 DEF Store, Goto, NextStep, TypeOK
  <2>2. StoredIn(tx', tx, c)
    BY <1>0, <2>1 DEF StoredIn, RingOK
  <2>3. Contents(tx') = Contents(tx)
    BY <1>0, <2>1, <2>2, StoreKeeps
  <2>4. tx'.size = tx.size
    BY <2>2 DEF StoredIn
  <2> QED
    BY <2>1, <2>3, <2>4 DEF TxQueue!qvars
<1>7. CASE Publish
  <2>1. /\ pc = "publish" /\ pc' = "enable" /\ i = After(tx, tx.head) /\ Room(tx, i)
        /\ tx.bytes[tx.head] = c /\ tx' = [tx EXCEPT !.head = i]
        /\ UNCHANGED <<c, udr>>
    BY <1>0, <1>7 DEF Publish, Goto, NextStep, WriteInv
  <2>2. /\ Used(tx) < tx.size - 1 /\ tx'.size = tx.size
        /\ Contents(tx') = Append(Contents(tx), c)
    BY <1>0, <2>1, HeadAppends
  <2>3. Len(Contents(tx)) = Used(tx)
    BY <1>0, ContentsType
  <2> QED
    BY <2>1, <2>2, <2>3 DEF TxQueue!Next, TxQueue!Put
<1>8. CASE Enable
  BY <1>8 DEF Enable, Goto, NextStep, TxQueue!qvars
<1>9. CASE Transmit
  <2>1. CASE /\ tx.tail # tx.head /\ udrie
             /\ udr' = tx.bytes[tx.tail]
             /\ tx' = [tx EXCEPT !.tail = After(tx, @)]
             /\ UNCHANGED mainVars
    <3>1. /\ tx'.size = tx.size /\ Contents(tx) # <<>>
          /\ Head(Contents(tx)) = tx.bytes[tx.tail]
          /\ Contents(tx') = Tail(Contents(tx))
      BY <1>0, <2>1, TailTakes
    <3> QED
      BY <2>1, <3>1 DEF TxQueue!Next, TxQueue!Take
  <2>2. CASE UNCHANGED <<udr, tx, mainVars>>
    BY <2>2 DEF TxQueue!qvars
  <2> QED
    BY <1>9, <2>1, <2>2 DEF Transmit
<1>10. CASE Arrive \/ Receive
  BY <1>10 DEF Arrive, Receive, TxQueue!qvars
<1>11. CASE UNCHANGED vars
  BY <1>11 DEF vars, TxQueue!qvars
<1> QED
  BY <1>1, <1>2, <1>3, <1>4, <1>5, <1>6, <1>7, <1>8, <1>9, <1>10, <1>11
  DEF Next, MainStep, WriteStep, ReadStep

\* The transmit buffer implements the queue: what write is given leaves the
\* port in order, none lost and none twice, for rings of every size and
\* whatever step of write the handler interrupts.
THEOREM SendsInOrder == Spec => TxInOrder
BY Invariant, TxInit, TxStep, PTL DEF Spec, TxInOrder, TxQueue!Spec

\* The receive ring starts as an empty queue.
LEMMA RxInit == Init => RxQueue!Init
<1> SUFFICES ASSUME Init PROVE RxQueue!Init
  OBVIOUS
<1>1. Contents(Freed) = <<>> /\ Freed.size = 1
  BY FreedRing
<1> QED
  BY <1>1, PortAssumption DEF Init, RxQueue!Init

\* Every step is one of the lossy queue, seen through the receive ring.
LEMMA RxStep == Inv /\ Inv' /\ [Next]_vars => [RxQueue!Next]_(RxQueue!qvars)
<1> SUFFICES ASSUME Inv, Inv', [Next]_vars
             PROVE  RxQueue!Next \/ UNCHANGED RxQueue!qvars
  OBVIOUS
<1>0. TypeOK /\ ReadInv /\ RingOK(rx)
  BY DEF Inv, TypeOK
<1> USE DEF mainVars
<1>1. CASE Begin
  <2>1. /\ result' = result /\ rxudr' = rxudr /\ rxc' = FALSE
        /\ Contents(rx') = <<>> /\ rx'.size - 1 \in Nat
    BY <1>1, BegunRings
  <2> QED
    BY <2>1 DEF RxQueue!Next, RxQueue!Clear
<1>2. CASE End
  <2>1. Contents(Freed) = <<>> /\ Freed.size = 1
    BY FreedRing
  <2>2. /\ result' = result /\ rxudr' = rxudr /\ rxc' = FALSE
        /\ Contents(rx') = <<>> /\ rx'.size - 1 \in Nat
    BY <1>2, <2>1 DEF End, Closed
  <2> QED
    BY <2>2 DEF RxQueue!Next, RxQueue!Clear
<1>3. CASE Write \/ WaitForRoom \/ Store \/ Publish \/ Enable
  BY <1>3 DEF Write, WaitForRoom, Store, Publish, Enable, RxQueue!qvars
<1>4. CASE Read \/ Load
  BY <1>4 DEF Read, Load, RxQueue!qvars
<1>5. CASE Advance
  <2>1. /\ rx.head # rx.tail /\ got = rx.bytes[rx.tail] /\ result' = got
        /\ rx' = [rx EXCEPT !.tail = After(rx, rx.tail)]
        /\ UNCHANGED <<rxudr, rxc>>
    BY <1>0, <1>5 DEF Advance, Goto, ReadInv
  <2>2. /\ rx'.size = rx.size /\ Contents(rx) # <<>>
        /\ Head(Contents(rx)) = rx.bytes[rx.tail]
        /\ Contents(rx') = Tail(Contents(rx))
    BY <1>0, <2>1, TailTakes
  <2> QED
    BY <2>1, <2>2 DEF RxQueue!Next, RxQueue!Take
<1>6. CASE Transmit
  BY <1>6 DEF Transmit, RxQueue!qvars
<1>7. CASE Arrive
  BY <1>0, <1>7 DEF Arrive, RxQueue!Next, RxQueue!Offer
<1>8. CASE Receive
  <2>0. rxc /\ rxc' = FALSE /\ UNCHANGED <<result, rxudr>> /\ rxudr \in Data
    BY <1>0, <1>8 DEF Receive, TypeOK
  <2>1. CASE Fits(rx)
    <3> DEFINE stored == [rx EXCEPT !.bytes[rx.head] = rxudr]
    <3>1. StoredIn(stored, rx, rxudr)
      BY <1>0 DEF RingOK, StoredIn
    <3>2. /\ RingOK(stored) /\ Contents(stored) = Contents(rx)
          /\ stored.bytes[stored.head] = rxudr
      BY <1>0, <2>0, <3>1, StoreKeeps
    <3>3. rx' = [stored EXCEPT !.head = After(stored, stored.head)]
      BY <1>0, <1>8, <2>1, <3>1 DEF Receive, RingOK, After, StoredIn
    <3>4. Room(stored, After(stored, stored.head))
      BY <2>1, <3>1 DEF Fits, Room, After, StoredIn
    <3>5. stored.size = rx.size
      BY <3>1 DEF StoredIn
    <3> HIDE DEF stored
    <3>6. /\ Used(stored) < stored.size - 1 /\ rx'.size = stored.size
          /\ Contents(rx') = Append(Contents(stored), stored.bytes[stored.head])
      BY <3>2, <3>3, <3>4, HeadAppends
    <3>7. Len(Contents(stored)) = Used(stored)
      BY <3>2, ContentsType
    <3> QED
      BY <2>0, <3>2, <3>5, <3>6, <3>7 DEF RxQueue!Next, RxQueue!Put
  <2>2. CASE ~Fits(rx)
    <3>1. rx' = rx
      BY <1>8, <2>2 DEF Receive
    <3>2. Used(rx) = rx.size - 1
      BY <1>0, <2>2 DEF Fits, After, Used, RingOK
    <3>3. Len(Contents(rx)) = Used(rx)
      BY <1>0, ContentsType
    <3> QED
      BY <2>0, <3>1, <3>2, <3>3 DEF RxQueue!Next, RxQueue!Lose
  <2> QED
    BY <2>1, <2>2
<1>9. CASE UNCHANGED vars
  BY <1>9 DEF vars, RxQueue!qvars
<1> QED
  BY <1>1, <1>2, <1>3, <1>4, <1>5, <1>6, <1>7, <1>8, <1>9
  DEF Next, MainStep, WriteStep, ReadStep

\* The receive buffer implements the lossy queue: read returns what arrived,
\* in order, and only what came while the buffer was full is missing.
THEOREM ReceivesInOrder == Spec => RxInOrder
BY Invariant, RxInit, RxStep, PTL DEF Spec, RxInOrder, RxQueue!Spec

=============================================================================
