----------------------------- MODULE FastSerial -----------------------------
(***************************************************************************)
(* The serial port of the IMU's firmware (FastSerial.cpp, FastSerial.h):   *)
(* two ring buffers, each shared between the main loop and an interrupt    *)
(* handler.  A handler runs between any two accesses of the main loop and  *)
(* is itself not interrupted.  head and tail have 16 bits on a processor    *)
(* of 8; in a ring of at most 256 bytes, which is all the firmware asks     *)
(* for, one byte of them ever changes, and they are read and written at     *)
(* once.                                                                    *)
(***************************************************************************)
EXTENDS Integers, Sequences

CONSTANTS
  Data,     \* the bytes on the line
  Zero,     \* what malloc'ed memory is taken to hold
  Requests, \* the buffer sizes begin is called with: <<rxSpace, txSpace>>
  Calls     \* the operations the firmware uses, of those below

ASSUME PortAssumption ==
  /\ Zero \in Data
  /\ Requests \subseteq (0..256) \X (0..256)
  /\ Calls \subseteq {"begin", "end", "write", "read"}

BUFFER_MAX == 512

\* _allocBuffer: the power of 2 from size up (at least 2), at most BUFFER_MAX.
RingSize(size) ==
  LET wanted == IF size < BUFFER_MAX THEN size ELSE BUFFER_MAX
  IN CHOOSE n \in {2, 4, 8, 16, 32, 64, 128, 256, 512} :
       /\ n >= wanted
       /\ \A k \in {2, 4, 8, 16, 32, 64, 128, 256, 512} : k >= wanted => n <= k

RX_BUFFER_SIZE == 128
TX_BUFFER_SIZE == 64

\* A request for no space is one for the default.
Space(request, default) == IF request = 0 THEN default ELSE request

\* A ring of n bytes; n = 1 (mask 0, no memory) once it is freed.
Ring(n) == [head |-> 0, tail |-> 0, size |-> n, bytes |-> [i \in 0..(n-1) |-> Zero]]
Freed   == Ring(1)

\* Bug: the mask is forgotten.
Unmasked(ring, i) == i + 1

\* (i + 1) & mask
After(ring, i) == IF i + 1 = ring.size THEN 0 ELSE i + 1

\* The bytes a ring holds, oldest first.
Used(ring) == IF ring.head >= ring.tail THEN ring.head - ring.tail
              ELSE ring.head - ring.tail + ring.size
Cell(ring, k) == IF ring.tail + k < ring.size THEN ring.tail + k
                 ELSE ring.tail + k - ring.size
Contents(ring) == [k \in 1..Used(ring) |-> ring.bytes[Cell(ring, k - 1)]]

----------------------------------------------------------------------------
VARIABLES
  open,
  rx, tx,   \* _rxBuffer, _txBuffer
  udrie,    \* the data-register-empty interrupt is enabled (_portTxBits)
  pc,       \* main: "idle", write's "wait", "store", "publish", "enable",
            \*       read's "load", "advance"
  c, i,     \* write's argument and the head to be
  got,      \* read's c
  result,   \* what read returned last
  udr,      \* the byte given to the transmitter last
  rxudr, rxc \* the receiver: its register, and whether it is full

mainVars == <<pc, c, i, got>>
vars == <<open, rx, tx, udrie, mainVars, result, udr, rxudr, rxc>>

Init ==
  /\ open = FALSE
  /\ rx = Freed /\ tx = Freed
  /\ udrie = FALSE
  /\ pc = "idle" /\ c = Zero /\ i = 0 /\ got = Zero
  /\ result = Zero /\ udr = Zero
  /\ rxudr = Zero /\ rxc = FALSE

Goto(from, to) == pc = from /\ pc' = to

----------------------------------------------------------------------------
(* begin and end.  The port's interrupts are off from end's first line to  *)
(* begin's last, so nothing comes in between.                               *)

\* end, also when malloc fails in begin; the receiver is switched off too.
Closed ==
  /\ open' = FALSE
  /\ rx' = Freed /\ tx' = Freed
  /\ udrie' = FALSE /\ rxc' = FALSE

End ==
  /\ "end" \in Calls /\ pc = "idle"
  /\ Closed
  /\ UNCHANGED <<mainVars, result, udr, rxudr>>

Begin ==
  /\ "begin" \in Calls /\ pc = "idle"
  /\ \/ Closed
     \/ \E r \in Requests :
          /\ open' = TRUE
          /\ rx' = Ring(RingSize(Space(r[1], RX_BUFFER_SIZE)))
          /\ tx' = Ring(RingSize(Space(r[2], TX_BUFFER_SIZE)))
          /\ udrie' = (udrie /\ ~open)
          /\ rxc' = FALSE
  /\ UNCHANGED <<mainVars, result, udr, rxudr>>

----------------------------------------------------------------------------
(* write *)

\* A byte for a port that is not open is dropped.
Write ==
  /\ "write" \in Calls /\ open /\ Goto("idle", "wait")
  /\ c' \in Data
  /\ i' = After(tx, tx.head)
  /\ UNCHANGED <<open, rx, tx, udrie, got, result, udr, rxudr, rxc>>

\* Bug: the wait is forgotten.
AlwaysRoom(ring, next) == TRUE

\* while (i == tail) ;
Room(ring, next) == next # ring.tail

\* Bug: head moves before the byte is in its cell.
PublishFirst(p) ==
  CASE p = "wait"    -> "publish"
    [] p = "publish" -> "store"
    [] p = "store"   -> "enable"
    [] p = "enable"  -> "idle"

\* Bug: the interrupt is enabled before there is something to send.
EnableFirst(p) ==
  CASE p = "wait"    -> "store"
    [] p = "store"   -> "enable"
    [] p = "enable"  -> "publish"
    [] p = "publish" -> "idle"

\* The order of write's last three lines.
NextStep(p) ==
  CASE p = "wait"    -> "store"
    [] p = "store"   -> "publish"
    [] p = "publish" -> "enable"
    [] p = "enable"  -> "idle"

WaitForRoom ==
  /\ Goto("wait", NextStep("wait")) /\ Room(tx, i)
  /\ UNCHANGED <<open, rx, tx, udrie, c, i, got, result, udr, rxudr, rxc>>

Store ==
  /\ Goto("store", NextStep("store"))
  /\ tx' = [tx EXCEPT !.bytes[tx.head] = c]
  /\ UNCHANGED <<open, rx, udrie, c, i, got, result, udr, rxudr, rxc>>

Publish ==
  /\ Goto("publish", NextStep("publish"))
  /\ tx' = [tx EXCEPT !.head = i]
  /\ UNCHANGED <<open, rx, udrie, c, i, got, result, udr, rxudr, rxc>>

Enable ==
  /\ Goto("enable", NextStep("enable"))
  /\ udrie' = TRUE
  /\ UNCHANGED <<open, rx, tx, c, i, got, result, udr, rxudr, rxc>>

----------------------------------------------------------------------------
(* read; available and peek change nothing, and the firmware never calls  *)
(* flush (see the README).                                                 *)

Read ==
  /\ "read" \in Calls /\ open /\ rx.head # rx.tail
  /\ Goto("idle", "load")
  /\ UNCHANGED <<open, rx, tx, udrie, c, i, got, result, udr, rxudr, rxc>>

Load ==
  /\ Goto("load", "advance")
  /\ got' = rx.bytes[rx.tail]
  /\ UNCHANGED <<open, rx, tx, udrie, c, i, result, udr, rxudr, rxc>>

Advance ==
  /\ Goto("advance", "idle")
  /\ rx' = [rx EXCEPT !.tail = After(rx, rx.tail)]
  /\ result' = got
  /\ UNCHANGED <<open, tx, udrie, c, i, got, udr, rxudr, rxc>>

----------------------------------------------------------------------------
(* The interrupt handlers, and the receiver. *)

\* The transmitter can take a byte.
Transmit ==
  /\ udrie
  /\ \/ /\ tx.tail # tx.head
        /\ udr' = tx.bytes[tx.tail]
        /\ tx' = [tx EXCEPT !.tail = After(tx, @)]
        /\ UNCHANGED udrie
     \/ /\ tx.tail = tx.head
        /\ udrie' = FALSE
        /\ UNCHANGED <<udr, tx>>
  /\ UNCHANGED <<open, rx, mainVars, result, rxudr, rxc>>

\* A byte arrives from the line.
Arrive ==
  /\ open /\ ~rxc /\ rxc' = TRUE
  /\ rxudr' \in Data
  /\ UNCHANGED <<open, rx, tx, udrie, mainVars, result, udr>>

\* Bug: the handler does not look whether there is space.
AlwaysFits(ring) == TRUE

\* if (i != tail)
Fits(ring) == After(ring, ring.head) # ring.tail

\* The handler drops a byte for which there is no space.
Receive ==
  /\ rxc /\ rxc' = FALSE
  /\ rx' = IF Fits(rx)
           THEN [rx EXCEPT !.bytes[rx.head] = rxudr, !.head = After(rx, @)]
           ELSE rx
  /\ UNCHANGED <<open, tx, udrie, mainVars, result, udr, rxudr>>

----------------------------------------------------------------------------

WriteStep == WaitForRoom \/ Store \/ Publish \/ Enable
ReadStep  == Load \/ Advance
MainStep  == WriteStep \/ ReadStep

Next ==
  \/ Begin \/ End \/ Write \/ Read
  \/ MainStep
  \/ Transmit \/ Arrive \/ Receive

\* The processor goes on, and an enabled interrupt is served.
Fairness == WF_vars(MainStep) /\ WF_vars(Transmit) /\ WF_vars(Receive)

Spec     == Init /\ [][Next]_vars
FairSpec == Spec /\ Fairness

----------------------------------------------------------------------------
(* Properties *)

RingOK(ring) ==
  /\ ring.size \in Nat \ {0}
  /\ ring.head \in 0..(ring.size - 1) /\ ring.tail \in 0..(ring.size - 1)
  /\ ring.bytes \in [0..(ring.size - 1) -> Data]
  /\ DOMAIN ring = {"head", "tail", "size", "bytes"}

TypeOK ==
  /\ open \in BOOLEAN
  /\ RingOK(rx) /\ RingOK(tx)
  /\ udrie \in BOOLEAN
  /\ pc \in {"idle", "wait", "store", "publish", "enable", "load", "advance"}
  /\ c \in Data /\ got \in Data /\ i \in Nat
  /\ result \in Data /\ udr \in Data /\ rxudr \in Data /\ rxc \in BOOLEAN

\* What write has put into the transmit buffer leaves it through the handler
\* in order, none lost and none twice, wherever the handler interrupts write.
TxQueue == INSTANCE ByteQueue WITH
  Lossy <- FALSE,
  queue <- Contents(tx), capacity <- tx.size - 1,
  in <- c, pending <- pc \in {"wait", "store", "publish"}, out <- udr
TxInOrder == TxQueue!Spec

\* What the handler receives comes out of read in order; only what arrives
\* while the buffer is full is lost.
RxQueue == INSTANCE ByteQueue WITH
  Lossy <- TRUE,
  queue <- Contents(rx), capacity <- rx.size - 1,
  in <- rxudr, pending <- rxc, out <- result
RxInOrder == RxQueue!Spec

\* Between two writes a byte that waits to be sent has its interrupt enabled:
\* the handler, which switches it off when it finds the buffer empty, never
\* does so over a byte that write is about to publish.
Armed == pc # "enable" /\ tx.head # tx.tail => udrie

\* write comes back, also from a full buffer.
WriteReturns == pc = "wait" ~> pc = "idle"

=============================================================================
