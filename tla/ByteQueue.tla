----------------------------- MODULE ByteQueue -----------------------------
(***************************************************************************)
(* What a ring buffer of FastSerial promises the two that share it: bytes  *)
(* come out in the order in which they went in, none twice and none lost,  *)
(* except that a lossy queue loses what is offered while it is full.       *)
(***************************************************************************)
EXTENDS Integers, Sequences

CONSTANTS
  Data,   \* the bytes
  Lossy   \* may a full queue lose what it is offered?

VARIABLES
  queue, capacity,
  in, pending,  \* the byte offered, and whether it still has to be taken in
  out           \* the byte that came out last

qvars == <<queue, capacity, in, pending, out>>

Init ==
  /\ queue = <<>> /\ capacity \in Nat
  /\ in \in Data /\ pending = FALSE /\ out \in Data

Offer ==
  /\ ~pending /\ pending' = TRUE
  /\ in' \in Data
  /\ UNCHANGED <<queue, capacity, out>>

Put ==
  /\ pending /\ pending' = FALSE
  /\ Len(queue) < capacity
  /\ queue' = Append(queue, in)
  /\ UNCHANGED <<capacity, in, out>>

Lose ==
  /\ Lossy /\ Len(queue) = capacity
  /\ pending /\ pending' = FALSE
  /\ UNCHANGED <<queue, capacity, in, out>>

Take ==
  /\ queue # <<>>
  /\ out' = Head(queue) /\ queue' = Tail(queue)
  /\ UNCHANGED <<capacity, in, pending>>

\* The port is closed or opened with another size, not while a byte that may
\* not be lost is on its way in.
Clear ==
  /\ Lossy \/ ~pending
  /\ queue' = <<>> /\ pending' = FALSE
  /\ capacity' \in Nat
  /\ UNCHANGED <<in, out>>

Next == Offer \/ Put \/ Lose \/ Take \/ Clear

Spec == Init /\ [][Next]_qvars

=============================================================================
