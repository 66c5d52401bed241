--------------------------- MODULE StatusNet_proofs ---------------------------
(***************************************************************************)
(* For any robots and any number of radars: the types, which bound the     *)
(* layers of the display, and that no robot is drawn behind the            *)
(* background.                                                             *)
(***************************************************************************)
EXTENDS StatusNet, FiniteSetTheorems, TLAPS

\* The layers the constructor has counted, and the robots that have one.
Fixed   == IF dpc \in {"radar", "readRadar"} THEN 1 + Radars - radarsLeft ELSE 0
Drawn   == {n \in Names : layer[n] >= 0}
Counted == Fixed + Cardinality(Drawn)

\* The types of the groups of variables.
ClientOK ==
  /\ client_status \in [Senders -> Status] /\ packet \in [Senders -> Status]
  /\ sender \in [Senders -> {"idle", "copied"}]
NetOK == host \in Hosts /\ net \subseteq Message
ServerOK ==
  /\ spc \in [Servers -> {"top", "select", "recv", "lock", "handle", "ended"}]
  /\ read_buff \in [Servers -> Message]
  /\ map_status \in [Servers -> [Robots -> Status]]
  /\ mpc \in [Servers -> {"running", "closing", "join", "closed"}]
  /\ status_cache_mutex \in [Servers -> {"free", "server", "gone"}]
DisplayOK ==
  /\ dpc \in {"listen", "pane", "read", "radar", "readRadar"}
  /\ radarsLeft \in 0..Radars
  /\ lpc \in {"receive", "recv", "new", "add", "set", "dead"}
  /\ stat \in Status /\ shown \in [Names -> Status]
  /\ {layer_count, creg, lreg} \subseteq Nat
  /\ layer \in [Names -> Int]
  /\ late \subseteq Names

\* layer_count and both threads' copies of it are at most the layers there
\* are, wherever the two threads interrupt each other; a robot that is about
\* to get a layer has none.
CountInv ==
  /\ layer_count <= Counted /\ creg <= Counted /\ lreg <= Counted
  /\ dpc \in {"listen", "pane", "read"} => radarsLeft = Radars
  /\ dpc = "readRadar" => radarsLeft > 0
  /\ lpc \in {"new", "add"} => layer[stat.uid] = -1
  /\ \A n \in Names : layer[n] \in -1..(Radars + Cardinality(Names))

\* Once the background is counted layer_count is never 0 again, and a robot
\* that is late gets a layer that was counted after that.
FrontInv ==
  /\ dpc \in {"radar", "readRadar"} => layer_count > 0
  /\ late # {} => dpc \in {"radar", "readRadar"}
  /\ lpc = "add" /\ stat.uid \in late => lreg > 0
  /\ InFront

IInv == ClientOK /\ NetOK /\ ServerOK /\ DisplayOK /\ CountInv /\ FrontInv

----------------------------------------------------------------------------
(* What is counted. *)

\* The names are finite in number.
LEMMA NamesFinite ==
  /\ IsFiniteSet(Names) /\ Cardinality(Names) \in Nat
  /\ Cardinality(Names) > 0 /\ Radars \in Nat
<1>1. IsFiniteSet(Names) /\ Cardinality(Names) \in Nat
  BY NetAssumption, FS_AddElement, FS_CardinalityType DEF NetAssumption, Names
<1>2. Names # {}
  BY DEF Names
<1> QED
  BY <1>1, <1>2, FS_EmptySet, NetAssumption DEF NetAssumption

\* There are at most 1 + Radars layers besides those of robots, and robots
\* that are drawn are robots.
LEMMA CountedRange ==
  ASSUME DisplayOK
  PROVE  /\ IsFiniteSet(Drawn) /\ Cardinality(Drawn) \in 0..Cardinality(Names)
         /\ Fixed \in 0..(1 + Radars)
         /\ \A n \in Names \ Drawn : Cardinality(Drawn) < Cardinality(Names)
<1>1. Drawn \in SUBSET Names
  BY DEF Drawn
<1>2. IsFiniteSet(Drawn) /\ Cardinality(Drawn) <= Cardinality(Names)
      /\ (Cardinality(Drawn) = Cardinality(Names) => Drawn = Names)
  BY <1>1, NamesFinite, FS_Subset
<1>3. Cardinality(Drawn) \in Nat
  BY <1>2, FS_CardinalityType
<1>4. Fixed \in 0..(1 + Radars)
  BY NamesFinite DEF DisplayOK, Fixed
<1> QED
  BY <1>2, <1>3, <1>4, NamesFinite

\* The bounds of the layers follow.
LEMMA TypesFollow == IInv => TypeOK
<1> SUFFICES ASSUME IInv PROVE TypeOK
  OBVIOUS
<1>1. Counted \in 0..(1 + Radars + Cardinality(Names))
  BY CountedRange, NamesFinite DEF IInv, Counted
<1>2. {layer_count, creg, lreg} \subseteq 0..(1 + Radars + Cardinality(Names))
  BY <1>1, NamesFinite DEF IInv, DisplayOK, CountInv
<1>3. layer \in [Names -> -1..(Radars + Cardinality(Names))]
  BY DEF IInv, DisplayOK, CountInv
<1> QED
  BY <1>2, <1>3 DEF IInv, ClientOK, NetOK, ServerOK, DisplayOK, TypeOK

----------------------------------------------------------------------------
(* The invariant. *)

\* At the start nothing is counted and nothing drawn.
LEMMA InitInv == Init => IInv
<1> SUFFICES ASSUME Init PROVE IInv
  OBVIOUS
<1> USE DEF Init
<1>1. ClientOK /\ NetOK /\ ServerOK
  BY NetAssumption DEF NetAssumption, ClientOK, NetOK, ServerOK, Status, Empty,
     Full, Names, Message, Other, Hosts
<1>2. DisplayOK
  BY NamesFinite DEF DisplayOK, Status, Empty, Names
<1>3. Drawn = {} /\ Fixed = 0
  BY DEF Drawn, Fixed
<1>4. Counted = 0
  BY <1>3, FS_EmptySet DEF Counted
<1>5. CountInv
  BY <1>4, NamesFinite DEF CountInv
<1>6. FrontInv
  BY DEF FrontInv, InFront
<1> QED
  BY <1>1, <1>2, <1>5, <1>6 DEF IInv

\* What the display does not take part in leaves its conjuncts alone.
LEMMA SameDisplay ==
  ASSUME DisplayOK, CountInv, FrontInv, UNCHANGED displayVars
  PROVE  DisplayOK' /\ CountInv' /\ FrontInv'
<1> USE DEF displayVars
<1>1. DisplayOK'
  BY DEF DisplayOK
<1>2. Counted' = Counted
  BY DEF Counted, Fixed, Drawn
<1>3. CountInv'
  BY <1>2 DEF CountInv
<1>4. FrontInv'
  BY DEF FrontInv, InFront
<1> QED
  BY <1>1, <1>3, <1>4

\* A datagram that is sent, whatever it displaces.
LEMMA SentOK ==
  ASSUME NetOK, NEW m \in Message, Send(m), host' = host
  PROVE  NetOK'
  BY DEF NetOK, Send

\* The clients and the network.
LEMMA ClientInv ==
  ASSUME IInv,
         \/ \E r \in Senders : LoadName(r) \/ LoadPlace(r) \/ CopyPlace(r) \/ sendStatus(r)
         \/ SendOther
         \/ \E m \in Message : Lose(m)
  PROVE  IInv'
<1> USE DEF IInv, serverVars
<1>1. ASSUME NEW r \in Senders, LoadName(r) PROVE IInv'
  <2>1. ClientOK'
    BY <1>1, NetAssumption DEF LoadName, ClientOK, Status, Names, NetAssumption
  <2> QED
    BY <1>1, <2>1, SameDisplay DEF LoadName, NetOK, ServerOK
<1>2. ASSUME NEW r \in Senders, LoadPlace(r) PROVE IInv'
  <2>1. ClientOK'
    BY <1>2 DEF LoadPlace, ClientOK, Status
  <2> QED
    BY <1>2, <2>1, SameDisplay DEF LoadPlace, NetOK, ServerOK
<1>3. ASSUME NEW r \in Senders, CopyPlace(r) PROVE IInv'
  <2>1. ClientOK'
    BY <1>3 DEF CopyPlace, ClientOK, Status
  <2> QED
    BY <1>3, <2>1, SameDisplay DEF CopyPlace, NetOK, ServerOK
<1>4. ASSUME NEW r \in Senders, sendStatus(r) PROVE IInv'
  <2>1. ClientOK'
    BY <1>4 DEF sendStatus, ClientOK, Status
  <2>2. Datagram(r, packet'[r]) \in Message
    BY <2>1 DEF ClientOK, Message, Datagram
  <2>3. NetOK'
    BY <1>4, <2>2, SentOK DEF sendStatus
  <2> QED
    BY <1>4, <2>1, <2>3, SameDisplay DEF sendStatus, ServerOK
<1>5. ASSUME SendOther PROVE IInv'
  <2>1. NetOK'
    BY <1>5, SentOK DEF SendOther, Message
  <2> QED
    BY <1>5, <2>1, SameDisplay DEF SendOther, clientVars, ClientOK, ServerOK
<1>6. ASSUME NEW m \in Message, Lose(m) PROVE IInv'
  BY <1>6, SameDisplay DEF Lose, clientVars, ClientOK, NetOK, ServerOK
<1> QED
  BY <1>1, <1>2, <1>3, <1>4, <1>5, <1>6

\* The server and closeServer.
LEMMA ServerInv ==
  ASSUME IInv, NEW s \in Servers,
         ServerStep(s) \/ Close(s) \/ CloseStep(s) \/ \E m \in Message : Recv(s, m)
  PROVE  IInv'
<1> USE DEF IInv, clientVars
<1>1. CASE Top(s) \/ Select(s) \/ RecvFails(s)
  <2>1. ServerOK'
    BY <1>1 DEF Top, Select, RecvFails, Step, ServerOK
  <2> QED
    BY <1>1, <2>1, SameDisplay DEF Top, Select, RecvFails, ClientOK, NetOK
<1>2. ASSUME NEW m \in Message, Recv(s, m) PROVE IInv'
  <2>1. ServerOK' /\ NetOK'
    BY <1>2 DEF Recv, Step, ServerOK, NetOK
  <2> QED
    BY <1>2, <2>1, SameDisplay DEF Recv, ClientOK
<1>3. CASE LockCache(s)
  <2>1. ServerOK'
    BY <1>3 DEF LockCache, Step, ServerOK
  <2> QED
    BY <1>3, <2>1, SameDisplay DEF LockCache, ClientOK, NetOK
<1>4. CASE Handle(s)
  <2>1. put(map_status[s], read_buff[s].status) \in [Robots -> Status]
    BY DEF put, ServerOK, Message, Other, Status, Empty, Names
  <2>2. ServerOK'
    BY <1>4, <2>1 DEF Handle, Step, ServerOK, Message
  <2> QED
    BY <1>4, <2>2, SameDisplay DEF Handle, ClientOK, NetOK
<1>5. CASE Close(s) \/ CloseStep(s)
  <2>1. ServerOK'
    BY <1>5 DEF Close, CloseStep, Shut, Join, ServerOK
  <2> QED
    BY <1>5, <2>1, SameDisplay DEF Close, CloseStep, Shut, Join, ClientOK, NetOK
<1> QED
  BY <1>1, <1>2, <1>3, <1>4, <1>5 DEF ServerStep

----------------------------------------------------------------------------
(* The display. *)

\* A step that draws no robot and takes no counted layer away.
LEMMA SameDrawn ==
  ASSUME layer' = layer, DisplayOK, Fixed' \in Nat, Fixed' >= Fixed
  PROVE  Counted' \in Nat /\ Counted \in Nat /\ Counted' >= Counted
                          /\ Counted' = Counted + (Fixed' - Fixed)
<1>1. Drawn' = Drawn
  BY DEF Drawn
<1> QED
  BY <1>1, CountedRange, NamesFinite DEF Counted

\* The constructor: the read of layer_count++ takes a count that is good, its
\* write comes with a layer more.
LEMMA ConstructorInv ==
  ASSUME IInv, ConstructorStep
  PROVE  IInv'
<1> USE DEF IInv
<1>1. ClientOK' /\ NetOK' /\ ServerOK'
  BY DEF ConstructorStep, NewPane, ReadCount, AddBackground, AddRadar,
     clientVars, serverVars, ClientOK, NetOK, ServerOK
<1>2. DisplayOK'
  BY NamesFinite DEF ConstructorStep, NewPane, ReadCount, AddBackground,
     AddRadar, NextLayer, DisplayOK, CountInv
<1>3. CASE NewPane \/ ReadCount
  <2>1. Fixed' = Fixed
    BY <1>3 DEF NewPane, ReadCount, Fixed
  <2>2. Counted' = Counted
    BY <1>3, <2>1, SameDrawn, CountedRange DEF NewPane, ReadCount
  <2>3. CountInv'
    BY <1>3, <2>2 DEF NewPane, ReadCount, CountInv
  <2>4. FrontInv'
    BY <1>3 DEF NewPane, ReadCount, FrontInv, InFront
  <2> QED
    BY <1>1, <1>2, <2>3, <2>4
<1>4. CASE AddBackground \/ AddRadar
  <2>1. Fixed' = Fixed + 1
    BY <1>4, NamesFinite DEF AddBackground, AddRadar, Fixed, DisplayOK, CountInv
  <2>2. Counted' = Counted + 1 /\ Counted \in Nat
    BY <1>4, <2>1, SameDrawn, CountedRange DEF AddBackground, AddRadar
  <2>3. CountInv'
    BY <1>4, <2>2 DEF AddBackground, AddRadar, CountInv, DisplayOK, NextLayer
  <2>4. FrontInv'
    BY <1>4 DEF AddBackground, AddRadar, FrontInv, InFront, DisplayOK, NextLayer
  <2> QED
    BY <1>1, <1>2, <2>3, <2>4
<1> QED
  BY <1>3, <1>4 DEF ConstructorStep

\* The listener: a robot that had no layer gets one, and one more is counted.
LEMMA ListenerInv ==
  ASSUME IInv, ListenerStep \/ \E m \in Message : Receive(m)
  PROVE  IInv'
<1> USE DEF IInv
<1>1. ClientOK' /\ ServerOK'
  BY DEF ListenerStep, LookUp, ReadLayer, AddLayer, setData, Receive,
     clientVars, serverVars, ClientOK, ServerOK
<1>2. ASSUME NEW m \in Message, Receive(m) PROVE IInv'
  <2>1. NetOK' /\ DisplayOK'
    BY <1>2 DEF Receive, NetOK, DisplayOK, Message, Other
  <2>2. Counted' = Counted
    BY <1>2 DEF Receive, Counted, Fixed, Drawn
  <2>3. CountInv' /\ FrontInv'
    BY <1>2, <2>2 DEF Receive, CountInv, FrontInv, InFront
  <2> QED
    BY <1>1, <2>1, <2>3
<1>3. CASE LookUp \/ ReadLayer \/ setData
  <2>1. NetOK' /\ DisplayOK'
    BY <1>3, NamesFinite DEF LookUp, ReadLayer, setData, NetOK, DisplayOK, Status
  <2>2. Counted' = Counted
    BY <1>3 DEF LookUp, ReadLayer, setData, Counted, Fixed, Drawn
  <2>3. CountInv'
    <3>1. CASE LookUp
      BY <3>1, <2>2, NamesFinite DEF LookUp, CountInv, DisplayOK, Status
    <3>2. CASE ReadLayer \/ setData
      BY <3>2, <2>2 DEF ReadLayer, setData, CountInv
    <3> QED
      BY <1>3, <3>1, <3>2
  <2>4. FrontInv'
    <3>1. CASE LookUp
      BY <3>1 DEF LookUp, FrontInv, InFront, DisplayOK, Status
    <3>2. CASE ReadLayer
      BY <3>2 DEF ReadLayer, FrontInv, InFront, DisplayOK
    <3>3. CASE setData
      BY <3>3 DEF setData, FrontInv, InFront
    <3> QED
      BY <1>3, <3>1, <3>2, <3>3
  <2> QED
    BY <1>1, <2>1, <2>3, <2>4
<1>4. CASE AddLayer
  <2>1. stat.uid \in Names \ Drawn /\ lreg \in Nat /\ lreg <= Counted
    BY <1>4 DEF AddLayer, DisplayOK, CountInv, Drawn, Status
  <2>2. NetOK' /\ DisplayOK'
    BY <1>4, <2>1 DEF AddLayer, NetOK, DisplayOK
  <2>3. Drawn' = Drawn \union {stat.uid}
    BY <1>4, <2>1 DEF AddLayer, Drawn, DisplayOK
  <2>4. Cardinality(Drawn') = Cardinality(Drawn) + 1 /\ Fixed' = Fixed
    BY <1>4, <2>1, <2>3, CountedRange, FS_AddElement DEF AddLayer, Fixed
  <2>5. Counted' = Counted + 1 /\ Counted \in 0..(Radars + Cardinality(Names))
    BY <2>1, <2>4, CountedRange, NamesFinite DEF Counted
  <2>6. CountInv'
    BY <1>4, <2>1, <2>5, NamesFinite DEF AddLayer, CountInv, DisplayOK
  <2>7. FrontInv'
    BY <1>4, <2>1 DEF AddLayer, FrontInv, InFront, DisplayOK
  <2> QED
    BY <1>1, <2>2, <2>6, <2>7
<1> QED
  BY <1>2, <1>3, <1>4 DEF ListenerStep

\* Every step keeps the invariant.
LEMMA NextInv == IInv /\ [Next]_vars => IInv'
<1> SUFFICES ASSUME IInv, [Next]_vars PROVE IInv'
  OBVIOUS
<1>1. CASE UNCHANGED vars
  BY <1>1, SameDisplay DEF vars, clientVars, serverVars, IInv, ClientOK, NetOK,
     ServerOK
<1> QED
  BY <1>1, ClientInv, ServerInv, ConstructorInv, ListenerInv DEF Next

\* Client, server, network and display keep their invariant for ever.
THEOREM ArenaInvariant == Spec => []IInv
<1> QED
  BY InitInv, NextInv, PTL DEF Spec

\* For any number of robots and radars every variable keeps its type; in
\* particular the unlocked layer_count, which both threads of the display
\* count up, never exceeds the layers there are.
THEOREM ArenaTypeCorrect == Spec => []TypeOK
<1> QED
  BY ArenaInvariant, TypesFollow, PTL

\* For any number of robots and radars, a robot that is heard of once the
\* background is in place is drawn in front of it.
THEOREM RobotsInFront == Spec => []InFront
<1>1. IInv => InFront
  BY DEF IInv, FrontInv
<1> QED
  BY <1>1, ArenaInvariant, PTL

============================================================================
