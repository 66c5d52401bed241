----------------------------- MODULE StatusNet -----------------------------
(***************************************************************************)
(* How the robots of the arena know of each other.  Twice a second every   *)
(* robot multicasts its status (iClient); on every robot a server thread   *)
(* receives what the others send and keeps the last status of each in a    *)
(* map (iServer); a display (Java) receives it too and draws a layer for   *)
(* every robot it has heard of.  Multicast loses, repeats and reorders.    *)
(*                                                                         *)
(* A status is reduced to the robot's name and its place, the two parts    *)
(* that main fills in separately while the 2 Hz thread already sends.      *)
(***************************************************************************)
EXTENDS Integers, FiniteSets

CONSTANTS
  Robots,      \* the names of the table robots[]
  Senders,     \* the robots whose client the model follows
  Servers,     \* the robots whose server the model follows
  NoName,      \* the empty uid of a status that is not loaded yet
  Patched,     \* servers that compare addresses: none in the repository
  Radars,      \* how many radars the display reads from radars.xml
  MaxInFlight  \* bound on the datagrams on their way: a new one displaces another

ASSUME NetAssumption ==
  /\ IsFiniteSet(Robots)
  /\ Senders \subseteq Robots /\ Servers \subseteq Robots /\ NoName \notin Robots
  /\ "display" \notin Robots
  /\ Patched \subseteq Servers /\ Radars \in Nat /\ MaxInFlight \in Nat \ {0}

Hosts == Servers \union {"display"}
Names == Robots \union {NoName}

\* place: whether pos_x, pos_y are still the zeroes of the C runtime.
Status == [uid : Names, place : {"zero", "known"}]
Empty  == [uid |-> NoName, place |-> "zero"]
Full(r) == [uid |-> r, place |-> "known"]

\* from: the sender's address.  Other messages come from elsewhere.
Datagram(r, status) == [kind |-> "status", from |-> r, status |-> status]
Other   == [kind |-> "other", from |-> NoName, status |-> Empty]
Message == [kind : {"status"}, from : Senders, status : Status] \union {Other}

VARIABLES
  client_status, packet, sender, \* per robot: main's status, sendStatus's copy
  host,      \* who receives: the hosts share nothing, so the model follows one
  net,       \* the datagrams on their way to it
  \* the server of a robot
  spc,       \* its thread: "top", "select", "recv", "lock", "handle", "ended"
  watched,   \* the descriptor in its fd_set is a socket
  read_buff,
  map_status,
  mpc,       \* main in closeServer: "running", "closing", "join", "closed"
  not_done, sock, \* sock: the socket is open (FALSE: sock = 0)
  status_cache_mutex,
  \* the display
  dpc,       \* its constructor: "listen", "pane", "read", "radar", "ready"
  radarsLeft, creg, \* radars to add, the constructor's register of layer_count++
  lpc,       \* its listener: "receive", "recv", "new", "add", "set", "dead"
  stat, lreg, \* the status in hand and the listener's register
  layer_count,
  layer,     \* per name: the number of its layer, or -1
  shown,     \* per name: the status its layer draws
  late       \* history: names first drawn when the background was in place

clientVars  == <<client_status, packet, sender>>
serverVars  == <<spc, watched, read_buff, map_status, mpc, not_done, sock,
                 status_cache_mutex>>
displayVars == <<dpc, radarsLeft, creg, lpc, stat, lreg, layer_count, layer,
                 shown, late>>
vars == <<clientVars, host, net, serverVars, displayVars>>

Init ==
  /\ client_status = [r \in Senders |-> Empty]
  /\ packet = [r \in Senders |-> Empty]
  /\ sender = [r \in Senders |-> "idle"]
  /\ host \in Hosts /\ net = {}
  /\ spc = [s \in Servers |-> "top"]
  /\ watched = [s \in Servers |-> FALSE]
  /\ read_buff = [s \in Servers |-> Other]
  /\ map_status = [s \in Servers |-> [r \in Robots |-> Empty]]
  /\ mpc = [s \in Servers |-> "running"]
  /\ not_done = [s \in Servers |-> TRUE]
  /\ sock = [s \in Servers |-> TRUE]
  /\ status_cache_mutex = [s \in Servers |-> "free"]
  /\ dpc = "listen" /\ radarsLeft = Radars /\ creg = 0
  /\ lpc = "receive" /\ stat = Empty /\ lreg = 0
  /\ layer_count = 0
  /\ layer = [n \in Names |-> -1]
  /\ shown = [n \in Names |-> Empty]
  /\ late = {}

----------------------------------------------------------------------------
(* The clients and the network. *)

Send(m) ==
  net' \in IF Cardinality(net \union {m}) <= MaxInFlight THEN {net \union {m}}
          ELSE {(net \ {lost}) \union {m} : lost \in net}

\* handler, called by ini_parse for one entry: the entries come in the order
\* of the file.
LoadName(r) ==
  /\ client_status[r].uid = NoName
  /\ client_status' = [client_status EXCEPT ![r].uid = r]
  /\ UNCHANGED <<host, packet, sender, net, serverVars, displayVars>>

LoadPlace(r) ==
  /\ client_status[r].place = "zero"
  /\ client_status' = [client_status EXCEPT ![r].place = "known"]
  /\ UNCHANGED <<host, packet, sender, net, serverVars, displayVars>>

\* sendStatus copies the numbers first,
CopyPlace(r) ==
  /\ sender[r] = "idle"
  /\ packet' = [packet EXCEPT ![r].place = client_status[r].place]
  /\ sender' = [sender EXCEPT ![r] = "copied"]
  /\ UNCHANGED <<host, client_status, net, serverVars, displayVars>>

\* then the name, and sends a datagram to the group.
sendStatus(r) ==
  /\ sender[r] = "copied"
  /\ packet' = [packet EXCEPT ![r].uid = client_status[r].uid]
  /\ Send(Datagram(r, packet'[r]))
  /\ sender' = [sender EXCEPT ![r] = "idle"]
  /\ UNCHANGED <<host, client_status, serverVars, displayVars>>

\* Somebody sends a message of another type.
SendOther ==
  /\ Send(Other)
  /\ UNCHANGED <<host, clientVars, serverVars, displayVars>>

Lose(m) ==
  /\ m \in net /\ net' = net \ {m}
  /\ UNCHANGED <<host, clientVars, serverVars, displayVars>>

----------------------------------------------------------------------------
(* iServer: serverThreadFunc and closeServer. *)

Step(s, from, to) == spc[s] = from /\ spc' = [spc EXCEPT ![s] = to]

\* while (not_done) and FD_SET(sock).
Top(s) ==
  /\ IF not_done[s] THEN Step(s, "top", "select") ELSE Step(s, "top", "ended")
  /\ watched' = [watched EXCEPT ![s] = sock[s]]
  /\ UNCHANGED <<host, clientVars, net, read_buff, map_status, mpc, not_done, sock,
                 status_cache_mutex, displayVars>>

\* select returns: the descriptor is ready (a shut-down socket is, and 0 is
\* the keyboard), or five seconds are over.
Select(s) ==
  /\ \/ Step(s, "select", "recv") /\ (watched[s] => net # {} \/ ~sock[s])
     \/ Step(s, "select", "top") /\ (watched[s] => net = {} /\ sock[s])
  /\ UNCHANGED <<host, clientVars, net, watched, read_buff, map_status, mpc,
                 not_done, sock, status_cache_mutex, displayVars>>

\* inet_ntoa(a) == inet_ntoa(b) compares the one static buffer of inet_ntoa
\* with itself: every sender is taken for the robot itself.  A patched server
\* compares the addresses.
FromMyself(s, m) == s \notin Patched \/ m.from = s

\* recvfrom reads sock anew; it fails on descriptor 0.
Recv(s, m) ==
  /\ spc[s] = "recv" /\ sock[s] /\ m \in net
  /\ read_buff' = [read_buff EXCEPT ![s] = m]
  /\ net' = net \ {m}
  /\ IF FromMyself(s, m) THEN Step(s, "recv", "top") ELSE Step(s, "recv", "lock")
  /\ UNCHANGED <<host, clientVars, watched, map_status, mpc, not_done, sock,
                 status_cache_mutex, displayVars>>

RecvFails(s) ==
  /\ ~sock[s] /\ Step(s, "recv", "top")
  /\ UNCHANGED <<host, clientVars, net, watched, read_buff, map_status, mpc,
                 not_done, sock, status_cache_mutex, displayVars>>

LockCache(s) ==
  /\ status_cache_mutex[s] = "free" /\ Step(s, "lock", "handle")
  /\ status_cache_mutex' = [status_cache_mutex EXCEPT ![s] = "server"]
  /\ UNCHANGED <<host, clientVars, net, watched, read_buff, map_status, mpc,
                 not_done, sock, displayVars>>

\* put: bsearch in the table of names; an unknown name is ignored.
put(map, status) ==
  IF status.uid \in Robots THEN [map EXCEPT ![status.uid] = status] ELSE map

\* switch (msg_type), memset of the buffer, unlock.
Handle(s) ==
  /\ Step(s, "handle", "top")
  /\ map_status' = IF read_buff[s].kind = "status"
                   THEN [map_status EXCEPT ![s] = put(@, read_buff[s].status)]
                   ELSE map_status
  /\ read_buff' = [read_buff EXCEPT ![s] = Other]
  /\ status_cache_mutex' = [status_cache_mutex EXCEPT ![s] = "free"]
  /\ UNCHANGED <<host, clientVars, net, watched, mpc, not_done, sock, displayVars>>

\* closeServer: under the mutex it ends the loop and shuts the socket down
\* (its close(rc) is left out: rc is no descriptor, see the README),
Close(s) ==
  /\ mpc[s] = "running" /\ mpc' = [mpc EXCEPT ![s] = "closing"]
  /\ UNCHANGED <<host, clientVars, net, spc, watched, read_buff, map_status,
                 not_done, sock, status_cache_mutex, displayVars>>

\* Bug: the flag is not cleared.
ShutNothing(s) ==
  /\ mpc[s] = "closing" /\ status_cache_mutex[s] = "free"
  /\ sock' = [sock EXCEPT ![s] = FALSE]
  /\ mpc' = [mpc EXCEPT ![s] = "join"]
  /\ UNCHANGED <<host, clientVars, net, spc, watched, read_buff, map_status,
                 not_done, status_cache_mutex, displayVars>>

Shut(s) ==
  /\ mpc[s] = "closing" /\ status_cache_mutex[s] = "free"
  /\ not_done' = [not_done EXCEPT ![s] = FALSE]
  /\ sock' = [sock EXCEPT ![s] = FALSE]
  /\ mpc' = [mpc EXCEPT ![s] = "join"]
  /\ UNCHANGED <<host, clientVars, net, spc, watched, read_buff, map_status,
                 status_cache_mutex, displayVars>>

\* then it joins the thread and destroys the mutex.
Join(s) ==
  /\ mpc[s] = "join" /\ spc[s] = "ended"
  /\ mpc' = [mpc EXCEPT ![s] = "closed"]
  /\ status_cache_mutex' = [status_cache_mutex EXCEPT ![s] = "gone"]
  /\ UNCHANGED <<host, clientVars, net, spc, watched, read_buff, map_status,
                 not_done, sock, displayVars>>

ServerStep(s) ==
  \/ Top(s)
  \/ Select(s)
  \/ RecvFails(s)
  \/ LockCache(s)
  \/ Handle(s)
CloseStep(s) == Shut(s) \/ Join(s)

----------------------------------------------------------------------------
(* The display: ArenaDisplay's constructor and iServer's thread, which the *)
(* constructor starts before there is anything to draw on.  layer_count++  *)
(* reads and writes in two steps, and both threads do it.                   *)

NewPane ==
  /\ dpc = "listen" /\ dpc' = "pane"
  /\ UNCHANGED <<host, clientVars, net, serverVars, radarsLeft, creg, lpc, stat,
                 lreg, layer_count, layer, shown, late>>

\* layeredPane.add(background or a radar, layer_count++)
ReadCount ==
  /\ \/ dpc = "pane" /\ dpc' = "read"
     \/ dpc = "radar" /\ radarsLeft > 0 /\ dpc' = "readRadar"
  /\ creg' = layer_count
  /\ UNCHANGED <<host, clientVars, net, serverVars, radarsLeft, lpc, stat, lreg,
                 layer_count, layer, shown, late>>

\* Bug: the background's layer is not counted.
NextLayer0(c) == c

NextLayer(c) == c + 1

AddBackground ==
  /\ dpc = "read" /\ dpc' = "radar"
  /\ layer_count' = NextLayer(creg)
  /\ UNCHANGED <<host, clientVars, net, serverVars, radarsLeft, creg, lpc, stat,
                 lreg, layer, shown, late>>

AddRadar ==
  /\ dpc = "readRadar" /\ dpc' = "radar"
  /\ layer_count' = NextLayer(creg)
  /\ radarsLeft' = radarsLeft - 1
  /\ UNCHANGED <<host, clientVars, net, serverVars, creg, lpc, stat, lreg, layer,
                 shown, late>>

\* listen(): one datagram; only a status is more than a line of output.
Receive(m) ==
  /\ lpc = "receive" /\ m \in net
  /\ net' = net \ {m}
  /\ IF m.kind = "status" THEN stat' = m.status /\ lpc' = "recv"
     ELSE UNCHANGED <<stat, lpc>>
  /\ UNCHANGED <<host, clientVars, serverVars, dpc, radarsLeft, creg, lreg,
                 layer_count, layer, shown, late>>

\* Bug: every status gets a new layer.
LookUpAlways ==
  /\ lpc = "recv" /\ lpc' = IF dpc = "listen" THEN "dead" ELSE "new"
  /\ UNCHANGED <<host, clientVars, net, serverVars, dpc, radarsLeft, creg,
                 stat, lreg, layer_count, layer, shown, late>>

\* recv(): a name without a layer gets one, of the size of layeredPane, which
\* is null before the constructor comes to it: the exception ends the thread.
LookUp ==
  /\ lpc = "recv"
  /\ lpc' = CASE layer[stat.uid] >= 0 -> "set"
              [] layer[stat.uid] < 0 /\ dpc = "listen" -> "dead"
              [] OTHER -> "new"
  /\ late' = IF layer[stat.uid] < 0 /\ dpc \in {"radar", "readRadar"}
             THEN late \union {stat.uid} ELSE late
  /\ UNCHANGED <<host, clientVars, net, serverVars, dpc, radarsLeft, creg, stat,
                 lreg, layer_count, layer, shown>>

ReadLayer ==
  /\ lpc = "new" /\ lpc' = "add"
  /\ lreg' = layer_count
  /\ UNCHANGED <<host, clientVars, net, serverVars, dpc, radarsLeft, creg, stat,
                 layer_count, layer, shown, late>>

AddLayer ==
  /\ lpc = "add" /\ lpc' = "set"
  /\ layer_count' = lreg + 1
  /\ layer' = [layer EXCEPT ![stat.uid] = lreg]
  /\ UNCHANGED <<host, clientVars, net, serverVars, dpc, radarsLeft, creg, stat,
                 lreg, shown, late>>

\* Bug: a layer keeps the status it was made with.
KeepData ==
  /\ lpc = "set" /\ lpc' = "receive"
  /\ shown' = IF shown[stat.uid] = Empty
              THEN [shown EXCEPT ![stat.uid] = stat] ELSE shown
  /\ UNCHANGED <<host, clientVars, net, serverVars, dpc, radarsLeft, creg, stat,
                 lreg, layer_count, layer, late>>

setData ==
  /\ lpc = "set" /\ lpc' = "receive"
  /\ shown' = [shown EXCEPT ![stat.uid] = stat]
  /\ UNCHANGED <<host, clientVars, net, serverVars, dpc, radarsLeft, creg, stat,
                 lreg, layer_count, layer, late>>

ConstructorStep == NewPane \/ ReadCount \/ AddBackground \/ AddRadar
ListenerStep    == LookUp \/ ReadLayer \/ AddLayer \/ setData

----------------------------------------------------------------------------

Next ==
  \/ \E r \in Senders : LoadName(r) \/ LoadPlace(r) \/ CopyPlace(r) \/ sendStatus(r)
  \/ SendOther
  \/ \E m \in Message : Lose(m)
  \/ \E s \in Servers : /\ host = s
                       /\ \/ ServerStep(s) \/ Close(s) \/ CloseStep(s)
                          \/ \E m \in Message : Recv(s, m)
  \/ /\ host = "display"
     /\ \/ ConstructorStep \/ ListenerStep
        \/ \E m \in Message : Receive(m)

Take(m) == IF host = "display" THEN Receive(m) ELSE Recv(host, m)
Deaf    == IF host = "display" THEN lpc = "dead" ELSE mpc[host] # "running"

\* Of the datagrams a robot sends over and over infinitely many arrive, as
\* long as somebody listens.
Arrives(r) ==
  LET m == Datagram(r, Full(r))
  IN []<><<sendStatus(r) /\ packet'[r] = Full(r)>>_vars
       => []<><<Take(m)>>_vars \/ <>[]Deaf

\* Main loads its two entries, the 2 Hz thread never ends, runnable threads
\* run, the mutex that is free over and over is got, and no datagram stays in
\* the network for ever.  Nothing makes main close its server.
Fairness ==
  /\ \A r \in Senders :
       /\ WF_vars(LoadName(r)) /\ WF_vars(LoadPlace(r))
       /\ WF_vars(CopyPlace(r) \/ sendStatus(r))
       /\ Arrives(r)
  /\ \A m \in Message : WF_vars(Lose(m) \/ Take(m))
  /\ \A s \in Servers :
       /\ WF_vars(host = s /\ ServerStep(s))
       /\ SF_vars(host = s /\ Shut(s)) /\ WF_vars(host = s /\ Join(s))
  /\ WF_vars(host = "display" /\ ConstructorStep)
  /\ WF_vars(host = "display" /\ ListenerStep)

Spec     == Init /\ [][Next]_vars
FairSpec == Spec /\ Fairness

----------------------------------------------------------------------------
(* Properties *)

TypeOK ==
  /\ client_status \in [Senders -> Status] /\ packet \in [Senders -> Status]
  /\ sender \in [Senders -> {"idle", "copied"}]
  /\ host \in Hosts /\ net \subseteq Message
  /\ spc \in [Servers -> {"top", "select", "recv", "lock", "handle", "ended"}]
  /\ read_buff \in [Servers -> Message]
  /\ map_status \in [Servers -> [Robots -> Status]]
  /\ mpc \in [Servers -> {"running", "closing", "join", "closed"}]
  /\ status_cache_mutex \in [Servers -> {"free", "server", "gone"}]
  /\ dpc \in {"listen", "pane", "read", "radar", "readRadar"}
  /\ radarsLeft \in 0..Radars
  /\ lpc \in {"receive", "recv", "new", "add", "set", "dead"}
  /\ stat \in Status /\ shown \in [Names -> Status]
  /\ {layer_count, creg, lreg} \subseteq 0..(1 + Radars + Cardinality(Names))
  /\ layer \in [Names -> -1..(Radars + Cardinality(Names))]
  /\ late \subseteq Names

\* A robot whose first status comes once the background is in place is drawn
\* in front of it (layer 0), whatever the constructor, which goes on adding
\* radars, and the listener do to layer_count together.
InFront == \A n \in late : layer[n] # 0

\* "add status to status cache map" (iServer.c:129): once create.ini is read,
\* every other robot comes to hold the whole status of this one and keeps it.
\* Not true of the servers of the repository.
PeersKnown ==
  \A r \in Senders :
    <>[](host \in Servers \ {r} => \/ map_status[host][r] = Full(r)
                                   \/ mpc[host] # "running")

\* The display comes to draw every robot where it is, and goes on doing so,
\* unless its listener met the null pane while the constructor was running.
DisplayShows ==
  \A r \in Senders :
    <>[](host = "display" => shown[r] = Full(r) \/ lpc = "dead")

\* closeServer returns, wherever its thread is: between the test of not_done
\* and select, in select, or about to take the mutex.
ServerCloses ==
  \A s \in Servers : mpc[s] = "closing" ~> mpc[s] = "closed"

=============================================================================
