---------------------------- MODULE CreateOI_inv ----------------------------
(***************************************************************************)
(* The inductive invariant from which the safety properties of CreateOI    *)
(* follow: what the two mutexes protect, where the threads are in each     *)
(* session of the interface, and where a call may come back to.            *)
(***************************************************************************)
EXTENDS CreateOI

\* Places of a thread that is inside a call of the library's lower layer.
InLine == {"lockLine", "write", "read"}
InCall == InLine \union {"lockCache", "take", "clear"}

\* Places of a caller in the start and stop operations, and in the others.
StartPlaces == {"passiveSent", "safeSent", "ledSent", "settle"}
StopPlaces  == {"shutDown", "join", "goodbye", "stopSent"}
WorkPlaces  == {"driven", "reset", "polled", "printed", "overSeen", "bumpSeen",
                "returned"}

Active(t) == pc[t] \notin {"idle", "returned", "dead"}
Place(t)  == IF pc[t] \in InCall THEN ret[t] ELSE pc[t]
Quiet     == pc[Sensor] \in {"none", "done", "dead"}

\* An active caller may be at place p in this session.
Fits(p) ==
  /\ session # "closed"
  /\ session = "starting" <=> p \in StartPlaces
  /\ session = "stopping" <=> p \in StopPlaces

\* A lower-layer call comes back to a place that holds no mutex.
ResumeInv ==
  /\ \A t \in Callers :
       pc[t] \in InCall => ret[t] \in StartPlaces \union StopPlaces \union WorkPlaces
  /\ pc[Sensor] \in InCall => ret[Sensor] = "sampled"

\* The process dies as a whole.
DeadInv == \A t, u \in Threads : At(t, "dead") => At(u, "dead")

\* Start and stop operations are alone in the library, and the sensor thread
\* lives only in a threaded session and at its two ends.
SessionInv ==
  /\ \A t \in Callers : Active(t) => Fits(Place(t))
  /\ session \in {"starting", "stopping"} =>
       \A t, u \in Callers : Active(t) /\ Active(u) => t = u
  /\ ~Quiet => \/ session = "threaded"
               \/ \E t \in Callers : pc[t] \in {"settle", "shutDown", "join"}

\* create_mutex: its holder is the only one on the line, a query there is the
\* holder's, and there are no counters on the line but those of a reply.
LineInv ==
  /\ \A t \in Threads : pc[t] \in {"write", "read"} => createOwner = t
  /\ ReplyToAsker
  /\ wire.state # "idle" => pc[wire.by] \in {"read", "dead"}
  /\ wire.state # "reply" => answer = Zero

\* sensor_cache_mutex: between the two statements of a getter or of "+="
\* nobody else changes the cache; the sample is held nowhere else.
CacheInv ==
  /\ \A t \in Callers : pc[t] \in {"take", "clear"} => cacheOwner = t
  /\ \A t \in Callers : At(t, "clear") => result[t] = Only(cache, want[t])
  /\ pc[Sensor] \in {"load", "store"} => cacheOwner = Sensor
  /\ At(Sensor, "store") => loaded = cache
  /\ At(Sensor, "init") => cache = Zero
  /\ pc[Sensor] \notin {"sampled", "load", "store", "dead"} => result[Sensor] = Zero

\* Everything the travel's conservation needs, step by step.
TravelInv ==
  /\ ResumeInv
  /\ DeadInv
  /\ SessionInv
  /\ LineInv
  /\ CacheInv
  /\ Conservation

\* The life of the two mutexes, in programs that do not mix the modes: the
\* line's lives as long as a session, the cache's as long as the sensor thread
\* or a threaded session, and getters use the cache only then.
LifeInv ==
  /\ session # "closed" => createOwner # "gone"
  /\ session = "direct" => THREAD_MODE = 0
  /\ \A t \in Callers :
       /\ op[t] = "startOI" /\ Active(t) /\ session = "starting" => THREAD_MODE = 0
       /\ pc[t] \in {"lockCache", "take", "clear"} => session = "threaded"
       /\ pc[t] \in {"settle", "shutDown", "join"} => cacheOwner # "gone"
       /\ pc[t] \in InCall => ret[t] \notin {"settle", "shutDown", "join"}
       /\ pc[t] \notin {"sampled", "load", "store"}
  /\ pc[Sensor] \notin {"lockCache", "take", "clear"}
  /\ session = "threaded" \/ ~Quiet => cacheOwner # "gone"

\* The only call of driveDistance and turn that comes back to their end is
\* the last one, with its stop frame; every other way there has failed.
HaltInv ==
  \A t \in Callers : op[t] = "driveFor" =>
    /\ Place(t) \notin StartPlaces \union StopPlaces
    /\ pc[t] \in InCall /\ ret[t] = "returned" =>
         pc[t] \in {"lockLine", "write"} /\ frame[t] = "halt"
    /\ At(t, "returned") /\ ~failed[t] => lastFrame[t] = "halt"

\* A wait for a distance never prints with a second getter, so its count and
\* what the getter returned to it grow together.
CountInv ==
  \A t \in Callers :
    /\ chan[t] = "distance" \/ At(t, "idle") => count[t] = seen[t]
    /\ chan[t] = "distance" =>
         pc[t] # "printed" /\ (pc[t] \in InCall => ret[t] # "printed")
=============================================================================
