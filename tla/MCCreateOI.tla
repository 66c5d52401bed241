----------------------------- MODULE MCCreateOI -----------------------------
(* Instances of CreateOI for TLC. *)
EXTENDS CreateOI_inv

\* Two program threads, so that create_mutex and sensor_cache_mutex have a
\* third contender: "aux" only reads, through the cache and past it.
MCTwoCallers ==
  [t \in Callers |-> IF t = "aux" THEN {"get", "readSensor"}
                     ELSE {"startOI", "startOI_MT", "stopOI", "stopOI_MT", "drive",
                           "wait"}]

\* One program thread that drives and waits, in the mode of Samples/ and in
\* that of iMain.
MCDriver ==
  [t \in Callers |-> {"startOI_MT", "startOI_MTS", "stopOI_MT", "driveFor"}]

\* One program thread that restarts the interface in the other mode.
MCRestart == [t \in Callers |-> {"startOI", "startOI_MT", "stopOI", "stopOI_MT", "get"}]

MCForward == {1}
MCStill   == {}
MCNear    == {1}
MCBack    == {-1}
MCCalm    == {"clear"}
=============================================================================
