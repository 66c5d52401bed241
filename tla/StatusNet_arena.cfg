\* The display, a server as it is (twirl) and two whose comparison is patched,
\* one of them the sender's own.
SPECIFICATION FairSpec
CONSTANTS
  Robots = {twitch, twonky, twirl}
  Senders = {twitch}
  Servers = {twitch, twonky, twirl}
  Patched = {twitch, twonky}
  NoName = nobody
  Radars = 1
  MaxInFlight = 2
INVARIANTS
  TypeOK
  InFront
PROPERTIES
  DisplayShows
  ServerCloses
CHECK_DEADLOCK FALSE
