SPECIFICATION FairSpec
CONSTANTS
  Robots = {twitch, twonky}
  Senders = {twitch}
  Servers = {twonky}
  NoName = nobody
  Patched = {}
  Radars = 1
  MaxInFlight = 2
PROPERTY
  PeersKnown
CHECK_DEADLOCK FALSE
