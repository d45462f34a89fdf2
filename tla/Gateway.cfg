\* Two clients, two lines between them; every channel and buffer fills, both ways at once.
CONSTANTS
  Conns = {c1, c2}
  MaxLines = 2
  CommandCap = 1
  ToWorldCap = 1
  ToGatewayCap = 1
  OutCap = 1
  NoFrame = noframe
  NoConn = noconn
  Versions = {2, 3}
  SCHEMA_VERSION = 3
  WorldIds = {ours, theirs}
  Here = ours
SPECIFICATION FairSpec
INVARIANTS
  GatewayInv
  NoOrphanSession
PROPERTIES
  NoStrayInput
  HangupForgotten
  MeetOrPart
  ShutdownEnds
\* Every task may end: the World stops, or all clients are gone.
CHECK_DEADLOCK FALSE
