\* Every merge of up to three sets, every lock of up to five pieces, and play
\* under some of them: two players, two sessions, three commands.
CONSTANTS
  NameOrder <- MCNameOrder
  Bundles <- MCBundles
  Priorities = {10, 20}
  MaxSets = 3
  PathOrder <- MCPathOrder
  Sids = {s1, s2}
  NoPuppet = "nobody"
  PuppetOrder <- MCPuppetOrder
  NameOf <- MCNameOf
  Access <- MCAccess
  Places = {1, 2, 3, 4}
  Rooms <- MCRooms
  StartRoom = 1
  Builtins <- MCBuiltins
  Gated <- MCGated
  Lines <- MCLines
  Pieces <- MCPieces
  MaxPieces = 5
  LockSamples <- MCLockSamples
  MaxLayers = 1
  MaxContent = 12
  MaxId = 3
  MaxQueue = 2
SPECIFICATION Spec
INVARIANTS
  PipelineInv
  TableInv
  LocalFirst
  LocksAsRead
  HeardAsSaid
  HeardBySight
CHECK_DEADLOCK FALSE
