\* Two sessions, one item and one puppet from the first boot on, a second puppet
\* that one of them makes at play, two rooms.
CONSTANTS
  Tenants = {ours}
  Tenant = ours
  MaxSlots = 3
  MaxGen = 0
  Places = {p1, p2}
  NoPlace = nowhere
  Keywords = {}
  MaxKey = 3
  Slugs = {hall, yard}
  NoSlug = noslug
  NoId = noid
  StartRoom = hall
  Sids = {s1, s2}
  Absent = absent
  LoggingIn = loggingin
  Provisioned = 2
  Puppets = {1, 3}
  Exits <- AllRooms
  MaxQueue = 5
SPECIFICATION LoopSpec
INVARIANTS
  LoopInv
  ItemsSomewhere
  CarriedIsDurable
