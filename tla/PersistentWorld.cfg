\* Two slots, two generations, three keys: entities outlive two boots with
\* different PlaceIds, and slots are reused under new keys.
CONSTANTS
  Tenants = {ours}
  Tenant = ours
  MaxSlots = 2
  MaxGen = 1
  Places = {p1, p2}
  NoPlace = nowhere
  Keywords = {}
  MaxKey = 3
  Slugs = {hall, yard}
  NoSlug = noslug
  NoId = noid
  StartRoom = hall
SPECIFICATION Spec
INVARIANTS
  PersistInv
  MemoryMatchesRows
PROPERTIES
  LoadRebuilds
  ImplementsDurableWorld
