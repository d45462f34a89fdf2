\* Two slots and two generations of an arena, and the handles of two tenants,
\* over two places: every reuse, burn and stale or foreign argument happens.
CONSTANTS
  Tenants = {ours, theirs}
  Tenant = ours
  MaxSlots = 2
  MaxGen = 1
  Places = {hall, yard}
  NoPlace = nowhere
  Keywords = {sword}
SPECIFICATION WorldSpec
INVARIANT
  WorldExact
PROPERTIES
  StaleForever
  ImplementsAllocator
