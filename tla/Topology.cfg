SPECIFICATION TopoSpec
CHECK_DEADLOCK FALSE
CONSTANTS
  Inventory <- MCInventory
  References <- MCReferences
  Neighbors <- MCNeighbors
  Lower <- MCLower
  PortCount = 3
  None = None
INVARIANTS
  LinksAreClasses
  StatusFollowsTarget
