SPECIFICATION FairPageSpec
CONSTANTS
  Inventory = {"arista", "cisco"}
  Collectable = {"arista"}
  PurposesOf <- MCPurposesOf
  Slots = {s1, s2}
  None = None
INVARIANTS
  PageTypeOK
  CheckButtonFits
  ShownPlanIsCurrent
PROPERTY RunningEnds
