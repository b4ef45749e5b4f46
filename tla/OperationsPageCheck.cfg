SPECIFICATION PageSpec
CONSTANTS
  Inventory = {"arista", "cisco"}
  Collectable = {"arista"}
  PurposesOf <- MCPurposesOf
  Slots = {s1}
  None = None
INVARIANT CollectSendsShownPlan
