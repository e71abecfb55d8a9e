SPECIFICATION CfSpec
CONSTANTS
  Nil = Nil
  Documents <- MCDocuments
  MaxUpgrades = 1
CHECK_DEADLOCK FALSE
INVARIANT
  ObjectIsAccepted
