SPECIFICATION Spec
CONSTANTS
  a = a
  b = b
  NoNode = NoNode
  Nodes <- MCNodes
  Formations <- MCFormations
  MaxBoots = 2
  MaxLeaves = 1
  MaxTroubles = 1
CHECK_DEADLOCK FALSE
INVARIANTS
    OnlyAskedLeave
PROPERTIES
    LeaveEnds
    JoinersCatchUp
