CONSTANTS
  Roles = {"node", "radio", "gateway"}
  MaxDrops = 1
  MaxPublishes = 3
  MaxHeard = 2
  MaxClients = 50
SPECIFICATION Spec
INVARIANTS TypeOK OneClientWithoutDrop
PROPERTIES NeverHearsAgain MuteTillNextDrop PublishReturns LoopComesBack
CHECK_DEADLOCK FALSE
