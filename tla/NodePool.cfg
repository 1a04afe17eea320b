CONSTANTS
  n1 = n1
  n2 = n2
  pA = pA
  pB = pB
  NoOne = NoOne
  Nodes <- MCNodes
  Pools <- MCPools
  PoolSeq <- MCPoolSeq
  Pins <- MCPins
  Memberships <- MCMemberships
  Strategies <- MCStrategies
  nodeDeadBeforePark = 2
  nodeTrialWindow = 1
  nodeParkInitial = 1
  nodeParkMax = 2
  MaxEvents = 2
SPECIFICATION FairSpec
 
PROPERTIES
  WholeTrial
  
CHECK_DEADLOCK FALSE
