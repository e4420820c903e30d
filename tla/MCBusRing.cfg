SPECIFICATION FairSpec
CONSTANTS
  c1 = c1
  w1 = w1
  w2 = w2
  Consumers <- MCConsumers
  Words <- MCWords
  Cap <- MCCap
  MaxPublish = 7
INVARIANTS
  NoTornRead
  VersionsTell
PROPERTIES
  NoFalseLoss
  Refinement
  EveryEventAccountedFor
