SPECIFICATION FairSpec
CONSTANTS
  TaskId = {t1}
  Teammates = {alice, bob}
  Agent = agent
  Names = {w1}
  NoOwner = NoOwner
  NoTask = NoTask
  NoTree = NoTree
  WriteMayFail = {}
  PlansUsed = FALSE
  RemovalUsed = FALSE
  MaxRestarts = 0
PROPERTY EveryLeaseEnds
