SPECIFICATION FairSpec
CONSTANTS
  TaskId = {t1, t2}
  Teammates = {alice, bob}
  Agent = agent
  Names = {w1}
  NoOwner = NoOwner
  NoTask = NoTask
  NoTree = NoTree
  WriteMayFail = {"bind"}
  PlansUsed = TRUE
  RemovalUsed = FALSE
  MaxRestarts = 0
INVARIANTS LeaseIsUsable BoundTreeExists NoOrphanedWork
PROPERTIES IdleTeammateFindsWork TeammateLeasesEnd
