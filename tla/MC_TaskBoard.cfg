SPECIFICATION Spec
CONSTANTS
  TaskId = {t1, t2, t3}
  Teammates = {alice, bob}
  Agent = agent
  Names = {w1}
  NoOwner = NoOwner
  NoTask = NoTask
  NoTree = NoTree
  WriteMayFail = {"create", "bind", "release"}
  PlansUsed = FALSE
  RemovalUsed = TRUE
  MaxRestarts = 1
SYMMETRY Symmetric
INVARIANTS TypeOK DependenciesFirst
PROPERTY KeepsTaskPromise
