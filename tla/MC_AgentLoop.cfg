SPECIFICATION Spec
CONSTANTS
  Input = {u1, u2}
  Event = {e1}
  Firing = {f1}
  Command = {c1}
  MaxChecks = 2
  MaxCalls = 2
  MaxHistory = 3
  TodoRounds = 1
  LongHistory = 3
SYMMETRY Symmetric
INVARIANTS TypeOK CallsAnswered DeliveredOnce InputsSurvive RestoredIsWithdrawn NoticeOnce GoalVerdict ContinuationsBounded
