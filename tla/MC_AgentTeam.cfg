SPECIFICATION FairSpec
CHECK_DEADLOCK FALSE
CONSTANTS
  Mate = {alice}
  Req = {r1, r2}
  Task = {t1}
  NoReq = NoReq
  NoTask = NoTask
  NoEntry = NoEntry
  MailMayFail = TRUE
  MaxMail = 2
  MaxLives = 2
INVARIANTS TypeOK GateHasRequest PlanIsOwed ApprovalDiesWithWork
PROPERTIES ShutdownIsObeyed TaskPlanIsDecided
