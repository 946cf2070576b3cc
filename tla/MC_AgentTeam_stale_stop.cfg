SPECIFICATION Spec
CHECK_DEADLOCK FALSE
CONSTANTS
  Mate = {alice}
  Req = {r1, r2}
  Task = {t1}
  NoReq = NoReq
  NoTask = NoTask
  NoEntry = NoEntry
  MailMayFail = FALSE
  MaxMail = 2
  MaxLives = 2
INVARIANT StopsOnOwnRequest
