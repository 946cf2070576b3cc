SPECIFICATION FairSpec
CONSTANTS
  daily = daily
  once = once
  zero = zero
  open = open
  JobId <- MC_JobId
  Repeats <- MC_Repeats
  Expression <- MC_Expression
  Clock <- MC_Clock
  MaxMinute = 3
  MaxCrashes = 2
  SaveMayFail = {"poll", "ack"}
  TurnMayRaise = FALSE
PROPERTY PendingIsSettled
