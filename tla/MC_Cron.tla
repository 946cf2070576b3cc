------------------------------ MODULE MC_Cron ------------------------------
(* Two jobs, one of each kind, and three minutes: the one-shot job matches  *)
(* every minute, by its weekday, the recurring one the first and the last.  *)
(* The expressions of two further calls of schedule_cron are refused.       *)
EXTENDS CronScheduler
CONSTANTS daily, once, zero, open

MC_JobId == {daily, once, zero, open}
MC_Repeats == {daily}

Sign(c) == [sym |-> c, val |-> 0]
Number(n) == [sym |-> "number", val |-> n]
Star == <<Sign("*")>>

\* "1,*/3 * * * *", "0-3 * 1 * 5", "*/0 * * * *" and "1- * * * *".
MC_Expression ==
    [j \in MC_JobId |->
      CASE j = daily -> <<<<Number(1), Sign(","), Sign("*"), Sign("/"), Number(3)>>,
                          Star, Star, Star, Star>>
        [] j = once -> <<<<Number(0), Sign("-"), Number(3)>>,
                         Star, <<Number(1)>>, Star, <<Number(5)>>>>
        [] j = zero -> <<<<Sign("*"), Sign("/"), Number(0)>>, Star, Star, Star, Star>>
        [] j = open -> <<<<Number(1), Sign("-")>>, Star, Star, Star, Star>>]

\* Friday, 4 September, from 12:01.
MC_Clock ==
    [m \in 1 .. MaxMinute |->
      [minute |-> m, hour |-> 12, day |-> 4, month |-> 9, weekday |-> 4]]
============================================================================
