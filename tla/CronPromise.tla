---------------------------- MODULE CronPromise ----------------------------
(***************************************************************************)
(* What the cron subsystem promises its user, without threads, locks or    *)
(* files: a job is scheduled once, becomes due any number of times, its    *)
(* prompt reaches the model at least once each time, and only then is the  *)
(* firing settled.  Nothing but a cancellation takes a job away earlier.   *)
(***************************************************************************)
CONSTANTS
    JobId,      \* the identifiers new_cron_id() can hand out
    Repeats     \* the jobs scheduled with is_repeat = True

VARIABLES
    status,     \* durable life-cycle stage of each job
    reached     \* due jobs whose prompt the model has seen since they fired

promiseVars == <<status, reached>>

Stage == {"unborn", "idle", "due", "done", "cancelled"}

PromiseInit ==
    /\ status = [j \in JobId |-> "unborn"]
    /\ reached = {}

Schedule(j) ==
    /\ status[j] = "unborn"
    /\ status' = [status EXCEPT ![j] = "idle"]
    /\ UNCHANGED reached

\* One poll may find several jobs due.
Fire(jobs) ==
    /\ \A j \in jobs : status[j] = "idle"
    /\ status' = [j \in JobId |-> IF j \in jobs THEN "due" ELSE status[j]]
    /\ reached' = reached \ jobs

\* A prompt may reach the model again: the promise is at-least-once.
Reach(jobs) ==
    /\ \A j \in jobs : status[j] = "due"
    /\ reached' = reached \cup jobs
    /\ UNCHANGED status

\* Only a firing the model has seen is settled.
Settle(jobs) ==
    /\ \A j \in jobs : status[j] = "due" /\ j \in reached
    /\ status' = [j \in JobId |-> CASE j \notin jobs -> status[j]
                                    [] j \in jobs \cap Repeats -> "idle"
                                    [] j \in jobs \ Repeats -> "done"]
    /\ UNCHANGED reached

Cancel(j) ==
    /\ status[j] \in {"idle", "due"}
    /\ status' = [status EXCEPT ![j] = "cancelled"]
    /\ UNCHANGED reached

PromiseNext ==
    \/ \E j \in JobId : Schedule(j) \/ Cancel(j)
    \/ \E jobs \in SUBSET JobId : Fire(jobs) \/ Reach(jobs) \/ Settle(jobs)

Promise == PromiseInit /\ [][PromiseNext]_promiseVars
============================================================================
