--------------------------- MODULE CronScheduler ---------------------------
(***************************************************************************)
(* The cron subsystem of bareloop and the agent turn that delivers its     *)
(* prompts (cron_scheduler/index.py, agent_loop in loop.py, the two turn   *)
(* starters in main.py and queue_processor_loop).                          *)
(*                                                                         *)
(* Three threads share the job table and the queue: cron_scheduler_loop    *)
(* polls the clock, queue_processor_loop starts a turn when the agent lock *)
(* is free, and the CLI thread starts turns for its user.  Every critical  *)
(* section of cron_lock is one action; a turn is several, so a poll, a     *)
(* failed save, a tool call or the end of the process can come between     *)
(* collecting the prompts, the model's first answer and the                *)
(* acknowledgement.                                                        *)
(*                                                                         *)
(* A job's expression and prompt never change, so a job is its id.  The    *)
(* order of cron_queue only orders prompts inside one request: the queue   *)
(* is the number of times each job stands in it.                           *)
(***************************************************************************)
EXTENDS CronExpr, FiniteSets

CONSTANTS
    JobId,          \* the calls of schedule_cron; an accepted one gets an id
    Repeats,        \* the jobs scheduled with is_repeat = True
    MaxMinute,      \* bound on the clock
    Expression,     \* Expression[j]: when j is due, as the user wrote it
    Clock,          \* Clock[m]: the date and time of minute m
    MaxCrashes,     \* bound on ends of the process
    SaveMayFail,    \* the operations whose save_cron_durable may raise
    TurnMayRaise    \* whether a turn may raise by itself (hooks, trace file)

Operations == {"poll", "ack"}

ASSUME CronAssumption ==
    /\ MaxMinute \in Nat \ {0}
    /\ MaxCrashes \in Nat
    /\ Repeats \subseteq JobId
    /\ Expression \in [JobId -> Cron]
    /\ Clock \in [1 .. MaxMinute -> Moment]
    /\ SaveMayFail \subseteq Operations
    /\ TurnMayRaise \in BOOLEAN

VARIABLES
    up,             \* the process runs
    mem,            \* scheduled_jobs
    disk,           \* the file at DURABLE_CRON_PATH
    queue,          \* cron_queue
    agentLock,      \* holder of agent_lock
    answered,       \* the model has answered in the current turn
    fired,          \* agent_loop's local: the jobs this turn delivers
    processorAlive, \* queue_processor_loop still runs
    now,            \* the minute datetime.now() formats to
    crashes,        \* ends of the process so far
    scheduled,      \* history: ids handed out
    cancelled,      \* history: jobs cancel_job removed
    reached         \* history: due jobs whose prompt the model has seen

turnVars == <<agentLock, answered, fired>>
historyVars == <<scheduled, cancelled, reached>>
vars == <<up, mem, disk, queue, turnVars, processorAlive, now, crashes,
          historyVars>>

Minute == 1 .. MaxMinute
Never == 0                              \* last_fired = None

\* The job table: live jobs, those pending_delivery, each last_fired.
Store == [live : SUBSET JobId, pending : SUBSET JobId,
          last : [JobId -> Minute \cup {Never}]]
NoJobs == [live |-> {}, pending |-> {}, last |-> [j \in JobId |-> Never]]

None == [j \in JobId |-> 0]             \* an empty list of jobs
In(list) == {j \in JobId : list[j] > 0}

TypeOK ==
    /\ up \in BOOLEAN
    /\ mem \in Store /\ disk \in Store
    /\ queue \in [JobId -> Nat] /\ fired \in [JobId -> Nat]
    /\ agentLock \in {"free", "cli", "processor"}
    /\ answered \in BOOLEAN
    /\ processorAlive \in BOOLEAN
    /\ now \in Minute /\ crashes \in Nat
    /\ scheduled \subseteq JobId
    /\ cancelled \subseteq JobId
    /\ reached \subseteq JobId

Init ==
    /\ up = TRUE /\ processorAlive = TRUE
    /\ mem = NoJobs /\ disk = NoJobs
    /\ queue = None
    /\ agentLock = "free" /\ answered = FALSE /\ fired = None
    /\ now = 1 /\ crashes = 0
    /\ scheduled = {} /\ cancelled = {} /\ reached = {}

-----------------------------------------------------------------------------
(***************************************************************************)
(* The clock and the poller.                                               *)
(***************************************************************************)
Tick ==
    /\ now < MaxMinute
    /\ now' = now + 1
    /\ UNCHANGED <<up, mem, disk, queue, turnVars, processorAlive, crashes,
                   historyVars>>

\* The minutes j's expression matches.
Matches[j \in JobId] == {m \in Minute : CronMatches(Expression[j], Clock[m])}

\* Mutant of Due: forgets that this minute has fired already.
DueAgain == {j \in mem.live \ mem.pending : now \in Matches[j]}

\* What poll_due_jobs lets through to _enqueue_due_job.
Due == {j \in mem.live \ mem.pending : mem.last[j] # now /\ now \in Matches[j]}

\* save_cron_durable: the temporary file replaces the old one in one step.
Save(store) == disk' = store

\* Mutant of Enqueued: an off-by-one in the minute that is marked as fired.
EnqueuedNextMinute(jobs) ==
    [mem EXCEPT !.pending = @ \cup jobs,
                !.last = [j \in JobId |-> IF j \in jobs THEN now + 1 ELSE @[j]]]

Enqueued(jobs) ==
    [mem EXCEPT !.pending = @ \cup jobs,
                !.last = [j \in JobId |-> IF j \in jobs THEN now ELSE @[j]]]

\* Mutant of PollDueJobs: a job whose save failed is not put back as it was.
PollKeepsFailed ==
    /\ up
    /\ \E jobs \in (SUBSET Due) \ {{}} :
          /\ jobs # Due => "poll" \in SaveMayFail
          /\ mem' = Enqueued(Due)
          /\ Save(Enqueued(jobs))
          /\ queue' = [j \in JobId |-> queue[j] + IF j \in jobs THEN 1 ELSE 0]
          /\ reached' = reached \ jobs
    /\ UNCHANGED <<up, turnVars, processorAlive, now, crashes, scheduled,
                   cancelled>>

\* Each due job is saved on its own: the failed ones are put back as they
\* were and the others still go through.  jobs are those whose save worked.
PollDueJobs ==
    /\ up
    /\ \E jobs \in (SUBSET Due) \ {{}} :
          /\ jobs # Due => "poll" \in SaveMayFail
          /\ mem' = Enqueued(jobs)
          /\ Save(Enqueued(jobs))
          /\ queue' = [j \in JobId |-> queue[j] + IF j \in jobs THEN 1 ELSE 0]
          /\ reached' = reached \ jobs
    /\ UNCHANGED <<up, turnVars, processorAlive, now, crashes, scheduled,
                   cancelled>>

-----------------------------------------------------------------------------
(***************************************************************************)
(* A turn: take the agent lock, collect the queue, call the model, run     *)
(* tools, settle or restore the collected jobs, release the lock.          *)
(***************************************************************************)
StartTurn(thread) ==
    /\ up /\ agentLock = "free"
    /\ agentLock' = thread
    /\ fired' = queue                   \* consume_cron_queue
    /\ queue' = None
    /\ answered' = FALSE
    /\ UNCHANGED <<up, mem, disk, processorAlive, now, crashes, historyVars>>

StartUserTurn == StartTurn("cli")

StartProcessorTurn ==
    /\ processorAlive
    /\ queue # None                     \* has_cron_queue
    /\ StartTurn("processor")

\* The first response of the provider: the prompts are in the model's hands.
ModelAnswers ==
    /\ up /\ agentLock # "free" /\ ~answered
    /\ answered' = TRUE
    /\ reached' = reached \cup (In(fired) \cap mem.live)
    /\ UNCHANGED <<up, mem, disk, queue, agentLock, fired, processorAlive, now,
                   crashes, scheduled, cancelled>>

\* Tool calls the model makes.  A save that raises inside them is rolled back
\* and reported as a tool error: it leaves no trace, like a refused expression.
ScheduleCron(j) ==
    /\ up /\ answered
    /\ j \notin scheduled
    /\ ValidCron(Expression[j])
    /\ LET grown == [mem EXCEPT !.live = @ \cup {j}]
       IN  mem' = grown /\ Save(grown)
    /\ scheduled' = scheduled \cup {j}
    /\ UNCHANGED <<up, queue, turnVars, processorAlive, now, crashes, cancelled,
                   reached>>

\* Mutant of CancelJob: the cancelled job keeps its place in cron_queue.
CancelLeavesQueue(j) ==
    /\ up /\ answered
    /\ j \in mem.live
    /\ LET shrunk == [mem EXCEPT !.live = @ \ {j}, !.pending = @ \ {j}]
       IN  mem' = shrunk /\ Save(shrunk)
    /\ cancelled' = cancelled \cup {j}
    /\ UNCHANGED <<up, queue, turnVars, processorAlive, now, crashes, scheduled,
                   reached>>

CancelJob(j) ==
    /\ up /\ answered
    /\ j \in mem.live
    /\ LET shrunk == [mem EXCEPT !.live = @ \ {j}, !.pending = @ \ {j}]
       IN  mem' = shrunk /\ Save(shrunk)
    /\ queue' = [queue EXCEPT ![j] = 0]
    /\ cancelled' = cancelled \cup {j}
    /\ UNCHANGED <<up, turnVars, processorAlive, now, crashes, scheduled,
                   reached>>

-----------------------------------------------------------------------------
(***************************************************************************)
(* The end of a turn (lines 98-122 of loop.py).                            *)
(***************************************************************************)
\* Jobs of this turn that acknowledge and restore still find in the table.
Delivered == In(fired) \cap mem.live

\* Mutant of Settled: clears every pending flag, not only those of this turn.
SettledAll ==
    [mem EXCEPT !.live = @ \ (Delivered \ Repeats),
                !.pending = {}]

Settled ==
    [mem EXCEPT !.live = @ \ (Delivered \ Repeats),
                !.pending = @ \ Delivered]

\* Mutant of Requeued: the collected jobs stay out of the queue.
RequeuedNever == queue

\* acknowledge_cron_jobs and restore_cron_jobs append what is not queued yet.
Requeued ==
    [j \in JobId |-> IF j \in Delivered /\ queue[j] = 0 THEN 1 ELSE queue[j]]

\* The queue processor has no handler: what escapes its turn ends its thread.
\* What escapes a turn of the CLI thread ends the process: see EndProcess.
Release(raises) ==
    /\ agentLock' = "free" /\ answered' = FALSE /\ fired' = None
    /\ processorAlive' = (processorAlive /\ ~(raises /\ agentLock = "processor"))
    /\ UNCHANGED <<up, now, crashes, historyVars>>

MayRaise == TurnMayRaise /\ agentLock = "processor"

\* Mutant of Acknowledge: settles whatever happened to the request.
AcknowledgeAlways ==
    /\ up /\ agentLock # "free"
    /\ mem' = Settled
    /\ Save(Settled)
    /\ UNCHANGED queue
    /\ \E raises \in BOOLEAN : (raises => MayRaise) /\ Release(raises)

Acknowledge ==
    /\ up /\ agentLock # "free" /\ answered
    /\ mem' = Settled
    /\ Save(Settled)
    /\ UNCHANGED queue
    /\ \E raises \in BOOLEAN : (raises => MayRaise) /\ Release(raises)

AcknowledgeFails ==
    /\ up /\ agentLock = "processor" /\ answered
    /\ "ack" \in SaveMayFail
    /\ queue' = Requeued
    /\ UNCHANGED <<mem, disk>>
    /\ Release(TRUE)

RestoreJobs ==
    /\ up /\ agentLock # "free" /\ ~answered
    /\ mem' = [mem EXCEPT !.pending = @ \cup Delivered]
    /\ queue' = Requeued
    /\ UNCHANGED disk
    /\ \E raises \in BOOLEAN : (raises => MayRaise) /\ Release(raises)

\* A turn of the user that delivers no cron prompt may end unfinished after an
\* answer (truncated, blocked goal, rounds exhausted): nothing is written.
AbandonTurn ==
    /\ up /\ agentLock = "cli" /\ answered /\ fired = None
    /\ UNCHANGED <<mem, disk, queue>>
    /\ Release(FALSE)

-----------------------------------------------------------------------------
(***************************************************************************)
(* The end of the process (quit, an exception in the CLI thread, a kill)   *)
(* at any point, and its next start (load_durable_cron).                   *)
(***************************************************************************)
EndProcess ==
    /\ up
    /\ crashes < MaxCrashes
    /\ crashes' = crashes + 1
    /\ up' = FALSE
    /\ mem' = NoJobs /\ queue' = None
    /\ agentLock' = "free" /\ answered' = FALSE /\ fired' = None
    /\ processorAlive' = FALSE
    /\ UNCHANGED <<disk, now, historyVars>>

StartProcess ==
    /\ ~up
    /\ up' = TRUE /\ processorAlive' = TRUE
    /\ mem' = disk
    /\ queue' = [j \in JobId |-> IF j \in disk.pending THEN 1 ELSE 0]
    /\ UNCHANGED <<disk, turnVars, now, crashes, historyVars>>

EndTurn == Acknowledge \/ AcknowledgeFails \/ RestoreJobs \/ AbandonTurn

Next ==
    \/ Tick
    \/ PollDueJobs
    \/ StartUserTurn
    \/ StartProcessorTurn
    \/ ModelAnswers
    \/ \E j \in JobId : ScheduleCron(j) \/ CancelJob(j)
    \/ EndTurn
    \/ EndProcess
    \/ StartProcess

Spec == Init /\ [][Next]_vars

\* Both threads loop for ever and a turn is finite; the user starts the
\* program again.  The provider and the disk do not fail for ever.
Fairness ==
    /\ WF_vars(StartProcessorTurn)
    /\ WF_vars(EndTurn)
    /\ WF_vars(StartProcess)
    /\ SF_vars(ModelAnswers)
    /\ SF_vars(Acknowledge)

FairSpec == Spec /\ Fairness

-----------------------------------------------------------------------------
(***************************************************************************)
(* Properties.                                                             *)
(***************************************************************************)
\* While the process runs, the job table and its file agree between critical
\* sections: every operation persists its change or takes it back, also when
\* one of several saves of a poll fails or an acknowledgement is not saved.
TableIsDurable == up => mem = disk

\* What schedule_cron lets into the table, every poll can read: the parser that
\* accepts an expression is not the one that matches it, and a job on which the
\* second raises would be skipped every second, without its user being told;
\* nor does a start refuse the file.
TableIsReadable ==
    \A j \in mem.live \cup disk.live :
        ValidCron(Expression[j]) /\ Readable(Expression[j])

\* A live job is pending exactly when one copy of it stands in cron_queue or
\* in the hands of the running turn; a job that left the table is not queued.
\* Two copies would deliver a prompt twice, none would strand it until restart.
PendingTracked ==
    up => \A j \in JobId :
             IF j \in mem.live
             THEN queue[j] + fired[j] = IF j \in mem.pending THEN 1 ELSE 0
             ELSE queue[j] = 0

\* A job handed out by schedule_cron is in the file until it is cancelled or,
\* for a one-shot job, the model has seen its prompt: no failure and no end
\* of the process loses it earlier.
NothingLost ==
    \A j \in scheduled :
       \/ j \in disk.live
       \/ j \in cancelled
       \/ j \notin Repeats /\ j \in reached

\* A job becomes pending in the file only with a strictly later last_fired, so
\* no minute fires twice, whatever was rolled back or reloaded in between.
OneFiringPerMinute ==
    [][\A j \in JobId :
          /\ disk.last[j] <= disk'.last[j]
          /\ j \in disk'.pending \ disk.pending => disk.last[j] < disk'.last[j]
      ]_vars

\* What the file says of a job.
DurableStatus(j) ==
    CASE j \notin scheduled -> "unborn"
      [] j \in disk.pending -> "due"
      [] j \in disk.live \ disk.pending -> "idle"
      [] j \in cancelled -> "cancelled"
      [] OTHER -> "done"

Promised == INSTANCE CronPromise WITH
                status <- [j \in JobId |-> DurableStatus(j)]

\* The file implements the at-least-once promise of CronPromise: every step of
\* every thread is one of its steps or changes nothing the user relies on.
KeepsPromise == Promised!Promise

\* A job the file says is pending does not stay so: a failed model call is
\* retried, a restart queues it again, and no thread waits for another.
PendingIsSettled ==
    \A j \in JobId : (j \in disk.pending) ~> (j \notin disk.pending)

\* As long as nothing has ended the queue processor of this process.
ProcessorSettles ==
    \A j \in JobId :
       (j \in disk.pending) ~> (j \notin disk.pending \/ (up /\ ~processorAlive))
=============================================================================
