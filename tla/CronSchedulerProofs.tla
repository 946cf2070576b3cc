------------------------ MODULE CronSchedulerProofs ------------------------
(***************************************************************************)
(* Proofs about CronScheduler for every set of jobs, every schedule, every *)
(* number of restarts and every choice of failing saves.  The invariants   *)
(* the model checker confirms are not inductive one by one: the table      *)
(* agrees with the file only because nothing runs in a dead process, a job *)
(* stands in one place only because an idle lock holds no job, and         *)
(* settling loses nothing only because an answered turn has shown its jobs *)
(* to the model.  IInv joins them.                                         *)
(***************************************************************************)
EXTENDS CronScheduler, SequenceTheorems, TLAPS

\* Outside a turn, and in a dead process, no job is in a turn's hands.
IdleLock ==
    /\ agentLock = "free" => fired = None /\ ~answered
    /\ ~up => agentLock = "free"

\* The histories agree with the file.
HistoryAgrees ==
    /\ mem.pending \subseteq mem.live
    /\ disk.pending \subseteq disk.live
    /\ disk.live \subseteq scheduled
    /\ cancelled \subseteq scheduled
    /\ disk.live \cap cancelled = {}
    /\ In(fired) \subseteq scheduled

NoFutureFiring == \A j \in JobId : disk.last[j] <= now

\* An answered turn has shown the model every live job it holds.
AnsweredReached == up /\ answered => Delivered \subseteq reached

IInv ==
    /\ TypeOK
    /\ TableIsDurable
    /\ PendingTracked
    /\ NothingLost
    /\ IdleLock
    /\ HistoryAgrees
    /\ NoFutureFiring
    /\ AnsweredReached

-----------------------------------------------------------------------------
LEMMA InitIInv == Init => IInv
  <1> SUFFICES ASSUME Init PROVE IInv
    OBVIOUS
  <1> USE DEF Init
  <1>1. NoJobs \in Store
    BY DEF NoJobs, Store
  <1>2. TypeOK
    <2>1. now \in Minute /\ crashes \in Nat
      BY CronAssumption DEF Minute
    <2>2. None \in [JobId -> Nat]
      BY DEF None
    <2> QED
      BY <1>1, <2>1, <2>2 DEF TypeOK
  <1>3. TableIsDurable /\ NothingLost /\ IdleLock
    BY DEF TableIsDurable, NothingLost, IdleLock
  <1>4. PendingTracked
    BY DEF PendingTracked, NoJobs, None
  <1>5. HistoryAgrees /\ AnsweredReached
    BY DEF HistoryAgrees, AnsweredReached, NoJobs, In, None
  <1>6. NoFutureFiring
    BY DEF NoFutureFiring, NoJobs, Never
  <1> QED
    BY <1>2, <1>3, <1>4, <1>5, <1>6 DEF IInv

LEMMA TickStep == IInv /\ Tick => IInv'
  <1> SUFFICES ASSUME IInv, Tick PROVE IInv'
    OBVIOUS
  <1> USE DEF IInv, Tick, turnVars, historyVars
  <1>1. now' \in Minute /\ now <= now'
    BY CronAssumption DEF TypeOK, Minute
  <1>2. TypeOK'
    BY <1>1 DEF TypeOK
  <1>3. (TableIsDurable /\ PendingTracked /\ NothingLost)'
    BY DEF TableIsDurable, PendingTracked, NothingLost
  <1>4. (IdleLock /\ HistoryAgrees /\ AnsweredReached)'
    BY DEF IdleLock, HistoryAgrees, AnsweredReached, Delivered, In
  <1>5. NoFutureFiring'
    <2> SUFFICES ASSUME NEW j \in JobId PROVE disk.last[j] <= now'
      BY DEF NoFutureFiring
    <2>1. disk.last[j] \in Nat /\ now \in Nat /\ now' \in Nat
      BY <1>1, CronAssumption DEF TypeOK, Store, Minute, Never
    <2> QED
      BY <1>1, <2>1 DEF NoFutureFiring
  <1> QED
    BY <1>2, <1>3, <1>4, <1>5

\* The jobs of the queue pass into the turn's hands, one copy each.
LEMMA StartTurnStep ==
  ASSUME NEW thread \in {"cli", "processor"}
  PROVE  IInv /\ StartTurn(thread) => IInv'
  <1> SUFFICES ASSUME IInv, StartTurn(thread) PROVE IInv'
    OBVIOUS
  <1> USE DEF IInv, StartTurn, historyVars
  <1>1. fired = None /\ None \in [JobId -> Nat]
    BY DEF IdleLock, None
  <1>2. TypeOK'
    BY <1>1 DEF TypeOK
  <1>3. (TableIsDurable /\ NothingLost /\ NoFutureFiring)'
    BY DEF TableIsDurable, NothingLost, NoFutureFiring
  <1>4. (IdleLock /\ AnsweredReached)'
    BY DEF IdleLock, AnsweredReached
  <1>5. PendingTracked'
    <2> SUFFICES ASSUME NEW j \in JobId
                 PROVE  IF j \in mem.live
                        THEN queue'[j] + fired'[j] =
                               IF j \in mem.pending THEN 1 ELSE 0
                        ELSE queue'[j] = 0
      BY DEF PendingTracked
    <2>1. queue'[j] = 0 /\ fired[j] = 0 /\ fired'[j] = queue[j]
      BY <1>1 DEF None
    <2>2. queue[j] \in Nat
      BY DEF TypeOK
    <2> QED
      BY <2>1, <2>2 DEF PendingTracked
  <1>6. HistoryAgrees'
    <2>1. In(queue) \subseteq mem.pending \cup mem.live
      BY <1>1 DEF PendingTracked, In, None
    <2> QED
      BY <2>1 DEF HistoryAgrees, TableIsDurable, In
  <1> QED
    BY <1>2, <1>3, <1>4, <1>5, <1>6

LEMMA ModelAnswersStep == IInv /\ ModelAnswers => IInv'
  <1> SUFFICES ASSUME IInv, ModelAnswers PROVE IInv'
    OBVIOUS
  <1> USE DEF IInv, ModelAnswers
  <1>1. TypeOK'
    BY DEF TypeOK, In
  <1>2. (TableIsDurable /\ PendingTracked /\ NothingLost)'
    BY DEF TableIsDurable, PendingTracked, NothingLost
  <1>3. (IdleLock /\ HistoryAgrees /\ NoFutureFiring)'
    BY DEF IdleLock, HistoryAgrees, NoFutureFiring
  <1>4. AnsweredReached'
    BY DEF AnsweredReached, Delivered, In
  <1> QED
    BY <1>1, <1>2, <1>3, <1>4

LEMMA EndProcessStep == IInv /\ EndProcess => IInv'
  <1> SUFFICES ASSUME IInv, EndProcess PROVE IInv'
    OBVIOUS
  <1> USE DEF IInv, EndProcess, historyVars
  <1>1. NoJobs \in Store /\ None \in [JobId -> Nat]
    BY DEF NoJobs, Store, None
  <1>2. TypeOK'
    <2>1. crashes' \in Nat
      BY DEF TypeOK
    <2> QED
      BY <1>1, <2>1 DEF TypeOK
  <1>3. (TableIsDurable /\ PendingTracked /\ NothingLost)'
    BY DEF TableIsDurable, PendingTracked, NothingLost
  <1>4. (IdleLock /\ NoFutureFiring /\ AnsweredReached)'
    BY DEF IdleLock, NoFutureFiring, AnsweredReached
  <1>5. HistoryAgrees'
    BY DEF HistoryAgrees, NoJobs, In, None
  <1> QED
    BY <1>2, <1>3, <1>4, <1>5

\* load_durable_cron queues exactly the pending jobs of the file.
LEMMA StartProcessStep == IInv /\ StartProcess => IInv'
  <1> SUFFICES ASSUME IInv, StartProcess PROVE IInv'
    OBVIOUS
  <1> USE DEF IInv, StartProcess, turnVars, historyVars
  <1>1. TypeOK'
    BY DEF TypeOK
  <1>2. (TableIsDurable /\ NothingLost /\ IdleLock /\ NoFutureFiring)'
    BY DEF TableIsDurable, NothingLost, IdleLock, NoFutureFiring
  <1>3. (HistoryAgrees /\ AnsweredReached)'
    BY DEF HistoryAgrees, AnsweredReached, IdleLock
  <1>4. PendingTracked'
    <2> SUFFICES ASSUME NEW j \in JobId
                 PROVE  IF j \in disk.live
                        THEN queue'[j] + fired[j] =
                               IF j \in disk.pending THEN 1 ELSE 0
                        ELSE queue'[j] = 0
      BY DEF PendingTracked
    <2>1. fired[j] = 0
      BY DEF IdleLock, None
    <2>2. queue'[j] = IF j \in disk.pending THEN 1 ELSE 0
      OBVIOUS
    <2> QED
      BY <2>1, <2>2 DEF HistoryAgrees
  <1> QED
    BY <1>1, <1>2, <1>3, <1>4

\* A poll makes an idle job pending, queues it and stamps it in one step.
LEMMA PollStep == IInv /\ PollDueJobs => IInv'
  <1> SUFFICES ASSUME IInv, PollDueJobs PROVE IInv'
    OBVIOUS
  <1> USE DEF IInv, turnVars, Save
  <1>1. PICK jobs \in (SUBSET Due) \ {{}} :
           /\ mem' = Enqueued(jobs)
           /\ disk' = Enqueued(jobs)
           /\ queue' = [j \in JobId |-> queue[j] + IF j \in jobs THEN 1 ELSE 0]
           /\ reached' = reached \ jobs
    BY DEF PollDueJobs
  <1>2. /\ up
        /\ UNCHANGED <<up, agentLock, answered, fired, processorAlive, now,
                       crashes, scheduled, cancelled>>
    BY DEF PollDueJobs
  <1>3. mem = disk
    BY <1>2 DEF TableIsDurable
  <1>4. /\ jobs \subseteq mem.live \ mem.pending
        /\ jobs \subseteq JobId
    BY DEF Due, TypeOK, Store
  <1>5. /\ mem'.live = mem.live
        /\ mem'.pending = mem.pending \cup jobs
        /\ mem'.last = [j \in JobId |-> IF j \in jobs THEN now ELSE mem.last[j]]
        /\ mem' \in Store
    <2>1. /\ mem.live \subseteq JobId
          /\ mem.pending \subseteq JobId
          /\ mem.last \in [JobId -> Minute \cup {Never}]
          /\ mem \in Store
      BY DEF TypeOK, Store
    <2>2. [j \in JobId |-> IF j \in jobs THEN now ELSE mem.last[j]]
             \in [JobId -> Minute \cup {Never}]
      BY <2>1 DEF TypeOK
    <2> QED
      BY <1>1, <1>4, <2>1, <2>2 DEF Enqueued, Store
  <1>6. TypeOK'
    BY <1>1, <1>2, <1>5 DEF TypeOK
  <1>7. (TableIsDurable /\ IdleLock)'
    BY <1>1, <1>2 DEF TableIsDurable, IdleLock
  <1>8. HistoryAgrees'
    BY <1>1, <1>2, <1>3, <1>4, <1>5 DEF HistoryAgrees
  <1>9. NothingLost'
    BY <1>1, <1>2, <1>3, <1>4, <1>5 DEF NothingLost
  <1>10. NoFutureFiring'
    BY <1>1, <1>2, <1>3, <1>5, CronAssumption
       DEF NoFutureFiring, TypeOK, Minute
  <1>11. AnsweredReached'
    BY <1>1, <1>2, <1>4, <1>5 DEF AnsweredReached, PendingTracked, Delivered, In, TypeOK
  <1>12. PendingTracked'
    <2> SUFFICES ASSUME NEW j \in JobId
                 PROVE  IF j \in mem'.live
                        THEN queue'[j] + fired'[j] =
                               IF j \in mem'.pending THEN 1 ELSE 0
                        ELSE queue'[j] = 0
      BY DEF PendingTracked
    <2>1. /\ queue[j] \in Nat /\ fired[j] \in Nat
          /\ queue'[j] = queue[j] + IF j \in jobs THEN 1 ELSE 0
      BY <1>1 DEF TypeOK
    <2> QED
      BY <1>2, <1>4, <1>5, <2>1 DEF PendingTracked
  <1> QED
    BY <1>6, <1>7, <1>8, <1>9, <1>10, <1>11, <1>12

LEMMA ScheduleStep ==
  ASSUME NEW j \in JobId
  PROVE  IInv /\ ScheduleCron(j) => IInv'
  <1> SUFFICES ASSUME IInv, ScheduleCron(j) PROVE IInv'
    OBVIOUS
  <1> USE DEF IInv, turnVars, Save
  <1>1. /\ up /\ j \notin scheduled
        /\ mem' = [mem EXCEPT !.live = @ \cup {j}]
        /\ disk' = mem'
        /\ scheduled' = scheduled \cup {j}
        /\ UNCHANGED <<up, queue, agentLock, answered, fired, processorAlive,
                       now, crashes, cancelled, reached>>
    BY DEF ScheduleCron
  <1>2. mem = disk
    BY <1>1 DEF TableIsDurable
  <1>3. /\ mem'.live = mem.live \cup {j}
        /\ mem'.pending = mem.pending
        /\ mem'.last = mem.last
        /\ mem' \in Store
    BY <1>1 DEF TypeOK, Store
  <1>4. TypeOK'
    BY <1>1, <1>3 DEF TypeOK
  <1>5. (TableIsDurable /\ IdleLock)'
    BY <1>1 DEF TableIsDurable, IdleLock
  <1>6. HistoryAgrees'
    BY <1>1, <1>2, <1>3 DEF HistoryAgrees
  <1>7. (NothingLost /\ NoFutureFiring)'
    BY <1>1, <1>2, <1>3 DEF NothingLost, NoFutureFiring
  \* A fresh job is in no turn's hands: jobs in hand have been handed out.
  <1>8. fired[j] = 0 /\ queue[j] = 0 /\ j \notin mem.live /\ j \notin mem.pending
    <2>1. fired[j] \in Nat
      BY DEF TypeOK
    <2> QED
      BY <1>1, <1>2, <2>1 DEF HistoryAgrees, PendingTracked, In
  <1>9. PendingTracked'
    <2> SUFFICES ASSUME NEW i \in JobId
                 PROVE  IF i \in mem'.live
                        THEN queue'[i] + fired'[i] =
                               IF i \in mem'.pending THEN 1 ELSE 0
                        ELSE queue'[i] = 0
      BY DEF PendingTracked
    <2> QED
      BY <1>1, <1>3, <1>8 DEF PendingTracked
  <1>10. AnsweredReached'
    BY <1>1, <1>3, <1>8 DEF AnsweredReached, Delivered, In
  <1> QED
    BY <1>4, <1>5, <1>6, <1>7, <1>9, <1>10

LEMMA CancelStep ==
  ASSUME NEW j \in JobId
  PROVE  IInv /\ CancelJob(j) => IInv'
  <1> SUFFICES ASSUME IInv, CancelJob(j) PROVE IInv'
    OBVIOUS
  <1> USE DEF IInv, turnVars, Save
  <1>1. /\ up /\ j \in mem.live
        /\ mem' = [mem EXCEPT !.live = @ \ {j}, !.pending = @ \ {j}]
        /\ disk' = mem'
        /\ queue' = [queue EXCEPT ![j] = 0]
        /\ cancelled' = cancelled \cup {j}
        /\ UNCHANGED <<up, agentLock, answered, fired, processorAlive, now,
                       crashes, scheduled, reached>>
    BY DEF CancelJob
  <1>2. mem = disk
    BY <1>1 DEF TableIsDurable
  <1>3. /\ mem'.live = mem.live \ {j}
        /\ mem'.pending = mem.pending \ {j}
        /\ mem'.last = mem.last
        /\ mem' \in Store
    BY <1>1 DEF TypeOK, Store
  <1>4. TypeOK'
    BY <1>1, <1>3 DEF TypeOK
  <1>5. (TableIsDurable /\ IdleLock)'
    BY <1>1 DEF TableIsDurable, IdleLock
  <1>6. HistoryAgrees'
    BY <1>1, <1>2, <1>3 DEF HistoryAgrees
  <1>7. (NothingLost /\ NoFutureFiring)'
    BY <1>1, <1>2, <1>3 DEF NothingLost, NoFutureFiring
  <1>8. PendingTracked'
    <2> SUFFICES ASSUME NEW i \in JobId
                 PROVE  IF i \in mem'.live
                        THEN queue'[i] + fired'[i] =
                               IF i \in mem'.pending THEN 1 ELSE 0
                        ELSE queue'[i] = 0
      BY DEF PendingTracked
    <2>1. queue'[i] = IF i = j THEN 0 ELSE queue[i]
      BY <1>1 DEF TypeOK
    <2> QED
      BY <1>1, <1>3, <2>1 DEF PendingTracked
  <1>9. AnsweredReached'
    BY <1>1, <1>3 DEF AnsweredReached, Delivered, In
  <1> QED
    BY <1>4, <1>5, <1>6, <1>7, <1>8, <1>9

-----------------------------------------------------------------------------
\* The end of a turn.  Release empties the hands of the turn.
LEMMA ReleaseFacts ==
  ASSUME NEW raises \in BOOLEAN, Release(raises), TypeOK
  PROVE  /\ agentLock' = "free" /\ answered' = FALSE /\ fired' = None
         /\ fired' \in [JobId -> Nat]
         /\ \A j \in JobId : fired'[j] = 0
         /\ In(fired') = {}
         /\ processorAlive' \in BOOLEAN
         /\ UNCHANGED <<up, now, crashes, scheduled, cancelled, reached>>
  BY DEF Release, None, In, TypeOK, historyVars

LEMMA AcknowledgeStep == IInv /\ Acknowledge => IInv'
  <1> SUFFICES ASSUME IInv, Acknowledge PROVE IInv'
    OBVIOUS
  <1> USE DEF IInv, Save
  <1>1. PICK raises \in BOOLEAN : Release(raises)
    BY DEF Acknowledge
  <1>2. /\ agentLock' = "free" /\ answered' = FALSE /\ fired' = None
        /\ fired' \in [JobId -> Nat]
        /\ \A j \in JobId : fired'[j] = 0
        /\ In(fired') = {}
        /\ processorAlive' \in BOOLEAN
        /\ UNCHANGED <<up, now, crashes, scheduled, cancelled, reached>>
    BY <1>1, ReleaseFacts
  <1>3. up /\ answered /\ mem' = Settled /\ disk' = mem' /\ queue' = queue
    BY DEF Acknowledge
  <1>4. mem = disk
    BY <1>3 DEF TableIsDurable
  <1>5. /\ mem'.live = mem.live \ (Delivered \ Repeats)
        /\ mem'.pending = mem.pending \ Delivered
        /\ mem'.last = mem.last
        /\ mem' \in Store
    <2>1. mem \in Store /\ mem' = Settled
      BY <1>3 DEF TypeOK
    <2> QED
      BY <2>1 DEF Store, Settled
  <1>6. TypeOK'
    BY <1>2, <1>3, <1>5 DEF TypeOK
  <1>7. (TableIsDurable /\ IdleLock /\ AnsweredReached)'
    BY <1>2, <1>3 DEF TableIsDurable, IdleLock, AnsweredReached
  <1>8. HistoryAgrees'
    BY <1>2, <1>3, <1>4, <1>5 DEF HistoryAgrees
  <1>9. (NothingLost /\ NoFutureFiring)'
    BY <1>2, <1>3, <1>4, <1>5 DEF NothingLost, NoFutureFiring, AnsweredReached
  <1>10. PendingTracked'
    <2> SUFFICES ASSUME NEW j \in JobId
                 PROVE  IF j \in mem'.live
                        THEN queue'[j] + fired'[j] =
                               IF j \in mem'.pending THEN 1 ELSE 0
                        ELSE queue'[j] = 0
      BY DEF PendingTracked
    <2>1. queue[j] \in Nat /\ fired[j] \in Nat
      BY DEF TypeOK
    <2>2. fired'[j] = 0 /\ queue'[j] = queue[j]
      BY <1>2, <1>3
    <2>3. j \in Delivered <=> fired[j] > 0 /\ j \in mem.live
      BY DEF Delivered, In
    <2>4. CASE j \notin mem.live
      BY <1>3, <1>5, <2>2, <2>4 DEF PendingTracked
    <2>5. CASE j \in mem.live
      <3>1. queue[j] + fired[j] = IF j \in mem.pending THEN 1 ELSE 0
        BY <1>3, <2>5 DEF PendingTracked
      <3>2. CASE j \in Delivered
        <4>1. queue[j] = 0
          BY <2>1, <2>3, <3>1, <3>2
        <4> QED
          BY <1>5, <2>2, <3>2, <4>1
      <3>3. CASE j \notin Delivered
        <4>1. fired[j] = 0
          BY <2>1, <2>3, <2>5, <3>3
        <4> QED
          BY <1>5, <2>1, <2>2, <2>5, <3>1, <3>3, <4>1
      <3> QED
        BY <3>2, <3>3
    <2> QED
      BY <2>4, <2>5
  <1> QED
    BY <1>6, <1>7, <1>8, <1>9, <1>10

\* The jobs of a failed turn stand in the queue again, once.
LEMMA RequeuedTracked ==
  ASSUME IInv, up, queue' = Requeued, mem' = mem, \A j \in JobId : fired'[j] = 0,
         UNCHANGED up
  PROVE  PendingTracked' /\ queue' \in [JobId -> Nat]
  <1> USE DEF IInv
  <1>1. queue' \in [JobId -> Nat]
    BY DEF Requeued, TypeOK
  <1>2. SUFFICES ASSUME NEW j \in JobId
                 PROVE  IF j \in mem.live
                        THEN queue'[j] + fired'[j] =
                               IF j \in mem.pending THEN 1 ELSE 0
                        ELSE queue'[j] = 0
    BY <1>1 DEF PendingTracked
  <1>3. queue[j] \in Nat /\ fired[j] \in Nat
    BY DEF TypeOK
  <1>4. queue'[j] = IF j \in Delivered /\ queue[j] = 0 THEN 1 ELSE queue[j]
    BY DEF Requeued
  <1> QED
    BY <1>3, <1>4 DEF PendingTracked, Delivered, In

LEMMA RequeueStep ==
  ASSUME IInv, up, queue' = Requeued, mem' = mem, disk' = disk,
         NEW raises \in BOOLEAN, Release(raises)
  PROVE  IInv'
  <1> USE DEF IInv
  <1>1. /\ agentLock' = "free" /\ answered' = FALSE /\ fired' = None
        /\ fired' \in [JobId -> Nat]
        /\ \A j \in JobId : fired'[j] = 0
        /\ In(fired') = {}
        /\ processorAlive' \in BOOLEAN
        /\ UNCHANGED <<up, now, crashes, scheduled, cancelled, reached>>
    BY ReleaseFacts
  <1>2. PendingTracked' /\ queue' \in [JobId -> Nat]
    BY <1>1, RequeuedTracked
  <1>3. TypeOK'
    BY <1>1, <1>2 DEF TypeOK
  <1>4. (TableIsDurable /\ IdleLock /\ AnsweredReached)'
    BY <1>1 DEF TableIsDurable, IdleLock, AnsweredReached
  <1>5. (HistoryAgrees /\ NothingLost /\ NoFutureFiring)'
    BY <1>1 DEF HistoryAgrees, NothingLost, NoFutureFiring
  <1> QED
    BY <1>2, <1>3, <1>4, <1>5

LEMMA AcknowledgeFailsStep == IInv /\ AcknowledgeFails => IInv'
  BY RequeueStep DEF AcknowledgeFails

\* restore_cron_jobs marks its jobs pending; they never stopped being so.
LEMMA RestoreJobsStep == IInv /\ RestoreJobs => IInv'
  <1> SUFFICES ASSUME IInv, RestoreJobs PROVE IInv'
    OBVIOUS
  <1>1. Delivered \subseteq mem.pending
    <2> SUFFICES ASSUME NEW j \in Delivered PROVE j \in mem.pending
      OBVIOUS
    <2>1. j \in JobId /\ fired[j] > 0 /\ j \in mem.live
      BY DEF Delivered, In
    <2>2. queue[j] \in Nat /\ fired[j] \in Nat
      BY <2>1 DEF IInv, TypeOK
    <2> QED
      BY <2>1, <2>2 DEF IInv, PendingTracked, RestoreJobs
  <1>2. mem' = mem
    <2>1. mem.pending \cup Delivered = mem.pending
      BY <1>1
    <2>2. mem' = [mem EXCEPT !.pending = mem.pending]
      BY <2>1 DEF RestoreJobs
    <2> QED
      BY <2>2 DEF IInv, TypeOK, Store
  <1> QED
    BY <1>2, RequeueStep DEF RestoreJobs

LEMMA AbandonTurnStep == IInv /\ AbandonTurn => IInv'
  <1> SUFFICES ASSUME IInv, AbandonTurn PROVE IInv'
    OBVIOUS
  <1>1. queue' = Requeued
    BY DEF AbandonTurn, Requeued, Delivered, In, None, IInv, TypeOK
  <1> QED
    BY <1>1, RequeueStep DEF AbandonTurn

-----------------------------------------------------------------------------
LEMMA NextStep == IInv /\ [Next]_vars => IInv'
  <1> SUFFICES ASSUME IInv, [Next]_vars PROVE IInv'
    OBVIOUS
  <1>1. CASE Tick
    BY <1>1, TickStep
  <1>2. CASE PollDueJobs
    BY <1>2, PollStep
  <1>3. CASE StartUserTurn \/ StartProcessorTurn
    BY <1>3, StartTurnStep DEF StartUserTurn, StartProcessorTurn
  <1>4. CASE ModelAnswers
    BY <1>4, ModelAnswersStep
  <1>5. ASSUME NEW j \in JobId, ScheduleCron(j) \/ CancelJob(j)
        PROVE  IInv'
    BY <1>5, ScheduleStep, CancelStep
  <1>6. CASE EndTurn
    BY <1>6, AcknowledgeStep, AcknowledgeFailsStep, RestoreJobsStep,
       AbandonTurnStep DEF EndTurn
  <1>7. CASE EndProcess \/ StartProcess
    BY <1>7, EndProcessStep, StartProcessStep
  <1>8. CASE UNCHANGED vars
    BY <1>8 DEF vars, turnVars, historyVars, IInv, TypeOK, TableIsDurable,
       PendingTracked, NothingLost, IdleLock, HistoryAgrees, NoFutureFiring,
       AnsweredReached, Delivered, In
  <1> QED
    BY <1>1, <1>2, <1>3, <1>4, <1>5, <1>6, <1>7, <1>8 DEF Next

THEOREM Invariance == Spec => []IInv
  <1> QED
    BY InitIInv, NextStep, PTL DEF Spec

\* Every variable keeps its type, in particular the job table and its file.
THEOREM TypeCorrect == Spec => []TypeOK
  <1>1. IInv => TypeOK
    BY DEF IInv
  <1> QED
    BY <1>1, Invariance, PTL

\* Whatever save fails and whenever the process ends, the file holds exactly
\* the table that the running process works with.
THEOREM Durability == Spec => []TableIsDurable
  <1>1. IInv => TableIsDurable
    BY DEF IInv
  <1> QED
    BY <1>1, Invariance, PTL

\* A pending job is in exactly one place: no prompt is stranded in a running
\* process and none is delivered twice in one go.
THEOREM ExactlyOneCopy == Spec => []PendingTracked
  <1>1. IInv => PendingTracked
    BY DEF IInv
  <1> QED
    BY <1>1, Invariance, PTL

\* No scheduled job disappears before it is cancelled or shown to the model.
THEOREM NoJobLost == Spec => []NothingLost
  <1>1. IInv => NothingLost
    BY DEF IInv
  <1> QED
    BY <1>1, Invariance, PTL

-----------------------------------------------------------------------------
(***************************************************************************)
(* Steps of the file: what each kind of action does to it.                 *)
(***************************************************************************)
\* The jobs a poll makes pending, and the effect on the file.
LEMMA PollOnFile ==
  ASSUME IInv, PollDueJobs
  PROVE  \E jobs \in SUBSET (disk.live \ disk.pending) :
            /\ disk'.live = disk.live
            /\ disk'.pending = disk.pending \cup jobs
            /\ disk'.last = [j \in JobId |-> IF j \in jobs THEN now
                                                           ELSE disk.last[j]]
            /\ \A j \in jobs : disk.last[j] # now
            /\ reached' = reached \ jobs
            /\ UNCHANGED <<scheduled, cancelled>>
  <1>1. PICK jobs \in (SUBSET Due) \ {{}} :
           /\ disk' = Enqueued(jobs)
           /\ reached' = reached \ jobs
    BY DEF PollDueJobs, Save
  <1>2. mem = disk /\ UNCHANGED <<scheduled, cancelled>>
    BY DEF PollDueJobs, IInv, TableIsDurable
  <1>3. /\ jobs \in SUBSET (disk.live \ disk.pending)
        /\ \A j \in jobs : disk.last[j] # now
    BY <1>2 DEF Due
  <1>4. /\ disk'.live = disk.live
        /\ disk'.pending = disk.pending \cup jobs
        /\ disk'.last = [j \in JobId |-> IF j \in jobs THEN now ELSE disk.last[j]]
    BY <1>1, <1>2 DEF Enqueued, IInv, TypeOK, Store
  <1> QED
    BY <1>1, <1>2, <1>3, <1>4

\* An acknowledgement touches only jobs the model has seen.
LEMMA AcknowledgeOnFile ==
  ASSUME IInv, Acknowledge
  PROVE  /\ Delivered \subseteq disk.pending \cap reached
         /\ disk'.live = disk.live \ (Delivered \ Repeats)
         /\ disk'.pending = disk.pending \ Delivered
         /\ disk'.last = disk.last
         /\ UNCHANGED <<scheduled, cancelled, reached>>
  <1>1. up /\ answered /\ disk' = Settled /\ mem = disk
    BY DEF Acknowledge, Save, IInv, TableIsDurable
  <1>2. UNCHANGED <<scheduled, cancelled, reached>>
    BY DEF Acknowledge, Release, historyVars
  <1>3. mem \in Store
    BY DEF IInv, TypeOK
  <1>4. /\ disk'.live = disk.live \ (Delivered \ Repeats)
        /\ disk'.pending = disk.pending \ Delivered
        /\ disk'.last = disk.last
    BY <1>1, <1>3 DEF Settled, Store
  <1>5. Delivered \subseteq disk.pending
    <2> SUFFICES ASSUME NEW j \in Delivered PROVE j \in mem.pending
      BY <1>1
    <2>1. j \in JobId /\ fired[j] > 0 /\ j \in mem.live
      BY DEF Delivered, In
    <2>2. queue[j] \in Nat /\ fired[j] \in Nat
      BY <2>1 DEF IInv, TypeOK
    <2> QED
      BY <1>1, <2>1, <2>2 DEF IInv, PendingTracked
  <1> QED
    BY <1>1, <1>2, <1>4, <1>5 DEF IInv, AnsweredReached

\* Tool calls change one job of the file.
LEMMA ToolOnFile ==
  ASSUME NEW j \in JobId, IInv
  PROVE  /\ ScheduleCron(j) => /\ j \notin scheduled
                               /\ disk'.live = disk.live \cup {j}
                               /\ disk'.pending = disk.pending
                               /\ disk'.last = disk.last
                               /\ scheduled' = scheduled \cup {j}
                               /\ UNCHANGED <<cancelled, reached>>
         /\ CancelJob(j) => /\ j \in disk.live
                            /\ disk'.live = disk.live \ {j}
                            /\ disk'.pending = disk.pending \ {j}
                            /\ disk'.last = disk.last
                            /\ cancelled' = cancelled \cup {j}
                            /\ UNCHANGED <<scheduled, reached>>
  BY DEF ScheduleCron, CancelJob, Save, IInv, TypeOK, TableIsDurable, Store

\* All other steps leave the file alone.
LEMMA RestOnFile ==
  ASSUME [Next]_vars, ~PollDueJobs, ~Acknowledge,
         ~\E j \in JobId : ScheduleCron(j) \/ CancelJob(j)
  PROVE  /\ UNCHANGED <<disk, scheduled, cancelled>>
         /\ UNCHANGED reached \/ ModelAnswers
  BY DEF Next, EndTurn, Tick, StartUserTurn, StartProcessorTurn, StartTurn,
         ModelAnswers, AcknowledgeFails, RestoreJobs, AbandonTurn, Release,
         EndProcess, StartProcess, vars, historyVars

\* No minute fires a job twice, across rollbacks and restarts.
THEOREM FiringsAdvance == Spec => OneFiringPerMinute
  <1> DEFINE Advance(j) ==
        /\ disk.last[j] <= disk'.last[j]
        /\ j \in disk'.pending \ disk.pending => disk.last[j] < disk'.last[j]
  <1>1. IInv /\ [Next]_vars => [\A j \in JobId : Advance(j)]_vars
    <2> SUFFICES ASSUME IInv, [Next]_vars, NEW j \in JobId PROVE Advance(j)
      OBVIOUS
    <2>1. disk.last[j] \in Nat /\ now \in Nat /\ disk.last[j] <= now
      BY CronAssumption DEF IInv, TypeOK, Store, Minute, Never, NoFutureFiring
    <2>2. CASE PollDueJobs
      <3>1. PICK jobs \in SUBSET (disk.live \ disk.pending) :
               /\ disk'.pending = disk.pending \cup jobs
               /\ disk'.last = [i \in JobId |-> IF i \in jobs THEN now
                                                             ELSE disk.last[i]]
               /\ \A i \in jobs : disk.last[i] # now
        BY <2>2, PollOnFile
      <3>2. disk'.last[j] = IF j \in jobs THEN now ELSE disk.last[j]
        BY <3>1
      <3> QED
        BY <2>1, <3>1, <3>2
    <2>3. CASE Acknowledge
      BY <2>1, <2>3, AcknowledgeOnFile
    <2>4. CASE \E i \in JobId : ScheduleCron(i) \/ CancelJob(i)
      BY <2>1, <2>4, ToolOnFile
    <2>5. CASE /\ ~PollDueJobs /\ ~Acknowledge
               /\ ~\E i \in JobId : ScheduleCron(i) \/ CancelJob(i)
      BY <2>1, <2>5, RestOnFile
    <2> QED
      BY <2>2, <2>3, <2>4, <2>5
  <1> QED
    BY <1>1, Invariance, PTL DEF Spec, OneFiringPerMinute

-----------------------------------------------------------------------------
(***************************************************************************)
(* The file implements CronPromise.                                        *)
(***************************************************************************)
LEMMA PollKeepsPromise == IInv /\ PollDueJobs => Promised!PromiseNext
  <1> SUFFICES ASSUME IInv, PollDueJobs PROVE Promised!PromiseNext
    OBVIOUS
  <1>1. PICK jobs \in SUBSET (disk.live \ disk.pending) :
            /\ disk'.live = disk.live
            /\ disk'.pending = disk.pending \cup jobs
            /\ reached' = reached \ jobs
            /\ UNCHANGED <<scheduled, cancelled>>
    BY PollOnFile
  <1>2. /\ disk.live \subseteq scheduled /\ jobs \in SUBSET JobId
        /\ disk.live \cap cancelled = {}
    BY DEF IInv, HistoryAgrees, TypeOK, Store
  <1>3. Promised!Fire(jobs)
    <2>1. \A j \in jobs : DurableStatus(j) = "idle"
      <3> SUFFICES ASSUME NEW j \in jobs PROVE DurableStatus(j) = "idle"
        OBVIOUS
      <3>1. j \in scheduled /\ j \notin disk.pending /\ j \in disk.live
            /\ j \notin cancelled
        BY <1>2 DEF IInv, HistoryAgrees
      <3> QED
        BY <3>1 DEF DurableStatus
    <2>2. \A j \in jobs : DurableStatus(j)' = "due"
      BY <1>1, <1>2 DEF DurableStatus
    <2>3. \A j \in JobId \ jobs : DurableStatus(j)' = DurableStatus(j)
      BY <1>1 DEF DurableStatus
    <2> QED
      BY <1>1, <1>2, <2>1, <2>2, <2>3 DEF Promised!Fire
  <1> QED
    BY <1>2, <1>3 DEF Promised!PromiseNext

LEMMA AcknowledgeKeepsPromise == IInv /\ Acknowledge => Promised!PromiseNext
  <1> SUFFICES ASSUME IInv, Acknowledge PROVE Promised!PromiseNext
    OBVIOUS
  <1>1. /\ disk.live \subseteq scheduled /\ disk.pending \subseteq disk.live
        /\ disk.live \cap cancelled = {}
        /\ Delivered \in SUBSET JobId
    BY DEF IInv, HistoryAgrees, Delivered, In
  <1>2. Promised!Settle(Delivered)
    BY <1>1, AcknowledgeOnFile DEF Promised!Settle, DurableStatus
  <1> QED
    BY <1>1, <1>2 DEF Promised!PromiseNext

LEMMA ToolsKeepPromise ==
  ASSUME NEW j \in JobId, IInv, ScheduleCron(j) \/ CancelJob(j)
  PROVE  Promised!PromiseNext
  <1>1. /\ disk.live \subseteq scheduled /\ disk.pending \subseteq disk.live
        /\ disk.live \cap cancelled = {} /\ cancelled \subseteq scheduled
    BY DEF IInv, HistoryAgrees
  <1>2. CASE ScheduleCron(j)
    <2>1. Promised!Schedule(j)
      BY <1>1, <1>2, ToolOnFile DEF Promised!Schedule, DurableStatus
    <2> QED
      BY <2>1 DEF Promised!PromiseNext
  <1>3. CASE CancelJob(j)
    <2>1. Promised!Cancel(j)
      BY <1>1, <1>3, ToolOnFile DEF Promised!Cancel, DurableStatus
    <2> QED
      BY <2>1 DEF Promised!PromiseNext
  <1> QED
    BY <1>2, <1>3

LEMMA AnswerKeepsPromise == IInv /\ ModelAnswers => Promised!PromiseNext
  <1> SUFFICES ASSUME IInv, ModelAnswers PROVE Promised!PromiseNext
    OBVIOUS
  <1>1. Delivered \in SUBSET JobId
    BY DEF Delivered, In
  <1>2. Delivered \subseteq disk.pending /\ disk.live \subseteq scheduled
        /\ disk.pending \subseteq disk.live /\ disk.live \cap cancelled = {}
    <2>1. mem = disk
      BY DEF ModelAnswers, IInv, TableIsDurable
    <2>2. ASSUME NEW j \in Delivered PROVE j \in mem.pending
      <3>1. j \in JobId /\ fired[j] > 0 /\ j \in mem.live
        BY DEF Delivered, In
      <3>2. queue[j] \in Nat /\ fired[j] \in Nat
        BY <3>1 DEF IInv, TypeOK
      <3> QED
        BY <3>1, <3>2 DEF IInv, PendingTracked, ModelAnswers
    <2> QED
      BY <2>1, <2>2 DEF IInv, HistoryAgrees
  <1>3. Promised!Reach(Delivered)
    <2>1. \A j \in Delivered : DurableStatus(j) = "due"
      BY <1>2 DEF DurableStatus
    <2>2. /\ UNCHANGED <<disk, scheduled, cancelled>>
          /\ reached' = reached \cup Delivered
      BY DEF ModelAnswers, Delivered
    <2>3. [j \in JobId |-> DurableStatus(j)]' = [j \in JobId |-> DurableStatus(j)]
      BY <2>2 DEF DurableStatus
    <2> QED
      BY <1>1, <2>1, <2>2, <2>3 DEF Promised!Reach
  <1> QED
    BY <1>1, <1>3 DEF Promised!PromiseNext

\* Threads, locks, failing saves and restarts stay inside the at-least-once
\* promise: each step is one of CronPromise or leaves the promise untouched.
THEOREM PromiseKept == Spec => KeepsPromise
  <1>1. Init => Promised!PromiseInit
    <2> SUFFICES ASSUME Init, NEW j \in JobId PROVE DurableStatus(j) = "unborn"
      BY DEF Init, Promised!PromiseInit
    <2> QED
      BY DEF Init, NoJobs, DurableStatus
  <1>2. IInv /\ [Next]_vars
          => [Promised!PromiseNext]_(Promised!promiseVars)
    <2> SUFFICES ASSUME IInv, [Next]_vars
                 PROVE  Promised!PromiseNext \/ UNCHANGED Promised!promiseVars
      OBVIOUS
    <2>1. CASE PollDueJobs \/ Acknowledge \/ ModelAnswers
      BY <2>1, PollKeepsPromise, AcknowledgeKeepsPromise, AnswerKeepsPromise
    <2>2. CASE \E j \in JobId : ScheduleCron(j) \/ CancelJob(j)
      BY <2>2, ToolsKeepPromise
    <2>3. CASE /\ ~PollDueJobs /\ ~Acknowledge /\ ~ModelAnswers
               /\ ~\E j \in JobId : ScheduleCron(j) \/ CancelJob(j)
      <3>1. UNCHANGED <<disk, scheduled, cancelled, reached>>
        BY <2>3, RestOnFile
      <3> QED
        BY <3>1 DEF Promised!promiseVars, DurableStatus
    <2> QED
      BY <2>1, <2>2, <2>3
  <1> QED
    BY <1>1, <1>2, Invariance, PTL DEF Spec, KeepsPromise, Promised!Promise

-----------------------------------------------------------------------------
(***************************************************************************)
(* The two parsers of cron expressions, and the table they guard.          *)
(***************************************************************************)
\* What validation accepts of a part, matching can convert.
LEMMA PartReadable ==
  ASSUME NEW f \in Field, NEW a \in 1 .. Len(f) + 1, NEW b \in 0 .. Len(f),
         NEW minimum \in Nat, NEW maximum \in Nat,
         ValidPart(f, a, b, minimum, maximum)
  PROVE  ReadablePart(f, a, b)
  <1>1. CASE IsStar(f, a, b)
    BY <1>1 DEF ReadablePart
  <1>2. CASE StartsWithStep(f, a, b) /\ ValidStep(f, a, b)
    <2>1. f[b].val > 0 => f[b].val # 0
      OBVIOUS
    <2> QED
      BY <1>2, <2>1 DEF ReadablePart, ValidStep
  <1>3. CASE Plain(f, a, b) /\ ValidRange(f, a, b, minimum, maximum)
    <2>1. PICK d \in At(f, a, b, "-") :
             IsNumber(f, a, d - 1) /\ IsNumber(f, d + 1, b)
      BY <1>3 DEF ValidRange
    <2>2. /\ d \in a .. b /\ a = d - 1 /\ d + 1 = b
          /\ f[a].sym = "number" /\ f[b].sym = "number"
      BY <2>1 DEF At, IsNumber
    <2>3. ASSUME NEW k \in At(f, a, b, "-") PROVE k = d
      <3>1. k \in a .. b /\ k # a /\ k # b
        BY <2>2 DEF At
      <3>2. a \in Nat /\ b \in Nat
        BY DEF Field
      <3> QED
        BY <2>2, <3>1, <3>2
    <2>4. At(f, a, b, "-") = {d}
      BY <2>3
    <2> QED
      BY <1>3, <2>1, <2>2, <2>4 DEF ReadablePart
  <1>4. CASE Plain(f, a, b) /\ At(f, a, b, "-") = {} /\ IsNumber(f, a, b)
    BY <1>4 DEF ReadablePart
  <1> QED
    BY <1>1, <1>2, <1>3, <1>4 DEF ValidPart

LEMMA FieldReadable ==
  ASSUME NEW f \in Field, NEW minimum \in Nat, NEW maximum \in Nat,
         ValidField(f, minimum, maximum)
  PROVE  ReadableField(f)
  <1>1. Len(f) \in Nat
    BY DEF Field
  <1>2. CASE IsList(f)
    <2> SUFFICES ASSUME NEW p \in Parts(f) PROVE ReadablePart(f, p[1], p[2])
      BY <1>2 DEF ReadableField
    <2>1. p[1] \in 1 .. Len(f) + 1 /\ p[2] \in 0 .. Len(f)
      BY DEF Parts
    <2>2. ValidPart(f, p[1], p[2], minimum, maximum)
      BY <1>2 DEF ValidField
    <2> QED
      BY <2>1, <2>2, PartReadable
  <1>3. CASE ~IsList(f)
    <2>1. ValidPart(f, 1, Len(f), minimum, maximum)
      BY <1>3 DEF ValidField
    <2>2. 1 \in 1 .. Len(f) + 1 /\ Len(f) \in 0 .. Len(f)
      BY <1>1
    <2>3. ReadablePart(f, 1, Len(f))
      BY <2>1, <2>2, PartReadable
    <2> QED
      BY <1>3, <2>3 DEF ReadableField
  <1> QED
    BY <1>2, <1>3

\* The two parsers agree: no expression validate_cron accepts makes
\* cron_matches raise, whatever the user typed and whatever the time.
THEOREM ParsersAgree ==
  ASSUME NEW cron \in Cron, ValidCron(cron) PROVE Readable(cron)
  <1> SUFFICES ASSUME NEW i \in 1 .. 5 PROVE ReadableField(cron[i])
    BY DEF Readable
  <1>0. cron[i] \in Field
    <2>1. Len(cron) = 5
      BY Zenon DEF ValidCron
    <2> QED
      BY <2>1, ElementOfSeq, i \in 1 .. Len(cron) DEF Cron
  <1>1. ValidField(cron[i], Minimum[i], Maximum[i])
    BY Zenon DEF ValidCron
  <1>2. Minimum[i] \in Nat /\ Maximum[i] \in Nat
    BY DEF Minimum, Maximum
  <1> QED
    BY <1>0, <1>1, <1>2, FieldReadable

\* No part of an accepted field is dead: some value of the field's range
\* matches it.  Only a step beyond the range of the days or the months, such as
\* "*/40" for the day, is accepted and matches nothing.
THEOREM NoDeadPart ==
  ASSUME NEW f \in Field, NEW a \in 1 .. Len(f) + 1, NEW b \in 0 .. Len(f),
         NEW minimum \in Nat, NEW maximum \in Nat, minimum <= maximum,
         ValidPart(f, a, b, minimum, maximum),
         StartsWithStep(f, a, b) => minimum = 0 \/ f[b].val \in minimum .. maximum
  PROVE  \E value \in minimum .. maximum : PartMatches(f, a, b, value)
  <1>0. a \in Nat /\ b \in Nat /\ Len(f) \in Nat
    BY DEF Field
  <1>1. CASE IsStar(f, a, b)
    <2>1. minimum \in minimum .. maximum
      OBVIOUS
    <2> QED
      BY <1>1, <2>1 DEF PartMatches
  <1>2. CASE StartsWithStep(f, a, b) /\ ValidStep(f, a, b)
    <2>1. b \in 1 .. Len(f) /\ f[b].val > 0
      BY <1>0, <1>2 DEF ValidStep, StartsWithStep
    <2>2. f[b] \in Symbol
      BY <2>1 DEF Field
    <2>3. f[b].val \in Nat
      BY <2>2 DEF Symbol
    <2>4. PICK value \in minimum .. maximum : value = 0 \/ value = f[b].val
      BY <1>2
    <2>5. value % f[b].val = 0
      BY <2>1, <2>3, <2>4
    <2> QED
      BY <1>2, <2>5 DEF PartMatches
  <1>3. CASE Plain(f, a, b) /\ ValidRange(f, a, b, minimum, maximum)
    <2>1. PICK d \in At(f, a, b, "-") :
             /\ minimum <= f[a].val /\ f[a].val <= f[b].val
             /\ f[b].val <= maximum
      BY <1>3 DEF ValidRange
    <2>2. a \in 1 .. Len(f) /\ b \in 1 .. Len(f)
      BY <1>0, <2>1 DEF At
    <2>3. f[a] \in Symbol /\ f[b] \in Symbol
      BY <2>2 DEF Field
    <2>4. f[a].val \in Nat /\ f[b].val \in Nat
      BY <2>3 DEF Symbol
    <2>5. f[a].val \in minimum .. maximum /\ f[a].val <= f[a].val
      BY <2>1, <2>4
    <2> QED
      BY <1>3, <2>1, <2>5 DEF PartMatches
  <1>4. CASE /\ Plain(f, a, b) /\ IsNumber(f, a, b)
             /\ minimum <= f[a].val /\ f[a].val <= maximum
    <2>1. a = b /\ a \in 1 .. Len(f)
      BY <1>0, <1>4 DEF IsNumber
    <2>2. f[a] \in Symbol
      BY <2>1 DEF Field
    <2>3. f[a].val \in Nat
      BY <2>2 DEF Symbol
    <2>4. f[a].val \in minimum .. maximum /\ f[a].val <= f[a].val
      BY <1>4, <2>3
    <2> QED
      BY <1>4, <2>1, <2>4 DEF PartMatches
  <1> QED
    BY <1>1, <1>2, <1>3, <1>4 DEF ValidPart

\* The jobs whose expressions validate_cron accepts.
Accepted == {j \in JobId : ValidCron(Expression[j])}
OnlyAccepted == mem.live \cup disk.live \subseteq Accepted

LEMMA AcceptedStep == TypeOK /\ OnlyAccepted /\ [Next]_vars => OnlyAccepted'
  <1> SUFFICES ASSUME TypeOK, OnlyAccepted, [Next]_vars PROVE OnlyAccepted'
    OBVIOUS
  <1> USE DEF OnlyAccepted, TypeOK, Store, Save
  <1>1. CASE PollDueJobs
    BY <1>1 DEF PollDueJobs, Enqueued
  <1>2. ASSUME NEW j \in JobId, ScheduleCron(j) PROVE OnlyAccepted'
    BY <1>2 DEF ScheduleCron, Accepted
  <1>3. ASSUME NEW j \in JobId, CancelJob(j) PROVE OnlyAccepted'
    BY <1>3 DEF CancelJob
  <1>4. CASE EndTurn
    BY <1>4 DEF EndTurn, Acknowledge, AcknowledgeFails, RestoreJobs, AbandonTurn, Settled
  <1>5. CASE EndProcess \/ StartProcess
    BY <1>5 DEF EndProcess, StartProcess, NoJobs
  <1>6. CASE Tick \/ StartUserTurn \/ StartProcessorTurn \/ ModelAnswers
    BY <1>6 DEF Tick, StartUserTurn, StartProcessorTurn, StartTurn, ModelAnswers
  <1>7. CASE UNCHANGED vars
    BY <1>7 DEF vars
  <1> QED
    BY <1>1, <1>2, <1>3, <1>4, <1>5, <1>6, <1>7 DEF Next

\* Every expression in the table and in its file was accepted, and what was
\* accepted can be matched: no poll skips a job because it cannot be read, and
\* no start of the program refuses its file.
THEOREM ReadableTable == Spec => []TableIsReadable
  <1>1. Init => OnlyAccepted
    BY DEF Init, OnlyAccepted, NoJobs
  <1>2. OnlyAccepted => TableIsReadable
    <2> SUFFICES ASSUME OnlyAccepted, NEW j \in mem.live \cup disk.live
                 PROVE  ValidCron(Expression[j]) /\ Readable(Expression[j])
      BY DEF TableIsReadable
    <2>1. j \in JobId /\ ValidCron(Expression[j])
      BY DEF OnlyAccepted, Accepted
    <2>2. Expression[j] \in Cron
      BY <2>1, CronAssumption
    <2> QED
      BY <2>1, <2>2, ParsersAgree
  <1> QED
    BY <1>1, <1>2, AcceptedStep, TypeCorrect, PTL DEF Spec
=============================================================================
