-------------------------- MODULE TaskBoardProofs --------------------------
(***************************************************************************)
(* Proofs about TaskBoard, for any number of tasks, teammates, worktree    *)
(* names and restarts.                                                     *)
(*                                                                         *)
(* The many actions of the module change the task files in four ways only: *)
(* a task is created, claimed, completed or handed back.  BoardStep proves *)
(* that once, TreeStep does the same for worktrees, and the invariants are *)
(* then proved over those cases instead of over the actions.               *)
(***************************************************************************)
EXTENDS TaskBoard, TLAPS

-----------------------------------------------------------------------------
(***************************************************************************)
(* The changes of the task files.                                          *)
(***************************************************************************)
SameBoard == UNCHANGED <<status, owner, deps>>

Created(t, blocked_by) ==
    /\ status[t] = "absent" /\ t \notin torn
    /\ blocked_by \subseteq Existing \cup torn
    /\ status' = [status EXCEPT ![t] = "pending"]
    /\ deps' = [deps EXCEPT ![t] = blocked_by]
    /\ owner' = owner

Claimed(o, t) ==
    /\ CanClaim(o, t)
    /\ Taken(o, t)
    /\ deps' = deps

Completed(o, t) ==
    /\ t \in InProgress(o)
    /\ status' = [status EXCEPT ![t] = "completed"]
    /\ UNCHANGED <<owner, deps>>

HandedBack(o, t) ==
    /\ t \in InProgress(o)
    /\ status' = [status EXCEPT ![t] = "pending"]
    /\ owner' = [owner EXCEPT ![t] = NoOwner]
    /\ deps' = deps

BoardChange ==
    \/ SameBoard
    \/ \E t \in TaskId, blocked_by \in SUBSET TaskId : Created(t, blocked_by)
    \/ \E o \in Owners, t \in TaskId :
          Claimed(o, t) \/ Completed(o, t) \/ HandedBack(o, t)

\* Every step changes status, owner and deps in one of these ways.
LEMMA BoardStep == [Next]_vars => BoardChange
<1> SUFFICES ASSUME [Next]_vars PROVE BoardChange
  OBVIOUS
<1>1. CASE TaskCalls
  <2>1. ASSUME NEW t \in TaskId, NEW blocked_by \in SUBSET TaskId,
               CreateTask(t, blocked_by)
        PROVE  BoardChange
    <3>1. Created(t, blocked_by)
      BY <2>1 DEF CreateTask, Created
    <3> QED BY <3>1 DEF BoardChange
  <2>2. ASSUME NEW t \in TaskId, CreateTaskTorn(t) PROVE BoardChange
    BY <2>2 DEF CreateTaskTorn, BoardChange, SameBoard
  <2>3. ASSUME NEW t \in TaskId, NEW o \in Owners, ClaimTask(o, t)
        PROVE  BoardChange
    <3>1. Claimed(o, t)
      BY <2>3 DEF ClaimTask, RecordClaim, Claimed
    <3> QED BY <3>1 DEF BoardChange
  <2>4. ASSUME NEW t \in TaskId, NEW o \in Owners, CompleteTask(o, t)
        PROVE  BoardChange
    <3>1. Completed(o, t)
      BY <2>4 DEF CompleteTask, Completed
    <3> QED BY <3>1 DEF BoardChange
  <2> QED BY <1>1, <2>1, <2>2, <2>3, <2>4 DEF TaskCalls
<1>2. CASE WorktreeCalls
  BY <1>2 DEF WorktreeCalls, CreateWorktree, CreateWorktreeFails, RemoveWorktree,
              RemoveWorktreeHalfway, RemoveCheckout, taskVars, BoardChange,
              SameBoard
<1>3. CASE TeammateSteps
  <2> SUFFICES ASSUME NEW o \in Teammates,
                      \/ Spawn(o) \/ ExitTeammate(o)
                      \/ EndTurn(o) \/ Wake(o) \/ ScanBoard(o)
                      \/ SubmitPlan(o) \/ PlanDecided(o)
                      \/ \E t \in TaskId : SpawnOn(o, t) \/ TryFound(o, t)
               PROVE  BoardChange
    BY <1>3 DEF TeammateSteps
  <2>0. o \in Owners
    BY DEF Owners
  <2>1. CASE Spawn(o) \/ EndTurn(o) \/ Wake(o) \/ ScanBoard(o)
                      \/ SubmitPlan(o) \/ PlanDecided(o)
    BY <2>1 DEF Spawn, EndTurn, SubmitPlan, PlanDecided, Wake, ScanBoard, taskVars,
                BoardChange, SameBoard
  <2>2. CASE ExitTeammate(o)
    <3>1. CASE UNCHANGED <<status, owner>>
      BY <2>2, <3>1 DEF ExitTeammate, BoardChange, SameBoard
    <3>2. CASE ReturnWork(o)
      <4>1. CASE InProgress(o) = {}
        BY <2>2, <3>2, <4>1 DEF ReturnWork, ExitTeammate, BoardChange, SameBoard
      <4>2. ASSUME InProgress(o) # {}
            PROVE  \E t \in TaskId : HandedBack(o, t)
        BY <2>2, <3>2, <4>2 DEF ReturnWork, ExitTeammate, HandedBack, InProgress
      <4> QED BY <2>0, <4>1, <4>2 DEF BoardChange
    <3> QED BY <2>2, <3>1, <3>2 DEF ExitTeammate
  <2>3. ASSUME NEW t \in TaskId, SpawnOn(o, t) PROVE BoardChange
    <3>1. Claimed(o, t)
      BY <2>3 DEF SpawnOn, RecordClaim, Claimed
    <3> QED BY <2>0, <3>1 DEF BoardChange
  <2>4. ASSUME NEW t \in TaskId, TryFound(o, t) PROVE BoardChange
    <3>1. CASE CanClaim(o, t)
      <4>1. Claimed(o, t)
        BY <2>4, <3>1 DEF TryFound, RecordClaim, Claimed
      <4> QED BY <2>0, <4>1 DEF BoardChange
    <3>2. CASE ~CanClaim(o, t)
      BY <2>4, <3>2 DEF TryFound, taskVars, BoardChange, SameBoard
    <3> QED BY <3>1, <3>2
  <2> QED BY <2>1, <2>2, <2>3, <2>4
<1>4. CASE Restart
  BY <1>4 DEF Restart, taskVars, BoardChange, SameBoard
<1>5. CASE UNCHANGED vars
  BY <1>5 DEF vars, taskVars, BoardChange, SameBoard
<1> QED BY <1>1, <1>2, <1>3, <1>4, <1>5 DEF Next

-----------------------------------------------------------------------------
(***************************************************************************)
(* Type correctness.                                                       *)
(***************************************************************************)
\* The types of the task files, the worktrees, the leases and the threads.
FilesOK ==
    /\ status \in [TaskId -> Status]
    /\ owner \in [TaskId -> Owners \cup {NoOwner}]
    /\ deps \in [TaskId -> SUBSET TaskId]
    /\ torn \subseteq TaskId

TreesOK ==
    /\ tree \in [TaskId -> Names \cup {NoTree}]
    /\ git \in [Names -> SUBSET Artifact]

LeasesOK ==
    /\ leaseTask \in [Owners -> TaskId \cup {NoTask}]
    /\ leaseTree \in [Owners -> Names \cup {NoTree}]

ThreadsOK ==
    /\ alive \subseteq Teammates
    /\ idle \subseteq alive
    /\ found \in [Teammates -> SUBSET TaskId]
    /\ waiting \subseteq alive
    /\ restarts \in Nat

LEMMA TypeParts == FilesOK' /\ TreesOK' /\ LeasesOK' /\ ThreadsOK' => TypeOK'
BY DEF TypeOK, FilesOK, TreesOK, LeasesOK, ThreadsOK

\* A claim writes the lease of the owner and nothing of another type.
LEMMA ClaimTypes ==
    ASSUME TypeOK, NEW o \in Owners, NEW t \in TaskId, RecordClaim(o, t)
    PROVE  FilesOK' /\ TreesOK' /\ LeasesOK'
BY DEF TypeOK, RecordClaim, Taken, FilesOK, TreesOK, LeasesOK, Status

LEMMA DropTypes ==
    ASSUME TypeOK, NEW o \in Owners, DropLease(o) \/ UNCHANGED leaseVars
    PROVE  LeasesOK'
BY DEF TypeOK, DropLease, leaseVars, LeasesOK

\* The steps of each group keep the types.
LEMMA TaskCallsTypes == TypeOK /\ TaskCalls => TypeOK'
<1> SUFFICES ASSUME TypeOK, TaskCalls PROVE TypeOK'
  OBVIOUS
<1>1. ASSUME NEW t \in TaskId, NEW blocked_by \in SUBSET TaskId,
             CreateTask(t, blocked_by)
      PROVE  TypeOK'
  BY <1>1 DEF TypeOK, CreateTask, leaseVars, threadVars, Status
<1>2. ASSUME NEW t \in TaskId, CreateTaskTorn(t) PROVE TypeOK'
  BY <1>2 DEF TypeOK, CreateTaskTorn, leaseVars, threadVars
<1>3. ASSUME NEW t \in TaskId, NEW o \in Owners, ClaimTask(o, t) PROVE TypeOK'
  <2>1. RecordClaim(o, t) /\ UNCHANGED <<threadVars, restarts>>
    BY <1>3 DEF ClaimTask
  <2>2. ThreadsOK'
    BY <2>1 DEF TypeOK, threadVars, ThreadsOK
  <2> QED BY <2>1, <2>2, ClaimTypes, TypeParts
<1>4. ASSUME NEW t \in TaskId, NEW o \in Owners, CompleteTask(o, t) PROVE TypeOK'
  BY <1>4 DEF TypeOK, CompleteTask, leaseVars, threadVars, Status
<1> QED BY <1>1, <1>2, <1>3, <1>4 DEF TaskCalls

LEMMA WorktreeCallsTypes == TypeOK /\ WorktreeCalls => TypeOK'
<1> SUFFICES ASSUME TypeOK, NEW n \in Names,
                    \/ \E t \in TaskId : CreateWorktree(n, t) \/ CreateWorktreeFails(n, t)
                    \/ RemoveWorktree(n) \/ RemoveWorktreeHalfway(n)
             PROVE  TypeOK'
  BY DEF WorktreeCalls
<1>1. ASSUME NEW t \in TaskId, CreateWorktree(n, t) PROVE TypeOK'
  BY <1>1 DEF TypeOK, CreateWorktree, leaseVars, threadVars
<1>2. ASSUME NEW t \in TaskId, CreateWorktreeFails(n, t) PROVE TypeOK'
  BY <1>2 DEF TypeOK, CreateWorktreeFails, taskVars, leaseVars, threadVars
<1>3. ASSUME NEW keep \in SUBSET {"branch"}, RemoveCheckout(n, keep),
             tree' \in [TaskId -> Names \cup {NoTree}]
      PROVE  TypeOK'
  BY <1>3 DEF TypeOK, RemoveCheckout, leaseVars, threadVars
<1>4. CASE RemoveWorktree(n)
  BY <1>3, <1>4 DEF RemoveWorktree, TypeOK
<1>5. CASE RemoveWorktreeHalfway(n)
  <2>1. \E keep \in SUBSET {"branch"} : RemoveCheckout(n, keep)
    BY <1>5 DEF RemoveWorktreeHalfway
  <2> QED BY <1>3, <1>5, <2>1 DEF RemoveWorktreeHalfway, TypeOK
<1> QED BY <1>1, <1>2, <1>4, <1>5

LEMMA TeammateStepsTypes == TypeOK /\ TeammateSteps => TypeOK'
<1> SUFFICES ASSUME TypeOK, NEW o \in Teammates,
                    \/ Spawn(o) \/ ExitTeammate(o)
                    \/ EndTurn(o) \/ Wake(o) \/ ScanBoard(o)
                      \/ SubmitPlan(o) \/ PlanDecided(o)
                    \/ \E t \in TaskId : SpawnOn(o, t) \/ TryFound(o, t)
             PROVE  TypeOK'
  BY DEF TeammateSteps
<1>0. o \in Owners
  BY DEF Owners
<1>1. CASE Spawn(o)
  BY <1>1 DEF TypeOK, Spawn, Join, taskVars, leaseVars
<1>2. CASE ExitTeammate(o)
  <2>1. FilesOK'
    <3>1. CASE UNCHANGED <<status, owner>>
      BY <1>2, <3>1 DEF TypeOK, ExitTeammate, FilesOK
    <3>2. CASE ReturnWork(o)
      BY <1>2, <3>2 DEF TypeOK, ExitTeammate, ReturnWork, InProgress, FilesOK,
                        Status
    <3> QED BY <1>2, <3>1, <3>2 DEF ExitTeammate
  <2>2. TreesOK' /\ ThreadsOK'
    BY <1>2 DEF TypeOK, ExitTeammate, TreesOK, ThreadsOK
  <2>3. LeasesOK'
    BY <1>0, <1>2, DropTypes DEF ExitTeammate
  <2> QED BY <2>1, <2>2, <2>3, TypeParts
<1>3. CASE EndTurn(o)
  <2>1. LeasesOK'
    BY <1>0, <1>3, DropTypes DEF EndTurn, ReleaseCompleted
  <2>2. FilesOK' /\ TreesOK' /\ ThreadsOK'
    BY <1>3 DEF TypeOK, EndTurn, taskVars, FilesOK, TreesOK, ThreadsOK
  <2> QED BY <2>1, <2>2, TypeParts
<1>4. CASE SubmitPlan(o) \/ PlanDecided(o) \/ Wake(o)
  BY <1>4 DEF TypeOK, SubmitPlan, PlanDecided, Wake, taskVars, leaseVars
<1>5. CASE ScanBoard(o)
  BY <1>5 DEF TypeOK, ScanBoard, Unclaimed, taskVars, leaseVars
<1>6. ASSUME NEW t \in TaskId, SpawnOn(o, t) PROVE TypeOK'
  <2>1. RecordClaim(o, t) /\ ThreadsOK'
    BY <1>6 DEF TypeOK, SpawnOn, Join, ThreadsOK
  <2> QED BY <1>0, <2>1, ClaimTypes, TypeParts
<1>7. ASSUME NEW t \in TaskId, TryFound(o, t) PROVE TypeOK'
  <2>1. CASE CanClaim(o, t)
    <3>1. RecordClaim(o, t) /\ ThreadsOK'
      BY <1>7, <2>1 DEF TypeOK, TryFound, ThreadsOK
    <3> QED BY <1>0, <3>1, ClaimTypes, TypeParts
  <2>2. CASE ~CanClaim(o, t)
    BY <1>7, <2>2 DEF TypeOK, TryFound, taskVars, leaseVars
  <2> QED BY <2>1, <2>2
<1> QED BY <1>1, <1>2, <1>3, <1>4, <1>5, <1>6, <1>7

\* Every variable keeps its type: the names in task files, leases and the
\* teammate table are owners, and only active teammates are idle.
THEOREM TypeCorrect == Spec => []TypeOK
<1>1. Init => TypeOK
  BY DEF Init, TypeOK, Status, Nothing
<1>2. TypeOK /\ [Next]_vars => TypeOK'
  <2>1. TypeOK /\ Restart => TypeOK'
    BY DEF TypeOK, Restart, taskVars
  <2>2. TypeOK /\ UNCHANGED vars => TypeOK'
    BY DEF TypeOK, vars, taskVars, leaseVars, threadVars
  <2> QED BY <2>1, <2>2, TaskCallsTypes, WorktreeCallsTypes, TeammateStepsTypes
          DEF Next
<1> QED BY <1>1, <1>2, PTL DEF Spec

-----------------------------------------------------------------------------
(***************************************************************************)
(* Safety of the board.                                                    *)
(***************************************************************************)
\* What one claim, completion or return does to the rest of the board.
LEMMA ClaimedBoard ==
    ASSUME TypeOK, NEW o \in Owners, NEW t \in TaskId, Claimed(o, t)
    PROVE  /\ Unblocked(t)
           /\ status[t] \in {"pending", "in_process"}
           /\ status[t] = "in_process" => owner[t] = o
           /\ InProgress(o) \subseteq {t}
           /\ status'[t] = "in_process" /\ owner'[t] = o
           /\ \A u \in TaskId \ {t} : status'[u] = status[u] /\ owner'[u] = owner[u]
BY DEF TypeOK, Claimed, CanClaim, Taken

LEMMA HandedBackBoard ==
    ASSUME TypeOK, NEW o \in Owners, NEW t \in TaskId, HandedBack(o, t)
    PROVE  /\ status[t] = "in_process" /\ owner[t] = o
           /\ status'[t] = "pending" /\ owner'[t] = NoOwner
           /\ \A u \in TaskId \ {t} : status'[u] = status[u] /\ owner'[u] = owner[u]
BY DEF TypeOK, HandedBack, InProgress

\* A completed dependency is final, and a task is claimed only over completed
\* ones: the invariant needs nothing but the four changes of the board.
THEOREM DependenciesDone == Spec => []DependenciesFirst
<1>1. Init => DependenciesFirst
  BY DEF Init, DependenciesFirst
<1>2. TypeOK /\ DependenciesFirst /\ [Next]_vars => DependenciesFirst'
  <2> SUFFICES ASSUME TypeOK, DependenciesFirst, BoardChange
               PROVE  DependenciesFirst'
    BY BoardStep
  <2>1. CASE SameBoard
    BY <2>1 DEF SameBoard, DependenciesFirst
  <2>2. ASSUME NEW t \in TaskId, NEW blocked_by \in SUBSET TaskId,
               Created(t, blocked_by)
        PROVE  DependenciesFirst'
    BY <2>2 DEF TypeOK, Created, DependenciesFirst
  <2>3. ASSUME NEW o \in Owners, NEW t \in TaskId, Claimed(o, t)
        PROVE  DependenciesFirst'
    <3>1. deps' = deps
      BY <2>3 DEF Claimed
    <3>2. \A d \in TaskId : status[d] = "completed" => status'[d] = "completed"
      BY <2>3, ClaimedBoard
    <3>3. \A d \in deps[t] : status[d] = "completed"
      BY <2>3, ClaimedBoard DEF Unblocked
    <3>4. \A u \in TaskId : deps[u] \subseteq TaskId
      BY DEF TypeOK
    <3> QED BY <2>3, <3>1, <3>2, <3>3, <3>4, ClaimedBoard DEF DependenciesFirst
  <2>4. ASSUME NEW o \in Owners, NEW t \in TaskId, Completed(o, t)
        PROVE  DependenciesFirst'
    BY <2>4 DEF TypeOK, Completed, InProgress, DependenciesFirst
  <2>5. ASSUME NEW o \in Owners, NEW t \in TaskId, HandedBack(o, t)
        PROVE  DependenciesFirst'
    BY <2>5 DEF TypeOK, HandedBack, InProgress, DependenciesFirst
  <2> QED BY <2>1, <2>2, <2>3, <2>4, <2>5 DEF BoardChange
<1> QED BY <1>1, <1>2, TypeCorrect, PTL DEF Spec

\* An owner never has two tasks in process: claim_task asks the board itself,
\* so neither a restart nor a failed return can make room for a second one.
\* An owner has one task in process at most, also after restarts that forgot
\* its lease and after failed returns.
OneTaskPerOwner ==
    \A o \in Owners : \A t, u \in InProgress(o) : t = u

LEMMA OneTaskStep == TypeOK /\ OneTaskPerOwner /\ [Next]_vars => OneTaskPerOwner'
<1> SUFFICES ASSUME TypeOK, OneTaskPerOwner, BoardChange
             PROVE  OneTaskPerOwner'
  BY BoardStep
<1>1. CASE SameBoard
  BY <1>1 DEF SameBoard, OneTaskPerOwner, InProgress
<1>2. ASSUME NEW t \in TaskId, NEW blocked_by \in SUBSET TaskId,
             Created(t, blocked_by)
      PROVE  OneTaskPerOwner'
  BY <1>2 DEF TypeOK, Created, OneTaskPerOwner, InProgress
<1>3. ASSUME NEW o \in Owners, NEW t \in TaskId, Claimed(o, t)
      PROVE  OneTaskPerOwner'
  BY <1>3, ClaimedBoard DEF OneTaskPerOwner, InProgress
<1>4. ASSUME NEW o \in Owners, NEW t \in TaskId, Completed(o, t)
      PROVE  OneTaskPerOwner'
  BY <1>4 DEF TypeOK, Completed, OneTaskPerOwner, InProgress
<1>5. ASSUME NEW o \in Owners, NEW t \in TaskId, HandedBack(o, t)
      PROVE  OneTaskPerOwner'
  BY <1>5, HandedBackBoard DEF OneTaskPerOwner, InProgress
<1> QED BY <1>1, <1>2, <1>3, <1>4, <1>5 DEF BoardChange

THEOREM OneTaskAtATime == Spec => []OneTaskPerOwner
<1>1. Init => OneTaskPerOwner
  BY DEF Init, OneTaskPerOwner, InProgress
<1> QED BY <1>1, OneTaskStep, TypeCorrect, PTL DEF Spec

\* A task changes hands only through the board, and finished work stays so.
KeepsHands ==
    \A t \in TaskId :
       /\ status[t] = "in_process" =>
             \/ status'[t] = "pending" /\ owner'[t] = NoOwner
             \/ status'[t] # "pending" /\ owner'[t] = owner[t]
       /\ status[t] = "completed" =>
             status'[t] = "completed" /\ owner'[t] = owner[t]

NoTheft == [][KeepsHands]_vars

\* A claimed task changes hands only by going back to the board, and finished
\* work is never claimed, returned or given to another owner.
THEOREM HandsKept == Spec => NoTheft
<1>1. TypeOK /\ [Next]_vars => KeepsHands
  <2> SUFFICES ASSUME TypeOK, BoardChange PROVE KeepsHands
    BY BoardStep
  <2>1. CASE SameBoard
    BY <2>1 DEF SameBoard, KeepsHands
  <2>2. ASSUME NEW t \in TaskId, NEW blocked_by \in SUBSET TaskId,
               Created(t, blocked_by)
        PROVE  KeepsHands
    BY <2>2 DEF TypeOK, Created, KeepsHands
  <2>3. ASSUME NEW o \in Owners, NEW t \in TaskId, Claimed(o, t)
        PROVE  KeepsHands
    BY <2>3, ClaimedBoard DEF KeepsHands
  <2>4. ASSUME NEW o \in Owners, NEW t \in TaskId, Completed(o, t)
        PROVE  KeepsHands
    BY <2>4 DEF TypeOK, Completed, InProgress, KeepsHands
  <2>5. ASSUME NEW o \in Owners, NEW t \in TaskId, HandedBack(o, t)
        PROVE  KeepsHands
    BY <2>5, HandedBackBoard DEF KeepsHands
  <2> QED BY <2>1, <2>2, <2>3, <2>4, <2>5 DEF BoardChange
<1>2. TypeOK /\ [Next]_vars => [KeepsHands]_vars
  BY <1>1
<1> QED BY <1>2, TypeCorrect, PTL DEF Spec, NoTheft

-----------------------------------------------------------------------------
(***************************************************************************)
(* Worktrees and leases.                                                   *)
(***************************************************************************)
SameTrees == UNCHANGED <<tree, git>>

TreeChange ==
    \/ SameTrees
    \/ \E n \in Names, t \in TaskId :
          CreateWorktree(n, t) \/ CreateWorktreeFails(n, t)
    \/ \E n \in Names : RemoveWorktree(n) \/ RemoveWorktreeHalfway(n)

\* Every step outside the worktree calls leaves bindings and checkouts alone.
LEMMA TreeStep == [Next]_vars => TreeChange
<1> SUFFICES ASSUME [Next]_vars PROVE TreeChange
  OBVIOUS
<1>1. CASE TaskCalls
  BY <1>1 DEF TaskCalls, CreateTask, CreateTaskTorn, ClaimTask, CompleteTask,
              RecordClaim, TreeChange, SameTrees
<1>2. CASE WorktreeCalls
  BY <1>2 DEF WorktreeCalls, TreeChange
<1>3. CASE TeammateSteps
  BY <1>3 DEF TeammateSteps, Spawn, ExitTeammate, EndTurn, SubmitPlan,
              PlanDecided, Wake, ScanBoard, SpawnOn, TryFound, RecordClaim, taskVars, TreeChange,
              SameTrees
<1>4. CASE Restart \/ UNCHANGED vars
  BY <1>4 DEF Restart, vars, taskVars, TreeChange, SameTrees
<1> QED BY <1>1, <1>2, <1>3, <1>4 DEF Next

\* Two tasks never share a worktree.
WorktreesApart ==
    \A t, u \in TaskId : tree[t] = tree[u] /\ tree[t] # NoTree => t = u

\* A name is bound to one task at most, also while a removal that stopped
\* halfway leaves a task bound to a checkout that is gone.
THEOREM TreesApart == Spec => []WorktreesApart
<1>1. Init => WorktreesApart
  BY DEF Init, WorktreesApart
<1>2. TypeOK /\ WorktreesApart /\ [Next]_vars => WorktreesApart'
  <2> SUFFICES ASSUME TypeOK, WorktreesApart, TreeChange
               PROVE  WorktreesApart'
    BY TreeStep
  <2>1. CASE SameTrees
    BY <2>1 DEF SameTrees, WorktreesApart
  <2>2. ASSUME NEW n \in Names, NEW t \in TaskId, CreateWorktree(n, t)
        PROVE  WorktreesApart'
    BY <2>2 DEF TypeOK, CreateWorktree, CanBind, WorktreesApart
  <2>3. ASSUME NEW n \in Names, NEW t \in TaskId, CreateWorktreeFails(n, t)
        PROVE  WorktreesApart'
    BY <2>3 DEF CreateWorktreeFails, taskVars, WorktreesApart
  <2>4. ASSUME NEW n \in Names, RemoveWorktree(n) PROVE WorktreesApart'
    BY <2>4 DEF RemoveWorktree, WorktreesApart
  <2>5. ASSUME NEW n \in Names, RemoveWorktreeHalfway(n) PROVE WorktreesApart'
    BY <2>5 DEF RemoveWorktreeHalfway, WorktreesApart
  <2> QED BY <2>1, <2>2, <2>3, <2>4, <2>5 DEF TreeChange
<1> QED BY <1>1, <1>2, TypeCorrect, PTL DEF Spec

\* Without the library call remove_worktree no step breaks a bound checkout:
\* a creation that fails touches only a name nobody is bound to.
LEMMA BoundTreeStep ==
    ASSUME ~RemovalUsed
    PROVE  TypeOK /\ BoundTreeExists /\ [Next]_vars => BoundTreeExists'
<1> SUFFICES ASSUME TypeOK, BoundTreeExists, TreeChange
             PROVE  BoundTreeExists'
  BY TreeStep
<1>1. CASE SameTrees
  BY <1>1 DEF SameTrees, BoundTreeExists
<1>2. ASSUME NEW n \in Names, NEW t \in TaskId, CreateWorktree(n, t)
      PROVE  BoundTreeExists'
  BY <1>2 DEF TypeOK, CreateWorktree, CanBind, BoundTreeExists
<1>3. ASSUME NEW n \in Names, NEW t \in TaskId, CreateWorktreeFails(n, t)
      PROVE  BoundTreeExists'
  <2>1. \A u \in TaskId : tree[u] # n
    <3>1. n # NoTree /\ git[n] = {}
      BY <1>3, BoardAssumption DEF CreateWorktreeFails, CanBind, Nothing
    <3>2. Artifact # {}
      BY DEF Artifact
    <3> QED BY <3>1, <3>2 DEF BoundTreeExists
  <2> QED BY <1>3, <2>1 DEF TypeOK, CreateWorktreeFails, taskVars, BoundTreeExists
<1>4. ~ \E n \in Names : RemoveWorktree(n) \/ RemoveWorktreeHalfway(n)
  BY DEF RemoveWorktree, RemoveWorktreeHalfway, RemoveCheckout
<1> QED BY <1>1, <1>2, <1>3, <1>4 DEF TreeChange

THEOREM BoundTreesExist ==
    ASSUME ~RemovalUsed PROVE Spec => []BoundTreeExists
<1>1. Init => BoundTreeExists
  BY DEF Init, BoundTreeExists
<1> QED BY <1>1, BoundTreeStep, TypeCorrect, PTL DEF Spec

\* The part of LeaseIsUsable that is inductive beside BoundTreeExists: the
\* lease names a task of its holder and the directory the task is bound to.
Honest(o) ==
    leaseTask[o] # NoTask =>
       /\ owner[leaseTask[o]] = o
       /\ status[leaseTask[o]] \in {"in_process", "completed"}
       /\ leaseTree[o] = tree[leaseTask[o]]

LeaseIsHonest == \A o \in Owners : Honest(o)

LEMMA HonestUsable ==
    ASSUME TypeOK, LeaseIsHonest, BoundTreeExists PROVE LeaseIsUsable
<1> SUFFICES ASSUME NEW o \in Owners, leaseTask[o] # NoTask PROVE CwdFound(o)
  BY DEF LeaseIsUsable
<1>1. leaseTask[o] \in TaskId
  BY DEF TypeOK
<1>2. UsableTree(tree[leaseTask[o]])
  BY <1>1 DEF UsableTree, BoundTreeExists, Artifact
<1> QED BY <1>2 DEF LeaseIsHonest, Honest, CwdFound

\* A claim makes the claimer's lease honest and touches no other: another
\* holder's task is claimed or finished, and claim_task refuses those.
LEMMA ClaimKeepsHonest ==
    ASSUME TypeOK, LeaseIsHonest, NEW o \in Owners, NEW t \in TaskId,
           CanClaim(o, t), RecordClaim(o, t)
    PROVE  LeaseIsHonest'
<1> SUFFICES ASSUME NEW p \in Owners PROVE Honest(p)'
  BY DEF LeaseIsHonest
<1>1. tree' = tree
  BY DEF RecordClaim
<1>2. CASE p = o
  BY <1>1, <1>2 DEF TypeOK, RecordClaim, Taken, Honest
<1>3. CASE p # o
  <2>1. leaseTask'[p] = leaseTask[p] /\ leaseTree'[p] = leaseTree[p]
    BY <1>3 DEF TypeOK, RecordClaim
  <2>2. leaseTask[p] # NoTask => leaseTask[p] # t
    BY <1>3 DEF LeaseIsHonest, Honest, CanClaim
  <2>3. \A u \in TaskId \ {t} : status'[u] = status[u] /\ owner'[u] = owner[u]
    BY DEF TypeOK, RecordClaim, Taken
  <2>4. leaseTask[p] \in TaskId \cup {NoTask}
    BY DEF TypeOK
  <2> QED BY <1>1, <2>1, <2>2, <2>3, <2>4 DEF LeaseIsHonest, Honest
<1> QED BY <1>2, <1>3

\* Giving up a lease and leaving the rest alone is always honest.
LEMMA DropKeepsHonest ==
    ASSUME TypeOK, LeaseIsHonest, NEW o \in Owners,
           DropLease(o) \/ UNCHANGED leaseVars,
           UNCHANGED <<status, owner, tree>>
    PROVE  LeaseIsHonest'
BY DEF TypeOK, LeaseIsHonest, Honest, DropLease, leaseVars

LEMMA HonestStep ==
    ASSUME ~RemovalUsed
    PROVE  TypeOK /\ LeaseIsHonest /\ [Next]_vars => LeaseIsHonest'
<1> SUFFICES ASSUME TypeOK, LeaseIsHonest, [Next]_vars PROVE LeaseIsHonest'
  OBVIOUS
<1>1. CASE TaskCalls
  <2>1. ASSUME NEW t \in TaskId, NEW blocked_by \in SUBSET TaskId,
               CreateTask(t, blocked_by)
        PROVE  LeaseIsHonest'
    BY <2>1 DEF TypeOK, CreateTask, leaseVars, LeaseIsHonest, Honest
  <2>2. ASSUME NEW t \in TaskId, CreateTaskTorn(t) PROVE LeaseIsHonest'
    BY <2>2 DEF CreateTaskTorn, leaseVars, LeaseIsHonest, Honest
  <2>3. ASSUME NEW t \in TaskId, NEW o \in Owners, ClaimTask(o, t)
        PROVE  LeaseIsHonest'
    BY <2>3, ClaimKeepsHonest DEF ClaimTask
  <2>4. ASSUME NEW t \in TaskId, NEW o \in Owners, CompleteTask(o, t)
        PROVE  LeaseIsHonest'
    BY <2>4 DEF TypeOK, CompleteTask, InProgress, leaseVars, LeaseIsHonest, Honest
  <2> QED BY <1>1, <2>1, <2>2, <2>3, <2>4 DEF TaskCalls
<1>2. CASE WorktreeCalls
  <2>1. ASSUME NEW n \in Names, NEW t \in TaskId, CreateWorktree(n, t)
        PROVE  LeaseIsHonest'
    BY <2>1 DEF TypeOK, CreateWorktree, CanBind, leaseVars, LeaseIsHonest, Honest
  <2>2. ASSUME NEW n \in Names, NEW t \in TaskId, CreateWorktreeFails(n, t)
        PROVE  LeaseIsHonest'
    BY <2>2 DEF CreateWorktreeFails, taskVars, leaseVars, LeaseIsHonest, Honest
  <2>3. ~ \E n \in Names : RemoveWorktree(n) \/ RemoveWorktreeHalfway(n)
    BY DEF RemoveWorktree, RemoveWorktreeHalfway, RemoveCheckout
  <2> QED BY <1>2, <2>1, <2>2, <2>3 DEF WorktreeCalls
<1>3. CASE TeammateSteps
  <2> SUFFICES ASSUME NEW o \in Teammates,
                      \/ Spawn(o) \/ ExitTeammate(o)
                      \/ EndTurn(o) \/ Wake(o) \/ ScanBoard(o)
                      \/ SubmitPlan(o) \/ PlanDecided(o)
                      \/ \E t \in TaskId : SpawnOn(o, t) \/ TryFound(o, t)
               PROVE  LeaseIsHonest'
    BY <1>3 DEF TeammateSteps
  <2>0. o \in Owners
    BY DEF Owners
  <2>1. CASE Spawn(o) \/ SubmitPlan(o) \/ PlanDecided(o) \/ Wake(o) \/ ScanBoard(o)
    <3>1. UNCHANGED leaseVars /\ UNCHANGED <<status, owner, tree>>
      BY <2>1 DEF Spawn, SubmitPlan, PlanDecided, Wake, ScanBoard, taskVars
    <3> QED BY <2>0, <3>1, DropKeepsHonest
  <2>2. CASE EndTurn(o)
    <3>1. DropLease(o) \/ UNCHANGED leaseVars
      BY <2>2 DEF EndTurn, ReleaseCompleted
    <3>2. UNCHANGED <<status, owner, tree>>
      BY <2>2 DEF EndTurn, taskVars
    <3> QED BY <2>0, <3>1, <3>2, DropKeepsHonest
  <2>3. CASE ExitTeammate(o)
    <3>1. DropLease(o) /\ tree' = tree
      BY <2>3 DEF ExitTeammate
    <3>2. CASE UNCHANGED <<status, owner>>
      BY <2>0, <3>1, <3>2, DropKeepsHonest
    <3>3. CASE ReturnWork(o)
      <4>1. \A u \in TaskId : owner[u] # o => status'[u] = status[u] /\ owner'[u] = owner[u]
        BY <3>3 DEF TypeOK, ReturnWork, InProgress
      <4>2. /\ leaseTask'[o] = NoTask
            /\ \A p \in Owners \ {o} : /\ leaseTask'[p] = leaseTask[p]
                                       /\ leaseTree'[p] = leaseTree[p]
        BY <2>0, <3>1 DEF TypeOK, DropLease
      <4>3. \A p \in Owners : leaseTask[p] \in TaskId \cup {NoTask}
        BY DEF TypeOK
      <4> QED BY <3>1, <4>1, <4>2, <4>3 DEF LeaseIsHonest, Honest
    <3> QED BY <2>3, <3>2, <3>3 DEF ExitTeammate
  <2>4. ASSUME NEW t \in TaskId, SpawnOn(o, t) PROVE LeaseIsHonest'
    BY <2>0, <2>4, ClaimKeepsHonest DEF SpawnOn
  <2>5. ASSUME NEW t \in TaskId, TryFound(o, t) PROVE LeaseIsHonest'
    <3>1. CASE CanClaim(o, t)
      BY <2>0, <2>5, <3>1, ClaimKeepsHonest DEF TryFound
    <3>2. CASE ~CanClaim(o, t)
      <4>1. UNCHANGED leaseVars /\ UNCHANGED <<status, owner, tree>>
        BY <2>5, <3>2 DEF TryFound, taskVars
      <4> QED BY <2>0, <4>1, DropKeepsHonest
    <3> QED BY <3>1, <3>2
  <2> QED BY <2>1, <2>2, <2>3, <2>4, <2>5
<1>4. CASE Restart
  BY <1>4 DEF Restart, LeaseIsHonest, Honest
<1>5. CASE UNCHANGED vars
  BY <1>5 DEF vars, taskVars, leaseVars, LeaseIsHonest, Honest
<1> QED BY <1>1, <1>2, <1>3, <1>4, <1>5 DEF Next

\* As long as nobody removes worktrees behind the board's back, a lease always
\* leads its holder to the right directory: assignment_cwd never raises for it.
THEOREM LeasesUsable ==
    ASSUME ~RemovalUsed PROVE Spec => []LeaseIsUsable
<1>1. Init => LeaseIsHonest
  BY DEF Init, LeaseIsHonest, Honest
<1>2. Spec => []LeaseIsHonest
  BY <1>1, HonestStep, TypeCorrect, PTL DEF Spec
<1>3. TypeOK /\ LeaseIsHonest /\ BoundTreeExists => LeaseIsUsable
  BY HonestUsable
<1> QED BY <1>2, <1>3, TypeCorrect, BoundTreesExist, PTL

-----------------------------------------------------------------------------
(***************************************************************************)
(* The task files change as TaskPromise says.                              *)
(***************************************************************************)
\* No step changes both a task's course and its worktree.
LEMMA OneChange ==
    [Next]_vars => \/ BoardChange /\ tree' = tree
                   \/ SameBoard /\ TreeChange
<1> SUFFICES ASSUME [Next]_vars
             PROVE  tree' = tree \/ SameBoard
  BY BoardStep, TreeStep
<1>1. CASE TaskCalls
  BY <1>1 DEF TaskCalls, CreateTask, CreateTaskTorn, ClaimTask, CompleteTask, RecordClaim
<1>2. CASE WorktreeCalls
  BY <1>2 DEF WorktreeCalls, CreateWorktree, CreateWorktreeFails, RemoveWorktree,
              RemoveWorktreeHalfway, RemoveCheckout, taskVars, SameBoard
<1>3. CASE TeammateSteps
  BY <1>3 DEF TeammateSteps, Spawn, ExitTeammate, EndTurn, SubmitPlan,
              PlanDecided, Wake, ScanBoard, SpawnOn, TryFound, RecordClaim, taskVars
<1>4. CASE Restart \/ UNCHANGED vars
  BY <1>4 DEF Restart, vars, taskVars
<1> QED BY <1>1, <1>2, <1>3, <1>4 DEF Next

\* Who finished a task is on record: what TaskPromise shows as done was done
\* by somebody.
FinisherKnown == \A t \in TaskId : status[t] = "completed" => owner[t] # NoOwner

LEMMA FinisherStep == TypeOK /\ FinisherKnown /\ [Next]_vars => FinisherKnown'
<1> SUFFICES ASSUME TypeOK, FinisherKnown, BoardChange PROVE FinisherKnown'
  BY BoardStep
<1>1. CASE SameBoard
  BY <1>1 DEF SameBoard, FinisherKnown
<1>2. ASSUME NEW t \in TaskId, NEW blocked_by \in SUBSET TaskId,
             Created(t, blocked_by)
      PROVE  FinisherKnown'
  BY <1>2 DEF TypeOK, Created, FinisherKnown
<1>3. ASSUME NEW o \in Owners, NEW t \in TaskId, Claimed(o, t)
      PROVE  FinisherKnown'
  BY <1>3, ClaimedBoard DEF FinisherKnown
<1>4. ASSUME NEW o \in Owners, NEW t \in TaskId, Completed(o, t)
      PROVE  FinisherKnown'
  BY <1>4, BoardAssumption DEF TypeOK, Completed, InProgress, FinisherKnown
<1>5. ASSUME NEW o \in Owners, NEW t \in TaskId, HandedBack(o, t)
      PROVE  FinisherKnown'
  BY <1>5, HandedBackBoard DEF FinisherKnown
<1> QED BY <1>1, <1>2, <1>3, <1>4, <1>5 DEF BoardChange

\* The state of TaskPromise.
Pending == {t \in TaskId : status[t] = "pending"}
Holder == [t \in TaskId |-> OwnerAs("in_process", t)]
Finisher == [t \in TaskId |-> OwnerAs("completed", t)]

LEMMA PromisedPost ==
    ASSUME TypeOK, NEW t \in TaskId, NEW blocked_by \in SUBSET TaskId,
           Created(t, blocked_by), tree' = tree
    PROVE  Promise!Post(t)
<1>1. status[t] = "absent" /\ blocked_by \in SUBSET (TaskId \ {t})
  BY DEF Created, Existing
<1>2. \A u \in TaskId : status'[u] = IF u = t THEN "pending" ELSE status[u]
  BY DEF TypeOK, Created
<1>3. owner' = owner /\ deps' = [deps EXCEPT ![t] = blocked_by]
  BY DEF Created
<1>4. Pending' = Pending \cup {t} /\ t \notin Pending
  BY <1>1, <1>2 DEF Pending
<1>5. Holder' = Holder /\ Finisher' = Finisher
  BY <1>1, <1>2, <1>3 DEF Holder, Finisher, OwnerAs
<1>6. Holder[t] = NoOwner /\ Finisher[t] = NoOwner
  BY <1>1 DEF Holder, Finisher, OwnerAs
<1> QED BY <1>1, <1>3, <1>4, <1>5, <1>6
        DEF Promise!Post, Promise!Known, Pending, Holder, Finisher

LEMMA PromisedTake ==
    ASSUME TypeOK, FinisherKnown, NEW o \in Owners, NEW t \in TaskId, Claimed(o, t),
           tree' = tree
    PROVE  Promise!Take(o, t) \/ UNCHANGED Promise!promiseVars
<1>1. /\ Unblocked(t) /\ status[t] \in {"pending", "in_process"}
      /\ status[t] = "in_process" => owner[t] = o
      /\ InProgress(o) \subseteq {t}
      /\ status'[t] = "in_process" /\ owner'[t] = o
      /\ \A u \in TaskId \ {t} : status'[u] = status[u] /\ owner'[u] = owner[u]
      /\ deps' = deps
  BY ClaimedBoard DEF Claimed
<1>2. CASE status[t] = "in_process"
  <2>1. \A u \in TaskId : status'[u] = status[u] /\ owner'[u] = owner[u]
    BY <1>1, <1>2
  <2>2. Pending' = Pending /\ Holder' = Holder /\ Finisher' = Finisher
    BY <2>1 DEF Pending, Holder, Finisher, OwnerAs
  <2> QED BY <1>1, <2>2 DEF Promise!promiseVars, Pending, Holder, Finisher
<1>3. CASE status[t] = "pending"
  <2>1. Pending' = Pending \ {t} /\ t \in Pending
    BY <1>1, <1>3 DEF Pending
  <2>2. Holder' = [Holder EXCEPT ![t] = o]
    BY <1>1 DEF Holder, OwnerAs
  <2>3. Finisher' = Finisher
    BY <1>1, <1>3 DEF Finisher, OwnerAs
  <2>4. \A u \in TaskId : Holder[u] # o
    BY <1>1, <1>3, BoardAssumption DEF Holder, OwnerAs, InProgress
  <2>5. \A d \in deps[t] : Finisher[d] # NoOwner
    <3>1. \A d \in deps[t] : d \in TaskId /\ status[d] = "completed"
      BY <1>1 DEF Unblocked, TypeOK
    <3> QED BY <3>1 DEF FinisherKnown, Finisher, OwnerAs
  <2> QED BY <1>1, <2>1, <2>2, <2>3, <2>4, <2>5
          DEF Promise!Take, Promise!Ready, Pending, Holder, Finisher
<1> QED BY <1>1, <1>2, <1>3

LEMMA PromisedFinish ==
    ASSUME TypeOK, NEW o \in Owners, NEW t \in TaskId, Completed(o, t), tree' = tree
    PROVE  Promise!Finish(t)
<1>1. /\ status[t] = "in_process" /\ owner[t] = o /\ o # NoOwner
      /\ \A u \in TaskId : status'[u] = IF u = t THEN "completed" ELSE status[u]
      /\ owner' = owner /\ deps' = deps
  BY BoardAssumption DEF TypeOK, Completed, InProgress
<1>2. Pending' = Pending
  BY <1>1 DEF Pending
<1>3. Holder[t] = o /\ Holder' = [Holder EXCEPT ![t] = NoOwner]
  BY <1>1 DEF Holder, OwnerAs
<1>4. Finisher' = [Finisher EXCEPT ![t] = o]
  BY <1>1 DEF Finisher, OwnerAs
<1> QED BY <1>1, <1>2, <1>3, <1>4 DEF Promise!Finish, Pending, Holder, Finisher

LEMMA PromisedGiveBack ==
    ASSUME TypeOK, NEW o \in Owners, NEW t \in TaskId, HandedBack(o, t), tree' = tree
    PROVE  Promise!GiveBack(t)
<1>1. /\ status[t] = "in_process" /\ owner[t] = o /\ o # NoOwner
      /\ status'[t] = "pending" /\ owner'[t] = NoOwner /\ deps' = deps
      /\ \A u \in TaskId \ {t} : status'[u] = status[u] /\ owner'[u] = owner[u]
  BY HandedBackBoard, BoardAssumption DEF HandedBack
<1>2. Pending' = Pending \cup {t}
  BY <1>1 DEF Pending
<1>3. Holder[t] = o /\ Holder' = [Holder EXCEPT ![t] = NoOwner]
  BY <1>1 DEF Holder, OwnerAs
<1>4. Finisher' = Finisher
  BY <1>1 DEF Finisher, OwnerAs
<1> QED BY <1>1, <1>2, <1>3, <1>4 DEF Promise!GiveBack, Pending, Holder, Finisher

LEMMA PromisedRooms ==
    ASSUME TypeOK, SameBoard, TreeChange
    PROVE  Promise!Next \/ UNCHANGED Promise!promiseVars
<1>1. /\ deps' = deps /\ Pending' = Pending /\ Holder' = Holder
      /\ Finisher' = Finisher
  BY DEF SameBoard, Pending, Holder, Finisher, OwnerAs
<1>2. CASE tree' = tree
  BY <1>1, <1>2 DEF Promise!promiseVars, Pending, Holder, Finisher
<1>3. ASSUME NEW n \in Names, NEW t \in TaskId, CreateWorktree(n, t)
      PROVE  Promise!Equip(t, n)
  <2>1. /\ t \in Pending /\ tree[t] = NoTree /\ tree' = [tree EXCEPT ![t] = n]
        /\ \A u \in TaskId : tree[u] # n
    BY <1>3, BoardAssumption DEF CreateWorktree, CanBind, Pending
  <2> QED BY <1>1, <2>1 DEF Promise!Equip, Pending, Holder, Finisher
<1>4. ASSUME NEW n \in Names, RemoveWorktree(n)
      PROVE  Promise!Vacate(n)
  BY <1>1, <1>4 DEF RemoveWorktree, Promise!Vacate, Pending, Holder, Finisher
<1>5. \/ tree' = tree
      \/ \E n \in Names, t \in TaskId : CreateWorktree(n, t)
      \/ \E n \in Names : RemoveWorktree(n)
  BY DEF TreeChange, SameTrees, CreateWorktreeFails, RemoveWorktreeHalfway, taskVars
<1> QED BY <1>2, <1>3, <1>4, <1>5 DEF Promise!Next

\* The task board implements TaskPromise: with its files torn or not saved, its
\* leases forgotten by a restart and its worktrees half made, a task is held by
\* one owner, over finished dependencies, until it is finished or back.
THEOREM PromiseKept == Spec => KeepsTaskPromise
<1>1. Init => Promise!Init
  BY DEF Init, Promise!Init, OwnerAs
<1>2. TypeOK /\ FinisherKnown /\ [Next]_vars => [Promise!Next]_(Promise!promiseVars)
  <2> SUFFICES ASSUME TypeOK, FinisherKnown, [Next]_vars
               PROVE  Promise!Next \/ UNCHANGED Promise!promiseVars
    OBVIOUS
  <2>1. CASE SameBoard /\ TreeChange
    BY <2>1, PromisedRooms
  <2>2. CASE BoardChange /\ tree' = tree
    <3>1. CASE SameBoard
      <4>1. TreeChange
        BY TreeStep
      <4> QED BY <3>1, <4>1, PromisedRooms
    <3>2. ASSUME NEW t \in TaskId, NEW blocked_by \in SUBSET TaskId,
                 Created(t, blocked_by)
          PROVE  Promise!Next
      BY <2>2, <3>2, PromisedPost DEF Promise!Next
    <3>3. ASSUME NEW o \in Owners, NEW t \in TaskId,
                 Claimed(o, t) \/ Completed(o, t) \/ HandedBack(o, t)
          PROVE  Promise!Next \/ UNCHANGED Promise!promiseVars
      BY <2>2, <3>3, PromisedTake, PromisedFinish, PromisedGiveBack DEF Promise!Next
    <3> QED BY <2>2, <3>1, <3>2, <3>3 DEF BoardChange
  <2> QED BY <2>1, <2>2, OneChange
<1>3. Spec => []FinisherKnown
  <2>1. Init => FinisherKnown
    BY DEF Init, FinisherKnown
  <2> QED BY <2>1, FinisherStep, TypeCorrect, PTL DEF Spec
<1> QED BY <1>1, <1>2, <1>3, TypeCorrect, PTL DEF Spec, KeepsTaskPromise, Promise!Spec

-----------------------------------------------------------------------------
(***************************************************************************)
(* Work in process has a living owner.                                     *)
(***************************************************************************)
\* The reads and writes of a return never fail, and the process runs on.
ReturnsSucceed == "create" \notin WriteMayFail /\ "release" \notin WriteMayFail
                                      /\ MaxRestarts = 0

\* What NoOrphanedWork needs to be inductive: no torn file keeps a return from
\* reading the board, and only an idle teammate tries tasks it found.
Tended ==
    /\ torn = {} /\ restarts = 0
    /\ \A o \in Teammates : found[o] # {} => o \in idle
    /\ NoOrphanedWork

LEMMA TendedStep ==
    ASSUME ReturnsSucceed
    PROVE  TypeOK /\ OneTaskPerOwner /\ Tended /\ [Next]_vars => Tended'
<1> SUFFICES ASSUME TypeOK, OneTaskPerOwner, Tended, [Next]_vars PROVE Tended'
  OBVIOUS
\* A claim by somebody alive, whatever else changes of the threads.
<1>0. ASSUME NEW o \in alive \cup {Agent}, NEW t \in TaskId, Taken(o, t),
             alive \subseteq alive'
      PROVE  NoOrphanedWork'
  <2>1. \A u \in TaskId \ {t} : status'[u] = status[u] /\ owner'[u] = owner[u]
    BY <1>0 DEF TypeOK, Taken
  <2>2. owner'[t] = o
    BY <1>0 DEF TypeOK, Taken
  <2> QED BY <1>0, <2>1, <2>2 DEF Tended, NoOrphanedWork
<1>1. CASE TaskCalls
  <2>1. ASSUME NEW t \in TaskId, NEW blocked_by \in SUBSET TaskId,
               CreateTask(t, blocked_by)
        PROVE  Tended'
    BY <2>1 DEF TypeOK, CreateTask, threadVars, Tended, NoOrphanedWork
  <2>2. ASSUME NEW t \in TaskId, CreateTaskTorn(t) PROVE FALSE
    BY <2>2 DEF CreateTaskTorn, ReturnsSucceed
  <2>3. ASSUME NEW t \in TaskId, NEW o \in Owners, ClaimTask(o, t)
        PROVE  Tended'
    <3>1. o \in alive \cup {Agent} /\ Taken(o, t)
      BY <2>3 DEF ClaimTask, Working, RecordClaim
    <3>2. UNCHANGED <<torn, restarts, alive, idle, found>>
      BY <2>3 DEF ClaimTask, RecordClaim, threadVars
    <3> QED BY <1>0, <3>1, <3>2 DEF Tended
  <2>4. ASSUME NEW t \in TaskId, NEW o \in Owners, CompleteTask(o, t)
        PROVE  Tended'
    BY <2>4 DEF TypeOK, CompleteTask, threadVars, Tended, NoOrphanedWork
  <2> QED BY <1>1, <2>1, <2>2, <2>3, <2>4 DEF TaskCalls
<1>2. CASE WorktreeCalls
  BY <1>2 DEF WorktreeCalls, CreateWorktree, CreateWorktreeFails, RemoveWorktree,
              RemoveWorktreeHalfway, RemoveCheckout, taskVars, threadVars, Tended,
              NoOrphanedWork
<1>3. CASE TeammateSteps
  <2> SUFFICES ASSUME NEW o \in Teammates,
                      \/ Spawn(o) \/ ExitTeammate(o)
                      \/ EndTurn(o) \/ Wake(o) \/ ScanBoard(o)
                      \/ SubmitPlan(o) \/ PlanDecided(o)
                      \/ \E t \in TaskId : SpawnOn(o, t) \/ TryFound(o, t)
               PROVE  Tended'
    BY <1>3 DEF TeammateSteps
  <2>1. CASE Spawn(o)
    BY <2>1 DEF Spawn, Join, taskVars, Tended, NoOrphanedWork
  <2>2. CASE EndTurn(o) \/ SubmitPlan(o) \/ PlanDecided(o) \/ Wake(o)
    BY <2>2 DEF EndTurn, SubmitPlan, PlanDecided, Wake, taskVars, Tended, NoOrphanedWork
  <2>3. CASE ScanBoard(o)
    BY <2>3 DEF TypeOK, ScanBoard, taskVars, Tended, NoOrphanedWork
  <2>4. CASE ExitTeammate(o)
    <3>1. ReturnWork(o)
      BY <2>4 DEF ExitTeammate, ListWorks, Tended, ReturnsSucceed
    <3>2. /\ alive' = alive \ {o} /\ idle' = idle \ {o}
          /\ found' = [found EXCEPT ![o] = {}]
          /\ torn' = torn /\ restarts' = restarts
      BY <2>4 DEF ExitTeammate
    <3>3. o \in Owners /\ o # Agent
      BY BoardAssumption DEF Owners
    \* The one task of o is returned, so o owns nothing any more.
    <3>4. \A u \in TaskId : status'[u] = "in_process" =>
             /\ status[u] = "in_process" /\ owner'[u] = owner[u] /\ owner[u] # o
      BY <3>1, <3>3 DEF TypeOK, ReturnWork, InProgress, OneTaskPerOwner
    <3>5. NoOrphanedWork'
      BY <3>2, <3>4 DEF Tended, NoOrphanedWork
    <3>6. \A p \in Teammates : found'[p] # {} => p \in idle'
      BY <3>2 DEF TypeOK, Tended
    <3> QED BY <3>2, <3>5, <3>6 DEF Tended
  <2>5. ASSUME NEW t \in TaskId, SpawnOn(o, t) PROVE Tended'
    <3>1. /\ alive' = alive \cup {o} /\ Taken(o, t)
          /\ UNCHANGED <<torn, restarts, idle, found>>
      BY <2>5 DEF SpawnOn, Join, RecordClaim
    <3>2. \A u \in TaskId \ {t} : status'[u] = status[u] /\ owner'[u] = owner[u]
      BY <3>1 DEF TypeOK, Taken
    <3>3. owner'[t] = o
      BY <3>1 DEF TypeOK, Taken
    <3> QED BY <3>1, <3>2, <3>3 DEF Tended, NoOrphanedWork
  <2>6. ASSUME NEW t \in TaskId, TryFound(o, t) PROVE Tended'
    <3>1. o \in alive
      BY <2>6 DEF TypeOK, TryFound, Tended
    <3>2. CASE CanClaim(o, t)
      <4>1. Taken(o, t) /\ UNCHANGED <<torn, restarts, alive>>
        BY <2>6, <3>2 DEF TryFound, RecordClaim
      <4>2. \A p \in Teammates : found'[p] # {} => p \in idle'
        BY <2>6, <3>2 DEF TypeOK, TryFound, Tended
      <4>3. NoOrphanedWork'
        BY <1>0, <3>1, <4>1
      <4> QED BY <4>1, <4>2, <4>3 DEF Tended
    <3>3. CASE ~CanClaim(o, t)
      BY <2>6, <3>3 DEF TypeOK, TryFound, taskVars, Tended, NoOrphanedWork
    <3> QED BY <3>2, <3>3
  <2> QED BY <2>1, <2>2, <2>3, <2>4, <2>5, <2>6
<1>4. CASE Restart
  BY <1>4 DEF Restart, ReturnsSucceed, Tended
<1>5. CASE UNCHANGED vars
  BY <1>5 DEF vars, taskVars, threadVars, Tended, NoOrphanedWork
<1> QED BY <1>1, <1>2, <1>3, <1>4, <1>5 DEF Next

\* While files can be written and the process lives, a task in process belongs
\* to the main agent or to an active teammate: a teammate that ends, and one
\* that does not start, hands its task back.
THEOREM NobodyOrphansWork ==
    ASSUME ReturnsSucceed PROVE Spec => []NoOrphanedWork
<1>1. Init => Tended
  BY DEF Init, Tended, NoOrphanedWork
<1>2. Tended => NoOrphanedWork
  BY DEF Tended
<1> QED BY <1>1, <1>2, TendedStep, TypeCorrect, OneTaskAtATime, PTL DEF Spec
=============================================================================
