----------------------------- MODULE TaskBoard -----------------------------
(***************************************************************************)
(* The task board: durable task files with dependencies (task_system/),    *)
(* the assignment leases and Git worktrees that tie a claimed task to a    *)
(* working directory (worktree/index.py), and the teammate life cycle as   *)
(* far as it claims, finishes and returns tasks (agent_team/index.py).     *)
(*                                                                         *)
(* Every critical section of task_lock is one action.  Looking for work is *)
(* two: scan_unclaimed_tasks lets go of the lock before claim_task takes   *)
(* it again, so the tasks found may be gone when they are tried.           *)
(*                                                                         *)
(* The main agent is the owner "agent"; its turns end without a call into  *)
(* this component.  One process uses the board at a time.                  *)
(***************************************************************************)
EXTENDS Naturals, FiniteSets

CONSTANTS
    TaskId,         \* the ids create() can draw; an id is drawn once
    Teammates,      \* names a teammate may have
    Agent,          \* the main agent's owner name
    Names,          \* worktree names
    NoOwner, NoTask, NoTree,
    WriteMayFail,   \* the file operations that may raise
    PlansUsed,      \* teammates submit plans for review
    RemovalUsed,    \* remove_worktree is called (a library call, not a tool)
    MaxRestarts     \* bound on restarts of the process

FileOperations == {"create", "bind", "release"}
Owners == Teammates \cup {Agent}

ASSUME BoardAssumption ==
    /\ Agent \notin Teammates
    /\ NoOwner \notin Owners
    /\ NoTask \notin TaskId
    /\ NoTree \notin Names
    /\ WriteMayFail \subseteq FileOperations
    /\ PlansUsed \in BOOLEAN
    /\ RemovalUsed \in BOOLEAN
    /\ MaxRestarts \in Nat

VARIABLES
    status, owner, deps, tree,  \* the fields of each task file
    torn,           \* task files that were created but not fully written
    git,            \* what exists in Git and on disk of each worktree
    leaseTask, leaseTree,       \* teammate_assignment_info: task_id and cwd
    alive,          \* active teammates
    idle,           \* those in wait_for_work
    found,          \* claim_next_task's local list of scanned tasks
    waiting,        \* those whose plan_gates entry is "pending"
    restarts

taskVars == <<status, owner, deps, tree, torn>>
leaseVars == <<leaseTask, leaseTree>>
threadVars == <<alive, idle, found, waiting>>
vars == <<taskVars, git, leaseVars, threadVars, restarts>>

Status == {"absent", "pending", "in_process", "completed"}
Artifact == {"path", "entry", "branch"}
Nothing == {}

TypeOK ==
    /\ status \in [TaskId -> Status]
    /\ owner \in [TaskId -> Owners \cup {NoOwner}]
    /\ deps \in [TaskId -> SUBSET TaskId]
    /\ tree \in [TaskId -> Names \cup {NoTree}]
    /\ torn \subseteq TaskId
    /\ git \in [Names -> SUBSET Artifact]
    /\ leaseTask \in [Owners -> TaskId \cup {NoTask}]
    /\ leaseTree \in [Owners -> Names \cup {NoTree}]
    /\ alive \subseteq Teammates
    /\ idle \subseteq alive
    /\ found \in [Teammates -> SUBSET TaskId]
    /\ waiting \subseteq alive
    /\ restarts \in Nat

Init ==
    /\ status = [t \in TaskId |-> "absent"]
    /\ owner = [t \in TaskId |-> NoOwner]
    /\ deps = [t \in TaskId |-> {}]
    /\ tree = [t \in TaskId |-> NoTree]
    /\ torn = {}
    /\ git = [n \in Names |-> Nothing]
    /\ leaseTask = [o \in Owners |-> NoTask]
    /\ leaseTree = [o \in Owners |-> NoTree]
    /\ alive = {} /\ idle = {} /\ waiting = {}
    /\ found = [o \in Teammates |-> {}]
    /\ restarts = 0

-----------------------------------------------------------------------------
(***************************************************************************)
(* Reading the board.                                                      *)
(***************************************************************************)
Existing == {t \in TaskId : status[t] # "absent"}
InProgress(o) == {t \in TaskId : status[t] = "in_process" /\ owner[t] = o}

\* list_tasks loads every file: one torn file makes it raise for everybody.
ListWorks == torn = {}

\* task_worktree_cwd finds a directory: the workspace, or a registered
\* worktree whose path exists.
UsableTree(n) == n # NoTree => {"path", "entry"} \subseteq git[n]

\* assignment_cwd finds the directory of an owner with a lease, instead of
\* raising: every tool call of the owner asks it.
CwdFound(o) ==
    /\ owner[leaseTask[o]] = o
    /\ status[leaseTask[o]] \in {"in_process", "completed"}
    /\ UsableTree(tree[leaseTask[o]])
    /\ leaseTree[o] = tree[leaseTask[o]]

\* A thread that may call tools now.
Working(o) == o = Agent \/ o \in alive \ idle

-----------------------------------------------------------------------------
(***************************************************************************)
(* Tool calls on tasks.                                                    *)
(***************************************************************************)
CreateTask(t, blocked_by) ==
    /\ status[t] = "absent" /\ t \notin torn
    /\ blocked_by \subseteq Existing \cup torn
    /\ status' = [status EXCEPT ![t] = "pending"]
    /\ deps' = [deps EXCEPT ![t] = blocked_by]
    /\ UNCHANGED <<owner, tree, torn, git, leaseVars, threadVars, restarts>>

\* The new file is opened and then written in place: when the write fails the
\* caller gets an error and the file stays behind.
CreateTaskTorn(t) ==
    /\ "create" \in WriteMayFail
    /\ status[t] = "absent" /\ t \notin torn
    /\ torn' = torn \cup {t}
    /\ UNCHANGED <<status, owner, deps, tree, git, leaseVars, threadVars,
                   restarts>>

\* Mutant of Unblocked: a dependency somebody works on counts as ready.
UnblockedWhenStarted(t) == \A d \in deps[t] : status[d] # "pending"

\* The checks of claim_task, in one critical section with its writes.
Unblocked(t) == \A d \in deps[t] : status[d] = "completed"

\* Mutant of CanClaim: trusts the lease and does not ask the board for other
\* work of the owner.
CanClaimByLease(o, t) ==
    /\ Unblocked(t)
    /\ \/ status[t] = "pending"
       \/ status[t] = "in_process" /\ owner[t] = o
    /\ leaseTask[o] \in {NoTask, t}
    /\ ListWorks
    /\ UsableTree(tree[t])

CanClaim(o, t) ==
    /\ Unblocked(t)
    /\ \/ status[t] = "pending"
       \/ status[t] = "in_process" /\ owner[t] = o
    /\ leaseTask[o] \in {NoTask, t}
    /\ ListWorks
    /\ InProgress(o) \subseteq {t}
    /\ UsableTree(tree[t])

Taken(o, t) ==
    /\ status' = [status EXCEPT ![t] = "in_process"]
    /\ owner' = [owner EXCEPT ![t] = o]

RecordClaim(o, t) ==
    /\ Taken(o, t)
    /\ leaseTask' = [leaseTask EXCEPT ![o] = t]
    /\ leaseTree' = [leaseTree EXCEPT ![o] = tree[t]]
    /\ UNCHANGED <<deps, tree, torn, git>>

ClaimTask(o, t) ==
    /\ Working(o)
    /\ CanClaim(o, t)
    /\ RecordClaim(o, t)
    /\ UNCHANGED <<threadVars, restarts>>

\* The lease outlives the completion: the turn still runs in its directory.
CompleteTask(o, t) ==
    /\ Working(o)
    /\ t \in InProgress(o)
    /\ status' = [status EXCEPT ![t] = "completed"]
    /\ UNCHANGED <<owner, deps, tree, torn, git, leaseVars, threadVars,
                   restarts>>

-----------------------------------------------------------------------------
(***************************************************************************)
(* Worktrees.                                                              *)
(***************************************************************************)
\* Mutant of CanBind: any unfinished task can get a worktree.
CanBindClaimed(n, t) ==
    /\ status[t] \in {"pending", "in_process"}
    /\ tree[t] = NoTree
    /\ ListWorks
    /\ \A u \in TaskId \ {t} : tree[u] # n
    /\ git[n] = Nothing

CanBind(n, t) ==
    /\ status[t] = "pending" /\ owner[t] = NoOwner
    /\ tree[t] = NoTree
    /\ ListWorks
    /\ \A u \in TaskId \ {t} : tree[u] # n
    /\ git[n] = Nothing                 \* no path, branch or registry entry

CreateWorktree(n, t) ==
    /\ CanBind(n, t)
    /\ git' = [git EXCEPT ![n] = Artifact]
    /\ tree' = [tree EXCEPT ![t] = n]
    /\ UNCHANGED <<status, owner, deps, torn, leaseVars, threadVars, restarts>>

\* Mutant of CreateWorktreeFails: the binding is saved before git runs.
BindBeforeCheckout(n, t) ==
    /\ "bind" \in WriteMayFail
    /\ CanBind(n, t)
    /\ \E rest \in SUBSET Artifact : git' = [git EXCEPT ![n] = rest]
    /\ tree' = [tree EXCEPT ![t] = n]
    /\ UNCHANGED <<status, owner, deps, torn, leaseVars, threadVars, restarts>>

\* git worktree add fails and may leave anything behind, or the binding is
\* not saved and the rollback stops halfway: the task stays unbound.
CreateWorktreeFails(n, t) ==
    /\ "bind" \in WriteMayFail
    /\ CanBind(n, t)
    /\ \E rest \in SUBSET Artifact : git' = [git EXCEPT ![n] = rest]
    /\ UNCHANGED <<taskVars, leaseVars, threadVars, restarts>>

RemoveCheckout(n, keep) ==
    /\ RemovalUsed
    /\ "entry" \in git[n]
    /\ git' = [git EXCEPT ![n] = keep \cap @]
    /\ UNCHANGED <<status, owner, deps, torn, leaseVars, threadVars, restarts>>

RemoveWorktree(n) ==
    /\ ListWorks
    /\ \E keep \in SUBSET {"branch"} : RemoveCheckout(n, keep)
    /\ tree' = [t \in TaskId |-> IF tree[t] = n THEN NoTree ELSE tree[t]]

\* The branch cannot be deleted, the board not read or the task not saved: the
\* call ends with the checkout gone and the task still bound to it.
RemoveWorktreeHalfway(n) ==
    /\ \/ "branch" \in git[n] /\ RemoveCheckout(n, {"branch"})
       \/ /\ ~ListWorks \/ "bind" \in WriteMayFail
          /\ \E keep \in SUBSET {"branch"} : RemoveCheckout(n, keep)
    /\ UNCHANGED tree

-----------------------------------------------------------------------------
(***************************************************************************)
(* The life of a teammate.                                                 *)
(***************************************************************************)
Join(o) ==
    /\ alive' = alive \cup {o}
    /\ UNCHANGED <<idle, found, waiting>>

Spawn(o) ==
    /\ o \notin alive
    /\ Join(o)
    /\ UNCHANGED <<taskVars, git, leaseVars, restarts>>

\* The task is claimed before the thread starts; when the thread does not
\* start the task is handed back as in ExitTeammate.
SpawnOn(o, t) ==
    /\ o \notin alive
    /\ CanClaim(o, t)
    /\ RecordClaim(o, t)
    /\ Join(o)
    /\ UNCHANGED restarts

\* Mutant of ReturnWork: only the lease is given up.
ReturnNothing(o) == UNCHANGED <<status, owner>>

\* release_teammate_assignment: unfinished work goes back to the board, unless
\* the board cannot be read or the file not written; the lease always goes.
ReturnWork(o) ==
    IF InProgress(o) = {}
    THEN UNCHANGED <<status, owner>>
    ELSE \E t \in InProgress(o) :
            /\ status' = [status EXCEPT ![t] = "pending"]
            /\ owner' = [owner EXCEPT ![t] = NoOwner]

DropLease(o) ==
    /\ leaseTask' = [leaseTask EXCEPT ![o] = NoTask]
    /\ leaseTree' = [leaseTree EXCEPT ![o] = NoTree]

\* Mutant of ExitTeammate: the ended thread is not struck off the idle ones.
ExitStillIdle(o) ==
    /\ o \in alive
    /\ ListWorks /\ ReturnWork(o)
    /\ DropLease(o)
    /\ alive' = alive \ {o}
    /\ found' = [found EXCEPT ![o] = {}]
    /\ waiting' = waiting \ {o}
    /\ UNCHANGED <<deps, tree, torn, git, idle, restarts>>

\* Shutdown, an error of the provider, or any exception: the thread ends.
ExitTeammate(o) ==
    /\ o \in alive
    /\ \/ ListWorks /\ ReturnWork(o)
       \/ /\ "release" \in WriteMayFail \/ ~ListWorks
          /\ UNCHANGED <<status, owner>>
    /\ DropLease(o)
    /\ alive' = alive \ {o}
    /\ idle' = idle \ {o}
    /\ found' = [found EXCEPT ![o] = {}]
    /\ waiting' = waiting \ {o}
    /\ UNCHANGED <<deps, tree, torn, git, restarts>>

\* Mutant of ReleaseCompleted: asks whether the task is still being worked on.
ReleaseUnfinished(o) ==
    IF leaseTask[o] # NoTask /\ status[leaseTask[o]] = "in_process"
                             /\ owner[leaseTask[o]] = o
    THEN DropLease(o)
    ELSE UNCHANGED leaseVars

\* The end of a model turn: a finished assignment is released.
ReleaseCompleted(o) ==
    IF leaseTask[o] # NoTask /\ status[leaseTask[o]] = "completed"
                             /\ owner[leaseTask[o]] = o
    THEN DropLease(o)
    ELSE UNCHANGED leaseVars

\* A turn that ends while its plan waits for review keeps its lease.
EndTurn(o) ==
    /\ o \in alive \ idle
    /\ idle' = idle \cup {o}
    /\ IF o \in waiting THEN UNCHANGED leaseVars ELSE ReleaseCompleted(o)
    /\ UNCHANGED <<taskVars, git, alive, found, waiting, restarts>>

\* The gate is "pending" from here on; when the plan cannot be sent it goes back
\* and nothing has changed.
SubmitPlan(o) ==
    /\ PlansUsed
    /\ o \in alive \ idle
    /\ o \notin waiting
    /\ waiting' = waiting \cup {o}
    /\ UNCHANGED <<taskVars, git, leaseVars, alive, idle, found, restarts>>

\* The lead's decision is read and fits: it opens the gate and wakes a teammate
\* that waits.  A decision that does not fit is a message like any other (Wake).
PlanDecided(o) ==
    /\ o \in waiting
    /\ found[o] = {}
    /\ waiting' = waiting \ {o}
    /\ idle' = idle \ {o}
    /\ UNCHANGED <<taskVars, git, leaseVars, alive, found, restarts>>

\* A message arrives before the scan: the teammate works on.
Wake(o) ==
    /\ o \in idle /\ found[o] = {}
    /\ idle' = idle \ {o}
    /\ UNCHANGED <<taskVars, git, leaseVars, alive, found, waiting, restarts>>

\* claim_next_task, first part: never a second assignment.
Unclaimed == {t \in TaskId : /\ status[t] = "pending" /\ owner[t] = NoOwner
                             /\ UsableTree(tree[t])}

ScanBoard(o) ==
    /\ o \in idle /\ found[o] = {}
    /\ leaseTask[o] = NoTask /\ InProgress(o) = {}
    /\ ListWorks
    /\ found' = [found EXCEPT ![o] = Unclaimed]
    /\ UNCHANGED <<taskVars, git, leaseVars, alive, idle, waiting, restarts>>

\* Mutant of TryFound: a refused task is tried again instead of passed over.
InsistOnFound(o, t) ==
    /\ t \in found[o]
    /\ CanClaim(o, t)
    /\ RecordClaim(o, t)
    /\ found' = [found EXCEPT ![o] = {}]
    /\ idle' = idle \ {o}
    /\ UNCHANGED <<alive, waiting, restarts>>

\* Second part: claim_task decides again; a refused task is passed over.
TryFound(o, t) ==
    /\ t \in found[o]
    /\ IF CanClaim(o, t)
       THEN /\ RecordClaim(o, t)
            /\ found' = [found EXCEPT ![o] = {}]
            /\ idle' = idle \ {o}
       ELSE /\ found' = [found EXCEPT ![o] = @ \ {t}]
            /\ UNCHANGED <<taskVars, git, leaseVars, idle>>
    /\ UNCHANGED <<alive, waiting, restarts>>

\* The process ends and starts again: leases and threads are gone.
Restart ==
    /\ restarts < MaxRestarts
    /\ restarts' = restarts + 1
    /\ leaseTask' = [o \in Owners |-> NoTask]
    /\ leaseTree' = [o \in Owners |-> NoTree]
    /\ alive' = {} /\ idle' = {} /\ waiting' = {}
    /\ found' = [o \in Teammates |-> {}]
    /\ UNCHANGED <<taskVars, git>>

-----------------------------------------------------------------------------
TaskCalls ==
    \E t \in TaskId :
       \/ \E blocked_by \in SUBSET TaskId : CreateTask(t, blocked_by)
       \/ CreateTaskTorn(t)
       \/ \E o \in Owners : ClaimTask(o, t) \/ CompleteTask(o, t)

WorktreeCalls ==
    \E n \in Names :
       \/ \E t \in TaskId : CreateWorktree(n, t) \/ CreateWorktreeFails(n, t)
       \/ RemoveWorktree(n)
       \/ RemoveWorktreeHalfway(n)

TeammateSteps ==
    \E o \in Teammates :
       \/ Spawn(o) \/ ExitTeammate(o)
       \/ EndTurn(o) \/ Wake(o) \/ ScanBoard(o)
       \/ SubmitPlan(o) \/ PlanDecided(o)
       \/ \E t \in TaskId : SpawnOn(o, t) \/ TryFound(o, t)

Next == TaskCalls \/ WorktreeCalls \/ TeammateSteps \/ Restart

Spec == Init /\ [][Next]_vars

\* A model turn is finite and wait_for_work loops every two seconds.
Fairness ==
    \A o \in Teammates :
       /\ WF_vars(EndTurn(o))
       /\ WF_vars(ScanBoard(o))
       /\ \A t \in TaskId : WF_vars(TryFound(o, t))

FairSpec == Spec /\ Fairness

-----------------------------------------------------------------------------
(***************************************************************************)
(* Properties.                                                             *)
(***************************************************************************)
\* Nobody works on, and nobody has finished, a task one of whose dependencies
\* is unfinished: returned work and restarts never reopen a dependency.
DependenciesFirst ==
    \A t \in TaskId :
       status[t] \in {"in_process", "completed"} =>
          \A d \in deps[t] : status[d] = "completed"

\* Whoever holds a lease can use it: the task is still the holder's, and the
\* directory recorded at the claim is still the one the task is bound to and
\* still there.
LeaseIsUsable ==
    \A o \in Owners : leaseTask[o] # NoTask => CwdFound(o)

\* A bound worktree exists with its path, registry entry and branch, whatever
\* half-finished creation came before.
BoundTreeExists ==
    \A t \in TaskId : tree[t] # NoTree => git[tree[t]] = Artifact

\* Work in process belongs to somebody who runs: a teammate that ends, or does
\* not start, hands its task back.
NoOrphanedWork ==
    \A t \in TaskId : status[t] = "in_process" => owner[t] \in alive \cup {Agent}

\* Who an owner of a task is while it has the given status.
OwnerAs(stage, t) == IF status[t] = stage THEN owner[t] ELSE NoOwner

Promise ==
    INSTANCE TaskPromise WITH
        open <- {t \in TaskId : status[t] = "pending"},
        heldBy <- [t \in TaskId |-> OwnerAs("in_process", t)],
        doneBy <- [t \in TaskId |-> OwnerAs("completed", t)],
        needs <- deps,
        room <- tree

\* Whatever fails, ends or restarts, the task files change as TaskPromise says:
\* a task changes hands only through the board, over finished dependencies;
\* finished work stays finished and with its owner; no worktree is shared, given
\* to a task somebody works on, or taken from a task that keeps it.
KeepsTaskPromise == Promise!Spec

\* A ready task does not wait beside an idle teammate without an assignment:
\* wait_for_work keeps looking, and losing one race is not the end of it.
Claimable(o, t) == status[t] = "pending" /\ CanClaim(o, t)

IdleTeammateFindsWork ==
    \A o \in Teammates, t \in TaskId :
       (o \in idle /\ Claimable(o, t)) ~> (o \notin idle \/ ~Claimable(o, t))

Finished(o) == leaseTask[o] # NoTask /\ status[leaseTask[o]] = "completed"

\* A teammate's lease on finished work ends with its turn, unless a plan of its
\* waits for review: that one keeps the lease, for ever if the plan is never
\* decided, and gives it up with the first turn that ends after the decision.
TeammateLeasesEnd ==
    \A o \in Teammates :
       Finished(o) ~> (leaseTask[o] = NoTask \/ o \in waiting)

\* Every lease on finished work ends, the main agent's like a teammate's, when
\* no plans are used.
EveryLeaseEnds == \A o \in Owners : Finished(o) ~> (leaseTask[o] = NoTask)
=============================================================================
