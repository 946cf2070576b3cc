# A TLA+ model of bareloop

bareloop is a coding agent that runs in one Python process: a CLI thread, a cron
poller, a queue processor, any number of teammate threads, background shells and a
memory worker share files under `.bareloop/` and a few dictionaries. This directory
models the parts where those threads, failing writes and restarts meet, checks them
with TLC, and proves the main safety results with TLAPS for every value of the
constants. Paths below are relative to `src/bareloop/` of the repository.

## 1. Inventory

| Component | State | Operations | Interacts by | What makes it correct |
|---|---|---|---|---|
| Cron scheduler `cron_scheduler/index.py` | `scheduled_jobs`, `cron_queue`, the durable file, `agent_lock` | schedule, cancel, poll, consume, acknowledge, restore, load | `cron_lock`; starts turns of the agent loop from its own thread | table and file agree; a firing is neither lost, nor doubled, nor stranded |
| Agent loop `loop.py` | the message list, the turn's collected jobs, whether the model has answered | one turn: inject, compact, call, run tools, settle | called by the CLI and by the queue processor under `agent_lock`; calls every tool | every tool call is answered in the history; a prompt is settled only when the model has it |
| Session and CLI `main.py` | the shared message list, mode, goal controller | user turn, team wake, `/clear`, mode switch, quit | `agent_lock`, the lead's mailbox | inputs enter the list one turn at a time |
| Task board `task_system/` | one JSON file per task | create, claim, complete, list | `task_lock` (threads and processes) | dependencies first; one task per owner; finished stays finished |
| Worktrees `worktree/index.py` | Git's registry, branches and checkouts; the leases `teammate_assignment_info` | create, remove, resolve a lease | `task_lock`; `git` | a lease resolves to the directory of its task; no worktree serves two tasks |
| Agent team `agent_team/index.py`, `tools/adapters/teammate.py` | `active_teammates`, `plan_gates`, `plan_request_ids`, `assignment_versions`, `pending_requests`, mailbox files | spawn, plan request, submission and review, shutdown, auto-claim, exit | `team_lock`, mailboxes, the task board | an approval covers the work it was given for and nothing else; a stop request ends the teammate it was made to; nobody waits for ever |
| Background shell `background_system/`, `tools/shell.py` | running commands and results | start, finish, time out, collect | its own lock; results enter the next model round | each result reaches the history once |
| Goal gate `goal/model.py` | goal, feedback, counters | accept input, evaluate, continue or block | called at the end of a turn | never ends a turn as done without a verdict; never loops for ever |
| Memory `memory/index.py` | the memory directory and its index | extract, consolidate, load, recover | one worker thread writes, turns read | a crash or a reader never meets a half-replaced set |
| MCP and tools `mcp_integration/`, `tools/registry.py`, `tools/dispatcher.py` | routes, dynamic tools, the initialisation future | connect with fall-back, register, look up, dispatch | background thread at start, every turn waits for it | a name has one handler; a failed endpoint leaves nothing behind |
| Compaction, subagent, SDK agent | none shared, or per call; an Agent's own tools and allowed names | compact, run a subagent, add a tool | called by the loop; seen through AgentLoop and ToolAccess | a compaction loses nothing but what its summary leaves out; an offered tool runs |
| File tools, hooks, plugins, skills | none shared, or per call | | called by the loop | |
| Trace, telemetry, evaluation, settings | append-only output, configuration | | | |

The hard behaviours: a job's state is spread over a file, a table, a queue and a
running turn, and any save can fail; tasks are files while leases are memory; Git
commands can fail halfway; a teammate reads its mail, handles it and acts on it in
three steps while the lead's tools run; names, mailboxes and request tables outlive the
thread they were for; the process can end anywhere. `PROJECT.json` lists these hazards
line by line with the properties that cover them.

## 2. What is modelled

### CronScheduler (with CronExpr, and CronPromise)

One action per critical section of `cron_lock`. `mem` and `disk` are `scheduled_jobs` and
its file, `queue` is `cron_queue` (how many times each job stands in it), `fired` the local
of `agent_loop`, `agentLock` the holder of `agent_lock`. A turn is `StartTurn` (take the lock
and `consume_cron_queue`), `ModelAnswers` (the first successful provider call, which sets
`model_accepted`), any number of `ScheduleCron` and `CancelJob` tool calls, and one end:
`Acknowledge`, `AcknowledgeFails`, `RestoreJobs`, or `AbandonTurn` for a turn without cron
prompts that does not complete. `PollDueJobs` chooses which of the due jobs can be saved; the
others are put back. An exception that escapes a turn of the queue processor ends its
thread; in the CLI thread it ends the process (`EndProcess`, which also stands for quitting
and for a kill). `StartProcess` loads the file. Prompts and the format of the file are abstracted.

`CronExpr` has the two parsers of an expression: `ValidCron` accepts it when a job is scheduled (and again when
the file is loaded), `CronMatches` reads it at every poll. A field is the sequence of its signs and
numbers, a run of digits being one number, and a part of it a first and a last position, so that `*/0`, `1-`, `5--3`
or `1,,2` can be written down and must be refused. `Readable` says that the second parser raises nowhere; `poll_due_jobs`
catches what it raises and prints it, so a job it cannot read would be skipped every second. Signs `int()` takes and
`isdigit()` does not, and digits of other scripts, count as signs no number contains. What the model says beyond its properties:
a step counts from zero, so `*/2` for the day means the even days, and a step beyond the range of the days or months
(`*/40`) is accepted and never matches; `*/1` restricts nothing, but is no `*` in the rule that joins day and weekday.

`CronPromise` says what the subsystem owes its user: a job is scheduled once, becomes due,
reaches the model at least once, and only then is settled. The refinement maps the *file*
to the promise's stages (`DurableStatus`), so it also says that a crash at any point leaves
a file that keeps the promise.

### TaskBoard (and TaskPromise)

Task files (`status`, `owner`, `deps`, `tree`), Git's artefacts of each worktree (`git`), the
leases (`leaseTask`, `leaseTree`) and the life of teammates as far as it touches the board.
Every critical section of `task_lock` is one action; `claim_next_task` is two, because
`scan_unclaimed_tasks` lets go of the lock (`ScanBoard`, then `TryFound` for each task
found). Failures: a torn new file (`CreateTaskTorn`), `git worktree add` or its rollback
stopping halfway with any subset of path, registry entry and branch left
(`CreateWorktreeFails`), a removal that stops before the task is unbound
(`RemoveWorktreeHalfway`), a return of work that cannot read or write the board
(`ExitTeammate`), and `Restart`, which forgets leases and threads. `SpawnOn` followed by
`ExitTeammate` stands for a thread that could not be started after its claim.
`remove_worktree` is a library function that the program never calls; `RemovalUsed` says whether somebody
does, and the worktree properties are stated for boards where nobody does.

`waiting` holds the teammates whose plan gate is pending: a turn that ends then keeps its lease, also on finished
work (`agent_team/index.py:308-312`), until the decision is read (`PlanDecided`), the teammate ends or the
process does. No fairness makes a decision come: a plan can wait for ever (run `team_plan_stuck`).

`TaskPromise` is what an owner may rely on: a task is open, held by one owner or done; it is taken over
finished dependencies only, by an owner who holds nothing else, and let go of only finished or back to the board; what is done
stays done, on its finisher's record; a room (a worktree) belongs to one task, which gets it while it is open. The refinement maps the *files*
to it (`Promise` in TaskBoard), so leases, threads, torn files, Git's leftovers and restarts are behind it.

### AgentTeam

The protocol between the lead and its teammates: plan gate, plan review, shutdown, names
that are used again. `requests` is `pending_requests`, `gate`, `planReq` and `version` are the
tables of the plan gate, `mailbox` the mailbox files, `batch` the messages a teammate has
read and not yet handled. `phase` says where `TeammateRuntime.run` is; reading mail, handling
each message, calling the model, each tool call and the two halves of the final cleanup are
separate actions, so the lead's tools interleave with all of them. `ReviewPlan` records and
mails in one step: the code lets go of `team_lock` in between, but a decision is read
only on its message, so the steps cannot be told apart. Sending may fail wherever `BUS.send` is
called and the failure matters. Board and worktrees appear only as free tasks; `LeaveWork`
assumes the return of work that TaskBoard lets fail. A restart of the process is not
modelled here: what survives it is the mailbox files, and a message whose request is unknown
is ignored like one for an earlier teammate.

### AgentLoop (with BackgroundShell and GoalGate)

The shared session. `history` is the message list that the CLI thread and the queue processor
hand to `agent_loop`; a message is its kind, the inputs, events, firings and commands it is about
(`refs`), its tool calls, and whether it is still the object that was appended (`copy`). A turn is
`BeginTurn`, then rounds: `Prepare` (notices of background commands, reminder, and whether the list must be
compacted), `EndCompaction` (the summary is about the *first n messages* of the list as it was asked for), the provider
(`Reply`, `ReplyWithCalls`, `EmptyReply`, `ProviderFails`, `Overflow`), one `RunCall` or `InvalidCall` per tool
call, `Gate`, and at the end `Settle`, where `agent_loop` acknowledges or restores the
collected prompts and takes restored ones out of the list. `Wake` is the only step that touches the list
without `agent_lock`, as in `create_session`. `BackgroundShell` has the life of a command
(started, running, ready, collected) and `GoalGate` the controller; AgentLoop extends both.

What the model says about the code beyond its properties: `summarize_history` hands the provider the first 80000
characters of the list (`compact/index.py:103`) and the list is replaced by the summary, so what stands at the end, which may be the
input just typed, a collected prompt or a notice, can be in no message of the next request. `EndCompaction` leaves open how far the summary
reaches (a message cut within counts as left out), and the history variable `gone` keeps what `/clear` removed and summaries left out, so that the
properties say exactly what else may not be lost. The firings of a turn are settled although their prompt was
cut off, and also when the response had no choices (`voided`). After an undecodable call the
rest of a response stays unanswered in the list, and the next request carries it; team events may
stand between a call and its results; the copies that `reactive_compact` makes of the scheduled prompts are not
recognised by `_remove_messages`, so a failed retry leaves them behind while their jobs are
queued again. Left out: blank input in goal mode, which raises and ends the CLI, and an exception in
a turn of the CLI (both end the process, which CronScheduler models); saves of acknowledgements that
fail (CronScheduler); `max_rounds`, which the CLI does not set; the two steps of `_remove_messages`' slice assignment.

### MemoryStore (and MemoryPromise)

The memory directory as its documents and the lines of `MEMORY.md`, its backup, the worker that maintains
it (`List`, `DecideMemories` or `Merge`, then the steps of `_replace_memory_set`: `DropBackup`, `MoveAway`,
`MoveIn`, `DropBackup`), the turn that reads it file by file (`Glob`, `ReadDocuments`, `ReadIndex`, `Select`,
`LoadFile`), and the user who writes lines by hand. `Crash` may strike between any two steps, also in the middle of a
`shutil.rmtree`; `Recover` is what the import of the module does. `MemoryPromise` is an atomic set of memories that an
extraction may extend and revise and only a consolidation may shrink.

What the model says about the code beyond its properties: `_parse_inline_memories` reads a handwritten
`- [plan*] - text` (`memory/index.py:269`), but the replacement writes it as `- **plan***: text` (182, 189, 196), which
line 252 cannot read back: the memory is lost at the next replacement, an extraction included. A starred memory that has a document
keeps it. `MemoryPromise` therefore has the names an extraction may lose as a parameter (`Fragile`: the starred names, where
there is no file); with `Fragile` empty TLC finds this loss. A handwritten line whose name has no ASCII letter or digit makes `_memory_slug` raise in
`list_files`, and since `extract_relevant_memories` calls it outside its `try`, every turn fails until the
line is gone; a turn that lists documents while the directory is being replaced fails; what the user writes
during the call of the model is overwritten (MemoryPromise allows it). If the move of the new directory
*and* the move back fail, the backup is the only copy and the next replacement removes it first
(`index.py:211`): `MoveInFails` has the step, and the run sets `RollbackMayFail` to FALSE because
`AlwaysRecoverable` does not survive it. Left out: staging directories that a crash leaves, two processes in one
workspace, handwritten lines that share a file name, names with a closing bracket. `write_memory_file` and `_rebuild_index` have no
caller in the program.

### ToolAccess (with McpClient)

`McpClient` is a connection: the addresses of a server in order, reachability, handshake with the list of tools, conflicts, close.
It is used twice, by the discovery thread (`mcp_init`) and by every call of an MCP tool
(`_call_tool_once`), and at each step anything may be found behind an address, so a call may reach another
server than the discovery did. `ToolAccess` puts the registry, the dispatcher, an Agent of the SDK
with its list of allowed names, and the turns of the CLI, of cron and of the Agent around it: `StartTurn`
(the turns of the CLI and of cron go through `run_agent_turn_locked` and wait, at most fifteen seconds; `Agent.run`
calls the loop directly), `Ask` (what is offered), `Call`, `Refuse` or `RunTool`,
`CallServer`, `SubagentCall`.

What the model says about the code beyond its properties: the comment at `main.py:56` has the handshake finished
before a turn runs, but the wait gives up after fifteen seconds and tools may then register in the middle of
a turn; the first name given to `Agent.add_tool` makes a list of allowed
names that the tools added before are not on; an Agent's tool with a built-in name is offered twice and the
Agent's own runs; a subagent runs any tool with `allow_subagent`, also when the Agent's list has only `subagent`.
Left out: registrations during a run, arguments and results (a result with `is_error` counts as a success for the
dispatcher, because its text begins with "MCP error:"). `open` is one boolean for the three resources a connection stacks up, and a
cancellation, which is no `Exception` (`client.py:129`), is outside the model.

The variables named *history* in the modules (`scheduled`, `cancelled`, `reached`, `life`,
`stoppedBy`, `owed`, `approvedTask`, `nudges`, `unjudged`, `typed`, `consumed`, `due`, `answered`, `settled`,
`voided`, `gone`, `quiet`) exist for properties only; no guard reads them except
the ones that bound a run (`life`, `typed`, `consumed`, `due`) and draw a fresh id (`scheduled`).

## 3. What is checked

| Run | Bounds | What it shows |
|---|---|---|
| `cron` | 2 jobs (one recurring) and 2 refused expressions, 3 minutes, 2 ends of the process, every save may fail, turns may raise | `TableIsReadable`, `TableIsDurable`, `PendingTracked`, `NothingLost`, `OneFiringPerMinute`, refinement `KeepsPromise`, `ProcessorSettles` |
| `cron_processor_dies` | the same, no other exception | **violates** `PendingIsSettled` |
| `task_board` | 3 tasks, main agent and 2 teammates, 1 worktree, all failures, removals, 1 restart, no plans | `DependenciesFirst`, refinement `KeepsTaskPromise` |
| `task_board_live` | 2 tasks, main agent and 2 teammates, 1 worktree, failing bindings, plans, no removal, no restart | `LeaseIsUsable`, `BoundTreeExists`, `NoOrphanedWork`, `IdleTeammateFindsWork`, `TeammateLeasesEnd` |
| `task_board_main_lease` | 1 task | **violates** `EveryLeaseEnds` |
| `team` | 1 name used by two teammates in turn, 2 request numbers, 1 task, 2 messages per mailbox, failing sends | `GateHasRequest`, `PlanIsOwed`, `ApprovalDiesWithWork`, `ShutdownIsObeyed`, `TaskPlanIsDecided` |
| `team_plan_stuck` | 1 teammate, 1 request number | **violates** `PlanIsDecided` |
| `team_stale_stop` | 1 name used twice, 2 request numbers | **violates** `StopsOnOwnRequest` |
| `agent_loop` | 2 inputs, 1 batch of events, 1 firing, 1 command, 2 calls per response, the provider answers below 3 messages, every cut of a summary, summaries above 3, reminder after 1 round, 2 goal checks | `CallsAnswered`, `DeliveredOnce`, `InputsSurvive`, `RestoredIsWithdrawn`, `NoticeOnce`, `GoalVerdict`, `ContinuationsBounded` |
| `agent_loop_events_lost` | the same | **violates** `EventsSurvive` |
| `memory` | 5 memories under 4 names (two collide, one of them with a star, one has no slug), handwritten lines of three of them, 2 decisions, 2 merged, 1 selected, consolidation from 2 | `AlwaysRecoverable`, `FilesApart`, `QuietLoad`, refinement `KeepsMemoryPromise` |
| `tools` | 2 addresses, 2 server tools with one exposed name, 2 built-in tools, 1 tool of an Agent with a built-in name | `OfferHolds`, `ConnectionsClosed`, `DiscoveredIsOffered`, `TurnGoesOn` |

Why these bounds. Cron: two jobs of different kinds meet in one queue; three minutes let a job
fire, be settled and fire again around a minute that does not match (its expression is a list of a number and a step; the other
job's is a range with the weekday rule; the refused ones are a step of zero and an open range); two ends of
the process put one before and one after a delivery. Task board: three tasks give a chain and a
diamond's half; two teammates and the main agent race for one task; one worktree name suffices for
two tasks to compete for it; the run with plans is the one whose properties are about leases, since the task files do not know of plans. Team: two request numbers let a plan and a stop request
coexist, or a stale and a fresh one; two lives of a name let mail reach a successor; two names at once are left to the proofs, which
hold for any number. Agent loop: a response of two calls has a decodable and an undecodable one in either order; the list can
grow to about eight messages, which is enough for an answered exchange, a failed one and a summary, and the code's numbers (3 rounds,
10 messages, 8 checks) only move the points where the same steps happen. Memory: two names that share a file, a threshold of two and two decisions make
every collision and a consolidation possible. Tools: two addresses give a fall-back, two tools of one name a conflict. TLC uses
symmetry in the runs that check no liveness. Deadlock is checked except in the team runs, where
the bound `MaxLives` ends the last teammate's life and the model then has nothing left to do;
the program can always spawn another.

Each property of a passing run has a mutant (`PROJECT.json`, `mutants`): a plausible bug in one
definition, kept beside it in the module, under which TLC finds that property violated.

### Fairness

Cron: both threads loop for ever and a turn is finite (`WF` of `StartProcessorTurn`, `EndTurn`),
the user starts the program again (`WF` of `StartProcess`), and neither the provider nor the
disk fails for ever (`SF` of `ModelAnswers`, `Acknowledge`). No fairness is assumed of the user's
turns or of the poller. Task board and team: a teammate's turn is finite and its idle loop runs every
two seconds (`wait_for_work`), so the ends of turns, scans and tries, reading and handling mail, and the
cleanup after a stop are weakly fair. A plan submitted, decided or never
decided is a choice, so `TeammateLeasesEnd` lets a lease last while its plan waits. Tools: every step of an attempt to connect ends, since a probe has two seconds
and each request of a session sixty (`client.py:62-134`), and the thread that waits runs on (`WF` of `Connecting`, `RegisterDynamicTools`, `CallServer`,
`WaitEnds`, `McpCallEnds`); the fifteen seconds of the wait are *not* used, so `TurnGoesOn` says that the discovery and the calls themselves come to
an end, through all addresses. A server that sends its answer byte by byte for ever is outside. Spawning, submitting, reviewing, claiming by the model and
asking to stop are choices and have no fairness. All of this assumes that a provider
call returns.

### Where the code departs from what it says

Five runs check what a document, a test or a comment says and show that it does not hold; `findings`
in `PROJECT.json` quotes the lines.

1. *cron_processor_dies.* When the acknowledgement of a turn cannot be saved, its exception ends
   `queue_processor_loop`. The jobs are queued again, but nobody delivers them until the user
   starts a turn. `ProcessorSettles` is what does hold.
2. *task_board_main_lease.* Only a teammate's turn releases the lease on finished work, so the main
   agent can claim one task per run of the program. `TeammateLeasesEnd` is what does hold of teammates: their leases end unless a plan waits for review.
3. *team_plan_stuck.* A plan submitted without a task and answered after the teammate has claimed
   one is ignored, and the gate stays pending for ever. `TaskPlanIsDecided` is what does hold.
4. *team_stale_stop.* A second stop request survives the teammate that stopped on the first, and stops
   the next teammate of that name.
5. *agent_loop_events_lost.* The README has team events enter the session under the agent lock; the wake branch appends them
   without it, and a summary that is being written meanwhile replaces them. The mailbox is empty by then.

## 4. What is proved

The seven proof modules hold machine-checked proofs, for arbitrary sets of jobs, tasks, names, owners,
requests, commands, memories, tools and any bounds, from the named assumptions on the constants alone
(`CronAssumption`, `BoardAssumption`, `TeamAssumption`, `LoopAssumption`, `GoalAssumption`,
`MemoryAssumption`, `McpAssumption`, `AccessAssumption`). The inductive invariants are made of
the named parts below; none of them restricts the constants further except where the statement
of the theorem says so.

* **CronSchedulerProofs.** All of `TypeOK`, `TableIsReadable`, `TableIsDurable`, `PendingTracked`, `NothingLost`,
  `OneFiringPerMinute` and the refinement `KeepsPromise`. The inductive invariant `IInv` adds to them
  what they rest on: a pending job is live and was scheduled, no last firing lies in the future,
  a turn holds jobs only while it holds the lock, and what a turn delivered after an answer has reached
  the model. `PendingTracked` is not inductive alone: a settled job would leave a copy behind unless
  the turn's jobs are known to be pending or gone. `TableIsReadable` rests on `ParsersAgree`, for every sequence of
  signs and numbers: what validation accepts of a part, matching can convert (a range that begins and
  ends with a number around its first dash has no second one). `NoDeadPart` adds that an accepted part matches some value of its
  range, with the exception of the steps named in section 2.
* **TaskBoardProofs.** `TypeOK`, `DependenciesFirst`, the refinement `KeepsTaskPromise`, `OneTaskPerOwner`, `NoTheft` and
  `WorktreesApart` (what the promise means for one owner, one task, one worktree) without any further assumption; `BoundTreeExists` and `LeaseIsUsable` for boards whose worktrees nobody
  removes (`~RemovalUsed`); `NoOrphanedWork` when returns succeed and the process runs on
  (`ReturnsSucceed`). `DependenciesFirst` needs that dependencies exist before their dependants and that no
  step un-finishes a task; the refinement needs that no step changes a task's course and its worktree at once (`OneChange`) and
  that a finished task has its finisher on record (`FinisherKnown`); `LeaseIsUsable` needs that a lease belongs to its holder's task and that a
  binding is only made while nobody owns the task; `NoOrphanedWork` needs that only an idle,
  hence living, teammate tries tasks it found.
* **AgentTeamProofs.** `TypeOK`, `GateHasRequest`, `PlanIsOwed`, `ApprovalDiesWithWork`. They are proved
  together (`PlanInv`): that an owed plan keeps the gate closed at a decision needs that the decided
  request is the one the lead approved, which needs the agreement of the three tables, which at the exit
  of a teammate needs that a gone name has no plan state.

* **AgentLoopProofs.** `TypeOK`, `ContinuationsBounded`, `GoalVerdict`, `RestoredIsWithdrawn`, `DeliveredOnce`,
  `NoticeOnce`, `InputsSurvive`. All rest on `Base`: the types, that the list starts with the system message, and that a
  message refers only to what has happened. `ContinuationsBounded` needs `Counted` (the evaluator has sent the
  agent back no more often than the controller's streak says). `RestoredIsWithdrawn` needs that a
  message kept by identity is the only one of its turn about a firing (`OneOf`): then removing the turn's
  prompts removes every one that is not a copy. `DeliveredOnce` needs that while a turn runs the queue holds only
  later firings, and that a collected one stays in the list, in the request of the summary that is about to
  replace it, or among what a summary left out, until the turn ends. `NoticeOnce` needs that no two messages are about the
  same command, that what a summary leaves out is nowhere else, and that the list a summary was asked for agrees on commands with the list it replaces, since
  nothing collects a command in between. `InputsSurvive` needs that a message about a firing of the running turn is about no
  input and nothing answered before (`Whole`), so what `Withdraw` removes may go, and that the inputs are in the
  request of a summary while it is written, or gone. What the cut of a summary leaves out is in `gone` by the definition of
  `EndCompaction`: the three theorems say that nothing else loses a firing, a notice or an input.
* **AgentLoopAnswers.** `CallsAnswered`. Between rounds the list is a sequence of exchanges, and what
  must hold of it depends on where the turn is: all exchanges are closed whenever no response is being worked on; while
  `RunCall` works on one, it is the last and open, and the results so far stand behind it in order. The invariant is about
  positions: every result belongs to one response, nothing but team events stands between the
  parts of an exchange (`Wake` may put one anywhere at the end of the list, also into an open exchange), and appending,
  removing a prompt, copying and summarising keep every closed exchange closed.
* **MemoryStoreProofs.** `TypeOK`, `AlwaysRecoverable`, `FilesApart`, `QuietLoad` and the refinement
  `KeepsMemoryPromise`, all for stores in which a move and its undoing do not both fail (`~RollbackMayFail`; with
  it `AlwaysRecoverable` is false, as section 2 says). `AlwaysRecoverable` is an action property: once the directory exists, no step leaves neither it
  nor a complete backup, so total loss does not satisfy it. `StoreInv` says that the directory is there whenever the worker is
  at rest, that a backup is complete while the directory is away, and that what is staged can be stored.
  The refinement needs one more idea: an extraction rewrites what it read, and what has a document before has one after, so
  only a starred name without a document can be lost.
  `QuietLoad` adds what an undisturbed turn has read so far (`QuietReads`).
* **ToolAccessProofs.** `TypeOK`, `ConnectionsClosed`, `OfferHolds`, `DiscoveredIsOffered`. `ConnectionsClosed` needs that
  the connection of a call is at work only while a turn waits for it; `OfferHolds`, which also says that an offered tool is found, that what was
  offered is still known to whoever will run it, although tools may register in the middle of the turn;
  `DiscoveredIsOffered` that the discovery is over once a turn that has waited to the end asks.

Only model-checked: every liveness property (`ProcessorSettles`, `ShutdownIsObeyed`, `TaskPlanIsDecided`,
`IdleTeammateFindsWork`, `TeammateLeasesEnd`, `TurnGoesOn`; fairness is out of the prover's reach here);
and whatever the violation runs show. Every invariant and every action property a passing run checks, and all three
refinements, are theorems.

## 5. What is not modelled yet, and the plan

1. **AgentTeam across a restart**: mailbox files survive the program while requests do not (`agent_team/index.py:80`); the
   model has one session so far.
2. The converse of `StopsOnOwnRequest` that does hold: a teammate stops only on a request the lead made to its name.
3. A model of the lock order of `task_lock`, `team_lock` and the bus.

Left out for good: the evaluation harness, telemetry and trace (nothing in the program reads them back), the
SDK wrappers, plugins and skills (sequential, no shared state), file tools (sequential I/O), prompts
and display. Two processes in one workspace are modelled nowhere: the task board locks its files against
it, the cron file does not.
