--------------------------- MODULE BackgroundShell ---------------------------
(***************************************************************************)
(* Shell commands that run in the background (background_system/index.py   *)
(* and tools/shell.py).                                                    *)
(*                                                                         *)
(* A command is one call with shouldBack, so it is started at most once.   *)
(* Its entry in BackgroundManager.task and its place in the list _ready    *)
(* are one value, its stage: the thread of the command moves it along,     *)
(* under the manager's lock, and the agent loop collects it.               *)
(***************************************************************************)
CONSTANT Command

VARIABLE stage      \* where each command is

\* new: not started.  running: registered, its thread runs.  ready: in _ready.
\* collected: handed to the agent loop and forgotten.
Stage == {"new", "running", "ready", "collected"}

ShellInit == stage = [c \in Command |-> "new"]

At(s) == {c \in Command : stage[c] = s}

\* start_task.  A thread that cannot be started leaves no entry behind, which
\* is the same as a command that was refused.
StartCommand(c) ==
    /\ stage[c] = "new"
    /\ stage' = [stage EXCEPT ![c] = "running"]

\* _run and run_shell_process: the process may not come up, exit by itself or be
\* killed after the time limit; each of these publishes a result.
FinishCommand(c) ==
    /\ stage[c] = "running"
    /\ stage' = [stage EXCEPT ![c] = "ready"]

\* Mutant of CollectReady: the list of ready commands is not cleared.
CollectLeavesReady == UNCHANGED stage

\* collect: every ready result is taken.
CollectReady ==
    stage' = [c \in Command |-> IF stage[c] = "ready" THEN "collected"
                                                      ELSE stage[c]]
=============================================================================
