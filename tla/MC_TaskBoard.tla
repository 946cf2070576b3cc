---------------------------- MODULE MC_TaskBoard ----------------------------
(* Tasks, teammates and worktree names are interchangeable.                 *)
EXTENDS TaskBoard, TLC

Symmetric == Permutations(TaskId) \cup Permutations(Teammates)
                                  \cup Permutations(Names)
=============================================================================
