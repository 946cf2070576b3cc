---------------------------- MODULE MC_AgentLoop ----------------------------
(* Inputs, events, firings and commands are interchangeable.                *)
EXTENDS AgentLoop, TLC

Symmetric == Permutations(Input) \cup Permutations(Event)
             \cup Permutations(Firing) \cup Permutations(Command)
=============================================================================
