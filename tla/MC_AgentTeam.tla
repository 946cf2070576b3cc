---------------------------- MODULE MC_AgentTeam ----------------------------
(* One name, used by two teammates in turn, and two request numbers.        *)
EXTENDS AgentTeam
=============================================================================
