------------------------------ MODULE McpClient ------------------------------
(***************************************************************************)
(* Connections to the MCP server (mcp_integration/client.py).              *)
(*                                                                         *)
(* A manager tries the addresses of the server in order, and keeps the     *)
(* first connection that comes up.  There are two uses: the discovery at   *)
(* the start of the program, in a thread of its own, and the call of a     *)
(* tool, which connects, calls and closes every time.  What is behind an   *)
(* address may change at any moment, so each step may find anything there. *)
(***************************************************************************)
EXTENDS Naturals

CONSTANTS
    Addresses,      \* how many addresses there are (1 or 2)
    ServerTool,     \* tools as the servers name them
    Exposed         \* the names the agent knows them by

ASSUME McpAssumption == Addresses \in Nat \ {0}

VARIABLES
    phase,          \* where each manager is
    at,             \* the address it tries
    open,           \* it holds open resources
    tools           \* the tools of its connection

mcpVars == <<phase, at, open, tools>>

Use == {"discovery", "call"}
Phase == {"off", "probing", "opening", "connected", "closing", "done", "failed"}

McpTypeOK ==
    /\ phase \in [Use -> Phase]
    /\ at \in [Use -> 1..Addresses]
    /\ open \in [Use -> BOOLEAN]
    /\ tools \in [Use -> SUBSET ServerTool]

\* create_session starts the discovery before it takes any input; it ends at once
\* when a token would be sent in the clear.  A program of the SDK has none.
McpInit ==
    /\ phase \in [Use -> {"off", "probing", "failed"}] /\ phase["call"] = "off"
    /\ at = [u \in Use |-> 1]
    /\ open = [u \in Use |-> FALSE]
    /\ tools = [u \in Use |-> {}]

ExposedNames(s) == {Exposed[t] : t \in s}

\* connect refuses two tools under one name.
Conflict(s) == \E t, u \in s : t # u /\ Exposed[t] = Exposed[u]

Begin(u) ==
    /\ phase' = [phase EXCEPT ![u] = "probing"]
    /\ at' = [at EXCEPT ![u] = 1]
    /\ UNCHANGED <<open, tools>>

\* Mutant of NextAddress: one address too many.
OneMoreAddress(u) ==
    IF at[u] <= Addresses
    THEN /\ at' = [at EXCEPT ![u] = @ + 1]
         /\ phase' = [phase EXCEPT ![u] = "probing"]
    ELSE /\ phase' = [phase EXCEPT ![u] = "failed"]
         /\ UNCHANGED at

\* Mutant of NextAddress: the same address again.
SameAddress(u) ==
    /\ phase' = [phase EXCEPT ![u] = IF at[u] < Addresses THEN "probing" ELSE "failed"]
    /\ UNCHANGED at

\* The next address, or ConnectionError after the last one.
NextAddress(u) ==
    IF at[u] < Addresses
    THEN /\ at' = [at EXCEPT ![u] = @ + 1]
         /\ phase' = [phase EXCEPT ![u] = "probing"]
    ELSE /\ phase' = [phase EXCEPT ![u] = "failed"]
         /\ UNCHANGED at

\* _reachable: any answer will do.
Unreachable(u) ==
    /\ phase[u] = "probing"
    /\ NextAddress(u)
    /\ UNCHANGED <<open, tools>>

Reachable(u) ==
    /\ phase[u] = "probing"
    /\ phase' = [phase EXCEPT ![u] = "opening"]
    /\ open' = [open EXCEPT ![u] = TRUE]
    /\ UNCHANGED <<at, tools>>

Connected(u, listed) ==
    /\ phase[u] = "opening"
    /\ ~Conflict(listed)
    /\ phase' = [phase EXCEPT ![u] = "connected"]
    /\ tools' = [tools EXCEPT ![u] = listed]
    /\ UNCHANGED <<at, open>>

\* Mutant of ConnectFails: the resources stay open.
ConnectFailsOpen(u) ==
    /\ phase[u] = "opening"
    /\ NextAddress(u)
    /\ UNCHANGED <<open, tools>>

\* The handshake, the list of tools or a conflict raises, or a timeout strikes.
ConnectFails(u) ==
    /\ phase[u] = "opening"
    /\ open' = [open EXCEPT ![u] = FALSE]
    /\ NextAddress(u)
    /\ UNCHANGED <<tools>>

\* close, when the manager's block is left, by an exception too.
Close(u) ==
    /\ phase[u] = "closing"
    /\ phase' = [phase EXCEPT ![u] = "done"]
    /\ open' = [open EXCEPT ![u] = FALSE]
    /\ tools' = [tools EXCEPT ![u] = {}]
    /\ UNCHANGED <<at>>

Connecting(u) ==
    \/ Unreachable(u) \/ Reachable(u) \/ ConnectFails(u) \/ Close(u)
    \/ \E listed \in SUBSET ServerTool : Connected(u, listed)

Ended(u) == phase[u] \in {"done", "failed"}
=============================================================================
