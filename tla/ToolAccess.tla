----------------------------- MODULE ToolAccess -----------------------------
(***************************************************************************)
(* Which tools a turn offers to the model and which of its calls run       *)
(* (tools/registry.py, tools/dispatcher.py, loop.py, subagent/index.py,    *)
(* agent.py), while the discovery of MCP tools is still under way.         *)
(*                                                                         *)
(* A turn belongs to the CLI, to the queue processor of cron, or to an     *)
(* Agent of the SDK, which has tools of its own and may have a list of     *)
(* allowed names.  The arguments, the results and the handlers of built-in *)
(* and custom tools are left out.                                          *)
(***************************************************************************)
EXTENDS McpClient

CONSTANTS
    Builtin,        \* names of the built-in tools
    ForSubagent,    \* those with allow_subagent
    Subagent,       \* the one that starts a subagent
    CustomName      \* names an Agent's own tools can have

ASSUME AccessAssumption ==
    ForSubagent \subseteq Builtin /\ Subagent \in Builtin \ ForSubagent

ToolName == Builtin \cup CustomName \cup ExposedNames(ServerTool)
Source == {"custom", "mcp", "builtin"}
Definition == [name : ToolName, source : Source]
NoTool == [name |-> Subagent, source |-> "none"]
Nothing == [definition |-> NoTool, scope |-> "main"]

VARIABLES
    dynamic,        \* _DYNAMIC_TOOLS_BY_NAME
    custom,         \* Agent._custom_tools
    limited,        \* Agent._allowed_tool_names is not None
    allowed,        \* Agent._allowed_tool_names
    kind,           \* whose turn it is
    pc,             \* where it is
    late,           \* its wait for the discovery has timed out
    offered,        \* the tools of the last request
    call,           \* the tool the model calls
    outcome,        \* of the last dispatch since the last request
    ran             \* the definition that ran last since then, and its scope

agentVars == <<custom, limited, allowed>>
roundVars == <<offered, call, outcome, ran>>
turnVars == <<kind, pc, late, roundVars>>
vars == <<mcpVars, dynamic, agentVars, turnVars>>

Outcome == {"none", "not allowed", "blocked", "unknown", "invalid", "ran", "failed"}

TypeOK ==
    /\ McpTypeOK
    /\ dynamic \subseteq ExposedNames(ServerTool)
    /\ custom \subseteq CustomName /\ limited \in BOOLEAN /\ allowed \subseteq ToolName
    /\ kind \in {"cli", "cron", "agent"}
    /\ pc \in {"idle", "waiting", "round", "answering", "dispatching", "mcp",
               "subagent"}
    /\ late \in BOOLEAN
    /\ offered \subseteq Definition
    /\ call \in ToolName
    /\ outcome \in Outcome
    /\ ran.definition \in Definition \cup {NoTool} /\ ran.scope \in {"main", "subagent"}

Init ==
    /\ McpInit
    /\ dynamic = {} /\ custom = {} /\ limited = FALSE /\ allowed = {}
    /\ kind = "cli" /\ pc = "idle" /\ late = FALSE
    /\ offered = {} /\ call = Subagent /\ outcome = "none"
    /\ ran = Nothing

-----------------------------------------------------------------------------
(***************************************************************************)
(* Discovery.                                                              *)
(***************************************************************************)
\* register_dynamic_tools: all of them, unless one has the name of a built-in
\* tool.  The manager is closed only afterwards.
RegisterDynamicTools ==
    /\ phase["discovery"] = "connected"
    /\ phase' = [phase EXCEPT !["discovery"] = "closing"]
    /\ LET names == ExposedNames(tools["discovery"])
       IN  dynamic' = IF names \cap Builtin = {} THEN dynamic \cup names ELSE dynamic
    /\ UNCHANGED <<at, open, tools, agentVars, turnVars>>

-----------------------------------------------------------------------------
(***************************************************************************)
(* An Agent of the SDK, between its runs.                                  *)
(***************************************************************************)
\* A new Agent, with a list of tools or without.
NewAgent(withTools) ==
    /\ pc = "idle"
    /\ limited' = withTools /\ allowed' = {} /\ custom' = {}
    /\ UNCHANGED <<mcpVars, dynamic, turnVars>>

\* register_tool with a name: the first one makes the list.
AllowTool(n) ==
    /\ pc = "idle"
    /\ limited' = TRUE /\ allowed' = allowed \cup {n}
    /\ UNCHANGED <<mcpVars, dynamic, custom, turnVars>>

\* register_tool with a tool.
AddTool(n) ==
    /\ pc = "idle"
    /\ custom' = custom \cup {n}
    /\ allowed' = IF limited THEN allowed \cup {n} ELSE allowed
    /\ UNCHANGED <<mcpVars, dynamic, limited, turnVars>>

-----------------------------------------------------------------------------
(***************************************************************************)
(* A turn.                                                                 *)
(***************************************************************************)
\* run_agent_turn_locked, which the CLI and the queue processor call.
Waits == {"cli", "cron"}

\* Mutant of StartTurn: nobody waits.
StartTurnAtOnce(k) ==
    /\ pc = "idle"
    /\ kind' = k /\ late' = FALSE
    /\ pc' = "round"
    /\ UNCHANGED <<mcpVars, dynamic, agentVars, roundVars>>

\* The turns of the program wait for the discovery, an Agent of the SDK does not.
StartTurn(k) ==
    /\ pc = "idle"
    /\ kind' = k /\ late' = FALSE
    /\ pc' = IF k \in Waits THEN "waiting" ELSE "round"
    /\ UNCHANGED <<mcpVars, dynamic, agentVars, roundVars>>

\* wait_for_mcp_init; without a discovery there is nothing to wait for.
WaitEnds ==
    /\ pc = "waiting" /\ (Ended("discovery") \/ phase["discovery"] = "off")
    /\ pc' = "round"
    /\ UNCHANGED <<mcpVars, dynamic, agentVars, kind, late, roundVars>>

\* The 15 seconds are over; the discovery goes on behind the turn's back.
WaitTimesOut ==
    /\ pc = "waiting"
    /\ pc' = "round" /\ late' = TRUE
    /\ UNCHANGED <<mcpVars, dynamic, agentVars, kind, roundVars>>

Own == IF kind = "agent" THEN custom ELSE {}
Limited == kind = "agent" /\ limited
Allowed(n) == Limited => n \in allowed

Definitions(names, source) == {[name |-> n, source |-> source] : n \in names}

\* Mutant of Offer: the list of allowed names is not asked about own tools.
OfferAllOwn ==
    {d \in Definitions(Builtin, "builtin") \cup Definitions(dynamic, "mcp") :
        Allowed(d.name)} \cup Definitions(Own, "custom")

\* get_tool_schemas and the custom tools behind them.
Offer ==
    {d \in Definitions(Builtin, "builtin") \cup Definitions(dynamic, "mcp")
           \cup Definitions(Own, "custom") : Allowed(d.name)}

Ask ==
    /\ pc = "round"
    /\ offered' = Offer
    /\ pc' = "answering"
    /\ UNCHANGED <<mcpVars, dynamic, agentVars, kind, late, call, outcome, ran>>

\* The model may call any tool, offered or not, and several in one response.
Call(n) ==
    /\ pc = "answering"
    /\ call' = n
    /\ pc' = "dispatching"
    /\ UNCHANGED <<mcpVars, dynamic, agentVars, kind, late, offered, outcome, ran>>

Forget == offered' = {} /\ call' = Subagent /\ outcome' = "none" /\ ran' = Nothing

NextRound ==
    /\ pc = "answering"
    /\ pc' = "round" /\ Forget
    /\ UNCHANGED <<mcpVars, dynamic, agentVars, kind, late>>

EndTurn ==
    /\ pc \in {"round", "answering"}
    /\ pc' = "idle" /\ Forget
    /\ UNCHANGED <<mcpVars, dynamic, agentVars, kind, late>>

\* dispatch_tool_result and get_tool: the source of the tool that runs.
Found(n, own) ==
    IF n \in own THEN {"custom"}
    ELSE IF n \in dynamic THEN {"mcp"}
    ELSE IF n \in Builtin THEN {"builtin"} ELSE {}

\* Refused by the list, by a hook, as unknown, or for its arguments.
Refuse ==
    /\ pc = "dispatching"
    /\ outcome' \in IF ~Allowed(call) THEN {"not allowed"}
                    ELSE {"blocked"} \cup
                         IF Found(call, Own) = {} THEN {"unknown"} ELSE {"invalid"}
    /\ pc' = "answering"
    /\ UNCHANGED <<mcpVars, dynamic, agentVars, kind, late, offered, call, ran>>

RunTool ==
    /\ pc = "dispatching" /\ Allowed(call)
    /\ \E source \in Found(call, Own) :
          /\ ran' = [definition |-> [name |-> call, source |-> source], scope |-> "main"]
          /\ IF source = "mcp" THEN Begin("call") ELSE UNCHANGED mcpVars
          /\ pc' = CASE source = "mcp" -> "mcp"
                     [] source = "builtin" /\ call = Subagent -> "subagent"
                     [] OTHER -> "answering"
    /\ outcome' = "ran"
    /\ UNCHANGED <<dynamic, agentVars, kind, late, offered, call>>

\* _call_tool_once: the tool is called, or the server does not know it any more.
CallServer ==
    /\ pc = "mcp" /\ phase["call"] = "connected"
    /\ phase' = [phase EXCEPT !["call"] = "closing"]
    /\ outcome' = IF call \in ExposedNames(tools["call"]) THEN "ran" ELSE "failed"
    /\ UNCHANGED <<at, open, tools, dynamic, agentVars, kind, pc, late,
                   offered, call, ran>>

\* The handler returns, or raises when no address could be connected.
McpCallEnds ==
    /\ pc = "mcp" /\ Ended("call")
    /\ pc' = "answering"
    /\ outcome' = IF phase["call"] = "failed" THEN "failed" ELSE outcome
    /\ UNCHANGED <<mcpVars, dynamic, agentVars, kind, late, offered, call, ran>>

\* dispatch_tool_result in the scope of a subagent.
MayRun(n) == Found(n, {}) = {"builtin"} /\ n \in ForSubagent

\* spawn_subagent: a call in its loop that runs, and its end.
SubagentCall(n) ==
    /\ pc = "subagent" /\ MayRun(n)
    /\ \E source \in Found(n, {}) :
          ran' = [definition |-> [name |-> n, source |-> source], scope |-> "subagent"]
    /\ UNCHANGED <<mcpVars, dynamic, agentVars, kind, pc, late, offered, call, outcome>>

SubagentEnds ==
    /\ pc = "subagent"
    /\ pc' = "answering"
    /\ UNCHANGED <<mcpVars, dynamic, agentVars, kind, late, roundVars>>

Outside == UNCHANGED <<dynamic, agentVars, turnVars>>

TurnStep ==
    \/ WaitEnds \/ WaitTimesOut \/ Ask \/ NextRound \/ EndTurn
    \/ \E n \in ToolName : Call(n) \/ SubagentCall(n)
    \/ Refuse \/ RunTool \/ CallServer \/ McpCallEnds \/ SubagentEnds

Next ==
    \/ RegisterDynamicTools
    \/ \E u \in Use : Connecting(u) /\ Outside
    \/ \E withTools \in BOOLEAN : NewAgent(withTools)
    \/ \E n \in ToolName : AllowTool(n)
    \/ \E n \in CustomName : AddTool(n)
    \/ \E k \in {"cli", "cron", "agent"} : StartTurn(k)
    \/ TurnStep

\* Whatever the servers do, every attempt ends: a probe has 2 seconds, the
\* handshake, the list and a call have the session's 60 (connect), and the thread
\* that waits for them runs on.  The 15 seconds of a turn's wait are not needed.
Fairness ==
    /\ \A u \in Use : WF_vars(Connecting(u) /\ Outside)
    /\ WF_vars(RegisterDynamicTools) /\ WF_vars(CallServer)
    /\ WF_vars(WaitEnds) /\ WF_vars(McpCallEnds)

Spec == Init /\ [][Next]_vars /\ Fairness

-----------------------------------------------------------------------------
(***************************************************************************)
(* Properties.                                                             *)
(***************************************************************************)
\* What a turn has offered it lets the model use, whatever was registered since:
\* a call of an offered tool is not refused by the list of allowed names and not
\* answered with "not found", and the definition that runs (also when its server
\* then fails) is the one that was offered, an Agent's own tool before a built-in
\* one of that name (get_tool_schemas, get_tool and dispatch_tool_result).
OfferHolds ==
    pc = "answering" =>
        LET sources == {d.source : d \in {e \in offered : e.name = call}}
        IN  /\ outcome \in {"not allowed", "unknown"} => sources = {}
            /\ outcome \in {"ran", "failed"} /\ ran.scope = "main" /\ sources # {} =>
                   /\ ran.definition.source \in sources
                   /\ "custom" \in sources => ran.definition.source = "custom"

\* No connection is left open: neither by a discovery that failed half-way at one
\* address and went on to the next, nor by a call that raised (connect, close).
ConnectionsClosed ==
    /\ \A u \in Use : open[u] => phase[u] \in {"opening", "connected", "closing"}
    /\ open["call"] => pc = "mcp"

\* A turn of the program, of the CLI or of cron, that did not lose patience offers
\* every tool discovered, from its first request on (run_agent_turn_locked waits;
\* the tools are registered before the discovery ends).
DiscoveredIsOffered ==
    kind \in Waits /\ pc = "answering" /\ ~late =>
        Definitions(dynamic, "mcp") \subseteq offered

\* Servers that accept connections and break them, refuse the handshake or list
\* clashing names, again and again, do not keep a turn for ever: neither the wait
\* for the discovery nor the call of a tool, even if the wait had no timeout
\* (connect goes through the addresses once; mcp_init and _call_tool_once end).
TurnGoesOn == pc \in {"waiting", "mcp"} ~> pc \notin {"waiting", "mcp"}
=============================================================================
