-------------------------- MODULE ToolAccessProofs --------------------------
(***************************************************************************)
(* Proofs about ToolAccess, for any tools, any addresses and any lists of  *)
(* allowed names: the types, what an offer is worth, and that connections  *)
(* are closed.                                                             *)
(***************************************************************************)
EXTENDS ToolAccess, TLAPS

\* The steps that touch one connection and nothing else.
LEMMA NextAddressTypes ==
    ASSUME McpTypeOK, NEW u \in Use, NextAddress(u)
    PROVE  phase' \in [Use -> Phase] /\ at' \in [Use -> 1..Addresses]
<1>1. CASE at[u] < Addresses
    <2>1. at[u] \in 1..Addresses
        BY DEF McpTypeOK
    <2>2. at[u] + 1 \in 1..Addresses
        BY <1>1, <2>1, McpAssumption
    <2> QED
        BY <1>1, <2>2 DEF NextAddress, McpTypeOK, Phase
<1>2. CASE ~(at[u] < Addresses)
    BY <1>2 DEF NextAddress, McpTypeOK, Phase
<1> QED
    BY <1>1, <1>2

LEMMA ConnectingTypes ==
    ASSUME McpTypeOK, NEW u \in Use, Connecting(u)
    PROVE  McpTypeOK'
<1>1. CASE Unreachable(u)
    BY <1>1, NextAddressTypes DEF Unreachable, McpTypeOK
<1>2. CASE Reachable(u)
    BY <1>2 DEF Reachable, McpTypeOK, Phase
<1>3. CASE ConnectFails(u)
    BY <1>3, NextAddressTypes DEF ConnectFails, McpTypeOK
<1>4. CASE Close(u)
    BY <1>4 DEF Close, McpTypeOK, Phase
<1>5. CASE \E listed \in SUBSET ServerTool : Connected(u, listed)
    BY <1>5 DEF Connected, McpTypeOK, Phase
<1> QED
    BY <1>1, <1>2, <1>3, <1>4, <1>5 DEF Connecting

LEMMA BeginTypes ==
    ASSUME McpTypeOK, NEW u \in Use, Begin(u)
    PROVE  McpTypeOK'
<1>1. 1 \in 1..Addresses
    BY McpAssumption
<1> QED
    BY <1>1 DEF Begin, McpTypeOK, Phase

\* The names a server's tools are known by are names of tools.
LEMMA ExposedMonotone ==
    ASSUME NEW s \in SUBSET ServerTool
    PROVE  ExposedNames(s) \subseteq ExposedNames(ServerTool)
BY DEF ExposedNames

LEMMA FoundTypes ==
    ASSUME NEW n, NEW own
    PROVE  Found(n, own) \subseteq Source
BY DEF Found, Source

-----------------------------------------------------------------------------
(***************************************************************************)
(* Types.                                                                  *)
(***************************************************************************)
LEMMA OfferTypes ==
    ASSUME TypeOK
    PROVE  Offer \subseteq Definition
<1>1. Own \subseteq ToolName
    BY DEF Own, TypeOK, ToolName
<1>2. Builtin \subseteq ToolName /\ dynamic \subseteq ToolName
    BY DEF TypeOK, ToolName
<1> QED
    BY <1>1, <1>2 DEF Offer, Definitions, Definition, Source

LEMMA TypeStep ==
    ASSUME TypeOK, [Next]_vars
    PROVE  TypeOK'
<1> USE DEF TypeOK, agentVars, roundVars, turnVars, Outside
<1>1. CASE RegisterDynamicTools
    <2>1. tools["discovery"] \subseteq ServerTool
        BY DEF McpTypeOK, Use
    <2>2. dynamic' \subseteq ExposedNames(ServerTool)
        BY <1>1, <2>1, ExposedMonotone DEF RegisterDynamicTools
    <2>3. McpTypeOK'
        BY <1>1 DEF RegisterDynamicTools, McpTypeOK, Phase
    <2> QED
        BY <1>1, <2>2, <2>3 DEF RegisterDynamicTools
<1>2. ASSUME NEW u \in Use, Connecting(u), Outside
      PROVE  TypeOK'
    BY <1>2, ConnectingTypes
<1>3. ASSUME NEW withTools \in BOOLEAN, NewAgent(withTools)
      PROVE  TypeOK'
    BY <1>3 DEF NewAgent, mcpVars, McpTypeOK
<1>4. ASSUME NEW n \in ToolName, AllowTool(n)
      PROVE  TypeOK'
    BY <1>4 DEF AllowTool, mcpVars, McpTypeOK
<1>5. ASSUME NEW n \in CustomName, AddTool(n)
      PROVE  TypeOK'
    BY <1>5 DEF AddTool, mcpVars, McpTypeOK, ToolName
<1>6. ASSUME NEW k \in {"cli", "cron", "agent"}, StartTurn(k)
      PROVE  TypeOK'
    BY <1>6 DEF StartTurn, mcpVars, McpTypeOK
<1>7. CASE WaitEnds
    BY <1>7 DEF WaitEnds, mcpVars, McpTypeOK
<1>8. CASE WaitTimesOut
    BY <1>8 DEF WaitTimesOut, mcpVars, McpTypeOK
<1>9. CASE Ask
    BY <1>9, OfferTypes DEF Ask, mcpVars, McpTypeOK
<1>10. CASE NextRound \/ EndTurn \/ SubagentEnds \/ McpCallEnds
    <2>1. Subagent \in ToolName
        BY AccessAssumption DEF ToolName
    <2>2. CASE NextRound \/ EndTurn
        <3>1. ran' = Nothing /\ ran'.definition = NoTool /\ ran'.scope = "main"
            BY <2>2 DEF NextRound, EndTurn, Forget, Nothing
        <3> QED
            BY <2>1, <2>2, <3>1 DEF NextRound, EndTurn, Forget, Outcome, mcpVars, McpTypeOK
    <2>3. CASE SubagentEnds
        BY <2>3 DEF SubagentEnds, mcpVars, McpTypeOK
    <2>4. CASE McpCallEnds
        BY <2>4 DEF McpCallEnds, Outcome, mcpVars, McpTypeOK
    <2> QED
        BY <1>10, <2>2, <2>3, <2>4
<1>11. ASSUME NEW n \in ToolName, Call(n)
       PROVE  TypeOK'
    BY <1>11 DEF Call, mcpVars, McpTypeOK
<1>12. ASSUME NEW n \in ToolName, SubagentCall(n)
       PROVE  TypeOK'
    BY <1>12, FoundTypes DEF SubagentCall, mcpVars, McpTypeOK, Definition
<1>13. CASE Refuse
    BY <1>13 DEF Refuse, mcpVars, McpTypeOK, Outcome
<1>14. CASE RunTool
    <2>1. McpTypeOK'
        BY <1>14, BeginTypes DEF RunTool, mcpVars, McpTypeOK, Use
    <2>2. ran'.definition \in Definition /\ ran'.scope = "main"
        BY <1>14, FoundTypes DEF RunTool, Definition
    <2> QED
        BY <1>14, <2>1, <2>2 DEF RunTool, Outcome
<1>15. CASE CallServer
    BY <1>15 DEF CallServer, McpTypeOK, Phase, Outcome
<1>16. CASE UNCHANGED vars
    BY <1>16 DEF vars, mcpVars, McpTypeOK
<1> QED
    BY <1>1, <1>2, <1>3, <1>4, <1>5, <1>6, <1>7, <1>8, <1>9, <1>10, <1>11, <1>12,
       <1>13, <1>14, <1>15, <1>16 DEF Next, TurnStep

LEMMA TypeInit == Init => TypeOK
<1> SUFFICES ASSUME Init PROVE TypeOK
    OBVIOUS
<1>1. 1 \in 1..Addresses
    BY McpAssumption
<1>2. McpTypeOK
    BY <1>1 DEF Init, McpInit, McpTypeOK, Phase, Use
<1>3. Subagent \in ToolName
    BY AccessAssumption DEF ToolName
<1> QED
    BY <1>2, <1>3 DEF Init, TypeOK, Outcome, Nothing

\* Every variable of the tool system keeps its type, for any tools and addresses.
THEOREM TypeCorrect == Spec => []TypeOK
<1>1. Init => TypeOK
    BY TypeInit
<1>2. TypeOK /\ [Next]_vars => TypeOK'
    BY TypeStep
<1> QED
    BY <1>1, <1>2, PTL DEF Spec

-----------------------------------------------------------------------------
(***************************************************************************)
(* Connections.  ConnectionsClosed needs that a call's manager is at work  *)
(* only while the turn waits for it.                                       *)
(***************************************************************************)
CallInside == phase["call"] \in {"off", "done", "failed"} \/ pc = "mcp"

ConnectionInv == TypeOK /\ CallInside /\ ConnectionsClosed

LEMMA ConnectingCloses ==
    ASSUME ConnectionInv, NEW u \in Use, Connecting(u), Outside
    PROVE  ConnectionsClosed' /\ CallInside'
<1> USE DEF ConnectionInv, ConnectionsClosed, CallInside, TypeOK, McpTypeOK, Outside,
            roundVars, turnVars, Use
<1>1. CASE Unreachable(u)
    BY <1>1 DEF Unreachable, NextAddress
<1>2. CASE Reachable(u)
    BY <1>2 DEF Reachable
<1>3. CASE ConnectFails(u)
    BY <1>3 DEF ConnectFails, NextAddress
<1>4. CASE Close(u)
    BY <1>4 DEF Close
<1>5. CASE \E listed \in SUBSET ServerTool : Connected(u, listed)
    BY <1>5 DEF Connected
<1> QED
    BY <1>1, <1>2, <1>3, <1>4, <1>5 DEF Connecting

LEMMA ConnectionStep ==
    ASSUME ConnectionInv, [Next]_vars
    PROVE  ConnectionInv'
<1>1. TypeOK'
    BY TypeStep DEF ConnectionInv
<1> SUFFICES ConnectionsClosed' /\ CallInside'
    BY <1>1 DEF ConnectionInv
<1>2. ASSUME UNCHANGED mcpVars, pc = "mcp" => pc' = "mcp"
      PROVE  ConnectionsClosed' /\ CallInside'
    BY <1>2 DEF ConnectionInv, ConnectionsClosed, CallInside, mcpVars
<1>3. CASE RegisterDynamicTools
    BY <1>3 DEF RegisterDynamicTools, turnVars, ConnectionInv, ConnectionsClosed,
                CallInside, TypeOK, McpTypeOK, Use
<1>4. ASSUME NEW u \in Use, Connecting(u), Outside
      PROVE  ConnectionsClosed' /\ CallInside'
    BY <1>4, ConnectingCloses
<1>5. CASE \/ \E withTools \in BOOLEAN : NewAgent(withTools)
           \/ \E n \in ToolName : AllowTool(n)
           \/ \E n \in CustomName : AddTool(n)
           \/ \E k \in {"cli", "cron", "agent"} : StartTurn(k)
           \/ UNCHANGED vars
    BY <1>2, <1>5 DEF NewAgent, AllowTool, AddTool, StartTurn, vars, roundVars, turnVars
<1>6. CASE \/ WaitEnds \/ WaitTimesOut \/ Ask \/ NextRound \/ EndTurn
           \/ \E n \in ToolName : Call(n) \/ SubagentCall(n)
           \/ Refuse \/ SubagentEnds
    BY <1>2, <1>6 DEF WaitEnds, WaitTimesOut, Ask, NextRound, EndTurn, Call,
                      SubagentCall, Refuse, SubagentEnds
<1>7. CASE RunTool
    <2>1. PICK source \in Found(call, Own) :
              /\ IF source = "mcp" THEN Begin("call") ELSE UNCHANGED mcpVars
              /\ pc' = CASE source = "mcp" -> "mcp"
                         [] source = "builtin" /\ call = Subagent -> "subagent"
                         [] OTHER -> "answering"
        BY <1>7 DEF RunTool
    <2>2. CASE source = "mcp"
        BY <1>7, <2>1, <2>2 DEF RunTool, Begin, ConnectionInv, ConnectionsClosed,
                                CallInside, TypeOK, McpTypeOK, Use
    <2>3. CASE source # "mcp"
        BY <1>2, <1>7, <2>1, <2>3 DEF RunTool
    <2> QED
        BY <2>2, <2>3
<1>8. CASE CallServer
    BY <1>8 DEF CallServer, ConnectionInv, ConnectionsClosed, CallInside, TypeOK,
                McpTypeOK, Use
<1>9. CASE McpCallEnds
    BY <1>9 DEF McpCallEnds, mcpVars, Ended, ConnectionInv, ConnectionsClosed,
                CallInside, TypeOK, McpTypeOK, Use
<1> QED
    BY <1>3, <1>4, <1>5, <1>6, <1>7, <1>8, <1>9 DEF Next, TurnStep

LEMMA ConnectionStart == Init => ConnectionInv
BY TypeInit DEF Init, McpInit, ConnectionInv, ConnectionsClosed, CallInside, Use

\* No connection is left open, however a discovery or a call ends.
THEOREM ConnectionsAreClosed == Spec => []ConnectionsClosed
<1>1. Init => ConnectionInv
    BY ConnectionStart
<1>2. ConnectionInv /\ [Next]_vars => ConnectionInv'
    BY ConnectionStep
<1>3. ConnectionInv => ConnectionsClosed
    BY DEF ConnectionInv
<1> QED
    BY <1>1, <1>2, <1>3, PTL DEF Spec

-----------------------------------------------------------------------------
(***************************************************************************)
(* Offers.  What a turn has offered is known as long as it runs: only the  *)
(* dynamic tools may grow, and never by the name of a built-in one.  The   *)
(* rest of OfferInv says of the last dispatch what OfferHolds says of it   *)
(* when the model sees its result.                                         *)
(***************************************************************************)
InTurn == pc \in {"answering", "dispatching", "mcp", "subagent"}

OfferKnown ==
    /\ \A d \in offered :
          /\ Allowed(d.name)
          /\ d.source = "custom" => d.name \in Own
          /\ d.source = "mcp" => d.name \in dynamic
          /\ d.source = "builtin" => d.name \in Builtin
    /\ \A n \in Own : Allowed(n) => [name |-> n, source |-> "custom"] \in offered

Sources(n) == {d.source : d \in {e \in offered : e.name = n}}

RanAsOffered ==
    ran.scope = "main" /\ Sources(call) # {} =>
        /\ ran.definition.source \in Sources(call)
        /\ "custom" \in Sources(call) => ran.definition.source = "custom"

Sound ==
    /\ outcome \in {"not allowed", "unknown"} => Sources(call) = {}
    /\ outcome \in {"ran", "failed"} => RanAsOffered

OfferInv ==
    /\ TypeOK
    /\ dynamic \cap Builtin = {}
    /\ InTurn => OfferKnown
    /\ pc \in {"answering", "mcp", "subagent"} => Sound
    /\ pc = "mcp" => RanAsOffered
    /\ pc \in {"idle", "waiting", "round"} => outcome = "none"

LEMMA OfferIsKnown ==
    ASSUME TypeOK, Ask
    PROVE  OfferKnown'
<1>1. offered' = Offer /\ UNCHANGED <<dynamic, agentVars, kind>>
    BY DEF Ask
<1>2. Own' = Own /\ \A n : Allowed(n)' = Allowed(n)
    BY <1>1 DEF Own, Allowed, Limited, agentVars
<1>3. ASSUME NEW d \in Offer
      PROVE  /\ Allowed(d.name)
             /\ d.source = "custom" => d.name \in Own
             /\ d.source = "mcp" => d.name \in dynamic
             /\ d.source = "builtin" => d.name \in Builtin
    BY <1>3 DEF Offer, Definitions
<1>4. ASSUME NEW n \in Own, Allowed(n)
      PROVE  [name |-> n, source |-> "custom"] \in Offer
    BY <1>4 DEF Offer, Definitions
<1>5. \A d \in offered' :
          /\ Allowed(d.name)'
          /\ d.source = "custom" => d.name \in Own'
          /\ d.source = "mcp" => d.name \in dynamic'
          /\ d.source = "builtin" => d.name \in Builtin
    BY <1>1, <1>2, <1>3
<1>6. \A n \in Own' : Allowed(n)' => [name |-> n, source |-> "custom"] \in offered'
    BY <1>1, <1>2, <1>4
<1> QED
    BY <1>5, <1>6 DEF OfferKnown

LEMMA StillKnown ==
    ASSUME OfferKnown, UNCHANGED <<offered, agentVars, kind>>, dynamic \subseteq dynamic'
    PROVE  OfferKnown'
BY DEF OfferKnown, Own, Allowed, Limited, agentVars

LEMMA StillSound ==
    ASSUME UNCHANGED <<offered, call, outcome, ran>>
    PROVE  (Sound => Sound') /\ (RanAsOffered => RanAsOffered')
BY DEF Sound, RanAsOffered, Sources

\* A call that runs runs the definition that was offered.
LEMMA RunsAsOffered ==
    ASSUME OfferInv, RunTool
    PROVE  Sound' /\ RanAsOffered'
<1>1. PICK source \in Found(call, Own) :
          ran' = [definition |-> [name |-> call, source |-> source], scope |-> "main"]
    BY DEF RunTool
<1>2. /\ ran'.definition.source = source
      /\ outcome' = "ran"
      /\ Allowed(call)
      /\ Sources(call)' = Sources(call)
    BY <1>1 DEF RunTool, Sources
<1>3. OfferKnown /\ dynamic \cap Builtin = {}
    BY DEF OfferInv, InTurn, RunTool
<1>4. /\ "custom" \in Sources(call) => call \in Own
      /\ "mcp" \in Sources(call) => call \in dynamic
      /\ "builtin" \in Sources(call) => call \in Builtin
      /\ Sources(call) \subseteq {"custom", "mcp", "builtin"}
    BY <1>3 DEF OfferKnown, Sources, OfferInv, TypeOK, Definition, Source
<1>5. call \in Own => "custom" \in Sources(call)
    <2> SUFFICES ASSUME call \in Own PROVE "custom" \in Sources(call)
        OBVIOUS
    <2>1. [name |-> call, source |-> "custom"] \in offered
        BY <1>2, <1>3 DEF OfferKnown
    <2> QED
        BY <2>1 DEF Sources
<1>6. Sources(call) # {} =>
          source \in Sources(call) /\ ("custom" \in Sources(call) => source = "custom")
    BY <1>1, <1>3, <1>4, <1>5 DEF Found
<1> QED
    BY <1>2, <1>6 DEF Sound, RanAsOffered

LEMMA OfferStep ==
    ASSUME OfferInv, [Next]_vars
    PROVE  OfferInv'
<1> USE DEF OfferInv, InTurn, TypeOK, Outside, roundVars, turnVars
<1>1. TypeOK'
    BY TypeStep
<1> SUFFICES /\ (dynamic \cap Builtin = {})'
             /\ (InTurn => OfferKnown)'
             /\ (pc \in {"answering", "mcp", "subagent"} => Sound)'
             /\ (pc = "mcp" => RanAsOffered)'
             /\ (pc \in {"idle", "waiting", "round"} => outcome = "none")'
    BY <1>1
<1>2. CASE RegisterDynamicTools
    <2>1. dynamic \subseteq dynamic' /\ dynamic' \cap Builtin = {}
        BY <1>2 DEF RegisterDynamicTools
    <2> QED
        BY <1>2, <2>1, StillKnown, StillSound DEF RegisterDynamicTools
<1>3. ASSUME NEW u \in Use, Connecting(u), Outside
      PROVE  /\ (dynamic \cap Builtin = {})'
             /\ (InTurn => OfferKnown)'
             /\ (pc \in {"answering", "mcp", "subagent"} => Sound)'
             /\ (pc = "mcp" => RanAsOffered)'
             /\ (pc \in {"idle", "waiting", "round"} => outcome = "none")'
    BY <1>3, StillKnown, StillSound
<1>4. CASE \/ \E withTools \in BOOLEAN : NewAgent(withTools)
           \/ \E n \in ToolName : AllowTool(n)
           \/ \E n \in CustomName : AddTool(n)
           \/ \E k \in {"cli", "cron", "agent"} : StartTurn(k)
           \/ WaitEnds \/ WaitTimesOut
    BY <1>4 DEF NewAgent, AllowTool, AddTool, StartTurn, WaitEnds, WaitTimesOut
<1>5. CASE Ask
    <2>1. Sound'
        BY <1>5 DEF Ask, Sound
    <2> QED
        BY <1>5, <2>1, OfferIsKnown DEF Ask
<1>6. CASE NextRound \/ EndTurn
    BY <1>6 DEF NextRound, EndTurn, Forget
<1>7. CASE SubagentEnds
    BY <1>7, StillKnown, StillSound DEF SubagentEnds
<1>14. CASE McpCallEnds
    <2>1. UNCHANGED <<offered, call, ran>> /\ outcome' \in {outcome, "failed"}
        BY <1>14 DEF McpCallEnds
    <2>2. Sources(call)' = Sources(call)
        BY <2>1 DEF Sources
    <2>3. Sound'
        BY <1>14, <2>1, <2>2 DEF McpCallEnds, Sound, RanAsOffered
    <2> QED
        BY <1>14, <2>3, StillKnown DEF McpCallEnds
<1>8. CASE \E n \in ToolName : Call(n)
    BY <1>8, StillKnown DEF Call
<1>9. CASE \E n \in ToolName : SubagentCall(n)
    <2>1. UNCHANGED <<offered, call, outcome>> /\ ran'.scope = "subagent"
        BY <1>9 DEF SubagentCall
    <2>2. Sources(call)' = Sources(call)
        BY <2>1 DEF Sources
    <2>3. Sound'
        BY <1>9, <2>1, <2>2 DEF SubagentCall, Sound, RanAsOffered
    <2> QED
        BY <1>9, <2>3, StillKnown DEF SubagentCall
<1>10. CASE Refuse
    <2>1. Sources(call)' = Sources(call)
        BY <1>10 DEF Refuse, Sources
    <2>2. OfferKnown /\ outcome' \notin {"ran", "failed"}
        BY <1>10 DEF Refuse
    <2>3. /\ outcome' = "not allowed" => ~Allowed(call)
          /\ outcome' = "unknown" => Found(call, Own) = {}
        BY <1>10 DEF Refuse
    <2>4. Found(call, Own) = {} => call \notin Own /\ call \notin dynamic /\ call \notin Builtin
        BY DEF Found
    <2>5. ASSUME outcome' \in {"not allowed", "unknown"}, NEW d \in offered, d.name = call
          PROVE  FALSE
        BY <2>2, <2>3, <2>4, <2>5 DEF OfferKnown, Definition, Source
    <2>6. Sound'
        BY <2>1, <2>2, <2>5 DEF Sound, Sources
    <2> QED
        BY <1>10, <2>6, StillKnown DEF Refuse
<1>11. CASE RunTool
    BY <1>11, RunsAsOffered, StillKnown DEF RunTool
<1>12. CASE CallServer
    <2>1. UNCHANGED <<offered, call, ran>> /\ outcome' \in {"ran", "failed"}
        BY <1>12 DEF CallServer
    <2>2. Sources(call)' = Sources(call)
        BY <2>1 DEF Sources
    <2>3. RanAsOffered'
        BY <1>12, <2>1, <2>2 DEF CallServer, RanAsOffered
    <2>4. Sound'
        BY <2>1, <2>3 DEF Sound
    <2> QED
        BY <1>12, <2>3, <2>4, StillKnown DEF CallServer
<1>13. CASE UNCHANGED vars
    BY <1>13, StillKnown, StillSound DEF vars
<1> QED
    BY <1>2, <1>3, <1>4, <1>5, <1>6, <1>7, <1>8, <1>9, <1>10, <1>11, <1>12, <1>13,
       <1>14 DEF Next, TurnStep

LEMMA OfferStart == Init => OfferInv
BY TypeInit DEF Init, OfferInv, InTurn

\* A call of an offered tool is neither refused by the list nor unknown, and what runs
\* is what was offered.
THEOREM OffersHold == Spec => []OfferHolds
<1>1. Init => OfferInv
    BY OfferStart
<1>2. OfferInv /\ [Next]_vars => OfferInv'
    BY OfferStep
<1>3. OfferInv => OfferHolds
    BY DEF OfferInv, OfferHolds, Sound, RanAsOffered, Sources
<1> QED
    BY <1>1, <1>2, <1>3, PTL DEF Spec

-----------------------------------------------------------------------------
(***************************************************************************)
(* The first request.  A turn of the program that has waited long enough   *)
(* runs after the discovery, so the dynamic tools do not change any more.  *)
(***************************************************************************)
DiscoveryOver == phase["discovery"] \in {"off", "done", "failed"}

WaitInv ==
    /\ TypeOK
    /\ kind \in Waits /\ pc \notin {"idle", "waiting"} /\ ~late => DiscoveryOver
    /\ kind \in Waits /\ InTurn /\ ~late => Definitions(dynamic, "mcp") \subseteq offered

LEMMA DiscoveryStaysOver ==
    ASSUME TypeOK, DiscoveryOver, NEW u \in Use, Connecting(u)
    PROVE  DiscoveryOver'
BY DEF DiscoveryOver, Connecting, Unreachable, Reachable, Connected, ConnectFails, Close,
       NextAddress, TypeOK, McpTypeOK, Use

LEMMA WaitStep ==
    ASSUME WaitInv, [Next]_vars
    PROVE  WaitInv'
<1> USE DEF WaitInv, InTurn, Outside, roundVars, turnVars, TypeOK
<1>1. TypeOK'
    BY TypeStep
<1> SUFFICES
        /\ (kind \in Waits /\ pc \notin {"idle", "waiting"} /\ ~late => DiscoveryOver)'
        /\ (kind \in Waits /\ InTurn /\ ~late => Definitions(dynamic, "mcp") \subseteq offered)'
    BY <1>1
<1>2. CASE RegisterDynamicTools
    BY <1>2 DEF RegisterDynamicTools, DiscoveryOver
<1>3. ASSUME NEW u \in Use, Connecting(u), Outside
      PROVE  /\ (kind \in Waits /\ pc \notin {"idle", "waiting"} /\ ~late => DiscoveryOver)'
             /\ (kind \in Waits /\ InTurn /\ ~late =>
                     Definitions(dynamic, "mcp") \subseteq offered)'
    BY <1>3, DiscoveryStaysOver DEF Definitions
<1>4. CASE \/ \E withTools \in BOOLEAN : NewAgent(withTools)
           \/ \E n \in ToolName : AllowTool(n)
           \/ \E n \in CustomName : AddTool(n)
           \/ \E k \in {"cli", "cron", "agent"} : StartTurn(k)
           \/ WaitTimesOut \/ NextRound \/ EndTurn
    BY <1>4 DEF NewAgent, AllowTool, AddTool, StartTurn, WaitTimesOut, NextRound, EndTurn,
                DiscoveryOver, mcpVars
<1>5. CASE WaitEnds
    BY <1>5 DEF WaitEnds, DiscoveryOver, Ended, mcpVars
<1>6. CASE Ask
    <2>1. kind \in Waits => Definitions(dynamic, "mcp") \subseteq Offer
        BY DEF Offer, Allowed, Limited, Waits
    <2> QED
        BY <1>6, <2>1 DEF Ask, DiscoveryOver, mcpVars, Definitions
<1>7. CASE \/ \E n \in ToolName : Call(n) \/ SubagentCall(n)
           \/ Refuse \/ SubagentEnds \/ McpCallEnds \/ UNCHANGED vars
    BY <1>7 DEF Call, SubagentCall, Refuse, SubagentEnds, McpCallEnds, vars, DiscoveryOver,
                mcpVars, Definitions
<1>8. CASE RunTool
    <2>1. phase'["discovery"] = phase["discovery"]
        BY <1>8 DEF RunTool, Begin, mcpVars, McpTypeOK, Use
    <2> QED
        BY <1>8, <2>1 DEF RunTool, DiscoveryOver, Definitions
<1>9. CASE CallServer
    <2>1. phase'["discovery"] = phase["discovery"]
        BY <1>9 DEF CallServer, McpTypeOK, Use
    <2> QED
        BY <1>9, <2>1 DEF CallServer, DiscoveryOver, Definitions
<1> QED
    BY <1>2, <1>3, <1>4, <1>5, <1>6, <1>7, <1>8, <1>9 DEF Next, TurnStep

LEMMA WaitStart == Init => WaitInv
BY TypeInit DEF Init, WaitInv, InTurn

\* A turn of the CLI or of cron that waited to the end of the discovery offers every
\* tool that was discovered.
THEOREM DiscoveryIsOffered == Spec => []DiscoveredIsOffered
<1>1. Init => WaitInv
    BY WaitStart
<1>2. WaitInv /\ [Next]_vars => WaitInv'
    BY WaitStep
<1>3. WaitInv => DiscoveredIsOffered
    BY DEF WaitInv, DiscoveredIsOffered, InTurn
<1> QED
    BY <1>1, <1>2, <1>3, PTL DEF Spec
=============================================================================
