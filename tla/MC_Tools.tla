------------------------------ MODULE MC_Tools ------------------------------
(* Two tools of the server have the same exposed name; an Agent may have a   *)
(* tool with the name of a built-in one.                                     *)
EXTENDS ToolAccess

MCExposed == [t \in ServerTool |-> IF t = "now" THEN "mcp__now" ELSE "mcp__add"]
=============================================================================
