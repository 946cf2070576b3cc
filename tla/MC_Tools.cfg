SPECIFICATION Spec
CONSTANTS
  Addresses = 2
  ServerTool = {"add", "add."}
  Exposed <- MCExposed
  Builtin = {"read", "subagent"}
  ForSubagent = {"read"}
  Subagent = "subagent"
  CustomName = {"read"}
INVARIANTS TypeOK OfferHolds ConnectionsClosed DiscoveredIsOffered
PROPERTY TurnGoesOn
