------------------------------ MODULE MC_Memory ------------------------------
(* Two names share a file, one of them with a star; the user may write a    *)
(* line of either, or one with a name that has no slug.                     *)
EXTENDS MemoryStore, TLC

MCName == {"plan", "plan*", "note", "cjk"}
MCSlug == [n \in MCName |-> CASE n = "note" -> "note.md"
                              [] n = "cjk" -> NoSlug
                              [] OTHER -> "plan.md"]
MCMemory == [name : {"plan*"}, body : {"line", "text"}]
            \cup [name : {"plan", "cjk"}, body : {"line"}]
            \cup [name : {"note"}, body : {"text"}]
MCByHand == {m \in MCMemory : m.body = "line"}
=============================================================================
