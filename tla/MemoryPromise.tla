---------------------------- MODULE MemoryPromise ----------------------------
(***************************************************************************)
(* What the memory of the agent promises: a set of named memories that     *)
(* changes in one step or not at all, whatever fails or crashes on the     *)
(* way.                                                                    *)
(*                                                                         *)
(* A maintenance reads the set, thinks, and writes; what the user wrote in *)
(* between is overwritten.  An extraction keeps every memory it has read,  *)
(* by name, unless it has a fragile name and no file of its own; only a    *)
(* consolidation, which needs enough memories to start, may drop others.   *)
(* Nothing the user writes touches a memory that has a file.               *)
(***************************************************************************)
EXTENDS Naturals, FiniteSets

CONSTANTS Memory, Slug, Threshold, Fragile

VARIABLES
    store,      \* the memories
    filed,      \* those with a file of their own
    job,        \* the maintenance under way
    base        \* what it has read

vars == <<store, filed, job, base>>

Names(s) == {m.name : m \in s}

\* Two memories have different file names, so also different names.
Apart(s) == \A m, n \in s : Slug[m.name] = Slug[n.name] => m = n

Init == store = {} /\ filed = {} /\ job = "none" /\ base = {}

Read(kind) ==
    /\ kind = "consolidate" => Cardinality(store) >= Threshold
    /\ job' = kind
    /\ base' = store
    /\ UNCHANGED <<store, filed>>

Finish == job' = "none" /\ base' = {}

Replace ==
    /\ store' \subseteq Memory /\ Apart(store') /\ filed' \subseteq store'
    /\ Finish

Sure == {m \in base : m.name \notin Fragile \/ m \in filed}

Extract ==
    /\ job = "extract"
    /\ Names(Sure) \subseteq Names(store')
    /\ Replace

Consolidate == job = "consolidate" /\ Replace

GiveUp == Finish /\ UNCHANGED <<store, filed>>

UserWrites ==
    /\ \E m \in Memory \ filed : store' \in {store \cup {m}, store \ {m}}
    /\ Apart(store')
    /\ UNCHANGED <<filed, job, base>>

Next ==
    \/ \E kind \in {"extract", "consolidate"} : Read(kind)
    \/ Extract \/ Consolidate \/ GiveUp \/ UserWrites

Spec == Init /\ [][Next]_vars
=============================================================================
