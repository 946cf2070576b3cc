---------------------------- MODULE TaskPromise ----------------------------
(***************************************************************************)
(* What the task board promises its owners, without files, leases, threads *)
(* or Git.  A task lies open on the board, is held by one owner, or is     *)
(* done.  An owner holds one task at a time; it takes it only over finished *)
(* dependencies and lets go of it only finished or back to the board; what *)
(* is done stays done.  A task may have a room of its own, which it is     *)
(* given while it is open and loses only with the room itself.             *)
(***************************************************************************)
CONSTANTS TaskId, Owners, Names,
          NoOwner, NoTree

VARIABLES
    open,       \* the tasks on the board
    heldBy,     \* who works on a task
    doneBy,     \* who finished it
    needs,      \* its dependencies
    room        \* its worktree

promiseVars == <<open, heldBy, doneBy, needs, room>>

Known(t) == t \in open \/ heldBy[t] # NoOwner \/ doneBy[t] # NoOwner
Ready(t) == \A d \in needs[t] : doneBy[d] # NoOwner

Init ==
    /\ open = {}
    /\ heldBy = [t \in TaskId |-> NoOwner]
    /\ doneBy = [t \in TaskId |-> NoOwner]
    /\ needs = [t \in TaskId |-> {}]
    /\ room = [t \in TaskId |-> NoTree]

Post(t) ==
    /\ ~Known(t)
    /\ open' = open \cup {t}
    /\ \E others \in SUBSET (TaskId \ {t}) : needs' = [needs EXCEPT ![t] = others]
    /\ UNCHANGED <<heldBy, doneBy, room>>

Take(o, t) ==
    /\ t \in open /\ Ready(t)
    /\ \A u \in TaskId : heldBy[u] # o
    /\ open' = open \ {t}
    /\ heldBy' = [heldBy EXCEPT ![t] = o]
    /\ UNCHANGED <<doneBy, needs, room>>

Finish(t) ==
    /\ heldBy[t] # NoOwner
    /\ heldBy' = [heldBy EXCEPT ![t] = NoOwner]
    /\ doneBy' = [doneBy EXCEPT ![t] = heldBy[t]]
    /\ UNCHANGED <<open, needs, room>>

GiveBack(t) ==
    /\ heldBy[t] # NoOwner
    /\ heldBy' = [heldBy EXCEPT ![t] = NoOwner]
    /\ open' = open \cup {t}
    /\ UNCHANGED <<doneBy, needs, room>>

Equip(t, n) ==
    /\ t \in open
    /\ room[t] = NoTree
    /\ \A u \in TaskId : room[u] # n
    /\ room' = [room EXCEPT ![t] = n]
    /\ UNCHANGED <<open, heldBy, doneBy, needs>>

Vacate(n) ==
    /\ room' = [t \in TaskId |-> IF room[t] = n THEN NoTree ELSE room[t]]
    /\ UNCHANGED <<open, heldBy, doneBy, needs>>

Next ==
    \/ \E n \in Names : Vacate(n) \/ \E t \in TaskId : Equip(t, n)
    \/ \E t \in TaskId : \/ Post(t) \/ Finish(t) \/ GiveBack(t)
                         \/ \E o \in Owners : Take(o, t)

Spec == Init /\ [][Next]_promiseVars
=============================================================================
