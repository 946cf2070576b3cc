----------------------------- MODULE AgentTeam -----------------------------
(***************************************************************************)
(* The protocol between the main agent ("lead") and its teammates: spawn,  *)
(* plan gate, plan review and shutdown (agent_team/index.py and the lead's *)
(* tools in tools/adapters/teammate.py).                                   *)
(*                                                                         *)
(* Each teammate is a thread.  It reads its mailbox before every call of   *)
(* the model and while it is idle, and handles what it read message by     *)
(* message, so the lead's tools run between a message and its effect.  A   *)
(* name can be used again: its mailbox and the lead's requests outlive the *)
(* teammate that had it.                                                   *)
(*                                                                         *)
(* The task board appears as the tasks nobody has claimed; TaskBoard is    *)
(* the model of it.  Mail without an effect on the protocol is left out:   *)
(* it only wakes an idle teammate (Chat).                                  *)
(***************************************************************************)
EXTENDS Naturals, Sequences

CONSTANTS
    Mate,           \* teammate names
    Req,            \* the numbers new_request_id draws from
    Task,           \* tasks of the board
    NoReq, NoTask, NoEntry,
    MailMayFail,    \* BUS.send may raise
    MaxMail,        \* bound on a mailbox when the lead writes
    MaxLives        \* bound on the spawns of one name

\* ProtocolState: a plan of a teammate, or a request to stop.
PlanRequest == [type : {"plan"}, mate : Mate,
                status : {"pending", "approved", "rejected"},
                version : Nat, task : Task \cup {NoTask}]
StopRequest == [type : {"shutdown"}, mate : Mate, life : Nat]

ASSUME TeamAssumption ==
    /\ NoReq \notin Req
    /\ NoTask \notin Task
    /\ NoEntry \notin PlanRequest \cup StopRequest
    /\ MailMayFail \in BOOLEAN
    /\ MaxMail \in Nat
    /\ MaxLives \in Nat

VARIABLES
    active,         \* active_teammates, as far as the code reads it
    phase,          \* where the thread of a teammate is
    gate,           \* plan_gates
    planReq,        \* plan_request_ids
    version,        \* assignment_versions
    lease, done,    \* the assignment, and whether its task is completed
    free,           \* pending tasks of the board
    requests,       \* pending_requests
    mailbox,        \* the mailbox file of each teammate
    batch,          \* messages read and not yet handled
    leadBox,        \* shutdown responses in the lead's mailbox
    life,           \* history: how many teammates had this name
    stoppedBy,      \* history: the life whose stop request was accepted
    owed,           \* history: the lead waits for a plan it can approve
    approvedTask    \* history: the task the approved plan was for

threadVars == <<active, phase, batch>>
planVars == <<gate, planReq, version>>
workVars == <<lease, done, free>>
mailVars == <<mailbox, leadBox>>
historyVars == <<life, stoppedBy, owed, approvedTask>>
vars == <<threadVars, planVars, workVars, requests, mailVars, historyVars>>

Gate == {"not_required", "required", "pending", "approved", "rejected"}

\* gone: no thread.  ready: about to read mail and call the model.  reading:
\* handling that mail.  waking: handling mail that came while idle.  model: the
\* call and its tools.  stopped: work or wait_for_work ended the loop.
\* leaving: the assignment is released, the name not yet.
Phase == {"gone", "ready", "reading", "model", "idle", "waking", "stopped",
          "leaving"}

Message == [type : {"plan_request"}]
           \cup [type : {"shutdown_request"}, id : Req]
           \cup [type : {"plan_approval_response"}, id : Req, approve : BOOLEAN]

TypeOK ==
    /\ active \in [Mate -> {"gone", "active", "stopping"}]
    /\ phase \in [Mate -> Phase]
    /\ gate \in [Mate -> Gate]
    /\ planReq \in [Mate -> Req \cup {NoReq}]
    /\ version \in [Mate -> Nat]
    /\ lease \in [Mate -> Task \cup {NoTask}]
    /\ done \in [Mate -> BOOLEAN]
    /\ free \subseteq Task
    /\ requests \in [Req -> PlanRequest \cup StopRequest \cup {NoEntry}]
    /\ mailbox \in [Mate -> Seq(Message)]
    /\ batch \in [Mate -> Seq(Message)]
    /\ leadBox \subseteq (Mate \X Req)
    /\ life \in [Mate -> Nat] /\ stoppedBy \in [Mate -> Nat]
    /\ owed \in [Mate -> BOOLEAN]
    /\ approvedTask \in [Mate -> Task \cup {NoTask}]

Init ==
    /\ active = [n \in Mate |-> "gone"]
    /\ phase = [n \in Mate |-> "gone"]
    /\ gate = [n \in Mate |-> "not_required"]
    /\ planReq = [n \in Mate |-> NoReq]
    /\ version = [n \in Mate |-> 0]
    /\ lease = [n \in Mate |-> NoTask]
    /\ done = [n \in Mate |-> FALSE]
    /\ free = Task
    /\ requests = [r \in Req |-> NoEntry]
    /\ mailbox = [n \in Mate |-> <<>>]
    /\ batch = [n \in Mate |-> <<>>]
    /\ leadBox = {}
    /\ life = [n \in Mate |-> 0]
    /\ stoppedBy = [n \in Mate |-> 0]
    /\ owed = [n \in Mate |-> FALSE]
    /\ approvedTask = [n \in Mate |-> NoTask]

-----------------------------------------------------------------------------
(***************************************************************************)
(* The lead's tools.                                                       *)
(***************************************************************************)
\* Mutant of Unused: draws a number without looking it up.
AnyNumber == Req

Unused == {r \in Req : requests[r] = NoEntry}       \* new_request_id
IsPlan(r) == requests[r] # NoEntry /\ requests[r].type = "plan"
IsStop(r) == requests[r] # NoEntry /\ requests[r].type = "shutdown"
Without(rs) == [r \in Req |-> IF r \in rs THEN NoEntry ELSE requests[r]]

SendTo(n, message) == mailbox' = [mailbox EXCEPT ![n] = Append(@, message)]
HasRoom(n) == Len(mailbox[n]) < MaxMail

\* spawn_teammate_thread, with or without a task to claim.
Spawn(n, t, require_plan) ==
    /\ active[n] = "gone"
    /\ life[n] < MaxLives
    /\ t # NoTask => t \in free
    /\ active' = [active EXCEPT ![n] = "active"]
    /\ phase' = [phase EXCEPT ![n] = "ready"]
    /\ gate' = [gate EXCEPT ![n] = IF require_plan THEN "required"
                                                   ELSE "not_required"]
    /\ version' = [version EXCEPT ![n] = 0]
    /\ lease' = [lease EXCEPT ![n] = t]
    /\ free' = free \ {t}
    /\ life' = [life EXCEPT ![n] = @ + 1]
    /\ owed' = [owed EXCEPT ![n] = require_plan]
    /\ UNCHANGED <<batch, planReq, done, requests, mailVars, stoppedBy,
                   approvedTask>>

RequestShutdown(n) ==
    /\ active[n] # "gone" /\ HasRoom(n)
    /\ \E r \in Unused :
          /\ requests' = [requests EXCEPT ![r] =
                             [type |-> "shutdown", mate |-> n, life |-> life[n]]]
          /\ SendTo(n, [type |-> "shutdown_request", id |-> r])
    /\ UNCHANGED <<threadVars, planVars, workVars, leadBox, historyVars>>

\* Mutant of RequestPlan: replaces a plan that waits for review.
RequestPlanAnyTime(n) ==
    /\ active[n] # "gone" /\ HasRoom(n)
    /\ gate' = [gate EXCEPT ![n] = "required"]
    /\ SendTo(n, [type |-> "plan_request"])
    /\ owed' = [owed EXCEPT ![n] = TRUE]
    /\ UNCHANGED <<threadVars, planReq, version, workVars, requests, leadBox, life,
                   stoppedBy, approvedTask>>

\* A failing send leaves the gate closed without the message.
RequestPlan(n) ==
    /\ active[n] # "gone" /\ HasRoom(n)
    /\ gate[n] # "pending"
    /\ gate' = [gate EXCEPT ![n] = "required"]
    /\ \/ SendTo(n, [type |-> "plan_request"])
       \/ MailMayFail /\ UNCHANGED mailbox
    /\ owed' = [owed EXCEPT ![n] = TRUE]
    /\ UNCHANGED <<threadVars, planReq, version, workVars, requests, leadBox, life,
                   stoppedBy, approvedTask>>

\* Mutant of ReviewPlan: records only that there was a decision.
ReviewPlanOnce(r, approve) ==
    /\ IsPlan(r) /\ requests[r].status = "pending"
    /\ planReq[requests[r].mate] = r
    /\ SendTo(requests[r].mate, [type |-> "plan_approval_response", id |-> r,
                                 approve |-> approve])
    /\ requests' = [requests EXCEPT ![r].status = "reviewed"]
    /\ UNCHANGED <<threadVars, planVars, workVars, leadBox, historyVars>>

\* The decision is recorded and then mailed; a send that fails takes it back.
\* Nobody reads a decision before its message, so both are one step.
ReviewPlan(r, approve) ==
    /\ IsPlan(r) /\ requests[r].status = "pending"
    /\ LET n == requests[r].mate
       IN  /\ planReq[n] = r
           /\ HasRoom(n)
           /\ SendTo(n, [type |-> "plan_approval_response", id |-> r,
                         approve |-> approve])
           /\ owed' = [owed EXCEPT ![n] = @ /\ ~approve]
    /\ requests' = [requests EXCEPT ![r].status =
                       IF approve THEN "approved" ELSE "rejected"]
    /\ UNCHANGED <<threadVars, planVars, workVars, leadBox, life, stoppedBy,
                   approvedTask>>

\* match_response for every message of the lead's mailbox.
ConsumeLeadInbox ==
    /\ leadBox # {}
    /\ leadBox' = {}
    /\ requests' = Without({r \in Req : IsStop(r) /\ <<requests[r].mate, r>> \in leadBox})
    /\ UNCHANGED <<threadVars, planVars, workVars, mailbox, historyVars>>

-----------------------------------------------------------------------------
(***************************************************************************)
(* A teammate's mail.                                                      *)
(***************************************************************************)
\* Mutant of ReadInbox: an idle teammate waits for tasks only.
ReadInboxWorking(n) ==
    /\ batch[n] = <<>>
    /\ phase[n] = "ready"
    /\ phase' = [phase EXCEPT ![n] = "reading"]
    /\ batch' = [batch EXCEPT ![n] = mailbox[n]]
    /\ mailbox' = [mailbox EXCEPT ![n] = <<>>]
    /\ UNCHANGED <<active, planVars, workVars, requests, leadBox, historyVars>>

ReadInbox(n) ==
    /\ batch[n] = <<>>
    /\ \/ /\ phase[n] \in {"ready", "waking"}
          /\ phase' = [phase EXCEPT ![n] = "reading"]
       \/ /\ phase[n] = "idle" /\ mailbox[n] # <<>>
          /\ phase' = [phase EXCEPT ![n] = "waking"]
    /\ batch' = [batch EXCEPT ![n] = mailbox[n]]
    /\ mailbox' = [mailbox EXCEPT ![n] = <<>>]
    /\ UNCHANGED <<active, planVars, workVars, requests, leadBox, historyVars>>

HandlesMail(n) == phase[n] \in {"reading", "waking"} /\ batch[n] # <<>>
Rest(n) == batch' = [batch EXCEPT ![n] = Tail(@)]

ValidShutdown(n, message) ==
    /\ message.type = "shutdown_request"
    /\ IsStop(message.id)
    /\ requests[message.id].mate = n
    /\ active[n] # "stopping"

\* The loop ends and the rest of the batch is lost.  When the response cannot
\* be sent the exception ends it.
AcceptShutdown(n) ==
    /\ HandlesMail(n)
    /\ LET message == Head(batch[n])
       IN  /\ ValidShutdown(n, message)
           /\ stoppedBy' = [stoppedBy EXCEPT ![n] = requests[message.id].life]
           /\ \/ leadBox' = leadBox \cup {<<n, message.id>>}
              \/ MailMayFail /\ UNCHANGED leadBox
    /\ active' = [active EXCEPT ![n] = "stopping"]
    /\ phase' = [phase EXCEPT ![n] = "stopped"]
    /\ batch' = [batch EXCEPT ![n] = <<>>]
    /\ UNCHANGED <<planVars, workVars, requests, mailbox, life, owed, approvedTask>>

\* Mutant of ValidDecision: knows approvals only.
ValidApproval(n, message) ==
    /\ message.type = "plan_approval_response"
    /\ message.id = planReq[n]
    /\ IsPlan(message.id)
    /\ requests[message.id].mate = n
    /\ requests[message.id].status = "approved" /\ message.approve

\* The decision must be about the plan this teammate waits for, submitted for
\* the work it still has.
ValidDecision(n, message) ==
    /\ message.type = "plan_approval_response"
    /\ message.id = planReq[n]
    /\ IsPlan(message.id)
    /\ LET plan == requests[message.id]
       IN  /\ plan.mate = n
           /\ plan.version = version[n]
           /\ plan.task = lease[n]
           /\ plan.status = IF message.approve THEN "approved" ELSE "rejected"

ApplyDecision(n) ==
    /\ HandlesMail(n)
    /\ LET message == Head(batch[n])
       IN  /\ ValidDecision(n, message)
           /\ gate' = [gate EXCEPT ![n] = requests[message.id].status]
           /\ requests' = Without({message.id})
           /\ approvedTask' = [approvedTask EXCEPT ![n] =
                                  IF message.approve THEN lease[n] ELSE @]
    /\ planReq' = [planReq EXCEPT ![n] = NoReq]
    /\ Rest(n)
    /\ UNCHANGED <<active, phase, version, workVars, mailVars, life, stoppedBy,
                   owed>>

\* Anything else only becomes text for the model.
HandleOther(n) ==
    /\ HandlesMail(n)
    /\ ~ValidShutdown(n, Head(batch[n])) /\ ~ValidDecision(n, Head(batch[n]))
    /\ Rest(n)
    /\ UNCHANGED <<active, phase, planVars, workVars, requests, mailVars,
                   historyVars>>

-----------------------------------------------------------------------------
(***************************************************************************)
(* A teammate's work.                                                      *)
(***************************************************************************)
MoveTo(n, next) == phase' = [phase EXCEPT ![n] = next]

CallModel(n) ==
    /\ phase[n] = "reading" /\ batch[n] = <<>>
    /\ MoveTo(n, "model")
    /\ UNCHANGED <<active, batch, planVars, workVars, requests, mailVars,
                   historyVars>>

\* Mail that means nothing to the protocol.
Chat(n) ==
    /\ phase[n] = "idle"
    /\ MoveTo(n, "ready")
    /\ UNCHANGED <<active, batch, planVars, workVars, requests, mailVars,
                   historyVars>>

SubmitPlan(n) ==
    /\ phase[n] = "model"
    /\ gate[n] # "pending"
    /\ \E r \in Unused :
          /\ requests' = [requests EXCEPT ![r] =
                             [type |-> "plan", mate |-> n, status |-> "pending",
                              version |-> version[n], task |-> lease[n]]]
          /\ planReq' = [planReq EXCEPT ![n] = r]
    /\ gate' = [gate EXCEPT ![n] = "pending"]
    /\ UNCHANGED <<threadVars, version, workVars, mailVars, historyVars>>

\* The plan does not reach the lead: the registration is undone.
SubmitPlanFails(n) ==
    /\ MailMayFail
    /\ phase[n] = "model"
    /\ gate[n] # "pending" /\ Unused # {}
    /\ gate' = [gate EXCEPT ![n] = "required"]
    /\ UNCHANGED <<threadVars, planReq, version, workVars, requests, mailVars,
                   historyVars>>

Assign(n, t) ==
    /\ lease[n] = NoTask
    /\ t \in free
    /\ lease' = [lease EXCEPT ![n] = t]
    /\ free' = free \ {t}
    /\ UNCHANGED <<done, batch, planVars, requests, mailVars, historyVars>>

ClaimTask(n, t) ==
    /\ phase[n] = "model"
    /\ Assign(n, t)
    /\ UNCHANGED <<active, phase>>

\* wait_for_work: no mail for IDLE_SCAN_INTERVAL.
AutoClaim(n, t) ==
    /\ phase[n] = "idle"
    /\ Assign(n, t)
    /\ MoveTo(n, "ready")
    /\ UNCHANGED active

CompleteTask(n) ==
    /\ phase[n] = "model"
    /\ lease[n] # NoTask /\ ~done[n]
    /\ done' = [done EXCEPT ![n] = TRUE]
    /\ UNCHANGED <<threadVars, planVars, lease, free, requests, mailVars,
                   historyVars>>

\* Mutant of Demand: an approval outlives the assignment.
DemandKept(n) == gate[n]

\* advance_assignment_version: what was approved or submitted is void.
Demand(n) == IF gate[n] = "not_required" THEN "not_required" ELSE "required"

ReleaseLease(n) ==
    /\ lease' = [lease EXCEPT ![n] = NoTask]
    /\ done' = [done EXCEPT ![n] = FALSE]
    /\ version' = [version EXCEPT ![n] = @ + 1]
    /\ requests' = Without({planReq[n]})
    /\ planReq' = [planReq EXCEPT ![n] = NoReq]

\* The model called tools: the loop reads its mail and calls again.
Continue(n) ==
    /\ phase[n] = "model"
    /\ MoveTo(n, "ready")
    /\ UNCHANGED <<active, batch, planVars, workVars, requests, mailVars,
                   historyVars>>

\* The model answered with text.
EndTurn(n) ==
    /\ phase[n] = "model"
    /\ MoveTo(n, "idle")
    /\ IF gate[n] # "pending" /\ done[n]
       THEN /\ ReleaseLease(n)
            /\ gate' = [gate EXCEPT ![n] = Demand(n)]
            /\ owed' = [owed EXCEPT ![n] = @ \/ Demand(n) = "required"]
       ELSE UNCHANGED <<planVars, lease, done, requests, owed>>
    /\ UNCHANGED <<active, batch, free, mailVars, life, stoppedBy, approvedTask>>

\* The finally clause of run: first release_teammate_assignment, after a stop,
\* an error of the provider or any exception ...
LeaveWork(n) ==
    /\ phase[n] \notin {"gone", "leaving"}
    /\ MoveTo(n, "leaving")
    /\ batch' = [batch EXCEPT ![n] = <<>>]
    /\ free' = IF lease[n] # NoTask /\ ~done[n] THEN free \cup {lease[n]} ELSE free
    /\ ReleaseLease(n)
    /\ gate' = [gate EXCEPT ![n] = "not_required"]
    /\ owed' = [owed EXCEPT ![n] = FALSE]
    /\ UNCHANGED <<active, mailVars, life, stoppedBy, approvedTask>>

\* ... then the team tables.  A teammate that was told to stop keeps the stop
\* requests for its name: the lead still has to match its response.
LeaveTeam(n) ==
    /\ phase[n] = "leaving"
    /\ requests' = Without({r \in Req :
                      \/ IsPlan(r) /\ requests[r].mate = n
                      \/ IsStop(r) /\ requests[r].mate = n /\ active[n] # "stopping"})
    /\ active' = [active EXCEPT ![n] = "gone"]
    /\ MoveTo(n, "gone")
    /\ gate' = [gate EXCEPT ![n] = "not_required"]
    /\ planReq' = [planReq EXCEPT ![n] = NoReq]
    /\ version' = [version EXCEPT ![n] = 0]
    /\ owed' = [owed EXCEPT ![n] = FALSE]
    /\ UNCHANGED <<batch, workVars, mailVars, life, stoppedBy, approvedTask>>

-----------------------------------------------------------------------------
LeadTools ==
    \/ \E n \in Mate :
          \/ \E t \in Task \cup {NoTask}, require_plan \in BOOLEAN :
                Spawn(n, t, require_plan)
          \/ RequestShutdown(n)
          \/ RequestPlan(n)
    \/ \E r \in Req, approve \in BOOLEAN : ReviewPlan(r, approve)
    \/ ConsumeLeadInbox

HandleMessage(n) == AcceptShutdown(n) \/ ApplyDecision(n) \/ HandleOther(n)

TeammateTools(n) ==
    \/ SubmitPlan(n)
    \/ SubmitPlanFails(n)
    \/ \E t \in Task : ClaimTask(n, t)
    \/ CompleteTask(n)

TeammateLoop(n) ==
    \/ ReadInbox(n)
    \/ HandleMessage(n)
    \/ CallModel(n)
    \/ Continue(n)
    \/ EndTurn(n)
    \/ Chat(n)
    \/ \E t \in Task : AutoClaim(n, t)
    \/ LeaveWork(n)
    \/ LeaveTeam(n)

Next == LeadTools \/ \E n \in Mate : TeammateTools(n) \/ TeammateLoop(n)

Spec == Init /\ [][Next]_vars

\* The thread of a teammate keeps running and a call of the model returns.
Fairness ==
    \A n \in Mate :
       /\ WF_vars(ReadInbox(n))
       /\ WF_vars(HandleMessage(n))
       /\ WF_vars(CallModel(n))
       /\ WF_vars(Continue(n) \/ EndTurn(n))
       /\ WF_vars(LeaveWork(n) /\ phase[n] = "stopped")
       /\ WF_vars(LeaveTeam(n))

FairSpec == Spec /\ Fairness

-----------------------------------------------------------------------------
(***************************************************************************)
(* Properties.                                                             *)
(***************************************************************************)
\* The three tables of the plan gate agree: a gate is pending exactly when the
\* lead has a plan of this teammate to review or has reviewed it, and no plan
\* is left in the lead's table that its teammate does not wait for.
GateHasRequest ==
    /\ \A n \in Mate :
          /\ gate[n] = "pending" <=> planReq[n] # NoReq
          /\ planReq[n] # NoReq => IsPlan(planReq[n]) /\ requests[planReq[n]].mate = n
    /\ \A r \in Req : IsPlan(r) => planReq[requests[r].mate] = r

\* A teammate of whom the lead wants a plan cannot change the workspace before
\* the lead has approved one submitted after it asked.
PlanIsOwed ==
    \A n \in Mate : owed[n] => gate[n] \notin {"approved", "not_required"}

\* The approval of a plan for a task ends with the assignment: it never covers
\* the next task.
ApprovalDiesWithWork ==
    \A n \in Mate :
       gate[n] = "approved" /\ approvedTask[n] # NoTask => lease[n] = approvedTask[n]

\* A teammate the lead asked to stop leaves, whatever it is doing.
Asked(n, r) == IsStop(r) /\ requests[r].mate = n /\ requests[r].life = life[n]

ShutdownIsObeyed ==
    \A n \in Mate, r \in Req :
       (active[n] # "gone" /\ Asked(n, r)) ~> (active[n] = "gone")

\* The lead's decision on a plan reaches the gate of the teammate that waits.
Decided(n, r) == planReq[n] = r /\ requests[r].status # "pending"
TaskPlanIsDecided ==
    \A n \in Mate, r \in Req :
       (IsPlan(r) /\ requests[r].task # NoTask /\ Decided(n, r)) ~> (planReq[n] # r)
PlanIsDecided ==
    \A n \in Mate, r \in Req : (IsPlan(r) /\ Decided(n, r)) ~> (planReq[n] # r)

\* A teammate stops only on a request that was made to it, not to an earlier
\* teammate of the same name.
StopsOnOwnRequest ==
    \A n \in Mate : active[n] = "stopping" => stoppedBy[n] = life[n]
=============================================================================
