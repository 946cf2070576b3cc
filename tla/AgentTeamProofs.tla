-------------------------- MODULE AgentTeamProofs --------------------------
(***************************************************************************)
(* Proofs about AgentTeam, for any number of names, tasks, request numbers *)
(* and lives.                                                              *)
(***************************************************************************)
EXTENDS AgentTeam, TLAPS

-----------------------------------------------------------------------------
(***************************************************************************)
(* Type correctness, one group of variables at a time.                     *)
(***************************************************************************)
ThreadsOK ==
    /\ active \in [Mate -> {"gone", "active", "stopping"}]
    /\ phase \in [Mate -> Phase]
    /\ batch \in [Mate -> Seq(Message)]

PlansOK ==
    /\ gate \in [Mate -> Gate]
    /\ planReq \in [Mate -> Req \cup {NoReq}]
    /\ version \in [Mate -> Nat]

WorkOK ==
    /\ lease \in [Mate -> Task \cup {NoTask}]
    /\ done \in [Mate -> BOOLEAN]
    /\ free \subseteq Task

RequestsOK == requests \in [Req -> PlanRequest \cup StopRequest \cup {NoEntry}]

MailOK ==
    /\ mailbox \in [Mate -> Seq(Message)]
    /\ leadBox \subseteq (Mate \X Req)

HistoryOK ==
    /\ life \in [Mate -> Nat] /\ stoppedBy \in [Mate -> Nat]
    /\ owed \in [Mate -> BOOLEAN]
    /\ approvedTask \in [Mate -> Task \cup {NoTask}]

LEMMA TypeParts ==
    /\ TypeOK => ThreadsOK /\ PlansOK /\ WorkOK /\ RequestsOK /\ MailOK /\ HistoryOK
    /\ ThreadsOK' /\ PlansOK' /\ WorkOK' /\ RequestsOK' /\ MailOK' /\ HistoryOK'
         => TypeOK'
BY DEF TypeOK, ThreadsOK, PlansOK, WorkOK, RequestsOK, MailOK, HistoryOK

\* The groups a step leaves alone keep their types.
LEMMA Unchanged ==
    ASSUME TypeOK
    PROVE  /\ UNCHANGED threadVars => ThreadsOK'
           /\ UNCHANGED planVars => PlansOK'
           /\ UNCHANGED workVars => WorkOK'
           /\ UNCHANGED requests => RequestsOK'
           /\ UNCHANGED mailVars => MailOK'
           /\ UNCHANGED historyVars => HistoryOK'
BY DEF TypeOK, threadVars, planVars, workVars, mailVars, historyVars, ThreadsOK,
       PlansOK, WorkOK, RequestsOK, MailOK, HistoryOK

\* Forgetting requests leaves requests.
LEMMA WithoutTypes ==
    ASSUME TypeOK, NEW rs, requests' = Without(rs)
    PROVE  RequestsOK'
BY DEF TypeOK, Without, RequestsOK

\* What is known of a request by its kind.
LEMMA RequestKinds ==
    ASSUME TypeOK, NEW r \in Req
    PROVE  /\ IsPlan(r) => requests[r] \in PlanRequest
           /\ IsStop(r) => requests[r] \in StopRequest
<1>1. requests[r] \in PlanRequest \cup StopRequest \cup {NoEntry}
  BY DEF TypeOK
<1>2. \A e \in PlanRequest : e.type = "plan"
  BY DEF PlanRequest
<1>3. \A e \in StopRequest : e.type = "shutdown"
  BY DEF StopRequest
<1> QED BY <1>1, <1>2, <1>3 DEF IsPlan, IsStop

\* The message a teammate handles.
LEMMA HeadTypes ==
    ASSUME TypeOK, NEW n \in Mate, HandlesMail(n)
    PROVE  Head(batch[n]) \in Message /\ Tail(batch[n]) \in Seq(Message)
BY DEF TypeOK, HandlesMail

LEMMA MessageKinds ==
    ASSUME NEW m \in Message
    PROVE  /\ m.type = "shutdown_request" => m.id \in Req
           /\ m.type = "plan_approval_response" => m.id \in Req /\ m.approve \in BOOLEAN
BY DEF Message

LEMMA MessagesExist ==
    /\ [type |-> "plan_request"] \in Message
    /\ \A r \in Req : [type |-> "shutdown_request", id |-> r] \in Message
    /\ \A r \in Req, b \in BOOLEAN :
          [type |-> "plan_approval_response", id |-> r, approve |-> b] \in Message
BY DEF Message

LEMMA SendTypes ==
    ASSUME TypeOK, NEW n \in Mate, NEW m \in Message, SendTo(n, m),
           leadBox' = leadBox
    PROVE  MailOK'
BY DEF TypeOK, SendTo, MailOK

LEMMA LeadToolsTypes == TypeOK /\ LeadTools => TypeOK'
<1> SUFFICES ASSUME TypeOK, LeadTools PROVE TypeOK'
  OBVIOUS
<1>1. ASSUME NEW n \in Mate, NEW t \in Task \cup {NoTask},
             NEW require_plan \in BOOLEAN, Spawn(n, t, require_plan)
      PROVE  TypeOK'
  <2>1. ThreadsOK' /\ PlansOK' /\ WorkOK' /\ HistoryOK'
    BY <1>1 DEF Spawn, TypeOK, ThreadsOK, PlansOK, WorkOK, HistoryOK, Phase, Gate
  <2>2. RequestsOK' /\ MailOK'
    BY <1>1, Unchanged DEF Spawn
  <2> QED BY <2>1, <2>2, TypeParts
<1>2. ASSUME NEW n \in Mate, RequestShutdown(n) PROVE TypeOK'
  <2>1. PICK r \in Unused :
           /\ requests' = [requests EXCEPT ![r] =
                             [type |-> "shutdown", mate |-> n, life |-> life[n]]]
           /\ SendTo(n, [type |-> "shutdown_request", id |-> r])
    BY <1>2 DEF RequestShutdown
  <2>2. r \in Req
    BY DEF Unused
  <2>3. [type |-> "shutdown", mate |-> n, life |-> life[n]] \in StopRequest
    BY DEF TypeOK, StopRequest
  <2>4. RequestsOK'
    BY <2>1, <2>3 DEF TypeOK, RequestsOK
  <2>5. leadBox' = leadBox
    BY <1>2 DEF RequestShutdown
  <2>6. MailOK'
    BY <2>1, <2>2, <2>5, MessagesExist, SendTypes
  <2>7. ThreadsOK' /\ PlansOK' /\ WorkOK' /\ HistoryOK'
    BY <1>2, Unchanged DEF RequestShutdown
  <2> QED BY <2>4, <2>6, <2>7, TypeParts
<1>3. ASSUME NEW n \in Mate, RequestPlan(n) PROVE TypeOK'
  <2>1. MailOK'
    <3>1. leadBox' = leadBox
      BY <1>3 DEF RequestPlan
    <3>2. CASE SendTo(n, [type |-> "plan_request"])
      BY <3>1, <3>2, MessagesExist, SendTypes
    <3>3. CASE UNCHANGED mailbox
      BY <3>1, <3>3, Unchanged DEF mailVars
    <3> QED BY <1>3, <3>2, <3>3 DEF RequestPlan
  <2>2. PlansOK' /\ HistoryOK'
    BY <1>3 DEF RequestPlan, TypeOK, PlansOK, HistoryOK, Gate
  <2>3. ThreadsOK' /\ WorkOK' /\ RequestsOK'
    BY <1>3, Unchanged DEF RequestPlan
  <2> QED BY <2>1, <2>2, <2>3, TypeParts
<1>4. ASSUME NEW r \in Req, NEW approve \in BOOLEAN, ReviewPlan(r, approve)
      PROVE  TypeOK'
  <2> DEFINE n == requests[r].mate
  <2>1. requests[r] \in PlanRequest
    BY <1>4, RequestKinds DEF ReviewPlan
  <2>2. n \in Mate
    BY <2>1 DEF PlanRequest
  <2>3. MailOK'
    BY <1>4, <2>2, MessagesExist, SendTypes DEF ReviewPlan
  <2>4. RequestsOK'
    BY <1>4, <2>1 DEF ReviewPlan, TypeOK, RequestsOK, PlanRequest
  <2>5. HistoryOK'
    BY <1>4, <2>2 DEF ReviewPlan, TypeOK, HistoryOK
  <2>6. ThreadsOK' /\ PlansOK' /\ WorkOK'
    BY <1>4, Unchanged DEF ReviewPlan
  <2> QED BY <2>3, <2>4, <2>5, <2>6, TypeParts
<1>5. CASE ConsumeLeadInbox
  <2>1. MailOK'
    BY <1>5 DEF ConsumeLeadInbox, TypeOK, MailOK
  <2>2. RequestsOK'
    BY <1>5, WithoutTypes DEF ConsumeLeadInbox
  <2>3. ThreadsOK' /\ PlansOK' /\ WorkOK' /\ HistoryOK'
    BY <1>5, Unchanged DEF ConsumeLeadInbox
  <2> QED BY <2>1, <2>2, <2>3, TypeParts
<1> QED BY <1>1, <1>2, <1>3, <1>4, <1>5 DEF LeadTools

LEMMA MailTypes ==
    ASSUME TypeOK, NEW n \in Mate, ReadInbox(n) \/ HandleMessage(n)
    PROVE  TypeOK'
<1>1. CASE ReadInbox(n)
  <2>1. ThreadsOK' /\ MailOK'
    BY <1>1 DEF ReadInbox, TypeOK, ThreadsOK, MailOK, Phase
  <2>2. PlansOK' /\ WorkOK' /\ RequestsOK' /\ HistoryOK'
    BY <1>1, Unchanged DEF ReadInbox
  <2> QED BY <2>1, <2>2, TypeParts
<1>2. CASE AcceptShutdown(n)
  <2> DEFINE m == Head(batch[n])
  <2>1. m.id \in Req /\ IsStop(m.id)
    BY <1>2, HeadTypes, MessageKinds DEF AcceptShutdown, ValidShutdown
  <2>2. requests[m.id].life \in Nat
    BY <2>1, RequestKinds DEF StopRequest
  <2>3. HistoryOK' /\ MailOK'
    BY <1>2, <2>1, <2>2 DEF AcceptShutdown, TypeOK, HistoryOK, MailOK
  <2>4. ThreadsOK'
    BY <1>2 DEF AcceptShutdown, TypeOK, ThreadsOK, Phase
  <2>5. PlansOK' /\ WorkOK' /\ RequestsOK'
    BY <1>2, Unchanged DEF AcceptShutdown
  <2> QED BY <2>3, <2>4, <2>5, TypeParts
<1>3. CASE ApplyDecision(n)
  <2> DEFINE m == Head(batch[n])
  <2>1. m.id \in Req /\ IsPlan(m.id)
    BY <1>3, HeadTypes, MessageKinds DEF ApplyDecision, ValidDecision
  <2>2. requests[m.id].status \in Gate
    BY <2>1, RequestKinds DEF PlanRequest, Gate
  <2>3. PlansOK'
    BY <1>3, <2>2 DEF ApplyDecision, TypeOK, PlansOK
  <2>4. HistoryOK'
    BY <1>3 DEF ApplyDecision, TypeOK, HistoryOK
  <2>5. ThreadsOK'
    BY <1>3, HeadTypes DEF ApplyDecision, Rest, TypeOK, ThreadsOK
  <2>6. RequestsOK'
    BY <1>3, WithoutTypes DEF ApplyDecision
  <2>7. WorkOK' /\ MailOK'
    BY <1>3, Unchanged DEF ApplyDecision
  <2> QED BY <2>3, <2>4, <2>5, <2>6, <2>7, TypeParts
<1>4. CASE HandleOther(n)
  <2>1. ThreadsOK'
    BY <1>4, HeadTypes DEF HandleOther, Rest, TypeOK, ThreadsOK
  <2>2. PlansOK' /\ WorkOK' /\ RequestsOK' /\ MailOK' /\ HistoryOK'
    BY <1>4, Unchanged DEF HandleOther
  <2> QED BY <2>1, <2>2, TypeParts
<1> QED BY <1>1, <1>2, <1>3, <1>4 DEF HandleMessage

LEMMA LoopTypes ==
    ASSUME TypeOK, NEW n \in Mate,
           \/ CallModel(n) \/ Continue(n) \/ EndTurn(n) \/ Chat(n)
           \/ \E t \in Task : AutoClaim(n, t)
           \/ LeaveWork(n) \/ LeaveTeam(n)
    PROVE  TypeOK'
<1>1. CASE CallModel(n) \/ Continue(n) \/ Chat(n)
  <2>1. ThreadsOK'
    BY <1>1 DEF CallModel, Continue, Chat, MoveTo, TypeOK, ThreadsOK, Phase
  <2>2. PlansOK' /\ WorkOK' /\ RequestsOK' /\ MailOK' /\ HistoryOK'
    BY <1>1, Unchanged DEF CallModel, Continue, Chat
  <2> QED BY <2>1, <2>2, TypeParts
<1>2. CASE EndTurn(n)
  <2>1. ThreadsOK' /\ WorkOK' /\ HistoryOK'
    BY <1>2 DEF EndTurn, MoveTo, ReleaseLease, TypeOK, ThreadsOK, WorkOK, HistoryOK,
                Phase
  <2>2. PlansOK'
    <3>1. CASE gate[n] # "pending" /\ done[n]
      <4>1. ReleaseLease(n) /\ gate' = [gate EXCEPT ![n] = Demand(n)]
        BY <1>2, <3>1 DEF EndTurn
      <4>2. Demand(n) \in Gate
        BY DEF Demand, Gate
      <4> QED BY <4>1, <4>2 DEF ReleaseLease, TypeOK, PlansOK
    <3>2. CASE ~(gate[n] # "pending" /\ done[n])
      BY <1>2, <3>2, Unchanged DEF EndTurn
    <3> QED BY <3>1, <3>2
  <2>3. RequestsOK'
    BY <1>2, WithoutTypes, Unchanged DEF EndTurn, ReleaseLease
  <2>4. MailOK'
    BY <1>2, Unchanged DEF EndTurn
  <2> QED BY <2>1, <2>2, <2>3, <2>4, TypeParts
<1>3. ASSUME NEW t \in Task, AutoClaim(n, t) PROVE TypeOK'
  <2>1. ThreadsOK' /\ WorkOK'
    BY <1>3 DEF AutoClaim, Assign, MoveTo, TypeOK, ThreadsOK, WorkOK, Phase
  <2>2. PlansOK' /\ RequestsOK' /\ MailOK' /\ HistoryOK'
    BY <1>3, Unchanged DEF AutoClaim, Assign
  <2> QED BY <2>1, <2>2, TypeParts
<1>4. CASE LeaveWork(n)
  <2>1. ThreadsOK' /\ WorkOK' /\ HistoryOK'
    BY <1>4 DEF LeaveWork, MoveTo, ReleaseLease, TypeOK, ThreadsOK, WorkOK,
                HistoryOK, Phase
  <2>2. PlansOK'
    BY <1>4 DEF LeaveWork, ReleaseLease, TypeOK, PlansOK, Gate
  <2>3. RequestsOK'
    BY <1>4, WithoutTypes DEF LeaveWork, ReleaseLease
  <2>4. MailOK'
    BY <1>4, Unchanged DEF LeaveWork
  <2> QED BY <2>1, <2>2, <2>3, <2>4, TypeParts
<1>5. CASE LeaveTeam(n)
  <2>1. ThreadsOK' /\ PlansOK' /\ HistoryOK'
    BY <1>5 DEF LeaveTeam, MoveTo, TypeOK, ThreadsOK, PlansOK, HistoryOK, Phase, Gate
  <2>2. RequestsOK'
    BY <1>5, WithoutTypes DEF LeaveTeam
  <2>3. WorkOK' /\ MailOK'
    BY <1>5, Unchanged DEF LeaveTeam
  <2> QED BY <2>1, <2>2, <2>3, TypeParts
<1> QED BY <1>1, <1>2, <1>3, <1>4, <1>5

LEMMA ToolsTypes ==
    ASSUME TypeOK, NEW n \in Mate, TeammateTools(n)
    PROVE  TypeOK'
<1>1. CASE SubmitPlan(n)
  <2>1. PICK r \in Unused :
           /\ requests' = [requests EXCEPT ![r] =
                             [type |-> "plan", mate |-> n, status |-> "pending",
                              version |-> version[n], task |-> lease[n]]]
           /\ planReq' = [planReq EXCEPT ![n] = r]
    BY <1>1 DEF SubmitPlan
  <2>2. r \in Req
    BY DEF Unused
  <2>3. [type |-> "plan", mate |-> n, status |-> "pending",
         version |-> version[n], task |-> lease[n]] \in PlanRequest
    BY DEF TypeOK, PlanRequest
  <2>4. RequestsOK'
    BY <2>1, <2>3 DEF TypeOK, RequestsOK
  <2>5. PlansOK'
    BY <1>1, <2>1, <2>2 DEF SubmitPlan, TypeOK, PlansOK, Gate
  <2>6. ThreadsOK' /\ WorkOK' /\ MailOK' /\ HistoryOK'
    BY <1>1, Unchanged DEF SubmitPlan
  <2> QED BY <2>4, <2>5, <2>6, TypeParts
<1>2. CASE SubmitPlanFails(n)
  <2>1. PlansOK'
    BY <1>2 DEF SubmitPlanFails, TypeOK, PlansOK, Gate
  <2>2. ThreadsOK' /\ WorkOK' /\ RequestsOK' /\ MailOK' /\ HistoryOK'
    BY <1>2, Unchanged DEF SubmitPlanFails
  <2> QED BY <2>1, <2>2, TypeParts
<1>3. ASSUME NEW t \in Task, ClaimTask(n, t) PROVE TypeOK'
  <2>1. ThreadsOK' /\ WorkOK'
    BY <1>3 DEF ClaimTask, Assign, TypeOK, ThreadsOK, WorkOK
  <2>2. PlansOK' /\ RequestsOK' /\ MailOK' /\ HistoryOK'
    BY <1>3, Unchanged DEF ClaimTask, Assign
  <2> QED BY <2>1, <2>2, TypeParts
<1>4. CASE CompleteTask(n)
  <2>1. WorkOK'
    BY <1>4 DEF CompleteTask, TypeOK, WorkOK
  <2>2. ThreadsOK' /\ PlansOK' /\ RequestsOK' /\ MailOK' /\ HistoryOK'
    BY <1>4, Unchanged DEF CompleteTask
  <2> QED BY <2>1, <2>2, TypeParts
<1> QED BY <1>1, <1>2, <1>3, <1>4 DEF TeammateTools

\* Every table of the protocol keeps its type: what the lead and the teammates
\* write into pending_requests and the mailboxes is what the others expect.
THEOREM TypeCorrect == Spec => []TypeOK
<1>1. Init => TypeOK
  BY DEF Init, TypeOK, Phase, Gate
<1>2. TypeOK /\ [Next]_vars => TypeOK'
  <2>1. TypeOK /\ UNCHANGED vars => TypeOK'
    BY Unchanged, TypeParts DEF vars
  <2>2. ASSUME TypeOK, NEW n \in Mate, TeammateLoop(n) PROVE TypeOK'
    BY <2>2, MailTypes, LoopTypes DEF TeammateLoop
  <2> QED BY <2>1, <2>2, LeadToolsTypes, ToolsTypes DEF Next
<1> QED BY <1>1, <1>2, PTL DEF Spec

-----------------------------------------------------------------------------
(***************************************************************************)
(* The plan gate.                                                          *)
(***************************************************************************)
\* A name without a teammate waits for no plan.
GoneIsClean ==
    \A n \in Mate :
       /\ active[n] = "gone" <=> phase[n] = "gone"
       /\ active[n] = "gone" => planReq[n] = NoReq

\* Once the lead has approved the plan a teammate waits for, it owes none.
ApprovedIsSettled ==
    \A r \in Req :
       IsPlan(r) /\ requests[r].status = "approved" => ~owed[requests[r].mate]

PlanInv ==
    /\ GateHasRequest
    /\ GoneIsClean
    /\ ApprovedIsSettled
    /\ PlanIsOwed
    /\ ApprovalDiesWithWork

\* A step that touches neither gates nor plans.
SamePlans ==
    /\ UNCHANGED <<gate, planReq, owed>>
    /\ \A r \in Req : IsPlan(r)' <=> IsPlan(r)
    /\ \A r \in Req : IsPlan(r) => requests'[r] = requests[r]

LEMMA SamePlansKeep ==
    ASSUME TypeOK, PlanInv, SamePlans
    PROVE  GateHasRequest' /\ ApprovedIsSettled' /\ PlanIsOwed'
<1>1. GateHasRequest'
  <2>1. ASSUME NEW n \in Mate
        PROVE  /\ gate'[n] = "pending" <=> planReq'[n] # NoReq
               /\ planReq'[n] # NoReq => IsPlan(planReq[n])' /\ requests'[planReq'[n]].mate = n
    BY DEF TypeOK, PlanInv, SamePlans, GateHasRequest
  <2>2. ASSUME NEW r \in Req, IsPlan(r)' PROVE planReq'[requests'[r].mate] = r
    BY <2>2 DEF PlanInv, SamePlans, GateHasRequest
  <2> QED BY <2>1, <2>2 DEF GateHasRequest, IsPlan, SamePlans
<1>2. ApprovedIsSettled'
  BY DEF PlanInv, SamePlans, ApprovedIsSettled
<1>3. PlanIsOwed'
  BY DEF PlanInv, SamePlans, PlanIsOwed
<1> QED BY <1>1, <1>2, <1>3

LEMMA SameRequestsSamePlans ==
    UNCHANGED <<gate, planReq, owed, requests>> => SamePlans
BY DEF SamePlans, IsPlan

\* The plan a teammate has open, if any, is the only one with its name.
LEMMA OnePlan ==
    ASSUME TypeOK, PlanInv, NEW n \in Mate, NEW r \in Req,
           IsPlan(r), requests[r].mate = n
    PROVE  planReq[n] = r /\ gate[n] = "pending"
BY TeamAssumption DEF PlanInv, GateHasRequest

\* Closing the plan of one teammate with a gate that is not pending.
LEMMA ClosePlan ==
    ASSUME TypeOK, PlanInv, NEW n \in Mate,
           planReq' = [planReq EXCEPT ![n] = NoReq],
           \A m \in Mate \ {n} : gate'[m] = gate[m],
           gate'[n] # "pending",
           \A r \in Req : IsPlan(r)' <=> IsPlan(r) /\ requests[r].mate # n,
           \A r \in Req : IsPlan(r)' => requests'[r] = requests[r],
           \A m \in Mate \ {n} : owed'[m] = owed[m]
    PROVE  GateHasRequest' /\ ApprovedIsSettled'
<1>1. \A r \in Req : IsPlan(r)' => requests[r].mate \in Mate \ {n}
  BY RequestKinds DEF PlanRequest
<1>2. ASSUME NEW m \in Mate
      PROVE  /\ gate'[m] = "pending" <=> planReq'[m] # NoReq
             /\ planReq'[m] # NoReq => /\ planReq'[m] \in Req /\ IsPlan(planReq[m])'
                                      /\ requests'[planReq'[m]].mate = m
  <2>1. CASE m = n
    BY <2>1 DEF TypeOK
  <2>2. CASE m # n
    <3>1. planReq'[m] = planReq[m] /\ gate'[m] = gate[m]
      BY <2>2 DEF TypeOK
    <3>2. planReq[m] \in Req \cup {NoReq}
      BY DEF TypeOK
    <3>3. /\ gate[m] = "pending" <=> planReq[m] # NoReq
          /\ planReq[m] # NoReq => IsPlan(planReq[m]) /\ requests[planReq[m]].mate = m
      BY DEF PlanInv, GateHasRequest
    <3>4. planReq[m] # NoReq => IsPlan(planReq[m])' /\ requests'[planReq[m]] = requests[planReq[m]]
      BY <2>2, <3>2, <3>3
    <3> QED BY <3>1, <3>2, <3>3, <3>4
  <2> QED BY <2>1, <2>2
<1>3. ASSUME NEW r \in Req, IsPlan(r)'
      PROVE  /\ planReq'[requests'[r].mate] = r
             /\ requests'[r].status = "approved" => ~owed'[requests'[r].mate]
  <2>1. IsPlan(r) /\ requests'[r] = requests[r] /\ requests[r].mate \in Mate \ {n}
    BY <1>1, <1>3
  <2>2. planReq[requests[r].mate] = r
    BY <2>1 DEF PlanInv, GateHasRequest
  <2>3. requests[r].status = "approved" => ~owed[requests[r].mate]
    BY <2>1 DEF PlanInv, ApprovedIsSettled
  <2> QED BY <2>1, <2>2, <2>3 DEF TypeOK
<1>4. GateHasRequest'
  BY <1>2, <1>3 DEF GateHasRequest, IsPlan
<1>5. ApprovedIsSettled'
  BY <1>3 DEF ApprovedIsSettled
<1> QED BY <1>4, <1>5

\* What a release leaves of the requests.
LEMMA ReleasedPlans ==
    ASSUME TypeOK, PlanInv, NEW n \in Mate, ReleaseLease(n)
    PROVE  /\ planReq' = [planReq EXCEPT ![n] = NoReq]
           /\ \A r \in Req : IsPlan(r)' <=> IsPlan(r) /\ requests[r].mate # n
           /\ \A r \in Req : IsPlan(r)' => requests'[r] = requests[r]
           /\ lease' = [lease EXCEPT ![n] = NoTask]
<1>1. requests' = Without({planReq[n]})
  BY DEF ReleaseLease
<1>2. \A r \in Req : IsPlan(r) => (requests[r].mate = n <=> r = planReq[n])
  BY OnePlan, TeamAssumption DEF PlanInv, GateHasRequest
<1>3. \A r \in Req : requests'[r] = IF r = planReq[n] THEN NoEntry ELSE requests[r]
  BY <1>1 DEF Without
<1> QED BY <1>2, <1>3 DEF ReleaseLease, IsPlan

LEMMA LeadKeepsPlans == TypeOK /\ PlanInv /\ LeadTools => PlanInv'
<1> SUFFICES ASSUME TypeOK, PlanInv, LeadTools PROVE PlanInv'
  OBVIOUS
<1>1. ASSUME NEW n \in Mate, NEW t \in Task \cup {NoTask},
             NEW require_plan \in BOOLEAN, Spawn(n, t, require_plan)
      PROVE  PlanInv'
  <2>1. planReq[n] = NoReq
    BY <1>1 DEF Spawn, PlanInv, GoneIsClean
  <2>2. \A r \in Req : IsPlan(r) => requests[r].mate # n
    BY <2>1, OnePlan, TeamAssumption
  <2>3. /\ planReq' = planReq /\ requests' = requests
        /\ gate' = [gate EXCEPT ![n] = IF require_plan THEN "required" ELSE "not_required"]
        /\ owed' = [owed EXCEPT ![n] = require_plan]
        /\ approvedTask' = approvedTask
    BY <1>1 DEF Spawn, mailVars
  <2>4. \A r \in Req : (IsPlan(r)' <=> IsPlan(r)) /\ requests'[r] = requests[r]
    BY <2>3 DEF IsPlan
  <2>5. GateHasRequest' /\ ApprovedIsSettled'
    <3>1. planReq' = [planReq EXCEPT ![n] = NoReq]
      BY <2>1, <2>3 DEF TypeOK
    <3>2. /\ \A m \in Mate \ {n} : gate'[m] = gate[m]
          /\ \A m \in Mate \ {n} : owed'[m] = owed[m]
          /\ gate'[n] # "pending"
      BY <2>3 DEF TypeOK
    <3> QED BY <2>2, <2>4, <3>1, <3>2, ClosePlan
  <2>6. PlanIsOwed'
    BY <2>3 DEF TypeOK, PlanInv, PlanIsOwed
  <2>7. ApprovalDiesWithWork'
    <3>1. \A m \in Mate \ {n} : lease'[m] = lease[m]
      BY <1>1 DEF Spawn, TypeOK
    <3> QED BY <2>3, <3>1 DEF TypeOK, PlanInv, ApprovalDiesWithWork
  <2>8. GoneIsClean'
    BY <1>1, <2>3 DEF Spawn, TypeOK, PlanInv, GoneIsClean
  <2> QED BY <2>5, <2>6, <2>7, <2>8 DEF PlanInv
<1>2. ASSUME NEW n \in Mate, RequestShutdown(n) PROVE PlanInv'
  <2>1. PICK r \in Unused :
           requests' = [requests EXCEPT ![r] =
                           [type |-> "shutdown", mate |-> n, life |-> life[n]]]
    BY <1>2 DEF RequestShutdown
  <2>2. /\ UNCHANGED <<gate, planReq, owed, lease, active, phase, approvedTask>>
    BY <1>2 DEF RequestShutdown, threadVars, planVars, workVars, historyVars
  <2>3. ~ IsPlan(r) /\ ~ IsPlan(r)'
    BY <2>1 DEF TypeOK, Unused, IsPlan
  <2>4. SamePlans
    BY <2>1, <2>2, <2>3 DEF TypeOK, SamePlans, IsPlan
  <2>5. GoneIsClean' /\ ApprovalDiesWithWork'
    BY <2>2 DEF PlanInv, GoneIsClean, ApprovalDiesWithWork
  <2> QED BY <2>4, <2>5, SamePlansKeep DEF PlanInv
<1>3. ASSUME NEW n \in Mate, RequestPlan(n) PROVE PlanInv'
  <2>1. planReq[n] = NoReq
    BY <1>3 DEF RequestPlan, PlanInv, GateHasRequest
  <2>2. \A r \in Req : IsPlan(r) => requests[r].mate # n
    BY <2>1, OnePlan, TeamAssumption
  <2>3. /\ planReq' = planReq /\ requests' = requests
        /\ gate' = [gate EXCEPT ![n] = "required"]
        /\ owed' = [owed EXCEPT ![n] = TRUE]
        /\ UNCHANGED <<lease, active, phase, approvedTask>>
    BY <1>3 DEF RequestPlan, threadVars, workVars
  <2>4. \A r \in Req : (IsPlan(r)' <=> IsPlan(r)) /\ requests'[r] = requests[r]
    BY <2>3 DEF IsPlan
  <2>5. GateHasRequest' /\ ApprovedIsSettled'
    <3>1. planReq' = [planReq EXCEPT ![n] = NoReq]
      BY <2>1, <2>3 DEF TypeOK
    <3>2. /\ \A m \in Mate \ {n} : gate'[m] = gate[m]
          /\ \A m \in Mate \ {n} : owed'[m] = owed[m]
          /\ gate'[n] # "pending"
      BY <2>3 DEF TypeOK
    <3> QED BY <2>2, <2>4, <3>1, <3>2, ClosePlan
  <2>6. PlanIsOwed' /\ ApprovalDiesWithWork' /\ GoneIsClean'
    BY <2>3 DEF TypeOK, PlanInv, PlanIsOwed, ApprovalDiesWithWork, GoneIsClean
  <2> QED BY <2>5, <2>6 DEF PlanInv
<1>4. ASSUME NEW r \in Req, NEW approve \in BOOLEAN, ReviewPlan(r, approve)
      PROVE  PlanInv'
  <2> DEFINE n == requests[r].mate
  <2>1. requests[r] \in PlanRequest /\ n \in Mate /\ IsPlan(r)
    BY <1>4, RequestKinds DEF ReviewPlan, PlanRequest
  <2>2. /\ requests' = [requests EXCEPT ![r].status =
                            IF approve THEN "approved" ELSE "rejected"]
        /\ owed' = [owed EXCEPT ![n] = @ /\ ~approve]
        /\ UNCHANGED <<gate, planReq, lease, active, phase, approvedTask>>
    BY <1>4 DEF ReviewPlan, threadVars, planVars, workVars
  <2>3. requests'[r] = [requests[r] EXCEPT !.status =
                            IF approve THEN "approved" ELSE "rejected"]
    BY <2>1, <2>2 DEF TypeOK
  <2>4. /\ requests'[r].type = "plan" /\ requests'[r].mate = n
        /\ requests'[r].status = IF approve THEN "approved" ELSE "rejected"
    BY <2>1, <2>3 DEF PlanRequest
  <2>5. requests'[r] # NoEntry
    <3>1. requests'[r] \in PlanRequest
      BY <2>1, <2>3 DEF PlanRequest
    <3> QED BY <3>1, TeamAssumption
  <2>6. \A q \in Req \ {r} : requests'[q] = requests[q]
    BY <2>2 DEF TypeOK
  <2>7. \A q \in Req : (IsPlan(q)' <=> IsPlan(q)) /\ (IsPlan(q) => requests'[q].mate = requests[q].mate)
    BY <2>1, <2>4, <2>5, <2>6 DEF IsPlan
  <2>8. GateHasRequest'
    BY <2>2, <2>7 DEF TypeOK, PlanInv, GateHasRequest, IsPlan
  <2>9. ApprovedIsSettled'
    <3> SUFFICES ASSUME NEW q \in Req, IsPlan(q)', requests'[q].status = "approved"
                 PROVE  ~owed'[requests'[q].mate]
      BY DEF ApprovedIsSettled
    <3>1. CASE q = r
      <4>1. approve
        BY <2>4, <3>1
      <4> QED BY <2>1, <2>2, <2>4, <3>1, <4>1 DEF TypeOK
    <3>2. CASE q # r
      <4>1. IsPlan(q) /\ requests[q].status = "approved" /\ requests'[q].mate = requests[q].mate
        BY <2>6, <2>7, <3>2
      <4>2. requests[q].mate # n
        BY <2>1, <3>2, <4>1 DEF PlanInv, GateHasRequest
      <4>3. ~owed[requests[q].mate] /\ requests[q].mate \in Mate
        BY <4>1, RequestKinds DEF PlanInv, ApprovedIsSettled, PlanRequest
      <4> QED BY <2>2, <4>1, <4>2, <4>3 DEF TypeOK
    <3> QED BY <3>1, <3>2
  <2>10. \A m \in Mate : owed'[m] => owed[m]
    BY <2>2 DEF TypeOK
  <2>11. PlanIsOwed' /\ ApprovalDiesWithWork' /\ GoneIsClean'
    BY <2>2, <2>10 DEF PlanInv, PlanIsOwed, ApprovalDiesWithWork, GoneIsClean
  <2> QED BY <2>8, <2>9, <2>11 DEF PlanInv
<1>5. CASE ConsumeLeadInbox
  <2>1. UNCHANGED <<gate, planReq, owed, lease, active, phase, approvedTask>>
    BY <1>5 DEF ConsumeLeadInbox, threadVars, planVars, workVars, historyVars
  <2>2. \A r \in Req : requests'[r] = requests[r] \/ (IsStop(r) /\ requests'[r] = NoEntry)
    BY <1>5 DEF ConsumeLeadInbox, Without
  <2>3. SamePlans
    BY <2>1, <2>2 DEF SamePlans, IsPlan, IsStop
  <2>4. GoneIsClean' /\ ApprovalDiesWithWork'
    BY <2>1 DEF PlanInv, GoneIsClean, ApprovalDiesWithWork
  <2> QED BY <2>3, <2>4, SamePlansKeep DEF PlanInv
<1> QED BY <1>1, <1>2, <1>3, <1>4, <1>5 DEF LeadTools

\* A step of a thread that touches no plan and no gate, claims at most a task
\* and does not leave.
LEMMA QuietStep ==
    ASSUME TypeOK, PlanInv, NEW n \in Mate,
           UNCHANGED <<planVars, requests, owed, approvedTask>>,
           \/ lease' = lease
           \/ lease[n] = NoTask /\ \A m \in Mate \ {n} : lease'[m] = lease[m],
           \A m \in Mate : (active'[m] = "gone" <=> phase'[m] = "gone")
                          /\ (active'[m] = "gone" => active[m] = "gone")
    PROVE  PlanInv'
<1>1. SamePlans
  BY SameRequestsSamePlans DEF planVars
<1>2. ApprovalDiesWithWork'
  BY DEF planVars, PlanInv, ApprovalDiesWithWork
<1>3. GoneIsClean'
  BY DEF planVars, PlanInv, GoneIsClean
<1> QED BY <1>1, <1>2, <1>3, SamePlansKeep DEF PlanInv

\* Moving between places of the loop does not make a name free or taken.
LEMMA StaysHired ==
    ASSUME TypeOK, PlanInv, NEW n \in Mate, NEW next \in Phase \ {"gone"},
           phase[n] # "gone",
           phase' = [phase EXCEPT ![n] = next] \/ phase' = phase,
           active' = active \/ active' = [active EXCEPT ![n] = "stopping"]
    PROVE  \A m \in Mate : (active'[m] = "gone" <=> phase'[m] = "gone")
                          /\ (active'[m] = "gone" => active[m] = "gone")
BY DEF TypeOK, PlanInv, GoneIsClean

LEMMA MailKeepsPlans ==
    ASSUME TypeOK, PlanInv, NEW n \in Mate, ReadInbox(n) \/ HandleMessage(n)
    PROVE  PlanInv'
<1>0. {"reading", "waking", "stopped"} \subseteq Phase \ {"gone"}
  BY DEF Phase
<1>1. CASE ReadInbox(n)
  <2>1. UNCHANGED <<planVars, requests, owed, approvedTask>> /\ lease' = lease
    BY <1>1 DEF ReadInbox, workVars, historyVars
  <2>2. /\ phase[n] # "gone" /\ active' = active
        /\ \E next \in Phase \ {"gone"} : phase' = [phase EXCEPT ![n] = next]
    BY <1>0, <1>1 DEF ReadInbox
  <2> QED BY <2>1, <2>2, StaysHired, QuietStep
<1>2. CASE AcceptShutdown(n)
  <2>1. UNCHANGED <<planVars, requests, owed, approvedTask>> /\ lease' = lease
    BY <1>2 DEF AcceptShutdown, workVars
  <2>2. /\ phase[n] # "gone" /\ active' = [active EXCEPT ![n] = "stopping"]
        /\ phase' = [phase EXCEPT ![n] = "stopped"]
    BY <1>2 DEF AcceptShutdown, HandlesMail
  <2> QED BY <1>0, <2>1, <2>2, StaysHired, QuietStep
<1>3. CASE HandleOther(n)
  <2>1. UNCHANGED <<planVars, requests, owed, approvedTask>> /\ lease' = lease
    BY <1>3 DEF HandleOther, workVars, historyVars
  <2>2. phase[n] # "gone" /\ active' = active /\ phase' = phase
    BY <1>3 DEF HandleOther, HandlesMail
  <2> QED BY <1>0, <2>1, <2>2, StaysHired, QuietStep
<1>4. CASE ApplyDecision(n)
  <2> DEFINE r == Head(batch[n]).id
  <2>1. r \in Req /\ IsPlan(r)
    BY <1>4, HeadTypes, MessageKinds DEF ApplyDecision, ValidDecision
  <2>2. planReq[n] = r /\ requests[r].mate = n
    BY <1>4 DEF ApplyDecision, ValidDecision
  <2>3. requests[r].status = IF Head(batch[n]).approve THEN "approved" ELSE "rejected"
    BY <1>4 DEF ApplyDecision, ValidDecision
  <2>4. /\ gate' = [gate EXCEPT ![n] = requests[r].status]
        /\ requests' = Without({r})
        /\ approvedTask' = [approvedTask EXCEPT ![n] =
                               IF Head(batch[n]).approve THEN lease[n] ELSE @]
        /\ planReq' = [planReq EXCEPT ![n] = NoReq]
        /\ UNCHANGED <<lease, active, phase, owed>>
    BY <1>4 DEF ApplyDecision, workVars
  <2>5. \A q \in Req : IsPlan(q) => (requests[q].mate = n <=> q = r)
    BY <2>1, <2>2, OnePlan
  <2>6. \A q \in Req : requests'[q] = IF q = r THEN NoEntry ELSE requests[q]
    BY <2>4 DEF Without
  <2>7. GateHasRequest' /\ ApprovedIsSettled'
    <3>1. /\ \A q \in Req : IsPlan(q)' <=> IsPlan(q) /\ requests[q].mate # n
          /\ \A q \in Req : IsPlan(q)' => requests'[q] = requests[q]
      BY <2>5, <2>6 DEF IsPlan
    <3>2. /\ \A m \in Mate \ {n} : gate'[m] = gate[m]
          /\ gate'[n] # "pending"
      BY <2>3, <2>4 DEF TypeOK
    <3> QED BY <2>4, <3>1, <3>2, ClosePlan
  <2>8. PlanIsOwed'
    <3>1. requests[r].status = "approved" => ~owed[n]
      BY <2>1, <2>2 DEF PlanInv, ApprovedIsSettled
    <3> QED BY <2>3, <2>4, <3>1 DEF TypeOK, PlanInv, PlanIsOwed
  <2>9. ApprovalDiesWithWork'
    BY <2>3, <2>4 DEF TypeOK, PlanInv, ApprovalDiesWithWork
  <2>10. GoneIsClean'
    BY <2>4 DEF TypeOK, PlanInv, GoneIsClean
  <2> QED BY <2>7, <2>8, <2>9, <2>10 DEF PlanInv
<1> QED BY <1>1, <1>2, <1>3, <1>4 DEF HandleMessage

\* A release that gives the teammate a gate nobody waits at.
LEMMA ReleaseKeepsPlans ==
    ASSUME TypeOK, PlanInv, NEW n \in Mate, ReleaseLease(n),
           NEW g \in {"required", "not_required"}, gate' = [gate EXCEPT ![n] = g],
           NEW b \in BOOLEAN, owed' = [owed EXCEPT ![n] = b],
           b => g = "required", approvedTask' = approvedTask
    PROVE  GateHasRequest' /\ ApprovedIsSettled' /\ PlanIsOwed' /\ ApprovalDiesWithWork'
<1>1. GateHasRequest' /\ ApprovedIsSettled'
  <2>1. /\ \A m \in Mate \ {n} : gate'[m] = gate[m]
        /\ \A m \in Mate \ {n} : owed'[m] = owed[m]
        /\ gate'[n] # "pending"
    BY DEF TypeOK
  <2> QED BY <2>1, ReleasedPlans, ClosePlan
<1>2. PlanIsOwed'
  BY DEF TypeOK, PlanInv, PlanIsOwed
<1>3. ApprovalDiesWithWork'
  BY ReleasedPlans DEF TypeOK, PlanInv, ApprovalDiesWithWork
<1> QED BY <1>1, <1>2, <1>3

LEMMA LoopKeepsPlans ==
    ASSUME TypeOK, PlanInv, NEW n \in Mate,
           \/ CallModel(n) \/ Continue(n) \/ EndTurn(n) \/ Chat(n)
           \/ \E t \in Task : AutoClaim(n, t)
           \/ LeaveWork(n) \/ LeaveTeam(n)
    PROVE  PlanInv'
<1>0. {"ready", "model", "idle", "leaving"} \subseteq Phase \ {"gone"}
  BY DEF Phase
<1>1. CASE CallModel(n) \/ Continue(n) \/ Chat(n)
  <2>1. UNCHANGED <<planVars, requests, owed, approvedTask>> /\ lease' = lease
    BY <1>1 DEF CallModel, Continue, Chat, workVars, historyVars
  <2>2. /\ phase[n] # "gone" /\ active' = active
        /\ \E next \in Phase \ {"gone"} : phase' = [phase EXCEPT ![n] = next]
    BY <1>0, <1>1 DEF CallModel, Continue, Chat, MoveTo
  <2> QED BY <2>1, <2>2, StaysHired, QuietStep
<1>2. ASSUME NEW t \in Task, AutoClaim(n, t) PROVE PlanInv'
  <2>1. UNCHANGED <<planVars, requests, owed, approvedTask>>
    BY <1>2 DEF AutoClaim, Assign, historyVars
  <2>2. lease[n] = NoTask /\ \A m \in Mate \ {n} : lease'[m] = lease[m]
    BY <1>2 DEF AutoClaim, Assign, TypeOK
  <2>3. phase[n] # "gone" /\ active' = active /\ phase' = [phase EXCEPT ![n] = "ready"]
    BY <1>2 DEF AutoClaim, MoveTo
  <2> QED BY <1>0, <2>1, <2>2, <2>3, StaysHired, QuietStep
<1>3. CASE EndTurn(n)
  <2>1. phase[n] # "gone" /\ active' = active /\ phase' = [phase EXCEPT ![n] = "idle"]
    BY <1>3 DEF EndTurn, MoveTo
  <2>2. approvedTask' = approvedTask
    BY <1>3 DEF EndTurn
  <2>3. CASE gate[n] # "pending" /\ done[n]
    <3>1. /\ ReleaseLease(n) /\ gate' = [gate EXCEPT ![n] = Demand(n)]
          /\ owed' = [owed EXCEPT ![n] = @ \/ Demand(n) = "required"]
      BY <1>3, <2>3 DEF EndTurn
    <3>2. Demand(n) \in {"required", "not_required"}
      BY DEF Demand
    <3>3. owed[n] => Demand(n) = "required"
      BY DEF PlanInv, PlanIsOwed, Demand
    <3> DEFINE b == owed[n] \/ Demand(n) = "required"
    <3>4. b \in BOOLEAN /\ (b => Demand(n) = "required")
      BY <3>3
    <3>5. owed' = [owed EXCEPT ![n] = b]
      BY <3>1
    <3> HIDE DEF b
    <3>6. GateHasRequest' /\ ApprovedIsSettled' /\ PlanIsOwed' /\ ApprovalDiesWithWork'
      BY <2>2, <3>1, <3>2, <3>4, <3>5, ReleaseKeepsPlans
    <3>7. GoneIsClean'
      BY <1>0, <2>1, <3>1, StaysHired, ReleasedPlans DEF TypeOK, PlanInv, GoneIsClean
    <3> QED BY <3>6, <3>7 DEF PlanInv
  <2>4. CASE ~(gate[n] # "pending" /\ done[n])
    <3>1. UNCHANGED <<planVars, requests, owed, approvedTask>> /\ lease' = lease
      BY <1>3, <2>2, <2>4 DEF EndTurn
    <3> QED BY <1>0, <2>1, <3>1, StaysHired, QuietStep
  <2> QED BY <2>3, <2>4
<1>4. CASE LeaveWork(n)
  <2>1. phase[n] # "gone" /\ active' = active /\ phase' = [phase EXCEPT ![n] = "leaving"]
    BY <1>4 DEF LeaveWork, MoveTo
  <2>2. /\ ReleaseLease(n) /\ gate' = [gate EXCEPT ![n] = "not_required"]
        /\ owed' = [owed EXCEPT ![n] = FALSE] /\ approvedTask' = approvedTask
    BY <1>4 DEF LeaveWork
  <2>3. GateHasRequest' /\ ApprovedIsSettled' /\ PlanIsOwed' /\ ApprovalDiesWithWork'
    BY <2>2, ReleaseKeepsPlans
  <2>4. GoneIsClean'
    BY <1>0, <2>1, <2>2, StaysHired, ReleasedPlans DEF TypeOK, PlanInv, GoneIsClean
  <2> QED BY <2>3, <2>4 DEF PlanInv
<1>5. CASE LeaveTeam(n)
  <2>1. /\ active' = [active EXCEPT ![n] = "gone"]
        /\ phase' = [phase EXCEPT ![n] = "gone"]
        /\ gate' = [gate EXCEPT ![n] = "not_required"]
        /\ planReq' = [planReq EXCEPT ![n] = NoReq]
        /\ owed' = [owed EXCEPT ![n] = FALSE]
        /\ UNCHANGED <<lease, approvedTask>>
    BY <1>5 DEF LeaveTeam, MoveTo, workVars
  <2>2. \A r \in Req : \/ requests'[r] = requests[r] /\ ~(IsPlan(r) /\ requests[r].mate = n)
                       \/ requests'[r] = NoEntry /\ IsPlan(r) /\ requests[r].mate = n
                       \/ requests'[r] = NoEntry /\ IsStop(r)
    BY <1>5 DEF LeaveTeam, Without
  <2>3. /\ \A r \in Req : IsPlan(r)' <=> IsPlan(r) /\ requests[r].mate # n
        /\ \A r \in Req : IsPlan(r)' => requests'[r] = requests[r]
    BY <2>2 DEF IsPlan, IsStop
  <2>4. GateHasRequest' /\ ApprovedIsSettled'
    <3>1. /\ \A m \in Mate \ {n} : gate'[m] = gate[m]
          /\ \A m \in Mate \ {n} : owed'[m] = owed[m]
          /\ gate'[n] # "pending"
      BY <2>1 DEF TypeOK
    <3> QED BY <2>1, <2>3, <3>1, ClosePlan
  <2>5. PlanIsOwed' /\ ApprovalDiesWithWork' /\ GoneIsClean'
    BY <2>1 DEF TypeOK, PlanInv, PlanIsOwed, ApprovalDiesWithWork, GoneIsClean
  <2> QED BY <2>4, <2>5 DEF PlanInv
<1> QED BY <1>1, <1>2, <1>3, <1>4, <1>5

LEMMA ToolsKeepPlans ==
    ASSUME TypeOK, PlanInv, NEW n \in Mate, TeammateTools(n)
    PROVE  PlanInv'
<1>0. "model" \in Phase \ {"gone"}
  BY DEF Phase
<1>1. CASE SubmitPlan(n)
  <2>1. PICK r \in Unused :
           /\ requests' = [requests EXCEPT ![r] =
                             [type |-> "plan", mate |-> n, status |-> "pending",
                              version |-> version[n], task |-> lease[n]]]
           /\ planReq' = [planReq EXCEPT ![n] = r]
    BY <1>1 DEF SubmitPlan
  <2>2. r \in Req /\ requests[r] = NoEntry /\ r # NoReq
    BY TeamAssumption DEF Unused
  <2>3. /\ phase[n] = "model" /\ gate[n] # "pending"
        /\ gate' = [gate EXCEPT ![n] = "pending"]
        /\ UNCHANGED <<active, phase, lease, owed, approvedTask>>
    BY <1>1 DEF SubmitPlan, threadVars, workVars, historyVars
  <2>4. planReq[n] = NoReq
    BY <2>3 DEF PlanInv, GateHasRequest
  <2>5. [type |-> "plan", mate |-> n, status |-> "pending",
         version |-> version[n], task |-> lease[n]] # NoEntry
    BY TeamAssumption DEF TypeOK, PlanRequest
  <2>6. /\ requests'[r] # NoEntry /\ requests'[r].type = "plan"
        /\ requests'[r].mate = n /\ requests'[r].status = "pending"
        /\ \A q \in Req \ {r} : requests'[q] = requests[q]
    BY <2>1, <2>2, <2>5 DEF TypeOK
  <2>7. \A q \in Req \ {r} : IsPlan(q)' <=> IsPlan(q)
    BY <2>6 DEF IsPlan
  <2>8. ~ IsPlan(r)
    BY <2>2 DEF IsPlan
  <2>9. \A q \in Req : IsPlan(q) => requests[q].mate \in Mate \ {n}
    BY <2>4, OnePlan, RequestKinds, TeamAssumption DEF PlanRequest
  <2>10. GateHasRequest'
    <3>1. ASSUME NEW m \in Mate
          PROVE  /\ gate'[m] = "pending" <=> planReq'[m] # NoReq
                 /\ planReq'[m] # NoReq => IsPlan(planReq[m])' /\ requests'[planReq'[m]].mate = m
      <4>1. CASE m = n
        BY <2>1, <2>2, <2>3, <2>6, <4>1 DEF TypeOK, IsPlan
      <4>2. CASE m # n
        <5>1. planReq'[m] = planReq[m] /\ gate'[m] = gate[m]
          BY <2>1, <2>3, <4>2 DEF TypeOK
        <5>2. /\ gate[m] = "pending" <=> planReq[m] # NoReq
              /\ planReq[m] # NoReq => IsPlan(planReq[m]) /\ requests[planReq[m]].mate = m
          BY DEF PlanInv, GateHasRequest
        <5>3. planReq[m] # NoReq => planReq[m] \in Req \ {r}
          BY <2>8, <5>2 DEF TypeOK
        <5> QED BY <2>6, <5>1, <5>2, <5>3 DEF IsPlan
      <4> QED BY <4>1, <4>2
    <3>2. ASSUME NEW q \in Req, IsPlan(q)' PROVE planReq'[requests'[q].mate] = q
      <4>1. CASE q = r
        BY <2>1, <2>6, <4>1 DEF TypeOK
      <4>2. CASE q # r
        BY <2>1, <2>6, <2>7, <2>9, <3>2, <4>2 DEF TypeOK, PlanInv, GateHasRequest
      <4> QED BY <4>1, <4>2
    <3> QED BY <3>1, <3>2 DEF GateHasRequest, IsPlan
  <2>11. ApprovedIsSettled'
    BY <2>3, <2>6, <2>7 DEF PlanInv, ApprovedIsSettled
  <2>12. PlanIsOwed' /\ ApprovalDiesWithWork'
    BY <2>3 DEF TypeOK, PlanInv, PlanIsOwed, ApprovalDiesWithWork
  <2>13. GoneIsClean'
    BY <2>1, <2>3 DEF TypeOK, PlanInv, GoneIsClean
  <2> QED BY <2>10, <2>11, <2>12, <2>13 DEF PlanInv
<1>2. CASE SubmitPlanFails(n)
  <2>1. /\ planReq' = planReq /\ requests' = requests
        /\ gate[n] # "pending" /\ gate' = [gate EXCEPT ![n] = "required"]
        /\ UNCHANGED <<active, phase, lease, owed, approvedTask>>
    BY <1>2 DEF SubmitPlanFails, threadVars, workVars, historyVars
  <2>2. GateHasRequest'
    BY <2>1 DEF TypeOK, PlanInv, GateHasRequest, IsPlan
  <2>3. ApprovedIsSettled'
    BY <2>1 DEF PlanInv, ApprovedIsSettled, IsPlan
  <2>4. PlanIsOwed' /\ ApprovalDiesWithWork' /\ GoneIsClean'
    BY <2>1 DEF TypeOK, PlanInv, PlanIsOwed, ApprovalDiesWithWork, GoneIsClean
  <2> QED BY <2>2, <2>3, <2>4 DEF PlanInv
<1>3. ASSUME NEW t \in Task, ClaimTask(n, t) PROVE PlanInv'
  <2>1. UNCHANGED <<planVars, requests, owed, approvedTask>>
    BY <1>3 DEF ClaimTask, Assign, historyVars
  <2>2. lease[n] = NoTask /\ \A m \in Mate \ {n} : lease'[m] = lease[m]
    BY <1>3 DEF ClaimTask, Assign, TypeOK
  <2>3. phase[n] # "gone" /\ active' = active /\ phase' = phase
    BY <1>3 DEF ClaimTask
  <2> QED BY <1>0, <2>1, <2>2, <2>3, StaysHired, QuietStep
<1>4. CASE CompleteTask(n)
  <2>1. UNCHANGED <<planVars, requests, owed, approvedTask>> /\ lease' = lease
    BY <1>4 DEF CompleteTask, historyVars
  <2>2. phase[n] # "gone" /\ active' = active /\ phase' = phase
    BY <1>4 DEF CompleteTask, threadVars
  <2> QED BY <1>0, <2>1, <2>2, StaysHired, QuietStep
<1> QED BY <1>1, <1>2, <1>3, <1>4 DEF TeammateTools

LEMMA PlanInvariance == Spec => []PlanInv
<1>1. Init => PlanInv
  BY DEF Init, PlanInv, GateHasRequest, GoneIsClean, ApprovedIsSettled, PlanIsOwed,
         ApprovalDiesWithWork, IsPlan
<1>2. TypeOK /\ PlanInv /\ [Next]_vars => PlanInv'
  <2>1. TypeOK /\ PlanInv /\ UNCHANGED vars => PlanInv'
    BY SameRequestsSamePlans, SamePlansKeep
       DEF vars, threadVars, planVars, workVars, historyVars, PlanInv, GoneIsClean,
           ApprovalDiesWithWork
  <2>2. ASSUME TypeOK, PlanInv, NEW n \in Mate, TeammateLoop(n) PROVE PlanInv'
    BY <2>2, MailKeepsPlans, LoopKeepsPlans DEF TeammateLoop
  <2> QED BY <2>1, <2>2, LeadKeepsPlans, ToolsKeepPlans DEF Next
<1> QED BY <1>1, <1>2, TypeCorrect, PTL DEF Spec

\* A pending gate always has its plan in the lead's table, and every plan in
\* that table has a teammate that waits for it: submissions, decisions,
\* releases and departures of any number of teammates never let the tables
\* drift apart.
THEOREM GatesHaveRequests == Spec => []GateHasRequest
<1>1. PlanInv => GateHasRequest
  BY DEF PlanInv
<1> QED BY <1>1, PlanInvariance, PTL

\* After the lead asks for a plan the gate stays closed until the lead has
\* approved one; neither an older decision nor a new task opens it.
THEOREM PlansAreOwed == Spec => []PlanIsOwed
<1>1. PlanInv => PlanIsOwed
  BY DEF PlanInv
<1> QED BY <1>1, PlanInvariance, PTL

\* What was approved for one task is void for the next.
THEOREM ApprovalsDie == Spec => []ApprovalDiesWithWork
<1>1. PlanInv => ApprovalDiesWithWork
  BY DEF PlanInv
<1> QED BY <1>1, PlanInvariance, PTL
=============================================================================
