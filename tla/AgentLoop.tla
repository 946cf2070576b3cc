----------------------------- MODULE AgentLoop -----------------------------
(***************************************************************************)
(* The shared session: the message list, the turns that rewrite it         *)
(* (loop.py, compact/index.py) and the two threads that start them, the    *)
(* CLI (main.py) and the queue processor of the cron scheduler.            *)
(*                                                                         *)
(* A turn runs under agent_lock.  It is a sequence of rounds: inject the   *)
(* results of background commands, compact, call the provider, run the     *)
(* tools or ask the goal gate.  Only the wake branch of the CLI touches    *)
(* the list without the lock.                                              *)
(*                                                                         *)
(* What a message says is left out; a message carries the inputs, events,  *)
(* firings and commands it is about (refs).  The prompts a turn collects   *)
(* from cron_queue enter and leave the list together and are one message   *)
(* here.  The text of tool results, and with it tool_budget_result and     *)
(* micro_compact, memories and telemetry do not appear.                    *)
(***************************************************************************)
EXTENDS BackgroundShell, GoalGate, SequencesExt

CONSTANTS
    Input,          \* user inputs
    Event,          \* batches of team events, as consume_lead_inbox returns
    Firing,         \* firings of cron jobs
    MaxCalls,       \* bound on the tool calls of one response
    MaxHistory,     \* bound: the provider answers only below this length
    TodoRounds,     \* rounds without a reminder (3 in the code)
    LongHistory     \* more messages are summarised by reactive_compact (10)

ASSUME LoopAssumption ==
    /\ MaxCalls \in Nat /\ MaxHistory \in Nat
    /\ TodoRounds \in Nat \ {0} /\ LongHistory \in Nat
    /\ Input \cap Event = {} /\ Input \cap Firing = {} /\ Input \cap Command = {}
    /\ Event \cap Firing = {} /\ Event \cap Command = {} /\ Firing \cap Command = {}

VARIABLES
    history,        \* the message list
    snapshot,       \* how many messages the compaction in progress was given
    lock,           \* the thread that holds agent_lock
    woken,          \* the CLI has appended team events and wants a turn
    processor,      \* the queue processor's thread is alive
    pc,             \* where the running turn is
    pending,        \* tool calls of the last response not yet handled
    todo,           \* rounds_since_todo
    queue,          \* cron_queue
    fired,          \* the firings the turn collected
    accepted,       \* cron_delivery_state["model_accepted"]
    completed,      \* LoopExecutionResult.completed of the turn that ends
    typed, consumed, due,   \* history: inputs, events and firings so far
    answered,       \* history: firings in a request the provider answered
    voided,         \* history: firings in a request answered without a message
    settled,        \* history: firings acknowledged
    gone            \* history: what /clear removed and summaries left out

turnVars == <<snapshot, pc, pending, todo, accepted, completed>>
cronVars == <<queue, fired, due, answered, voided, settled>>
cliVars == <<woken, typed, consumed>>
vars == <<history, lock, processor, turnVars, cronVars, cliVars, gone, stage, goalVars>>

Ref == Input \cup Event \cup Firing \cup Command
Call == {"tool", "bad"}     \* bad: the arguments are not JSON
Kind == {"system", "user", "event", "scheduled", "notice", "reminder", "nudge",
         "assistant", "tool", "summary"}
\* copy: the prompt is no longer the object that was appended; nobody compares
\* the other messages.
Message == [kind : Kind, refs : SUBSET Ref, calls : Seq(Call), copy : BOOLEAN]

Fresh(kind, refs, calls) ==
    [kind |-> kind, refs |-> refs, calls |-> calls, copy |-> FALSE]
Note(kind, refs) == Fresh(kind, refs, <<>>)
Assistant(calls) == Fresh("assistant", {}, calls)
ToolResult(call) == Fresh("tool", {}, <<call>>)

Refs(h) == UNION {h[i].refs : i \in DOMAIN h}

TypeOK ==
    /\ history \in Seq(Message) /\ history # <<>>
    /\ snapshot \in Nat /\ gone \subseteq Ref
    /\ lock \in {"free", "cli", "processor"}
    /\ pc \in {"idle", "round", "compacting", "asking", "recompacting",
               "retrying", "tools", "gate", "ended"}
    /\ (lock = "free") <=> (pc = "idle")
    /\ pending \in Seq(Call)
    /\ (pc = "tools") <=> (pending # <<>>)
    /\ todo \in 0..TodoRounds
    /\ queue \subseteq due /\ fired \subseteq due /\ due \subseteq Firing
    /\ answered \subseteq due /\ voided \subseteq due /\ settled \subseteq due
    /\ typed \subseteq Input /\ consumed \subseteq Event
    /\ woken \in BOOLEAN /\ processor \in BOOLEAN
    /\ accepted \in BOOLEAN /\ completed \in BOOLEAN
    /\ stage \in [Command -> Stage]
    /\ GoalTypeOK

Init ==
    /\ history = <<Note("system", {})>>
    /\ snapshot = 0 /\ gone = {}
    /\ lock = "free" /\ woken = FALSE /\ processor = TRUE
    /\ pc = "idle" /\ pending = <<>> /\ todo = 0
    /\ queue = {} /\ fired = {} /\ accepted = FALSE /\ completed = FALSE
    /\ typed = {} /\ consumed = {} /\ due = {}
    /\ answered = {} /\ voided = {} /\ settled = {}
    /\ ShellInit
    /\ GoalInit

-----------------------------------------------------------------------------
(***************************************************************************)
(* The threads that start turns.                                           *)
(***************************************************************************)
AtPrompt == ~woken /\ lock # "cli"      \* the CLI waits for the user or mail

\* agent_loop collects the queue and appends its prompts behind whatever the
\* caller has appended.
BeginTurn(thread, messages) ==
    /\ lock = "free"
    /\ lock' = thread
    /\ fired' = queue
    /\ queue' = {}
    /\ history' = IF queue = {} THEN messages
                  ELSE Append(messages, Note("scheduled", queue))
    /\ pc' = "round"
    /\ todo' = 0
    /\ accepted' = FALSE
    /\ completed' = FALSE
    /\ UNCHANGED <<snapshot, gone, pending, processor, due, answered, voided,
                   settled, stage>>

StartUserTurn(u) ==
    /\ AtPrompt
    /\ u \notin typed
    /\ typed' = typed \cup {u}
    /\ BeginTurn("cli", Append(history, Note("user", {u})))
    /\ IF mode = "goal" THEN AcceptInput ELSE UNCHANGED goalVars
    /\ UNCHANGED <<woken, consumed>>

\* The CLI takes the lead's mail and appends it, whoever holds agent_lock.
Wake(e) ==
    /\ AtPrompt
    /\ e \notin consumed
    /\ consumed' = consumed \cup {e}
    /\ history' = Append(history, Note("event", {e}))
    /\ woken' = TRUE
    /\ UNCHANGED <<lock, processor, turnVars, cronVars, typed, gone, stage,
                   goalVars>>

StartWakeTurn ==
    /\ woken
    /\ woken' = FALSE
    /\ BeginTurn("cli", history)
    /\ UNCHANGED <<typed, consumed, goalVars>>

StartCronTurn ==
    /\ processor
    /\ queue # {}
    /\ BeginTurn("processor", history)
    /\ UNCHANGED <<woken, typed, consumed, goalVars>>

\* /clear keeps the system message.
Clear ==
    /\ AtPrompt
    /\ lock = "free"
    /\ history' = SubSeq(history, 1, 1)
    /\ gone' = gone \cup Refs(history)
    /\ UNCHANGED <<lock, processor, turnVars, cronVars, cliVars, stage, goalVars>>

\* /mode: the controller forgets its goal, also while a cron turn runs.
ToggleMode ==
    /\ AtPrompt
    /\ SwitchMode
    /\ UNCHANGED <<history, lock, processor, turnVars, cronVars, cliVars, gone, stage>>

\* The poller puts a firing into the queue (CronScheduler has its rules).
Fire(f) ==
    /\ f \notin due
    /\ due' = due \cup {f}
    /\ queue' = queue \cup {f}
    /\ UNCHANGED <<history, lock, processor, turnVars, fired, answered, voided,
                   settled, cliVars, gone, stage, goalVars>>

CommandEnds(c) ==
    /\ FinishCommand(c)
    /\ UNCHANGED <<history, lock, processor, turnVars, cronVars, cliVars, gone,
                   goalVars>>

-----------------------------------------------------------------------------
(***************************************************************************)
(* The start of a round.                                                   *)
(***************************************************************************)
outsideTurn == <<lock, processor, cronVars, cliVars>>
compaction == <<snapshot, gone>>

EndTurn(done) ==
    /\ pc' = "ended"
    /\ completed' = done

\* inject_background_results.
WithNotices == IF At("ready") = {} THEN history
               ELSE Append(history, Note("notice", At("ready")))
WithReminder == IF todo >= TodoRounds
                THEN Append(WithNotices, Note("reminder", {})) ELSE WithNotices

Prepare ==
    /\ pc = "round"
    /\ CollectReady
    /\ history' = WithReminder
    /\ todo' = IF todo >= TodoRounds THEN 0 ELSE todo
    /\ \/ pc' = "asking" /\ UNCHANGED snapshot
       \/ pc' = "compacting" /\ snapshot' = Len(WithReminder)
    /\ UNCHANGED <<outsideTurn, gone, pending, accepted, completed, goalVars>>

\* load_memories or the tokenizer raises.
PrepareFails ==
    /\ pc = "round"
    /\ CollectReady
    /\ \/ history' = WithNotices /\ UNCHANGED todo
       \/ history' = WithReminder /\ todo' = IF todo >= TodoRounds THEN 0 ELSE todo
    /\ EndTurn(FALSE)
    /\ UNCHANGED <<outsideTurn, compaction, pending, accepted, goalVars>>

\* compact_history replaces the list as it stands by now.  The system message
\* stays, and the summary is about the first n messages: summarize_history cuts
\* the list it was given at 80000 characters, and a message that is cut within
\* counts as left out.
Compacted(n) == <<history[1], Note("summary", Refs(SubSeq(history, 1, n)))>>

LeftOut(n) == Refs(SubSeq(history, n + 1, snapshot)) \ Refs(SubSeq(history, 1, n))

EndCompaction ==
    /\ \/ pc = "compacting" /\ pc' = "asking"
       \/ pc = "recompacting" /\ pc' = "retrying"
    /\ \E n \in 1..snapshot : /\ history' = Compacted(n)
                              /\ gone' = gone \cup LeftOut(n)
    /\ snapshot' = 0
    /\ UNCHANGED <<outsideTurn, pending, todo, accepted, completed, stage, goalVars>>

CompactionFails ==
    /\ pc \in {"compacting", "recompacting"}
    /\ EndTurn(FALSE)
    /\ snapshot' = 0
    /\ UNCHANGED <<outsideTurn, history, gone, pending, todo, accepted, stage,
                   goalVars>>

-----------------------------------------------------------------------------
(***************************************************************************)
(* The call of the provider.  retry_with_backoff is inside the call.       *)
(***************************************************************************)
AtProvider == pc \in {"asking", "retrying"}

ProviderFails ==
    /\ AtProvider
    /\ EndTurn(FALSE)
    /\ UNCHANGED <<outsideTurn, history, compaction, pending, todo, accepted, stage,
                   goalVars>>

\* reactive_compact after a context overflow: every message becomes a copy, and
\* a long list is summarised as well.
Copy(m) == [m EXCEPT !.copy = (m.kind = "scheduled")]

Overflow ==
    /\ pc = "asking"
    /\ IF Len(history) > LongHistory
       THEN /\ pc' = "recompacting"
            /\ snapshot' = Len(history)
            /\ UNCHANGED history
       ELSE /\ pc' = "retrying"
            /\ history' = [i \in DOMAIN history |-> Copy(history[i])]
            /\ UNCHANGED snapshot
    /\ UNCHANGED <<outsideTurn, gone, pending, todo, accepted, completed, stage,
                   goalVars>>

\* Mutant of Accept: a collected prompt counts as delivered only when the turn
\* completes.
AcceptLater ==
    /\ answered' = answered \cup (Refs(history) \cap Firing)
    /\ UNCHANGED <<voided, accepted>>

\* From here on the turn settles its firings, however it ends.
Accept ==
    /\ answered' = answered \cup (Refs(history) \cap Firing)
    /\ accepted' = (accepted \/ fired # {})
    /\ UNCHANGED voided

\* The gate is asked for every turn of the CLI in goal mode with a goal, also
\* for one that was completed or blocked before.
Judged == lock = "cli" /\ mode = "goal" /\ goal.active

\* A response without tool calls; a truncated one ends the turn at once.
Reply(truncated) ==
    /\ AtProvider
    /\ Len(history) < MaxHistory
    /\ Accept
    /\ history' = Append(history, Assistant(<<>>))
    /\ IF ~truncated /\ Judged
       THEN pc' = "gate" /\ UNCHANGED completed
       ELSE EndTurn(~truncated)
    /\ UNCHANGED <<lock, processor, queue, fired, due, settled, cliVars, compaction,
                   pending, todo, stage, goalVars>>

ReplyWithCalls(calls) ==
    /\ AtProvider
    /\ Len(history) < MaxHistory
    /\ Accept
    /\ history' = Append(history, Assistant(calls))
    /\ todo' = todo + 1
    /\ pending' = calls
    /\ pc' = "tools"
    /\ UNCHANGED <<lock, processor, queue, fired, due, settled, cliVars, compaction,
                   completed, stage, goalVars>>

\* A response without choices counts as accepted before it raises.  The
\* exception ends the queue processor; in the CLI it ends the program, which is
\* left to CronScheduler.
EmptyReply ==
    /\ AtProvider
    /\ lock = "processor"
    /\ voided' = voided \cup (Refs(history) \cap Firing)
    /\ accepted' = (accepted \/ fired # {})
    /\ EndTurn(FALSE)
    /\ processor' = FALSE
    /\ UNCHANGED <<lock, queue, fired, due, answered, settled, cliVars, history,
                   compaction, pending, todo, stage, goalVars>>

-----------------------------------------------------------------------------
(***************************************************************************)
(* Tools, the goal gate and the end of a turn.                             *)
(***************************************************************************)
\* The calls a response makes up to the first that cannot be decoded.
Decodable(calls) ==
    {k \in DOMAIN calls : \A j \in 1..k : calls[j] # "bad"}

\* One call: refused by the allowlist or a hook, failed or done, it leaves one
\* result.  It may be a command for the background, and start.
RunCall ==
    /\ pc = "tools"
    /\ Head(pending) # "bad"
    /\ history' = Append(history, ToolResult(Head(pending)))
    /\ pending' = Tail(pending)
    /\ pc' = IF Tail(pending) = <<>> THEN "round" ELSE "tools"
    /\ (\E c \in Command : StartCommand(c)) \/ UNCHANGED stage
    /\ UNCHANGED <<outsideTurn, compaction, todo, accepted, completed, goalVars>>

\* Mutant of InvalidCall: the call is skipped.
SkipInvalidCall ==
    /\ pc = "tools"
    /\ Head(pending) = "bad"
    /\ pending' = Tail(pending)
    /\ pc' = IF Tail(pending) = <<>> THEN "round" ELSE "tools"
    /\ UNCHANGED <<outsideTurn, history, compaction, todo, accepted, completed, stage,
                   goalVars>>

\* A call that cannot be decoded ends the turn, with the rest unanswered.
InvalidCall ==
    /\ pc = "tools"
    /\ Head(pending) = "bad"
    /\ pending' = <<>>
    /\ EndTurn(FALSE)
    /\ UNCHANGED <<outsideTurn, history, compaction, todo, accepted, stage, goalVars>>

Gate(verdict) ==
    /\ pc = "gate"
    /\ EvaluateStop(verdict)
    /\ IF Continues(verdict)
       THEN /\ history' = Append(history, Note("nudge", {}))
            /\ pc' = "round"
            /\ UNCHANGED completed
       ELSE /\ EndTurn(verdict = "ok")
            /\ UNCHANGED history
    /\ UNCHANGED <<outsideTurn, compaction, pending, todo, accepted, stage>>

\* _remove_messages compares by identity.
IsPrompt(m) == m.kind = "scheduled" /\ ~m.copy /\ m.refs \cap fired # {}
PromptAt == {i \in DOMAIN history : IsPrompt(history[i])}

\* Mutant of WithoutPrompt: the list is cut where the failed turn began, and the
\* user's input goes with the prompts behind it.
WithoutTurn ==
    IF PromptAt = {} THEN history
    ELSE SubSeq(history, 1, Min(PromptAt) - (IF lock = "cli" THEN 2 ELSE 1))

WithoutPrompt ==
    IF PromptAt = {} THEN history
    ELSE RemoveAt(history, CHOOSE i \in PromptAt : TRUE)

\* Mutant of Withdraw: the prompts stay in the list.
WithdrawFromQueueOnly ==
    /\ queue' = queue \cup fired
    /\ UNCHANGED <<history, settled>>

Withdraw ==
    /\ queue' = queue \cup fired
    /\ history' = WithoutPrompt
    /\ UNCHANGED settled

\* Mutant of Release: the thread keeps the lock.
KeepLock == UNCHANGED lock

Release == lock' = "free"

\* The end of agent_loop and of its locals: acknowledge_cron_jobs or
\* restore_cron_jobs.
Settle ==
    /\ pc = "ended"
    /\ IF completed \/ accepted
       THEN settled' = settled \cup fired /\ UNCHANGED <<queue, history>>
       ELSE Withdraw
    /\ Release
    /\ pc' = "idle"
    /\ fired' = {} /\ todo' = 0
    /\ accepted' = FALSE /\ completed' = FALSE
    /\ UNCHANGED <<processor, due, answered, voided, cliVars, compaction, pending,
                   stage, goalVars>>

CallLists == UNION {[1..n -> Call] : n \in 1..MaxCalls}

TurnSteps ==
    \/ Prepare \/ PrepareFails \/ EndCompaction \/ CompactionFails
    \/ ProviderFails \/ Overflow \/ EmptyReply
    \/ \E truncated \in BOOLEAN : Reply(truncated)
    \/ \E calls \in CallLists : ReplyWithCalls(calls)
    \/ RunCall \/ InvalidCall
    \/ \E verdict \in Verdict : Gate(verdict)
    \/ Settle

Next ==
    \/ \E u \in Input : StartUserTurn(u)
    \/ \E e \in Event : Wake(e)
    \/ \E f \in Firing : Fire(f)
    \/ \E c \in Command : CommandEnds(c)
    \/ StartWakeTurn \/ StartCronTurn \/ Clear \/ ToggleMode
    \/ TurnSteps

Spec == Init /\ [][Next]_vars

-----------------------------------------------------------------------------
(***************************************************************************)
(* Properties.                                                             *)
(***************************************************************************)
\* Between i and j stand only team events, which the CLI may append anywhere.
Behind(h, i, j) == i < j /\ \A l \in (i + 1)..(j - 1) : h[l].kind = "event"

Responses(h) == {i \in DOMAIN h : h[i].kind = "assistant"}

\* Where the results of the calls K of response i may be found: each right behind
\* the one before, the first behind the response.
Results(h, i, K) ==
    {at \in [K -> DOMAIN h] : \A k \in K :
        /\ Behind(h, IF k = 1 THEN i ELSE at[k - 1], at[k])
        /\ h[at[k]].kind = "tool" /\ h[at[k]].calls = <<h[i].calls[k]>>}

\* Whenever the provider is called, the results of a response's calls stand
\* right behind it and in order, as far as the calls could be decoded, and no
\* result stands anywhere else: whatever compaction, reminders, notices and
\* failed turns did to the list before (execute_agent_loop; a provider rejects
\* a list that breaks this).
CallsAnswered ==
    AtProvider =>
    LET Answers(i) == Results(history, i, Decodable(history[i].calls))
    IN  /\ \A i \in Responses(history) : Answers(i) # {}
        /\ \A j \in DOMAIN history : history[j].kind = "tool" =>
              \E i \in Responses(history) : \E at \in Answers(i) : j \in Range(at)

\* A firing in the queue has been in no request that got a response, so it is
\* delivered for the first time; and one that is settled has been in one, or a
\* summary has left it out: behind the 80000 characters the code loses a prompt
\* before any request and settles it all the same (agent_loop's settlement,
\* under failures, retries, compaction and turns of both threads).
DeliveredOnce ==
    /\ queue \cap (answered \cup voided) = {}
    /\ settled \subseteq answered \cup voided \cup gone

\* A prompt that goes back to the queue leaves no message of its own behind, so
\* its next delivery does not double it.  Copies made by reactive_compact are
\* out of _remove_messages' reach: they stay (loop.py:126 and 343).
RestoredIsWithdrawn ==
    \A i \in DOMAIN history :
        history[i].kind = "scheduled" /\ ~history[i].copy =>
            history[i].refs \cap queue = {}

\* The result of a background command is collected if and only if it is in the
\* list, in its summary, was there when the user cleared it or was left out of a
\* summary, and never in two of these or in two messages: also when the turn
\* that collected it fails (inject_background_results, compact_history).
NoticeOnce ==
    /\ At("collected") = (Refs(history) \cup gone) \cap Command
    /\ At("collected") \cap gone \cap Refs(history) = {}
    /\ \A i, j \in DOMAIN history :
           i # j => history[i].refs \cap history[j].refs \cap Command = {}

\* Nobody calls a goal done that is not: a turn the goal gate judged ends as
\* completed only with the goal completed, and a completed goal has had no input
\* since its verdict (execute_agent_loop and GoalController, over turns of users,
\* team events and cron).
GoalVerdict ==
    /\ pc = "ended" /\ completed /\ lock = "cli" /\ mode = "goal" /\ goal.active
           => goal.status = "completed"
    /\ goal.active /\ goal.status = "completed" => ~unjudged

\* Every input of the user, and every firing in a request that was answered, is
\* in the list or in its summary, unless the user cleared it or a summary left
\* it out: no failed compaction, failed turn, retry or withdrawn prompt loses
\* one, and no compaction one it was given (execute_agent_loop, compact_history,
\* _remove_messages).
InputsSurvive == typed \cup answered \subseteq Refs(history) \cup gone

\* Team events enter the session like any other input: what the CLI took from
\* the mailbox is in the list or in its summary, unless the user cleared it or a
\* summary left it out.
EventsSurvive == consumed \subseteq Refs(history) \cup gone
=============================================================================
