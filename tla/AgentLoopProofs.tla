-------------------------- MODULE AgentLoopProofs --------------------------
(***************************************************************************)
(* Proofs about AgentLoop, for any inputs, events, firings and commands,   *)
(* and any bounds.                                                         *)
(***************************************************************************)
EXTENDS AgentLoop, SequenceTheorems, TLAPS

-----------------------------------------------------------------------------
(***************************************************************************)
(* What the operations on the message list do to it.                       *)
(***************************************************************************)
LEMMA NoteTypes ==
    /\ \A kind \in Kind, refs \in SUBSET Ref :
          /\ Note(kind, refs) \in Message
          /\ Note(kind, refs).kind = kind /\ Note(kind, refs).refs = refs
          /\ Note(kind, refs).copy = FALSE
    /\ \A calls \in Seq(Call) :
          /\ Assistant(calls) \in Message
          /\ Assistant(calls).kind = "assistant" /\ Assistant(calls).refs = {}
    /\ \A call \in Call :
          /\ ToolResult(call) \in Message
          /\ ToolResult(call).kind = "tool" /\ ToolResult(call).refs = {}
<1>1. \A kind \in Kind, refs \in SUBSET Ref, calls \in Seq(Call) :
         /\ Fresh(kind, refs, calls) \in Message
         /\ Fresh(kind, refs, calls).kind = kind
         /\ Fresh(kind, refs, calls).refs = refs
         /\ Fresh(kind, refs, calls).copy = FALSE
  BY DEF Fresh, Message
<1>2. <<>> \in Seq(Call) /\ \A call \in Call : <<call>> \in Seq(Call)
  OBVIOUS
<1>3. "assistant" \in Kind /\ "tool" \in Kind /\ {} \in SUBSET Ref
  BY DEF Kind
<1>4. ASSUME NEW kind \in Kind, NEW refs \in SUBSET Ref
      PROVE  /\ Note(kind, refs) \in Message
             /\ Note(kind, refs).kind = kind /\ Note(kind, refs).refs = refs
             /\ Note(kind, refs).copy = FALSE
  <2> DEFINE none == <<>>
  <2>1. none \in Seq(Call) /\ Note(kind, refs) = Fresh(kind, refs, none)
    BY <1>2 DEF Note
  <2> HIDE DEF none
  <2> QED BY <2>1, <1>1
<1>5. ASSUME NEW calls \in Seq(Call)
      PROVE  /\ Assistant(calls) \in Message
             /\ Assistant(calls).kind = "assistant" /\ Assistant(calls).refs = {}
  BY <1>1, <1>3 DEF Assistant
<1>6. ASSUME NEW call \in Call
      PROVE  /\ ToolResult(call) \in Message
             /\ ToolResult(call).kind = "tool" /\ ToolResult(call).refs = {}
  <2> DEFINE one == <<call>>
  <2>1. one \in Seq(Call) /\ ToolResult(call) = Fresh("tool", {}, one)
    BY <1>2 DEF ToolResult
  <2> HIDE DEF one
  <2> QED BY <2>1, <1>1, <1>3
<1> QED BY <1>4, <1>5, <1>6

LEMMA Appended ==
    ASSUME NEW h \in Seq(Message), NEW m \in Message
    PROVE  /\ Append(h, m) \in Seq(Message) /\ Append(h, m) # <<>>
           /\ Len(Append(h, m)) = Len(h) + 1
           /\ \A i \in DOMAIN h : Append(h, m)[i] = h[i]
           /\ Append(h, m)[Len(h) + 1] = m
           /\ DOMAIN Append(h, m) = DOMAIN h \cup {Len(h) + 1}
           /\ Refs(Append(h, m)) = Refs(h) \cup m.refs
<1> DEFINE g == Append(h, m)
<1>1. /\ g \in Seq(Message) /\ g # <<>>
      /\ Len(g) = Len(h) + 1
      /\ \A i \in DOMAIN h : g[i] = h[i]
      /\ g[Len(h) + 1] = m
      /\ DOMAIN g = DOMAIN h \cup {Len(h) + 1}
  OBVIOUS
<1>2. Refs(g) = Refs(h) \cup m.refs
  BY <1>1 DEF Refs
<1> QED BY <1>1, <1>2

\* Two messages: a summary behind the system message.
LEMMA Paired ==
    ASSUME NEW a \in Message, NEW b \in Message
    PROVE  /\ <<a, b>> \in Seq(Message) /\ <<a, b>> # <<>>
           /\ DOMAIN <<a, b>> = {1, 2}
           /\ <<a, b>>[1] = a /\ <<a, b>>[2] = b
           /\ Refs(<<a, b>>) = a.refs \cup b.refs
<1>1. DOMAIN <<a, b>> = {1, 2} /\ <<a, b>>[1] = a /\ <<a, b>>[2] = b
  OBVIOUS
<1>2. Refs(<<a, b>>) = a.refs \cup b.refs
  BY <1>1 DEF Refs
<1>3. <<a, b>> \in Seq(Message) /\ <<a, b>> # <<>>
  OBVIOUS
<1> QED BY <1>1, <1>2, <1>3

LEMMA Shortened ==
    ASSUME NEW h \in Seq(Message), h # <<>>
    PROVE  /\ SubSeq(h, 1, 1) \in Seq(Message) /\ SubSeq(h, 1, 1) # <<>>
           /\ DOMAIN SubSeq(h, 1, 1) = {1} /\ SubSeq(h, 1, 1)[1] = h[1]
           /\ Refs(SubSeq(h, 1, 1)) = h[1].refs
<1>1. /\ SubSeq(h, 1, 1) \in Seq(Message) /\ SubSeq(h, 1, 1) # <<>>
      /\ DOMAIN SubSeq(h, 1, 1) = {1} /\ SubSeq(h, 1, 1)[1] = h[1]
  OBVIOUS
<1>2. Refs(SubSeq(h, 1, 1)) = h[1].refs
  BY <1>1 DEF Refs
<1> QED BY <1>1, <1>2

AsCopies(h) == [i \in DOMAIN h |-> Copy(h[i])]

LEMMA Copied ==
    ASSUME NEW h \in Seq(Message), h # <<>>
    PROVE  /\ AsCopies(h) \in Seq(Message) /\ AsCopies(h) # <<>>
           /\ DOMAIN AsCopies(h) = DOMAIN h
           /\ \A i \in DOMAIN h : /\ h[i].kind = "scheduled" => AsCopies(h)[i].copy
                                  /\ AsCopies(h)[i].kind = h[i].kind
                                  /\ AsCopies(h)[i].refs = h[i].refs
           /\ Refs(AsCopies(h)) = Refs(h)
<1> DEFINE g == AsCopies(h)
<1>1. \A i \in DOMAIN h : h[i] \in Message
  OBVIOUS
<1>2. \A m \in Message : /\ Copy(m) \in Message
                         /\ m.kind = "scheduled" => Copy(m).copy
                         /\ Copy(m).kind = m.kind
                         /\ Copy(m).refs = m.refs
  BY DEF Copy, Message
<1>3. /\ DOMAIN g = DOMAIN h
      /\ \A i \in DOMAIN h : g[i] \in Message
                             /\ (h[i].kind = "scheduled" => g[i].copy)
                             /\ g[i].kind = h[i].kind /\ g[i].refs = h[i].refs
  BY <1>1, <1>2 DEF AsCopies
<1>4. g \in Seq(Message) /\ g # <<>>
  <2>1. DOMAIN h = 1..Len(h) /\ Len(h) \in Nat
    OBVIOUS
  <2>2. g = [i \in 1..Len(h) |-> g[i]] /\ \A i \in 1..Len(h) : g[i] \in Message
    BY <1>3, <2>1 DEF AsCopies
  <2>3. g \in Seq(Message)
    BY <2>1, <2>2, IsASeq
  <2>4. g # <<>>
    BY <1>3, <2>1
  <2> QED BY <2>3, <2>4
<1>5. Refs(g) = Refs(h)
  BY <1>3 DEF Refs
<1> QED BY <1>3, <1>4, <1>5

LEMMA Removed ==
    ASSUME NEW h \in Seq(Message), NEW i \in DOMAIN h
    PROVE  /\ RemoveAt(h, i) \in Seq(Message)
           /\ DOMAIN RemoveAt(h, i) = 1..(Len(h) - 1)
           /\ \A k \in 1..(Len(h) - 1) :
                 RemoveAt(h, i)[k] = IF k < i THEN h[k] ELSE h[k + 1]
<1> DEFINE a == SubSeq(h, 1, i - 1)  b == SubSeq(h, i + 1, Len(h))
<1>1. i \in 1..Len(h) /\ Len(h) \in Nat
  OBVIOUS
<1>2. /\ a \in Seq(Message) /\ Len(a) = i - 1
      /\ \A k \in 1..(i - 1) : a[k] = h[k]
  BY <1>1, SubSeqProperties
<1>3. /\ b \in Seq(Message) /\ Len(b) = Len(h) - i
      /\ \A k \in 1..(Len(h) - i) : b[k] = h[k + i]
  BY <1>1, SubSeqProperties
<1> DEFINE c == a \o b
<1>4. c = RemoveAt(h, i)
  BY DEF RemoveAt
<1> HIDE DEF a, b
<1>5. /\ c \in Seq(Message) /\ Len(c) = Len(a) + Len(b)
      /\ \A k \in 1..(Len(a) + Len(b)) :
             c[k] = IF k <= Len(a) THEN a[k] ELSE b[k - Len(a)]
  BY <1>2, <1>3, ConcatProperties
<1> HIDE DEF c
<1>6. Len(c) = Len(h) - 1 /\ DOMAIN c = 1..(Len(h) - 1)
  BY <1>1, <1>2, <1>3, <1>5
<1>7. \A k \in 1..(Len(h) - 1) : c[k] = IF k < i THEN h[k] ELSE h[k + 1]
  <2> SUFFICES ASSUME NEW k \in 1..(Len(h) - 1)
               PROVE  c[k] = IF k < i THEN h[k] ELSE h[k + 1]
    OBVIOUS
  <2>1. CASE k < i
    BY <1>1, <1>2, <1>3, <1>5, <2>1
  <2>2. CASE ~(k < i)
    <3>1. k - Len(a) \in 1..(Len(h) - i) /\ (k - Len(a)) + i = k + 1
      BY <1>1, <1>2, <2>2
    <3>2. b[k - Len(a)] = h[k + 1]
      BY <1>3, <3>1
    <3>3. c[k] = b[k - Len(a)]
      <4>1. k \in 1..(Len(a) + Len(b)) /\ ~(k <= Len(a))
        BY <1>1, <1>2, <1>3, <2>2
      <4> QED BY <1>5, <4>1
    <3> QED BY <2>2, <3>2, <3>3
  <2> QED BY <2>1, <2>2
<1> QED BY <1>4, <1>5, <1>6, <1>7

-----------------------------------------------------------------------------
(***************************************************************************)
(* Types.  The list always starts with the system message, which no other  *)
(* message removes, and the reminder keeps the count of rounds bounded.    *)
(***************************************************************************)
Fine(h) == /\ h \in Seq(Message) /\ h # <<>>
           /\ h[1].kind = "system" /\ h[1].refs = {}

AboutToAsk == pc \in {"compacting", "asking", "recompacting", "retrying"}

OtherTypes ==
    /\ snapshot \in Nat /\ gone \subseteq Ref
    /\ lock \in {"free", "cli", "processor"}
    /\ pc \in {"idle", "round", "compacting", "asking", "recompacting",
               "retrying", "tools", "gate", "ended"}
    /\ (lock = "free") <=> (pc = "idle")
    /\ todo \in 0..TodoRounds
    /\ queue \subseteq due /\ fired \subseteq due /\ due \subseteq Firing
    /\ answered \subseteq due /\ voided \subseteq due /\ settled \subseteq due
    /\ typed \subseteq Input /\ consumed \subseteq Event
    /\ woken \in BOOLEAN /\ processor \in BOOLEAN
    /\ accepted \in BOOLEAN /\ completed \in BOOLEAN
    /\ stage \in [Command -> Stage]
    /\ GoalTypeOK

Calling == pending \in Seq(Call) /\ ((pc = "tools") <=> (pending # <<>>))

\* A firing in the list has been due.
RefsDue == Refs(history) \cap Firing \subseteq due

Compacting == pc \in {"compacting", "recompacting"}

\* What comes into the list behind the messages that are being summarised is
\* about team events.
Late ==
    Compacting => /\ snapshot \in 1..Len(history)
                  /\ \A i \in DOMAIN history :
                         i > snapshot => history[i].refs \subseteq Event

Base ==
    /\ Fine(history)
    /\ OtherTypes
    /\ Calling
    /\ AboutToAsk => todo < TodoRounds
    /\ RefsDue
    /\ Late

LEMMA FineAppended ==
    ASSUME NEW h, Fine(h), NEW m \in Message
    PROVE  Fine(Append(h, m)) /\ Refs(Append(h, m)) = Refs(h) \cup m.refs
<1>1. 1 \in DOMAIN h /\ h \in Seq(Message)
  BY DEF Fine
<1>2. Fine(Append(h, m))
  BY <1>1, Appended DEF Fine
<1>3. Refs(Append(h, m)) = Refs(h) \cup m.refs
  BY <1>1, Appended
<1> QED BY <1>2, <1>3

LEMMA RefsTypes ==
    ASSUME NEW h, Fine(h)
    PROVE  Refs(h) \subseteq Ref
<1>1. \A i \in DOMAIN h : h[i] \in Message
  BY DEF Fine
<1>2. \A m \in Message : m.refs \subseteq Ref
  BY DEF Message
<1> QED BY <1>1, <1>2 DEF Refs

LEMMA Apart ==
    /\ Input \cap Firing = {} /\ Event \cap Firing = {} /\ Firing \cap Command = {}
    /\ Input \cap Command = {} /\ Event \cap Command = {}
    /\ Input \subseteq Ref /\ Event \subseteq Ref /\ Firing \subseteq Ref
    /\ Command \subseteq Ref
BY LoopAssumption DEF Ref

\* What the start of a round appends.
LEMMA Noticed ==
    ASSUME Fine(history)
    PROVE  /\ Fine(WithNotices) /\ Refs(WithNotices) = Refs(history) \cup At("ready")
           /\ Fine(WithReminder) /\ Refs(WithReminder) = Refs(history) \cup At("ready")
<1>1. At("ready") \in SUBSET Ref /\ {} \in SUBSET Ref
  BY Apart DEF At
<1>2. "notice" \in Kind /\ "reminder" \in Kind
  BY DEF Kind
<1>3. /\ Note("notice", At("ready")) \in Message
      /\ Note("notice", At("ready")).refs = At("ready")
      /\ Note("reminder", {}) \in Message /\ Note("reminder", {}).refs = {}
  BY <1>1, <1>2, NoteTypes
<1>4. Fine(WithNotices) /\ Refs(WithNotices) = Refs(history) \cup At("ready")
  <2>1. CASE At("ready") = {}
    BY <2>1 DEF WithNotices
  <2>2. CASE At("ready") # {}
    BY <1>3, <2>2, FineAppended DEF WithNotices
  <2> QED BY <2>1, <2>2
<1>5. Fine(WithReminder) /\ Refs(WithReminder) = Refs(history) \cup At("ready")
  <2>1. CASE todo >= TodoRounds
    BY <1>3, <1>4, <2>1, FineAppended DEF WithReminder
  <2>2. CASE ~(todo >= TodoRounds)
    BY <1>4, <2>2 DEF WithReminder
  <2> QED BY <2>1, <2>2
<1> QED BY <1>4, <1>5

LEMMA PartRefs ==
    ASSUME NEW h \in Seq(Message), NEW a \in 1..(Len(h) + 1), NEW b \in 0..Len(h)
    PROVE  /\ \A i \in a..b : h[i].refs \subseteq Refs(SubSeq(h, a, b))
           /\ \A x \in Refs(SubSeq(h, a, b)) : \E i \in a..b : x \in h[i].refs
           /\ Refs(SubSeq(h, a, b)) \subseteq Refs(h)
<1> DEFINE g == SubSeq(h, a, b)
<1>1. Len(h) \in Nat /\ DOMAIN h = 1..Len(h)
  OBVIOUS
<1>2. CASE a <= b
  <2>1. Len(g) = b - a + 1 /\ DOMAIN g = 1..(b - a + 1)
    BY <1>1, <1>2, SubSeqProperties
  <2>2. \A k \in 1..(b - a + 1) : g[k] = h[a + k - 1]
    BY <1>1, <1>2
  <2> HIDE DEF g
  <2>3. ASSUME NEW i \in a..b
        PROVE  h[i].refs \subseteq Refs(g)
    <3> DEFINE k == i - a + 1
    <3>1. k \in 1..(b - a + 1) /\ a + k - 1 = i
      BY <1>1
    <3> HIDE DEF k
    <3>2. k \in DOMAIN g /\ g[k] = h[i]
      BY <2>1, <2>2, <3>1
    <3> QED BY <3>2 DEF Refs
  <2>4. ASSUME NEW x \in Refs(g)
        PROVE  \E i \in a..b : x \in h[i].refs
    <3>1. PICK k \in DOMAIN g : x \in g[k].refs
      BY DEF Refs
    <3>2. a + k - 1 \in a..b /\ g[k] = h[a + k - 1]
      BY <1>1, <2>1, <2>2
    <3> QED BY <3>1, <3>2
  <2>5. Refs(g) \subseteq Refs(h)
    <3>1. a..b \subseteq DOMAIN h
      BY <1>1
    <3> QED BY <2>4, <3>1 DEF Refs
  <2> QED BY <2>3, <2>4, <2>5 DEF g
<1>3. CASE ~(a <= b)
  <2>1. a..b = {} /\ g = <<>>
    BY <1>1, <1>3
  <2>2. Refs(g) = {}
    BY <2>1 DEF Refs
  <2> QED BY <2>1, <2>2
<1> QED BY <1>2, <1>3

\* The list after a compaction.
LEMMA CompactedFine ==
    ASSUME Fine(history), snapshot \in Nat, Late, Compacting, NEW n \in 1..snapshot
    PROVE  /\ Fine(Compacted(n)) /\ Refs(Compacted(n)) \subseteq Refs(history)
           /\ DOMAIN Compacted(n) = {1, 2}
           /\ Compacted(n)[1].kind = "system" /\ Compacted(n)[1].refs = {}
           /\ Compacted(n)[2].kind = "summary"
           /\ Refs(history) \ Event \subseteq Refs(Compacted(n)) \cup LeftOut(n)
           /\ Refs(Compacted(n)) \cap LeftOut(n) = {}
           /\ LeftOut(n) \subseteq Refs(history)
<1> DEFINE part == Refs(SubSeq(history, 1, n))
           rest == Refs(SubSeq(history, n + 1, snapshot))
<1>0. /\ history \in Seq(Message) /\ Len(history) \in Nat
      /\ DOMAIN history = 1..Len(history)
      /\ 1 \in 1..(Len(history) + 1) /\ n \in 0..Len(history) /\ n \in Nat
      /\ n + 1 \in 1..(Len(history) + 1) /\ snapshot \in 0..Len(history)
  BY DEF Fine, Late
<1>1. /\ \A i \in 1..n : history[i].refs \subseteq part
      /\ part \subseteq Refs(history)
  BY <1>0, PartRefs
<1>2. /\ \A i \in (n + 1)..snapshot : history[i].refs \subseteq rest
      /\ rest \subseteq Refs(history)
  BY <1>0, PartRefs
<1>3. LeftOut(n) = rest \ part
  BY DEF LeftOut
<1> HIDE DEF part, rest
<1>4. Refs(history) \ Event \subseteq part \cup rest
  <2> SUFFICES ASSUME NEW i \in DOMAIN history
               PROVE  history[i].refs \ Event \subseteq part \cup rest
    BY DEF Refs
  <2>1. CASE i \in 1..n
    BY <1>1, <2>1
  <2>2. CASE i \in (n + 1)..snapshot
    BY <1>2, <2>2
  <2>3. CASE i > snapshot
    BY <2>3 DEF Late
  <2> QED BY <1>0, <2>1, <2>2, <2>3
<1>5. history[1] \in Message /\ "summary" \in Kind /\ part \in SUBSET Ref
  BY <1>1, RefsTypes DEF Fine, Kind
<1> DEFINE a == history[1]  b == Note("summary", part)
<1>6. b \in Message /\ b.kind = "summary" /\ b.refs = part
  BY <1>5, NoteTypes
<1>7. /\ a \in Message /\ a.kind = "system" /\ a.refs = {}
      /\ Compacted(n) = <<a, b>>
  BY <1>5 DEF Fine, Compacted, part
<1> HIDE DEF a, b
<1>8. /\ Compacted(n) \in Seq(Message) /\ Compacted(n) # <<>>
      /\ DOMAIN Compacted(n) = {1, 2} /\ Compacted(n)[1] = a /\ Compacted(n)[2] = b
      /\ Refs(Compacted(n)) = a.refs \cup b.refs
  <2>1. /\ <<a, b>> \in Seq(Message) /\ <<a, b>> # <<>>
        /\ DOMAIN <<a, b>> = {1, 2} /\ <<a, b>>[1] = a /\ <<a, b>>[2] = b
        /\ Refs(<<a, b>>) = a.refs \cup b.refs
    <3>1. a \in Message /\ b \in Message
      BY <1>6, <1>7
    <3> QED BY ONLY <3>1, Paired
  <2> DEFINE g == <<a, b>>
  <2>2. Compacted(n) = g
    BY <1>7
  <2> HIDE DEF g
  <2> QED BY <2>1, <2>2 DEF g
<1>9. Refs(Compacted(n)) = part
  BY <1>6, <1>7, <1>8
<1>10. Fine(Compacted(n)) /\ Compacted(n)[2].kind = "summary"
  BY <1>6, <1>7, <1>8 DEF Fine
<1>11. LeftOut(n) \subseteq Refs(history) /\ part \cap LeftOut(n) = {}
  BY <1>2, <1>3
<1> QED BY <1>1, <1>3, <1>4, <1>7, <1>8, <1>9, <1>10, <1>11

LEMMA ClearedFine ==
    ASSUME Fine(history)
    PROVE  /\ Fine(SubSeq(history, 1, 1)) /\ Refs(SubSeq(history, 1, 1)) = {}
BY Shortened DEF Fine

LEMMA CopiedFine ==
    ASSUME NEW h, Fine(h)
    PROVE  Fine(AsCopies(h)) /\ Refs(AsCopies(h)) = Refs(h)
<1>1. h \in Seq(Message) /\ h # <<>> /\ 1 \in DOMAIN h
  BY DEF Fine
<1> QED BY <1>1, Copied DEF Fine

LEMMA WithoutPromptFine ==
    ASSUME Fine(history)
    PROVE  Fine(WithoutPrompt) /\ Refs(WithoutPrompt) \subseteq Refs(history)
<1>1. CASE PromptAt = {}
  BY <1>1 DEF WithoutPrompt
<1>2. CASE PromptAt # {}
  <2>1. PICK i \in PromptAt : WithoutPrompt = RemoveAt(history, i)
    BY <1>2 DEF WithoutPrompt
  <2>2. i \in DOMAIN history /\ i # 1 /\ i \in 1..Len(history)
    BY DEF PromptAt, IsPrompt, Fine
  <2>3. /\ WithoutPrompt \in Seq(Message)
        /\ DOMAIN WithoutPrompt = 1..(Len(history) - 1)
        /\ \A k \in 1..(Len(history) - 1) :
              WithoutPrompt[k] = IF k < i THEN history[k] ELSE history[k + 1]
    BY <2>1, <2>2, Removed DEF Fine
  <2>4. Len(history) \in Nat /\ Len(history) >= 2 /\ DOMAIN history = 1..Len(history)
    BY <2>2 DEF Fine
  <2>5. WithoutPrompt # <<>> /\ WithoutPrompt[1] = history[1]
    BY <2>2, <2>3, <2>4
  <2>6. Refs(WithoutPrompt) \subseteq Refs(history)
    BY <2>3, <2>4 DEF Refs
  <2> QED BY <2>3, <2>5, <2>6 DEF Fine
<1> QED BY <1>1, <1>2

-----------------------------------------------------------------------------
\* The parts of the goal controller and of the background commands.
Goal == [active : BOOLEAN, status : {"active", "completed", "blocked"}, streak : Nat]

LEMMA GoalTypes ==
    ASSUME GoalTypeOK
    PROVE  /\ AcceptInput => GoalTypeOK'
           /\ SwitchMode => GoalTypeOK'
           /\ \A verdict \in Verdict : EvaluateStop(verdict) => GoalTypeOK'
           /\ UNCHANGED goalVars => GoalTypeOK'
<1> USE DEF Goal
<1>0. goal \in Goal /\ NoGoal \in Goal /\ NewGoal \in Goal
  BY DEF GoalTypeOK, NoGoal, NewGoal
<1>1. ASSUME AcceptInput PROVE GoalTypeOK'
  <2>1. Resumed \in Goal
    BY <1>0 DEF Resumed
  <2>2. goal' \in Goal
    BY <1>0, <1>1, <2>1 DEF AcceptInput
  <2>3. nudges' = 0 /\ unjudged' = TRUE /\ mode' = mode
    BY <1>1 DEF AcceptInput
  <2> QED BY <2>2, <2>3 DEF GoalTypeOK
<1>2. ASSUME SwitchMode PROVE GoalTypeOK'
  <2>1. goal' \in Goal
    BY <1>0, <1>2 DEF SwitchMode
  <2>2. nudges' = 0 /\ unjudged' = FALSE /\ mode' \in {"normal", "goal"}
    BY <1>2 DEF SwitchMode
  <2> QED BY <2>1, <2>2 DEF GoalTypeOK
<1>3. ASSUME NEW verdict \in Verdict, EvaluateStop(verdict)
      PROVE  GoalTypeOK'
  <2>1. goal' \in Goal
    <3>1. CASE verdict = "ok"
      BY <1>0, <1>3, <3>1 DEF EvaluateStop
    <3>2. CASE verdict = "impossible"
      BY <1>0, <1>3, <3>2 DEF EvaluateStop
    <3>3. CASE verdict = "incomplete"
      <4>1. goal' = [goal EXCEPT !.status = IF LimitReached THEN "blocked" ELSE "active",
                                 !.streak = @ + 1]
        BY <1>3, <3>3 DEF EvaluateStop
      <4> DEFINE s == IF LimitReached THEN "blocked" ELSE "active"
      <4> DEFINE n == goal.streak + 1
      <4>2. /\ s \in {"active", "blocked"} /\ n \in Nat
            /\ goal' = [goal EXCEPT !.status = s, !.streak = n]
        BY <1>0, <4>1
      <4> HIDE DEF s, n
      <4> QED BY <1>0, <4>2
    <3> QED BY <3>1, <3>2, <3>3 DEF Verdict
  <2>2. nudges' \in Nat /\ unjudged' \in BOOLEAN /\ mode' = mode
    BY <1>3 DEF EvaluateStop, GoalTypeOK
  <2> QED BY <2>1, <2>2 DEF GoalTypeOK
<1>4. UNCHANGED goalVars => GoalTypeOK'
  BY DEF goalVars, GoalTypeOK
<1> QED BY <1>1, <1>2, <1>3, <1>4

LEMMA ShellTypes ==
    ASSUME stage \in [Command -> Stage]
    PROVE  /\ \A c \in Command :
                 /\ StartCommand(c) => /\ stage' \in [Command -> Stage]
                                       /\ At("collected")' = At("collected")
                 /\ FinishCommand(c) => /\ stage' \in [Command -> Stage]
                                        /\ At("collected")' = At("collected")
           /\ CollectReady => /\ stage' \in [Command -> Stage]
                              /\ At("collected")' = At("collected") \cup At("ready")
BY DEF StartCommand, FinishCommand, CollectReady, Stage, At

LEMMA CallListTypes ==
    ASSUME NEW calls \in CallLists
    PROVE  calls \in Seq(Call) /\ calls # <<>>
<1>1. PICK n \in 1..MaxCalls : calls \in [1..n -> Call]
  BY DEF CallLists
<1>2. n \in Nat /\ n > 0
  BY LoopAssumption
<1>3. calls \in Seq(Call)
  BY <1>1, <1>2, IsASeq
<1>4. DOMAIN calls = 1..n
  BY <1>1
<1> QED BY <1>2, <1>3, <1>4

LEMMA PendingTypes ==
    ASSUME Calling, pc = "tools"
    PROVE  /\ Head(pending) \in Call /\ Tail(pending) \in Seq(Call)
           /\ ToolResult(Head(pending)) \in Message
           /\ ToolResult(Head(pending)).kind = "tool"
           /\ ToolResult(Head(pending)).refs = {}
<1>1. pending \in Seq(Call) /\ pending # <<>>
  BY DEF Calling
<1>2. Head(pending) \in Call /\ Tail(pending) \in Seq(Call)
  BY <1>1
<1> QED BY <1>2, NoteTypes

LEMMA AnswerTypes ==
    ASSUME NEW calls \in Seq(Call), Fine(history)
    PROVE  /\ Fine(Append(history, Assistant(calls)))
           /\ Refs(Append(history, Assistant(calls))) = Refs(history)
           /\ Assistant(calls) \in Message
           /\ Assistant(calls).kind = "assistant" /\ Assistant(calls).refs = {}
<1>1. /\ Assistant(calls) \in Message
      /\ Assistant(calls).kind = "assistant" /\ Assistant(calls).refs = {}
  BY NoteTypes
<1> DEFINE m == Assistant(calls)
<1> HIDE DEF m
<1>2. m \in Message /\ m.refs = {}
  BY <1>1 DEF m
<1>3. Fine(Append(history, m)) /\ Refs(Append(history, m)) = Refs(history)
  BY <1>2, FineAppended
<1> QED BY <1>1, <1>3 DEF m

\* The messages the threads and the gate append.
LEMMA NoteKinds ==
    /\ \A u \in Input : /\ Note("user", {u}) \in Message
                        /\ Note("user", {u}).kind = "user"
                        /\ Note("user", {u}).refs = {u}
    /\ \A e \in Event : /\ Note("event", {e}) \in Message
                        /\ Note("event", {e}).kind = "event"
                        /\ Note("event", {e}).refs = {e}
    /\ \A s \in SUBSET Firing : /\ Note("scheduled", s) \in Message
                                /\ Note("scheduled", s).kind = "scheduled"
                                /\ Note("scheduled", s).refs = s
    /\ \A s \in SUBSET Command : /\ Note("notice", s) \in Message
                                 /\ Note("notice", s).kind = "notice"
                                 /\ Note("notice", s).refs = s
    /\ /\ Note("nudge", {}) \in Message
       /\ Note("nudge", {}).kind = "nudge" /\ Note("nudge", {}).refs = {}
    /\ /\ Note("reminder", {}) \in Message
       /\ Note("reminder", {}).kind = "reminder" /\ Note("reminder", {}).refs = {}
<1>1. {"user", "event", "scheduled", "notice", "nudge", "reminder"} \subseteq Kind
  BY DEF Kind
<1>2. /\ \A u \in Input : {u} \in SUBSET Ref
      /\ \A e \in Event : {e} \in SUBSET Ref
      /\ SUBSET Firing \subseteq SUBSET Ref /\ SUBSET Command \subseteq SUBSET Ref
      /\ {} \in SUBSET Ref
  BY Apart
<1> QED BY <1>1, <1>2, NoteTypes

LEMMA BeginFine ==
    ASSUME Base, NEW thread \in {"cli", "processor"}, NEW messages, Fine(messages),
           BeginTurn(thread, messages)
    PROVE  /\ Fine(history)'
           /\ Refs(history)' = Refs(messages) \cup queue
           /\ fired' = queue /\ queue' = {} /\ UNCHANGED due
<1>1. queue \in SUBSET Firing
  BY DEF Base, OtherTypes
<1>2. CASE queue = {}
  BY <1>2 DEF BeginTurn
<1>3. CASE queue # {}
  <2>1. history' = Append(messages, Note("scheduled", queue))
    BY <1>3 DEF BeginTurn
  <2>2. /\ Note("scheduled", queue) \in Message
        /\ Note("scheduled", queue).refs = queue
    BY <1>1, NoteKinds
  <2>3. Fine(history') /\ Refs(history') = Refs(messages) \cup queue
    BY <2>1, <2>2, FineAppended
  <2> QED BY <2>3 DEF BeginTurn
<1> QED BY <1>2, <1>3

LEMMA LateKept ==
    ASSUME Fine(history), Late, (lock = "free") <=> (pc = "idle"), [Next]_vars
    PROVE  Late'
<1> USE DEF Compacting, outsideTurn, turnVars, EndTurn
<1>1. Len(history) \in Nat /\ DOMAIN history = 1..Len(history)
      /\ Len(history) \in 1..Len(history)
  BY DEF Fine
<1>2. ASSUME NEW e \in Event, Wake(e)
      PROVE  Late'
  <2> DEFINE m == Note("event", {e})
  <2>1. m \in Message /\ m.refs = {e}
    BY NoteKinds
  <2>2. history' = Append(history, m) /\ UNCHANGED <<pc, snapshot>>
    BY <1>2 DEF Wake
  <2> HIDE DEF m
  <2>3. /\ Len(history)' = Len(history) + 1
        /\ \A i \in DOMAIN history : history'[i] = history[i]
        /\ history'[Len(history) + 1] = m
        /\ DOMAIN history' = DOMAIN history \cup {Len(history) + 1}
    BY <2>1, <2>2, Appended DEF Fine
  <2> QED BY <1>1, <2>1, <2>2, <2>3 DEF Late
<1>3. CASE \/ \E f \in Firing : Fire(f)
           \/ \E c \in Command : CommandEnds(c)
           \/ ToggleMode \/ UNCHANGED vars
  BY <1>3 DEF Fire, CommandEnds, ToggleMode, vars, Late
<1>4. CASE Prepare
  <2>1. pc' = "compacting" => snapshot' = Len(history')
    BY <1>4 DEF Prepare
  <2>2. Fine(history') /\ pc' # "recompacting"
    BY <1>4, Noticed DEF Prepare
  <2>3. /\ Len(history') \in 1..Len(history')
        /\ \A i \in DOMAIN history' : ~(i > Len(history'))
    BY <2>2 DEF Fine
  <2> QED BY <2>1, <2>2, <2>3 DEF Late
<1>5. CASE Overflow
  <2>1. pc' = "recompacting" => snapshot' = Len(history) /\ history' = history
    BY <1>5 DEF Overflow
  <2>2. pc' # "compacting"
    BY <1>5 DEF Overflow
  <2> QED BY <1>1, <2>1, <2>2 DEF Late
<1>6. CASE \/ \E u \in Input : StartUserTurn(u)
           \/ StartWakeTurn \/ StartCronTurn \/ Clear
           \/ PrepareFails \/ EndCompaction \/ CompactionFails
           \/ ProviderFails \/ EmptyReply
           \/ \E truncated \in BOOLEAN : Reply(truncated)
           \/ \E calls \in CallLists : ReplyWithCalls(calls)
           \/ RunCall \/ InvalidCall
           \/ \E verdict \in Verdict : Gate(verdict)
           \/ Settle
  <2>1. pc' \notin {"compacting", "recompacting"}
    BY <1>6 DEF StartUserTurn, StartWakeTurn, StartCronTurn, BeginTurn, Clear,
                PrepareFails, EndCompaction, CompactionFails, ProviderFails,
                EmptyReply, Reply, ReplyWithCalls, RunCall, InvalidCall, Gate, Settle
  <2> QED BY <2>1 DEF Late
<1> QED BY <1>2, <1>3, <1>4, <1>5, <1>6 DEF Next, TurnSteps

LEMMA BeginBase ==
    ASSUME Base, Late', NEW thread \in {"cli", "processor"}, NEW messages, Fine(messages),
           Refs(messages) \cap Firing \subseteq due, BeginTurn(thread, messages),
           typed' \subseteq Input, consumed' \subseteq Event, woken' \in BOOLEAN,
           GoalTypeOK'
    PROVE  Base'
<1>1. /\ Fine(history)'
      /\ Refs(history)' = Refs(messages) \cup queue
      /\ UNCHANGED due
  BY BeginFine
<1>2. OtherTypes'
  <2>1. OtherTypes
    BY DEF Base
  <2>2. /\ lock' \in {"cli", "processor"} /\ pc' = "round" /\ todo' = 0
        /\ accepted' = FALSE /\ completed' = FALSE
        /\ fired' = queue /\ queue' = {}
        /\ UNCHANGED <<snapshot, processor, due, answered, voided, settled, gone, stage>>
    BY DEF BeginTurn
  <2>3. 0 \in 0..TodoRounds
    BY LoopAssumption
  <2> QED BY <2>1, <2>2, <2>3 DEF OtherTypes
<1>3. Calling' /\ ~AboutToAsk'
  BY DEF Base, OtherTypes, Calling, AboutToAsk, BeginTurn
<1>4. RefsDue'
  <2>1. queue \subseteq due
    BY DEF BeginTurn, Base, OtherTypes
  <2> QED BY <1>1, <2>1 DEF RefsDue, Base
<1> QED BY <1>1, <1>2, <1>3, <1>4 DEF Base

LEMMA ThreadStep ==
    ASSUME Base, Late',
           \/ \E u \in Input : StartUserTurn(u)
           \/ \E e \in Event : Wake(e)
           \/ \E f \in Firing : Fire(f)
           \/ \E c \in Command : CommandEnds(c)
           \/ StartWakeTurn \/ StartCronTurn \/ Clear \/ ToggleMode
    PROVE  Base'
<1>1. Fine(history) /\ OtherTypes /\ Calling /\ RefsDue /\ GoalTypeOK
  BY DEF Base, OtherTypes
<1>2. ASSUME NEW u \in Input, StartUserTurn(u)
      PROVE  Base'
  <2> DEFINE messages == Append(history, Note("user", {u}))
  <2>1. Fine(messages) /\ Refs(messages) = Refs(history) \cup {u}
    BY <1>1, NoteKinds, FineAppended
  <2>2. Refs(messages) \cap Firing \subseteq due
    BY <1>1, <2>1, Apart DEF RefsDue
  <2>3. BeginTurn("cli", messages)
    BY <1>2 DEF StartUserTurn
  <2>4. GoalTypeOK'
    BY <1>1, <1>2, GoalTypes DEF StartUserTurn
  <2>5. typed' \subseteq Input /\ consumed' \subseteq Event /\ woken' \in BOOLEAN
    BY <1>1, <1>2 DEF StartUserTurn, OtherTypes
  <2> HIDE DEF messages
  <2> QED BY <2>1, <2>2, <2>3, <2>4, <2>5, BeginBase
<1>3. ASSUME NEW e \in Event, Wake(e)
      PROVE  Base'
  <2>1. Fine(history)' /\ Refs(history)' = Refs(history) \cup {e}
    BY <1>1, <1>3, NoteKinds, FineAppended DEF Wake
  <2>2. UNCHANGED <<lock, processor, turnVars, cronVars, typed, gone, stage, goalVars>>
    BY <1>3 DEF Wake
  <2>3. RefsDue'
    BY <1>1, <2>1, <2>2, Apart DEF RefsDue, turnVars, cronVars
  <2>4. OtherTypes'
    BY <1>1, <1>3, <2>2, GoalTypes DEF Wake, OtherTypes, turnVars, cronVars
  <2> QED BY <2>1, <2>2, <2>3, <2>4 DEF Base, Calling, AboutToAsk, turnVars
<1>4. ASSUME NEW f \in Firing, Fire(f)
      PROVE  Base'
  <2>1. RefsDue'
    BY <1>1, <1>4 DEF Fire, RefsDue, turnVars
  <2>2. OtherTypes'
    BY <1>1, <1>4, GoalTypes DEF Fire, OtherTypes, turnVars, cliVars
  <2> QED BY <1>4, <2>1, <2>2 DEF Fire, Base, Calling, AboutToAsk, turnVars
<1>5. ASSUME NEW c \in Command, CommandEnds(c)
      PROVE  Base'
  <2>1. OtherTypes'
    BY <1>1, <1>5, GoalTypes, ShellTypes
    DEF CommandEnds, OtherTypes, turnVars, cronVars, cliVars
  <2> QED BY <1>5, <2>1 DEF CommandEnds, Base, Calling, AboutToAsk, RefsDue, turnVars, cronVars
<1>6. CASE StartWakeTurn
  <2>1. /\ BeginTurn("cli", history) /\ Refs(history) \cap Firing \subseteq due
        /\ typed' \subseteq Input /\ consumed' \subseteq Event /\ woken' \in BOOLEAN
        /\ GoalTypeOK'
    BY <1>1, <1>6, GoalTypes DEF StartWakeTurn, OtherTypes, RefsDue
  <2> QED BY <1>1, <2>1, BeginBase
<1>7. CASE StartCronTurn
  <2>1. /\ BeginTurn("processor", history) /\ Refs(history) \cap Firing \subseteq due
        /\ typed' \subseteq Input /\ consumed' \subseteq Event /\ woken' \in BOOLEAN
        /\ GoalTypeOK'
    BY <1>1, <1>7, GoalTypes DEF StartCronTurn, OtherTypes, RefsDue
  <2> QED BY <1>1, <2>1, BeginBase
<1>8. CASE Clear
  <2>1. Fine(history)' /\ Refs(history)' = {}
    BY <1>1, <1>8, ClearedFine DEF Clear
  <2>2. Refs(history) \subseteq Ref
    BY <1>1, RefsTypes
  <2>3. RefsDue'
    BY <1>1, <1>8, <2>1 DEF Clear, RefsDue, turnVars, cronVars
  <2>4. OtherTypes'
    BY <1>1, <1>8, <2>2, GoalTypes DEF Clear, OtherTypes, turnVars, cronVars, cliVars
  <2> QED BY <1>8, <2>1, <2>3, <2>4 DEF Clear, Base, Calling, AboutToAsk, turnVars
<1>9. CASE ToggleMode
  <2>1. OtherTypes'
    BY <1>1, <1>9, GoalTypes DEF ToggleMode, OtherTypes, turnVars, cronVars, cliVars
  <2> QED BY <1>9, <2>1
      DEF ToggleMode, Base, Calling, AboutToAsk, RefsDue, turnVars, cronVars
<1> QED BY <1>2, <1>3, <1>4, <1>5, <1>6, <1>7, <1>8, <1>9

LEMMA TurnStep ==
    ASSUME Base, Late', TurnSteps
    PROVE  Base'
<1> USE DEF outsideTurn, cronVars, cliVars, compaction, EndTurn, AboutToAsk
<1>1. /\ Fine(history) /\ OtherTypes /\ Calling /\ RefsDue /\ GoalTypeOK
      /\ snapshot \in Nat /\ Late /\ Refs(history) \subseteq Ref
      /\ {} \in SUBSET Ref
  BY RefsTypes DEF Base, OtherTypes
<1>2. CASE Prepare
  <2>1. Fine(history)' /\ Refs(history)' = Refs(history) \cup At("ready")
    BY <1>1, <1>2, Noticed DEF Prepare
  <2>2. snapshot' \in {snapshot, Len(history')} /\ At("ready") \subseteq Command
    BY <1>2 DEF Prepare, At
  <2>3. RefsDue'
    BY <1>1, <1>2, <2>1, <2>2, Apart DEF Prepare, RefsDue
  <2>4. snapshot' \in Nat
    BY <1>1, <2>1, <2>2 DEF Fine
  <2>5. todo' \in 0..TodoRounds /\ todo' < TodoRounds
    BY <1>1, <1>2, LoopAssumption DEF Prepare, OtherTypes
  <2>6. OtherTypes'
    BY <1>1, <1>2, <2>4, <2>5, GoalTypes, ShellTypes DEF Prepare, OtherTypes
  <2> QED BY <1>2, <2>1, <2>3, <2>5, <2>6 DEF Prepare, Base, Calling
<1>3. CASE PrepareFails
  <2>1. Fine(history)' /\ Refs(history)' = Refs(history) \cup At("ready")
    BY <1>1, <1>3, Noticed DEF PrepareFails
  <2>2. At("ready") \subseteq Command
    BY DEF At
  <2>3. RefsDue'
    BY <1>1, <1>3, <2>1, <2>2, Apart DEF PrepareFails, RefsDue
  <2>4. todo' \in 0..TodoRounds
    BY <1>1, <1>3, LoopAssumption DEF PrepareFails, OtherTypes
  <2>5. OtherTypes'
    BY <1>1, <1>3, <2>4, GoalTypes, ShellTypes DEF PrepareFails, OtherTypes
  <2> QED BY <1>3, <2>1, <2>3, <2>5 DEF PrepareFails, Base, Calling
<1>4. CASE EndCompaction
  <2>1. PICK n \in 1..snapshot : /\ history' = Compacted(n)
                                 /\ gone' = gone \cup LeftOut(n)
    BY <1>4 DEF EndCompaction
  <2>4. /\ Fine(history)' /\ Refs(history)' \subseteq Refs(history)
        /\ gone' \subseteq gone \cup Refs(history) /\ snapshot' = 0
    BY <1>1, <1>4, <2>1, CompactedFine DEF EndCompaction, Compacting
  <2>2. RefsDue'
    BY <1>1, <1>4, <2>4 DEF EndCompaction, RefsDue
  <2>3. OtherTypes'
    BY <1>1, <1>4, <2>4, GoalTypes DEF EndCompaction, OtherTypes
  <2> QED BY <1>4, <2>2, <2>3, <2>4 DEF EndCompaction, Base, Calling
<1>5. CASE CompactionFails
  <2>1. OtherTypes'
    BY <1>1, <1>5, GoalTypes DEF CompactionFails, OtherTypes
  <2>2. RefsDue'
    BY <1>1, <1>5 DEF CompactionFails, RefsDue
  <2> QED BY <1>5, <2>1, <2>2 DEF CompactionFails, Base, Calling
<1>6. CASE ProviderFails
  <2>1. OtherTypes'
    BY <1>1, <1>6, GoalTypes DEF ProviderFails, AtProvider, OtherTypes
  <2> QED BY <1>6, <2>1 DEF ProviderFails, AtProvider, Base, Calling, RefsDue
<1>7. CASE Overflow
  <2>1. Fine(history)' /\ Refs(history)' = Refs(history)
    BY <1>1, <1>7, CopiedFine DEF Overflow, AsCopies
  <2>2. snapshot' \in {snapshot, Len(history)} /\ Len(history) \in Nat
    BY <1>1, <1>7 DEF Overflow, Fine
  <2>3. RefsDue'
    BY <1>1, <1>7, <2>1, <2>2 DEF Overflow, RefsDue
  <2>4. OtherTypes'
    BY <1>1, <1>7, <2>2, GoalTypes DEF Overflow, OtherTypes
  <2> QED BY <1>7, <2>1, <2>3, <2>4 DEF Overflow, Base, Calling
<1>8. CASE EmptyReply
  <2>1. OtherTypes'
    BY <1>1, <1>8, GoalTypes DEF EmptyReply, AtProvider, OtherTypes, RefsDue
  <2> QED BY <1>8, <2>1 DEF EmptyReply, AtProvider, Base, Calling, RefsDue
<1>9. ASSUME NEW truncated \in BOOLEAN, Reply(truncated)
      PROVE  Base'
  <2>0. <<>> \in Seq(Call)
    OBVIOUS
  <2>1. Fine(history)' /\ Refs(history)' = Refs(history)
    BY <1>1, <1>9, <2>0, AnswerTypes DEF Reply
  <2>2. RefsDue'
    BY <1>1, <1>9, <2>1 DEF Reply, RefsDue
  <2>3. OtherTypes'
    BY <1>1, <1>9, GoalTypes DEF Reply, Accept, AtProvider, OtherTypes, RefsDue
  <2> QED BY <1>9, <2>1, <2>2, <2>3 DEF Reply, AtProvider, Base, Calling
<1>10. ASSUME NEW calls \in CallLists, ReplyWithCalls(calls)
       PROVE  Base'
  <2>0. calls \in Seq(Call) /\ calls # <<>>
    BY CallListTypes
  <2>1. Fine(history)' /\ Refs(history)' = Refs(history)
    BY <1>1, <1>10, <2>0, AnswerTypes DEF ReplyWithCalls
  <2>2. RefsDue'
    BY <1>1, <1>10, <2>1 DEF ReplyWithCalls, RefsDue
  <2>3. todo' \in 0..TodoRounds
    BY <1>1, <1>10, LoopAssumption DEF ReplyWithCalls, AtProvider, OtherTypes, Base
  <2>4. OtherTypes'
    BY <1>1, <1>10, <2>3, GoalTypes DEF ReplyWithCalls, Accept, AtProvider, OtherTypes, RefsDue
  <2>5. Calling'
    BY <1>10, <2>0 DEF ReplyWithCalls, Calling
  <2> QED BY <1>10, <2>1, <2>2, <2>4, <2>5 DEF ReplyWithCalls, Base
<1>11. CASE RunCall
  <2> DEFINE m == ToolResult(Head(pending))
  <2>1. /\ m \in Message /\ m.refs = {}
        /\ Tail(pending) \in Seq(Call)
    BY <1>1, <1>11, PendingTypes DEF RunCall
  <2>2. history' = Append(history, m)
    BY <1>11 DEF RunCall
  <2> HIDE DEF m
  <2>3. Fine(history)' /\ Refs(history)' = Refs(history)
    BY <1>1, <2>1, <2>2, FineAppended
  <2>4. RefsDue'
    BY <1>1, <1>11, <2>3 DEF RunCall, RefsDue
  <2>5. stage' \in [Command -> Stage]
    BY <1>1, <1>11, ShellTypes DEF RunCall, OtherTypes
  <2>6. OtherTypes'
    BY <1>1, <1>11, <2>5, GoalTypes DEF RunCall, OtherTypes
  <2>7. Calling'
    BY <1>11, <2>1 DEF RunCall, Calling
  <2> QED BY <1>11, <2>3, <2>4, <2>6, <2>7 DEF RunCall, Base
<1>12. CASE InvalidCall
  <2>1. OtherTypes'
    BY <1>1, <1>12, GoalTypes DEF InvalidCall, OtherTypes
  <2>2. Calling'
    BY <1>12 DEF InvalidCall, Calling
  <2> QED BY <1>12, <2>1, <2>2 DEF InvalidCall, Base, RefsDue
<1>13. ASSUME NEW verdict \in Verdict, Gate(verdict)
       PROVE  Base'
  <2>1. Fine(history)' /\ Refs(history)' = Refs(history)
    <3> DEFINE m == Note("nudge", {})
    <3>1. m \in Message /\ m.refs = {}
      BY NoteKinds
    <3>2. history' \in {history, Append(history, m)}
      BY <1>13 DEF Gate
    <3> HIDE DEF m
    <3> QED BY <1>1, <3>1, <3>2, FineAppended
  <2>2. RefsDue'
    BY <1>1, <1>13, <2>1 DEF Gate, RefsDue
  <2>3. OtherTypes'
    BY <1>1, <1>13, GoalTypes DEF Gate, OtherTypes
  <2> QED BY <1>13, <2>1, <2>2, <2>3 DEF Gate, Base, Calling
<1>14. CASE Settle
  <2>1. Fine(history)' /\ Refs(history)' \subseteq Refs(history)
    BY <1>1, <1>14, WithoutPromptFine DEF Settle, Withdraw
  <2>2. RefsDue'
    BY <1>1, <1>14, <2>1 DEF Settle, RefsDue
  <2>3. OtherTypes'
    <3>1. 0 \in 0..TodoRounds
      BY LoopAssumption
    <3> QED BY <1>1, <1>14, <3>1, GoalTypes DEF Settle, Withdraw, Release, OtherTypes
  <2> QED BY <1>14, <2>1, <2>2, <2>3 DEF Settle, Base, Calling
<1> QED BY <1>2, <1>3, <1>4, <1>5, <1>6, <1>7, <1>8, <1>9, <1>10, <1>11, <1>12, <1>13,
           <1>14 DEF TurnSteps

LEMMA BaseStep ==
    ASSUME Base, [Next]_vars
    PROVE  Base'
<1>0. Late'
  BY LateKept DEF Base, OtherTypes
<1>1. CASE UNCHANGED vars
  <2>1. OtherTypes'
    BY <1>1, GoalTypes DEF Base, OtherTypes, vars, turnVars, cronVars, cliVars
  <2> QED BY <1>0, <1>1, <2>1
      DEF Base, Calling, AboutToAsk, RefsDue, vars, turnVars, cronVars
<1>2. CASE TurnSteps
  BY <1>0, <1>2, TurnStep
<1> QED BY <1>0, <1>1, <1>2, ThreadStep DEF Next

LEMMA BaseStart == Init => Base
<1> SUFFICES ASSUME Init PROVE Base
  OBVIOUS
<1> DEFINE m == Note("system", {})
<1>1. m \in Message /\ m.kind = "system" /\ m.refs = {}
  <2>1. "system" \in Kind /\ {} \in SUBSET Ref
    BY DEF Kind
  <2> QED BY <2>1, NoteTypes
<1>2. history = <<m>>
  BY DEF Init
<1> HIDE DEF m
<1>3. Fine(history) /\ Refs(history) = {}
  BY <1>1, <1>2 DEF Fine, Refs
<1>4. GoalTypeOK
  BY DEF Init, GoalInit, GoalTypeOK, NoGoal
<1>5. OtherTypes
  <2>1. stage \in [Command -> Stage]
    BY DEF Init, ShellInit, Stage
  <2>2. 0 \in 0..TodoRounds
    BY LoopAssumption
  <2>3. /\ lock = "free" /\ pc = "idle" /\ woken = FALSE /\ processor = TRUE
        /\ accepted = FALSE /\ completed = FALSE
    BY DEF Init
  <2> QED BY <1>4, <2>1, <2>2, <2>3 DEF Init, OtherTypes
<1>6. Calling /\ ~AboutToAsk /\ RefsDue /\ Late
  BY <1>3 DEF Init, Calling, AboutToAsk, RefsDue, Late, Compacting
<1> QED BY <1>3, <1>5, <1>6 DEF Base

\* Every variable of the session keeps its type, whatever the threads, the
\* provider and the tools do.
THEOREM TypeCorrect == Spec => []TypeOK
<1>1. Init => Base
  BY BaseStart
<1>2. Base /\ [Next]_vars => Base'
  BY BaseStep
<1>3. Base => TypeOK
  BY DEF Base, Fine, OtherTypes, Calling, TypeOK
<1> QED BY <1>1, <1>2, <1>3, PTL DEF Spec

-----------------------------------------------------------------------------
(***************************************************************************)
(* Goals.  The count of continuations never exceeds the streak of the      *)
(* goal, which the limit bounds; and nothing but the gate ends a turn it   *)
(* must judge as completed.                                                *)
(***************************************************************************)
Counted == nudges <= goal.streak /\ ContinuationsBounded

CompletedIsJudged == goal.active /\ goal.status = "completed" => ~unjudged

LEMMA GoalCounted ==
    ASSUME GoalTypeOK, Counted, CompletedIsJudged
    PROVE  /\ AcceptInput => Counted' /\ CompletedIsJudged'
           /\ SwitchMode => Counted' /\ CompletedIsJudged'
           /\ \A verdict \in Verdict :
                 EvaluateStop(verdict) =>
                     /\ Counted' /\ CompletedIsJudged'
                     /\ verdict = "ok" => goal'.status = "completed"
           /\ UNCHANGED goalVars => Counted' /\ CompletedIsJudged'
<1> USE DEF Counted, CompletedIsJudged, ContinuationsBounded, Goal
<1>0. /\ goal \in Goal /\ goal.streak \in Nat /\ nudges \in Nat /\ MaxChecks \in Nat
      /\ 0 < MaxChecks
  BY GoalAssumption DEF GoalTypeOK
<1>1. ASSUME AcceptInput PROVE Counted' /\ CompletedIsJudged'
  <2>1. goal'.streak = 0 /\ goal'.status = "active" /\ nudges' = 0
    BY <1>0, <1>1 DEF AcceptInput, Resumed, NewGoal
  <2> QED BY <1>0, <2>1
<1>2. ASSUME SwitchMode PROVE Counted' /\ CompletedIsJudged'
  <2>1. goal'.streak = 0 /\ goal'.status = "active" /\ nudges' = 0
    BY <1>2 DEF SwitchMode, NoGoal
  <2> QED BY <1>0, <2>1
<1>3. ASSUME NEW verdict \in Verdict, EvaluateStop(verdict)
      PROVE  /\ Counted' /\ CompletedIsJudged'
             /\ verdict = "ok" => goal'.status = "completed"
  <2>1. CASE verdict = "ok"
    <3>1. goal'.streak = 0 /\ goal'.status = "completed" /\ nudges' = 0 /\ ~unjudged'
      BY <1>0, <1>3, <2>1 DEF EvaluateStop, Continues
    <3> QED BY <1>0, <3>1
  <2>2. CASE verdict = "impossible"
    <3>1. goal'.streak = goal.streak /\ goal'.status = "blocked" /\ nudges' = nudges
      BY <1>0, <1>3, <2>2 DEF EvaluateStop, Continues
    <3> QED BY <1>0, <2>2, <3>1
  <2>3. CASE verdict = "incomplete"
    <3>1. goal' = [goal EXCEPT !.status = IF LimitReached THEN "blocked" ELSE "active",
                               !.streak = @ + 1]
      BY <1>3, <2>3 DEF EvaluateStop
    <3>2. goal'.streak = goal.streak + 1 /\ goal'.status \in {"active", "blocked"}
      BY <1>0, <3>1
    <3>3. \/ nudges' = nudges
          \/ nudges' = nudges + 1 /\ goal.streak + 1 < MaxChecks
      BY <1>0, <1>3, <2>3 DEF EvaluateStop, Continues, LimitReached
    <3> QED BY <1>0, <2>3, <3>2, <3>3
  <2> QED BY <2>1, <2>2, <2>3 DEF Verdict
<1>4. ASSUME UNCHANGED goalVars PROVE Counted' /\ CompletedIsJudged'
  BY <1>4 DEF goalVars
<1> QED BY <1>1, <1>2, <1>3, <1>4

GoalInv == Base /\ Counted /\ GoalVerdict

LEMMA GoalStep ==
    ASSUME GoalInv, [Next]_vars
    PROVE  GoalInv'
<1>1. Base'
  BY BaseStep DEF GoalInv
<1>2. /\ GoalTypeOK /\ Counted /\ CompletedIsJudged /\ GoalVerdict
      /\ (lock = "free") <=> (pc = "idle")
  BY DEF GoalInv, Base, OtherTypes, GoalVerdict, CompletedIsJudged
<1> SUFFICES Counted' /\ GoalVerdict'
  BY <1>1 DEF GoalInv
<1>3. ASSUME UNCHANGED goalVars,
             \/ pc' # "ended" \/ completed' = FALSE
             \/ UNCHANGED <<pc, completed, lock>>
             \/ ~Judged /\ UNCHANGED lock
      PROVE  Counted' /\ GoalVerdict'
  <2>1. Counted' /\ CompletedIsJudged'
    BY <1>2, <1>3, GoalCounted
  <2> QED BY <1>2, <1>3, <2>1 DEF GoalVerdict, CompletedIsJudged, goalVars, Judged
<1>4. CASE \/ \E e \in Event : Wake(e)
           \/ \E f \in Firing : Fire(f)
           \/ \E c \in Command : CommandEnds(c)
           \/ StartWakeTurn \/ StartCronTurn \/ Clear \/ UNCHANGED vars
  BY <1>3, <1>4 DEF Wake, Fire, CommandEnds, StartWakeTurn, StartCronTurn, Clear,
                    BeginTurn, turnVars, vars
<1>5. ASSUME NEW u \in Input, StartUserTurn(u)
      PROVE  Counted' /\ GoalVerdict'
  <2>1. Counted' /\ CompletedIsJudged'
    BY <1>2, <1>5, GoalCounted DEF StartUserTurn
  <2> QED BY <1>5, <2>1 DEF StartUserTurn, BeginTurn, GoalVerdict, CompletedIsJudged
<1>6. CASE ToggleMode
  <2>1. Counted' /\ CompletedIsJudged'
    BY <1>2, <1>6, GoalCounted DEF ToggleMode
  <2> QED BY <1>6, <2>1 DEF ToggleMode, AtPrompt, GoalVerdict, CompletedIsJudged
<1>7. CASE \/ Prepare \/ PrepareFails \/ EndCompaction \/ CompactionFails
           \/ ProviderFails \/ Overflow \/ EmptyReply
           \/ \E calls \in CallLists : ReplyWithCalls(calls)
           \/ RunCall \/ InvalidCall \/ Settle
  BY <1>3, <1>7 DEF Prepare, PrepareFails, EndCompaction, CompactionFails, ProviderFails,
                    Overflow, EmptyReply, ReplyWithCalls, RunCall, InvalidCall, Settle,
                    EndTurn
<1>8. ASSUME NEW truncated \in BOOLEAN, Reply(truncated)
      PROVE  Counted' /\ GoalVerdict'
  BY <1>3, <1>8 DEF Reply, EndTurn
<1>9. ASSUME NEW verdict \in Verdict, Gate(verdict)
      PROVE  Counted' /\ GoalVerdict'
  <2>1. /\ Counted' /\ CompletedIsJudged'
        /\ verdict = "ok" => goal'.status = "completed"
    BY <1>2, <1>9, GoalCounted DEF Gate
  <2>2. pc' # "ended" \/ completed' = (verdict = "ok")
    BY <1>9 DEF Gate, EndTurn
  <2> QED BY <2>1, <2>2 DEF GoalVerdict, CompletedIsJudged
<1> QED BY <1>4, <1>5, <1>6, <1>7, <1>8, <1>9 DEF Next, TurnSteps

LEMMA GoalStart == Init => GoalInv
<1> SUFFICES ASSUME Init PROVE GoalInv
  OBVIOUS
<1>1. Base
  BY BaseStart
<1>2. nudges = 0 /\ goal = NoGoal /\ pc = "idle" /\ 0 < MaxChecks
  BY GoalAssumption DEF Init, GoalInit
<1> QED BY <1>1, <1>2 DEF GoalInv, Counted, ContinuationsBounded, GoalVerdict, NoGoal

\* The evaluator sends the agent back fewer than MaxChecks times, for any limit.
THEOREM GoalTerminates == Spec => []ContinuationsBounded
<1>1. Init => GoalInv
  BY GoalStart
<1>2. GoalInv /\ [Next]_vars => GoalInv'
  BY GoalStep
<1>3. GoalInv => ContinuationsBounded
  BY DEF GoalInv, Counted
<1> QED BY <1>1, <1>2, <1>3, PTL DEF Spec

\* A turn the gate must judge is completed only with its goal, and a completed
\* goal has had no input since.
THEOREM GoalsAreJudged == Spec => []GoalVerdict
<1>1. Init => GoalInv
  BY GoalStart
<1>2. GoalInv /\ [Next]_vars => GoalInv'
  BY GoalStep
<1>3. GoalInv => GoalVerdict
  BY DEF GoalInv
<1> QED BY <1>1, <1>2, <1>3, PTL DEF Spec

-----------------------------------------------------------------------------
(***************************************************************************)
(* Prompts.  A turn that collected firings has at most one message of its  *)
(* own for them in the list, so that removing one removes them all.        *)
(***************************************************************************)
Own(m) == m.kind = "scheduled" /\ ~m.copy

\* No prompt of the list is about a firing of s; at most one is.
NoneOf(h, s) == \A i \in DOMAIN h : Own(h[i]) => h[i].refs \cap s = {}
OneOf(h, s) ==
    \A i, j \in DOMAIN h :
        Own(h[i]) /\ h[i].refs \cap s # {} /\ Own(h[j]) /\ h[j].refs \cap s # {} => i = j

LEMMA AppendedOther ==
    ASSUME NEW h, Fine(h), NEW m \in Message, ~Own(m)
    PROVE  /\ \A s : NoneOf(h, s) => NoneOf(Append(h, m), s)
           /\ \A s : OneOf(h, s) => OneOf(Append(h, m), s)
<1> DEFINE g == Append(h, m)
<1>1. /\ \A i \in DOMAIN h : g[i] = h[i]
      /\ g[Len(h) + 1] = m
      /\ DOMAIN g = DOMAIN h \cup {Len(h) + 1}
  BY Appended DEF Fine
<1> HIDE DEF g
<1>2. \A s : NoneOf(h, s) => NoneOf(g, s)
  BY <1>1 DEF NoneOf
<1>3. \A s : OneOf(h, s) => OneOf(g, s)
  BY <1>1 DEF OneOf
<1> QED BY <1>2, <1>3 DEF g

LEMMA AppendedPrompt ==
    ASSUME NEW h, Fine(h), NEW m \in Message, NEW s, NoneOf(h, s)
    PROVE  OneOf(Append(h, m), s)
<1> DEFINE g == Append(h, m)
<1>1. /\ \A i \in DOMAIN h : g[i] = h[i]
      /\ DOMAIN g = DOMAIN h \cup {Len(h) + 1}
  BY Appended DEF Fine
<1> HIDE DEF g
<1>2. OneOf(g, s)
  BY <1>1 DEF OneOf, NoneOf
<1> QED BY <1>2 DEF g

LEMMA NoPrompt ==
    ASSUME NEW h, \A i \in DOMAIN h : ~Own(h[i]), NEW s
    PROVE  NoneOf(h, s) /\ OneOf(h, s)
BY DEF NoneOf, OneOf

\* What a compaction leaves: nothing is lost but what is left out and the team
\* events that came in meanwhile.
LEMMA Compaction ==
    ASSUME Base, EndCompaction
    PROVE  /\ DOMAIN history' = {1, 2}
           /\ history'[1].kind = "system" /\ history'[1].refs = {}
           /\ history'[2].kind = "summary"
           /\ Refs(history)' \subseteq Refs(history)
           /\ gone \subseteq gone' /\ gone' \subseteq gone \cup Refs(history)
           /\ (Refs(history) \ Event) \cup gone \subseteq Refs(history)' \cup gone'
           /\ Refs(history)' \cap gone' \subseteq gone
<1>1. Fine(history) /\ snapshot \in Nat /\ Late /\ Compacting
  BY DEF Base, OtherTypes, EndCompaction, Compacting
<1>2. PICK n \in 1..snapshot : /\ history' = Compacted(n)
                               /\ gone' = gone \cup LeftOut(n)
  BY DEF EndCompaction
<1> QED BY <1>1, <1>2, CompactedFine

LEMMA CompactedPrompts ==
    ASSUME Base, EndCompaction, NEW s
    PROVE  NoneOf(history', s) /\ OneOf(history', s)
<1>1. \A i \in DOMAIN history' : ~Own(history'[i])
  BY Compaction DEF Own
<1> QED BY <1>1, NoPrompt

LEMMA CopiedPrompts ==
    ASSUME Fine(history), NEW s
    PROVE  NoneOf(AsCopies(history), s) /\ OneOf(AsCopies(history), s)
<1>1. \A i \in DOMAIN AsCopies(history) : ~Own(AsCopies(history)[i])
  BY Copied DEF Own, Fine
<1> QED BY <1>1, NoPrompt

LEMMA ClearedPrompts ==
    ASSUME Fine(history), NEW s
    PROVE  NoneOf(SubSeq(history, 1, 1), s) /\ OneOf(SubSeq(history, 1, 1), s)
<1>1. \A i \in DOMAIN SubSeq(history, 1, 1) : ~Own(SubSeq(history, 1, 1)[i])
  BY Shortened DEF Own, Fine
<1> QED BY <1>1, NoPrompt

\* What Withdraw leaves is about none of the firings that go back.
LEMMA Withdrawn ==
    ASSUME Fine(history), NEW s, NoneOf(history, s), OneOf(history, fired)
    PROVE  NoneOf(WithoutPrompt, s \cup fired)
<1>1. CASE PromptAt = {}
  BY <1>1 DEF WithoutPrompt, NoneOf, PromptAt, IsPrompt, Own
<1>2. CASE PromptAt # {}
  <2>1. PICK i \in PromptAt : WithoutPrompt = RemoveAt(history, i)
    BY <1>2 DEF WithoutPrompt
  <2>2. /\ i \in DOMAIN history /\ i \in 1..Len(history) /\ Len(history) \in Nat
        /\ DOMAIN history = 1..Len(history)
    BY DEF PromptAt, Fine
  <2>3. /\ DOMAIN WithoutPrompt = 1..(Len(history) - 1)
        /\ \A k \in 1..(Len(history) - 1) :
              WithoutPrompt[k] = IF k < i THEN history[k] ELSE history[k + 1]
    BY <2>1, <2>2, Removed DEF Fine
  <2>4. \A k \in DOMAIN history : k # i => (Own(history[k]) => history[k].refs \cap fired = {})
    BY DEF OneOf, PromptAt, IsPrompt, Own
  <2>5. ASSUME NEW k \in 1..(Len(history) - 1)
        PROVE  \E j \in DOMAIN history : j # i /\ WithoutPrompt[k] = history[j]
    BY <2>2, <2>3
  <2>6. ASSUME NEW k \in DOMAIN WithoutPrompt, Own(WithoutPrompt[k])
        PROVE  WithoutPrompt[k].refs \cap (s \cup fired) = {}
    <3>1. PICK j \in DOMAIN history : j # i /\ WithoutPrompt[k] = history[j]
      BY <2>3, <2>5
    <3>2. history[j].refs \cap s = {} /\ history[j].refs \cap fired = {}
      BY <2>4, <2>6, <3>1 DEF NoneOf
    <3> QED BY <3>1, <3>2
  <2> QED BY <2>6 DEF NoneOf
<1> QED BY <1>1, <1>2

LEMMA NoticedPrompts ==
    ASSUME Fine(history), NEW s, NEW t, NoneOf(history, s), OneOf(history, t)
    PROVE  /\ NoneOf(WithNotices, s) /\ OneOf(WithNotices, t)
           /\ NoneOf(WithReminder, s) /\ OneOf(WithReminder, t)
<1>1. At("ready") \in SUBSET Command
  BY DEF At
<1> DEFINE n == Note("notice", At("ready"))  r == Note("reminder", {})
<1>2. n \in Message /\ ~Own(n) /\ r \in Message /\ ~Own(r)
  BY <1>1, NoteKinds DEF Own
<1> HIDE DEF r
<1>3. Fine(WithNotices)
  BY Noticed
<1>4. NoneOf(WithNotices, s) /\ OneOf(WithNotices, t)
  <2>1. WithNotices \in {history, Append(history, n)}
    BY DEF WithNotices
  <2> HIDE DEF n
  <2> QED BY <1>2, <2>1, AppendedOther
<1>5. NoneOf(WithReminder, s) /\ OneOf(WithReminder, t)
  <2>1. WithReminder \in {WithNotices, Append(WithNotices, r)}
    BY DEF WithReminder, r
  <2> QED BY <1>2, <1>3, <1>4, <2>1, AppendedOther
<1> QED BY <1>4, <1>5

PromptInv == Base /\ NoneOf(history, queue) /\ OneOf(history, fired)

LEMMA PromptThreads ==
    ASSUME PromptInv,
           \/ \E u \in Input : StartUserTurn(u)
           \/ \E e \in Event : Wake(e)
           \/ \E f \in Firing : Fire(f)
           \/ \E c \in Command : CommandEnds(c)
           \/ StartWakeTurn \/ StartCronTurn \/ Clear \/ ToggleMode
    PROVE  NoneOf(history, queue)' /\ OneOf(history, fired)'
<1>1. Fine(history) /\ RefsDue /\ NoneOf(history, queue) /\ OneOf(history, fired)
      /\ queue \in SUBSET Firing
  BY DEF PromptInv, Base, OtherTypes
<1>2. ASSUME NEW messages, Fine(messages), NoneOf(messages, queue),
             NEW thread, BeginTurn(thread, messages)
      PROVE  NoneOf(history, queue)' /\ OneOf(history, fired)'
  <2>1. NoneOf(history', {})
    BY DEF NoneOf
  <2>2. OneOf(history', queue)
    <3>1. CASE queue = {}
      BY <3>1 DEF OneOf
    <3>2. CASE queue # {}
      <4> DEFINE m == Note("scheduled", queue)
      <4>1. m \in Message /\ history' = Append(messages, m)
        BY <1>1, <1>2, <3>2, NoteKinds DEF BeginTurn
      <4> HIDE DEF m
      <4> QED BY <1>2, <4>1, AppendedPrompt
    <3> QED BY <3>1, <3>2
  <2> QED BY <1>2, <2>1, <2>2 DEF BeginTurn
<1>3. ASSUME NEW u \in Input, StartUserTurn(u)
      PROVE  NoneOf(history, queue)' /\ OneOf(history, fired)'
  <2> DEFINE m == Note("user", {u})
  <2>1. m \in Message /\ ~Own(m)
    BY NoteKinds DEF Own
  <2>2. BeginTurn("cli", Append(history, m))
    BY <1>3 DEF StartUserTurn
  <2> HIDE DEF m
  <2>3. Fine(Append(history, m)) /\ NoneOf(Append(history, m), queue)
    BY <1>1, <2>1, FineAppended, AppendedOther
  <2> QED BY <1>2, <2>2, <2>3
<1>4. ASSUME NEW e \in Event, Wake(e)
      PROVE  NoneOf(history, queue)' /\ OneOf(history, fired)'
  <2> DEFINE m == Note("event", {e})
  <2>1. m \in Message /\ ~Own(m)
    BY NoteKinds DEF Own
  <2>2. history' = Append(history, m) /\ UNCHANGED <<queue, fired>>
    BY <1>4 DEF Wake, cronVars
  <2> HIDE DEF m
  <2> QED BY <1>1, <2>1, <2>2, AppendedOther
<1>5. ASSUME NEW f \in Firing, Fire(f)
      PROVE  NoneOf(history, queue)' /\ OneOf(history, fired)'
  <2>1. f \notin Refs(history)
    BY <1>1, <1>5 DEF Fire, RefsDue
  <2>2. \A i \in DOMAIN history : f \notin history[i].refs
    BY <2>1 DEF Refs
  <2> QED BY <1>1, <1>5, <2>2 DEF Fire, NoneOf, OneOf
<1>6. CASE StartWakeTurn
  BY <1>1, <1>2, <1>6 DEF StartWakeTurn
<1>7. CASE StartCronTurn
  BY <1>1, <1>2, <1>7 DEF StartCronTurn
<1>8. CASE Clear
  BY <1>1, <1>8, ClearedPrompts DEF Clear, cronVars
<1>9. CASE ToggleMode \/ \E c \in Command : CommandEnds(c)
  BY <1>1, <1>9 DEF ToggleMode, CommandEnds, cronVars
<1> QED BY <1>3, <1>4, <1>5, <1>6, <1>7, <1>8, <1>9

LEMMA PromptTurn ==
    ASSUME PromptInv, TurnSteps
    PROVE  NoneOf(history, queue)' /\ OneOf(history, fired)'
<1> USE DEF outsideTurn, cronVars
<1>1. /\ Base /\ Fine(history) /\ NoneOf(history, queue) /\ OneOf(history, fired)
  BY DEF PromptInv, Base
<1>2. CASE Prepare \/ PrepareFails
  <2>1. history' \in {WithNotices, WithReminder} /\ UNCHANGED <<queue, fired>>
    BY <1>2 DEF Prepare, PrepareFails
  <2> QED BY <1>1, <2>1, NoticedPrompts
<1>3. CASE EndCompaction
  BY <1>1, <1>3, CompactedPrompts DEF EndCompaction
<1>4. CASE CompactionFails \/ ProviderFails \/ EmptyReply \/ InvalidCall
  BY <1>1, <1>4 DEF CompactionFails, ProviderFails, EmptyReply, InvalidCall
<1>5. CASE Overflow
  <2>1. history' \in {history, AsCopies(history)} /\ UNCHANGED <<queue, fired>>
    BY <1>5 DEF Overflow, AsCopies
  <2> QED BY <1>1, <2>1, CopiedPrompts
<1>6. ASSUME NEW calls \in Seq(Call), history' = Append(history, Assistant(calls)),
             UNCHANGED <<queue, fired>>
      PROVE  NoneOf(history, queue)' /\ OneOf(history, fired)'
  <2> DEFINE m == Assistant(calls)
  <2>1. m \in Message /\ ~Own(m)
    BY <1>1, AnswerTypes DEF Own
  <2> HIDE DEF m
  <2>2. history' = Append(history, m)
    BY <1>6 DEF m
  <2> QED BY <1>1, <1>6, <2>1, <2>2, AppendedOther
<1>7. CASE \E truncated \in BOOLEAN : Reply(truncated)
  <2>1. <<>> \in Seq(Call)
    OBVIOUS
  <2> QED BY <1>6, <1>7, <2>1 DEF Reply
<1>8. CASE \E calls \in CallLists : ReplyWithCalls(calls)
  BY <1>6, <1>8, CallListTypes DEF ReplyWithCalls
<1>9. CASE RunCall
  <2> DEFINE m == ToolResult(Head(pending))
  <2>1. m \in Message /\ ~Own(m)
    BY <1>9, PendingTypes DEF RunCall, PromptInv, Base, Own
  <2>2. history' = Append(history, m) /\ UNCHANGED <<queue, fired>>
    BY <1>9 DEF RunCall
  <2> HIDE DEF m
  <2> QED BY <1>1, <2>1, <2>2, AppendedOther
<1>10. CASE \E verdict \in Verdict : Gate(verdict)
  <2> DEFINE m == Note("nudge", {})
  <2>1. m \in Message /\ ~Own(m)
    BY NoteKinds DEF Own
  <2>2. history' \in {history, Append(history, m)} /\ UNCHANGED <<queue, fired>>
    BY <1>10 DEF Gate
  <2> HIDE DEF m
  <2> QED BY <1>1, <2>1, <2>2, AppendedOther
<1>11. CASE Settle
  <2>1. fired' = {} /\ \A h : OneOf(h, {})
    BY <1>11 DEF Settle, OneOf
  <2>2. \/ UNCHANGED <<queue, history>>
        \/ queue' = queue \cup fired /\ history' = WithoutPrompt
    BY <1>11 DEF Settle, Withdraw
  <2> QED BY <1>1, <2>1, <2>2, Withdrawn
<1> QED BY <1>2, <1>3, <1>4, <1>5, <1>7, <1>8, <1>9, <1>10, <1>11 DEF TurnSteps

\* A prompt that goes back to the queue leaves no message of its own behind.
THEOREM RestoredAreWithdrawn == Spec => []RestoredIsWithdrawn
<1>1. Init => PromptInv
  <2> SUFFICES ASSUME Init PROVE PromptInv
    OBVIOUS
  <2>1. queue = {} /\ fired = {}
    BY DEF Init
  <2> QED BY <2>1, BaseStart DEF PromptInv, NoneOf, OneOf
<1>2. PromptInv /\ [Next]_vars => PromptInv'
  <2> SUFFICES ASSUME PromptInv, [Next]_vars PROVE PromptInv'
    OBVIOUS
  <2>1. Base'
    BY BaseStep DEF PromptInv
  <2>2. CASE UNCHANGED vars
    BY <2>1, <2>2 DEF PromptInv, vars, cronVars
  <2>3. CASE TurnSteps
    BY <2>1, <2>3, PromptTurn DEF PromptInv
  <2> QED BY <2>1, <2>2, <2>3, PromptThreads DEF Next, PromptInv
<1>3. PromptInv => RestoredIsWithdrawn
  BY DEF PromptInv, NoneOf, Own, RestoredIsWithdrawn
<1> QED BY <1>1, <1>2, <1>3, PTL DEF Spec

-----------------------------------------------------------------------------
(***************************************************************************)
(* What each step does to the references of the list.                      *)
(***************************************************************************)
LEMMA BeginRefs ==
    ASSUME Base,
           \/ \E u \in Input : StartUserTurn(u)
           \/ StartWakeTurn \/ StartCronTurn
    PROVE  /\ Refs(history) \cup queue \subseteq Refs(history)'
           /\ Refs(history)' \subseteq Refs(history) \cup queue \cup Input
           /\ lock = "free" /\ pc' = "round"
           /\ fired' = queue /\ queue' = {} /\ accepted' = FALSE /\ completed' = FALSE
           /\ UNCHANGED <<due, answered, voided, settled, gone, stage>>
<1>1. Fine(history)
  BY DEF Base
<1>2. CASE StartWakeTurn \/ StartCronTurn
  <2>1. PICK thread \in {"cli", "processor"} : BeginTurn(thread, history)
    BY <1>2 DEF StartWakeTurn, StartCronTurn
  <2>2. Refs(history)' = Refs(history) \cup queue
    BY <1>1, <2>1, BeginFine
  <2>3. /\ lock = "free" /\ pc' = "round"
        /\ fired' = queue /\ queue' = {} /\ accepted' = FALSE /\ completed' = FALSE
        /\ UNCHANGED <<due, answered, voided, settled, gone, stage>>
    BY <2>1 DEF BeginTurn
  <2> QED BY <2>2, <2>3
<1>3. ASSUME NEW u \in Input, StartUserTurn(u)
      PROVE  Refs(history)' = Refs(history) \cup {u} \cup queue
  <2> DEFINE messages == Append(history, Note("user", {u}))
  <2>1. Fine(messages) /\ Refs(messages) = Refs(history) \cup {u}
    BY <1>1, NoteKinds, FineAppended
  <2>2. BeginTurn("cli", messages)
    BY <1>3 DEF StartUserTurn
  <2> HIDE DEF messages
  <2> QED BY <2>1, <2>2, BeginFine
<1>4. CASE \E u \in Input : StartUserTurn(u)
  <2>1. PICK u \in Input : StartUserTurn(u)
    BY <1>4
  <2>2. Refs(history)' = Refs(history) \cup {u} \cup queue /\ {u} \subseteq Input
    BY <1>3, <2>1
  <2>3. /\ lock = "free" /\ pc' = "round"
        /\ fired' = queue /\ queue' = {} /\ accepted' = FALSE /\ completed' = FALSE
        /\ UNCHANGED <<due, answered, voided, settled, gone, stage>>
    BY <2>1 DEF StartUserTurn, BeginTurn
  <2> QED BY <2>2, <2>3
<1> QED BY <1>2, <1>4

LEMMA WakeRefs ==
    ASSUME Base, NEW e \in Event, Wake(e)
    PROVE  Refs(history)' = Refs(history) \cup {e}
BY NoteKinds, FineAppended DEF Wake, Base

\* The steps of a turn at the provider, with tools and at the gate add messages
\* about nothing.
LEMMA AnswerRefs ==
    ASSUME Base,
           \/ \E truncated \in BOOLEAN : Reply(truncated)
           \/ \E calls \in CallLists : ReplyWithCalls(calls)
           \/ RunCall \/ \E verdict \in Verdict : Gate(verdict)
           \/ Overflow
    PROVE  Refs(history)' = Refs(history)
<1>1. Fine(history) /\ Calling
  BY DEF Base
<1>2. CASE \E truncated \in BOOLEAN : Reply(truncated)
  <2> DEFINE none == <<>>
  <2>1. none \in Seq(Call)
    OBVIOUS
  <2>2. history' = Append(history, Assistant(none))
    BY <1>2 DEF Reply
  <2> HIDE DEF none
  <2> QED BY <1>1, <2>1, <2>2, AnswerTypes
<1>3. CASE \E calls \in CallLists : ReplyWithCalls(calls)
  BY <1>1, <1>3, CallListTypes, AnswerTypes DEF ReplyWithCalls
<1>4. CASE RunCall
  <2> DEFINE m == ToolResult(Head(pending))
  <2>1. m \in Message /\ m.refs = {} /\ history' = Append(history, m)
    BY <1>1, <1>4, PendingTypes DEF RunCall
  <2> HIDE DEF m
  <2> QED BY <1>1, <2>1, FineAppended
<1>5. CASE \E verdict \in Verdict : Gate(verdict)
  <2> DEFINE m == Note("nudge", {})
  <2>1. m \in Message /\ m.refs = {} /\ history' \in {history, Append(history, m)}
    BY <1>5, NoteKinds DEF Gate
  <2> HIDE DEF m
  <2> QED BY <1>1, <2>1, FineAppended
<1>6. CASE Overflow
  <2>1. history' \in {history, AsCopies(history)}
    BY <1>6 DEF Overflow, AsCopies
  <2> QED BY <1>1, <2>1, CopiedFine
<1> QED BY <1>2, <1>3, <1>4, <1>5, <1>6

-----------------------------------------------------------------------------
(***************************************************************************)
(* Deliveries.  While a turn runs, the queue holds only firings that came  *)
(* after it began, and what it collected is in the list until the turn     *)
(* ends, or was left out of a summary.                                     *)
(***************************************************************************)
Running == pc \notin {"idle", "ended"}

DeliverInv ==
    /\ Base
    /\ DeliveredOnce
    /\ pc # "idle" => queue \cap Refs(history) = {}
    /\ pc # "idle" /\ accepted => fired \subseteq answered \cup voided \cup gone
    /\ pc # "idle" /\ ~accepted => fired \cap (answered \cup voided) = {}
    /\ Running => fired \subseteq Refs(history) \cup gone
    /\ pc = "gate" \/ (pc = "ended" /\ completed) => accepted \/ fired = {}
    /\ Running => ~completed

LEMMA DeliverStep ==
    ASSUME DeliverInv, [Next]_vars
    PROVE  DeliverInv'
<1>1. Base'
  BY BaseStep DEF DeliverInv
<1>2. /\ (lock = "free") <=> (pc = "idle")
      /\ queue \subseteq due /\ due \subseteq Firing /\ fired \subseteq due
      /\ RefsDue /\ Base /\ answered \subseteq due /\ voided \subseteq due
  BY DEF DeliverInv, Base, OtherTypes
<1> USE DEF DeliveredOnce, Running, outsideTurn, cronVars, cliVars, turnVars, compaction,
            EndTurn
<1>3. ASSUME UNCHANGED <<queue, fired, answered, voided, settled, gone, pc, accepted,
                         completed>>,
             Refs(history) \subseteq Refs(history)',
             pc # "idle" => Refs(history)' \cap Firing \subseteq Refs(history)
      PROVE  DeliverInv'
  BY <1>1, <1>2, <1>3 DEF DeliverInv
<1>4. CASE \E e \in Event : Wake(e)
  BY <1>3, <1>4, WakeRefs, <1>2, Apart DEF Wake
<1>5. CASE \E f \in Firing : Fire(f)
  BY <1>1, <1>2, <1>5 DEF Fire, DeliverInv, RefsDue
<1>6. CASE ToggleMode \/ UNCHANGED vars \/ \E c \in Command : CommandEnds(c)
  BY <1>3, <1>6 DEF ToggleMode, CommandEnds, vars
<1>7. CASE Clear
  <2>1. /\ pc = "idle" /\ pc' = "idle" /\ UNCHANGED <<queue, answered, voided, settled>>
        /\ gone \subseteq gone'
    BY <1>2, <1>7 DEF Clear
  <2> QED BY <1>1, <2>1 DEF DeliverInv
<1>8. CASE \/ \E u \in Input : StartUserTurn(u)
           \/ StartWakeTurn \/ StartCronTurn
  BY <1>1, <1>2, <1>8, BeginRefs DEF DeliverInv
<1>9. CASE Prepare \/ PrepareFails
  <2>1. Refs(history)' = Refs(history) \cup At("ready")
    BY <1>2, <1>9, Noticed DEF Prepare, PrepareFails, Base
  <2>2. At("ready") \cap Firing = {}
    BY Apart DEF At
  <2>3. queue \cap Refs(history)' = {}
    BY <1>2, <1>9, <2>1, <2>2 DEF Prepare, PrepareFails, DeliverInv
  <2> QED BY <1>1, <1>9, <2>1, <2>3 DEF Prepare, PrepareFails, DeliverInv
<1>10. CASE EndCompaction
  <2>1. /\ Refs(history)' \subseteq Refs(history) /\ gone \subseteq gone'
        /\ (Refs(history) \ Event) \cup gone \subseteq Refs(history)' \cup gone'
    BY <1>2, <1>10, Compaction
  <2>2. fired \cap Event = {}
    BY <1>2, Apart
  <2>3. fired \subseteq Refs(history)' \cup gone'
    BY <1>10, <2>1, <2>2 DEF EndCompaction, DeliverInv
  <2> QED BY <1>1, <1>10, <2>1, <2>3 DEF EndCompaction, DeliverInv
<1>11. CASE CompactionFails \/ ProviderFails \/ InvalidCall
  BY <1>1, <1>11 DEF CompactionFails, ProviderFails, AtProvider, InvalidCall, DeliverInv
<1>12. CASE Overflow
  <2>1. Refs(history)' = Refs(history)
    BY <1>2, <1>12, AnswerRefs
  <2> QED BY <1>1, <1>12, <2>1 DEF Overflow, DeliverInv
<1>13. ASSUME AtProvider, Refs(history)' = Refs(history), gone' = gone,
              \/ /\ answered' = answered \cup (Refs(history) \cap Firing)
                 /\ voided' = voided
              \/ /\ voided' = voided \cup (Refs(history) \cap Firing)
                 /\ answered' = answered,
              accepted' = (accepted \/ fired # {}),
              UNCHANGED <<queue, fired, due, settled>>,
              pc' \in {"gate", "tools", "ended"},
              completed' = completed \/ pc' = "ended"
       PROVE  DeliverInv'
  <2>1. /\ pc \in {"asking", "retrying"} /\ fired \subseteq Refs(history) \cup gone
        /\ queue \cap Refs(history) = {} /\ ~completed
    BY <1>13 DEF AtProvider, DeliverInv
  <2>2. answered' \cup voided' = answered \cup voided \cup (Refs(history) \cap Firing)
    BY <1>13
  <2>3. fired \subseteq answered' \cup voided' \cup gone'
    BY <1>2, <1>13, <2>1, <2>2
  <2>4. (~accepted' => fired = {}) /\ (accepted' \/ fired = {})
    BY <1>13
  <2>5. DeliveredOnce'
    BY <1>13, <2>1, <2>2 DEF DeliverInv
  <2> QED BY <1>1, <1>13, <2>1, <2>3, <2>4, <2>5 DEF DeliverInv
<1>14. CASE \/ \E truncated \in BOOLEAN : Reply(truncated)
            \/ \E calls \in CallLists : ReplyWithCalls(calls)
  BY <1>2, <1>13, <1>14, AnswerRefs DEF Reply, ReplyWithCalls, Accept
<1>15. CASE EmptyReply
  BY <1>13, <1>15 DEF EmptyReply
<1>16. CASE RunCall \/ \E verdict \in Verdict : Gate(verdict)
  <2>1. Refs(history)' = Refs(history)
    BY <1>2, <1>16, AnswerRefs
  <2> QED BY <1>1, <1>16, <2>1 DEF RunCall, Gate, DeliverInv
<1>17. CASE Settle
  <2>1. pc' = "idle" /\ pc = "ended" /\ UNCHANGED <<answered, voided, gone>>
    BY <1>17 DEF Settle
  <2>2. CASE completed \/ accepted
    BY <1>1, <1>17, <2>1, <2>2 DEF Settle, DeliverInv
  <2>3. CASE ~(completed \/ accepted)
    BY <1>1, <1>17, <2>1, <2>3 DEF Settle, Withdraw, DeliverInv
  <2> QED BY <2>2, <2>3
<1> QED BY <1>4, <1>5, <1>6, <1>7, <1>8, <1>9, <1>10, <1>11, <1>12, <1>14, <1>15, <1>16,
           <1>17 DEF Next, TurnSteps

\* A firing in the queue has been in no request that got a response; a settled
\* one has, unless a summary left it out.
THEOREM DeliveriesAreSingle == Spec => []DeliveredOnce
<1>1. Init => DeliverInv
  BY BaseStart DEF Init, DeliverInv, DeliveredOnce, Running
<1>2. DeliverInv /\ [Next]_vars => DeliverInv'
  BY DeliverStep
<1>3. DeliverInv => DeliveredOnce
  BY DEF DeliverInv
<1> QED BY <1>1, <1>2, <1>3, PTL DEF Spec

-----------------------------------------------------------------------------
(***************************************************************************)
(* Notices.  No two messages are about the same command, and the messages  *)
(* that are taken out of the list are about none.                          *)
(***************************************************************************)
Distinct(h) ==
    \A i, j \in DOMAIN h : i # j => h[i].refs \cap h[j].refs \cap Command = {}
PromptsAreCron(h) ==
    \A i \in DOMAIN h : h[i].kind = "scheduled" => h[i].refs \subseteq Firing
Tidy(h) == Distinct(h) /\ PromptsAreCron(h)

LEMMA TidyAppended ==
    ASSUME NEW h, Fine(h), Tidy(h), NEW m \in Message,
           m.refs \cap Refs(h) \cap Command = {},
           m.kind = "scheduled" => m.refs \subseteq Firing
    PROVE  Tidy(Append(h, m))
<1> DEFINE g == Append(h, m)
<1>1. /\ \A i \in DOMAIN h : g[i] = h[i]
      /\ g[Len(h) + 1] = m
      /\ DOMAIN g = DOMAIN h \cup {Len(h) + 1}
  BY Appended DEF Fine
<1>2. \A i \in DOMAIN h : h[i].refs \cap m.refs \cap Command = {}
  BY DEF Refs
<1> HIDE DEF g
<1>3. Distinct(g)
  <2> SUFFICES ASSUME NEW i \in DOMAIN g, NEW j \in DOMAIN g, i # j
               PROVE  g[i].refs \cap g[j].refs \cap Command = {}
    BY DEF Distinct
  <2>1. CASE i \in DOMAIN h /\ j \in DOMAIN h
    BY <1>1, <2>1 DEF Tidy, Distinct
  <2>2. CASE i = Len(h) + 1 /\ j \in DOMAIN h
    BY <1>1, <1>2, <2>2
  <2>3. CASE j = Len(h) + 1 /\ i \in DOMAIN h
    BY <1>1, <1>2, <2>3
  <2> QED BY <1>1, <2>1, <2>2, <2>3
<1>4. PromptsAreCron(g)
  BY <1>1 DEF Tidy, PromptsAreCron
<1> QED BY <1>3, <1>4 DEF g, Tidy

LEMMA TidyCompacted ==
    ASSUME Base, EndCompaction
    PROVE  Tidy(history')
BY Compaction DEF Tidy, Distinct, PromptsAreCron

LEMMA TidyCleared ==
    ASSUME Fine(history)
    PROVE  Tidy(SubSeq(history, 1, 1))
<1>1. /\ DOMAIN SubSeq(history, 1, 1) = {1}
      /\ SubSeq(history, 1, 1)[1].refs = {}
  BY Shortened DEF Fine
<1> QED BY <1>1 DEF Tidy, Distinct, PromptsAreCron

LEMMA TidyCopied ==
    ASSUME Fine(history), Tidy(history)
    PROVE  Tidy(AsCopies(history))
BY Copied DEF Fine, Tidy, Distinct, PromptsAreCron

LEMMA TidyWithdrawn ==
    ASSUME Fine(history), Tidy(history)
    PROVE  /\ Tidy(WithoutPrompt)
           /\ Refs(WithoutPrompt) \cap Command = Refs(history) \cap Command
<1>1. CASE PromptAt = {}
  BY <1>1 DEF WithoutPrompt
<1>2. CASE PromptAt # {}
  <2>1. PICK i \in PromptAt : WithoutPrompt = RemoveAt(history, i)
    BY <1>2 DEF WithoutPrompt
  <2>2. /\ i \in 1..Len(history) /\ Len(history) \in Nat
        /\ DOMAIN history = 1..Len(history)
        /\ history[i].refs \subseteq Firing
    BY DEF PromptAt, IsPrompt, Fine, Tidy, PromptsAreCron
  <2> DEFINE from(k) == IF k < i THEN k ELSE k + 1
  <2>3. /\ DOMAIN WithoutPrompt = 1..(Len(history) - 1)
        /\ \A k \in 1..(Len(history) - 1) : WithoutPrompt[k] = history[from(k)]
    BY <2>1, <2>2, Removed DEF Fine
  <2>4. /\ \A k \in 1..(Len(history) - 1) : from(k) \in DOMAIN history
        /\ \A k, l \in 1..(Len(history) - 1) : k # l => from(k) # from(l)
        /\ \A j \in DOMAIN history :
              j # i => \E k \in 1..(Len(history) - 1) : from(k) = j
    <3>1. \A j \in DOMAIN history :
              j # i => \E k \in 1..(Len(history) - 1) : from(k) = j
      <4> SUFFICES ASSUME NEW j \in 1..Len(history), j # i
                   PROVE  \E k \in 1..(Len(history) - 1) : from(k) = j
        BY <2>2
      <4>1. CASE j < i
        BY <2>2, <4>1
      <4>2. CASE j > i
        <5>1. j - 1 \in 1..(Len(history) - 1) /\ from(j - 1) = j
          BY <2>2, <4>2
        <5> QED BY <5>1
      <4> QED BY <2>2, <4>1, <4>2
    <3> QED BY <2>2, <3>1
  <2> HIDE DEF from
  <2>5. Tidy(WithoutPrompt)
    BY <2>3, <2>4 DEF Tidy, Distinct, PromptsAreCron
  <2>6. Refs(WithoutPrompt) \subseteq Refs(history)
    BY WithoutPromptFine
  <2>7. Refs(history) \cap Command \subseteq Refs(WithoutPrompt)
    <3> SUFFICES ASSUME NEW c \in Refs(history) \cap Command
                 PROVE  c \in Refs(WithoutPrompt)
      OBVIOUS
    <3>1. PICK j \in DOMAIN history : c \in history[j].refs
      BY DEF Refs
    <3>2. j # i
      BY <2>2, <3>1, Apart
    <3>3. PICK k \in DOMAIN WithoutPrompt : WithoutPrompt[k] = history[j]
      BY <2>3, <2>4, <3>2
    <3> QED BY <3>1, <3>3 DEF Refs
  <2> QED BY <2>5, <2>6, <2>7
<1> QED BY <1>1, <1>2

LEMMA TidyNoticed ==
    ASSUME Fine(history), Tidy(history), At("ready") \cap Refs(history) = {}
    PROVE  Tidy(WithNotices) /\ Tidy(WithReminder)
<1> DEFINE n == Note("notice", At("ready"))  r == Note("reminder", {})
<1>1. /\ n \in Message /\ n.refs = At("ready") /\ n.kind = "notice"
      /\ r \in Message /\ r.refs = {} /\ r.kind = "reminder"
  <2>1. At("ready") \in SUBSET Command
    BY DEF At
  <2> QED BY <2>1, NoteKinds
<1> HIDE DEF r
<1>2. Fine(WithNotices)
  BY Noticed
<1>3. Tidy(WithNotices)
  <2>1. WithNotices \in {history, Append(history, n)}
    BY DEF WithNotices
  <2> HIDE DEF n
  <2> QED BY <1>1, <2>1, TidyAppended
<1>4. Tidy(WithReminder)
  <2>1. WithReminder \in {WithNotices, Append(WithNotices, r)}
    BY DEF WithReminder, r
  <2> QED BY <1>1, <1>2, <1>3, <2>1, TidyAppended
<1> QED BY <1>3, <1>4

NoticeInv ==
    /\ Base
    /\ NoticeOnce
    /\ PromptsAreCron(history)

LEMMA TidyBegun ==
    ASSUME Base, Tidy(history),
           \/ \E u \in Input : StartUserTurn(u)
           \/ StartWakeTurn \/ StartCronTurn
    PROVE  Tidy(history)'
<1>1. Fine(history) /\ queue \in SUBSET Firing
  BY DEF Base, OtherTypes
<1>2. ASSUME NEW thread, NEW messages, Fine(messages), Tidy(messages),
             BeginTurn(thread, messages)
      PROVE  Tidy(history)'
  <2> DEFINE m == Note("scheduled", queue)
  <2>1. m \in Message /\ m.refs = queue
    BY <1>1, NoteKinds
  <2>2. m.refs \cap Refs(messages) \cap Command = {}
    BY <1>1, <2>1, Apart
  <2>3. history' \in {messages, Append(messages, m)}
    BY <1>2 DEF BeginTurn
  <2> HIDE DEF m
  <2> QED BY <1>1, <1>2, <2>1, <2>2, <2>3, TidyAppended
<1>3. ASSUME NEW u \in Input, StartUserTurn(u)
      PROVE  Tidy(history)'
  <2> DEFINE m == Note("user", {u})
  <2>1. m \in Message /\ m.refs = {u} /\ m.kind = "user"
    BY NoteKinds
  <2>2. m.refs \cap Refs(history) \cap Command = {}
    BY <2>1, Apart
  <2>3. BeginTurn("cli", Append(history, m))
    BY <1>3 DEF StartUserTurn
  <2> HIDE DEF m
  <2>4. Fine(Append(history, m)) /\ Tidy(Append(history, m))
    BY <1>1, <2>1, <2>2, FineAppended, TidyAppended
  <2> QED BY <1>2, <2>3, <2>4
<1> QED BY <1>1, <1>2, <1>3 DEF StartWakeTurn, StartCronTurn

LEMMA TidyAnswered ==
    ASSUME Base, Tidy(history),
           \/ \E truncated \in BOOLEAN : Reply(truncated)
           \/ \E calls \in CallLists : ReplyWithCalls(calls)
           \/ RunCall \/ \E verdict \in Verdict : Gate(verdict)
           \/ Overflow
    PROVE  Tidy(history)'
<1>1. Fine(history) /\ Calling
  BY DEF Base
<1>2. ASSUME NEW m \in Message, m.refs = {}, m.kind # "scheduled",
             history' \in {history, Append(history, m)}
      PROVE  Tidy(history)'
  BY <1>1, <1>2, TidyAppended
<1>3. CASE \E truncated \in BOOLEAN : Reply(truncated)
  <2> DEFINE none == <<>>
  <2>1. none \in Seq(Call)
    OBVIOUS
  <2>2. history' = Append(history, Assistant(none))
    BY <1>3 DEF Reply
  <2> HIDE DEF none
  <2> QED BY <1>1, <1>2, <2>1, <2>2, AnswerTypes
<1>4. CASE \E calls \in CallLists : ReplyWithCalls(calls)
  BY <1>1, <1>2, <1>4, CallListTypes, AnswerTypes DEF ReplyWithCalls
<1>5. CASE RunCall
  <2> DEFINE m == ToolResult(Head(pending))
  <2>1. /\ m \in Message /\ m.refs = {} /\ m.kind = "tool"
        /\ history' = Append(history, m)
    BY <1>1, <1>5, PendingTypes DEF RunCall
  <2> HIDE DEF m
  <2> QED BY <1>2, <2>1
<1>6. CASE \E verdict \in Verdict : Gate(verdict)
  <2> DEFINE m == Note("nudge", {})
  <2>1. /\ m \in Message /\ m.refs = {} /\ m.kind = "nudge"
        /\ history' \in {history, Append(history, m)}
    BY <1>6, NoteKinds DEF Gate
  <2> HIDE DEF m
  <2> QED BY <1>2, <2>1
<1>7. CASE Overflow
  <2>1. history' \in {history, AsCopies(history)}
    BY <1>7 DEF Overflow, AsCopies
  <2> QED BY <1>1, <2>1, TidyCopied
<1> QED BY <1>3, <1>4, <1>5, <1>6, <1>7

LEMMA NoticeStep ==
    ASSUME NoticeInv, [Next]_vars
    PROVE  NoticeInv'
<1>1. Base'
  BY BaseStep DEF NoticeInv
<1>2. /\ Base /\ Fine(history) /\ Tidy(history)
      /\ stage \in [Command -> Stage]
      /\ (lock = "free") <=> (pc = "idle")
      /\ queue \subseteq Firing
      /\ At("collected") = (Refs(history) \cup gone) \cap Command
      /\ At("collected") \cap gone \cap Refs(history) = {}
  BY DEF NoticeInv, Base, OtherTypes, NoticeOnce, Tidy, Distinct
<1> SUFFICES /\ Tidy(history)'
             /\ At("collected")' = ((Refs(history) \cup gone) \cap Command)'
             /\ (At("collected") \cap gone \cap Refs(history) = {})'
  BY <1>1 DEF NoticeInv, NoticeOnce, Tidy, Distinct
<1> USE DEF outsideTurn, cliVars, turnVars, compaction, EndTurn
<1>3. ASSUME Tidy(history)', Refs(history)' \cap Command = Refs(history) \cap Command,
             UNCHANGED gone, At("collected")' = At("collected")
      PROVE  /\ At("collected")' = ((Refs(history) \cup gone) \cap Command)'
             /\ (At("collected") \cap gone \cap Refs(history) = {})'
  BY <1>2, <1>3
<1>4. CASE \E e \in Event : Wake(e)
  <2>1. PICK e \in Event : Wake(e)
    BY <1>4
  <2> DEFINE m == Note("event", {e})
  <2>2. m \in Message /\ m.refs = {e} /\ m.kind = "event" /\ history' = Append(history, m)
    BY <2>1, NoteKinds DEF Wake
  <2> HIDE DEF m
  <2>3. Tidy(history)'
    BY <1>2, <2>2, Apart, TidyAppended
  <2>4. Refs(history)' \cap Command = Refs(history) \cap Command
    BY <1>2, <2>1, WakeRefs, Apart
  <2>5. UNCHANGED <<gone, stage>>
    BY <2>1 DEF Wake
  <2>6. At("collected")' = At("collected")
    BY <2>5 DEF At
  <2> QED BY <1>3, <2>3, <2>4, <2>5, <2>6
<1>5. CASE ToggleMode \/ UNCHANGED vars \/ \E f \in Firing : Fire(f)
  <2>1. UNCHANGED <<history, gone, stage>>
    BY <1>5 DEF ToggleMode, Fire, vars
  <2> QED BY <1>2, <2>1 DEF At
<1>6. CASE \E c \in Command : CommandEnds(c)
  <2>1. UNCHANGED <<history, gone>> /\ At("collected")' = At("collected")
    BY <1>2, <1>6, ShellTypes DEF CommandEnds
  <2> QED BY <1>2, <2>1
<1>7. CASE Clear
  <2>1. /\ Tidy(history)' /\ Refs(history)' = {}
        /\ gone' = gone \cup Refs(history)
    BY <1>2, <1>7, TidyCleared, ClearedFine DEF Clear
  <2>2. At("collected")' = At("collected")
    BY <1>7 DEF Clear, At
  <2> QED BY <1>2, <2>1, <2>2
<1>8. CASE \/ \E u \in Input : StartUserTurn(u)
           \/ StartWakeTurn \/ StartCronTurn
  <2>1. Tidy(history)'
    BY <1>2, <1>8, TidyBegun
  <2>2. /\ Refs(history)' \cap Command = Refs(history) \cap Command
        /\ gone' = gone /\ stage' = stage
    BY <1>2, <1>8, BeginRefs, Apart
  <2>3. At("collected")' = At("collected")
    BY <2>2 DEF At
  <2> QED BY <1>3, <2>1, <2>2, <2>3
<1>9. CASE Prepare \/ PrepareFails
  <2>1. Refs(history)' = Refs(history) \cup At("ready")
    BY <1>2, <1>9, Noticed DEF Prepare, PrepareFails
  <2>2. At("collected")' = At("collected") \cup At("ready")
    BY <1>2, <1>9, ShellTypes DEF Prepare, PrepareFails
  <2>3. At("ready") \subseteq Command /\ At("ready") \cap At("collected") = {}
    BY DEF At
  <2>4. At("ready") \cap (Refs(history) \cup gone) = {}
    BY <1>2, <2>3
  <2>5. Tidy(history)'
    BY <1>2, <1>9, <2>4, TidyNoticed DEF Prepare, PrepareFails
  <2>6. gone' = gone
    BY <1>9 DEF Prepare, PrepareFails
  <2> QED BY <1>2, <2>1, <2>2, <2>3, <2>4, <2>5, <2>6
<1>10. CASE EndCompaction
  <2>1. Tidy(history)'
    BY <1>2, <1>10, TidyCompacted
  <2>2. /\ Refs(history)' \subseteq Refs(history) /\ gone \subseteq gone'
        /\ gone' \subseteq gone \cup Refs(history)
        /\ (Refs(history) \ Event) \cup gone \subseteq Refs(history)' \cup gone'
        /\ Refs(history)' \cap gone' \subseteq gone
    BY <1>2, <1>10, Compaction
  <2>3. At("collected")' = At("collected") /\ Event \cap Command = {}
    BY <1>10, Apart DEF EndCompaction, At
  <2> QED BY <1>2, <2>1, <2>2, <2>3
<1>11. CASE CompactionFails \/ ProviderFails \/ InvalidCall \/ EmptyReply
  <2>1. UNCHANGED <<history, gone, stage>>
    BY <1>11 DEF CompactionFails, ProviderFails, InvalidCall, EmptyReply
  <2> QED BY <1>2, <2>1 DEF At
<1>12. CASE \/ \E truncated \in BOOLEAN : Reply(truncated)
            \/ \E calls \in CallLists : ReplyWithCalls(calls)
            \/ RunCall \/ \E verdict \in Verdict : Gate(verdict)
            \/ Overflow
  <2>1. Tidy(history)' /\ Refs(history)' = Refs(history)
    BY <1>2, <1>12, TidyAnswered, AnswerRefs
  <2>2. gone' = gone
    BY <1>12 DEF Reply, ReplyWithCalls, RunCall, Gate, Overflow
  <2>3. At("collected")' = At("collected")
    <3>1. stage' = stage \/ \E c \in Command : StartCommand(c)
      BY <1>12 DEF Reply, ReplyWithCalls, RunCall, Gate, Overflow
    <3> QED BY <1>2, <3>1, ShellTypes DEF At
  <2> QED BY <1>3, <2>1, <2>2, <2>3
<1>13. CASE Settle
  <2>1. history' \in {history, WithoutPrompt}
    BY <1>13 DEF Settle, Withdraw
  <2>2. Tidy(history)' /\ Refs(history)' \cap Command = Refs(history) \cap Command
    BY <1>2, <2>1, TidyWithdrawn
  <2>3. gone' = gone /\ stage' = stage
    BY <1>13 DEF Settle
  <2>4. At("collected")' = At("collected")
    BY <2>3 DEF At
  <2> QED BY <1>3, <2>2, <2>3, <2>4
<1> QED BY <1>4, <1>5, <1>6, <1>7, <1>8, <1>9, <1>10, <1>11, <1>12, <1>13
    DEF Next, TurnSteps

LEMMA NoticeStart == Init => NoticeInv
<1> SUFFICES ASSUME Init PROVE NoticeInv
  OBVIOUS
<1> DEFINE m == Note("system", {})
<1>1. m.kind = "system" /\ m.refs = {} /\ history = <<m>>
  <2>1. "system" \in Kind /\ {} \in SUBSET Ref
    BY DEF Kind
  <2> QED BY <2>1, NoteTypes DEF Init
<1> HIDE DEF m
<1>2. DOMAIN history = {1} /\ history[1].kind = "system" /\ history[1].refs = {}
  BY <1>1
<1>3. Refs(history) = {} /\ PromptsAreCron(history)
  BY <1>2 DEF Refs, PromptsAreCron
<1>4. gone = {} /\ At("collected") = {}
  BY DEF Init, ShellInit, At
<1>5. NoticeOnce
  BY <1>2, <1>3, <1>4 DEF NoticeOnce
<1> QED BY <1>3, <1>4, <1>5, BaseStart DEF NoticeInv

\* The result of a background command is collected once, and stays in the list or
\* its summary unless the user clears it or a summary leaves it out.
THEOREM NoticesAreSingle == Spec => []NoticeOnce
<1>1. Init => NoticeInv
  BY NoticeStart
<1>2. NoticeInv /\ [Next]_vars => NoticeInv'
  BY NoticeStep
<1>3. NoticeInv => NoticeOnce
  BY DEF NoticeInv
<1> QED BY <1>1, <1>2, <1>3, PTL DEF Spec

-----------------------------------------------------------------------------
(***************************************************************************)
(* What the session has taken in stays in it.  Only Withdraw removes a     *)
(* single message; it is about firings of the turn that ends and no        *)
(* others, and none of them has been answered.                             *)
(***************************************************************************)

Whole(h, s) ==
    \A i \in DOMAIN h : Own(h[i]) /\ h[i].refs \cap s # {} => h[i].refs \subseteq s

SurviveInv ==
    /\ DeliverInv
    /\ Whole(history, fired)
    /\ InputsSurvive

\* Every prompt in g that can be withdrawn was in h.
NoNewPrompt(h, g) ==
    \A j \in DOMAIN g : Own(g[j]) => \E i \in DOMAIN h : g[j] = h[i]

LEMMA WholeStays ==
    ASSUME NEW h, NEW g, NEW s, Whole(h, s), NoNewPrompt(h, g)
    PROVE  Whole(g, s)
BY DEF Whole, NoNewPrompt

LEMMA AppendedNoPrompt ==
    ASSUME NEW h, Fine(h), NEW m \in Message, ~Own(m)
    PROVE  NoNewPrompt(h, Append(h, m))
<1> DEFINE g == Append(h, m)
<1>1. /\ \A i \in DOMAIN h : g[i] = h[i]
      /\ g[Len(h) + 1] = m
      /\ DOMAIN g = DOMAIN h \cup {Len(h) + 1}
  BY Appended DEF Fine
<1> HIDE DEF g
<1>2. NoNewPrompt(h, g)
  BY <1>1 DEF NoNewPrompt
<1> QED BY <1>2 DEF g

\* Only the start of a turn adds a prompt.
LEMMA PromptsOfTurn ==
    ASSUME Base, TurnSteps
    PROVE  NoNewPrompt(history, history')
<1> USE DEF outsideTurn
<1>1. Fine(history) /\ Calling /\ NoNewPrompt(history, history)
  BY DEF Base, OtherTypes, NoNewPrompt
<1>2. CASE Prepare \/ PrepareFails
  <2> DEFINE n == Note("notice", At("ready"))  r == Note("reminder", {})
  <2>1. At("ready") \in SUBSET Command
    BY DEF At
  <2>2. n \in Message /\ ~Own(n) /\ r \in Message /\ ~Own(r)
    BY <2>1, NoteKinds DEF Own
  <2>3. /\ WithNotices \in {history, Append(history, n)}
        /\ WithReminder \in {WithNotices, Append(WithNotices, r)}
    BY DEF WithNotices, WithReminder
  <2> HIDE DEF n, r
  <2>4. NoNewPrompt(history, WithNotices) /\ Fine(WithNotices)
    BY <1>1, <2>2, <2>3, AppendedNoPrompt, Noticed
  <2>5. NoNewPrompt(WithNotices, WithReminder)
    <3>1. NoNewPrompt(WithNotices, WithNotices)
      BY DEF NoNewPrompt
    <3> QED BY <2>2, <2>3, <2>4, <3>1, AppendedNoPrompt
  <2>6. NoNewPrompt(history, WithReminder)
    BY <2>4, <2>5 DEF NoNewPrompt
  <2> QED BY <1>2, <2>4, <2>6 DEF Prepare, PrepareFails
<1>3. CASE EndCompaction
  <2>1. \A i \in DOMAIN history' : ~Own(history'[i])
    BY <1>3, Compaction DEF Own
  <2> QED BY <2>1 DEF NoNewPrompt
<1>4. CASE Overflow
  <2>1. \A i \in DOMAIN AsCopies(history) : ~Own(AsCopies(history)[i])
    BY <1>1, Copied DEF Own, Fine
  <2>2. history' \in {history, AsCopies(history)}
    BY <1>4 DEF Overflow, AsCopies
  <2> QED BY <1>1, <2>1, <2>2 DEF NoNewPrompt
<1>5. CASE CompactionFails \/ ProviderFails \/ EmptyReply \/ InvalidCall
  BY <1>1, <1>5 DEF CompactionFails, ProviderFails, EmptyReply, InvalidCall
<1>6. CASE \/ \E truncated \in BOOLEAN : Reply(truncated)
           \/ \E calls \in CallLists : ReplyWithCalls(calls)
  <2>1. PICK calls \in Seq(Call) : history' = Append(history, Assistant(calls))
    <3>1. <<>> \in Seq(Call)
      OBVIOUS
    <3> QED BY <1>6, <3>1, CallListTypes DEF Reply, ReplyWithCalls
  <2> DEFINE m == Assistant(calls)
  <2>2. m \in Message /\ ~Own(m) /\ history' = Append(history, m)
    BY <1>1, <2>1, AnswerTypes DEF Own
  <2> HIDE DEF m
  <2> QED BY <1>1, <2>2, AppendedNoPrompt
<1>7. CASE RunCall
  <2> DEFINE m == ToolResult(Head(pending))
  <2>1. m \in Message /\ ~Own(m) /\ history' = Append(history, m)
    BY <1>1, <1>7, PendingTypes DEF RunCall, Own
  <2> HIDE DEF m
  <2> QED BY <1>1, <2>1, AppendedNoPrompt
<1>8. CASE \E verdict \in Verdict : Gate(verdict)
  <2> DEFINE m == Note("nudge", {})
  <2>1. m \in Message /\ ~Own(m) /\ history' \in {history, Append(history, m)}
    BY <1>8, NoteKinds DEF Gate, Own
  <2> HIDE DEF m
  <2> QED BY <1>1, <2>1, AppendedNoPrompt
<1>9. CASE Settle
  <2>1. history' \in {history, WithoutPrompt}
    BY <1>9 DEF Settle, Withdraw
  <2>2. NoNewPrompt(history, WithoutPrompt)
    <3>1. CASE PromptAt = {}
      BY <1>1, <3>1 DEF WithoutPrompt
    <3>2. CASE PromptAt # {}
      <4>1. PICK i \in PromptAt : WithoutPrompt = RemoveAt(history, i)
        BY <3>2 DEF WithoutPrompt
      <4>2. i \in DOMAIN history /\ DOMAIN history = 1..Len(history) /\ Len(history) \in Nat
        BY <1>1 DEF PromptAt, Fine
      <4>3. /\ DOMAIN WithoutPrompt = 1..(Len(history) - 1)
            /\ \A k \in 1..(Len(history) - 1) :
                  WithoutPrompt[k] = IF k < i THEN history[k] ELSE history[k + 1]
        BY <1>1, <4>1, <4>2, Removed DEF Fine
      <4> QED BY <4>2, <4>3 DEF NoNewPrompt
    <3> QED BY <3>1, <3>2
  <2> QED BY <1>1, <2>1, <2>2
<1> QED BY <1>2, <1>3, <1>4, <1>5, <1>6, <1>7, <1>8, <1>9 DEF TurnSteps

LEMMA WholeStep ==
    ASSUME Base, Whole(history, fired), RestoredIsWithdrawn, [Next]_vars
    PROVE  Whole(history', fired')
<1>1. Fine(history) /\ queue \in SUBSET Firing /\ Whole(history, queue)
      /\ \A h : NoNewPrompt(h, h) /\ Whole(h, {})
  BY DEF Base, OtherTypes, RestoredIsWithdrawn, Whole, Own, NoNewPrompt
<1>2. ASSUME NEW messages, Fine(messages), NoNewPrompt(history, messages),
             NEW thread, BeginTurn(thread, messages)
      PROVE  Whole(history', fired')
  <2> DEFINE m == Note("scheduled", queue)
  <2>1. /\ m \in Message /\ m.refs = queue
        /\ history' \in {messages, Append(messages, m)} /\ fired' = queue
    BY <1>1, <1>2, NoteKinds DEF BeginTurn
  <2> HIDE DEF m
  <2> DEFINE g == Append(messages, m)
  <2>2. Whole(messages, queue)
    BY <1>1, <1>2, WholeStays
  <2>3. /\ \A i \in DOMAIN messages : g[i] = messages[i]
        /\ g[Len(messages) + 1] = m
        /\ DOMAIN g = DOMAIN messages \cup {Len(messages) + 1}
    BY <1>2, <2>1, Appended DEF Fine
  <2> HIDE DEF g
  <2>4. Whole(g, queue)
    BY <2>1, <2>2, <2>3 DEF Whole
  <2> QED BY <2>1, <2>2, <2>4 DEF g
<1>3. CASE \E u \in Input : StartUserTurn(u)
  <2>1. PICK u \in Input : StartUserTurn(u)
    BY <1>3
  <2> DEFINE m == Note("user", {u})
  <2>2. m \in Message /\ ~Own(m) /\ BeginTurn("cli", Append(history, m))
    BY <2>1, NoteKinds DEF StartUserTurn, Own
  <2> HIDE DEF m
  <2>3. Fine(Append(history, m)) /\ NoNewPrompt(history, Append(history, m))
    BY <1>1, <2>2, FineAppended, AppendedNoPrompt
  <2> QED BY <1>2, <2>2, <2>3
<1>4. CASE StartWakeTurn \/ StartCronTurn
  BY <1>1, <1>2, <1>4 DEF StartWakeTurn, StartCronTurn
<1>5. CASE \E e \in Event : Wake(e)
  <2>1. PICK e \in Event : Wake(e)
    BY <1>5
  <2> DEFINE m == Note("event", {e})
  <2>2. m \in Message /\ ~Own(m) /\ history' = Append(history, m) /\ fired' = fired
    BY <2>1, NoteKinds DEF Wake, Own, cronVars
  <2> HIDE DEF m
  <2> QED BY <1>1, <2>2, AppendedNoPrompt, WholeStays
<1>6. CASE Clear
  <2>1. NoNewPrompt(history, SubSeq(history, 1, 1))
    BY <1>1, Shortened DEF NoNewPrompt, Fine
  <2> QED BY <1>6, <2>1, WholeStays DEF Clear, cronVars
<1>7. CASE \/ ToggleMode \/ UNCHANGED vars \/ \E f \in Firing : Fire(f)
           \/ \E c \in Command : CommandEnds(c)
  BY <1>7 DEF ToggleMode, Fire, CommandEnds, vars, cronVars
<1>8. CASE TurnSteps
  <2>1. fired' = fired \/ fired' = {}
    BY <1>8 DEF TurnSteps, Prepare, PrepareFails, EndCompaction, CompactionFails,
                ProviderFails, Overflow, EmptyReply, Reply, ReplyWithCalls, RunCall,
                InvalidCall, Gate, Settle, outsideTurn, cronVars
  <2> QED BY <1>1, <1>8, <2>1, PromptsOfTurn, WholeStays
<1> QED BY <1>3, <1>4, <1>5, <1>6, <1>7, <1>8 DEF Next

\* Withdraw takes nothing out that the session has answered or was given.
LEMMA WithdrawnRefs ==
    ASSUME Fine(history), Whole(history, fired)
    PROVE  Refs(history) \subseteq Refs(WithoutPrompt) \cup fired
<1>1. CASE PromptAt = {}
  BY <1>1 DEF WithoutPrompt
<1>2. CASE PromptAt # {}
  <2>1. PICK i \in PromptAt : WithoutPrompt = RemoveAt(history, i)
    BY <1>2 DEF WithoutPrompt
  <2>2. /\ i \in DOMAIN history /\ DOMAIN history = 1..Len(history)
        /\ Len(history) \in Nat /\ history \in Seq(Message)
        /\ history[i].refs \subseteq fired
    BY DEF PromptAt, IsPrompt, Own, Whole, Fine
  <2>3. /\ DOMAIN WithoutPrompt = 1..(Len(history) - 1)
        /\ \A k \in 1..(Len(history) - 1) :
              WithoutPrompt[k] = IF k < i THEN history[k] ELSE history[k + 1]
    BY <2>1, <2>2, Removed
  <2>4. ASSUME NEW k \in DOMAIN history, k # i
        PROVE  history[k].refs \subseteq Refs(WithoutPrompt)
    <3> DEFINE l == IF k < i THEN k ELSE k - 1
    <3>1. l \in DOMAIN WithoutPrompt /\ WithoutPrompt[l] = history[k]
      BY <2>2, <2>3, <2>4
    <3> HIDE DEF l
    <3> QED BY <3>1 DEF Refs
  <2> QED BY <2>2, <2>4 DEF Refs
<1> QED BY <1>1, <1>2

LEMMA SurviveStep ==
    ASSUME SurviveInv, RestoredIsWithdrawn, [Next]_vars
    PROVE  SurviveInv'
<1>1. DeliverInv' /\ Whole(history', fired')
  BY DeliverStep, WholeStep DEF SurviveInv, DeliverInv
<1>2. /\ Base /\ Fine(history) /\ (lock = "free" <=> pc = "idle")
      /\ fired \subseteq Firing /\ typed \subseteq Input /\ answered \subseteq Firing
      /\ typed \cup answered \subseteq Refs(history) \cup gone
  BY DEF SurviveInv, InputsSurvive, DeliverInv, Base, OtherTypes
<1> SUFFICES InputsSurvive'
  BY <1>1 DEF SurviveInv
<1> USE DEF InputsSurvive, outsideTurn, cronVars, cliVars, turnVars, compaction, EndTurn
<1>3. CASE \E e \in Event : Wake(e)
  <2>1. Refs(history) \subseteq Refs(history)'
    BY <1>2, <1>3, WakeRefs
  <2> QED BY <1>2, <1>3, <2>1 DEF Wake
<1>4. CASE \/ ToggleMode \/ UNCHANGED vars \/ \E f \in Firing : Fire(f)
           \/ \E c \in Command : CommandEnds(c)
  BY <1>2, <1>4 DEF ToggleMode, Fire, CommandEnds, vars
<1>5. CASE Clear
  BY <1>2, <1>5 DEF Clear
<1>6. CASE StartWakeTurn \/ StartCronTurn
  BY <1>2, <1>6, BeginRefs DEF StartWakeTurn, StartCronTurn
<1>7. CASE \E u \in Input : StartUserTurn(u)
  <2>1. PICK u \in Input : StartUserTurn(u)
    BY <1>7
  <2> DEFINE messages == Append(history, Note("user", {u}))
  <2>2. Fine(messages) /\ Refs(messages) = Refs(history) \cup {u}
    BY <1>2, NoteKinds, FineAppended
  <2>3. BeginTurn("cli", messages) /\ typed' = typed \cup {u}
    BY <2>1 DEF StartUserTurn
  <2> HIDE DEF messages
  <2>4. Refs(messages) \subseteq Refs(history)'
    BY <1>2, <2>2, <2>3, BeginFine
  <2> QED BY <1>2, <2>2, <2>3, <2>4 DEF BeginTurn
<1>8. CASE Prepare \/ PrepareFails
  <2>1. Refs(history) \subseteq Refs(history)'
    BY <1>2, <1>8, Noticed DEF Prepare, PrepareFails
  <2> QED BY <1>2, <1>8, <2>1 DEF Prepare, PrepareFails
<1>9. CASE EndCompaction
  <2>1. (Refs(history) \ Event) \cup gone \subseteq Refs(history)' \cup gone'
    BY <1>2, <1>9, Compaction
  <2>2. (typed \cup answered) \cap Event = {}
    BY <1>2, LoopAssumption
  <2> QED BY <1>2, <1>9, <2>1, <2>2 DEF EndCompaction
<1>10. CASE CompactionFails \/ ProviderFails \/ InvalidCall
  BY <1>2, <1>10 DEF CompactionFails, ProviderFails, InvalidCall
<1>11. CASE EmptyReply
  BY <1>2, <1>11 DEF EmptyReply
<1>12. CASE \/ \E truncated \in BOOLEAN : Reply(truncated)
            \/ \E calls \in CallLists : ReplyWithCalls(calls)
            \/ RunCall \/ \E verdict \in Verdict : Gate(verdict)
            \/ Overflow
  <2>1. Refs(history)' = Refs(history)
    BY <1>2, <1>12, AnswerRefs
  <2>2. /\ UNCHANGED <<typed, gone>>
        /\ answered' \in {answered, answered \cup (Refs(history) \cap Firing)}
    BY <1>12 DEF Reply, ReplyWithCalls, RunCall, Gate, Overflow, Accept
  <2> QED BY <1>2, <2>1, <2>2
<1>13. CASE Settle
  <2>1. pc = "ended" /\ pc' = "idle" /\ UNCHANGED <<typed, answered, gone>>
    BY <1>13 DEF Settle
  <2>2. CASE completed \/ accepted
    BY <1>2, <1>13, <2>1, <2>2 DEF Settle
  <2>3. CASE ~(completed \/ accepted)
    <3>1. history' = WithoutPrompt
      BY <1>13, <2>3 DEF Settle, Withdraw
    <3>2. fired \cap answered = {}
      BY <2>1, <2>3 DEF SurviveInv, DeliverInv
    <3>3. fired \cap typed = {}
      BY <1>2, Apart
    <3>4. Refs(history) \subseteq Refs(history)' \cup fired
      BY <1>2, <3>1, WithdrawnRefs DEF SurviveInv
    <3> QED BY <1>2, <2>1, <3>2, <3>3, <3>4
  <2> QED BY <2>2, <2>3
<1> QED BY <1>3, <1>4, <1>5, <1>6, <1>7, <1>8, <1>9, <1>10, <1>11, <1>12, <1>13
    DEF Next, TurnSteps

\* No input of the user and no answered firing leaves the session, except by
\* /clear or when a summary leaves it out.
THEOREM InputsAreKept == Spec => []InputsSurvive
<1>1. Init => SurviveInv
  <2> SUFFICES ASSUME Init PROVE SurviveInv
    OBVIOUS
  <2>1. DeliverInv
    BY BaseStart DEF Init, DeliverInv, DeliveredOnce, Running
  <2> QED BY <2>1 DEF Init, SurviveInv, Whole, InputsSurvive
<1>2. SurviveInv /\ RestoredIsWithdrawn /\ [Next]_vars => SurviveInv'
  BY SurviveStep
<1>3. SurviveInv => InputsSurvive
  BY DEF SurviveInv
<1> QED BY <1>1, <1>2, <1>3, RestoredAreWithdrawn, PTL DEF Spec
=============================================================================
