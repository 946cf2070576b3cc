-------------------------- MODULE AgentLoopAnswers --------------------------
(***************************************************************************)
(* Proof that every call of the provider finds the results of earlier tool *)
(* calls where it expects them (CallsAnswered), for any number of calls    *)
(* and any length of the list.                                             *)
(***************************************************************************)
EXTENDS AgentLoopProofs

(***************************************************************************)
(* The inductive invariant.  While tools run, one response is open: the    *)
(* results of its first n calls stand behind it, and behind the last of    *)
(* them only team events; the rest of its calls is pending.  Every other   *)
(* response is answered, and every other result belongs to one.            *)
(***************************************************************************)
Answers(h, i) == Results(h, i, Decodable(h[i].calls))

\* The responses S are answered, and these are all results but those at T.
Complete(h, S, T) ==
    /\ \A i \in S : Answers(h, i) # {}
    /\ \A j \in DOMAIN h : h[j].kind = "tool" /\ j \notin T =>
          \E i \in S : \E at \in Answers(h, i) : j \in Range(at)

Closed(h) == Complete(h, Responses(h), {})

\* Where the results of response r end that has n of them.
EndOf(r, n, at) == IF n = 0 THEN r ELSE at[n]

Open(h, r, n, at, left) ==
    /\ r \in Responses(h)
    /\ 1..n \subseteq Decodable(h[r].calls)
    /\ at \in Results(h, r, 1..n)
    /\ \A j \in DOMAIN h : j > EndOf(r, n, at) => h[j].kind = "event"
    /\ Complete(h, Responses(h) \ {r}, Range(at))
    /\ Len(h[r].calls) = n + Len(left)
    /\ \A k \in 1..Len(left) : left[k] = h[r].calls[n + k]

IsOpen(h, left) ==
    \E r \in Responses(h), n \in Nat : \E at \in Results(h, r, 1..n) :
        Open(h, r, n, at, left)

AnswersInv ==
    /\ Base
    /\ pc = "tools" => IsOpen(history, pending)
    /\ pc # "tools" => Closed(history)

-----------------------------------------------------------------------------
(***************************************************************************)
(* Messages that are neither a response nor a result.                      *)
(***************************************************************************)
\* A set of calls that starts with the first and skips none.
Leading(K) == \A k \in K : k \in Nat /\ k >= 1 /\ (k = 1 \/ k - 1 \in K)

LEMMA DecodableLeads ==
    ASSUME NEW calls \in Seq(Call)
    PROVE  Leading(Decodable(calls)) /\ Decodable(calls) \subseteq 1..Len(calls)
<1>1. DOMAIN calls = 1..Len(calls) /\ Len(calls) \in Nat
  OBVIOUS
<1> QED BY <1>1 DEF Leading, Decodable

LEMMA CallsTypes ==
    ASSUME NEW h \in Seq(Message), NEW i \in DOMAIN h
    PROVE  /\ h[i].calls \in Seq(Call)
           /\ DOMAIN h = 1..Len(h) /\ Len(h) \in Nat /\ i \in Nat /\ i >= 1
<1>1. h[i] \in Message /\ DOMAIN h = 1..Len(h) /\ Len(h) \in Nat
  OBVIOUS
<1> QED BY <1>1 DEF Message

\* Every message of h is still there, perhaps as a copy, and g is no shorter.
Kept(h, g) ==
    /\ h \in Seq(Message) /\ g \in Seq(Message)
    /\ DOMAIN h \subseteq DOMAIN g
    /\ \A i \in DOMAIN h : g[i].kind = h[i].kind /\ g[i].calls = h[i].calls

LEMMA BehindKept ==
    ASSUME NEW h, NEW g, Kept(h, g), NEW i \in DOMAIN h, NEW j \in DOMAIN h,
           Behind(h, i, j)
    PROVE  Behind(g, i, j)
<1>1. /\ DOMAIN h = 1..Len(h) /\ Len(h) \in Nat /\ i \in 1..Len(h) /\ j \in 1..Len(h)
  BY CallsTypes DEF Kept
<1>2. \A l \in (i + 1)..(j - 1) : l \in DOMAIN h
  BY <1>1
<1> QED BY <1>2 DEF Behind, Kept

LEMMA ResultsKept ==
    ASSUME NEW h, NEW g, Kept(h, g), NEW i \in DOMAIN h, NEW K, Leading(K)
    PROVE  Results(h, i, K) \subseteq Results(g, i, K)
<1> SUFFICES ASSUME NEW at \in Results(h, i, K) PROVE at \in Results(g, i, K)
  OBVIOUS
<1>1. at \in [K -> DOMAIN h] /\ DOMAIN h \subseteq DOMAIN g
  BY DEF Results, Kept
<1>2. at \in [K -> DOMAIN g]
  BY <1>1
<1>3. ASSUME NEW k \in K
      PROVE  /\ Behind(g, IF k = 1 THEN i ELSE at[k - 1], at[k])
             /\ g[at[k]].kind = "tool" /\ g[at[k]].calls = <<g[i].calls[k]>>
  <2> DEFINE b == IF k = 1 THEN i ELSE at[k - 1]
  <2>1. b \in DOMAIN h /\ at[k] \in DOMAIN h
    BY <1>1 DEF Leading
  <2>2. /\ Behind(h, b, at[k])
        /\ h[at[k]].kind = "tool" /\ h[at[k]].calls = <<h[i].calls[k]>>
    BY DEF Results
  <2> HIDE DEF b
  <2>3. Behind(g, b, at[k])
    BY <2>1, <2>2, BehindKept
  <2>4. g[at[k]].kind = "tool" /\ g[at[k]].calls = <<g[i].calls[k]>>
    BY <2>1, <2>2 DEF Kept
  <2> QED BY <2>3, <2>4 DEF b
<1> QED BY <1>2, <1>3 DEF Results

LEMMA AnswersKept ==
    ASSUME NEW h, NEW g, Kept(h, g), NEW i \in DOMAIN h
    PROVE  Answers(h, i) \subseteq Answers(g, i)
<1>1. h[i].calls \in Seq(Call) /\ g[i].calls = h[i].calls
  BY CallsTypes DEF Kept
<1>2. Leading(Decodable(h[i].calls))
  BY <1>1, DecodableLeads
<1>3. Results(h, i, Decodable(h[i].calls)) \subseteq Results(g, i, Decodable(h[i].calls))
  BY <1>2, ResultsKept
<1> QED BY <1>1, <1>3 DEF Answers

LEMMA CompleteKept ==
    ASSUME NEW h, NEW g, Kept(h, g), NEW S \in SUBSET DOMAIN h, NEW T, NEW U,
           Complete(h, S, T), T \subseteq U,
           \A j \in DOMAIN g \ DOMAIN h : g[j].kind = "tool" => j \in U
    PROVE  Complete(g, S, U)
<1>1. ASSUME NEW i \in S
      PROVE  Answers(h, i) \subseteq Answers(g, i)
  BY AnswersKept
<1>2. \A i \in S : Answers(g, i) # {}
  BY <1>1 DEF Complete
<1>3. ASSUME NEW j \in DOMAIN g, g[j].kind = "tool", j \notin U
      PROVE  \E i \in S : \E at \in Answers(g, i) : j \in Range(at)
  <2>1. j \in DOMAIN h /\ h[j].kind = "tool" /\ j \notin T
    BY <1>3 DEF Kept
  <2>2. PICK i \in S : \E at \in Answers(h, i) : j \in Range(at)
    BY <2>1 DEF Complete
  <2> QED BY <1>1, <2>2
<1> QED BY <1>2, <1>3 DEF Complete

LEMMA ResponsesKept ==
    ASSUME NEW h, NEW g, Kept(h, g),
           \A j \in DOMAIN g \ DOMAIN h : g[j].kind # "assistant"
    PROVE  Responses(g) = Responses(h)
BY DEF Kept, Responses

LEMMA ClosedKept ==
    ASSUME NEW h, NEW g, Kept(h, g), Closed(h),
           \A j \in DOMAIN g \ DOMAIN h : g[j].kind \notin {"assistant", "tool"}
    PROVE  Closed(g)
<1>1. Responses(g) = Responses(h) /\ Responses(h) \subseteq DOMAIN h
  BY ResponsesKept DEF Responses
<1>2. Complete(g, Responses(h), {})
  BY <1>1, CompleteKept DEF Closed
<1> QED BY <1>1, <1>2 DEF Closed

LEMMA AppendKeeps ==
    ASSUME NEW h, Fine(h), NEW m \in Message
    PROVE  /\ Kept(h, Append(h, m))
           /\ DOMAIN Append(h, m) \ DOMAIN h = {Len(h) + 1}
           /\ Append(h, m)[Len(h) + 1] = m
<1> DEFINE g == Append(h, m)
<1>1. h \in Seq(Message) /\ DOMAIN h = 1..Len(h) /\ Len(h) \in Nat
  BY DEF Fine
<1>2. /\ g \in Seq(Message) /\ \A i \in DOMAIN h : g[i] = h[i]
      /\ g[Len(h) + 1] = m /\ DOMAIN g = DOMAIN h \cup {Len(h) + 1}
  BY <1>1, Appended
<1> HIDE DEF g
<1>3. Kept(h, g) /\ DOMAIN g \ DOMAIN h = {Len(h) + 1}
  BY <1>1, <1>2 DEF Kept
<1> QED BY <1>2, <1>3 DEF g

\* Neither a response nor a result: it may stand behind every complete exchange.
LEMMA AppendedAside ==
    ASSUME NEW h, Fine(h), NEW m \in Message, m.kind \notin {"assistant", "tool"},
           Closed(h)
    PROVE  Closed(Append(h, m))
<1> DEFINE g == Append(h, m)
<1>1. /\ Kept(h, g) /\ DOMAIN g \ DOMAIN h = {Len(h) + 1}
      /\ g[Len(h) + 1] = m
  BY AppendKeeps
<1> HIDE DEF g
<1>2. Closed(g)
  BY <1>1, ClosedKept
<1> QED BY <1>2 DEF g

LEMMA NothingAsked ==
    ASSUME NEW h, \A i \in DOMAIN h : h[i].kind \notin {"assistant", "tool"}
    PROVE  Closed(h)
BY DEF Closed, Complete, Responses

LEMMA CopiesClosed ==
    ASSUME NEW h, Fine(h), Closed(h)
    PROVE  Closed(AsCopies(h))
<1>1. h \in Seq(Message) /\ h # <<>> /\ \A i \in DOMAIN h : h[i] \in Message
  BY DEF Fine
<1>2. AsCopies(h) \in Seq(Message) /\ DOMAIN AsCopies(h) = DOMAIN h
  BY <1>1, Copied
<1>3. \A m \in Message : Copy(m).kind = m.kind /\ Copy(m).calls = m.calls
  BY DEF Copy, Message
<1>4. \A i \in DOMAIN h : /\ AsCopies(h)[i].kind = h[i].kind
                         /\ AsCopies(h)[i].calls = h[i].calls
  BY <1>1, <1>3 DEF AsCopies
<1>5. Kept(h, AsCopies(h))
  BY <1>1, <1>2, <1>4 DEF Kept
<1> QED BY <1>2, <1>5, ClosedKept

-----------------------------------------------------------------------------
(***************************************************************************)
(* An exchange: the response opens it, results extend it, and it closes    *)
(* behind the last call that can be decoded.                               *)
(***************************************************************************)
LEMMA Opens ==
    ASSUME NEW h, Fine(h), Closed(h), NEW calls \in Seq(Call)
    PROVE  IsOpen(Append(h, Assistant(calls)), calls)
<1> DEFINE m == Assistant(calls)
           g == Append(h, m)
           r == Len(h) + 1
           at == [k \in 1..0 |-> r]
<1>1. m \in Message /\ m.kind = "assistant" /\ m.calls = calls
  BY NoteTypes DEF Assistant, Fresh
<1> HIDE DEF m
<1>2. /\ Kept(h, g) /\ DOMAIN g \ DOMAIN h = {r} /\ g[r] = m
      /\ DOMAIN g = 1..Len(g) /\ Len(g) = r /\ Len(h) \in Nat
      /\ DOMAIN h = 1..Len(h)
  BY <1>1, AppendKeeps, Appended DEF Fine
<1> HIDE DEF g
<1>3. r \in DOMAIN g /\ r \notin DOMAIN h /\ DOMAIN h \subseteq DOMAIN g
  BY <1>2
<1>4. r \in Responses(g) /\ Responses(g) \ {r} = Responses(h)
  BY <1>1, <1>2, <1>3 DEF Responses, Kept
<1>5. 1..0 = {} /\ at \in [1..0 -> DOMAIN g] /\ Range(at) = {}
  BY DEF Range
<1>6. at \in Results(g, r, 1..0)
  BY <1>5 DEF Results
<1>7. Complete(g, Responses(h), {})
  <2>1. Responses(h) \in SUBSET DOMAIN h
    BY DEF Responses
  <2>2. \A j \in DOMAIN g \ DOMAIN h : g[j].kind # "tool"
    BY <1>1, <1>2
  <2> QED BY <1>2, <2>1, <2>2, CompleteKept DEF Closed
<1>8. \A j \in DOMAIN g : ~(j > r)
  BY <1>2
<1>9. Len(g[r].calls) = 0 + Len(calls) /\ \A k \in 1..Len(calls) : calls[k] = g[r].calls[0 + k]
  BY <1>1, <1>2
<1> HIDE DEF at
<1>10. Open(g, r, 0, at, calls)
  BY <1>4, <1>5, <1>6, <1>7, <1>8, <1>9 DEF Open, EndOf
<1>11. IsOpen(g, calls)
  BY <1>4, <1>6, <1>10 DEF IsOpen
<1> QED BY <1>11 DEF g, m

\* The CLI appends a team event while tools run.
LEMMA OpenBehindEvent ==
    ASSUME NEW h, Fine(h), NEW m \in Message, m.kind = "event", NEW left,
           IsOpen(h, left)
    PROVE  IsOpen(Append(h, m), left)
<1> DEFINE g == Append(h, m)
<1>1. PICK r \in Responses(h), n \in Nat : \E at \in Results(h, r, 1..n) :
          Open(h, r, n, at, left)
  BY DEF IsOpen
<1>2. PICK at \in Results(h, r, 1..n) : Open(h, r, n, at, left)
  BY <1>1
<1>3. /\ Kept(h, g) /\ DOMAIN g \ DOMAIN h = {Len(h) + 1}
      /\ g[Len(h) + 1] = m
  BY AppendKeeps
<1> HIDE DEF g
<1>4. r \in DOMAIN h /\ Responses(g) = Responses(h) /\ g[r].calls = h[r].calls
  BY <1>3, ResponsesKept DEF Responses, Kept
<1>5. at \in Results(g, r, 1..n)
  <2>1. Leading(1..n)
    BY DEF Leading
  <2> QED BY <1>3, <1>4, <2>1, ResultsKept
<1>6. Complete(g, Responses(g) \ {r}, Range(at))
  <2>1. Responses(h) \ {r} \in SUBSET DOMAIN h
    BY DEF Responses
  <2>2. Complete(h, Responses(h) \ {r}, Range(at))
    BY <1>2 DEF Open
  <2>3. Complete(g, Responses(h) \ {r}, Range(at))
    BY <1>3, <2>1, <2>2, CompleteKept
  <2> QED BY <1>4, <2>3
<1>7. \A j \in DOMAIN g : j > EndOf(r, n, at) => g[j].kind = "event"
  BY <1>2, <1>3 DEF Open, Kept
<1>8. Open(g, r, n, at, left)
  BY <1>2, <1>4, <1>5, <1>6, <1>7 DEF Open
<1>9. IsOpen(g, left)
  BY <1>4, <1>5, <1>8 DEF IsOpen
<1> QED BY <1>9 DEF g

\* The result of the next call.
LEMMA OpenBehindResult ==
    ASSUME NEW h, Fine(h), NEW left \in Seq(Call), left # <<>>, Head(left) # "bad",
           IsOpen(h, left)
    PROVE  IsOpen(Append(h, ToolResult(Head(left))), Tail(left))
<1> DEFINE m == ToolResult(Head(left))
           g == Append(h, m)
           e == Len(h) + 1
<1>0. /\ m \in Message /\ m.kind = "tool" /\ m.calls = <<left[1]>>
      /\ Len(left) \in Nat /\ Len(left) >= 1 /\ left[1] # "bad"
      /\ Tail(left) \in Seq(Call) /\ Len(Tail(left)) = Len(left) - 1
      /\ \A k \in 1..(Len(left) - 1) : Tail(left)[k] = left[k + 1]
  BY NoteTypes DEF ToolResult, Fresh
<1> HIDE DEF m
<1>1. PICK r \in Responses(h), n \in Nat : \E at \in Results(h, r, 1..n) :
          Open(h, r, n, at, left)
  BY DEF IsOpen
<1>2. PICK at \in Results(h, r, 1..n) : Open(h, r, n, at, left)
  BY <1>1
<1>3. /\ Kept(h, g) /\ DOMAIN g \ DOMAIN h = {e} /\ g[e] = m
      /\ e \in DOMAIN g
      /\ DOMAIN h = 1..Len(h) /\ Len(h) \in Nat /\ h \in Seq(Message)
  BY <1>0, AppendKeeps, Appended DEF Fine
<1> HIDE DEF g
<1>4. /\ r \in DOMAIN h /\ Responses(g) = Responses(h) /\ g[r].calls = h[r].calls
      /\ h[r].calls \in Seq(Call)
  BY <1>0, <1>3, ResponsesKept, CallsTypes DEF Responses, Kept
<1> DEFINE at2 == [k \in 1..(n + 1) |-> IF k = n + 1 THEN e ELSE at[k]]
<1>5. at \in [1..n -> DOMAIN h] /\ at \in Results(g, r, 1..n) /\ at \in [1..n -> DOMAIN g]
  <2>1. Leading(1..n)
    BY DEF Leading
  <2>2. at \in Results(g, r, 1..n)
    BY <1>3, <1>4, <2>1, ResultsKept
  <2> QED BY <2>2 DEF Results
<1>6. /\ at2 \in [1..(n + 1) -> DOMAIN g] /\ at2[n + 1] = e
      /\ \A k \in 1..n : at2[k] = at[k]
      /\ Range(at2) = Range(at) \cup {e}
  <2>1. at2 \in [1..(n + 1) -> DOMAIN g] /\ at2[n + 1] = e
    BY <1>3, <1>5
  <2>2. \A k \in 1..n : at2[k] = at[k]
    OBVIOUS
  <2>3. 1..(n + 1) = 1..n \cup {n + 1}
    OBVIOUS
  <2>4. DOMAIN at2 = 1..n \cup {n + 1} /\ DOMAIN at = 1..n
    BY <1>5, <2>3
  <2> HIDE DEF at2
  <2>5. Range(at2) = Range(at) \cup {e}
    BY <2>1, <2>2, <2>4 DEF Range
  <2> QED BY <2>1, <2>2, <2>5
<1> HIDE DEF at2
<1>7. /\ Len(h[r].calls) = n + Len(left)
      /\ \A k \in 1..Len(left) : left[k] = h[r].calls[n + k]
      /\ 1..n \subseteq Decodable(h[r].calls)
      /\ \A j \in DOMAIN h : j > EndOf(r, n, at) => h[j].kind = "event"
      /\ Complete(h, Responses(h) \ {r}, Range(at))
  BY <1>2 DEF Open
<1>8. 1..(n + 1) \subseteq Decodable(h[r].calls) /\ h[r].calls[n + 1] = left[1]
  <2>1. DOMAIN h[r].calls = 1..(n + Len(left)) /\ h[r].calls[n + 1] = left[1]
    BY <1>0, <1>4, <1>7
  <2>2. ASSUME NEW j \in 1..n
        PROVE  h[r].calls[j] # "bad"
    <3>1. j \in Decodable(h[r].calls) /\ j \in 1..j
      BY <1>7
    <3> QED BY <3>1 DEF Decodable
  <2>3. \A j \in 1..(n + 1) : j \in DOMAIN h[r].calls /\ h[r].calls[j] # "bad"
    BY <1>0, <2>1, <2>2
  <2>4. \A k \in 1..(n + 1) : \A j \in 1..k : j \in 1..(n + 1)
    OBVIOUS
  <2> QED BY <2>1, <2>3, <2>4 DEF Decodable
<1>9. at2 \in Results(g, r, 1..(n + 1))
  <2>1. ASSUME NEW k \in 1..n
        PROVE  /\ Behind(g, IF k = 1 THEN r ELSE at2[k - 1], at2[k])
               /\ g[at2[k]].kind = "tool" /\ g[at2[k]].calls = <<g[r].calls[k]>>
    <3>1. (IF k = 1 THEN r ELSE at2[k - 1]) = (IF k = 1 THEN r ELSE at[k - 1])
          /\ at2[k] = at[k]
      BY <1>6
    <3>2. /\ Behind(g, IF k = 1 THEN r ELSE at[k - 1], at[k])
          /\ g[at[k]].kind = "tool" /\ g[at[k]].calls = <<g[r].calls[k]>>
      BY <1>5 DEF Results
    <3> QED BY <3>1, <3>2
  <2>2. /\ Behind(g, IF n + 1 = 1 THEN r ELSE at2[(n + 1) - 1], at2[n + 1])
        /\ g[at2[n + 1]].kind = "tool" /\ g[at2[n + 1]].calls = <<g[r].calls[n + 1]>>
    <3> DEFINE b == EndOf(r, n, at)
    <3>1. b = (IF n + 1 = 1 THEN r ELSE at2[(n + 1) - 1])
      BY <1>6 DEF EndOf
    <3>2. b \in DOMAIN h
      BY <1>4, <1>5 DEF EndOf
    <3>3. \A j \in DOMAIN h : j > b => h[j].kind = "event"
      BY <1>7
    <3> HIDE DEF b
    <3>4. b < e /\ \A l \in (b + 1)..(e - 1) : l \in DOMAIN h /\ l > b
      BY <1>3, <3>2
    <3>5. Behind(g, b, e)
      BY <1>3, <3>3, <3>4 DEF Behind, Kept
    <3> QED BY <1>0, <1>3, <1>4, <1>6, <1>8, <3>1, <3>5
  <2>3. \A k \in 1..(n + 1) : k \in 1..n \/ k = n + 1
    OBVIOUS
  <2> QED BY <1>6, <2>1, <2>2, <2>3 DEF Results
<1>10. Complete(g, Responses(g) \ {r}, Range(at2))
  <2>1. Responses(h) \ {r} \in SUBSET DOMAIN h
    BY DEF Responses
  <2>2. Complete(g, Responses(h) \ {r}, Range(at2))
    BY <1>3, <1>6, <1>7, <2>1, CompleteKept
  <2> QED BY <1>4, <2>2
<1>11. \A j \in DOMAIN g : ~(j > EndOf(r, n + 1, at2))
  BY <1>3, <1>6 DEF EndOf, Kept
<1>12. /\ Len(g[r].calls) = (n + 1) + Len(Tail(left))
       /\ \A k \in 1..Len(Tail(left)) : Tail(left)[k] = g[r].calls[(n + 1) + k]
  BY <1>0, <1>4, <1>7
<1>13. Open(g, r, n + 1, at2, Tail(left))
  BY <1>4, <1>8, <1>9, <1>10, <1>11, <1>12 DEF Open
<1>14. IsOpen(g, Tail(left))
  BY <1>4, <1>9, <1>13 DEF IsOpen
<1> QED BY <1>14 DEF g, m

\* Nothing is left, or what is left cannot be decoded.
LEMMA Closes ==
    ASSUME NEW h, Fine(h), NEW left \in Seq(Call), IsOpen(h, left),
           left = <<>> \/ Head(left) = "bad"
    PROVE  Closed(h)
<1>1. PICK r \in Responses(h), n \in Nat : \E at \in Results(h, r, 1..n) :
          Open(h, r, n, at, left)
  BY DEF IsOpen
<1>2. PICK at \in Results(h, r, 1..n) : Open(h, r, n, at, left)
  BY <1>1
<1>3. r \in DOMAIN h /\ h[r].calls \in Seq(Call)
  BY CallsTypes DEF Responses, Fine
<1>4. Decodable(h[r].calls) = 1..n
  <2>1. /\ 1..n \subseteq Decodable(h[r].calls)
        /\ Len(h[r].calls) = n + Len(left)
        /\ \A k \in 1..Len(left) : left[k] = h[r].calls[n + k]
    BY <1>2 DEF Open
  <2>2. DOMAIN h[r].calls = 1..(n + Len(left)) /\ Len(left) \in Nat
    BY <1>3, <2>1
  <2>3. CASE left = <<>>
    BY <2>1, <2>2, <2>3 DEF Decodable
  <2>4. CASE left # <<>>
    <3>1. Len(left) >= 1 /\ left[1] = "bad"
      BY <2>4
    <3>2. h[r].calls[n + 1] = "bad"
      BY <2>1, <2>2, <3>1
    <3>3. ASSUME NEW k \in Decodable(h[r].calls)
          PROVE  k \in 1..n
      <4>1. k \in 1..(n + Len(left)) /\ \A j \in 1..k : h[r].calls[j] # "bad"
        BY <2>2 DEF Decodable
      <4>2. ~(n + 1 <= k)
        BY <2>2, <3>2, <4>1
      <4> QED BY <2>2, <4>1, <4>2
    <3> QED BY <2>1, <3>3
  <2> QED BY <2>3, <2>4
<1>5. at \in Answers(h, r)
  BY <1>4 DEF Answers
<1>6. Complete(h, Responses(h) \ {r}, Range(at))
  BY <1>2 DEF Open
<1> QED BY <1>5, <1>6 DEF Closed, Complete

-----------------------------------------------------------------------------
(***************************************************************************)
(* Withdraw takes a message out of the list.  It is no team event, so it   *)
(* stood in no exchange: the exchanges behind it move up by one.           *)
(***************************************************************************)
Moved(p, l) == IF l < p THEN l ELSE l - 1

LEMMA BehindMoved ==
    ASSUME NEW h \in Seq(Message), NEW p \in DOMAIN h, h[p].kind # "event",
           NEW i \in DOMAIN h \ {p}, NEW j \in DOMAIN h \ {p}, Behind(h, i, j)
    PROVE  Behind(RemoveAt(h, p), Moved(p, i), Moved(p, j))
<1> DEFINE g == RemoveAt(h, p)
<1>0. DOMAIN h = 1..Len(h) /\ Len(h) \in Nat
  OBVIOUS
<1>1. /\ DOMAIN h = 1..Len(h) /\ Len(h) \in Nat
      /\ \A k \in 1..(Len(h) - 1) : g[k] = IF k < p THEN h[k] ELSE h[k + 1]
  BY <1>0, Removed
<1> HIDE DEF g
<1>2. i < j /\ \A l \in (i + 1)..(j - 1) : h[l].kind = "event"
  BY DEF Behind
<1>3. i < p <=> j < p
  <2>1. ~(i < p /\ p < j)
    BY <1>1, <1>2
  <2> QED BY <1>1, <1>2, <2>1
<1>4. ASSUME NEW l \in (Moved(p, i) + 1)..(Moved(p, j) - 1)
      PROVE  g[l].kind = "event"
  <2>1. CASE i < p
    <3>1. l \in (i + 1)..(j - 1) /\ l \in 1..(Len(h) - 1) /\ l < p
      BY <1>1, <1>3, <2>1 DEF Moved
    <3> QED BY <1>1, <1>2, <3>1
  <2>2. CASE ~(i < p)
    <3>1. l + 1 \in (i + 1)..(j - 1) /\ l \in 1..(Len(h) - 1) /\ ~(l < p)
      BY <1>1, <1>3, <2>2 DEF Moved
    <3> QED BY <1>1, <1>2, <3>1
  <2> QED BY <2>1, <2>2
<1>5. Moved(p, i) < Moved(p, j)
  BY <1>1, <1>2, <1>3 DEF Moved
<1>6. Behind(g, Moved(p, i), Moved(p, j))
  BY <1>4, <1>5 DEF Behind
<1> QED BY <1>6 DEF g

\* The messages but p, at their new places.
LEMMA MovedMessages ==
    ASSUME NEW h \in Seq(Message), NEW p \in DOMAIN h
    PROVE  /\ \A i \in DOMAIN h \ {p} : /\ Moved(p, i) \in DOMAIN RemoveAt(h, p)
                                       /\ RemoveAt(h, p)[Moved(p, i)] = h[i]
           /\ \A j \in DOMAIN RemoveAt(h, p) :
                 \E i \in DOMAIN h \ {p} : j = Moved(p, i)
<1> DEFINE g == RemoveAt(h, p)
<1>0. DOMAIN h = 1..Len(h) /\ Len(h) \in Nat
  OBVIOUS
<1>1. /\ DOMAIN h = 1..Len(h) /\ Len(h) \in Nat /\ DOMAIN g = 1..(Len(h) - 1)
      /\ \A k \in 1..(Len(h) - 1) : g[k] = IF k < p THEN h[k] ELSE h[k + 1]
  BY <1>0, Removed
<1> HIDE DEF g
<1>2. ASSUME NEW i \in DOMAIN h \ {p}
      PROVE  Moved(p, i) \in DOMAIN g /\ g[Moved(p, i)] = h[i]
  <2>1. CASE i < p
    BY <1>1, <2>1 DEF Moved
  <2>2. CASE ~(i < p)
    <3>1. i - 1 \in 1..(Len(h) - 1) /\ ~(i - 1 < p) /\ (i - 1) + 1 = i
      BY <1>1, <2>2
    <3> QED BY <1>1, <2>2, <3>1 DEF Moved
  <2> QED BY <2>1, <2>2
<1>3. ASSUME NEW j \in DOMAIN g
      PROVE  \E i \in DOMAIN h \ {p} : j = Moved(p, i)
  <2>1. CASE j < p
    BY <1>1, <2>1 DEF Moved
  <2>2. CASE ~(j < p)
    <3>1. j + 1 \in DOMAIN h \ {p} /\ j = Moved(p, j + 1)
      BY <1>1, <2>2 DEF Moved
    <3> QED BY <3>1
  <2> QED BY <2>1, <2>2
<1> QED BY <1>2, <1>3 DEF g

LEMMA ResultsMoved ==
    ASSUME NEW h \in Seq(Message), NEW p \in DOMAIN h,
           h[p].kind \notin {"assistant", "tool", "event"},
           NEW i \in Responses(h), NEW K, Leading(K), NEW at \in Results(h, i, K)
    PROVE  [k \in K |-> Moved(p, at[k])] \in Results(RemoveAt(h, p), Moved(p, i), K)
<1> DEFINE g == RemoveAt(h, p)
           to == [k \in K |-> Moved(p, at[k])]
<1>1. /\ \A l \in DOMAIN h \ {p} : Moved(p, l) \in DOMAIN g /\ g[Moved(p, l)] = h[l]
      /\ \A l, j \in DOMAIN h \ {p} : Behind(h, l, j) => Behind(g, Moved(p, l), Moved(p, j))
  BY MovedMessages, BehindMoved
<1> HIDE DEF g
<1>2. /\ at \in [K -> DOMAIN h]
      /\ \A k \in K : /\ Behind(h, IF k = 1 THEN i ELSE at[k - 1], at[k])
                      /\ h[at[k]].kind = "tool" /\ h[at[k]].calls = <<h[i].calls[k]>>
  BY DEF Results
<1>3. i \in DOMAIN h \ {p} /\ \A k \in K : at[k] \in DOMAIN h \ {p}
  BY <1>2 DEF Responses
<1>4. to \in [K -> DOMAIN g] /\ \A k \in K : to[k] = Moved(p, at[k])
  BY <1>1, <1>3
<1> HIDE DEF to
<1>5. ASSUME NEW k \in K
      PROVE  /\ Behind(g, IF k = 1 THEN Moved(p, i) ELSE to[k - 1], to[k])
             /\ g[to[k]].kind = "tool" /\ g[to[k]].calls = <<g[Moved(p, i)].calls[k]>>
  <2> DEFINE b == IF k = 1 THEN i ELSE at[k - 1]
  <2>1. /\ b \in DOMAIN h \ {p}
        /\ (IF k = 1 THEN Moved(p, i) ELSE to[k - 1]) = Moved(p, b)
    BY <1>3, <1>4 DEF Leading
  <2>2. Behind(h, b, at[k])
    BY <1>2
  <2> HIDE DEF b
  <2>3. Behind(g, Moved(p, b), to[k])
    BY <1>1, <1>3, <1>4, <2>1, <2>2
  <2>4. g[to[k]] = h[at[k]] /\ g[Moved(p, i)] = h[i]
    BY <1>1, <1>3, <1>4
  <2> QED BY <1>2, <2>1, <2>3, <2>4
<1>6. to \in Results(g, Moved(p, i), K)
  BY <1>4, <1>5 DEF Results
<1> QED BY <1>6 DEF g, to

LEMMA ClosedMoved ==
    ASSUME NEW h \in Seq(Message), NEW p \in DOMAIN h,
           h[p].kind \notin {"assistant", "tool", "event"}, Closed(h)
    PROVE  Closed(RemoveAt(h, p))
<1> DEFINE g == RemoveAt(h, p)
<1>1. /\ \A i \in DOMAIN h \ {p} : Moved(p, i) \in DOMAIN g /\ g[Moved(p, i)] = h[i]
      /\ \A j \in DOMAIN g : \E i \in DOMAIN h \ {p} : j = Moved(p, i)
  BY MovedMessages
<1>2. ASSUME NEW i \in Responses(h), NEW at \in Answers(h, i)
      PROVE  /\ Moved(p, i) \in Responses(g)
             /\ \E to \in Answers(g, Moved(p, i)) :
                   \A j \in Range(at) : Moved(p, j) \in Range(to)
  <2> DEFINE K == Decodable(h[i].calls)
             to == [k \in K |-> Moved(p, at[k])]
  <2>1. i \in DOMAIN h /\ i # p /\ Leading(K)
    BY CallsTypes, DecodableLeads DEF Responses
  <2>2. Moved(p, i) \in Responses(g) /\ g[Moved(p, i)] = h[i]
    BY <1>1, <2>1 DEF Responses
  <2>3. at \in Results(h, i, K) /\ DOMAIN at = K
    BY DEF Answers, Results
  <2> HIDE DEF K
  <2>4. to \in Results(g, Moved(p, i), K)
    BY <2>1, <2>3, ResultsMoved
  <2>5. to \in Answers(g, Moved(p, i))
    BY <2>2, <2>4 DEF Answers, K
  <2>6. \A j \in Range(at) : Moved(p, j) \in Range(to)
    BY <2>3 DEF Range
  <2> QED BY <2>2, <2>5, <2>6
<1> HIDE DEF g
<1>3. ASSUME NEW j \in Responses(g)
      PROVE  Answers(g, j) # {}
  <2>1. PICK i \in DOMAIN h \ {p} : j = Moved(p, i)
    BY <1>1 DEF Responses
  <2>2. i \in Responses(h)
    BY <1>1, <2>1 DEF Responses
  <2>3. PICK at \in Answers(h, i) : TRUE
    BY <2>2 DEF Closed, Complete
  <2> QED BY <1>2, <2>1, <2>2, <2>3
<1>4. ASSUME NEW j \in DOMAIN g, g[j].kind = "tool"
      PROVE  \E i \in Responses(g) : \E at \in Answers(g, i) : j \in Range(at)
  <2>1. PICK l \in DOMAIN h \ {p} : j = Moved(p, l)
    BY <1>1
  <2>2. h[l].kind = "tool"
    BY <1>1, <1>4, <2>1
  <2>3. PICK i \in Responses(h) : \E at \in Answers(h, i) : l \in Range(at)
    BY <2>1, <2>2 DEF Closed, Complete
  <2> QED BY <1>2, <2>1, <2>3
<1>5. Closed(g)
  BY <1>3, <1>4 DEF Closed, Complete
<1> QED BY <1>5 DEF g

LEMMA WithdrawnClosed ==
    ASSUME Fine(history), Closed(history)
    PROVE  Closed(WithoutPrompt)
<1>1. CASE PromptAt = {}
  BY <1>1 DEF WithoutPrompt
<1>2. CASE PromptAt # {}
  <2>1. PICK p \in PromptAt : WithoutPrompt = RemoveAt(history, p)
    BY <1>2 DEF WithoutPrompt
  <2>2. p \in DOMAIN history /\ history[p].kind = "scheduled" /\ history \in Seq(Message)
    BY DEF PromptAt, IsPrompt, Fine
  <2> QED BY <2>1, <2>2, ClosedMoved
<1> QED BY <1>1, <1>2

-----------------------------------------------------------------------------
(***************************************************************************)
(* The steps.                                                              *)
(***************************************************************************)
LEMMA NoticedClosed ==
    ASSUME Fine(history), Closed(history)
    PROVE  Closed(WithNotices) /\ Closed(WithReminder)
<1>1. At("ready") \in SUBSET Command
  BY DEF At
<1> DEFINE n == Note("notice", At("ready"))  r == Note("reminder", {})
<1>2. /\ n \in Message /\ n.kind = "notice"
      /\ r \in Message /\ r.kind = "reminder"
  BY <1>1, NoteKinds
<1>3. WithNotices \in {history, Append(history, n)}
  BY DEF WithNotices
<1>4. WithReminder \in {WithNotices, Append(WithNotices, r)}
  BY DEF WithReminder
<1> HIDE DEF n, r
<1>5. Closed(WithNotices) /\ Fine(WithNotices)
  BY <1>2, <1>3, AppendedAside, Noticed
<1> QED BY <1>2, <1>4, <1>5, AppendedAside

LEMMA BegunClosed ==
    ASSUME Base, NEW messages, Fine(messages), Closed(messages),
           NEW thread, BeginTurn(thread, messages)
    PROVE  Closed(history)' /\ pc' = "round"
<1>1. queue \in SUBSET Firing
  BY DEF Base, OtherTypes
<1> DEFINE m == Note("scheduled", queue)
<1>2. m \in Message /\ m.kind = "scheduled"
  BY <1>1, NoteKinds
<1>3. history' \in {messages, Append(messages, m)} /\ pc' = "round"
  BY DEF BeginTurn
<1> HIDE DEF m
<1> QED BY <1>2, <1>3, AppendedAside

\* AnswersInv, but for Base.
Tracked == (pc = "tools" => IsOpen(history, pending))
           /\ (pc # "tools" => Closed(history))

LEMMA AnswersThreads ==
    ASSUME AnswersInv,
           \/ \E u \in Input : StartUserTurn(u)
           \/ \E e \in Event : Wake(e)
           \/ \E f \in Firing : Fire(f)
           \/ \E c \in Command : CommandEnds(c)
           \/ StartWakeTurn \/ StartCronTurn \/ Clear \/ ToggleMode
    PROVE  Tracked'
<1>1. Base /\ Fine(history) /\ Tracked /\ ((lock = "free") <=> (pc = "idle"))
  BY DEF AnswersInv, Base, OtherTypes, Tracked
<1>2. ASSUME NEW u \in Input, StartUserTurn(u)
      PROVE  Tracked'
  <2> DEFINE m == Note("user", {u})
             messages == Append(history, m)
  <2>1. m \in Message /\ m.kind = "user" /\ BeginTurn("cli", messages)
    BY <1>2, NoteKinds DEF StartUserTurn
  <2> HIDE DEF m
  <2>2. pc = "idle" /\ Closed(history)
    BY <1>1, <2>1 DEF BeginTurn, Tracked
  <2>3. Fine(messages) /\ Closed(messages)
    BY <1>1, <2>1, <2>2, FineAppended, AppendedAside
  <2> HIDE DEF messages
  <2> QED BY <1>1, <2>1, <2>3, BegunClosed DEF Tracked
<1>3. ASSUME NEW e \in Event, Wake(e)
      PROVE  Tracked'
  <2> DEFINE m == Note("event", {e})
  <2>1. /\ m \in Message /\ m.kind = "event" /\ history' = Append(history, m)
        /\ UNCHANGED <<pc, pending>>
    BY <1>3, NoteKinds DEF Wake, turnVars
  <2> HIDE DEF m
  <2> QED BY <1>1, <2>1, AppendedAside, OpenBehindEvent DEF Tracked
<1>4. CASE StartWakeTurn \/ StartCronTurn
  <2>1. PICK thread \in {"cli", "processor"} : BeginTurn(thread, history)
    BY <1>4 DEF StartWakeTurn, StartCronTurn
  <2>2. Closed(history)
    BY <1>1, <2>1 DEF BeginTurn, Tracked
  <2> QED BY <1>1, <2>1, <2>2, BegunClosed DEF Tracked
<1>5. CASE Clear
  <2> DEFINE g == SubSeq(history, 1, 1)
  <2>1. DOMAIN g = {1} /\ g[1].kind = "system"
    BY <1>1, Shortened DEF Fine
  <2>2. history' = g /\ pc' = pc /\ lock = "free"
    BY <1>5 DEF Clear, turnVars
  <2> HIDE DEF g
  <2>3. Closed(g)
    BY <2>1, NothingAsked
  <2> QED BY <1>1, <2>2, <2>3 DEF Tracked
<1>6. CASE \/ ToggleMode \/ \E f \in Firing : Fire(f)
           \/ \E c \in Command : CommandEnds(c)
  <2>1. UNCHANGED <<history, pc, pending>>
    BY <1>6 DEF ToggleMode, Fire, CommandEnds, turnVars
  <2> QED BY <1>1, <2>1 DEF Tracked
<1> QED BY <1>2, <1>3, <1>4, <1>5, <1>6

LEMMA AnswersTurn ==
    ASSUME AnswersInv, TurnSteps
    PROVE  Tracked'
<1> USE DEF outsideTurn, EndTurn
<1>1. /\ Base /\ Fine(history) /\ Tracked /\ Calling
  BY DEF AnswersInv, Base, OtherTypes, Tracked
<1>2. CASE Prepare \/ PrepareFails
  <2>1. /\ pc = "round" /\ pc' # "tools"
        /\ history' \in {WithNotices, WithReminder}
    BY <1>2 DEF Prepare, PrepareFails
  <2> QED BY <1>1, <2>1, NoticedClosed DEF Tracked
<1>3. CASE EndCompaction
  <2>1. /\ pc' # "tools"
        /\ \A i \in DOMAIN history' : history'[i].kind \notin {"assistant", "tool"}
    BY <1>1, <1>3, Compaction DEF EndCompaction
  <2> QED BY <2>1, NothingAsked DEF Tracked
<1>4. CASE CompactionFails \/ ProviderFails \/ EmptyReply
  <2>1. pc # "tools" /\ pc' # "tools" /\ history' = history
    BY <1>4 DEF CompactionFails, ProviderFails, EmptyReply, AtProvider
  <2> QED BY <1>1, <2>1 DEF Tracked
<1>5. CASE Overflow
  <2>1. /\ pc # "tools" /\ pc' # "tools"
        /\ history' \in {history, AsCopies(history)}
    BY <1>5 DEF Overflow, AsCopies
  <2> QED BY <1>1, <2>1, CopiesClosed DEF Tracked
<1>6. CASE \E truncated \in BOOLEAN : Reply(truncated)
  <2> DEFINE none == <<>>
             m == Assistant(none)
             g == Append(history, m)
  <2>1. none \in Seq(Call) /\ Closed(history)
    BY <1>1, <1>6 DEF Reply, AtProvider, Tracked
  <2>2. IsOpen(g, none)
    BY <1>1, <2>1, Opens
  <2>3. Fine(g)
    BY <1>1, <2>1, AnswerTypes
  <2>4. history' = g /\ pc' # "tools" /\ none = <<>>
    BY <1>6 DEF Reply
  <2> HIDE DEF none, g
  <2>5. Closed(g)
    BY <2>1, <2>2, <2>3, <2>4, Closes
  <2> QED BY <2>4, <2>5 DEF Tracked
<1>7. ASSUME NEW calls \in CallLists, ReplyWithCalls(calls)
      PROVE  Tracked'
  <2>1. calls \in Seq(Call) /\ Closed(history)
    BY <1>1, <1>7, CallListTypes DEF ReplyWithCalls, AtProvider, Tracked
  <2>2. history' = Append(history, Assistant(calls)) /\ pending' = calls /\ pc' = "tools"
    BY <1>7 DEF ReplyWithCalls
  <2> QED BY <1>1, <2>1, <2>2, Opens DEF Tracked
<1>8. CASE RunCall
  <2> DEFINE m == ToolResult(Head(pending))
             g == Append(history, m)
             rest == Tail(pending)
  <2>1. /\ pending \in Seq(Call) /\ pending # <<>> /\ Head(pending) # "bad"
        /\ IsOpen(history, pending) /\ m \in Message /\ rest \in Seq(Call)
    BY <1>1, <1>8, PendingTypes DEF RunCall, Calling, Tracked
  <2>2. IsOpen(g, rest)
    BY <1>1, <2>1, OpenBehindResult
  <2>3. /\ history' = g /\ pending' = rest
        /\ pc' = IF rest = <<>> THEN "round" ELSE "tools"
    BY <1>8 DEF RunCall
  <2> HIDE DEF m
  <2>4. Fine(g)
    BY <1>1, <2>1, FineAppended
  <2> HIDE DEF g, rest
  <2>5. rest = <<>> => Closed(g)
    BY <2>1, <2>2, <2>4, Closes
  <2> QED BY <2>2, <2>3, <2>5 DEF Tracked
<1>9. CASE InvalidCall
  <2>1. /\ pending \in Seq(Call) /\ Head(pending) = "bad" /\ IsOpen(history, pending)
        /\ history' = history /\ pc' = "ended"
    BY <1>1, <1>9 DEF InvalidCall, Calling, Tracked
  <2> QED BY <1>1, <2>1, Closes DEF Tracked
<1>10. CASE \E verdict \in Verdict : Gate(verdict)
  <2> DEFINE m == Note("nudge", {})
  <2>1. m \in Message /\ m.kind = "nudge"
    BY NoteKinds
  <2>2. history' \in {history, Append(history, m)} /\ pc = "gate" /\ pc' # "tools"
    BY <1>10 DEF Gate
  <2> HIDE DEF m
  <2> QED BY <1>1, <2>1, <2>2, AppendedAside DEF Tracked
<1>11. CASE Settle
  <2>1. pc = "ended" /\ pc' = "idle" /\ history' \in {history, WithoutPrompt}
    BY <1>11 DEF Settle, Withdraw
  <2> QED BY <1>1, <2>1, WithdrawnClosed DEF Tracked
<1> QED BY <1>2, <1>3, <1>4, <1>5, <1>6, <1>7, <1>8, <1>9, <1>10, <1>11 DEF TurnSteps

\* Every request to the provider has the results of earlier calls right behind
\* the responses that made them, in order, and no others: whatever was
\* compacted, withdrawn or appended between two turns.
THEOREM CallsAreAnswered == Spec => []CallsAnswered
<1>1. Init => AnswersInv
  <2> SUFFICES ASSUME Init PROVE AnswersInv
    OBVIOUS
  <2> DEFINE m == Note("system", {})
  <2>1. m.kind = "system" /\ history = <<m>> /\ pc = "idle"
    <3>1. "system" \in Kind /\ {} \in SUBSET Ref
      BY DEF Kind
    <3> QED BY <3>1, NoteTypes DEF Init
  <2> HIDE DEF m
  <2>2. \A i \in DOMAIN history : history[i].kind = "system"
    BY <2>1
  <2>3. Closed(history)
    BY <2>2, NothingAsked
  <2> QED BY <2>1, <2>3, BaseStart DEF AnswersInv
<1>2. AnswersInv /\ [Next]_vars => AnswersInv'
  <2> SUFFICES ASSUME AnswersInv, [Next]_vars PROVE AnswersInv'
    OBVIOUS
  <2>1. Base'
    BY BaseStep DEF AnswersInv
  <2>2. CASE UNCHANGED vars
    BY <2>1, <2>2 DEF AnswersInv, vars, turnVars
  <2>3. CASE TurnSteps
    BY <2>1, <2>3, AnswersTurn DEF AnswersInv, Tracked
  <2> QED BY <2>1, <2>2, <2>3, AnswersThreads DEF Next, AnswersInv, Tracked
<1>3. AnswersInv => CallsAnswered
  BY DEF AnswersInv, AtProvider, Closed, Complete, Answers, CallsAnswered
<1> QED BY <1>1, <1>2, <1>3, PTL DEF Spec
=============================================================================
