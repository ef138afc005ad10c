--------------------------- MODULE TurnHostProofs ---------------------------
(***************************************************************************)
(* Proofs about one turn on a durable effect controller, for every limit,  *)
(* every set of tool batches and outcomes, any number of crashes and a     *)
(* queue of any length.                                                    *)
(*                                                                         *)
(* HostInv says what the machine knows in each of its states, what its     *)
(* queue of effects holds, and how the run and the journal agree with it.  *)
(* ReplayInv says that the journal leads every run along one path of       *)
(* machines.  The lemmas go from the operators of the machine (what a      *)
(* driver's list of actions leads to) over the answers that the host gives *)
(* it to the steps of the host; the theorems are at the end.               *)
(***************************************************************************)
EXTENDS TurnHost, QueuedWorkProofs, FiniteSetTheorems

-----------------------------------------------------------------------------
(* The inductive invariant: the machine. *)

\* The states of the machine, and how a turn may end.
States == {"PreparingProtocol", "PrepareIteration", "WaitingExecutionEnvironment", "WaitingLlm",
           "WaitingTools", "WaitingExec", "WaitingCheckpoint", "Finished"}
Outcomes == {"answer", "value", "tool_error", "frame_switch", "provider_error", "max_turns",
             "incomplete", "cancelled", "runtime_error"}
Answered == {"answer", "value", "tool_error"}

\* What messages and events a protocol has: tool calls are of the standard one,
\* protocol events of the others.
ToolKinds == {"tool_calls", "tool_results"}
MessagesOf(pr) == IF pr = "standard" THEN MessageKinds ELSE MessageKinds \ ToolKinds
EventsOf(pr) == IF pr = "standard" THEN MessageKinds ELSE EventKinds \ ToolKinds

\* The effects: reports, the last one of a turn, and questions with their arguments.
Reports(pr) == [type: {"Progress"}, messages: Seq(MessagesOf(pr)), delta: Seq(EventsOf(pr))]
Dones(pr) ==
  [type: {"Done"}, messages: Seq(MessagesOf(pr)), delta: Seq(EventsOf(pr)), outcome: Outcomes]
QuestionTypes == {"LlmCall", "ToolCalls", "ExecCode", "SyncExecutionEnvironment", "Checkpoint"}
Question(type, args) == [type: {type}, id: Nat, arg: args]
Questions(pr) ==
  Question("LlmCall", [messages: Seq(MessagesOf(pr)), events: Seq(EventsOf(pr))])
    \cup Question("ToolCalls", IF pr = "standard" THEN Batches ELSE {})
    \cup Question("ExecCode", IF pr = "standard" THEN {} ELSE {"cell"})
    \cup Question("SyncExecutionEnvironment", BOOLEAN)
    \cup Question("Checkpoint", {"after_work", "before_completion"})
Effects(pr) == Reports(pr) \cup Dones(pr) \cup Questions(pr)

\* The machines of a protocol.
Machines(pr) ==
  [protocol: {pr}, state: States, effect_id: Nat,
   checkpoint: {"none", "after_work", "before_completion"},
   on_empty: Outcomes \cup {"none", "prepare"}, next_effect_id: Nat,
   iteration: Nat, synced: SUBSET Nat, final_scheduled: BOOLEAN,
   messages: Seq(MessagesOf(pr)), events: Seq(EventsOf(pr)), cursor: Nat,
   pending: Seq(Effects(pr))]

\* The state in which the machine waits for the answer to a question.
WaitState ==
  [LlmCall |-> "WaitingLlm", ToolCalls |-> "WaitingTools", ExecCode |-> "WaitingExec",
   SyncExecutionEnvironment |-> "WaitingExecutionEnvironment", Checkpoint |-> "WaitingCheckpoint"]

\* The question the machine waits for, asked when the last low ids were given out.
Awaited(m, low, e) ==
  /\ e.type \in QuestionTypes
  /\ m.state = WaitState[e.type] /\ e.id = m.effect_id /\ e.id >= low
  /\ e.type = "LlmCall" => e.arg.messages = m.messages
  /\ e.type = "Checkpoint" => e.arg = m.checkpoint

\* The last effect of a turn.
Ending(m, asked, e) ==
  /\ e.type = "Done" /\ m.state = "Finished"
  /\ ResumeSafe(e.messages)
  /\ e.outcome \in Answered => Count(e.messages, "delivered") = Count(asked, "delivered")

\* Of the effects in the queue one at most is a question; Done is the last.
QueueOK(m, low, asked) ==
  /\ \A k \in 1..Len(m.pending) :
       \/ m.pending[k].type = "Progress"
       \/ Awaited(m, low, m.pending[k])
       \/ k = Len(m.pending) /\ Ending(m, asked, m.pending[k])
  /\ \A k, l \in 1..Len(m.pending) :
       m.pending[k].type \in QuestionTypes /\ m.pending[l].type \in QuestionTypes => k = l
  /\ m.state \in {WaitState[t] : t \in QuestionTypes} =>
       \E k \in 1..Len(m.pending) : m.pending[k].type \in QuestionTypes
  /\ m.state = "Finished" => m.cursor = Len(m.events)

\* The pieces of the event log that were handed over (d) and those in the queue
\* are, one after the other, the log up to the cursor.
Handed(p, ev, cur, d) ==
  \E c \in [0..Len(p) -> 0..cur] :
    /\ d = SubSeq(ev, 1, c[0]) /\ c[Len(p)] = cur
    /\ \A k \in 1..Len(p) :
         /\ c[k - 1] <= c[k]
         /\ IF p[k].type \in QuestionTypes THEN c[k] = c[k - 1]
            ELSE p[k].delta = SubSeq(ev, c[k - 1] + 1, c[k])

\* The bound on the iterations, and what is known of the one in hand.
Top == IF MaxTurns = 0 THEN 1 ELSE MaxTurns
Limited(m) ==
  IF m.final_scheduled THEN MaxTurns <= m.iteration /\ m.iteration <= Top ELSE m.iteration < Top
AfterModel(m) ==
  \/ m.state \in {"WaitingTools", "WaitingExec"}
  \/ m.state = "WaitingCheckpoint" /\ m.checkpoint = "before_completion"

\* Tool calls without results are the last message, and only while they run.
SafeButLast(s) ==
  /\ Len(s) > 0 /\ s[Len(s)] = "tool_calls" /\ ResumeSafe(SubSeq(s, 1, Len(s) - 1))

\* The requests of the run are those of its iterations; outside a batch of tools the
\* conversation can be resumed, and what was shown to the model last is all there is
\* once the model was called.
Counted(m, asked, requests) ==
  IF m.state = "Finished" THEN requests <= Top + 1
  ELSE /\ Limited(m)
       /\ requests = m.iteration + IF AfterModel(m) THEN 1 ELSE 0
       /\ AfterModel(m) => Count(m.messages, "delivered") = Count(asked, "delivered")
       /\ IF m.state = "WaitingTools" THEN SafeButLast(m.messages) ELSE ResumeSafe(m.messages)
       /\ m.state = "WaitingCheckpoint" =>
            (IF m.checkpoint = "after_work" THEN m.on_empty = "prepare"
             ELSE m.checkpoint = "before_completion" /\ m.on_empty \in Outcomes)

\* What is known of a machine at rest.
Sound(m, pr, low, draft, asked, requests) ==
  /\ m \in Machines(pr) /\ pr \in Protocols
  /\ m.cursor <= Len(m.events) /\ m.effect_id < m.next_effect_id /\ low <= m.next_effect_id
  /\ QueueOK(m, low, asked)
  /\ pr # "standard" => Handed(m.pending, m.events, m.cursor, draft)
  /\ Counted(m, asked, requests)

-----------------------------------------------------------------------------
(* The inductive invariant: the host. *)

\* Batches of tool calls: a serial call that has begun has nothing running before it.
Results == ToolOutcomes \cup {"none", "failure", "cancelled"}
BatchStates ==
  [calls: Batches \cup {<<>>}, status: Seq(Statuses), attempt: Seq(Nat), result: Seq(Results)]

BatchOK(b) ==
  /\ b \in BatchStates
  /\ Len(b.status) = Len(b.calls) /\ Len(b.attempt) = Len(b.calls) /\ Len(b.result) = Len(b.calls)
  /\ \A i \in 1..Len(b.calls) :
       /\ b.attempt[i] \in 1..b.calls[i].max
       /\ b.status[i] # "waiting" /\ b.calls[i].mode = "serial" =>
            \A j \in 1..Len(b.calls) :
              j # i /\ (b.calls[j].mode = "parallel" \/ j < i) => Done(b, j)

\* What a checkpoint may deliver, and the runs of a protocol.
Deliveries == Seq({"delivered"}) \cup {<<"error">>}

Runs(pr) ==
  [mach: Machines(pr), outcome: Outcomes \cup {"none"}, cancel: BOOLEAN,
   batch: BatchStates, claimed: BOOLEAN, delivery: Deliveries,
   mine: Seq(Kinds(MergeKeys)), draft: Seq(EventsOf(pr)), asked: Seq(MessagesOf(pr)),
   requests: Nat, vm: SUBSET Nat, blocks: SUBSET Nat]

\* What may be recorded for an effect of each type.
AnswersTo(pr) ==
  [LlmCall |-> Replies(pr) \cup {Reply("cancelled", <<>>)}, ToolCalls |-> Seq(Results),
   ExecCode |-> ExecOutcomes, SyncExecutionEnvironment |-> {"ok", "failed"},
   Checkpoint |-> Deliveries]

\* Every recorded answer is one to a question of its type, or that of an attempt.
JournalOK(pr, j) ==
  \A k \in DOMAIN j :
    \/ k \in Nat \X QuestionTypes \X Nat /\ j[k].outcome \in AnswersTo(pr)[k[2]]
    \/ Len(k) = 5 /\ j[k].outcome \in ToolOutcomes

\* What the run has in hand while it is busy with an effect.
InHand(ph, r) ==
  LET e == Head(r.mach.pending)
  IN  /\ r.claimed => /\ ph = "running" /\ r.mach.pending # <<>> /\ e.type = "Checkpoint"
                      /\ r.batch = NoBatch
      /\ r.batch # NoBatch => /\ ph = "running" /\ r.mach.pending # <<>> /\ e.type = "ToolCalls"
                              /\ r.batch.calls = e.arg

\* The machine has ended and was taken at its word.
EndedWell(r) ==
  /\ r.mach.state = "Finished" /\ r.mach.pending = <<>>
  /\ ResumeSafe(r.mach.messages)
  /\ r.outcome \in Answered => Count(r.mach.messages, "delivered") = Count(r.asked, "delivered")

\* The run in its phase, the store and the queue.
RunOK(ph, r, pr) ==
  /\ ph \in Phases /\ r \in Runs(pr)
  /\ Sound(r.mach, pr, 0, r.draft, r.asked, r.requests)
  /\ BatchOK(r.batch) /\ InHand(ph, r)
  /\ ph = "finishing" => EndedWell(r)

StoreOK ==
  /\ store.vm \in SUBSET Nat /\ store.blocks \in SUBSET Nat
  /\ AnsweredAll /\ CommitResumes /\ EventsOnce

ClaimsOK ==
  /\ cands \in Seq(Kinds(MergeKeys)) /\ stale \in Seq(Kinds(MergeKeys))
  /\ OneGroupPerClaim /\ ClaimIsMaximal

\* The inductive invariant.
HostInv ==
  /\ crashes \in 0..MaxCrashes
  /\ RunOK(phase, run, run.mach.protocol) /\ JournalOK(run.mach.protocol, journal)
  /\ StoreOK /\ ClaimsOK

-----------------------------------------------------------------------------
(* Counting messages. *)

\* A count is a number, one more message adds one if it is of the kind, and a
\* sequence without the kind counts nothing.
LEMMA CountAppend ==
  ASSUME NEW S, NEW s \in Seq(S), NEW x \in S, NEW k
  PROVE  /\ Count(s, k) \in Nat
         /\ Count(Append(s, x), k) = Count(s, k) + IF x = k THEN 1 ELSE 0
<1>1. Among(s, {k}) \in Seq(S \cap {k})
  BY AmongSeq
<1>2. Among(Append(s, x), {k}) = IF x \in {k} THEN Append(Among(s, {k}), x) ELSE Among(s, {k})
  BY AmongAppend
<1>3. CASE x = k
  BY <1>1, <1>2, <1>3 DEF Count
<1>4. CASE x # k
  BY <1>1, <1>2, <1>4 DEF Count
<1> QED
  BY <1>3, <1>4

\* Counting over a concatenation.
LEMMA CountConcat ==
  ASSUME NEW S, NEW s \in Seq(S), NEW t \in Seq(S), NEW k
  PROVE  /\ Count(s, k) \in Nat /\ Count(t, k) \in Nat
         /\ Count(s \o t, k) = Count(s, k) + Count(t, k)
<1>1. Among(s, {k}) \in Seq(S \cap {k}) /\ Among(t, {k}) \in Seq(S \cap {k})
  BY AmongSeq
<1>2. Among(s \o t, {k}) = Among(s, {k}) \o Among(t, {k})
  BY AmongConcat
<1> QED
  BY <1>1, <1>2 DEF Count

\* Nothing is selected from a sequence over other elements.
LEMMA AmongNone ==
  ASSUME NEW S, NEW s \in Seq(S), NEW T, S \cap T = {}
  PROVE  Among(s, T) = <<>>
<1>1. Among(s, T) \in Seq(S \cap T)
  BY AmongSeq
<1>2. Among(s, T) \in Seq({})
  BY <1>1
<1> QED
  BY <1>2

\* What is not in the alphabet is not counted.
LEMMA CountNone ==
  ASSUME NEW S, NEW s \in Seq(S), NEW k, k \notin S
  PROVE  Count(s, k) = 0
<1>1. S \cap {k} = {}
  OBVIOUS
<1>2. Among(s, {k}) = <<>>
  BY <1>1, AmongNone
<1> QED
  BY <1>2 DEF Count

\* The condition of resume safety on the beginnings of a sequence.
ResultsBehind(s) ==
  \A i \in 1..Len(s) :
    Count(SubSeq(s, 1, i), "tool_results") <= Count(SubSeq(s, 1, i), "tool_calls")

\* The two halves of messages_are_prompt_resume_safe.
LEMMA ResumeSafeIs ==
  ASSUME NEW S, NEW s \in Seq(S)
  PROVE  ResumeSafe(s) <=>
           Count(s, "tool_calls") = Count(s, "tool_results") /\ ResultsBehind(s)
BY DEF ResumeSafe, ResultsBehind

\* A message that keeps the balance keeps every result behind its call.
LEMMA BehindAppend ==
  ASSUME NEW S, NEW s \in Seq(S), NEW x \in S, ResultsBehind(s),
         Count(Append(s, x), "tool_results") <= Count(Append(s, x), "tool_calls")
  PROVE  ResultsBehind(Append(s, x))
<1> DEFINE t == Append(s, x)
<1>1. t \in Seq(S) /\ Len(t) = Len(s) + 1 /\ Len(s) \in Nat
  OBVIOUS
<1> SUFFICES ASSUME NEW i \in 1..Len(t)
             PROVE  Count(SubSeq(t, 1, i), "tool_results") <= Count(SubSeq(t, 1, i), "tool_calls")
  BY DEF ResultsBehind
<1>2. CASE i \in 1..Len(s)
  <2>1. SubSeq(t, 1, i) = SubSeq(s, 1, i)
    BY <1>1, <1>2
  <2> QED
    BY <1>2, <2>1 DEF ResultsBehind
<1>3. CASE i = Len(t)
  <2>1. SubSeq(t, 1, i) = t
    BY <1>1, <1>3
  <2> QED
    BY <2>1
<1> QED
  BY <1>1, <1>2, <1>3

\* A message that is neither calls nor results keeps a conversation resumable.
LEMMA SafeAppend ==
  ASSUME NEW S, NEW s \in Seq(S), NEW x \in S, x \notin ToolKinds, ResumeSafe(s)
  PROVE  ResumeSafe(Append(s, x))
<1>1. /\ Count(s, "tool_calls") \in Nat /\ Count(s, "tool_results") \in Nat
      /\ Count(Append(s, x), "tool_calls") = Count(s, "tool_calls") + 0
      /\ Count(Append(s, x), "tool_results") = Count(s, "tool_results") + 0
  BY CountAppend DEF ToolKinds
<1>2. Count(s, "tool_calls") = Count(s, "tool_results") /\ ResultsBehind(s)
  BY ResumeSafeIs
<1>3. ResultsBehind(Append(s, x))
  BY <1>1, <1>2, BehindAppend
<1>4. Append(s, x) \in Seq(S)
  OBVIOUS
<1> QED
  BY <1>1, <1>2, <1>3, <1>4, ResumeSafeIs

\* So do calls with their results, and any number of neutral messages.
LEMMA SafeAnswered ==
  ASSUME NEW S, NEW s \in Seq(S), SafeButLast(s), "tool_results" \in S
  PROVE  ResumeSafe(Append(s, "tool_results"))
<1> DEFINE a == SubSeq(s, 1, Len(s) - 1)
           t == Append(s, "tool_results")
<1>1. a \in Seq(S) /\ Len(s) \in Nat /\ Len(s) > 0 /\ "tool_calls" \in S
      /\ s = Append(a, "tool_calls") /\ ResumeSafe(a)
  <2>1. Len(s) \in Nat /\ Len(s) > 0 /\ s[Len(s)] = "tool_calls" /\ ResumeSafe(a)
    BY DEF SafeButLast
  <2>2. a \in Seq(S) /\ s = Append(a, s[Len(s)]) /\ s[Len(s)] \in S
    BY <2>1
  <2> QED
    BY <2>1, <2>2
<1> HIDE DEF a
<1>2. /\ Count(a, "tool_calls") \in Nat /\ Count(a, "tool_results") \in Nat
      /\ Count(s, "tool_calls") = Count(a, "tool_calls") + 1
      /\ Count(s, "tool_results") = Count(a, "tool_results") + 0
  BY <1>1, CountAppend
<1>3. /\ Count(t, "tool_calls") = Count(s, "tool_calls") + 0
      /\ Count(t, "tool_results") = Count(s, "tool_results") + 1
  BY CountAppend
<1>4. Count(a, "tool_calls") = Count(a, "tool_results") /\ ResultsBehind(a)
  BY <1>1, ResumeSafeIs
<1>5. ResultsBehind(s)
  BY <1>1, <1>2, <1>4, BehindAppend
<1>6. ResultsBehind(t)
  BY <1>2, <1>3, <1>4, <1>5, BehindAppend
<1>7. t \in Seq(S)
  OBVIOUS
<1>8. Count(t, "tool_calls") = Count(t, "tool_results")
  BY <1>2, <1>3, <1>4
<1> HIDE DEF t
<1>9. ResumeSafe(t)
  BY <1>6, <1>7, <1>8, ResumeSafeIs
<1> QED
  BY <1>9 DEF t

\* Messages that are no part of a tool batch keep a conversation safe.
LEMMA SafeConcat ==
  ASSUME NEW S, NEW s \in Seq(S), NEW t \in Seq(S \ ToolKinds), ResumeSafe(s)
  PROVE  ResumeSafe(s \o t)
<1> DEFINE D == {q \in Seq(S \ ToolKinds) : ResumeSafe(s \o q)}
<1>1. <<>> \in D
  <2>1. s \o <<>> = s
    OBVIOUS
  <2> QED
    BY <2>1
<1>2. ASSUME NEW q \in Seq(S \ ToolKinds), NEW x \in S \ ToolKinds, q \in D
      PROVE  Append(q, x) \in D
  <2>1. s \o q \in Seq(S) /\ s \o Append(q, x) = Append(s \o q, x)
    OBVIOUS
  <2>2. ResumeSafe(s \o q) /\ x \notin ToolKinds /\ x \in S
    BY <1>2
  <2>3. ResumeSafe(Append(s \o q, x))
    BY <2>1, <2>2, SafeAppend
  <2>4. Append(q, x) \in Seq(S \ ToolKinds)
    OBVIOUS
  <2> QED
    BY <2>1, <2>3, <2>4
<1>3. Seq(S \ ToolKinds) \subseteq D
  <2> HIDE DEF D
  <2> QED
    BY <1>1, <1>2, SeqInd
<1> QED
  BY <1>3

\* A conversation without tool batches is safe.
LEMMA SafeNeutral ==
  ASSUME NEW S, NEW s \in Seq(S), S \cap ToolKinds = {}
  PROVE  ResumeSafe(s)
<1>1. "tool_calls" \notin S /\ "tool_results" \notin S
  BY DEF ToolKinds
<1>2. Count(s, "tool_calls") = 0 /\ Count(s, "tool_results") = 0
  BY <1>1, CountNone
<1>3. ASSUME NEW i \in 1..Len(s)
      PROVE  Count(SubSeq(s, 1, i), "tool_results") <= Count(SubSeq(s, 1, i), "tool_calls")
  <2>1. SubSeq(s, 1, i) \in Seq(S)
    OBVIOUS
  <2>2. Count(SubSeq(s, 1, i), "tool_calls") = 0 /\ Count(SubSeq(s, 1, i), "tool_results") = 0
    BY <1>1, <2>1, CountNone
  <2> QED
    BY <2>2
<1> QED
  BY <1>2, <1>3, ResumeSafeIs DEF ResultsBehind

-----------------------------------------------------------------------------
(* Handing over the event log in pieces. *)

\* c marks where the pieces of the queue end in the log.
Marks(p, ev, cur, d, c) ==
  /\ c \in [0..Len(p) -> 0..cur]
  /\ d = SubSeq(ev, 1, c[0]) /\ c[Len(p)] = cur
  /\ \A k \in 1..Len(p) :
       /\ c[k - 1] <= c[k]
       /\ IF p[k].type \in QuestionTypes THEN c[k] = c[k - 1]
          ELSE p[k].delta = SubSeq(ev, c[k - 1] + 1, c[k])

\* The marks of the pieces, by name.
LEMMA HandedMarks ==
  ASSUME NEW p, NEW ev, NEW cur, NEW d
  PROVE  Handed(p, ev, cur, d) <=> \E c : Marks(p, ev, cur, d, c)
BY DEF Handed, Marks

\* Nothing is handed over at first; in the end, everything.
LEMMA HandedEmpty ==
  ASSUME NEW S, NEW ev \in Seq(S), NEW cur \in 0..Len(ev)
  PROVE  /\ Handed(<<>>, ev, cur, SubSeq(ev, 1, cur))
         /\ \A d : Handed(<<>>, ev, Len(ev), d) => d = ev
<1>1. Handed(<<>>, ev, cur, SubSeq(ev, 1, cur))
  <2> DEFINE c == [k \in 0..0 |-> cur]
  <2>1. Marks(<<>>, ev, cur, SubSeq(ev, 1, cur), c)
    BY DEF Marks
  <2> HIDE DEF c
  <2> QED
    BY <2>1, HandedMarks
<1>2. ASSUME NEW d, Handed(<<>>, ev, Len(ev), d) PROVE d = ev
  <2>1. PICK c : Marks(<<>>, ev, Len(ev), d, c)
    BY <1>2, HandedMarks
  <2>2. d = SubSeq(ev, 1, Len(ev))
    BY <2>1 DEF Marks
  <2> QED
    BY <2>2
<1> QED
  BY <1>1, <1>2

\* The log grows.
LEMMA HandedGrows ==
  ASSUME NEW S, NEW ev \in Seq(S), NEW y \in Seq(S), NEW E, NEW p \in Seq(E),
         NEW cur \in 0..Len(ev), NEW d, Handed(p, ev, cur, d)
  PROVE  Handed(p, ev \o y, cur, d)
<1>1. PICK c : Marks(p, ev, cur, d, c)
  BY HandedMarks
<1> DEFINE w == ev \o y
<1>2. \A a, b \in 0..Len(ev) : SubSeq(w, a + 1, b) = SubSeq(ev, a + 1, b)
  OBVIOUS
<1>3. \A b \in 0..Len(ev) : SubSeq(w, 1, b) = SubSeq(ev, 1, b)
  OBVIOUS
<1> HIDE DEF w
<1>4. Marks(p, w, cur, d, c)
  <2>1. c \in [0..Len(p) -> 0..cur] /\ c[Len(p)] = cur
    BY <1>1 DEF Marks
  <2>2. c[0] \in 0..Len(ev)
    BY <2>1
  <2>3. d = SubSeq(w, 1, c[0])
    BY <1>1, <1>3, <2>2 DEF Marks
  <2>4. ASSUME NEW k \in 1..Len(p)
        PROVE  /\ c[k - 1] <= c[k]
               /\ IF p[k].type \in QuestionTypes THEN c[k] = c[k - 1]
                  ELSE p[k].delta = SubSeq(w, c[k - 1] + 1, c[k])
    <3>0. k - 1 \in 0..Len(p) /\ k \in 0..Len(p) /\ 0..cur \subseteq 0..Len(ev)
      OBVIOUS
    <3>1. c[k - 1] \in 0..Len(ev) /\ c[k] \in 0..Len(ev)
      BY <2>1, <3>0
    <3>2. SubSeq(w, c[k - 1] + 1, c[k]) = SubSeq(ev, c[k - 1] + 1, c[k])
      BY <1>2, <3>1
    <3> QED
      BY <1>1, <3>2 DEF Marks
  <2> QED
    BY <2>1, <2>3, <2>4 DEF Marks
<1> QED
  BY <1>4, HandedMarks DEF w

\* A question, or a piece, joins the queue.
LEMMA HandedAppend ==
  ASSUME NEW S, NEW ev \in Seq(S), NEW E, NEW p \in Seq(E), NEW e \in E,
         NEW cur \in 0..Len(ev), NEW to \in cur..Len(ev), NEW d, Handed(p, ev, cur, d),
         IF e.type \in QuestionTypes THEN to = cur ELSE e.delta = SubSeq(ev, cur + 1, to)
  PROVE  Handed(Append(p, e), ev, to, d)
<1>1. PICK c : Marks(p, ev, cur, d, c)
  BY HandedMarks
<1> DEFINE q == Append(p, e)
           b == [k \in 0..Len(q) |-> IF k = Len(q) THEN to ELSE c[k]]
<1>2. Len(q) = Len(p) + 1 /\ Len(p) \in Nat /\ q[Len(q)] = e /\ \A k \in 1..Len(p) : q[k] = p[k]
  OBVIOUS
<1>3. c \in [0..Len(p) -> 0..cur] /\ c[Len(p)] = cur
  BY <1>1 DEF Marks
<1> HIDE DEF q
<1>4. b \in [0..Len(q) -> 0..to] /\ b[Len(q)] = to /\ \A k \in 0..Len(p) : b[k] = c[k]
  BY <1>2, <1>3
<1> HIDE DEF b
<1>5. ASSUME NEW k \in 1..Len(q)
      PROVE  /\ b[k - 1] <= b[k]
             /\ IF q[k].type \in QuestionTypes THEN b[k] = b[k - 1]
                ELSE q[k].delta = SubSeq(ev, b[k - 1] + 1, b[k])
  <2>1. CASE k \in 1..Len(p)
    <3>0. k - 1 \in 0..Len(p) /\ k \in 0..Len(p)
      BY <1>2, <2>1
    <3>1. b[k] = c[k] /\ b[k - 1] = c[k - 1] /\ q[k] = p[k]
      BY <1>2, <1>4, <2>1, <3>0
    <3> QED
      BY <1>1, <2>1, <3>1 DEF Marks
  <2>2. CASE k = Len(q)
    <3>1. b[k] = to /\ b[k - 1] = cur /\ q[k] = e
      BY <1>2, <1>3, <1>4, <2>2
    <3> QED
      BY <3>1
  <2> QED
    BY <1>2, <2>1, <2>2
<1>6. d = SubSeq(ev, 1, b[0])
  BY <1>1, <1>2, <1>4 DEF Marks
<1>7. Marks(q, ev, to, d, b)
  BY <1>4, <1>5, <1>6 DEF Marks
<1> QED
  BY <1>7, HandedMarks DEF q

\* Two adjacent pieces of a sequence.
LEMMA SubSeqJoin ==
  ASSUME NEW S, NEW ev \in Seq(S), NEW a \in 0..Len(ev), NEW b \in a..Len(ev)
  PROVE  SubSeq(ev, 1, a) \o SubSeq(ev, a + 1, b) = SubSeq(ev, 1, b)
<1> DEFINE u == SubSeq(ev, 1, a)
           v == SubSeq(ev, a + 1, b)
           w == SubSeq(ev, 1, b)
<1>1. /\ u \in Seq(S) /\ Len(u) = a /\ \A i \in 1..a : u[i] = ev[i]
      /\ v \in Seq(S) /\ Len(v) = b - a /\ \A i \in 1..(b - a) : v[i] = ev[i + a]
      /\ w \in Seq(S) /\ Len(w) = b /\ \A i \in 1..b : w[i] = ev[i]
  OBVIOUS
<1> HIDE DEF u, v, w
<1>2. Len(u \o v) = Len(w) /\ u \o v \in Seq(S)
  BY <1>1
<1>3. ASSUME NEW i \in 1..Len(w) PROVE (u \o v)[i] = w[i]
  <2>1. CASE i <= a
    BY <1>1, <2>1
  <2>2. CASE i > a
    <3>1. i - a \in 1..(b - a) /\ (i - a) + a = i
      BY <1>1, <2>2
    <3>2. (u \o v)[i] = v[i - a]
      BY <1>1, <2>2
    <3> QED
      BY <1>1, <3>1, <3>2
  <2> QED
    BY <1>1, <2>1, <2>2
<1>4. u \o v = w
  BY <1>1, <1>2, <1>3
<1> QED
  BY <1>4 DEF u, v, w

\* The head of the queue is handled: a piece is added to what is handed over.
LEMMA HandedTail ==
  ASSUME NEW S, NEW ev \in Seq(S), NEW E, NEW p \in Seq(E), p # <<>>,
         NEW cur \in 0..Len(ev), NEW d, Handed(p, ev, cur, d)
  PROVE  Handed(Tail(p), ev, cur, IF Head(p).type \in QuestionTypes THEN d ELSE d \o Head(p).delta)
<1>1. PICK c : Marks(p, ev, cur, d, c)
  BY HandedMarks
<1> DEFINE q == Tail(p)
           b == [k \in 0..Len(q) |-> c[k + 1]]
           g == IF Head(p).type \in QuestionTypes THEN d ELSE d \o Head(p).delta
<1>2. Len(p) = Len(q) + 1 /\ Len(q) \in Nat /\ Head(p) = p[1] /\ \A k \in 1..Len(q) : q[k] = p[k + 1]
  OBVIOUS
<1>3. c \in [0..Len(p) -> 0..cur] /\ c[Len(p)] = cur
  BY <1>1 DEF Marks
<1> HIDE DEF q
<1>4. b \in [0..Len(q) -> 0..cur] /\ \A k \in 0..Len(q) : b[k] = c[k + 1]
  BY <1>2, <1>3
<1> HIDE DEF b
<1>5. ASSUME NEW k \in 1..Len(q)
      PROVE  /\ b[k - 1] <= b[k]
             /\ IF q[k].type \in QuestionTypes THEN b[k] = b[k - 1]
                ELSE q[k].delta = SubSeq(ev, b[k - 1] + 1, b[k])
  <2>1. k + 1 \in 1..Len(p) /\ (k + 1) - 1 = k /\ (k - 1) + 1 = k /\ k \in 0..Len(q) /\ k - 1 \in 0..Len(q)
    BY <1>2
  <2>2. b[k] = c[k + 1] /\ b[k - 1] = c[k] /\ q[k] = p[k + 1]
    BY <1>2, <1>4, <2>1
  <2>3. /\ c[(k + 1) - 1] <= c[k + 1]
        /\ IF p[k + 1].type \in QuestionTypes THEN c[k + 1] = c[(k + 1) - 1]
           ELSE p[k + 1].delta = SubSeq(ev, c[(k + 1) - 1] + 1, c[k + 1])
    BY <1>1, <2>1 DEF Marks
  <2> QED
    BY <2>1, <2>2, <2>3
<1>6. b[0] = c[1] /\ c[0] \in 0..Len(ev) /\ c[1] \in 0..Len(ev) /\ b[Len(q)] = cur
  BY <1>2, <1>3, <1>4
<1>7. /\ c[0] <= c[1] /\ d = SubSeq(ev, 1, c[0])
      /\ IF p[1].type \in QuestionTypes THEN c[1] = c[0]
         ELSE p[1].delta = SubSeq(ev, c[0] + 1, c[1])
  <2>1. 1 \in 1..Len(p) /\ 1 - 1 = 0
    BY <1>2
  <2> QED
    BY <1>1, <2>1 DEF Marks
<1>8. g = SubSeq(ev, 1, b[0])
  <2>1. SubSeq(ev, 1, c[0]) \o SubSeq(ev, c[0] + 1, c[1]) = SubSeq(ev, 1, c[1])
    <3>1. c[0] \in 0..Len(ev) /\ c[1] \in c[0]..Len(ev)
      BY <1>6, <1>7
    <3> QED
      BY <3>1, SubSeqJoin
  <2> QED
    BY <1>2, <1>6, <1>7, <2>1
<1> HIDE DEF g
<1>9. Marks(q, ev, cur, g, b)
  BY <1>4, <1>5, <1>6, <1>8 DEF Marks
<1> QED
  BY <1>9, HandedMarks DEF q, g

-----------------------------------------------------------------------------
(* The steps of the machine, one by one. *)

SameTurn(m, n) ==
  /\ n.iteration = m.iteration /\ n.final_scheduled = m.final_scheduled
  /\ n.messages = m.messages /\ n.events = m.events
SameWait(m, n) ==
  /\ n.state = m.state /\ n.effect_id = m.effect_id /\ n.next_effect_id = m.next_effect_id
  /\ n.checkpoint = m.checkpoint /\ n.on_empty = m.on_empty
SameQueue(m, n) == n.pending = m.pending /\ n.cursor = m.cursor

\* What a step of the machine hands over or asks is an effect.
LEMMA EmitProgress ==
  ASSUME NEW pr, NEW m \in Machines(pr), m.cursor <= Len(m.events)
  PROVE  LET n == emit_progress(m)
             e == [type |-> "Progress", messages |-> m.messages, delta |-> EventDelta(m)]
         IN  /\ n \in Machines(pr) /\ e \in Effects(pr)
             /\ n.pending = Append(m.pending, e) /\ n.cursor = Len(m.events)
             /\ SameTurn(m, n) /\ SameWait(m, n)
<1> DEFINE e == [type |-> "Progress", messages |-> m.messages, delta |-> EventDelta(m)]
           p == Append(m.pending, e)
<1>1. EventDelta(m) \in Seq(EventsOf(pr)) /\ Len(m.events) \in Nat /\ m.messages \in Seq(MessagesOf(pr))
  BY DEF Machines, EventDelta
<1>2. e \in Effects(pr)
  BY <1>1 DEF Effects, Reports
<1>3. p \in Seq(Effects(pr))
  <2>1. m.pending \in Seq(Effects(pr))
    BY DEF Machines
  <2> HIDE DEF e
  <2> QED
    BY <1>2, <2>1
<1>4. emit_progress(m) = [m EXCEPT !.pending = p, !.cursor = Len(m.events)]
  BY DEF emit_progress, Queue, NextCursor, Machines
<1> HIDE DEF p
<1>5. emit_progress(m) \in Machines(pr)
  BY <1>1, <1>3, <1>4 DEF Machines
<1>6. /\ emit_progress(m).pending = p /\ emit_progress(m).cursor = Len(m.events)
      /\ SameTurn(m, emit_progress(m)) /\ SameWait(m, emit_progress(m))
  BY <1>4 DEF Machines, SameTurn, SameWait
<1> QED
  BY <1>2, <1>5, <1>6 DEF p

\* finish queues Done with the rest of the events.
LEMMA FinishTurn ==
  ASSUME NEW pr, NEW m \in Machines(pr), m.cursor <= Len(m.events), NEW outcome \in Outcomes
  PROVE  LET n == finish(m, outcome)
             e == [type |-> "Done", messages |-> m.messages, delta |-> EventDelta(m),
                   outcome |-> outcome]
         IN  /\ n \in Machines(pr) /\ e \in Effects(pr)
             /\ n.pending = Append(m.pending, e) /\ n.cursor = Len(m.events)
             /\ n.state = "Finished" /\ n.events = m.events
             /\ n.effect_id = m.effect_id /\ n.next_effect_id = m.next_effect_id
<1> DEFINE e == [type |-> "Done", messages |-> m.messages, delta |-> EventDelta(m),
                 outcome |-> outcome]
           p == Append(m.pending, e)
<1>1. EventDelta(m) \in Seq(EventsOf(pr)) /\ Len(m.events) \in Nat /\ m.messages \in Seq(MessagesOf(pr))
  BY DEF Machines, EventDelta
<1>2. e \in Effects(pr)
  BY <1>1 DEF Effects, Dones
<1>3. p \in Seq(Effects(pr))
  <2>1. m.pending \in Seq(Effects(pr))
    BY DEF Machines
  <2> HIDE DEF e
  <2> QED
    BY <1>2, <2>1
<1>4. finish(m, outcome) = [m EXCEPT !.pending = p, !.state = "Finished", !.messages = <<>>,
                                     !.cursor = Len(m.events)]
  BY DEF finish, Queue, NextCursor, Machines
<1> HIDE DEF p
<1>5. "Finished" \in States /\ <<>> \in Seq(MessagesOf(pr))
  BY DEF States
<1>6. finish(m, outcome) \in Machines(pr)
  BY <1>1, <1>3, <1>4, <1>5 DEF Machines
<1>7. LET n == finish(m, outcome)
      IN  /\ n.pending = p /\ n.cursor = Len(m.events)
          /\ n.state = "Finished" /\ n.events = m.events
          /\ n.effect_id = m.effect_id /\ n.next_effect_id = m.next_effect_id
  BY <1>4 DEF Machines
<1> QED
  BY <1>2, <1>6, <1>7 DEF p

\* Ask queues a question under a new id.
LEMMA AskQuestion ==
  ASSUME NEW pr, NEW m \in Machines(pr), NEW type \in QuestionTypes, NEW arg,
         [type |-> type, id |-> m.next_effect_id, arg |-> arg] \in Questions(pr)
  PROVE  LET n == Ask(m, WaitState[type], type, arg)
         IN  /\ n \in Machines(pr)
             /\ n.pending = Append(m.pending, [type |-> type, id |-> m.next_effect_id, arg |-> arg])
             /\ n.cursor = m.cursor /\ n.state = WaitState[type]
             /\ n.effect_id = m.next_effect_id /\ n.next_effect_id = m.next_effect_id + 1
             /\ n.checkpoint = m.checkpoint /\ n.on_empty = m.on_empty
             /\ SameTurn(m, n)
<1> DEFINE e == [type |-> type, id |-> m.next_effect_id, arg |-> arg]
           p == Append(m.pending, e)
<1>2. e \in Effects(pr)
  BY DEF Effects
<1>3. p \in Seq(Effects(pr))
  <2>1. m.pending \in Seq(Effects(pr))
    BY DEF Machines
  <2> HIDE DEF e
  <2> QED
    BY <1>2, <2>1
<1>4. Ask(m, WaitState[type], type, arg) =
        [m EXCEPT !.pending = p, !.state = WaitState[type], !.effect_id = m.next_effect_id,
                  !.next_effect_id = m.next_effect_id + 1]
  BY DEF Ask, Queue, Machines
<1> HIDE DEF p
<1>5. WaitState[type] \in States
  BY DEF States, WaitState, QuestionTypes
<1>6. m.next_effect_id \in Nat /\ m.next_effect_id + 1 \in Nat
  BY DEF Machines
<1> DEFINE st == WaitState[type]
<1> HIDE DEF st
<1>7. Ask(m, st, type, arg) =
        [m EXCEPT !.pending = p, !.state = st, !.effect_id = m.next_effect_id,
                  !.next_effect_id = m.next_effect_id + 1] /\ st \in States
  BY <1>4, <1>5 DEF st
<1>8. Ask(m, st, type, arg) \in Machines(pr)
  BY <1>3, <1>6, <1>7 DEF Machines
<1>9. LET n == Ask(m, st, type, arg)
      IN  /\ n.pending = p /\ n.cursor = m.cursor /\ n.state = st
          /\ n.effect_id = m.next_effect_id /\ n.next_effect_id = m.next_effect_id + 1
          /\ n.checkpoint = m.checkpoint /\ n.on_empty = m.on_empty
          /\ SameTurn(m, n)
  BY <1>7 DEF Machines, SameTurn
<1> QED
  BY <1>8, <1>9 DEF p, st

\* append_events adds events, and the messages among them.
LEMMA AppendEventsTo ==
  ASSUME NEW pr \in Protocols, NEW m \in Machines(pr), NEW y \in Seq(EventsOf(pr))
  PROVE  LET n == append_events(m, y)
             x == Among(y, MessageKinds)
         IN  /\ n \in Machines(pr) /\ x \in Seq(MessagesOf(pr))
             /\ n.events = m.events \o y /\ n.messages = m.messages \o x
             /\ n.iteration = m.iteration /\ n.final_scheduled = m.final_scheduled
             /\ SameWait(m, n) /\ SameQueue(m, n)
<1> DEFINE x == Among(y, MessageKinds)
           a == m.events \o y
           b == m.messages \o x
<1>1. x \in Seq(EventsOf(pr) \cap MessageKinds)
  BY AmongSeq
<1>2. EventsOf(pr) \cap MessageKinds = MessagesOf(pr)
  BY DEF EventsOf, MessagesOf, EventKinds, ProtocolEvents, MessageKinds
<1>3. x \in Seq(MessagesOf(pr))
  BY <1>1, <1>2
<1> HIDE DEF x
<1>4. a \in Seq(EventsOf(pr)) /\ b \in Seq(MessagesOf(pr))
  BY <1>3 DEF Machines
<1>5. append_events(m, y) = [m EXCEPT !.events = a, !.messages = b]
  BY DEF append_events, x
<1> HIDE DEF a, b
<1>6. append_events(m, y) \in Machines(pr)
  BY <1>4, <1>5 DEF Machines
<1>7. LET n == append_events(m, y)
      IN  /\ n.events = a /\ n.messages = b
          /\ n.iteration = m.iteration /\ n.final_scheduled = m.final_scheduled
          /\ SameWait(m, n) /\ SameQueue(m, n)
  BY <1>5 DEF Machines, SameWait, SameQueue
<1> QED
  BY <1>3, <1>6, <1>7 DEF a, b, x

\* AdvanceProtocolIteration and schedule_turn_limit_final.
Advanced(m) == [m EXCEPT !.iteration = @ + 1, !.synced = {}]

\* The next iteration of the protocol.
LEMMA AdvanceTo ==
  ASSUME NEW pr, NEW m \in Machines(pr)
  PROVE  LET n == Advanced(m)
         IN  /\ n \in Machines(pr) /\ n.iteration = m.iteration + 1
             /\ n.final_scheduled = m.final_scheduled /\ n.messages = m.messages
             /\ n.events = m.events /\ SameWait(m, n) /\ SameQueue(m, n)
<1>1. m.iteration + 1 \in Nat /\ {} \in SUBSET Nat
  BY DEF Machines
<1>2. Advanced(m) = [m EXCEPT !.iteration = m.iteration + 1, !.synced = {}]
  BY DEF Advanced, Machines
<1>3. Advanced(m) \in Machines(pr)
  BY <1>1, <1>2 DEF Machines
<1> QED
  BY <1>2, <1>3 DEF Machines, SameWait, SameQueue

\* The last call of the model is scheduled with a message.
LEMMA ScheduleFinal ==
  ASSUME NEW pr, NEW m \in Machines(pr)
  PROVE  LET n == schedule_turn_limit_final(m)
         IN  /\ n \in Machines(pr) /\ n.final_scheduled = TRUE
             /\ n.messages = Append(m.messages, "turn_limit")
             /\ n.iteration = m.iteration /\ n.events = m.events
             /\ SameWait(m, n) /\ SameQueue(m, n)
<1> DEFINE b == Append(m.messages, "turn_limit")
<1>1. b \in Seq(MessagesOf(pr))
  BY DEF Machines, MessagesOf, MessageKinds, ToolKinds
<1>2. schedule_turn_limit_final(m) = [m EXCEPT !.final_scheduled = TRUE, !.messages = b]
  BY DEF schedule_turn_limit_final, Machines
<1> HIDE DEF b
<1>3. schedule_turn_limit_final(m) \in Machines(pr)
  BY <1>1, <1>2 DEF Machines
<1>4. LET n == schedule_turn_limit_final(m)
      IN  /\ n.final_scheduled = TRUE /\ n.messages = b
          /\ n.iteration = m.iteration /\ n.events = m.events
          /\ SameWait(m, n) /\ SameQueue(m, n)
  BY <1>2 DEF Machines, SameWait, SameQueue
<1> QED
  BY <1>3, <1>4 DEF b

\* A machine that has no question in its queue and is not done.
Open(m, pr, draft) ==
  /\ m \in Machines(pr) /\ pr \in Protocols /\ m.state # "Finished"
  /\ m.cursor <= Len(m.events) /\ m.effect_id < m.next_effect_id
  /\ \A k \in 1..Len(m.pending) : m.pending[k].type = "Progress"
  /\ pr # "standard" => Handed(m.pending, m.events, m.cursor, draft)

\* An open machine stays open when its log grows.
LEMMA OpenGrows ==
  ASSUME NEW pr, NEW m, NEW n, NEW draft, Open(m, pr, draft), n \in Machines(pr),
         n.state # "Finished", SameQueue(m, n),
         n.effect_id = m.effect_id, n.next_effect_id = m.next_effect_id,
         NEW y \in Seq(EventsOf(pr)), n.events = m.events \o y
  PROVE  Open(n, pr, draft)
<1>1. /\ m.events \in Seq(EventsOf(pr)) /\ m.pending \in Seq(Effects(pr)) /\ m.cursor \in Nat
      /\ m.cursor <= Len(m.events)
  BY DEF Open, Machines
<1>2. m.cursor \in 0..Len(m.events) /\ Len(m.events \o y) = Len(m.events) + Len(y) /\ Len(y) \in Nat
      /\ Len(m.events) \in Nat
  BY <1>1
<1>3. pr # "standard" => Handed(m.pending, m.events \o y, m.cursor, draft)
  BY <1>1, <1>2, HandedGrows DEF Open
<1>4. n.cursor <= Len(n.events)
  BY <1>1, <1>2 DEF SameQueue
<1> QED
  BY <1>3, <1>4 DEF Open, SameQueue

\* An open machine stays open when its log is the same.
LEMMA OpenSame ==
  ASSUME NEW pr, NEW m, NEW n, NEW draft, Open(m, pr, draft), n \in Machines(pr),
         n.state # "Finished", SameQueue(m, n),
         n.effect_id = m.effect_id, n.next_effect_id = m.next_effect_id, n.events = m.events
  PROVE  Open(n, pr, draft)
BY DEF Open, SameQueue

\* A report leaves an open machine open.
LEMMA OpenEmit ==
  ASSUME NEW pr, NEW m, NEW draft, Open(m, pr, draft)
  PROVE  Open(emit_progress(m), pr, draft)
<1> DEFINE n == emit_progress(m)
           e == [type |-> "Progress", messages |-> m.messages, delta |-> EventDelta(m)]
<1>1. m \in Machines(pr) /\ m.cursor <= Len(m.events) /\ m.cursor \in Nat
      /\ m.events \in Seq(EventsOf(pr)) /\ m.pending \in Seq(Effects(pr))
  BY DEF Open, Machines
<1>2. /\ n \in Machines(pr) /\ e \in Effects(pr)
      /\ n.pending = Append(m.pending, e) /\ n.cursor = Len(m.events)
      /\ SameTurn(m, n) /\ SameWait(m, n)
  BY <1>1, EmitProgress
<1>3. e.type = "Progress" /\ e.type \notin QuestionTypes
      /\ e.delta = SubSeq(m.events, m.cursor + 1, Len(m.events))
  BY DEF EventDelta, QuestionTypes
<1> HIDE DEF n, e
<1>4. m.cursor \in 0..Len(m.events) /\ Len(m.events) \in m.cursor..Len(m.events)
  BY <1>1
<1>5. pr # "standard" => Handed(n.pending, n.events, n.cursor, draft)
  <2> SUFFICES ASSUME pr # "standard" PROVE Handed(n.pending, n.events, n.cursor, draft)
    OBVIOUS
  <2>1. Handed(m.pending, m.events, m.cursor, draft)
    BY DEF Open
  <2>2. Handed(Append(m.pending, e), m.events, Len(m.events), draft)
    BY <1>1, <1>2, <1>3, <1>4, <2>1, HandedAppend
  <2> QED
    BY <1>2, <2>2 DEF SameTurn
<1>6. \A k \in 1..Len(n.pending) : n.pending[k].type = "Progress"
  BY <1>1, <1>2, <1>3 DEF Open
<1>7. n.state # "Finished" /\ n.cursor <= Len(n.events) /\ n.effect_id < n.next_effect_id
  BY <1>1, <1>2 DEF Open, SameWait, SameTurn
<1>8. Open(n, pr, draft)
  BY <1>2, <1>5, <1>6, <1>7 DEF Open
<1> QED
  BY <1>8 DEF n

\* A machine about to prepare is sound when its counts are.
LEMMA OpenSound ==
  ASSUME NEW pr, NEW m, NEW low, NEW draft, NEW asked, NEW requests,
         Open(m, pr, draft), m.state \in {"PreparingProtocol", "PrepareIteration"},
         low <= m.next_effect_id, Counted(m, asked, requests)
  PROVE  Sound(m, pr, low, draft, asked, requests)
<1>1. \A k \in 1..Len(m.pending) : m.pending[k].type = "Progress"
  BY DEF Open
<1>2. "Progress" \notin QuestionTypes /\ m.state \notin {WaitState[t] : t \in QuestionTypes}
  BY DEF QuestionTypes, WaitState
<1>3. QueueOK(m, low, asked)
  BY <1>1, <1>2 DEF QueueOK
<1> QED
  BY <1>3 DEF Open, Sound

\* So is one that has just asked.
LEMMA AskSound ==
  ASSUME NEW pr, NEW m, NEW n, NEW e, NEW low, NEW draft, NEW asked, NEW requests,
         Open(m, pr, draft), n \in Machines(pr), e \in Questions(pr), e \in Effects(pr),
         n.pending = Append(m.pending, e), n.cursor = m.cursor, n.events = m.events,
         n.effect_id = m.next_effect_id, n.next_effect_id = m.next_effect_id + 1,
         Awaited(n, low, e), low \in Nat, low <= m.next_effect_id, Counted(n, asked, requests)
  PROVE  Sound(n, pr, low, draft, asked, requests)
<1>1. m \in Machines(pr) /\ m.cursor <= Len(m.events) /\ m.cursor \in Nat
      /\ m.events \in Seq(EventsOf(pr)) /\ m.pending \in Seq(Effects(pr)) /\ m.next_effect_id \in Nat
  BY DEF Open, Machines
<1>2. e.type \in QuestionTypes /\ n.state = WaitState[e.type]
  BY DEF Awaited
<1>3. n.state # "Finished" /\ "Progress" \notin QuestionTypes
  BY <1>2 DEF WaitState, QuestionTypes
<1>4. /\ Len(n.pending) = Len(m.pending) + 1 /\ Len(m.pending) \in Nat
      /\ n.pending[Len(n.pending)] = e
      /\ \A k \in 1..Len(m.pending) : n.pending[k] = m.pending[k]
  BY <1>1
<1>5. ASSUME NEW k \in 1..Len(n.pending)
      PROVE  n.pending[k].type = "Progress" \/ (k = Len(n.pending) /\ n.pending[k] = e)
  <2>1. k \in 1..Len(m.pending) \/ k = Len(n.pending)
    BY <1>4
  <2> QED
    BY <1>4, <2>1 DEF Open
<1>6. \E k \in 1..Len(n.pending) : n.pending[k].type \in QuestionTypes
  <2>1. Len(n.pending) \in 1..Len(n.pending)
    BY <1>4
  <2> QED
    BY <1>2, <1>4, <2>1
<1>7. QueueOK(n, low, asked)
  BY <1>2, <1>3, <1>5, <1>6 DEF QueueOK
<1>8. pr # "standard" => Handed(n.pending, n.events, n.cursor, draft)
  <2> SUFFICES ASSUME pr # "standard" PROVE Handed(n.pending, n.events, n.cursor, draft)
    OBVIOUS
  <2>1. Handed(m.pending, m.events, m.cursor, draft)
    BY DEF Open
  <2>2. m.cursor \in 0..Len(m.events) /\ m.cursor \in m.cursor..Len(m.events)
    BY <1>1
  <2>3. Handed(Append(m.pending, e), m.events, m.cursor, draft)
    BY <1>1, <1>2, <2>1, <2>2, HandedAppend
  <2> QED
    BY <2>3
<1>9. n.cursor <= Len(n.events) /\ n.effect_id < n.next_effect_id /\ low <= n.next_effect_id
  BY <1>1
<1> QED
  BY <1>7, <1>8, <1>9 DEF Sound, Open

\* Progress may be reported at any time before the end.
LEMMA EmitSound ==
  ASSUME NEW pr, NEW m, NEW low, NEW draft, NEW asked, NEW requests,
         Sound(m, pr, low, draft, asked, requests), m.state # "Finished"
  PROVE  Sound(emit_progress(m), pr, low, draft, asked, requests)
<1> DEFINE n == emit_progress(m)
           e == [type |-> "Progress", messages |-> m.messages, delta |-> EventDelta(m)]
<1>1. m \in Machines(pr) /\ m.cursor <= Len(m.events) /\ m.cursor \in Nat
      /\ m.events \in Seq(EventsOf(pr)) /\ m.pending \in Seq(Effects(pr))
  BY DEF Sound, Machines
<1>2. /\ n \in Machines(pr) /\ e \in Effects(pr)
      /\ n.pending = Append(m.pending, e) /\ n.cursor = Len(m.events)
      /\ SameTurn(m, n) /\ SameWait(m, n)
  BY <1>1, EmitProgress
<1>3. e.type = "Progress" /\ e.type \notin QuestionTypes
      /\ e.delta = SubSeq(m.events, m.cursor + 1, Len(m.events))
  BY DEF EventDelta, QuestionTypes
<1> HIDE DEF n, e
<1>4. m.cursor \in 0..Len(m.events) /\ Len(m.events) \in m.cursor..Len(m.events)
  BY <1>1
<1>5. pr # "standard" => Handed(n.pending, n.events, n.cursor, draft)
  <2> SUFFICES ASSUME pr # "standard" PROVE Handed(n.pending, n.events, n.cursor, draft)
    OBVIOUS
  <2>1. Handed(m.pending, m.events, m.cursor, draft)
    BY DEF Sound
  <2>2. Handed(Append(m.pending, e), m.events, Len(m.events), draft)
    BY <1>1, <1>2, <1>3, <1>4, <2>1, HandedAppend
  <2> QED
    BY <1>2, <2>2 DEF SameTurn
<1>6. /\ Len(n.pending) = Len(m.pending) + 1 /\ Len(m.pending) \in Nat
      /\ n.pending[Len(n.pending)] = e
      /\ \A k \in 1..Len(m.pending) : n.pending[k] = m.pending[k]
  BY <1>1, <1>2
<1>7. \A k \in 1..Len(n.pending) : k \in 1..Len(m.pending) \/ k = Len(n.pending)
  BY <1>6
<1>8. \A x : Awaited(m, low, x) => Awaited(n, low, x)
  BY <1>2 DEF Awaited, SameWait, SameTurn
<1>9. QueueOK(n, low, asked)
  <2>1. ASSUME NEW k \in 1..Len(n.pending)
        PROVE  n.pending[k].type = "Progress" \/ Awaited(n, low, n.pending[k])
    <3>1. CASE k \in 1..Len(m.pending)
      <4>1. m.pending[k].type = "Progress" \/ Awaited(m, low, m.pending[k])
        BY <3>1 DEF Sound, QueueOK, Ending
      <4> QED
        BY <1>6, <1>8, <3>1, <4>1
    <3>2. CASE k = Len(n.pending)
      BY <1>3, <1>6, <3>2
    <3> QED
      BY <1>7, <3>1, <3>2
  <2>2. ASSUME NEW k \in 1..Len(n.pending), NEW l \in 1..Len(n.pending),
               n.pending[k].type \in QuestionTypes, n.pending[l].type \in QuestionTypes
        PROVE  k = l
    <3>1. k \in 1..Len(m.pending) /\ l \in 1..Len(m.pending)
      BY <1>3, <1>6, <1>7, <2>2
    <3> QED
      BY <1>6, <2>2, <3>1 DEF Sound, QueueOK
  <2>3. ASSUME n.state \in {WaitState[t] : t \in QuestionTypes}
        PROVE  \E k \in 1..Len(n.pending) : n.pending[k].type \in QuestionTypes
    <3>1. m.state \in {WaitState[t] : t \in QuestionTypes}
      BY <1>2, <2>3 DEF SameWait
    <3>2. PICK k \in 1..Len(m.pending) : m.pending[k].type \in QuestionTypes
      BY <3>1 DEF Sound, QueueOK
    <3>3. k \in 1..Len(n.pending) /\ n.pending[k] = m.pending[k]
      BY <1>6
    <3> QED
      BY <3>2, <3>3
  <2>4. n.state # "Finished"
    BY <1>2 DEF SameWait
  <2> QED
    BY <2>1, <2>2, <2>3, <2>4 DEF QueueOK
<1>10. Counted(n, asked, requests)
  BY <1>2 DEF Sound, Counted, Limited, AfterModel, SameWait, SameTurn
<1>11. n.cursor <= Len(n.events) /\ n.effect_id < n.next_effect_id /\ low <= n.next_effect_id
  BY <1>1, <1>2 DEF Sound, SameWait, SameTurn
<1>12. Sound(n, pr, low, draft, asked, requests)
  BY <1>2, <1>5, <1>9, <1>10, <1>11 DEF Sound
<1> QED
  BY <1>12 DEF n

\* The turn ends with what is resumable and, if it is an answer, complete.
LEMMA FinishSound ==
  ASSUME NEW pr, NEW m, NEW low, NEW draft, NEW asked, NEW requests, NEW outcome \in Outcomes,
         Open(m, pr, draft), low <= m.next_effect_id, requests <= Top + 1,
         ResumeSafe(m.messages),
         outcome \in Answered => Count(m.messages, "delivered") = Count(asked, "delivered")
  PROVE  Sound(finish(m, outcome), pr, low, draft, asked, requests)
<1> DEFINE n == finish(m, outcome)
           e == [type |-> "Done", messages |-> m.messages, delta |-> EventDelta(m),
                 outcome |-> outcome]
<1>1. m \in Machines(pr) /\ m.cursor <= Len(m.events) /\ m.cursor \in Nat
      /\ m.events \in Seq(EventsOf(pr)) /\ m.pending \in Seq(Effects(pr))
  BY DEF Open, Machines
<1>2. /\ n \in Machines(pr) /\ e \in Effects(pr)
      /\ n.pending = Append(m.pending, e) /\ n.cursor = Len(m.events)
      /\ n.state = "Finished" /\ n.events = m.events
      /\ n.effect_id = m.effect_id /\ n.next_effect_id = m.next_effect_id
  BY <1>1, FinishTurn
<1>3. /\ e.type = "Done" /\ e.type \notin QuestionTypes
      /\ e.delta = SubSeq(m.events, m.cursor + 1, Len(m.events))
      /\ e.messages = m.messages /\ e.outcome = outcome
  BY DEF EventDelta, QuestionTypes
<1> HIDE DEF n, e
<1>4. m.cursor \in 0..Len(m.events) /\ Len(m.events) \in m.cursor..Len(m.events)
  BY <1>1
<1>5. pr # "standard" => Handed(n.pending, n.events, n.cursor, draft)
  <2> SUFFICES ASSUME pr # "standard" PROVE Handed(n.pending, n.events, n.cursor, draft)
    OBVIOUS
  <2>1. Handed(m.pending, m.events, m.cursor, draft)
    BY DEF Open
  <2>2. Handed(Append(m.pending, e), m.events, Len(m.events), draft)
    BY <1>1, <1>2, <1>3, <1>4, <2>1, HandedAppend
  <2> QED
    BY <1>2, <2>2
<1>6. /\ Len(n.pending) = Len(m.pending) + 1 /\ Len(m.pending) \in Nat
      /\ n.pending[Len(n.pending)] = e
      /\ \A k \in 1..Len(m.pending) : n.pending[k] = m.pending[k]
  BY <1>1, <1>2
<1>7. \A k \in 1..Len(n.pending) : k \in 1..Len(m.pending) \/ k = Len(n.pending)
  BY <1>6
<1>8. Ending(n, asked, e)
  BY <1>2, <1>3 DEF Ending
<1>9. QueueOK(n, low, asked)
  <2>1. ASSUME NEW k \in 1..Len(n.pending)
        PROVE  \/ n.pending[k].type = "Progress"
               \/ k = Len(n.pending) /\ Ending(n, asked, n.pending[k])
    BY <1>6, <1>7, <1>8 DEF Open
  <2>2. \A k \in 1..Len(n.pending) : n.pending[k].type \notin QuestionTypes
    <3>1. "Progress" \notin QuestionTypes
      BY DEF QuestionTypes
    <3> QED
      BY <1>3, <1>6, <1>7, <3>1 DEF Open
  <2>3. n.state \notin {WaitState[t] : t \in QuestionTypes} /\ n.cursor = Len(n.events)
    BY <1>2 DEF WaitState, QuestionTypes
  <2> QED
    BY <2>1, <2>2, <2>3 DEF QueueOK
<1>10. Counted(n, asked, requests)
  BY <1>2 DEF Counted
<1>11. n.cursor <= Len(n.events) /\ n.effect_id < n.next_effect_id /\ low <= n.next_effect_id
  BY <1>1, <1>2 DEF Open
<1>12. Sound(n, pr, low, draft, asked, requests)
  BY <1>2, <1>5, <1>9, <1>10, <1>11 DEF Sound, Open
<1> QED
  BY <1>12 DEF n

-----------------------------------------------------------------------------
(* The loop of apply_actions. *)

\* The loop leads from s through the actions to t.
Leads(s, actions, t) ==
  \E F : /\ F[0] = s /\ F[Len(actions)] = t
         /\ \A i \in 1..Len(actions) : F[i] = ApplyAction(F[i - 1], actions[i])

Start(m) == [m |-> m, dirty |-> FALSE]
Flush(s) == IF s.dirty THEN emit_progress(s.m) ELSE s.m

\* The recursion that defines apply_actions has a solution.
LEMMA ActionsRun ==
  ASSUME NEW m, NEW A, NEW actions \in Seq(A)
  PROVE  \E G : /\ G[0] = {Start(m)}
                /\ \A i \in 1..Len(actions) : G[i] = {ApplyAction(s, actions[i]) : s \in G[i - 1]}
                /\ apply_actions(m, actions) = CHOOSE r \in {Flush(s) : s \in G[Len(actions)]} : TRUE
<1> DEFINE Step(G, n) == IF n = 0 THEN {[m |-> m, dirty |-> FALSE]}
                         ELSE {ApplyAction(s, actions[n]) : s \in G[n - 1]}
           Is(G, k) == G = [n \in 0..k |-> Step(G, n)]
           D == {k \in Nat : \E G : Is(G, k)}
<1>1. 0 \in D
  <2> DEFINE g == [i \in 0..0 |-> {[m |-> m, dirty |-> FALSE]}]
  <2>1. Is(g, 0)
    OBVIOUS
  <2> QED
    BY <2>1
<1>2. ASSUME NEW k \in Nat, k \in D PROVE k + 1 \in D
  <2>1. PICK G : Is(G, k)
    BY <1>2
  <2>2. \A i \in 0..k : G[i] = Step(G, i)
    BY <2>1, Zenon
  <2> DEFINE H == [i \in 0..(k+1) |-> IF i <= k THEN G[i] ELSE Step(G, i)]
  <2>3. ASSUME NEW i \in 0..(k+1) PROVE H[i] = Step(H, i)
    <3>1. i # 0 => H[i-1] = G[i-1]
      OBVIOUS
    <3>2. H[i] = IF i <= k THEN G[i] ELSE Step(G, i)
      OBVIOUS
    <3>3. H[i] = Step(G, i)
      <4> HIDE DEF H, Step
      <4> QED
        BY <2>2, <3>2
    <3> HIDE DEF H
    <3> QED
      BY <3>1, <3>3
  <2>4. H = [i \in 0..(k+1) |-> Step(H, i)]
    <3>1. H = [i \in 0..(k+1) |-> H[i]]
      OBVIOUS
    <3> HIDE DEF H, Step
    <3> QED
      BY <2>3, <3>1
  <2>5. \E X : Is(X, k + 1)
    <3> HIDE DEF H
    <3> QED
      BY <2>4
  <2> HIDE DEF Is
  <2> QED
    BY <2>5
<1>3. Len(actions) \in D
  <2> HIDE DEF D
  <2>1. Nat \subseteq D
    BY <1>1, <1>2, NatInd
  <2> QED
    BY <2>1
<1> DEFINE F == CHOOSE G : Is(G, Len(actions))
<1>4. Is(F, Len(actions))
  BY <1>3
<1>5. apply_actions(m, actions) = CHOOSE r \in {Flush(s) : s \in F[Len(actions)]} : TRUE
  BY DEF apply_actions, Flush
<1>6. \A i \in 0..Len(actions) : F[i] = Step(F, i)
  BY <1>4, Zenon
<1> HIDE DEF F
<1>7. F[0] = {Start(m)}
  <2>1. 0 \in 0..Len(actions)
    OBVIOUS
  <2>2. F[0] = Step(F, 0)
    BY <1>6, <2>1, Zenon
  <2> QED
    BY <2>2 DEF Start
<1>8. ASSUME NEW i \in 1..Len(actions)
      PROVE  F[i] = {ApplyAction(s, actions[i]) : s \in F[i - 1]}
  <2>1. i \in 0..Len(actions) /\ i # 0
    OBVIOUS
  <2>2. F[i] = Step(F, i)
    BY <1>6, <2>1, Zenon
  <2> QED
    BY <2>1, <2>2
<1> QED
  BY <1>5, <1>7, <1>8

\* Where the loop leads is what apply_actions returns, with the last report.
LEMMA ActionsLead ==
  ASSUME NEW m, NEW A, NEW actions \in Seq(A), NEW t, Leads(Start(m), actions, t)
  PROVE  apply_actions(m, actions) = Flush(t)
<1>1. PICK F : /\ F[0] = Start(m) /\ F[Len(actions)] = t
               /\ \A i \in 1..Len(actions) : F[i] = ApplyAction(F[i - 1], actions[i])
  BY DEF Leads
<1>2. PICK G : /\ G[0] = {Start(m)}
               /\ \A i \in 1..Len(actions) : G[i] = {ApplyAction(s, actions[i]) : s \in G[i - 1]}
               /\ apply_actions(m, actions) = CHOOSE r \in {Flush(s) : s \in G[Len(actions)]} : TRUE
  BY ActionsRun
<1> DEFINE D == {n \in Nat : n <= Len(actions) => G[n] = {F[n]}}
<1>3. 0 \in D
  BY <1>1, <1>2
<1>4. ASSUME NEW n \in Nat, n \in D PROVE n + 1 \in D
  <2> SUFFICES ASSUME n + 1 <= Len(actions) PROVE G[n + 1] = {F[n + 1]}
    OBVIOUS
  <2>1. n + 1 \in 1..Len(actions) /\ (n + 1) - 1 = n
    OBVIOUS
  <2>2. G[n] = {F[n]}
    BY <1>4
  <2>3. G[n + 1] = {ApplyAction(s, actions[n + 1]) : s \in G[(n + 1) - 1]}
    BY <1>2, <2>1, Zenon
  <2>4. F[n + 1] = ApplyAction(F[(n + 1) - 1], actions[n + 1])
    BY <1>1, <2>1, Zenon
  <2> QED
    BY <2>1, <2>2, <2>3, <2>4
<1>5. Nat \subseteq D
  <2> HIDE DEF D
  <2> QED
    BY <1>3, <1>4, NatInd
<1>6. G[Len(actions)] = {t}
  <2>1. Len(actions) \in Nat
    OBVIOUS
  <2> QED
    BY <1>1, <1>5, <2>1
<1>7. {Flush(s) : s \in G[Len(actions)]} = {Flush(t)}
  BY <1>6
<1>8. \A x : (CHOOSE r \in {x} : TRUE) = x
  OBVIOUS
<1> QED
  BY <1>2, <1>7, <1>8

\* One action, two actions, and one list after the other.
LEMMA LeadsOne ==
  ASSUME NEW s, NEW a
  PROVE  Leads(s, <<a>>, ApplyAction(s, a))
<1> DEFINE F == [i \in 0..1 |-> IF i = 0 THEN s ELSE ApplyAction(s, a)]
<1>1. F[0] = s /\ F[1] = ApplyAction(s, a)
  OBVIOUS
<1>2. Len(<<a>>) = 1 /\ <<a>>[1] = a
  OBVIOUS
<1> HIDE DEF F
<1>3. \A i \in 1..Len(<<a>>) : F[i] = ApplyAction(F[i - 1], <<a>>[i])
  BY <1>1, <1>2
<1> QED
  BY <1>1, <1>2, <1>3 DEF Leads

\* Two lists of actions, one after the other.
LEMMA LeadsJoin ==
  ASSUME NEW A, NEW x \in Seq(A), NEW y \in Seq(A), NEW s, NEW t, NEW u,
         Leads(s, x, t), Leads(t, y, u)
  PROVE  Leads(s, x \o y, u)
<1>1. PICK F : /\ F[0] = s /\ F[Len(x)] = t
               /\ \A i \in 1..Len(x) : F[i] = ApplyAction(F[i - 1], x[i])
  BY DEF Leads
<1>2. PICK G : /\ G[0] = t /\ G[Len(y)] = u
               /\ \A i \in 1..Len(y) : G[i] = ApplyAction(G[i - 1], y[i])
  BY DEF Leads
<1> DEFINE z == x \o y
           H == [i \in 0..Len(z) |-> IF i <= Len(x) THEN F[i] ELSE G[i - Len(x)]]
<1>3. /\ Len(x) \in Nat /\ Len(y) \in Nat /\ Len(z) = Len(x) + Len(y)
      /\ \A i \in 1..Len(x) : z[i] = x[i]
      /\ \A i \in 1..Len(y) : z[Len(x) + i] = y[i]
  OBVIOUS
<1> HIDE DEF z
<1>4. /\ \A i \in 0..Len(x) : H[i] = F[i]
      /\ \A i \in 0..Len(y) : H[Len(x) + i] = G[i]
  <2>1. \A i \in 0..Len(x) : H[i] = F[i]
    BY <1>3
  <2>2. ASSUME NEW i \in 0..Len(y) PROVE H[Len(x) + i] = G[i]
    <3>1. Len(x) + i \in 0..Len(z) /\ (Len(x) + i) - Len(x) = i
      BY <1>3
    <3>2. CASE i = 0
      BY <1>1, <1>2, <1>3, <3>1, <3>2
    <3>3. CASE i # 0
      BY <1>3, <3>1, <3>3
    <3> QED
      BY <3>2, <3>3
  <2> QED
    BY <2>1, <2>2
<1> HIDE DEF H
<1>5. H[0] = s /\ H[Len(z)] = u
  BY <1>1, <1>2, <1>3, <1>4
<1>6. ASSUME NEW i \in 1..Len(z) PROVE H[i] = ApplyAction(H[i - 1], z[i])
  <2>1. CASE i \in 1..Len(x)
    <3>1. i \in 0..Len(x) /\ i - 1 \in 0..Len(x)
      BY <1>3, <2>1
    <3>2. H[i] = F[i] /\ H[i - 1] = F[i - 1] /\ z[i] = x[i]
      BY <1>3, <1>4, <2>1, <3>1
    <3>3. F[i] = ApplyAction(F[i - 1], x[i])
      BY <1>1, <2>1, Zenon
    <3> QED
      BY <3>2, <3>3
  <2>2. CASE i \notin 1..Len(x)
    <3> DEFINE j == i - Len(x)
    <3>1. j \in 1..Len(y) /\ j \in 0..Len(y) /\ j - 1 \in 0..Len(y)
          /\ Len(x) + j = i /\ Len(x) + (j - 1) = i - 1
      BY <1>3, <2>2
    <3> HIDE DEF j
    <3>2. H[Len(x) + j] = G[j] /\ H[Len(x) + (j - 1)] = G[j - 1] /\ z[Len(x) + j] = y[j]
      BY <1>3, <1>4, <3>1
    <3>3. G[j] = ApplyAction(G[j - 1], y[j])
      BY <1>2, <3>1, Zenon
    <3> QED
      BY <3>1, <3>2, <3>3
  <2> QED
    BY <2>1, <2>2
<1>7. Leads(s, z, u)
  BY <1>5, <1>6 DEF Leads
<1> QED
  BY <1>7 DEF z

\* Two actions.
LEMMA LeadsTwo ==
  ASSUME NEW s, NEW a, NEW b
  PROVE  Leads(s, <<a, b>>, ApplyAction(ApplyAction(s, a), b))
<1> DEFINE s1 == ApplyAction(s, a)
           s2 == ApplyAction(s1, b)
           F == [i \in 0..2 |-> IF i = 0 THEN s ELSE IF i = 1 THEN s1 ELSE s2]
<1>1. F[0] = s /\ F[1] = s1 /\ F[2] = s2
  OBVIOUS
<1>2. Len(<<a, b>>) = 2 /\ <<a, b>>[1] = a /\ <<a, b>>[2] = b
  OBVIOUS
<1> HIDE DEF F
<1>3. ASSUME NEW i \in 1..Len(<<a, b>>) PROVE F[i] = ApplyAction(F[i - 1], <<a, b>>[i])
  <2>1. i = 1 \/ i = 2
    BY <1>2
  <2>2. CASE i = 1
    BY <1>1, <1>2, <2>2
  <2>3. CASE i = 2
    BY <1>1, <1>2, <2>3
  <2> QED
    BY <2>1, <2>2, <2>3
<1> QED
  BY <1>1, <1>2, <1>3 DEF Leads

\* No action.
LEMMA LeadsNone ==
  ASSUME NEW s
  PROVE  Leads(s, <<>>, s)
<1> DEFINE F == [i \in 0..0 |-> s]
<1>1. F[0] = s /\ Len(<<>>) = 0
  OBVIOUS
<1> HIDE DEF F
<1>2. \A i \in 1..Len(<<>>) : F[i] = ApplyAction(F[i - 1], <<>>[i])
  BY <1>1
<1> QED
  BY <1>1, <1>2 DEF Leads

\* The state of the loop, and what each action makes of it.
Later(m, dirty) == [m |-> m, dirty |-> dirty]

\* What each action does to a machine that has not ended.
LEMMA Acts ==
  ASSUME NEW m, m.state # "Finished", NEW b \in BOOLEAN
  PROVE  /\ \A y : ApplyAction(Later(m, b), AppendEvents(y)) = Later(append_events(m, y), TRUE)
         /\ ApplyAction(Later(m, b), StartLlm) = Later(start_llm_request(m), b)
         /\ \A c : ApplyAction(Later(m, b), StartTools(c)) = Later(start_tool_calls(m, c), b)
         /\ \A c : ApplyAction(Later(m, b), StartExec(c)) = Later(start_exec(m, c), b)
         /\ ApplyAction(Later(m, b), AdvanceProtocolIteration) = Later(Advanced(m), TRUE)
         /\ FinalDue(m) => ApplyAction(Later(m, b), ScheduleTurnLimitFinal) = 
               Later(schedule_turn_limit_final(m), TRUE)
<1> DEFINE s == Later(m, b)
<1>1. s.m = m /\ s.dirty = b
  BY DEF Later
<1>2. ASSUME NEW n PROVE [s EXCEPT !.m = n] = Later(n, b)
  BY DEF Later
<1>3. ASSUME NEW n PROVE [s EXCEPT !.m = n, !.dirty = TRUE] = Later(n, TRUE)
  <2>1. ASSUME NEW v PROVE [s EXCEPT !.m = n, !.dirty = v] = Later(n, v)
    <3> DEFINE x == [s EXCEPT !.m = n, !.dirty = v]
    <3>1. x \in [m: {n}, dirty: {v}]
      BY DEF Later
    <3> HIDE DEF x
    <3>2. x = Later(n, v)
      BY <3>1 DEF Later
    <3> QED
      BY <3>2 DEF x
  <2> QED
    BY <2>1, Zenon
<1> HIDE DEF s
<1>4. ASSUME NEW y PROVE ApplyAction(s, AppendEvents(y)) = Later(append_events(m, y), TRUE)
  BY <1>1, <1>2, <1>3 DEF ApplyAction, AppendEvents
<1>5. ApplyAction(s, StartLlm) = Later(start_llm_request(m), b)
  BY <1>1, <1>2, <1>3 DEF ApplyAction, StartLlm
<1>6. ASSUME NEW c PROVE ApplyAction(s, StartTools(c)) = Later(start_tool_calls(m, c), b)
  BY <1>1, <1>2, <1>3 DEF ApplyAction, StartTools
<1>7. ASSUME NEW c PROVE ApplyAction(s, StartExec(c)) = Later(start_exec(m, c), b)
  BY <1>1, <1>2, <1>3 DEF ApplyAction, StartExec
<1>9. ApplyAction(s, AdvanceProtocolIteration) = Later(Advanced(m), TRUE)
  BY <1>1, <1>2, <1>3 DEF ApplyAction, AdvanceProtocolIteration, Advanced
<1>10. ASSUME FinalDue(m) PROVE ApplyAction(s, ScheduleTurnLimitFinal) = 
               Later(schedule_turn_limit_final(m), TRUE)
  BY <1>1, <1>2, <1>3, <1>10 DEF ApplyAction, ScheduleTurnLimitFinal
<1> QED
  BY <1>4, <1>5, <1>6, <1>7, <1>9, <1>10 DEF s

\* AppendEvents, alone: later proofs cite it by its arguments.
LEMMA ActAppend ==
  ASSUME NEW m, m.state # "Finished", NEW b \in BOOLEAN, NEW y
  PROVE  ApplyAction(Later(m, b), AppendEvents(y)) = Later(append_events(m, y), TRUE)
BY Acts

\* StartCheckpoint.
LEMMA ActCheckpoint ==
  ASSUME NEW m, m.state # "Finished", NEW b \in BOOLEAN, NEW c, NEW o
  PROVE  ApplyAction(Later(m, b), StartCheckpoint(c, o)) =
           Later(request_checkpoint(m, [checkpoint |-> c, on_empty |-> o]), b)
<1> DEFINE s == Later(m, b)
<1>1. s.m = m /\ s.dirty = b
  BY DEF Later
<1>2. ASSUME NEW n PROVE [s EXCEPT !.m = n] = Later(n, b)
  BY DEF Later
<1> HIDE DEF s
<1>3. ApplyAction(s, StartCheckpoint(c, o)) =
        Later(request_checkpoint(m, [checkpoint |-> c, on_empty |-> o]), b)
  BY <1>1, <1>2 DEF ApplyAction, StartCheckpoint
<1> QED
  BY <1>3 DEF s

\* Finish reports what is not reported yet, and ends the turn.
LEMMA ActFinish ==
  ASSUME NEW m, m.state # "Finished", NEW b \in BOOLEAN, NEW o
  PROVE  ApplyAction(Later(m, b), Finish(o)) =
           Later(finish(IF b THEN emit_progress(m) ELSE m, o), FALSE)
<1> DEFINE s == Later(m, b)
<1>1. s.m = m /\ s.dirty = b
  BY DEF Later
<1> HIDE DEF s
<1>2. ApplyAction(s, Finish(o)) = Later(finish(IF b THEN emit_progress(m) ELSE m, o), FALSE)
  BY <1>1 DEF ApplyAction, Finish, Later
<1> QED
  BY <1>2 DEF s

\* What was said so far can be resumed, and everything delivered was asked about.
Conversed(m, asked) ==
  /\ ResumeSafe(m.messages)
  /\ Count(m.messages, "delivered") = Count(asked, "delivered")

Quiet(pr) == EventsOf(pr) \ (ToolKinds \cup {"delivered"})

\* The steps before the last of an action list.
LEMMA QuietEvents ==
  ASSUME NEW pr, NEW m, NEW draft, NEW asked, Open(m, pr, draft), Conversed(m, asked),
         NEW y \in Seq(Quiet(pr))
  PROVE  LET n == append_events(m, y)
         IN  /\ Open(n, pr, draft) /\ Conversed(n, asked) /\ SameWait(m, n)
             /\ n.iteration = m.iteration /\ n.final_scheduled = m.final_scheduled
<1> DEFINE n == append_events(m, y)
           x == Among(y, MessageKinds)
<1>1. pr \in Protocols /\ m \in Machines(pr) /\ m.messages \in Seq(MessagesOf(pr)) /\ m.state # "Finished"
  BY DEF Open, Machines
<1>2. y \in Seq(EventsOf(pr))
  BY DEF Quiet
<1>3. /\ n \in Machines(pr)
      /\ n.events = m.events \o y /\ n.messages = m.messages \o x
      /\ n.iteration = m.iteration /\ n.final_scheduled = m.final_scheduled
      /\ SameWait(m, n) /\ SameQueue(m, n)
  BY <1>1, <1>2, AppendEventsTo
<1>4. x \in Seq(Quiet(pr) \cap MessageKinds)
  BY AmongSeq
<1> HIDE DEF n, x
<1>5. Open(n, pr, draft)
  BY <1>1, <1>2, <1>3, OpenGrows DEF SameWait
<1>6. x \in Seq(MessageKinds \ ToolKinds) /\ x \in Seq(MessageKinds)
      /\ x \in Seq(Quiet(pr)) /\ m.messages \in Seq(MessageKinds)
  BY <1>1, <1>4 DEF Quiet, MessagesOf
<1>7. ResumeSafe(n.messages)
  BY <1>3, <1>6, SafeConcat DEF Conversed
<1>8. Count(x, "delivered") = 0
  <2>1. "delivered" \notin Quiet(pr)
    BY DEF Quiet
  <2> QED
    BY <1>6, <2>1, CountNone
<1>9. /\ Count(m.messages, "delivered") \in Nat
      /\ Count(m.messages \o x, "delivered") = Count(m.messages, "delivered") + Count(x, "delivered")
  BY <1>6, CountConcat
<1>10. Count(n.messages, "delivered") = Count(asked, "delivered")
  BY <1>3, <1>8, <1>9 DEF Conversed
<1> QED
  BY <1>3, <1>5, <1>7, <1>10 DEF Conversed, n

\* The next iteration changes nothing that the messages must satisfy.
LEMMA QuietAdvance ==
  ASSUME NEW pr, NEW m, NEW draft, NEW asked, Open(m, pr, draft), Conversed(m, asked)
  PROVE  LET n == Advanced(m)
         IN  /\ Open(n, pr, draft) /\ Conversed(n, asked) /\ SameWait(m, n)
             /\ n.iteration = m.iteration + 1 /\ n.final_scheduled = m.final_scheduled
<1> DEFINE n == Advanced(m)
<1>1. m \in Machines(pr) /\ m.state # "Finished"
  BY DEF Open
<1>2. /\ n \in Machines(pr) /\ n.iteration = m.iteration + 1
      /\ n.final_scheduled = m.final_scheduled /\ n.messages = m.messages
      /\ n.events = m.events /\ SameWait(m, n) /\ SameQueue(m, n)
  BY <1>1, AdvanceTo
<1> HIDE DEF n
<1>3. Open(n, pr, draft)
  BY <1>1, <1>2, OpenSame DEF SameWait
<1> QED
  BY <1>2, <1>3 DEF Conversed, n

\* Nor does the message of the turn limit.
LEMMA QuietLimit ==
  ASSUME NEW pr, NEW m, NEW draft, NEW asked, Open(m, pr, draft), Conversed(m, asked)
  PROVE  LET n == schedule_turn_limit_final(m)
         IN  /\ Open(n, pr, draft) /\ Conversed(n, asked) /\ SameWait(m, n)
             /\ n.iteration = m.iteration /\ n.final_scheduled = TRUE
<1> DEFINE n == schedule_turn_limit_final(m)
<1>1. m \in Machines(pr) /\ m.state # "Finished" /\ m.messages \in Seq(MessagesOf(pr))
  BY DEF Open, Machines
<1>2. /\ n \in Machines(pr) /\ n.final_scheduled = TRUE
      /\ n.messages = Append(m.messages, "turn_limit")
      /\ n.iteration = m.iteration /\ n.events = m.events
      /\ SameWait(m, n) /\ SameQueue(m, n)
  BY <1>1, ScheduleFinal
<1> HIDE DEF n
<1>3. Open(n, pr, draft)
  BY <1>1, <1>2, OpenSame DEF SameWait
<1>4. "turn_limit" \in MessagesOf(pr) /\ "turn_limit" \notin ToolKinds
  BY DEF MessagesOf, MessageKinds, ToolKinds
<1>5. ResumeSafe(n.messages)
  BY <1>1, <1>2, <1>4, SafeAppend DEF Conversed
<1>6. /\ Count(m.messages, "delivered") \in Nat
      /\ Count(n.messages, "delivered") = Count(m.messages, "delivered") + 0
  BY <1>1, <1>2, <1>4, CountAppend
<1> QED
  BY <1>2, <1>3, <1>5, <1>6 DEF Conversed, n

\* The last step of an action list, unless it ends the turn: a question.
LEMMA AskedSound ==
  ASSUME NEW pr, NEW m, NEW low \in Nat, NEW draft, NEW asked, NEW requests,
         NEW type \in QuestionTypes \ {"Checkpoint"}, NEW arg,
         Open(m, pr, draft), low <= m.next_effect_id, Limited(m),
         [type |-> type, id |-> m.next_effect_id, arg |-> arg] \in Questions(pr),
         type = "LlmCall" => arg.messages = m.messages,
         IF type = "ToolCalls" THEN SafeButLast(m.messages) ELSE ResumeSafe(m.messages),
         IF type \in {"ToolCalls", "ExecCode"}
         THEN requests = m.iteration + 1 /\ Count(m.messages, "delivered") = Count(asked, "delivered")
         ELSE requests = m.iteration
  PROVE  LET n == Ask(m, WaitState[type], type, arg)
         IN  Sound(n, pr, low, draft, asked, requests) /\ n.state # "Finished"
<1> DEFINE n == Ask(m, WaitState[type], type, arg)
           e == [type |-> type, id |-> m.next_effect_id, arg |-> arg]
<1>1. m \in Machines(pr) /\ type \in QuestionTypes /\ m.iteration \in Nat
  BY DEF Open, Machines
<1>2. /\ n \in Machines(pr) /\ n.pending = Append(m.pending, e)
      /\ n.cursor = m.cursor /\ n.state = WaitState[type]
      /\ n.effect_id = m.next_effect_id /\ n.next_effect_id = m.next_effect_id + 1
      /\ SameTurn(m, n)
  BY <1>1, AskQuestion
<1>3. e \in Questions(pr) /\ e \in Effects(pr) /\ e.type = type /\ e.id = m.next_effect_id /\ e.arg = arg
  BY DEF Effects
<1> HIDE DEF n, e
<1>4. Awaited(n, low, e)
  BY <1>2, <1>3 DEF Awaited, SameTurn
<1>5. /\ n.state \notin {"Finished", "WaitingCheckpoint"}
      /\ n.state = "WaitingTools" <=> type = "ToolCalls"
      /\ AfterModel(n) <=> type \in {"ToolCalls", "ExecCode"}
  BY <1>2 DEF WaitState, QuestionTypes, AfterModel
<1>6. Limited(n)
  BY <1>2 DEF Limited, SameTurn
<1>7. Counted(n, asked, requests)
  BY <1>1, <1>2, <1>5, <1>6 DEF Counted, SameTurn
<1>8. n.events = m.events
  BY <1>2 DEF SameTurn
<1>9. Sound(n, pr, low, draft, asked, requests)
  BY <1>2, <1>3, <1>4, <1>7, <1>8, AskSound
<1> QED
  BY <1>5, <1>9 DEF n

\* The same for a checkpoint after work, and for one before completion.
LEMMA CheckpointSound ==
  ASSUME NEW pr, NEW m, NEW low \in Nat, NEW draft, NEW asked, NEW requests,
         NEW checkpoint \in {"after_work", "before_completion"}, NEW on_empty,
         Open(m, pr, draft), low <= m.next_effect_id, Limited(m), ResumeSafe(m.messages),
         IF checkpoint = "after_work"
         THEN on_empty = "prepare" /\ requests = m.iteration
         ELSE /\ on_empty \in Outcomes /\ requests = m.iteration + 1
              /\ Count(m.messages, "delivered") = Count(asked, "delivered")
  PROVE  LET n == request_checkpoint(m, [checkpoint |-> checkpoint, on_empty |-> on_empty])
         IN  Sound(n, pr, low, draft, asked, requests) /\ n.state # "Finished"
<1> DEFINE c == [checkpoint |-> checkpoint, on_empty |-> on_empty]
           a == Ask(m, WaitState["Checkpoint"], "Checkpoint", checkpoint)
           n == request_checkpoint(m, c)
           e == [type |-> "Checkpoint", id |-> m.next_effect_id, arg |-> checkpoint]
<1>1. m \in Machines(pr) /\ m.iteration \in Nat /\ m.next_effect_id \in Nat
      /\ "Checkpoint" \in QuestionTypes /\ WaitState["Checkpoint"] = "WaitingCheckpoint"
  BY DEF Open, Machines, QuestionTypes, WaitState
<1>2. e \in Questions(pr) /\ e \in Effects(pr)
  <2>1. e \in Question("Checkpoint", {"after_work", "before_completion"})
    BY <1>1 DEF Question
  <2> HIDE DEF e
  <2> QED
    BY <2>1 DEF Questions, Effects
<1>3. /\ a \in Machines(pr) /\ a.pending = Append(m.pending, e)
      /\ a.cursor = m.cursor /\ a.state = "WaitingCheckpoint"
      /\ a.effect_id = m.next_effect_id /\ a.next_effect_id = m.next_effect_id + 1
      /\ SameTurn(m, a)
  BY <1>1, <1>2, AskQuestion
<1>4. n = [a EXCEPT !.checkpoint = checkpoint, !.on_empty = on_empty]
  BY <1>1 DEF request_checkpoint
<1>5. e.type = "Checkpoint" /\ e.id = m.next_effect_id /\ e.arg = checkpoint
  OBVIOUS
<1> HIDE DEF a, n, e
<1>6. checkpoint \in {"none", "after_work", "before_completion"}
      /\ on_empty \in Outcomes \cup {"none", "prepare"}
  OBVIOUS
<1>7. n \in Machines(pr)
  BY <1>3, <1>4, <1>6 DEF Machines
<1>8. /\ n.pending = Append(m.pending, e) /\ n.cursor = m.cursor /\ n.state = "WaitingCheckpoint"
      /\ n.effect_id = m.next_effect_id /\ n.next_effect_id = m.next_effect_id + 1
      /\ n.checkpoint = checkpoint /\ n.on_empty = on_empty /\ SameTurn(m, n)
  BY <1>3, <1>4 DEF Machines, SameTurn
<1>9. Awaited(n, low, e)
  BY <1>1, <1>5, <1>8 DEF Awaited
<1>10. Limited(n) /\ n.events = m.events /\ n.messages = m.messages /\ n.iteration = m.iteration
  BY <1>8 DEF Limited, SameTurn
<1>11. AfterModel(n) <=> checkpoint = "before_completion"
  BY <1>8 DEF AfterModel
<1>12. Counted(n, asked, requests)
  BY <1>1, <1>8, <1>10, <1>11 DEF Counted
<1>13. Sound(n, pr, low, draft, asked, requests)
  BY <1>2, <1>7, <1>8, <1>9, <1>10, <1>12, AskSound
<1> QED
  BY <1>8, <1>13 DEF n, c

\* The report at the end of an action list changes nothing of this.
LEMMA FlushSound ==
  ASSUME NEW pr, NEW m, NEW low, NEW draft, NEW asked, NEW requests, NEW b \in BOOLEAN,
         Sound(m, pr, low, draft, asked, requests), b => m.state # "Finished"
  PROVE  Sound(Flush(Later(m, b)), pr, low, draft, asked, requests)
<1>1. Later(m, b).m = m /\ Later(m, b).dirty = b
  BY DEF Later
<1>2. CASE b
  <2>1. Flush(Later(m, b)) = emit_progress(m)
    BY <1>1, <1>2 DEF Flush
  <2> QED
    BY <1>2, <2>1, EmitSound
<1>3. CASE ~b
  <2>1. Flush(Later(m, b)) = m
    BY <1>1, <1>3 DEF Flush
  <2> QED
    BY <2>1
<1> QED
  BY <1>2, <1>3

\* The end of a turn after the last report.
LEMMA FinishLast ==
  ASSUME NEW pr, NEW m, NEW low, NEW draft, NEW asked, NEW requests, NEW b \in BOOLEAN,
         NEW outcome \in Outcomes, Open(m, pr, draft), low <= m.next_effect_id,
         requests <= Top + 1, ResumeSafe(m.messages),
         outcome \in Answered => Count(m.messages, "delivered") = Count(asked, "delivered")
  PROVE  LET n == finish(IF b THEN emit_progress(m) ELSE m, outcome)
         IN  Sound(Flush(Later(n, FALSE)), pr, low, draft, asked, requests)
<1> DEFINE k == IF b THEN emit_progress(m) ELSE m
<1>1. Open(k, pr, draft) /\ k.next_effect_id = m.next_effect_id /\ k.messages = m.messages
  <2>1. CASE b
    <3>1. Open(emit_progress(m), pr, draft)
      BY OpenEmit
    <3>2. SameTurn(m, emit_progress(m)) /\ SameWait(m, emit_progress(m))
      BY EmitProgress DEF Open
    <3> QED
      BY <2>1, <3>1, <3>2 DEF SameTurn, SameWait
  <2>2. CASE ~b
    BY <2>2
  <2> QED
    BY <2>1, <2>2
<1> HIDE DEF k
<1>2. Sound(finish(k, outcome), pr, low, draft, asked, requests)
  BY <1>1, FinishSound
<1>3. Sound(Flush(Later(finish(k, outcome), FALSE)), pr, low, draft, asked, requests)
  BY <1>2, FlushSound
<1> QED
  BY <1>3 DEF k

-----------------------------------------------------------------------------
(* The answers of the drivers. *)

ActionsOf(pr) ==
  {AppendEvents(y) : y \in Seq(EventsOf(pr))}
    \cup {StartLlm, AdvanceProtocolIteration, ScheduleTurnLimitFinal}
    \cup {StartTools(c) : c \in Batches} \cup {StartExec("cell")}
    \cup {StartCheckpoint(c, o) : c \in {"after_work", "before_completion"},
                                  o \in Outcomes \cup {"prepare"}}
    \cup {Finish(o) : o \in Outcomes}

\* continue_or_stop_after_nonterminal goes on while the limit allows it, with one
\* more call after the last iteration.
LEMMA ContinueSound ==
  ASSUME NEW pr \in {"rlm", "rlm_finish"}, NEW m, NEW m0, NEW low \in Nat, NEW draft, NEW asked,
         NEW requests, NEW b \in BOOLEAN, NEW durable \in Seq(Quiet(pr)), NEW retry \in Seq(Quiet(pr)),
         Open(m, pr, draft), Conversed(m, asked), Limited(m), low <= m.next_effect_id,
         m0.protocol = pr, m0.iteration = m.iteration, m0.final_scheduled = m.final_scheduled,
         requests = m.iteration + 1
  PROVE  LET c == ContinueOrStop(m0, durable, retry)
         IN  /\ c \in Seq(ActionsOf(pr))
             /\ \E t : Leads(Later(m, b), c, t) /\ Sound(Flush(t), pr, low, draft, asked, requests)
<1> DEFINE A == ActionsOf(pr)
           D == IF durable = <<>> THEN <<>> ELSE <<AppendEvents(durable)>>
           V == <<AdvanceProtocolIteration>>
           W == <<AfterWork>>
           E == <<Finish("max_turns")>>
           R == IF ReachesLimit(m0) THEN <<ScheduleTurnLimitFinal>>
                ELSE IF retry = <<>> THEN <<>> ELSE <<AppendEvents(retry)>>
           stop == m0.final_scheduled \/ (ReachesLimit(m0) /\ m0.protocol = "rlm_finish")
           m1 == IF durable = <<>> THEN m ELSE append_events(m, durable)
           b1 == IF durable = <<>> THEN b ELSE TRUE
           m2 == Advanced(m1)
           m3 == IF ReachesLimit(m0) THEN schedule_turn_limit_final(m2)
                 ELSE IF retry = <<>> THEN m2 ELSE append_events(m2, retry)
<1>0. ContinueOrStop(m0, durable, retry) = (D \o V) \o (IF stop THEN E ELSE R \o W)
  BY DEF ContinueOrStop
<1>1. /\ "max_turns" \in Outcomes /\ "max_turns" \notin Answered
      /\ m.iteration \in Nat /\ MaxTurns \in Nat /\ m.next_effect_id \in Nat
  BY TurnAssumption DEF Outcomes, Answered, Open, Machines
<1>2. D \in Seq(A) /\ V \in Seq(A) /\ W \in Seq(A) /\ E \in Seq(A) /\ R \in Seq(A)
  <2>1. durable \in Seq(EventsOf(pr)) /\ retry \in Seq(EventsOf(pr))
    BY DEF Quiet
  <2>2. AppendEvents(durable) \in A /\ AppendEvents(retry) \in A
    BY <2>1 DEF ActionsOf
  <2>3. AdvanceProtocolIteration \in A /\ ScheduleTurnLimitFinal \in A
    BY DEF ActionsOf
  <2>4. Finish("max_turns") \in A
    BY <1>1 DEF ActionsOf
  <2>5. AfterWork \in A
    BY DEF ActionsOf, AfterWork
  <2> HIDE DEF A
  <2> QED
    BY <2>2, <2>3, <2>4, <2>5
<1>3. Leads(Later(m, b), D, Later(m1, b1))
  <2>1. CASE durable = <<>>
    BY <2>1, LeadsNone
  <2>2. CASE durable # <<>>
    <3>1. m.state # "Finished"
      BY DEF Open
    <3>4. ApplyAction(Later(m, b), AppendEvents(durable)) = Later(append_events(m, durable), TRUE)
      BY <3>1, ActAppend
    <3>5. m1 = append_events(m, durable) /\ b1 = TRUE
      BY <2>2
    <3>2. ApplyAction(Later(m, b), AppendEvents(durable)) = Later(m1, b1)
      BY <3>4, <3>5
    <3>3. D = <<AppendEvents(durable)>>
      BY <2>2
    <3> QED
      BY <3>2, <3>3, LeadsOne
  <2> QED
    BY <2>1, <2>2
<1>4. /\ Open(m1, pr, draft) /\ Conversed(m1, asked) /\ SameWait(m, m1)
      /\ m1.iteration = m.iteration /\ m1.final_scheduled = m.final_scheduled
      /\ b1 \in BOOLEAN
  <2>1. CASE durable = <<>>
    BY <2>1 DEF SameWait
  <2>2. CASE durable # <<>>
    BY <2>2, QuietEvents
  <2> QED
    BY <2>1, <2>2
<1> HIDE DEF m1, b1, D
<1>5. Leads(Later(m1, b1), V, Later(m2, TRUE))
  <2>1. m1.state # "Finished"
    BY <1>4 DEF Open
  <2>2. ApplyAction(Later(m1, b1), AdvanceProtocolIteration) = Later(m2, TRUE)
    BY <1>4, <2>1, Acts
  <2> QED
    BY <2>2, LeadsOne
<1>6. /\ Open(m2, pr, draft) /\ Conversed(m2, asked) /\ SameWait(m1, m2)
      /\ m2.iteration = m.iteration + 1 /\ m2.final_scheduled = m.final_scheduled
      /\ m2.next_effect_id = m.next_effect_id /\ m2.state # "Finished"
  <2>1. /\ Open(m2, pr, draft) /\ Conversed(m2, asked) /\ SameWait(m1, m2)
        /\ m2.iteration = m1.iteration + 1 /\ m2.final_scheduled = m1.final_scheduled
    BY <1>4, QuietAdvance
  <2> QED
    BY <1>4, <2>1 DEF SameWait, Open
<1> HIDE DEF m2, V
<1>7. Leads(Later(m, b), D \o V, Later(m2, TRUE))
  <2> HIDE DEF A
  <2> QED
    BY <1>2, <1>3, <1>5, LeadsJoin
<1>8. D \o V \in Seq(A)
  <2> HIDE DEF A
  <2> QED
    BY <1>2
<1>9. CASE stop
  <2> DEFINE n == finish(IF TRUE THEN emit_progress(m2) ELSE m2, "max_turns")
  <2>1. ApplyAction(Later(m2, TRUE), Finish("max_turns")) = Later(n, FALSE)
    BY <1>6, ActFinish
  <2>2. Leads(Later(m2, TRUE), E, Later(n, FALSE))
    BY <2>1, LeadsOne
  <2>3. requests <= Top + 1
    BY <1>1 DEF Limited, Top
  <2>4. Sound(Flush(Later(n, FALSE)), pr, low, draft, asked, requests)
    BY <1>1, <1>6, <2>3, FinishLast DEF Conversed
  <2> HIDE DEF A, n, E
  <2>5. Leads(Later(m, b), (D \o V) \o E, Later(n, FALSE))
    BY <1>2, <1>7, <1>8, <2>2, LeadsJoin
  <2>6. ContinueOrStop(m0, durable, retry) = (D \o V) \o E
    BY <1>0, <1>9
  <2>7. (D \o V) \o E \in Seq(A)
    BY <1>2, <1>8
  <2> QED
    BY <2>4, <2>5, <2>6, <2>7 DEF A
<1>10. CASE ~stop
  <2>1. ~m.final_scheduled
    BY <1>10
  <2>2. /\ Leads(Later(m2, TRUE), R, Later(m3, TRUE))
        /\ Open(m3, pr, draft) /\ Conversed(m3, asked) /\ SameWait(m2, m3)
        /\ m3.iteration = m2.iteration /\ Limited(m3)
    <3>1. CASE ReachesLimit(m0)
      <4>1. FinalDue(m2)
        BY <1>6, <2>1, <3>1 DEF FinalDue, ReachesLimit
      <4>2. ApplyAction(Later(m2, TRUE), ScheduleTurnLimitFinal) = Later(m3, TRUE)
        BY <1>6, <3>1, <4>1, Acts
      <4>3. Leads(Later(m2, TRUE), R, Later(m3, TRUE))
        BY <3>1, <4>2, LeadsOne
      <4>4. /\ Open(m3, pr, draft) /\ Conversed(m3, asked) /\ SameWait(m2, m3)
            /\ m3.iteration = m2.iteration /\ m3.final_scheduled = TRUE
        BY <1>6, <3>1, QuietLimit
      <4>5. MaxTurns <= m3.iteration /\ m3.iteration <= Top
        BY <1>1, <1>6, <2>1, <3>1, <4>4 DEF Limited, ReachesLimit, Top
      <4>6. Limited(m3)
        BY <4>4, <4>5 DEF Limited
      <4> QED
        BY <4>3, <4>4, <4>6
    <3>2. CASE ~ReachesLimit(m0)
      <4>1. m.iteration + 1 < Top
        BY <1>1, <3>2 DEF Top, ReachesLimit
      <4>2. CASE retry = <<>>
        <5>1. Leads(Later(m2, TRUE), R, Later(m3, TRUE))
          BY <3>2, <4>2, LeadsNone
        <5>2. Limited(m2)
          BY <1>6, <2>1, <4>1 DEF Limited
        <5> QED
          BY <1>6, <3>2, <4>2, <5>1, <5>2 DEF SameWait
      <4>3. CASE retry # <<>>
        <5>1. ApplyAction(Later(m2, TRUE), AppendEvents(retry)) = Later(m3, TRUE)
          BY <1>6, <3>2, <4>3, Acts
        <5>2. R = <<AppendEvents(retry)>>
          BY <3>2, <4>3
        <5>3. Leads(Later(m2, TRUE), R, Later(m3, TRUE))
          BY <5>1, <5>2, LeadsOne
        <5>4. /\ Open(m3, pr, draft) /\ Conversed(m3, asked) /\ SameWait(m2, m3)
              /\ m3.iteration = m2.iteration /\ m3.final_scheduled = m2.final_scheduled
          BY <1>6, <3>2, <4>3, QuietEvents
        <5>5. Limited(m3)
          BY <1>6, <2>1, <4>1, <5>4 DEF Limited
        <5> QED
          BY <5>3, <5>4, <5>5
      <4> QED
        BY <4>2, <4>3
    <3> QED
      BY <3>1, <3>2
  <2> HIDE DEF m3, R, A
  <2> DEFINE n == request_checkpoint(m3, [checkpoint |-> "after_work", on_empty |-> "prepare"])
  <2>3. m3.state # "Finished" /\ low <= m3.next_effect_id /\ requests = m3.iteration
    BY <1>6, <2>2 DEF SameWait
  <2>4. ApplyAction(Later(m3, TRUE), AfterWork) = Later(n, TRUE)
    BY <2>3, ActCheckpoint DEF AfterWork
  <2>5. Leads(Later(m3, TRUE), W, Later(n, TRUE))
    BY <2>4, LeadsOne
  <2>6. Sound(n, pr, low, draft, asked, requests) /\ n.state # "Finished"
    BY <2>2, <2>3, CheckpointSound DEF Conversed
  <2> HIDE DEF n, W
  <2>7. Sound(Flush(Later(n, TRUE)), pr, low, draft, asked, requests)
    BY <2>6, FlushSound
  <2>8. Leads(Later(m2, TRUE), R \o W, Later(n, TRUE)) /\ R \o W \in Seq(A)
    <3>1. R \o W \in Seq(A)
      BY <1>2
    <3>2. Leads(Later(m2, TRUE), R \o W, Later(n, TRUE))
      BY <1>2, <2>2, <2>5, LeadsJoin
    <3> QED
      BY <3>1, <3>2
  <2>9. Leads(Later(m, b), (D \o V) \o (R \o W), Later(n, TRUE))
    BY <1>7, <1>8, <2>8, LeadsJoin
  <2>10. ContinueOrStop(m0, durable, retry) = (D \o V) \o (R \o W)
    BY <1>0, <1>10
  <2>11. (D \o V) \o (R \o W) \in Seq(A)
    BY <1>8, <2>8
  <2> QED
    BY <2>7, <2>9, <2>10, <2>11 DEF A
<1> QED
  BY <1>9, <1>10

\* One element that is selected.
LEMMA AmongOne ==
  ASSUME NEW x, NEW T, x \in T
  PROVE  Among(<<x>>, T) = <<x>>
<1>1. <<>> \in Seq({x}) /\ Append(<<>>, x) = <<x>> /\ x \in {x}
  OBVIOUS
<1>0. Among(Append(<<>>, x), T) =
        IF x \in T THEN Append(Among(<<>>, T), x) ELSE Among(<<>>, T)
  <2> DEFINE S == {x}
             e == <<>>
  <2>1. e \in Seq(S) /\ x \in S
    BY <1>1
  <2> HIDE DEF S, e
  <2>2. Among(Append(e, x), T) = IF x \in T THEN Append(Among(e, T), x) ELSE Among(e, T)
    BY <2>1, AmongAppend
  <2> QED
    BY <2>2 DEF e
<1>2. Among(Append(<<>>, x), T) = Append(Among(<<>>, T), x)
  BY <1>0
<1>3. Among(<<>>, T) = <<>>
  BY AmongEmpty
<1> QED
  BY <1>1, <1>2, <1>3

\* The loop starts clean.
LEMMA LeadSound ==
  ASSUME NEW pr, NEW m, NEW low, NEW draft, NEW asked, NEW requests,
         NEW actions \in Seq(ActionsOf(pr)), NEW t, Leads(Later(m, FALSE), actions, t),
         Sound(Flush(t), pr, low, draft, asked, requests)
  PROVE  Sound(apply_actions(m, actions), pr, low, draft, asked, requests)
<1>1. Start(m) = Later(m, FALSE)
  BY DEF Start, Later
<1>2. apply_actions(m, actions) = Flush(t)
  BY <1>1, ActionsLead
<1> QED
  BY <1>2

\* One action that asks for a checkpoint, or ends the turn.
LEMMA OnlyCheckpoint ==
  ASSUME NEW pr, NEW m, NEW low \in Nat, NEW draft, NEW asked, NEW requests, NEW o \in Outcomes,
         Open(m, pr, draft), low <= m.next_effect_id, Limited(m), Conversed(m, asked),
         requests = m.iteration + 1
  PROVE  Sound(apply_actions(m, <<BeforeCompletion(o)>>), pr, low, draft, asked, requests)
<1> DEFINE n == request_checkpoint(m, [checkpoint |-> "before_completion", on_empty |-> o])
<1>1. m.state # "Finished"
  BY DEF Open
<1>2. ApplyAction(Later(m, FALSE), BeforeCompletion(o)) = Later(n, FALSE)
  BY <1>1, ActCheckpoint DEF BeforeCompletion
<1>3. Leads(Later(m, FALSE), <<BeforeCompletion(o)>>, Later(n, FALSE))
  BY <1>2, LeadsOne
<1>4. Sound(n, pr, low, draft, asked, requests)
  BY CheckpointSound DEF Conversed
<1>5. Sound(Flush(Later(n, FALSE)), pr, low, draft, asked, requests)
  BY <1>4, FlushSound
<1>6. <<BeforeCompletion(o)>> \in Seq(ActionsOf(pr))
  <2>1. BeforeCompletion(o) \in ActionsOf(pr)
    BY DEF ActionsOf, BeforeCompletion
  <2> QED
    BY <2>1
<1> HIDE DEF n
<1> QED
  BY <1>3, <1>5, <1>6, LeadSound

\* A list of actions that only ends the turn.
LEMMA OnlyFinish ==
  ASSUME NEW pr, NEW m, NEW low, NEW draft, NEW asked, NEW requests, NEW o \in Outcomes,
         Open(m, pr, draft), low <= m.next_effect_id, Conversed(m, asked), requests <= Top + 1
  PROVE  Sound(apply_actions(m, <<Finish(o)>>), pr, low, draft, asked, requests)
<1> DEFINE n == finish(IF FALSE THEN emit_progress(m) ELSE m, o)
<1>1. m.state # "Finished"
  BY DEF Open
<1>2. ApplyAction(Later(m, FALSE), Finish(o)) = Later(n, FALSE)
  BY <1>1, ActFinish
<1>3. Leads(Later(m, FALSE), <<Finish(o)>>, Later(n, FALSE))
  BY <1>2, LeadsOne
<1>4. Sound(Flush(Later(n, FALSE)), pr, low, draft, asked, requests)
  BY FinishLast DEF Conversed
<1>5. <<Finish(o)>> \in Seq(ActionsOf(pr))
  <2>1. Finish(o) \in ActionsOf(pr)
    BY DEF ActionsOf
  <2> QED
    BY <2>1
<1> HIDE DEF n
<1> QED
  BY <1>3, <1>4, <1>5, LeadSound

\* StandardDriver::handle_llm_success.
LEMMA StandardLlmSound ==
  ASSUME NEW m, NEW low \in Nat, NEW draft, NEW asked, NEW requests, NEW r,
         Open(m, "standard", draft), low <= m.next_effect_id, Limited(m), Conversed(m, asked),
         requests = m.iteration + 1,
         r.kind = "calls" => r.calls \in Batches
  PROVE  Sound(apply_actions(m, StandardLlmSuccess(m, r)), "standard", low, draft, asked, requests)
<1>0. m \in Machines("standard") /\ m.iteration \in Nat /\ m.state # "Finished"
      /\ m.messages \in Seq(MessageKinds) /\ "standard" \in Protocols
  BY DEF Open, Machines, MessagesOf, Protocols
<1>1. CASE r.kind = "calls"
  <2> DEFINE y == <<"tool_calls">>
             c == r.calls
             n == append_events(m, y)
             k == start_tool_calls(n, c)
  <2>0. StandardLlmSuccess(m, r) = <<AppendEvents(y), StartTools(c)>>
    <3>1. (r.kind = "calls") = TRUE
      BY <1>1
    <3> QED
      BY <1>1, <3>1 DEF StandardLlmSuccess
  <2>1. y \in Seq(EventsOf("standard")) /\ Among(y, MessageKinds) = y
    <3>1. "tool_calls" \in MessageKinds /\ EventsOf("standard") = MessageKinds
      BY DEF MessageKinds, EventsOf
    <3> QED
      BY <3>1, AmongOne
  <2>2. /\ n \in Machines("standard")
        /\ n.events = m.events \o y /\ n.messages = m.messages \o y
        /\ n.iteration = m.iteration /\ n.final_scheduled = m.final_scheduled
        /\ SameWait(m, n) /\ SameQueue(m, n)
    BY <1>0, <2>1, AppendEventsTo
  <2>3. ApplyAction(Later(m, FALSE), AppendEvents(y)) = Later(n, TRUE)
    BY <1>0, Acts
  <2>4. n.state # "Finished" /\ n.next_effect_id = m.next_effect_id
    BY <1>0, <2>2 DEF SameWait
  <2> HIDE DEF n, y
  <2>5. ApplyAction(Later(n, TRUE), StartTools(c)) = Later(k, TRUE)
    BY <2>4, Acts
  <2>6. Leads(Later(m, FALSE), <<AppendEvents(y), StartTools(c)>>, Later(k, TRUE))
    BY <2>3, <2>5, LeadsTwo
  <2>7. Open(n, "standard", draft)
    BY <2>1, <2>2, <2>4, OpenGrows DEF SameWait
  <2>8. n.messages = Append(m.messages, "tool_calls") /\ "tool_calls" \in MessageKinds
    BY <1>0, <2>2 DEF y, MessageKinds
  <2>9. SafeButLast(n.messages)
    <3>1. Len(n.messages) = Len(m.messages) + 1 /\ Len(m.messages) \in Nat
          /\ n.messages[Len(n.messages)] = "tool_calls"
          /\ SubSeq(n.messages, 1, Len(n.messages) - 1) = m.messages
      BY <1>0, <2>8
    <3>2. ResumeSafe(SubSeq(n.messages, 1, Len(n.messages) - 1))
      <4>1. ResumeSafe(m.messages)
        BY DEF Conversed
      <4> QED
        BY <3>1, <4>1, Zenon
    <3>3. Len(n.messages) > 0
      BY <3>1
    <3> QED
      BY <3>1, <3>2, <3>3, Zenon DEF SafeButLast
  <2>10. Count(n.messages, "delivered") = Count(asked, "delivered")
    <3>1. /\ Count(m.messages, "delivered") \in Nat
          /\ Count(n.messages, "delivered") = Count(m.messages, "delivered") + 0
      BY <1>0, <2>8, CountAppend
    <3> QED
      BY <3>1 DEF Conversed
  <2>11. [type |-> "ToolCalls", id |-> n.next_effect_id, arg |-> c] \in Questions("standard")
    <3>1. n.next_effect_id \in Nat /\ c \in Batches
      BY <1>1, <2>2 DEF Machines
    <3>2. [type |-> "ToolCalls", id |-> n.next_effect_id, arg |-> c] \in Question("ToolCalls", Batches)
      BY <3>1 DEF Question
    <3> QED
      BY <3>2 DEF Questions
  <2>12. Limited(n) /\ requests = n.iteration + 1 /\ low <= n.next_effect_id
    BY <2>2, <2>4 DEF Limited
  <2>13. k = Ask(n, WaitState["ToolCalls"], "ToolCalls", c)
         /\ "ToolCalls" \in QuestionTypes \ {"Checkpoint"}
    BY DEF start_tool_calls, WaitState, QuestionTypes
  <2>14. Sound(k, "standard", low, draft, asked, requests) /\ k.state # "Finished"
    BY <2>7, <2>9, <2>10, <2>11, <2>12, <2>13, AskedSound
  <2>15. Sound(Flush(Later(k, TRUE)), "standard", low, draft, asked, requests)
    BY <2>14, FlushSound
  <2>16. <<AppendEvents(y), StartTools(c)>> \in Seq(ActionsOf("standard"))
    <3>1. AppendEvents(y) \in ActionsOf("standard") /\ StartTools(c) \in ActionsOf("standard")
      BY <1>1, <2>1 DEF ActionsOf
    <3> QED
      BY <3>1
  <2> HIDE DEF k, c
  <2> QED
    BY <2>6, <2>15, <2>16, <2>0, LeadSound
<1>2. CASE r.kind # "calls" /\ (r.kind = "text" \/ LastIsToolResult(m))
  <2>1. StandardLlmSuccess(m, r) = <<BeforeCompletion("answer")>> /\ "answer" \in Outcomes
    BY <1>2 DEF StandardLlmSuccess, Outcomes
  <2> QED
    BY <2>1, OnlyCheckpoint
<1>3. CASE r.kind # "calls" /\ ~(r.kind = "text" \/ LastIsToolResult(m))
  <2>1. StandardLlmSuccess(m, r) = <<Finish("provider_error")>> /\ "provider_error" \in Outcomes
    BY <1>3 DEF StandardLlmSuccess, Outcomes
  <2>2. requests <= Top + 1
    BY <1>0, TurnAssumption DEF Limited, Top
  <2> QED
    BY <2>1, <2>2, OnlyFinish
<1> QED
  BY <1>1, <1>2, <1>3


\* What the RLM driver appends before it goes on.
LEMMA DiagnosedFirst ==
  ASSUME NEW pr \in {"rlm", "rlm_finish"}, NEW m, NEW draft, NEW asked, NEW y \in Seq(Quiet(pr)),
         NEW rest \in Seq(ActionsOf(pr)), NEW low, NEW requests, NEW t,
         Open(m, pr, draft), Conversed(m, asked),
         Leads(Later(append_events(m, y), TRUE), rest, t),
         Sound(Flush(t), pr, low, draft, asked, requests)
  PROVE  Sound(apply_actions(m, <<AppendEvents(y)>> \o rest), pr, low, draft, asked, requests)
<1> DEFINE n == append_events(m, y)
           a == <<AppendEvents(y)>>
<1>1. m.state # "Finished"
  BY DEF Open
<1>2. ApplyAction(Later(m, FALSE), AppendEvents(y)) = Later(n, TRUE)
  BY <1>1, ActAppend
<1>3. Leads(Later(m, FALSE), a, Later(n, TRUE))
  BY <1>2, LeadsOne
<1>4. a \in Seq(ActionsOf(pr))
  <2>1. y \in Seq(EventsOf(pr))
    BY DEF Quiet
  <2>2. AppendEvents(y) \in ActionsOf(pr)
    BY <2>1 DEF ActionsOf
  <2> QED
    BY <2>2
<1> HIDE DEF a, n
<1>5. Leads(Later(m, FALSE), a \o rest, t)
  <2>1. Leads(Later(n, TRUE), rest, t)
    BY DEF n
  <2> QED
    BY <1>3, <1>4, <2>1, LeadsJoin
<1>6. a \o rest \in Seq(ActionsOf(pr))
  BY <1>4
<1>7. Sound(apply_actions(m, a \o rest), pr, low, draft, asked, requests)
  BY <1>5, <1>6, LeadSound
<1> QED
  BY <1>7 DEF a

\* One question after it.
LEMMA DiagnosedCheckpoint ==
  ASSUME NEW pr \in {"rlm", "rlm_finish"}, NEW m, NEW low \in Nat, NEW draft, NEW asked, NEW requests,
         NEW y \in Seq(Quiet(pr)), NEW o \in Outcomes,
         Open(m, pr, draft), low <= m.next_effect_id, Limited(m), Conversed(m, asked),
         requests = m.iteration + 1
  PROVE  /\ Sound(apply_actions(m, <<AppendEvents(y)>> \o <<BeforeCompletion(o)>>),
                  pr, low, draft, asked, requests)
         /\ Sound(apply_actions(m, <<AppendEvents(y), BeforeCompletion(o)>>),
                  pr, low, draft, asked, requests)
<1> DEFINE n == append_events(m, y)
           k == request_checkpoint(n, [checkpoint |-> "before_completion", on_empty |-> o])
<1>1. /\ Open(n, pr, draft) /\ Conversed(n, asked) /\ SameWait(m, n)
      /\ n.iteration = m.iteration /\ n.final_scheduled = m.final_scheduled
  BY QuietEvents
<1> HIDE DEF n
<1>2. n.state # "Finished" /\ low <= n.next_effect_id /\ Limited(n) /\ requests = n.iteration + 1
  BY <1>1 DEF Open, SameWait, Limited
<1>3. ApplyAction(Later(n, TRUE), BeforeCompletion(o)) = Later(k, TRUE)
  BY <1>2, ActCheckpoint DEF BeforeCompletion
<1>4. Leads(Later(n, TRUE), <<BeforeCompletion(o)>>, Later(k, TRUE))
  BY <1>3, LeadsOne
<1>8. ApplyAction(Later(m, FALSE), AppendEvents(y)) = Later(n, TRUE)
  <2>1. m.state # "Finished"
    BY DEF Open
  <2> QED
    BY <2>1, ActAppend DEF n
<1>9. Leads(Later(m, FALSE), <<AppendEvents(y), BeforeCompletion(o)>>, Later(k, TRUE))
  BY <1>3, <1>8, LeadsTwo
<1>5. Sound(k, pr, low, draft, asked, requests) /\ k.state # "Finished"
  BY <1>1, <1>2, CheckpointSound DEF Conversed
<1>6. Sound(Flush(Later(k, TRUE)), pr, low, draft, asked, requests)
  BY <1>5, FlushSound
<1>7. <<BeforeCompletion(o)>> \in Seq(ActionsOf(pr))
  <2>1. BeforeCompletion(o) \in ActionsOf(pr)
    BY DEF ActionsOf, BeforeCompletion
  <2> QED
    BY <2>1
<1>10. <<AppendEvents(y), BeforeCompletion(o)>> \in Seq(ActionsOf(pr))
  <2>1. y \in Seq(EventsOf(pr))
    BY DEF Quiet
  <2>2. AppendEvents(y) \in ActionsOf(pr) /\ BeforeCompletion(o) \in ActionsOf(pr)
    BY <2>1 DEF ActionsOf, BeforeCompletion
  <2> QED
    BY <2>2
<1> HIDE DEF k
<1>11. Sound(apply_actions(m, <<AppendEvents(y), BeforeCompletion(o)>>), pr, low, draft, asked, requests)
  BY <1>6, <1>9, <1>10, LeadSound
<1>12. Sound(apply_actions(m, <<AppendEvents(y)>> \o <<BeforeCompletion(o)>>), pr, low, draft, asked, requests)
  BY <1>4, <1>6, <1>7, DiagnosedFirst DEF n
<1> QED
  BY <1>11, <1>12

\* A diagnostic, and then another iteration or the end at the limit.
LEMMA DiagnosedContinue ==
  ASSUME NEW pr \in {"rlm", "rlm_finish"}, NEW m, NEW low \in Nat, NEW draft, NEW asked, NEW requests,
         NEW y \in Seq(Quiet(pr)), NEW retry \in Seq(Quiet(pr)),
         Open(m, pr, draft), low <= m.next_effect_id, Limited(m), Conversed(m, asked),
         requests = m.iteration + 1
  PROVE  Sound(apply_actions(m, <<AppendEvents(y)>> \o ContinueOrStop(m, <<>>, retry)),
               pr, low, draft, asked, requests)
<1> DEFINE n == append_events(m, y)
           c == ContinueOrStop(m, <<>>, retry)
<1>1. /\ Open(n, pr, draft) /\ Conversed(n, asked) /\ SameWait(m, n)
      /\ n.iteration = m.iteration /\ n.final_scheduled = m.final_scheduled
  BY QuietEvents
<1> HIDE DEF n
<1>2. low <= n.next_effect_id /\ Limited(n) /\ requests = n.iteration + 1
      /\ m.protocol = pr /\ <<>> \in Seq(Quiet(pr))
  BY <1>1 DEF Open, SameWait, Limited, Machines
<1>3. /\ c \in Seq(ActionsOf(pr))
      /\ \E t : Leads(Later(n, TRUE), c, t) /\ Sound(Flush(t), pr, low, draft, asked, requests)
  BY <1>1, <1>2, ContinueSound
<1>4. PICK t : Leads(Later(n, TRUE), c, t) /\ Sound(Flush(t), pr, low, draft, asked, requests)
  BY <1>3
<1> HIDE DEF c
<1>5. Sound(apply_actions(m, <<AppendEvents(y)>> \o c), pr, low, draft, asked, requests)
  BY <1>3, <1>4, DiagnosedFirst DEF n
<1> QED
  BY <1>5 DEF c

\* RlmDriver::handle_llm_success.
LEMMA RlmLlmSound ==
  ASSUME NEW pr \in {"rlm", "rlm_finish"}, NEW m, NEW low \in Nat, NEW draft, NEW asked, NEW requests,
         NEW r, Open(m, pr, draft), low <= m.next_effect_id, Limited(m), Conversed(m, asked),
         requests = m.iteration + 1
  PROVE  Sound(apply_actions(m, RlmLlmSuccess(m, r)), pr, low, draft, asked, requests)
<1> DEFINE y == <<"diagnostic">>
           a == <<AppendEvents(y)>>
<1>0. m.protocol = pr /\ m.iteration \in Nat /\ m.state # "Finished" /\ pr \in Protocols
  BY DEF Open, Machines
<1>1. y \in Seq(Quiet(pr))
  <2>1. "diagnostic" \in Quiet(pr)
    BY DEF Quiet, EventsOf, EventKinds, ProtocolEvents, ToolKinds
  <2> QED
    BY <2>1
<1>2. CASE r.kind = "cell"
  <2> DEFINE n == append_events(m, y)
             k == start_exec(n, "cell")
             e == <<StartExec("cell")>>
  <2>1. RlmLlmSuccess(m, r) = a \o e
    BY <1>2 DEF RlmLlmSuccess
  <2> HIDE DEF y
  <2>2. /\ Open(n, pr, draft) /\ Conversed(n, asked) /\ SameWait(m, n)
        /\ n.iteration = m.iteration /\ n.final_scheduled = m.final_scheduled
    BY <1>1, QuietEvents
  <2> HIDE DEF n
  <2>3. n.state # "Finished" /\ low <= n.next_effect_id /\ Limited(n) /\ requests = n.iteration + 1
        /\ n.next_effect_id \in Nat
    BY <2>2 DEF Open, SameWait, Limited, Machines
  <2>4. ApplyAction(Later(n, TRUE), StartExec("cell")) = Later(k, TRUE)
    BY <2>3, Acts
  <2>5. Leads(Later(n, TRUE), e, Later(k, TRUE))
    BY <2>4, LeadsOne
  <2>6. [type |-> "ExecCode", id |-> n.next_effect_id, arg |-> "cell"] \in Questions(pr)
    <3>1. [type |-> "ExecCode", id |-> n.next_effect_id, arg |-> "cell"] \in Question("ExecCode", {"cell"})
      BY <2>3 DEF Question
    <3>2. pr # "standard"
      OBVIOUS
    <3> QED
      BY <3>1, <3>2 DEF Questions
  <2>7. k = Ask(n, WaitState["ExecCode"], "ExecCode", "cell")
        /\ "ExecCode" \in QuestionTypes \ {"Checkpoint"}
    BY DEF start_exec, WaitState, QuestionTypes
  <2>8. Sound(k, pr, low, draft, asked, requests) /\ k.state # "Finished"
    BY <2>2, <2>3, <2>6, <2>7, AskedSound DEF Conversed
  <2>9. Sound(Flush(Later(k, TRUE)), pr, low, draft, asked, requests)
    BY <2>8, FlushSound
  <2>10. e \in Seq(ActionsOf(pr))
    <3>1. StartExec("cell") \in ActionsOf(pr)
      BY DEF ActionsOf
    <3> QED
      BY <3>1
  <2> HIDE DEF k, e
  <2>11. Sound(apply_actions(m, a \o e), pr, low, draft, asked, requests)
    BY <1>1, <2>5, <2>9, <2>10, DiagnosedFirst DEF n
  <2> QED
    BY <2>1, <2>11
<1>3. ASSUME NEW retry \in {<<"reminder">>, <<"prose", "reminder">>},
             RlmLlmSuccess(m, r) = a \o ContinueOrStop(m, <<>>, retry)
      PROVE  Sound(apply_actions(m, RlmLlmSuccess(m, r)), pr, low, draft, asked, requests)
  <2>1. "prose" \in Quiet(pr) /\ "reminder" \in Quiet(pr)
    BY DEF Quiet, EventsOf, EventKinds, MessageKinds, ToolKinds
  <2>2. <<"reminder">> \in Seq(Quiet(pr)) /\ <<"prose", "reminder">> \in Seq(Quiet(pr))
    BY <2>1
  <2>3. retry \in Seq(Quiet(pr))
    BY <2>2
  <2> HIDE DEF y
  <2> QED
    BY <1>1, <1>3, <2>3, DiagnosedContinue
<1>4. CASE r.kind = "invalid_cell"
  <2>1. RlmLlmSuccess(m, r) = a \o ContinueOrStop(m, <<>>, <<"reminder">>)
    BY <1>4 DEF RlmLlmSuccess
  <2> QED
    BY <1>3, <2>1
<1>5. CASE r.kind = "text" /\ pr = "rlm"
  <2>1. RlmLlmSuccess(m, r) = a \o <<BeforeCompletion("answer")>>
    BY <1>0, <1>5 DEF RlmLlmSuccess
  <2>2. "answer" \in Outcomes
    BY DEF Outcomes
  <2> HIDE DEF y
  <2> QED
    BY <1>1, <2>1, <2>2, DiagnosedCheckpoint
<1>6. CASE r.kind = "text" /\ pr = "rlm_finish"
  <2>1. RlmLlmSuccess(m, r) = a \o ContinueOrStop(m, <<>>, <<"prose", "reminder">>)
    BY <1>0, <1>6 DEF RlmLlmSuccess
  <2> QED
    BY <1>3, <2>1
<1>7. CASE r.kind \notin {"cell", "invalid_cell", "text"}
  <2>1. RlmLlmSuccess(m, r) = <<Finish("provider_error")>> /\ "provider_error" \in Outcomes
    BY <1>7 DEF RlmLlmSuccess, Outcomes
  <2>2. requests <= Top + 1
    BY <1>0, TurnAssumption DEF Limited, Top
  <2> QED
    BY <2>1, <2>2, OnlyFinish
<1> QED
  BY <1>2, <1>4, <1>5, <1>6, <1>7

\* handle_llm_complete, by an answer the model may give.
LEMMA LlmAnswered ==
  ASSUME NEW pr, NEW m, NEW low \in Nat, NEW draft, NEW requests,
         NEW r \in Replies(pr) \cup {Reply("cancelled", <<>>)},
         Open(m, pr, draft), m.state = "WaitingLlm", low <= m.next_effect_id, Limited(m),
         ResumeSafe(m.messages), requests = m.iteration + 1
  PROVE  Sound(handle_llm_complete(m, m.effect_id, r), pr, low, draft, m.messages, requests)
<1>0. m.protocol = pr /\ m.iteration \in Nat /\ pr \in Protocols /\ Conversed(m, m.messages)
  BY DEF Open, Machines, Conversed
<1>1. requests <= Top + 1
  BY <1>0, TurnAssumption DEF Limited, Top
<1>2. ASSUME NEW o \in {"provider_error", "incomplete", "cancelled"}
      PROVE  Sound(finish(m, o), pr, low, draft, m.messages, requests)
  <2>1. o \in Outcomes
    BY DEF Outcomes
  <2> QED
    BY <1>1, <2>1, FinishSound
<1>3. CASE r.kind \in {"error", "cancelled"}
  <2>1. handle_llm_complete(m, m.effect_id, r) = finish(m, "provider_error")
    BY <1>3 DEF handle_llm_complete, WaitsFor
  <2> QED
    BY <2>1, <1>2
<1>4. CASE r.kind \in DOMAIN TerminalReason
  <2>1. TerminalReason[r.kind] \in {"provider_error", "incomplete", "cancelled"}
        /\ r.kind \notin {"error", "cancelled"}
    BY <1>4 DEF TerminalReason
  <2>2. handle_llm_complete(m, m.effect_id, r) = finish(m, TerminalReason[r.kind])
    BY <1>4, <2>1 DEF handle_llm_complete, WaitsFor
  <2> QED
    BY <2>1, <2>2, <1>2
<1>5. CASE r.kind \notin {"error", "cancelled"} /\ r.kind \notin DOMAIN TerminalReason
  <2>1. CASE pr = "standard"
    <3>1. handle_llm_complete(m, m.effect_id, r) = apply_actions(m, StandardLlmSuccess(m, r))
      BY <1>0, <1>5, <2>1 DEF handle_llm_complete, WaitsFor, IsRlm
    <3>2. r.kind = "calls" => r.calls \in Batches
      <4>1. CASE r \in {Reply(k, <<>>) : k \in {"text", "empty", "error", "output_limit"}}
        BY <4>1 DEF Reply
      <4>2. CASE r \in {Reply("calls", b) : b \in Batches}
        BY <4>2 DEF Reply
      <4>3. CASE r = Reply("cancelled", <<>>)
        BY <4>3 DEF Reply
      <4> QED
        BY <2>1, <4>1, <4>2, <4>3 DEF Replies
    <3> QED
      BY <1>0, <2>1, <3>1, <3>2, StandardLlmSound
  <2>2. CASE pr # "standard"
    <3>1. handle_llm_complete(m, m.effect_id, r) = apply_actions(m, RlmLlmSuccess(m, r))
      BY <1>0, <1>5, <2>2 DEF handle_llm_complete, WaitsFor, IsRlm
    <3>2. pr \in {"rlm", "rlm_finish"}
      BY <1>0, <2>2 DEF Protocols
    <3> QED
      BY <1>0, <3>1, <3>2, RlmLlmSound
  <2> QED
    BY <2>1, <2>2
<1> QED
  BY <1>3, <1>4, <1>5

\* A filter keeps what there is to keep.
LEMMA AmongSome ==
  ASSUME NEW S, NEW s \in Seq(S), NEW T, NEW i \in 1..Len(s), s[i] \in T
  PROVE  Among(s, T) # <<>> /\ Among(s, T)[1] \in S \cap T
<1> DEFINE a == SubSeq(s, 1, i - 1)
           c == SubSeq(s, i + 1, Len(s))
           b == Append(a, s[i])
<1>1. a \in Seq(S) /\ c \in Seq(S) /\ b \in Seq(S) /\ s[i] \in S
  OBVIOUS
<1>2. s = b \o c
  <2>1. SubSeq(s, 1, i) \o c = SubSeq(s, 1, Len(s))
    <3>1. i \in 0..Len(s) /\ Len(s) \in i..Len(s)
      OBVIOUS
    <3> QED
      BY <3>1, SubSeqJoin
  <2>2. SubSeq(s, 1, Len(s)) = s
    OBVIOUS
  <2>3. SubSeq(s, 1, i) = b
    <3>1. SubSeq(s, 1, i) \in Seq(S) /\ Len(SubSeq(s, 1, i)) = i
      OBVIOUS
    <3>2. Len(b) = i
      OBVIOUS
    <3>3. \A k \in 1..i : SubSeq(s, 1, i)[k] = b[k]
      OBVIOUS
    <3> QED
      BY <1>1, <3>1, <3>2, <3>3
  <2> QED
    BY <2>1, <2>2, <2>3
<1> HIDE DEF a, c
<1>3. Among(b, T) = Append(Among(a, T), s[i])
  <2> DEFINE x == s[i]
  <2>0. x \in S /\ x \in T
    BY <1>1
  <2> HIDE DEF x
  <2>1. Among(Append(a, x), T) = IF x \in T THEN Append(Among(a, T), x) ELSE Among(a, T)
    BY <1>1, <2>0, AmongAppend
  <2>2. Among(Append(a, x), T) = Append(Among(a, T), x)
    BY <2>0, <2>1
  <2> QED
    BY <2>2 DEF x
<1> HIDE DEF b
<1>4. Among(s, T) = Among(b, T) \o Among(c, T)
  BY <1>1, <1>2, AmongConcat
<1>5. Among(a, T) \in Seq(S \cap T) /\ Among(c, T) \in Seq(S \cap T) /\ Among(s, T) \in Seq(S \cap T)
  BY <1>1, AmongSeq
<1>6. Len(Among(s, T)) > 0
  BY <1>3, <1>4, <1>5, <1>1
<1> QED
  BY <1>5, <1>6

\* StandardDriver::handle_tool_results: the calls are answered, whatever follows.
LEMMA ToolsAnswered ==
  ASSUME NEW m, NEW low \in Nat, NEW draft, NEW asked, NEW requests, NEW results \in Seq(Results),
         Open(m, "standard", draft), low <= m.next_effect_id, Limited(m), SafeButLast(m.messages),
         Count(m.messages, "delivered") = Count(asked, "delivered"), requests = m.iteration + 1
  PROVE  Sound(apply_actions(m, StandardToolResults(m, results)), "standard",
               low, draft, asked, requests)
<1> DEFINE y == <<"tool_results">>
           a == <<AppendEvents(y)>>
           n == append_events(m, y)
           A == ActionsOf("standard")
           S(x) == Sound(x, "standard", low, draft, asked, requests)
<1>0. m \in Machines("standard") /\ m.iteration \in Nat /\ m.state # "Finished"
      /\ m.messages \in Seq(MessageKinds) /\ "standard" \in Protocols
  BY DEF Open, Machines, MessagesOf, Protocols
<1>1. y \in Seq(EventsOf("standard")) /\ Among(y, MessageKinds) = y /\ "tool_results" \in MessageKinds
  <2>1. "tool_results" \in MessageKinds /\ EventsOf("standard") = MessageKinds
    BY DEF MessageKinds, EventsOf
  <2> QED
    BY <2>1, AmongOne
<1>2. /\ n \in Machines("standard")
      /\ n.events = m.events \o y /\ n.messages = m.messages \o y
      /\ n.iteration = m.iteration /\ n.final_scheduled = m.final_scheduled
      /\ SameWait(m, n) /\ SameQueue(m, n)
  BY <1>0, <1>1, AppendEventsTo
<1>3. n.state # "Finished" /\ n.next_effect_id = m.next_effect_id
  BY <1>0, <1>2 DEF SameWait
<1>4. n.messages = Append(m.messages, "tool_results")
  BY <1>0, <1>2
<1>5. Leads(Later(m, FALSE), a, Later(n, TRUE)) /\ a \in Seq(A)
  <2> HIDE DEF y
  <2>1. ApplyAction(Later(m, FALSE), AppendEvents(y)) = Later(n, TRUE)
    BY <1>0, ActAppend
  <2>2. AppendEvents(y) \in A
    BY <1>1 DEF ActionsOf
  <2> HIDE DEF A, n
  <2>3. a \in Seq(A)
    BY <2>2
  <2>4. Leads(Later(m, FALSE), a, Later(n, TRUE))
    BY <2>1, LeadsOne
  <2> QED
    BY <2>3, <2>4
<1> HIDE DEF n
<1>6. Open(n, "standard", draft)
  BY <1>1, <1>2, <1>3, OpenGrows DEF SameWait
<1>7. Conversed(n, asked)
  <2>1. ResumeSafe(n.messages)
    BY <1>0, <1>1, <1>4, SafeAnswered
  <2>2. /\ Count(m.messages, "delivered") \in Nat
        /\ Count(n.messages, "delivered") = Count(m.messages, "delivered") + 0
    BY <1>0, <1>1, <1>4, CountAppend
  <2> QED
    BY <2>1, <2>2 DEF Conversed
<1>8. requests <= Top + 1
  BY <1>0, TurnAssumption DEF Limited, Top
<1>9. CASE \E i \in DOMAIN results : Ends(results[i])
  <2> DEFINE o == Control[Among(results, DOMAIN Control)[1]]
             f == <<Finish(o)>>
             k == finish(IF TRUE THEN emit_progress(n) ELSE n, o)
  <2>1. o \in Outcomes
    <3>1. PICK i \in 1..Len(results) : results[i] \in DOMAIN Control
      BY <1>9 DEF Ends
    <3>2. Among(results, DOMAIN Control)[1] \in DOMAIN Control
      BY <3>1, AmongSome
    <3> QED
      BY <3>2 DEF Control, Outcomes
  <2>2. StandardToolResults(m, results) = a \o f
    BY <1>9 DEF StandardToolResults
  <2> HIDE DEF y, o
  <2>3. ApplyAction(Later(n, TRUE), Finish(o)) = Later(k, FALSE)
    BY <1>3, ActFinish
  <2>4. S(Flush(Later(k, FALSE)))
    BY <1>3, <1>6, <1>7, <1>8, <2>1, FinishLast DEF Conversed
  <2>5. Leads(Later(n, TRUE), f, Later(k, FALSE)) /\ f \in Seq(A)
    <3>1. Finish(o) \in A
      BY <2>1 DEF ActionsOf
    <3> HIDE DEF A, k
    <3>2. f \in Seq(A)
      BY <3>1
    <3>3. Leads(Later(n, TRUE), f, Later(k, FALSE))
      BY <2>3, LeadsOne
    <3> QED
      BY <3>2, <3>3
  <2> HIDE DEF k, a, f, A
  <2>6. a \o f \in Seq(A)
    BY <1>5, <2>5
  <2>7. Leads(Later(m, FALSE), a \o f, Later(k, FALSE))
    BY <1>5, <2>5, LeadsJoin
  <2> QED
    BY <2>2, <2>4, <2>6, <2>7, LeadSound DEF A
<1>10. CASE ~\E i \in DOMAIN results : Ends(results[i])
  <2> DEFINE v == <<AdvanceProtocolIteration>>
             p == Advanced(n)
  <2>1. /\ Open(p, "standard", draft) /\ Conversed(p, asked) /\ SameWait(n, p)
        /\ p.iteration = n.iteration + 1 /\ p.final_scheduled = n.final_scheduled
    BY <1>6, <1>7, QuietAdvance
  <2>2. Leads(Later(n, TRUE), v, Later(p, TRUE)) /\ v \in Seq(A)
    <3>1. ApplyAction(Later(n, TRUE), AdvanceProtocolIteration) = Later(p, TRUE)
      BY <1>3, Acts
    <3>2. AdvanceProtocolIteration \in A
      BY DEF ActionsOf
    <3> HIDE DEF A, p
    <3>3. v \in Seq(A)
      BY <3>2
    <3>4. Leads(Later(n, TRUE), v, Later(p, TRUE))
      BY <3>1, LeadsOne
    <3> QED
      BY <3>3, <3>4
  <2> HIDE DEF p
  <2>3. p.state # "Finished" /\ low <= p.next_effect_id
    BY <1>3, <2>1 DEF Open, SameWait
  <2>4. SUFFICES ASSUME NEW w \in Seq(A), NEW t, Leads(Later(p, TRUE), w, t), S(Flush(t)),
                        StandardToolResults(m, results) = a \o (v \o w)
                 PROVE  S(apply_actions(m, StandardToolResults(m, results)))
    <3>1. CASE ReachesLimit(m)
      <4> DEFINE x == <<"exhausted">>
                 q == append_events(p, x)
                 o == "max_turns"
                 k == finish(IF TRUE THEN emit_progress(q) ELSE q, o)
                 w == <<AppendEvents(x), Finish(o)>>
      <4>1. x \in Seq(Quiet("standard")) /\ x \in Seq(EventsOf("standard"))
        <5>1. "exhausted" \in Quiet("standard") /\ "exhausted" \in EventsOf("standard")
          BY DEF Quiet, EventsOf, MessageKinds, ToolKinds
        <5> QED
          BY <5>1
      <4>2. /\ Open(q, "standard", draft) /\ Conversed(q, asked) /\ SameWait(p, q)
        BY <2>1, <4>1, QuietEvents
      <4>3. StandardToolResults(m, results) = a \o (v \o w)
        BY <1>10, <3>1 DEF StandardToolResults
      <4>4. ApplyAction(Later(p, TRUE), AppendEvents(x)) = Later(q, TRUE)
        BY <2>3, ActAppend
      <4> HIDE DEF q, x
      <4>5. q.state # "Finished" /\ low <= q.next_effect_id
        BY <2>3, <4>2 DEF Open, SameWait
      <4>6. ApplyAction(Later(q, TRUE), Finish(o)) = Later(k, FALSE)
        BY <4>5, ActFinish
      <4>7. Leads(Later(p, TRUE), w, Later(k, FALSE))
        BY <4>4, <4>6, LeadsTwo
      <4>8. o \in Outcomes
        BY DEF Outcomes
      <4>9. S(Flush(Later(k, FALSE)))
        BY <4>2, <4>5, <4>8, <1>8, FinishLast DEF Conversed
      <4>10. w \in Seq(A)
        <5>1. AppendEvents(x) \in A /\ Finish(o) \in A
          BY <4>1, <4>8 DEF ActionsOf
        <5> QED
          BY <5>1
      <4> HIDE DEF w, k, A, a, v
      <4> QED
        BY <2>4, <4>3, <4>7, <4>9, <4>10
    <3>2. CASE ~ReachesLimit(m)
      <4> DEFINE k == request_checkpoint(p, [checkpoint |-> "after_work", on_empty |-> "prepare"])
                 w == <<AfterWork>>
      <4>1. StandardToolResults(m, results) = a \o (v \o w)
        BY <1>10, <3>2 DEF StandardToolResults
      <4>2. ApplyAction(Later(p, TRUE), AfterWork) = Later(k, TRUE)
        BY <2>3, ActCheckpoint DEF AfterWork
      <4>3. Leads(Later(p, TRUE), w, Later(k, TRUE))
        BY <4>2, LeadsOne
      <4>4. Limited(p) /\ requests = p.iteration
        BY <1>0, <1>2, <2>1, <3>2, TurnAssumption DEF Limited, ReachesLimit, Top
      <4>5. S(k) /\ k.state # "Finished"
        BY <2>1, <2>3, <4>4, CheckpointSound DEF Conversed
      <4>6. S(Flush(Later(k, TRUE)))
        BY <4>5, FlushSound
      <4>7. w \in Seq(A)
        <5>1. AfterWork \in A
          BY DEF ActionsOf, AfterWork
        <5> QED
          BY <5>1
      <4> HIDE DEF w, k, A, a, v
      <4> QED
        BY <2>4, <4>1, <4>3, <4>6, <4>7
    <3> QED
      BY <3>1, <3>2
  <2> HIDE DEF a, v, A
  <2>5. v \o w \in Seq(A) /\ a \o (v \o w) \in Seq(A)
    BY <1>5, <2>2
  <2>6. Leads(Later(n, TRUE), v \o w, t)
    BY <2>2, <2>4, LeadsJoin
  <2>7. Leads(Later(m, FALSE), a \o (v \o w), t)
    BY <1>5, <2>5, <2>6, LeadsJoin
  <2> QED
    BY <2>4, <2>5, <2>7, LeadSound DEF A
<1> QED
  BY <1>9, <1>10

\* RlmDriver::handle_exec_result.
LEMMA ExecAnswered ==
  ASSUME NEW pr \in {"rlm", "rlm_finish"}, NEW m, NEW low \in Nat, NEW draft, NEW asked, NEW requests,
         NEW result, Open(m, pr, draft), low <= m.next_effect_id, Limited(m), Conversed(m, asked),
         requests = m.iteration + 1
  PROVE  Sound(apply_actions(m, RlmExecResult(m, result)), pr, low, draft, asked, requests)
<1> DEFINE ran == <<"prose", "trajectory">>
<1>0. m.protocol = pr /\ m.iteration \in Nat
  BY DEF Open, Machines
<1>1. ran \in Seq(Quiet(pr)) /\ <<"reminder">> \in Seq(Quiet(pr)) /\ <<>> \in Seq(Quiet(pr))
  <2>1. "prose" \in Quiet(pr) /\ "reminder" \in Quiet(pr) /\ "trajectory" \in Quiet(pr)
    BY DEF Quiet, EventsOf, EventKinds, MessageKinds, ProtocolEvents, ToolKinds
  <2> QED
    BY <2>1
<1>2. ASSUME NEW o \in Outcomes, RlmExecResult(m, result) = <<AppendEvents(ran), BeforeCompletion(o)>>
      PROVE  Sound(apply_actions(m, RlmExecResult(m, result)), pr, low, draft, asked, requests)
  <2> HIDE DEF ran
  <2> QED
    BY <1>1, <1>2, DiagnosedCheckpoint
<1>3. ASSUME NEW retry \in Seq(Quiet(pr)), RlmExecResult(m, result) = ContinueOrStop(m, ran, retry)
      PROVE  Sound(apply_actions(m, RlmExecResult(m, result)), pr, low, draft, asked, requests)
  <2> HIDE DEF ran
  <2> DEFINE c == ContinueOrStop(m, ran, retry)
  <2>1. /\ c \in Seq(ActionsOf(pr))
        /\ \E t : Leads(Later(m, FALSE), c, t) /\ Sound(Flush(t), pr, low, draft, asked, requests)
    BY <1>0, <1>1, ContinueSound
  <2> HIDE DEF c
  <2>2. PICK t : Leads(Later(m, FALSE), c, t) /\ Sound(Flush(t), pr, low, draft, asked, requests)
    BY <2>1
  <2>3. Sound(apply_actions(m, c), pr, low, draft, asked, requests)
    BY <2>1, <2>2, LeadSound
  <2> QED
    BY <1>3, <2>3 DEF c
<1>4. CASE Ends(result)
  <2>1. result \in {"finish", "fail", "switch"} /\ Control[result] \in Outcomes
    BY <1>4 DEF Ends, Control, Outcomes
  <2>2. RlmExecResult(m, result) = <<AppendEvents(ran), BeforeCompletion(Control[result])>>
    BY <1>4, <2>1 DEF RlmExecResult
  <2> QED
    BY <1>2, <2>1, <2>2
<1>5. CASE ~Ends(result) /\ (result = "finished" \/ (result = "mismatch" /\ pr = "rlm"))
  <2>1. RlmExecResult(m, result) = <<AppendEvents(ran), BeforeCompletion("value")>>
    BY <1>0, <1>5 DEF RlmExecResult
  <2>2. "value" \in Outcomes
    BY DEF Outcomes
  <2> QED
    BY <1>2, <2>1, <2>2
<1>6. CASE ~Ends(result) /\ result = "mismatch" /\ pr = "rlm_finish"
  <2>1. RlmExecResult(m, result) = ContinueOrStop(m, ran, <<"reminder">>)
    BY <1>0, <1>6 DEF RlmExecResult
  <2> QED
    BY <1>1, <1>3, <2>1
<1>7. CASE ~Ends(result) /\ result \notin {"finished", "mismatch"}
  <2>1. RlmExecResult(m, result) = ContinueOrStop(m, ran, <<>>)
    BY <1>7 DEF RlmExecResult
  <2> QED
    BY <1>1, <1>3, <2>1
<1> QED
  BY <1>4, <1>5, <1>6, <1>7

-----------------------------------------------------------------------------
(* Checkpoints and the environment. *)

Got(m, x) == [m EXCEPT !.messages = @ \o x]
Iterated(m) == [m EXCEPT !.iteration = @ + 1]
Prepared(m) == [m EXCEPT !.state = "PrepareIteration"]

\* Delivered messages leave an open machine open and safe.
LEMMA GotOpen ==
  ASSUME NEW pr, NEW m, NEW draft, NEW x \in Seq({"delivered"}), Open(m, pr, draft), ResumeSafe(m.messages)
  PROVE  LET n == Got(m, x)
         IN  /\ Open(n, pr, draft) /\ ResumeSafe(n.messages) /\ SameWait(m, n)
             /\ n.iteration = m.iteration /\ n.final_scheduled = m.final_scheduled
<1> DEFINE n == Got(m, x)
           S == MessagesOf(pr)
           y == m.messages \o x
<1>1. m \in Machines(pr) /\ m.messages \in Seq(S)
  BY DEF Open, Machines
<1>2. "delivered" \in S \ ToolKinds
  BY DEF MessagesOf, MessageKinds, ToolKinds
<1>3. x \in Seq(S \ ToolKinds) /\ x \in Seq(S) /\ y \in Seq(S)
  BY <1>1, <1>2
<1>4. ResumeSafe(y)
  <2> HIDE DEF S
  <2> QED
    BY <1>1, <1>3, SafeConcat
<1> HIDE DEF y
<1>5. n = [m EXCEPT !.messages = y]
  BY DEF Got, y
<1>6. n \in Machines(pr) /\ n.messages = y /\ SameWait(m, n) /\ SameQueue(m, n) /\ n.events = m.events
      /\ n.iteration = m.iteration /\ n.final_scheduled = m.final_scheduled
  BY <1>1, <1>3, <1>5 DEF Machines, SameWait, SameQueue
<1>7. Open(n, pr, draft)
  <2>1. n.state # "Finished" /\ n.effect_id = m.effect_id /\ n.next_effect_id = m.next_effect_id
    BY <1>6 DEF SameWait, Open
  <2> HIDE DEF n
  <2> QED
    BY <1>6, <2>1, OpenSame
<1> HIDE DEF n
<1> QED
  BY <1>4, <1>6, <1>7 DEF n

\* So does the count of the iterations.
LEMMA IteratedOpen ==
  ASSUME NEW pr, NEW m, NEW draft, Open(m, pr, draft)
  PROVE  LET n == Iterated(m)
         IN  /\ Open(n, pr, draft) /\ SameWait(m, n) /\ n.messages = m.messages
             /\ n.iteration = m.iteration + 1 /\ n.final_scheduled = m.final_scheduled
<1> DEFINE n == Iterated(m)
<1>1. m \in Machines(pr) /\ m.iteration \in Nat
  BY DEF Open, Machines
<1>2. n \in Machines(pr) /\ n.messages = m.messages /\ SameWait(m, n) /\ SameQueue(m, n)
      /\ n.events = m.events /\ n.iteration = m.iteration + 1 /\ n.final_scheduled = m.final_scheduled
  <2>1. m.iteration + 1 \in Nat
    BY <1>1
  <2> QED
    BY <1>1, <2>1 DEF Machines, SameWait, SameQueue, Iterated
<1>3. n.state # "Finished" /\ n.effect_id = m.effect_id /\ n.next_effect_id = m.next_effect_id
  BY <1>2 DEF SameWait, Open
<1> HIDE DEF n
<1>4. Open(n, pr, draft)
  BY <1>2, <1>3, OpenSame
<1> QED
  BY <1>2, <1>4 DEF n

\* The machine prepares its next iteration.
LEMMA PreparedSound ==
  ASSUME NEW pr, NEW m, NEW low, NEW draft, NEW asked, NEW requests,
         Open(m, pr, draft), low <= m.next_effect_id, Limited(m), ResumeSafe(m.messages),
         requests = m.iteration
  PROVE  LET n == Prepared(m)
         IN  Sound(n, pr, low, draft, asked, requests) /\ n.state # "Finished"
<1> DEFINE n == Prepared(m)
<1>1. m \in Machines(pr) /\ m.iteration \in Nat
  BY DEF Open, Machines
<1>2. n \in Machines(pr) /\ n.messages = m.messages /\ SameQueue(m, n) /\ n.state = "PrepareIteration"
      /\ n.events = m.events /\ n.iteration = m.iteration /\ n.final_scheduled = m.final_scheduled
      /\ n.effect_id = m.effect_id /\ n.next_effect_id = m.next_effect_id
  <2>1. "PrepareIteration" \in States
    BY DEF States
  <2> QED
    BY <1>1, <2>1 DEF Machines, SameQueue, Prepared
<1> HIDE DEF n
<1>3. Open(n, pr, draft)
  BY <1>2, OpenSame
<1>4. Counted(n, asked, requests)
  BY <1>1, <1>2 DEF Counted, AfterModel, Limited
<1>5. Sound(n, pr, low, draft, asked, requests)
  BY <1>2, <1>3, <1>4, OpenSound
<1> QED
  BY <1>2, <1>5 DEF n

\* handle_checkpoint: what is delivered prolongs the turn, up to the limit.
LEMMA CheckpointAnswered ==
  ASSUME NEW pr, NEW m, NEW low \in Nat, NEW draft, NEW asked, NEW requests,
         NEW delivery \in Seq({"delivered"}),
         Open(m, pr, draft), m.state = "WaitingCheckpoint", low <= m.next_effect_id,
         Counted(m, asked, requests)
  PROVE  Sound(handle_checkpoint(m, m.effect_id, delivery), pr, low, draft, asked, requests)
<1> DEFINE S(x) == Sound(x, pr, low, draft, asked, requests)
           h == handle_checkpoint(m, m.effect_id, delivery)
           g == Got(m, delivery)
           i == Iterated(g)
<1>0. m.iteration \in Nat /\ "prepare" \notin Outcomes /\ m.checkpoint \in {"none", "after_work", "before_completion"}
      /\ m.final_scheduled \in BOOLEAN
  BY DEF Open, Machines, Outcomes
<1>1. Limited(m) /\ ResumeSafe(m.messages)
      /\ (m.checkpoint = "after_work" => m.on_empty = "prepare" /\ requests = m.iteration)
      /\ (m.checkpoint # "after_work" =>
            /\ m.checkpoint = "before_completion" /\ m.on_empty \in Outcomes
            /\ requests = m.iteration + 1 /\ Count(m.messages, "delivered") = Count(asked, "delivered"))
  BY <1>0 DEF Counted, AfterModel
<1>2. requests <= Top + 1
  BY <1>0, <1>1, TurnAssumption DEF Limited, Top
<1>3. CASE delivery # <<>>
  <2>1. /\ Open(g, pr, draft) /\ ResumeSafe(g.messages) /\ SameWait(m, g)
        /\ g.iteration = m.iteration /\ g.final_scheduled = m.final_scheduled
    BY <1>1, GotOpen
  <2>2. CASE m.checkpoint # "before_completion"
    <3>1. h = emit_progress(Prepared(g))
      BY <1>3, <2>2 DEF handle_checkpoint, WaitsFor, Got, Prepared
    <3> HIDE DEF g, h
    <3>2. S(Prepared(g)) /\ Prepared(g).state # "Finished"
      <4>1. Limited(g) /\ low <= g.next_effect_id /\ requests = g.iteration
        BY <1>0, <1>1, <2>1, <2>2 DEF Limited, SameWait
      <4> QED
        BY <2>1, <4>1, PreparedSound
    <3>3. S(h)
      BY <3>1, <3>2, EmitSound
    <3> QED
      BY <3>3 DEF h
  <2>3. CASE m.checkpoint = "before_completion"
    <3>1. requests = m.iteration + 1
      BY <1>1, <2>3
    <3>2. CASE m.final_scheduled
      <4>1. h = finish(emit_progress(i), "max_turns")
        BY <1>3, <2>3, <3>2 DEF handle_checkpoint, WaitsFor, Got, Iterated
      <4> HIDE DEF g, h
      <4>2. /\ Open(i, pr, draft) /\ SameWait(g, i) /\ i.messages = g.messages
        BY <2>1, IteratedOpen
      <4> HIDE DEF i
      <4> DEFINE p == emit_progress(i)
      <4>3. Open(p, pr, draft) /\ SameTurn(i, p) /\ SameWait(i, p)
        <5>1. Open(p, pr, draft)
          BY <4>2, OpenEmit
        <5>2. i \in Machines(pr) /\ i.cursor <= Len(i.events)
          BY <4>2 DEF Open
        <5>3. SameTurn(i, p) /\ SameWait(i, p)
          BY <5>2, EmitProgress
        <5> QED
          BY <5>1, <5>3
      <4> HIDE DEF p
      <4>4. ResumeSafe(p.messages) /\ low <= p.next_effect_id
        BY <2>1, <4>2, <4>3 DEF SameTurn, SameWait
      <4>5. "max_turns" \in Outcomes /\ "max_turns" \notin Answered
        BY DEF Outcomes, Answered
      <4>6. S(finish(p, "max_turns"))
        BY <1>2, <4>3, <4>4, <4>5, FinishSound
      <4> QED
        BY <4>1, <4>6 DEF p, h
    <3>3. CASE ~m.final_scheduled
      <4>2. /\ Open(i, pr, draft) /\ SameWait(g, i) /\ i.messages = g.messages
            /\ i.iteration = g.iteration + 1 /\ i.final_scheduled = g.final_scheduled
        <5> HIDE DEF g
        <5> QED
          BY <2>1, IteratedOpen
      <4>3. ASSUME NEW f, h = emit_progress(Prepared(f)), Open(f, pr, draft), ResumeSafe(f.messages),
                   SameWait(i, f), f.iteration = i.iteration, Limited(f)
            PROVE  S(h)
        <5> HIDE DEF h, g, i
        <5>1. low <= f.next_effect_id /\ requests = f.iteration
          BY <1>0, <2>1, <3>1, <4>2, <4>3 DEF SameWait
        <5>2. S(Prepared(f)) /\ Prepared(f).state # "Finished"
          BY <4>3, <5>1, PreparedSound
        <5> QED
          BY <4>3, <5>2, EmitSound
      <4>4. CASE FinalDue(i)
        <5> DEFINE f == schedule_turn_limit_final(i)
        <5>1. h = emit_progress(Prepared(f))
          BY <1>3, <2>3, <3>3, <4>4 DEF handle_checkpoint, WaitsFor, Got, Iterated, Prepared
        <5> HIDE DEF h, g, i
        <5>2. i \in Machines(pr) /\ i.messages \in Seq(MessagesOf(pr)) /\ i.state # "Finished"
          BY <4>2 DEF Open, Machines
        <5>3. /\ f \in Machines(pr) /\ f.final_scheduled = TRUE
              /\ f.messages = Append(i.messages, "turn_limit")
              /\ f.iteration = i.iteration /\ f.events = i.events
              /\ SameWait(i, f) /\ SameQueue(i, f)
          BY <5>2, ScheduleFinal
        <5> HIDE DEF f
        <5>4. Open(f, pr, draft)
          <6>1. f.state # "Finished" /\ f.effect_id = i.effect_id /\ f.next_effect_id = i.next_effect_id
            BY <5>2, <5>3 DEF SameWait
          <6> QED
            BY <4>2, <5>3, <6>1, OpenSame
        <5>5. ResumeSafe(f.messages)
          <6>1. "turn_limit" \in MessagesOf(pr) /\ "turn_limit" \notin ToolKinds
            BY DEF MessagesOf, MessageKinds, ToolKinds
          <6> QED
            BY <2>1, <4>2, <5>2, <5>3, <6>1, SafeAppend
        <5>6. Limited(f)
          BY <1>0, <1>1, <2>1, <3>3, <4>2, <4>4, <5>3, TurnAssumption DEF Limited, FinalDue, Top
        <5> QED
          BY <4>3, <5>1, <5>3, <5>4, <5>5, <5>6 DEF h
      <4>5. CASE ~FinalDue(i)
        <5>1. h = emit_progress(Prepared(i))
          BY <1>3, <2>3, <3>3, <4>5 DEF handle_checkpoint, WaitsFor, Got, Iterated, Prepared
        <5> HIDE DEF g, i
        <5>2. Limited(i)
          BY <1>0, <2>1, <3>3, <4>2, <4>5, TurnAssumption DEF Limited, FinalDue, Top
        <5>3. SameWait(i, i) /\ ResumeSafe(i.messages)
          BY <2>1, <4>2 DEF SameWait
        <5> HIDE DEF h
        <5> QED
          BY <4>2, <4>3, <5>1, <5>2, <5>3 DEF h
      <4> QED
        BY <4>4, <4>5
    <3> QED
      BY <1>0, <3>2, <3>3
  <2> QED
    BY <2>2, <2>3
<1>4. CASE delivery = <<>>
  <2>1. CASE m.on_empty = "prepare"
    <3>1. h = Prepared(m)
      BY <1>4, <2>1 DEF handle_checkpoint, WaitsFor, Prepared
    <3>2. requests = m.iteration
      BY <1>0, <1>1, <2>1
    <3> HIDE DEF h
    <3>3. S(h)
      BY <1>1, <3>1, <3>2, PreparedSound
    <3> QED
      BY <3>3 DEF h
  <2>2. CASE m.on_empty # "prepare"
    <3>1. h = finish(m, m.on_empty)
      BY <1>4, <2>2 DEF handle_checkpoint, WaitsFor
    <3>2. m.on_empty \in Outcomes /\ Count(m.messages, "delivered") = Count(asked, "delivered")
      BY <1>1, <2>2
    <3> HIDE DEF h
    <3>3. S(h)
      BY <1>1, <1>2, <3>1, <3>2, FinishSound
    <3> QED
      BY <3>3 DEF h
  <2> QED
    BY <2>1, <2>2
<1> QED
  BY <1>3, <1>4

\* handle_execution_environment_synced.
LEMMA SyncAnswered ==
  ASSUME NEW pr, NEW m, NEW low \in Nat, NEW draft, NEW asked, NEW requests, NEW result,
         Open(m, pr, draft), m.state = "WaitingExecutionEnvironment", low <= m.next_effect_id,
         Counted(m, asked, requests)
  PROVE  Sound(handle_execution_environment_synced(m, m.effect_id, result), pr, low, draft, asked, requests)
<1> DEFINE h == handle_execution_environment_synced(m, m.effect_id, result)
           i == [m EXCEPT !.synced = {m.iteration}]
<1>0. m \in Machines(pr) /\ m.iteration \in Nat /\ m.final_scheduled \in BOOLEAN
  BY DEF Open, Machines
<1>1. Limited(m) /\ ResumeSafe(m.messages) /\ requests = m.iteration
  BY <1>0 DEF Counted, AfterModel
<1>2. CASE result = "failed"
  <2>1. h = finish(m, "runtime_error")
    BY <1>2 DEF handle_execution_environment_synced, WaitsFor, fail_turn
  <2>2. requests <= Top + 1
    BY <1>0, <1>1, TurnAssumption DEF Limited, Top
  <2>3. "runtime_error" \in Outcomes /\ "runtime_error" \notin Answered
    BY DEF Outcomes, Answered
  <2> HIDE DEF h
  <2>4. Sound(h, pr, low, draft, asked, requests)
    BY <1>1, <2>1, <2>2, <2>3, FinishSound
  <2> QED
    BY <2>4 DEF h
<1>3. CASE result # "failed"
  <2>1. h = [m EXCEPT !.synced = {m.iteration}, !.state = "PrepareIteration"]
    BY <1>3 DEF handle_execution_environment_synced, WaitsFor
  <2>2. h = Prepared(i)
    BY <1>0, <2>1 DEF Prepared, Machines
  <2>3. i \in Machines(pr) /\ i.messages = m.messages /\ SameQueue(m, i) /\ i.state = m.state
        /\ i.events = m.events /\ i.iteration = m.iteration /\ i.final_scheduled = m.final_scheduled
        /\ i.effect_id = m.effect_id /\ i.next_effect_id = m.next_effect_id
    <3>1. {m.iteration} \in SUBSET Nat
      BY <1>0
    <3> QED
      BY <1>0, <3>1 DEF Machines, SameQueue
  <2> HIDE DEF h, i
  <2>4. Open(i, pr, draft)
    BY <2>3, OpenSame
  <2>5. Limited(i)
    BY <1>1, <2>3 DEF Limited
  <2>6. Sound(h, pr, low, draft, asked, requests)
    BY <1>1, <2>2, <2>3, <2>4, <2>5, PreparedSound
  <2> QED
    BY <2>6 DEF h
<1> QED
  BY <1>2, <1>3

\* prepare_protocol_iteration and prepare_protocol: the next question.
LEMMA PrepareSound ==
  ASSUME NEW pr, NEW m, NEW low \in Nat, NEW draft, NEW asked, NEW requests,
         Open(m, pr, draft), low <= m.next_effect_id, Limited(m), ResumeSafe(m.messages),
         requests = m.iteration
  PROVE  /\ Sound(prepare_protocol_iteration(m), pr, low, draft, asked, requests)
         /\ Sound(prepare_protocol(m), pr, low, draft, asked, requests)
<1>0. m.next_effect_id \in Nat /\ m.messages \in Seq(MessagesOf(pr)) /\ m.events \in Seq(EventsOf(pr))
      /\ m.state # "Finished"
  BY DEF Open, Machines
<1>1. ASSUME NEW u \in BOOLEAN
      PROVE  Sound(sync_environment(m, u), pr, low, draft, asked, requests)
  <2>1. [type |-> "SyncExecutionEnvironment", id |-> m.next_effect_id, arg |-> u] \in Questions(pr)
    <3>1. [type |-> "SyncExecutionEnvironment", id |-> m.next_effect_id, arg |-> u]
            \in Question("SyncExecutionEnvironment", BOOLEAN)
      BY <1>0 DEF Question
    <3> QED
      BY <3>1 DEF Questions
  <2>2. sync_environment(m, u) =
          Ask(m, WaitState["SyncExecutionEnvironment"], "SyncExecutionEnvironment", u)
        /\ "SyncExecutionEnvironment" \in QuestionTypes \ {"Checkpoint"}
    BY DEF sync_environment, WaitState, QuestionTypes
  <2> QED
    BY <2>1, <2>2, AskedSound
<1>2. Sound(apply_actions(m, <<StartLlm>>), pr, low, draft, asked, requests)
  <2> DEFINE g == [messages |-> m.messages, events |-> m.events]
             k == start_llm_request(m)
  <2>1. [type |-> "LlmCall", id |-> m.next_effect_id, arg |-> g] \in Questions(pr)
    <3>1. g \in [messages: Seq(MessagesOf(pr)), events: Seq(EventsOf(pr))]
      BY <1>0
    <3> HIDE DEF g
    <3>2. [type |-> "LlmCall", id |-> m.next_effect_id, arg |-> g]
            \in Question("LlmCall", [messages: Seq(MessagesOf(pr)), events: Seq(EventsOf(pr))])
      BY <1>0, <3>1 DEF Question
    <3> QED
      BY <3>2 DEF Questions
  <2>2. k = Ask(m, WaitState["LlmCall"], "LlmCall", g) /\ "LlmCall" \in QuestionTypes \ {"Checkpoint"}
    BY DEF start_llm_request, WaitState, QuestionTypes
  <2>3. g.messages = m.messages
    OBVIOUS
  <2>4. ApplyAction(Later(m, FALSE), StartLlm) = Later(k, FALSE)
    BY <1>0, Acts
  <2> HIDE DEF g, k
  <2>5. Sound(k, pr, low, draft, asked, requests)
    BY <2>1, <2>2, <2>3, AskedSound
  <2>6. Sound(Flush(Later(k, FALSE)), pr, low, draft, asked, requests)
    BY <2>5, FlushSound
  <2>7. Leads(Later(m, FALSE), <<StartLlm>>, Later(k, FALSE))
    BY <2>4, LeadsOne
  <2>8. <<StartLlm>> \in Seq(ActionsOf(pr))
    <3>1. StartLlm \in ActionsOf(pr)
      BY DEF ActionsOf
    <3> QED
      BY <3>1
  <2> QED
    BY <2>6, <2>7, <2>8, LeadSound
<1>3. Sound(prepare_protocol_iteration(m), pr, low, draft, asked, requests)
  <2>1. Sound(sync_environment(m, TRUE), pr, low, draft, asked, requests)
    BY <1>1
  <2> QED
    BY <1>2, <2>1 DEF prepare_protocol_iteration
<1>4. Sound(sync_environment(m, FALSE), pr, low, draft, asked, requests)
  BY <1>1
<1> QED
  BY <1>3, <1>4 DEF prepare_protocol

\* poll_effect.
LEMMA PollSound ==
  ASSUME NEW pr, NEW m, NEW low \in Nat, NEW draft, NEW asked, NEW requests,
         Sound(m, pr, low, draft, asked, requests)
  PROVE  Sound(poll_effect(m), pr, low, draft, asked, requests)
<1>1. CASE m.pending = <<>> /\ m.state \in {"PreparingProtocol", "PrepareIteration"}
  <2>1. m \in Machines(pr) /\ m.iteration \in Nat
    BY DEF Sound, Machines
  <2>2. Open(m, pr, draft)
    BY <1>1 DEF Sound, Open
  <2>3. low <= m.next_effect_id /\ Limited(m) /\ ResumeSafe(m.messages) /\ requests = m.iteration
    BY <1>1, <2>1 DEF Sound, Counted, AfterModel
  <2>4. poll_effect(m) \in {prepare_protocol_iteration(m), prepare_protocol(m)}
    BY <1>1 DEF poll_effect
  <2> QED
    BY <2>2, <2>3, <2>4, PrepareSound
<1>2. CASE ~(m.pending = <<>> /\ m.state \in {"PreparingProtocol", "PrepareIteration"})
  BY <1>2 DEF poll_effect
<1> QED
  BY <1>1, <1>2

\* A new machine is sound.
LEMMA NewSound ==
  ASSUME NEW pr \in Protocols
  PROVE  Sound(NewMachine(pr, <<"user">>), pr, 0, <<>>, <<>>, 0)
<1> DEFINE m == NewMachine(pr, <<"user">>)
<1>1. <<"user">> \in Seq(MessagesOf(pr)) /\ ResumeSafe(<<"user">>)
  <2>1. "user" \in MessagesOf(pr) /\ {"user"} \cap ToolKinds = {}
    BY DEF MessagesOf, MessageKinds, ToolKinds
  <2>2. <<"user">> \in Seq(MessagesOf(pr)) /\ <<"user">> \in Seq({"user"})
    BY <2>1
  <2> QED
    BY <2>1, <2>2, SafeNeutral
<1>2. m \in Machines(pr) /\ m.state = "PreparingProtocol" /\ m.pending = <<>> /\ m.events = <<>>
      /\ m.cursor = 0 /\ m.effect_id = 0 /\ m.next_effect_id = 1 /\ m.iteration = 0
      /\ m.final_scheduled = FALSE /\ m.messages = <<"user">>
  <2>1. "PreparingProtocol" \in States /\ <<>> \in Seq(EventsOf(pr)) /\ <<>> \in Seq(Effects(pr))
    BY DEF States
  <2> QED
    BY <1>1, <2>1 DEF NewMachine, Machines
<1>3. Handed(<<>>, <<>>, 0, <<>>)
  <2>1. <<>> \in Seq({}) /\ 0 \in 0..Len(<<>>) /\ SubSeq(<<>>, 1, 0) = <<>>
    OBVIOUS
  <2> QED
    BY <2>1, HandedEmpty
<1> HIDE DEF m
<1>4. Open(m, pr, <<>>)
  BY <1>2, <1>3 DEF Open
<1>5. Counted(m, <<>>, 0)
  BY <1>1, <1>2, TurnAssumption DEF Counted, AfterModel, Limited, Top
<1>6. Sound(m, pr, 0, <<>>, <<>>, 0)
  BY <1>2, <1>4, <1>5, OpenSound
<1> QED
  BY <1>6 DEF m

-----------------------------------------------------------------------------
(* The effect at the head of the queue is taken. *)

Rest(m) == [m EXCEPT !.pending = Tail(@)]

\* The machine without the effect at the head of its queue.
LEMMA RestIs ==
  ASSUME NEW pr, NEW m \in Machines(pr), m.pending # <<>>
  PROVE  LET n == Rest(m)
         IN  /\ n \in Machines(pr) /\ SameTurn(m, n) /\ SameWait(m, n) /\ n.cursor = m.cursor
             /\ n.pending = Tail(m.pending) /\ Len(m.pending) = Len(n.pending) + 1
             /\ Len(n.pending) \in Nat
             /\ Head(m.pending) = m.pending[1] /\ Head(m.pending) \in Effects(pr)
             /\ \A k \in 1..Len(n.pending) : n.pending[k] = m.pending[k + 1]
<1>1. m.pending \in Seq(Effects(pr))
  BY DEF Machines
<1>2. /\ Tail(m.pending) \in Seq(Effects(pr)) /\ Len(m.pending) = Len(Tail(m.pending)) + 1
      /\ Len(Tail(m.pending)) \in Nat
      /\ Head(m.pending) = m.pending[1] /\ Head(m.pending) \in Effects(pr)
      /\ \A k \in 1..Len(Tail(m.pending)) : Tail(m.pending)[k] = m.pending[k + 1]
  <2> DEFINE E == Effects(pr)
             p == m.pending
  <2>1. p \in Seq(E) /\ p # <<>>
    BY <1>1
  <2> HIDE DEF E, p
  <2>2. /\ Tail(p) \in Seq(E) /\ Len(p) = Len(Tail(p)) + 1 /\ Len(Tail(p)) \in Nat
        /\ Head(p) = p[1] /\ Head(p) \in E /\ \A k \in 1..Len(Tail(p)) : Tail(p)[k] = p[k + 1]
    BY <2>1
  <2> QED
    BY <2>2 DEF E, p
<1> DEFINE q == Tail(m.pending)
           n == Rest(m)
<1>3. n = [m EXCEPT !.pending = q]
  BY DEF Rest
<1>4. q \in Seq(Effects(pr))
  BY <1>2
<1> HIDE DEF q, n
<1>5. n \in Machines(pr) /\ n.pending = q /\ SameTurn(m, n) /\ SameWait(m, n) /\ n.cursor = m.cursor
  BY <1>3, <1>4 DEF Machines, SameTurn, SameWait
<1> QED
  BY <1>2, <1>5 DEF q, n

\* A question is taken: the machine waits for its answer, and nothing else is asked.
LEMMA QuestionTaken ==
  ASSUME NEW pr, NEW m, NEW low, NEW draft, NEW asked, NEW requests,
         Sound(m, pr, low, draft, asked, requests), m.pending # <<>>,
         Head(m.pending).type \in QuestionTypes
  PROVE  LET n == Rest(m)
             e == Head(m.pending)
         IN  /\ Open(n, pr, draft) /\ Counted(n, asked, requests) /\ low <= n.next_effect_id
             /\ n.state = WaitState[e.type] /\ n.effect_id = e.id
             /\ e.type = "LlmCall" => e.arg.messages = n.messages
             /\ n.checkpoint = m.checkpoint
<1> DEFINE n == Rest(m)
           e == Head(m.pending)
<1>1. /\ m \in Machines(pr) /\ pr \in Protocols /\ QueueOK(m, low, asked)
      /\ m.cursor <= Len(m.events) /\ m.effect_id < m.next_effect_id /\ low <= m.next_effect_id
      /\ (pr # "standard" => Handed(m.pending, m.events, m.cursor, draft))
      /\ Counted(m, asked, requests)
  BY DEF Sound
<1>2. /\ n \in Machines(pr) /\ SameTurn(m, n) /\ SameWait(m, n) /\ n.cursor = m.cursor
      /\ n.pending = Tail(m.pending) /\ Len(m.pending) = Len(n.pending) + 1
      /\ Len(n.pending) \in Nat
      /\ Head(m.pending) = m.pending[1] /\ Head(m.pending) \in Effects(pr)
      /\ \A k \in 1..Len(n.pending) : n.pending[k] = m.pending[k + 1]
  BY <1>1, RestIs
<1> HIDE DEF n
<1>3. Awaited(m, low, e)
  <2>1. e = m.pending[1] /\ 1 \in 1..Len(m.pending)
    BY <1>2
  <2>2. e.type # "Progress" /\ e.type # "Done"
    BY DEF QuestionTypes
  <2> QED
    BY <1>1, <2>1, <2>2 DEF QueueOK, Ending
<1>4. m.state = WaitState[e.type] /\ m.state # "Finished" /\ e.id = m.effect_id
      /\ (e.type = "LlmCall" => e.arg.messages = m.messages)
  BY <1>3 DEF Awaited, WaitState, QuestionTypes
<1>5. \A k \in 1..Len(n.pending) : n.pending[k].type = "Progress"
  <2> TAKE k \in 1..Len(n.pending)
  <2>1. k + 1 \in 1..Len(m.pending) /\ 1 \in 1..Len(m.pending) /\ k + 1 # 1 /\ n.pending[k] = m.pending[k + 1]
    BY <1>2
  <2>2. m.pending[1].type \in QuestionTypes
    BY <1>2
  <2>3. m.pending[k + 1].type \notin QuestionTypes
    BY <1>1, <2>1, <2>2 DEF QueueOK
  <2>4. ~Awaited(m, low, m.pending[k + 1]) /\ ~Ending(m, asked, m.pending[k + 1])
    BY <1>4, <2>3 DEF Awaited, Ending
  <2> QED
    BY <1>1, <2>1, <2>4 DEF QueueOK
<1>6. pr # "standard" => Handed(n.pending, n.events, n.cursor, draft)
  <2> HAVE pr # "standard"
  <2>1. m.events \in Seq(EventsOf(pr)) /\ m.pending \in Seq(Effects(pr)) /\ m.cursor \in 0..Len(m.events)
    BY <1>1 DEF Machines
  <2>2. Handed(m.pending, m.events, m.cursor, draft)
    BY <1>1
  <2>3. Handed(Tail(m.pending), m.events, m.cursor,
               IF Head(m.pending).type \in QuestionTypes THEN draft ELSE draft \o Head(m.pending).delta)
    BY <2>1, <2>2, HandedTail
  <2> QED
    BY <1>2, <2>3 DEF SameTurn
<1>7. Open(n, pr, draft)
  BY <1>1, <1>2, <1>4, <1>5, <1>6 DEF Open, SameTurn, SameWait
<1>8. Counted(n, asked, requests)
  BY <1>1, <1>2 DEF Counted, SameTurn, SameWait, Limited, AfterModel
<1>9. low <= n.next_effect_id /\ n.state = WaitState[e.type] /\ n.effect_id = e.id
      /\ (e.type = "LlmCall" => e.arg.messages = n.messages) /\ n.checkpoint = m.checkpoint
  BY <1>1, <1>2, <1>4 DEF SameTurn, SameWait
<1> QED
  BY <1>7, <1>8, <1>9 DEF n

\* A report is taken: the draft takes its events if it can be resumed from there,
\* which is always the case without tool calls.
LEMMA ReportTaken ==
  ASSUME NEW pr, NEW m, NEW low, NEW draft, NEW asked, NEW requests,
         Sound(m, pr, low, draft, asked, requests), m.pending # <<>>,
         Head(m.pending).type = "Progress"
  PROVE  Sound(Rest(m), pr, low, Boundary(draft, Head(m.pending)), asked, requests)
<1> DEFINE n == Rest(m)
           e == Head(m.pending)
<1>1. /\ m \in Machines(pr) /\ pr \in Protocols /\ QueueOK(m, low, asked)
      /\ m.cursor <= Len(m.events) /\ m.effect_id < m.next_effect_id /\ low <= m.next_effect_id
      /\ (pr # "standard" => Handed(m.pending, m.events, m.cursor, draft))
      /\ Counted(m, asked, requests)
  BY DEF Sound
<1>2. /\ n \in Machines(pr) /\ SameTurn(m, n) /\ SameWait(m, n) /\ n.cursor = m.cursor
      /\ n.pending = Tail(m.pending) /\ Len(m.pending) = Len(n.pending) + 1
      /\ Len(n.pending) \in Nat
      /\ Head(m.pending) = m.pending[1] /\ Head(m.pending) \in Effects(pr)
      /\ \A k \in 1..Len(n.pending) : n.pending[k] = m.pending[k + 1]
  BY <1>1, RestIs
<1> HIDE DEF n
<1>3. e.type \notin QuestionTypes
  BY DEF QuestionTypes
<1>4. pr # "standard" => Handed(n.pending, n.events, n.cursor, Boundary(draft, e))
  <2> HAVE pr # "standard"
  <2>1. m.events \in Seq(EventsOf(pr)) /\ m.pending \in Seq(Effects(pr)) /\ m.cursor \in 0..Len(m.events)
    BY <1>1 DEF Machines
  <2>2. Handed(m.pending, m.events, m.cursor, draft)
    BY <1>1
  <2>3. Handed(Tail(m.pending), m.events, m.cursor, IF e.type \in QuestionTypes THEN draft ELSE draft \o e.delta)
    BY <2>1, <2>2, HandedTail
  <2>4. e \in Reports(pr)
    BY <1>2, <1>3 DEF Effects, Dones, Reports, Questions, Question, QuestionTypes
  <2>5. e.messages \in Seq(MessagesOf(pr)) /\ MessagesOf(pr) \cap ToolKinds = {}
    BY <2>4 DEF Reports, MessagesOf
  <2>6. ResumeSafe(e.messages)
    BY <2>5, SafeNeutral
  <2>7. Boundary(draft, e) = draft \o e.delta
    BY <2>6 DEF Boundary
  <2> HIDE DEF e
  <2> QED
    BY <1>2, <1>3, <2>3, <2>7 DEF SameTurn
<1>5. QueueOK(n, low, asked)
  <2>1. ASSUME NEW k \in 1..Len(n.pending)
        PROVE  \/ n.pending[k].type = "Progress"
               \/ Awaited(n, low, n.pending[k])
               \/ k = Len(n.pending) /\ Ending(n, asked, n.pending[k])
    <3>1. k + 1 \in 1..Len(m.pending) /\ n.pending[k] = m.pending[k + 1]
          /\ (k + 1 = Len(m.pending) => k = Len(n.pending))
      BY <1>2
    <3>2. \/ m.pending[k + 1].type = "Progress"
          \/ Awaited(m, low, m.pending[k + 1])
          \/ k + 1 = Len(m.pending) /\ Ending(m, asked, m.pending[k + 1])
      BY <1>1, <3>1 DEF QueueOK
    <3>3. Awaited(m, low, m.pending[k + 1]) => Awaited(n, low, m.pending[k + 1])
      BY <1>2 DEF Awaited, SameTurn, SameWait
    <3>4. Ending(m, asked, m.pending[k + 1]) => Ending(n, asked, m.pending[k + 1])
      BY <1>2 DEF Ending, SameWait
    <3> QED
      BY <3>1, <3>2, <3>3, <3>4
  <2>2. ASSUME NEW k \in 1..Len(n.pending), NEW l \in 1..Len(n.pending),
               n.pending[k].type \in QuestionTypes, n.pending[l].type \in QuestionTypes
        PROVE  k = l
    <3>1. k + 1 \in 1..Len(m.pending) /\ l + 1 \in 1..Len(m.pending)
          /\ n.pending[k] = m.pending[k + 1] /\ n.pending[l] = m.pending[l + 1]
      BY <1>2
    <3>2. k + 1 = l + 1
      BY <1>1, <2>2, <3>1 DEF QueueOK
    <3> QED
      BY <3>2
  <2>3. ASSUME n.state \in {WaitState[t] : t \in QuestionTypes}
        PROVE  \E k \in 1..Len(n.pending) : n.pending[k].type \in QuestionTypes
    <3>1. m.state \in {WaitState[t] : t \in QuestionTypes}
      BY <1>2, <2>3 DEF SameWait
    <3>2. PICK k \in 1..Len(m.pending) : m.pending[k].type \in QuestionTypes
      BY <1>1, <3>1 DEF QueueOK
    <3>3. k # 1
      BY <1>2, <1>3, <3>2
    <3>4. k - 1 \in 1..Len(n.pending) /\ (k - 1) + 1 = k
      BY <1>2, <3>3
    <3>5. n.pending[k - 1] = m.pending[k]
      BY <1>2, <3>4
    <3> QED
      BY <3>2, <3>4, <3>5
  <2>4. n.state = "Finished" => n.cursor = Len(n.events)
    BY <1>1, <1>2 DEF QueueOK, SameTurn, SameWait
  <2> QED
    BY <2>1, <2>2, <2>3, <2>4 DEF QueueOK
<1>6. Counted(n, asked, requests)
  BY <1>1, <1>2 DEF Counted, SameTurn, SameWait, Limited, AfterModel
<1> HIDE DEF e
<1>7. Sound(n, pr, low, Boundary(draft, e), asked, requests)
  BY <1>1, <1>2, <1>4, <1>5, <1>6 DEF Sound, SameTurn, SameWait
<1> QED
  BY <1>7 DEF n, e

\* The end of the turn is taken: it was the last effect, and hands over the rest.
LEMMA DoneTaken ==
  ASSUME NEW pr, NEW m, NEW low, NEW draft, NEW asked, NEW requests,
         Sound(m, pr, low, draft, asked, requests), m.pending # <<>>,
         Head(m.pending).type = "Done"
  PROVE  LET e == Head(m.pending)
             n == [Rest(m) EXCEPT !.messages = e.messages]
         IN  /\ Sound(n, pr, low, draft \o e.delta, asked, requests)
             /\ n.state = "Finished" /\ n.pending = <<>> /\ n.messages = e.messages
             /\ ResumeSafe(e.messages) /\ e.outcome \in Outcomes /\ e.delta \in Seq(EventsOf(pr))
             /\ e.outcome \in Answered => Count(e.messages, "delivered") = Count(asked, "delivered")
<1> DEFINE r == Rest(m)
           e == Head(m.pending)
           n == [r EXCEPT !.messages = e.messages]
<1>1. /\ m \in Machines(pr) /\ pr \in Protocols /\ QueueOK(m, low, asked)
      /\ m.cursor <= Len(m.events) /\ m.effect_id < m.next_effect_id /\ low <= m.next_effect_id
      /\ (pr # "standard" => Handed(m.pending, m.events, m.cursor, draft))
      /\ Counted(m, asked, requests)
  BY DEF Sound
<1>2. /\ r \in Machines(pr) /\ SameTurn(m, r) /\ SameWait(m, r) /\ r.cursor = m.cursor
      /\ r.pending = Tail(m.pending) /\ Len(m.pending) = Len(r.pending) + 1
      /\ Len(r.pending) \in Nat
      /\ Head(m.pending) = m.pending[1] /\ Head(m.pending) \in Effects(pr)
      /\ \A k \in 1..Len(r.pending) : r.pending[k] = m.pending[k + 1]
  BY <1>1, RestIs
<1>3. e \in Dones(pr)
  BY <1>2 DEF Effects, Dones, Reports, Questions, Question, QuestionTypes
<1>4. e.messages \in Seq(MessagesOf(pr)) /\ e.outcome \in Outcomes /\ e.delta \in Seq(EventsOf(pr))
  BY <1>3 DEF Dones
<1>5. 1 = Len(m.pending) /\ Ending(m, asked, e)
  <2>1. 1 \in 1..Len(m.pending)
    BY <1>2
  <2>2. ~Awaited(m, low, e)
    BY DEF Awaited, QuestionTypes
  <2> QED
    BY <1>1, <1>2, <2>1, <2>2 DEF QueueOK
<1>6. r.pending = <<>>
  <2> HIDE DEF r
  <2>1. r.pending \in Seq(Effects(pr))
    BY <1>2 DEF Machines
  <2>2. Len(r.pending) = 0
    BY <1>2, <1>5
  <2> QED
    BY <2>1, <2>2
<1>7. n \in Machines(pr) /\ n.messages = e.messages /\ n.pending = <<>> /\ n.state = r.state
      /\ n.cursor = r.cursor /\ n.events = r.events /\ n.effect_id = r.effect_id
      /\ n.next_effect_id = r.next_effect_id
  <2> HIDE DEF r, e
  <2> QED
    BY <1>2, <1>4, <1>6 DEF Machines
<1>8. pr # "standard" => Handed(n.pending, n.events, n.cursor, draft \o e.delta)
  <2> HAVE pr # "standard"
  <2>1. m.events \in Seq(EventsOf(pr)) /\ m.pending \in Seq(Effects(pr)) /\ m.cursor \in 0..Len(m.events)
    BY <1>1 DEF Machines
  <2>2. Handed(m.pending, m.events, m.cursor, draft)
    BY <1>1
  <2>3. Handed(Tail(m.pending), m.events, m.cursor, IF e.type \in QuestionTypes THEN draft ELSE draft \o e.delta)
    BY <2>1, <2>2, HandedTail
  <2>4. e.type \notin QuestionTypes
    BY DEF QuestionTypes
  <2> HIDE DEF e, r, n
  <2> QED
    BY <1>2, <1>6, <1>7, <2>3, <2>4 DEF SameTurn
<1>9. m.state = "Finished" /\ ResumeSafe(e.messages)
      /\ (e.outcome \in Answered => Count(e.messages, "delivered") = Count(asked, "delivered"))
  BY <1>5 DEF Ending
<1> HIDE DEF e, r, n
<1>10. n.state = "Finished"
  BY <1>2, <1>7, <1>9 DEF SameWait
<1>11. QueueOK(n, low, asked)
  <2>1. Len(n.pending) = 0
    BY <1>7
  <2>2. n.state \notin {WaitState[t] : t \in QuestionTypes}
    BY <1>10 DEF WaitState, QuestionTypes
  <2>3. n.cursor = Len(n.events)
    BY <1>1, <1>2, <1>7, <1>9 DEF QueueOK, SameTurn
  <2> QED
    BY <2>1, <2>2, <2>3 DEF QueueOK
<1>12. Counted(n, asked, requests)
  BY <1>1, <1>9, <1>10 DEF Counted
<1>13. Sound(n, pr, low, draft \o e.delta, asked, requests)
  BY <1>1, <1>2, <1>7, <1>8, <1>11, <1>12 DEF Sound, SameTurn, SameWait
<1> QED
  BY <1>4, <1>7, <1>9, <1>10, <1>13 DEF n, e, r

\* The machine that an answer leads to.
Resumed(m, e, outcome) ==
  CASE e.type = "LlmCall" -> handle_llm_complete(m, e.id, outcome)
    [] e.type = "ToolCalls" -> handle_tool_results(m, e.id, outcome)
    [] e.type = "ExecCode" -> handle_exec_result(m, e.id, outcome)
    [] e.type = "SyncExecutionEnvironment" -> handle_execution_environment_synced(m, e.id, outcome)
    [] e.type = "Checkpoint" -> handle_checkpoint(m, e.id, outcome)

\* Whatever is answered, the machine is sound, and asks under new ids.
LEMMA ResumedSound ==
  ASSUME NEW pr, NEW m, NEW low, NEW low2 \in Nat, NEW draft, NEW asked, NEW requests, NEW outcome,
         Sound(m, pr, low, draft, asked, requests), m.pending # <<>>,
         Head(m.pending).type \in QuestionTypes, low2 <= m.next_effect_id,
         outcome \in AnswersTo(pr)[Head(m.pending).type],
         ~Aborts(Head(m.pending), outcome)
  PROVE  LET e == Head(m.pending)
             llm == e.type = "LlmCall"
         IN  Sound(poll_effect(Resumed(Rest(m), e, outcome)), pr, low2, draft,
                   IF llm THEN e.arg.messages ELSE asked, IF llm THEN requests + 1 ELSE requests)
<1> DEFINE e == Head(m.pending)
           n == Rest(m)
<1>1. /\ Open(n, pr, draft) /\ Counted(n, asked, requests)
      /\ n.state = WaitState[e.type] /\ n.effect_id = e.id
      /\ e.type = "LlmCall" => e.arg.messages = n.messages
  BY QuestionTaken
<1>2. m \in Machines(pr) /\ pr \in Protocols
  BY DEF Sound
<1>3. e \in Effects(pr) /\ SameWait(m, n)
  BY <1>2, RestIs
<1> HIDE DEF n, e
<1>4. low2 <= n.next_effect_id
  BY <1>3 DEF SameWait
<1>5. n.iteration \in Nat /\ n.protocol = pr /\ n.state # "Finished"
  BY <1>1 DEF Open, Machines
<1>6. e.type \in QuestionTypes /\ outcome \in AnswersTo(pr)[e.type] /\ ~Aborts(e, outcome)
  BY DEF e
<1>7. CASE e.type = "LlmCall"
  <2>1. n.state = "WaitingLlm" /\ outcome \in Replies(pr) \cup {Reply("cancelled", <<>>)}
    BY <1>1, <1>6, <1>7 DEF WaitState, AnswersTo
  <2>2. Limited(n) /\ ResumeSafe(n.messages) /\ requests = n.iteration + 0
    BY <1>1, <2>1 DEF Counted, AfterModel
  <2>3. requests + 1 = n.iteration + 1
    BY <1>5, <2>2
  <2>4. Sound(handle_llm_complete(n, n.effect_id, outcome), pr, low2, draft, n.messages, requests + 1)
    BY <1>1, <1>4, <2>1, <2>2, <2>3, LlmAnswered
  <2>5. Resumed(n, e, outcome) = handle_llm_complete(n, e.id, outcome)
    BY <1>7 DEF Resumed
  <2>6. Sound(Resumed(n, e, outcome), pr, low2, draft, e.arg.messages, requests + 1)
    BY <1>1, <1>7, <2>4, <2>5
  <2>7. Sound(poll_effect(Resumed(n, e, outcome)), pr, low2, draft, e.arg.messages, requests + 1)
    BY <2>6, PollSound
  <2> QED
    BY <1>7, <2>7 DEF n, e
<1>8. CASE e.type # "LlmCall"
  <2>0. SUFFICES Sound(Resumed(n, e, outcome), pr, low2, draft, asked, requests)
    <3>1. Sound(poll_effect(Resumed(n, e, outcome)), pr, low2, draft, asked, requests)
      BY <2>0, PollSound
    <3> QED
      BY <1>8, <3>1 DEF n, e
  <2>1. CASE e.type = "ToolCalls"
    <3>1. n.state = "WaitingTools" /\ outcome \in Seq(Results)
      BY <1>1, <1>6, <2>1 DEF WaitState, AnswersTo
    <3>2. pr = "standard"
      BY <1>3, <2>1 DEF Effects, Dones, Reports, Questions, Question
    <3>3. Limited(n) /\ SafeButLast(n.messages) /\ requests = n.iteration + 1
          /\ Count(n.messages, "delivered") = Count(asked, "delivered")
      BY <1>1, <3>1 DEF Counted, AfterModel
    <3>4. Sound(apply_actions(n, StandardToolResults(n, outcome)), "standard", low2, draft, asked, requests)
      BY <1>1, <1>4, <3>1, <3>2, <3>3, ToolsAnswered
    <3>5. Resumed(n, e, outcome) = apply_actions(n, StandardToolResults(n, outcome))
      BY <1>1, <1>5, <2>1, <3>1, <3>2 DEF Resumed, handle_tool_results, WaitsFor, IsRlm
    <3> QED
      BY <3>2, <3>4, <3>5
  <2>2. CASE e.type = "ExecCode"
    <3>1. n.state = "WaitingExec"
      BY <1>1, <2>2 DEF WaitState
    <3>2. pr \in {"rlm", "rlm_finish"}
      <4>1. pr # "standard"
        BY <1>3, <2>2 DEF Effects, Dones, Reports, Questions, Question
      <4> QED
        BY <1>2, <4>1 DEF Protocols
    <3>3. Limited(n) /\ Conversed(n, asked) /\ requests = n.iteration + 1
      BY <1>1, <3>1 DEF Counted, AfterModel, Conversed
    <3>4. Sound(apply_actions(n, RlmExecResult(n, outcome)), pr, low2, draft, asked, requests)
      BY <1>1, <1>4, <3>1, <3>2, <3>3, ExecAnswered
    <3>5. Resumed(n, e, outcome) = apply_actions(n, RlmExecResult(n, outcome))
      BY <1>1, <1>5, <2>2, <3>1, <3>2 DEF Resumed, handle_exec_result, WaitsFor, IsRlm
    <3> QED
      BY <3>4, <3>5
  <2>3. CASE e.type = "SyncExecutionEnvironment"
    <3>1. n.state = "WaitingExecutionEnvironment"
      BY <1>1, <2>3 DEF WaitState
    <3>2. Resumed(n, e, outcome) = handle_execution_environment_synced(n, n.effect_id, outcome)
      BY <1>1, <2>3 DEF Resumed
    <3> QED
      BY <1>1, <1>4, <3>1, <3>2, SyncAnswered
  <2>4. CASE e.type = "Checkpoint"
    <3>1. n.state = "WaitingCheckpoint"
      BY <1>1, <2>4 DEF WaitState
    <3>2. outcome \in Seq({"delivered"})
      BY <1>6, <2>4 DEF AnswersTo, Deliveries, Aborts
    <3>3. Resumed(n, e, outcome) = handle_checkpoint(n, n.effect_id, outcome)
      BY <1>1, <2>4 DEF Resumed
    <3> QED
      BY <1>1, <1>4, <3>1, <3>2, <3>3, CheckpointAnswered
  <2> QED
    BY <1>6, <1>8, <2>1, <2>2, <2>3, <2>4 DEF QuestionTypes
<1> QED
  BY <1>7, <1>8

\* The same for what the host keeps.
LEMMA AnswerSound ==
  ASSUME NEW pr, NEW r \in Runs(pr), NEW low, NEW low2 \in Nat, NEW m, NEW outcome,
         Sound(m, pr, low, r.draft, r.asked, r.requests), m.pending # <<>>,
         Head(m.pending).type \in QuestionTypes, low2 <= m.next_effect_id,
         outcome \in AnswersTo(pr)[Head(m.pending).type],
         ~Aborts(Head(m.pending), outcome), ~r.claimed
  PROVE  LET a == Answer(r, Rest(m), Head(m.pending), outcome)
         IN  /\ a \in Runs(pr) /\ Sound(a.mach, pr, low2, a.draft, a.asked, a.requests)
             /\ a.batch = r.batch /\ ~a.claimed /\ a.mine = r.mine
<1> DEFINE e == Head(m.pending)
           n == Rest(m)
           p == poll_effect(Resumed(n, e, outcome))
           llm == e.type = "LlmCall"
           x == IF llm THEN e.arg.messages ELSE r.asked
           q == IF llm THEN r.requests + 1 ELSE r.requests
           b == IF e.type = "ExecCode" THEN r.blocks \cup {e.id} ELSE r.blocks
           a == Answer(r, n, e, outcome)
<1>1. Sound(p, pr, low2, r.draft, x, q)
  BY ResumedSound
<1>2. e \in Effects(pr) /\ e.type \in QuestionTypes
  <2>1. m \in Machines(pr)
    BY DEF Sound
  <2> QED
    BY <2>1, RestIs
<1>3. p \in Machines(pr)
  BY <1>1 DEF Sound
<1> HIDE DEF n, e
<1>4. x \in Seq(MessagesOf(pr)) /\ q \in Nat /\ b \in SUBSET Nat
  <2>1. r.asked \in Seq(MessagesOf(pr)) /\ r.requests \in Nat /\ r.blocks \in SUBSET Nat
    BY DEF Runs
  <2>2. e.type = "LlmCall" => e.arg.messages \in Seq(MessagesOf(pr))
    BY <1>2 DEF Effects, Dones, Reports, Questions, Question
  <2>3. e.type = "ExecCode" => e.id \in Nat
    BY <1>2 DEF Effects, Dones, Reports, Questions, Question
  <2> QED
    BY <2>1, <2>2, <2>3
<1>5. /\ a.mach = p /\ a.asked = x /\ a.requests = q /\ a.blocks = b /\ a.draft = r.draft
      /\ a.batch = r.batch /\ ~a.claimed /\ a.mine = r.mine
      /\ a \in Runs(pr)
  <2>1. CASE e.type = "LlmCall"
    <3>1. a = [r EXCEPT !.mach = p, !.asked = x, !.requests = q] /\ b = r.blocks
      BY <2>1 DEF Answer, Resumed
    <3> HIDE DEF a, p, x, q, b
    <3> QED
      BY <1>3, <1>4, <3>1 DEF Runs
  <2>2. CASE e.type = "ExecCode"
    <3>1. a = [r EXCEPT !.mach = p, !.blocks = b] /\ x = r.asked /\ q = r.requests
      BY <2>2 DEF Answer, Resumed
    <3> HIDE DEF a, p, x, q, b
    <3> QED
      BY <1>3, <1>4, <3>1 DEF Runs
  <2>3. CASE e.type \in {"ToolCalls", "SyncExecutionEnvironment", "Checkpoint"}
    <3>1. a = [r EXCEPT !.mach = p] /\ x = r.asked /\ q = r.requests /\ b = r.blocks
      BY <2>3 DEF Answer, Resumed
    <3> HIDE DEF a, p, x, q, b
    <3> QED
      BY <1>3, <1>4, <3>1 DEF Runs
  <2> QED
    BY <1>2, <2>1, <2>2, <2>3 DEF QuestionTypes
<1> HIDE DEF p, x, q, b, a
<1>6. Sound(a.mach, pr, low2, a.draft, a.asked, a.requests)
  BY <1>1, <1>5
<1> QED
  BY <1>5, <1>6 DEF a, n, e

-----------------------------------------------------------------------------
(* Tool batches. *)

\* The calls of a batch have a mode and at least one attempt.
LEMMA CallsAre ==
  ASSUME NEW calls \in Batches \cup {<<>>}
  PROVE  /\ Len(calls) \in Nat /\ DOMAIN calls = 1..Len(calls)
         /\ \A i \in 1..Len(calls) : calls[i].mode \in Modes /\ calls[i].max \in Nat \ {0}
<1> DEFINE C == [mode: Modes, max: Nat \ {0}]
<1>1. Batches \subseteq Seq(C)
  BY HostAssumption
<1>2. \A c \in C : c.mode \in Modes /\ c.max \in Nat \ {0}
  OBVIOUS
<1> HIDE DEF C
<1>3. calls \in Seq(C)
  <2>1. <<>> \in Seq(C)
    OBVIOUS
  <2> QED
    BY <1>1, <2>1
<1>4. Len(calls) \in Nat /\ DOMAIN calls = 1..Len(calls) /\ \A i \in 1..Len(calls) : calls[i] \in C
  BY <1>3
<1> QED
  BY <1>2, <1>4

\* The calls of a batch.
LEMMA CallsOf ==
  ASSUME NEW b, BatchOK(b)
  PROVE  /\ b \in BatchStates /\ Len(b.calls) \in Nat /\ DOMAIN b.calls = 1..Len(b.calls)
         /\ \A i \in 1..Len(b.calls) : b.calls[i].mode \in Modes /\ b.calls[i].max \in Nat \ {0}
<1>1. b \in BatchStates /\ b.calls \in Batches \cup {<<>>}
  BY DEF BatchOK, BatchStates
<1> QED
  BY <1>1, CallsAre

\* A batch that starts.
LEMMA NewBatchOK ==
  ASSUME NEW calls \in Batches \cup {<<>>}
  PROVE  BatchOK(NewBatch(calls)) /\ NewBatch(calls).calls = calls
<1> DEFINE b == NewBatch(calls)
           n == Len(calls)
<1>1. n \in Nat /\ DOMAIN calls = 1..n /\ \A i \in 1..n : calls[i].max \in Nat \ {0}
  BY CallsAre
<1>2. /\ b.calls = calls /\ b.status = [i \in 1..n |-> "waiting"] /\ b.attempt = [i \in 1..n |-> 1]
      /\ b.result = [i \in 1..n |-> "none"]
  BY <1>1 DEF NewBatch
<1> HIDE DEF n
<1>3. /\ [i \in 1..n |-> "waiting"] \in Seq(Statuses) /\ Len([i \in 1..n |-> "waiting"]) = n
      /\ [i \in 1..n |-> 1] \in Seq(Nat) /\ Len([i \in 1..n |-> 1]) = n
      /\ [i \in 1..n |-> "none"] \in Seq(Results) /\ Len([i \in 1..n |-> "none"]) = n
  BY <1>1 DEF Statuses, Results
<1>4. b \in BatchStates
  BY <1>1, <1>3 DEF NewBatch, BatchStates
<1> HIDE DEF b
<1>5. BatchOK(b)
  BY <1>1, <1>2, <1>3, <1>4 DEF BatchOK, n
<1> QED
  BY <1>2, <1>5 DEF b

\* What a step of one call changes, and what it must respect.
LEMMA CallStep ==
  ASSUME NEW b, BatchOK(b), NEW i \in 1..Len(b.calls), NEW c \in BatchStates, c.calls = b.calls,
         Len(c.status) = Len(b.calls), Len(c.attempt) = Len(b.calls), Len(c.result) = Len(b.calls),
         \A j \in 1..Len(b.calls) : j # i => c.status[j] = b.status[j] /\ c.attempt[j] = b.attempt[j],
         c.attempt[i] \in 1..b.calls[i].max,
         b.status[i] # "done" \/ c.status[i] = "done",
         b.status[i] # "waiting" \/ c.status[i] = "waiting" \/ MayStart(b, i)
  PROVE  BatchOK(c)
<1> SUFFICES ASSUME NEW k \in 1..Len(b.calls), c.status[k] # "waiting", b.calls[k].mode = "serial",
                    NEW j \in 1..Len(b.calls), j # k, b.calls[j].mode = "parallel" \/ j < k
             PROVE  Done(c, j)
  BY DEF BatchOK
<1>1. Done(b, j)
  <2>1. CASE k = i /\ b.status[i] = "waiting"
    <3>1. MayStart(b, i) /\ DOMAIN b.calls = 1..Len(b.calls)
      BY <2>1, CallsOf
    <3> QED
      BY <2>1, <3>1 DEF MayStart
  <2>2. CASE ~(k = i /\ b.status[i] = "waiting")
    <3>1. b.status[k] # "waiting"
      BY <2>2
    <3> QED
      BY <3>1 DEF BatchOK
  <2> QED
    BY <2>1, <2>2
<1> QED
  BY <1>1 DEF Done

\* A call starts.
LEMMA BatchStarts ==
  ASSUME NEW b, BatchOK(b), NEW i \in DOMAIN b.calls, MayStart(b, i)
  PROVE  BatchOK(StartCall(b, i)) /\ StartCall(b, i).calls = b.calls
<1> DEFINE s == [b.status EXCEPT ![i] = "running"]
           c == [b EXCEPT !.status = s]
<1>1. b \in BatchStates /\ DOMAIN b.calls = 1..Len(b.calls)
  BY CallsOf
<1>2. i \in 1..Len(b.calls)
  BY <1>1
<1>3. s \in Seq(Statuses) /\ Len(s) = Len(b.calls) /\ s[i] = "running"
      /\ \A j \in 1..Len(b.calls) : j # i => s[j] = b.status[j]
  <2>1. b.status \in Seq(Statuses) /\ Len(b.status) = Len(b.calls) /\ "running" \in Statuses
    BY DEF BatchOK, BatchStates, Statuses
  <2> QED
    BY <1>2, <2>1
<1> HIDE DEF s
<1>4. c \in BatchStates /\ c.calls = b.calls /\ c.status = s /\ c.attempt = b.attempt /\ c.result = b.result
  BY <1>1, <1>3 DEF BatchStates
<1>5. StartCall(b, i) = c
  BY DEF StartCall, s
<1>6. b.attempt[i] \in 1..b.calls[i].max /\ b.status[i] = "waiting"
      /\ Len(b.attempt) = Len(b.calls) /\ Len(b.result) = Len(b.calls)
  BY <1>2 DEF BatchOK, MayStart
<1> HIDE DEF c
<1>7. BatchOK(c)
  BY <1>2, <1>3, <1>4, <1>6, CallStep
<1> QED
  BY <1>4, <1>5, <1>7

\* A call ends.
LEMMA BatchEnds ==
  ASSUME NEW b, BatchOK(b), NEW i \in Running(b), NEW r \in Results
  PROVE  BatchOK(EndCall(b, i, r)) /\ EndCall(b, i, r).calls = b.calls
<1> DEFINE s == [b.status EXCEPT ![i] = "done"]
           t == [b.result EXCEPT ![i] = r]
           c == [b EXCEPT !.status = s, !.result = t]
<1>1. b \in BatchStates /\ DOMAIN b.calls = 1..Len(b.calls)
  BY CallsOf
<1>2. i \in 1..Len(b.calls) /\ b.status[i] = "running"
  BY <1>1 DEF Running
<1>3. s \in Seq(Statuses) /\ Len(s) = Len(b.calls) /\ s[i] = "done"
      /\ \A j \in 1..Len(b.calls) : j # i => s[j] = b.status[j]
  <2>1. b.status \in Seq(Statuses) /\ Len(b.status) = Len(b.calls) /\ "done" \in Statuses
    BY DEF BatchOK, BatchStates, Statuses
  <2> QED
    BY <1>2, <2>1
<1>4. t \in Seq(Results) /\ Len(t) = Len(b.calls)
  <2>1. b.result \in Seq(Results) /\ Len(b.result) = Len(b.calls)
    BY DEF BatchOK, BatchStates
  <2> QED
    BY <1>2, <2>1
<1> HIDE DEF s, t
<1>5. c \in BatchStates /\ c.calls = b.calls /\ c.status = s /\ c.attempt = b.attempt /\ c.result = t
  BY <1>1, <1>3, <1>4 DEF BatchStates
<1>6. EndCall(b, i, r) = c
  BY DEF EndCall, s, t
<1>7. b.attempt[i] \in 1..b.calls[i].max /\ Len(b.attempt) = Len(b.calls)
  BY <1>2 DEF BatchOK
<1> HIDE DEF c
<1>8. BatchOK(c)
  BY <1>2, <1>3, <1>4, <1>5, <1>7, CallStep
<1> QED
  BY <1>5, <1>6, <1>8

\* An attempt is answered: the call ends or tries again within its limit.
LEMMA BatchAttempt ==
  ASSUME NEW b, BatchOK(b), NEW i \in Running(b), NEW r \in ToolOutcomes
  PROVE  BatchOK(AttemptEnds(b, i, r)) /\ AttemptEnds(b, i, r).calls = b.calls
<1>1. r \in Results /\ "failure" \in Results
  BY DEF Results
<1>2. CASE r # "retryable"
  BY <1>1, <1>2, BatchEnds DEF AttemptEnds
<1>3. CASE r = "retryable" /\ b.attempt[i] >= b.calls[i].max
  BY <1>1, <1>3, BatchEnds DEF AttemptEnds
<1>4. CASE r = "retryable" /\ ~(b.attempt[i] >= b.calls[i].max)
  <2> DEFINE s == [b.attempt EXCEPT ![i] = @ + 1]
             c == [b EXCEPT !.attempt = s]
  <2>1. b \in BatchStates /\ DOMAIN b.calls = 1..Len(b.calls)
    BY CallsOf
  <2>2. i \in 1..Len(b.calls) /\ b.status[i] = "running" /\ b.calls[i].max \in Nat
    <3>1. i \in 1..Len(b.calls)
      BY <2>1 DEF Running
    <3>2. b.calls[i].max \in Nat \ {0}
      BY <3>1, CallsOf
    <3> QED
      BY <3>1, <3>2 DEF Running
  <2>3. b.attempt[i] \in 1..b.calls[i].max
    BY <2>2 DEF BatchOK
  <2>4. s \in Seq(Nat) /\ Len(s) = Len(b.calls) /\ s[i] = b.attempt[i] + 1
        /\ \A j \in 1..Len(b.calls) : j # i => s[j] = b.attempt[j]
    <3>1. b.attempt \in Seq(Nat) /\ Len(b.attempt) = Len(b.calls) /\ b.attempt[i] \in Nat
      BY <2>3 DEF BatchOK, BatchStates
    <3>2. b.attempt[i] + 1 \in Nat
      BY <3>1
    <3> QED
      BY <2>2, <3>1, <3>2
  <2> HIDE DEF s
  <2>5. c \in BatchStates /\ c.calls = b.calls /\ c.attempt = s /\ c.status = b.status /\ c.result = b.result
    BY <2>1, <2>4 DEF BatchStates
  <2>6. AttemptEnds(b, i, r) = c
    BY <1>4 DEF AttemptEnds, s
  <2>7. Len(b.status) = Len(b.calls) /\ Len(b.result) = Len(b.calls)
    BY DEF BatchOK
  <2>8. s[i] \in 1..b.calls[i].max
    BY <1>4, <2>2, <2>3, <2>4
  <2> HIDE DEF c
  <2>9. BatchOK(c)
    BY <2>2, <2>4, <2>5, <2>7, <2>8, CallStep
  <2> QED
    BY <2>5, <2>6, <2>9
<1> QED
  BY <1>2, <1>3, <1>4

\* The order in which calls start keeps a serial call alone.
LEMMA BatchSerial ==
  ASSUME NEW b, BatchOK(b), NEW i \in Running(b), NEW j \in Running(b), b.calls[i].mode = "serial"
  PROVE  i = j
<1>1. DOMAIN b.calls = 1..Len(b.calls)
  BY CallsOf
<1>2. /\ i \in 1..Len(b.calls) /\ b.status[i] = "running"
      /\ j \in 1..Len(b.calls) /\ b.status[j] = "running"
  BY <1>1 DEF Running
<1>3. b.calls[j].mode \in Modes
  BY <1>2, CallsOf
<1>4. CASE b.calls[j].mode = "parallel"
  BY <1>2, <1>4 DEF BatchOK, Done
<1>5. CASE b.calls[j].mode = "serial"
  BY <1>2, <1>5 DEF BatchOK, Done
<1> QED
  BY <1>3, <1>4, <1>5 DEF Modes

-----------------------------------------------------------------------------
(* Claims of queued work. *)

\* What a claim takes and leaves, at either boundary and for every limit.
LEMMA ClaimKeeps ==
  ASSUME NEW boundary \in Boundaries, NEW max \in Nat, cands \in Seq(Kinds(MergeKeys)),
         SelectTurnWork(cands, boundary, max) > 0,
         Claimed(boundary, max, SelectTurnWork(cands, boundary, max))
  PROVE  cands' \in Seq(Kinds(MergeKeys)) /\ OneGroupPerClaim' /\ ClaimIsMaximal'
<1> DEFINE K == Kinds(MergeKeys)
           n == SelectTurnWork(cands, boundary, max)
           taken == SubSeq(cands, 1, n)
           left == SubSeq(cands, n + 1, Len(cands))
           first == cands[1]
<1>1. /\ n \in 0..Len(cands) /\ n <= max /\ n # 0
      /\ Admits(first, boundary) /\ cands # <<>>
      /\ n > 1 => first.slot = "join"
      /\ \A i \in 2..n : Joins(cands[i], first)
      /\ n \notin {0, max, Len(cands)} => first.slot # "join" \/ ~Joins(cands[n + 1], first)
  <2>1. LET k == SelectTurnWork(cands, boundary, max)
        IN  /\ k \in 0..Len(cands) /\ k <= max
            /\ k = 0 <=> max = 0 \/ cands = <<>> \/ ~Admits(cands[1], boundary)
            /\ k > 1 => cands[1].slot = "join"
            /\ \A i \in 2..k : Joins(cands[i], cands[1])
            /\ k \notin {0, max, Len(cands)} => cands[1].slot # "join" \/ ~Joins(cands[k + 1], cands[1])
    BY SelectionRule
  <2>2. n # 0
    BY <2>1
  <2> HIDE DEF n
  <2> QED
    BY <2>1, <2>2 DEF n
<1>2. /\ cands' = left /\ last'.boundary = boundary /\ last'.max = max
      /\ last'.taken = taken /\ last'.left = left
  BY DEF Claimed
<1> HIDE DEF n
<1>3. /\ taken \in Seq(K) /\ left \in Seq(K) /\ Len(taken) = n /\ n \in Nat
      /\ \A i \in 1..n : taken[i] = cands[i] /\ taken[i] \in K
      /\ Len(left) = Len(cands) - n
      /\ left # <<>> => n < Len(cands) /\ Head(left) = cands[n + 1] /\ cands[n + 1] \in K
  <2> HIDE DEF K
  <2>1. cands \in Seq(K) /\ n \in 1..Len(cands)
    BY <1>1 DEF K
  <2>2. /\ taken \in Seq(K) /\ Len(taken) = n /\ \A i \in 1..n : taken[i] = cands[i] /\ cands[i] \in K
    BY <2>1
  <2>3. left \in Seq(K) /\ Len(left) = Len(cands) - n
    BY <2>1
  <2>4. ASSUME left # <<>> PROVE n < Len(cands) /\ Head(left) = cands[n + 1] /\ cands[n + 1] \in K
    <3>1. n < Len(cands)
      <4>1. Len(left) # 0
        <5> HIDE DEF left
        <5> QED
          BY <2>3, <2>4
      <4> QED
        BY <2>1, <2>3, <4>1
    <3> QED
      BY <2>1, <3>1
  <2> QED
    BY <2>1, <2>2, <2>3, <2>4
<1> HIDE DEF taken, left
<1>4. DOMAIN taken = 1..n
  BY <1>3
<1>5. ASSUME NEW i \in 1..n
      PROVE  /\ taken[i].class = "turn_work"
             /\ boundary = "active_turn_checkpoint" => taken[i].delivery = "earliest_safe_boundary"
             /\ n > 1 => /\ taken[i].slot = first.slot /\ taken[i].delivery = first.delivery
                         /\ taken[i].key = first.key
  <2>1. CASE i = 1
    BY <1>1, <1>3, <2>1 DEF Admits
  <2>2. CASE i # 1
    <3>1. i \in 2..n /\ n > 1
      BY <1>3, <2>2
    <3>2. Joins(taken[i], first) /\ first.slot = "join"
      BY <1>1, <1>3, <3>1
    <3> QED
      BY <1>1, <3>2 DEF Joins, Admits
  <2> QED
    BY <2>1, <2>2
<1>6. n > 1 => Cardinality({<<taken[i].slot, taken[i].delivery, taken[i].key>> : i \in 1..n}) = 1
  <2> HAVE n > 1
  <2> DEFINE x == <<first.slot, first.delivery, first.key>>
  <2>1. \A i \in 1..n : <<taken[i].slot, taken[i].delivery, taken[i].key>> = x
    BY <1>5
  <2>2. 1 \in 1..n
    BY <1>3
  <2> HIDE DEF x
  <2>3. {<<taken[i].slot, taken[i].delivery, taken[i].key>> : i \in 1..n} = {x}
    BY <2>1, <2>2
  <2>4. Cardinality({x}) = 1
    BY FS_Singleton
  <2> QED
    BY <2>3, <2>4
<1>7. OneGroupPerClaim'
  <2>1. Len(taken) <= max
    BY <1>1, <1>3
  <2>2. \A i \in 1..n : taken[i].class = "turn_work"
    BY <1>5
  <2>3. boundary = "active_turn_checkpoint" =>
          \A i \in 1..n : taken[i].delivery = "earliest_safe_boundary"
    BY <1>5
  <2>4. Len(taken) > 1 =>
          Cardinality({<<taken[i].slot, taken[i].delivery, taken[i].key>> : i \in 1..n}) = 1
    BY <1>3, <1>6
  <2> QED
    BY <1>2, <1>4, <2>1, <2>2, <2>3, <2>4 DEF OneGroupPerClaim
<1>8. ClaimIsMaximal'
  <2>1. ASSUME left # <<>>, n # max, first.slot # "exclusive"
        PROVE  \/ Head(left).class = "session_command" \/ Head(left).slot = "exclusive"
               \/ Head(left).delivery # first.delivery \/ Head(left).key # first.key
    <3>1. n < Len(cands) /\ Head(left) = cands[n + 1] /\ cands[n + 1] \in K
      BY <1>3, <2>1
    <3>2. first \in K
      BY <1>1, <1>3
    <3>3. first.slot = "join"
      BY <2>1, <3>2 DEF Kinds, SlotPolicies
    <3>4. ~Joins(cands[n + 1], first)
      BY <1>1, <1>3, <2>1, <3>1, <3>3
    <3> QED
      BY <3>1, <3>4 DEF Joins, Kinds, Classes, SlotPolicies
  <2>2. taken[1] = first
    BY <1>1, <1>3
  <2>3. \/ left = <<>> \/ Len(taken) = max \/ taken[1].slot = "exclusive"
        \/ Head(left).class = "session_command" \/ Head(left).slot = "exclusive"
        \/ Head(left).delivery # taken[1].delivery \/ Head(left).key # taken[1].key
    <3> HIDE DEF first
    <3> QED
      BY <1>3, <2>1, <2>2
  <2> QED
    BY <1>2, <2>3 DEF ClaimIsMaximal
<1> QED
  BY <1>2, <1>3, <1>7, <1>8

\* An idle runner finds work in every queue that is not empty.
LEMMA IdleClaims ==
  ASSUME cands \in Seq(Kinds(MergeKeys))
  PROVE  IdleRunnerProgress
<1> SUFFICES ASSUME cands # <<>>, ~(SelectCommand(cands) > 0)
             PROVE  SelectTurnWork(cands, "idle", MaxBatches) > 0
  BY DEF IdleRunnerProgress
<1> DEFINE K == Kinds(MergeKeys)
           n == SelectTurnWork(cands, "idle", MaxBatches)
<1>1. Head(cands) = cands[1] /\ cands[1] \in K
  <2> HIDE DEF K
  <2>1. cands \in Seq(K) /\ cands # <<>>
    BY DEF K
  <2> QED
    BY <2>1
<1>2. cands[1].class = "turn_work"
  <2>1. cands[1].class # "session_command"
    BY <1>1 DEF SelectCommand
  <2> QED
    BY <1>1, <2>1 DEF Kinds, Classes
<1>3. Admits(cands[1], "idle")
  BY <1>2 DEF Admits
<1>4. MaxBatches \in Nat \ {0}
  BY HostAssumption
<1>5. n \in 0..Len(cands) /\ (n = 0 <=> MaxBatches = 0 \/ cands = <<>> \/ ~Admits(cands[1], "idle"))
  BY <1>4, SelectionRule
<1> HIDE DEF n
<1>6. n # 0 /\ n \in Nat
  BY <1>3, <1>4, <1>5
<1>7. n > 0
  BY <1>6
<1> QED
  BY <1>7 DEF n

-----------------------------------------------------------------------------
(* The run. *)

\* A run that starts.
LEMMA NewRunOK ==
  ASSUME StoreOK, NEW pr \in Protocols, NEW ph \in Phases, ph # "finishing", NEW vm \in SUBSET Nat
  PROVE  /\ RunOK(ph, NewRun(pr), pr) /\ RunOK(ph, [NewRun(pr) EXCEPT !.vm = vm], pr)
         /\ NewRun(pr).mine = <<>>
<1> DEFINE m == poll_effect(NewMachine(pr, <<"user">>))
           n == NewRun(pr)
           r == [n EXCEPT !.vm = vm]
<1>1. Sound(m, pr, 0, <<>>, <<>>, 0)
  <2>1. Sound(NewMachine(pr, <<"user">>), pr, 0, <<>>, <<>>, 0)
    BY NewSound
  <2> QED
    BY <2>1, PollSound
<1>2. m \in Machines(pr)
  BY <1>1 DEF Sound
<1> HIDE DEF m
<1>3. BatchOK(NoBatch) /\ NoBatch \in BatchStates
  <2>1. BatchOK(NoBatch)
    BY NewBatchOK DEF NoBatch
  <2> QED
    BY <2>1 DEF BatchOK
<1>4. /\ <<>> \in Deliveries /\ <<>> \in Seq(Kinds(MergeKeys)) /\ <<>> \in Seq(EventsOf(pr))
      /\ <<>> \in Seq(MessagesOf(pr)) /\ store.vm \in SUBSET Nat /\ store.blocks \in SUBSET Nat
  BY DEF Deliveries, StoreOK
<1>5. /\ n \in Runs(pr) /\ n.mach = m /\ n.draft = <<>> /\ n.asked = <<>> /\ n.requests = 0
      /\ n.batch = NoBatch /\ ~n.claimed /\ n.mine = <<>>
  BY <1>2, <1>3, <1>4 DEF NewRun, Runs, m
<1> HIDE DEF n
<1>6. RunOK(ph, n, pr)
  BY <1>1, <1>3, <1>5 DEF RunOK, InHand
<1>7. /\ r \in Runs(pr) /\ r.mach = m /\ r.draft = <<>> /\ r.asked = <<>> /\ r.requests = 0
      /\ r.batch = NoBatch /\ ~r.claimed
  BY <1>5 DEF Runs
<1> HIDE DEF r
<1>8. RunOK(ph, r, pr)
  BY <1>1, <1>3, <1>7 DEF RunOK, InHand
<1> QED
  BY <1>5, <1>6, <1>8 DEF n, r

\* A run that goes on with a sound machine and nothing in hand.
LEMMA FreeRunOK ==
  ASSUME NEW pr, NEW r \in Runs(pr), Sound(r.mach, pr, 0, r.draft, r.asked, r.requests),
         r.batch = NoBatch, ~r.claimed
  PROVE  RunOK("running", r, pr)
<1>1. BatchOK(NoBatch)
  BY NewBatchOK DEF NoBatch
<1> QED
  BY <1>1 DEF RunOK, InHand, Phases

\* An answer leaves the batch of the run alone.
LEMMA AnswerKeeps ==
  ASSUME NEW pr, NEW r \in Runs(pr), NEW m, NEW e, e.type \in QuestionTypes, NEW outcome
  PROVE  Answer(r, m, e, outcome).batch = r.batch
<1> DEFINE a == Answer(r, m, e, outcome)
<1>1. CASE e.type = "LlmCall"
  BY <1>1 DEF Answer, Runs
<1>2. CASE e.type = "ExecCode"
  BY <1>2 DEF Answer, Runs
<1>3. CASE e.type \in {"ToolCalls", "SyncExecutionEnvironment", "Checkpoint"}
  BY <1>3 DEF Answer, Runs
<1> QED
  BY <1>1, <1>2, <1>3 DEF QuestionTypes

\* An answer is taken, with what else the step keeps of it.
LEMMA AnsweredRunOK ==
  ASSUME NEW pr, NEW r \in Runs(pr), Sound(r.mach, pr, 0, r.draft, r.asked, r.requests),
         r.batch = NoBatch, ~r.claimed, r.mach.pending # <<>>,
         Head(r.mach.pending).type \in QuestionTypes, NEW outcome,
         outcome \in AnswersTo(pr)[Head(r.mach.pending).type],
         ~Aborts(Head(r.mach.pending), outcome)
  PROVE  LET a == Answer(r, Rest(r.mach), Head(r.mach.pending), outcome)
         IN  /\ a \in Runs(pr) /\ RunOK("running", a, pr)
             /\ RunOK("running", [a EXCEPT !.cancel = TRUE], pr)
             /\ \A x \in Nat : RunOK("running", [a EXCEPT !.vm = @ \cup {x}], pr)
<1> DEFINE a == Answer(r, Rest(r.mach), Head(r.mach.pending), outcome)
<1>0. 0 \in Nat /\ 0 <= r.mach.next_effect_id
  BY DEF Sound, Machines
<1>1. /\ a \in Runs(pr) /\ Sound(a.mach, pr, 0, a.draft, a.asked, a.requests)
      /\ a.batch = r.batch /\ ~a.claimed
  <2> DEFINE m == r.mach
             b == Answer(r, Rest(m), Head(m.pending), outcome)
  <2>1. \E low, low2 \in Nat :
          /\ low2 = 0 /\ low2 <= m.next_effect_id
          /\ Sound(m, pr, low, r.draft, r.asked, r.requests)
    BY <1>0
  <2>2. /\ m.pending # <<>> /\ Head(m.pending).type \in QuestionTypes
        /\ outcome \in AnswersTo(pr)[Head(m.pending).type] /\ ~Aborts(Head(m.pending), outcome)
        /\ a = b
    OBVIOUS
  <2>3. PICK low, low2 \in Nat :
          /\ low2 = 0 /\ low2 <= m.next_effect_id
          /\ Sound(m, pr, low, r.draft, r.asked, r.requests)
    BY <2>1
  <2> HIDE DEF m, a
  <2>4. b \in Runs(pr)
    BY <2>2, <2>3, AnswerSound
  <2>7. b.batch = r.batch
    BY <2>2, AnswerKeeps
  <2>5. Sound(b.mach, pr, low2, b.draft, b.asked, b.requests)
    BY <2>2, <2>3, AnswerSound
  <2>6. ~b.claimed
    BY <2>2, <2>3, AnswerSound
  <2> QED
    BY <2>2, <2>3, <2>4, <2>5, <2>6, <2>7
<1> HIDE DEF a
<1>2. RunOK("running", a, pr)
  BY <1>1, FreeRunOK
<1>3. RunOK("running", [a EXCEPT !.cancel = TRUE], pr)
  <2> DEFINE s == [a EXCEPT !.cancel = TRUE]
  <2>1. s \in Runs(pr) /\ s.mach = a.mach /\ s.draft = a.draft /\ s.asked = a.asked
        /\ s.requests = a.requests /\ s.batch = NoBatch /\ ~s.claimed
    BY <1>1 DEF Runs
  <2> HIDE DEF s
  <2>2. RunOK("running", s, pr)
    BY <1>1, <2>1, FreeRunOK
  <2> QED
    BY <2>2 DEF s
<1>4. ASSUME NEW x \in Nat PROVE RunOK("running", [a EXCEPT !.vm = @ \cup {x}], pr)
  <2> DEFINE v == a.vm \cup {x}
             s == [a EXCEPT !.vm = v]
  <2>1. v \in SUBSET Nat
    BY <1>1 DEF Runs
  <2>2. s = [a EXCEPT !.vm = @ \cup {x}]
    OBVIOUS
  <2> HIDE DEF v
  <2>3. s \in Runs(pr) /\ s.mach = a.mach /\ s.draft = a.draft /\ s.asked = a.asked
        /\ s.requests = a.requests /\ s.batch = NoBatch /\ ~s.claimed
    BY <1>1, <2>1 DEF Runs
  <2> HIDE DEF s
  <2>4. RunOK("running", s, pr)
    BY <1>1, <2>3, FreeRunOK
  <2> QED
    BY <2>2, <2>4
<1> QED
  BY <1>1, <1>2, <1>3, <1>4 DEF a

\* A step of a batch in hand.
LEMMA BatchRunOK ==
  ASSUME NEW pr, NEW r, RunOK("running", r, pr), r.batch # NoBatch,
         NEW c, BatchOK(c), c.calls = r.batch.calls
  PROVE  RunOK("running", [r EXCEPT !.batch = c], pr)
<1> DEFINE s == [r EXCEPT !.batch = c]
<1>1. r \in Runs(pr) /\ c \in BatchStates
  BY DEF RunOK, BatchOK
<1>2. s \in Runs(pr) /\ s.mach = r.mach /\ s.draft = r.draft /\ s.asked = r.asked
      /\ s.requests = r.requests /\ s.batch = c /\ s.claimed = r.claimed
  BY <1>1 DEF Runs
<1> HIDE DEF s
<1>3. RunOK("running", s, pr)
  BY <1>2 DEF RunOK, InHand
<1> QED
  BY <1>3 DEF s

-----------------------------------------------------------------------------
(* The journal. *)

\* An answer that fits its key is recorded.
LEMMA JournalGrows ==
  ASSUME NEW pr, JournalOK(pr, journal), NEW key, NEW arg, NEW outcome,
         \/ key \in Nat \X QuestionTypes \X Nat /\ outcome \in AnswersTo(pr)[key[2]]
         \/ Len(key) = 5 /\ outcome \in ToolOutcomes
  PROVE  JournalOK(pr, Recorded(key, arg, outcome))
<1> DEFINE j == Recorded(key, arg, outcome)
<1> SUFFICES ASSUME NEW k \in DOMAIN j
             PROVE  \/ k \in Nat \X QuestionTypes \X Nat /\ j[k].outcome \in AnswersTo(pr)[k[2]]
                    \/ Len(k) = 5 /\ j[k].outcome \in ToolOutcomes
  BY DEF JournalOK
<1>1. CASE k = key
  <2>1. j[k].outcome = outcome
    BY <1>1 DEF Recorded
  <2> HIDE DEF j
  <2> QED
    BY <1>1, <2>1
<1>2. CASE k # key
  <2>1. k \in DOMAIN journal /\ j[k] = journal[k]
    BY <1>2 DEF Recorded
  <2> HIDE DEF j
  <2> QED
    BY <2>1 DEF JournalOK
<1> QED
  BY <1>1, <1>2

\* The key of the question in hand has three parts.
LEMMA KeyIs ==
  ASSUME NEW pr, RunOK(phase, run, pr), run.mach.pending # <<>>, Effect.type \in QuestionTypes
  PROVE  /\ Taken = Rest(run.mach) /\ Effect \in Effects(pr) /\ Effect.id \in Nat
         /\ Key = <<run.mach.iteration, Effect.type, Effect.id>>
         /\ Key \in Nat \X QuestionTypes \X Nat /\ Key[2] = Effect.type /\ Len(Key) = 3
<1> DEFINE e == Head(run.mach.pending)
<1>1. run.mach \in Machines(pr) /\ run.mach.iteration \in Nat
  BY DEF RunOK, Runs, Machines
<1>2. e \in Effects(pr) /\ Rest(run.mach).iteration = run.mach.iteration
  BY <1>1, RestIs DEF SameTurn
<1>3. e.type \in QuestionTypes
  BY DEF Effect
<1> HIDE DEF e
<1>4. e.id \in Nat
  BY <1>2, <1>3 DEF Effects, Dones, Reports, Questions, Question, QuestionTypes
<1>5. Effect = e /\ Taken = Rest(run.mach)
  BY DEF Effect, e, Taken, Rest
<1>6. Key = <<run.mach.iteration, e.type, e.id>>
  BY <1>2, <1>5 DEF Key, EffectKey
<1> QED
  BY <1>1, <1>2, <1>3, <1>4, <1>5, <1>6

\* The answer that is recorded under the key of the effect in hand.
LEMMA RecordedAnswer ==
  ASSUME NEW pr, RunOK(phase, run, pr), JournalOK(pr, journal), run.mach.pending # <<>>,
         Effect.type \in QuestionTypes, Key \in DOMAIN journal
  PROVE  journal[Key].outcome \in AnswersTo(pr)[Effect.type]
<1>1. Key[2] = Effect.type /\ Len(Key) = 3
  BY KeyIs
<1>2. Len(Key) # 5
  BY <1>1
<1>3. journal[Key].outcome \in AnswersTo(pr)[Key[2]]
  BY <1>2 DEF JournalOK
<1> QED
  BY <1>1, <1>3

\* The length of a concatenation.
LEMMA JoinLen ==
  ASSUME NEW S, NEW x \in Seq(S), NEW y \in Seq(S)
  PROVE  Len(x \o y) = Len(x) + Len(y)
OBVIOUS

\* The key of an attempt has five, and is no key of a question.
LEMMA AttemptKeyIs ==
  ASSUME NEW pr, RunOK(phase, run, pr), run.mach.pending # <<>>, Effect.type \in QuestionTypes, NEW i
  PROVE  Len(AttemptKey(i)) = 5 /\ AttemptKey(i) \notin Nat \X QuestionTypes \X Nat
<1> DEFINE a == run.mach.iteration
           b == Effect.type
           c == Effect.id
           d == run.batch.attempt[i]
           S == {a, b, c, i, d}
<1>1. Key = <<a, b, c>>
  BY KeyIs
<1> HIDE DEF a, b, c, d
<1>2. <<a, b, c>> \in Seq(S) /\ <<i, d>> \in Seq(S) /\ Len(<<a, b, c>>) = 3 /\ Len(<<i, d>>) = 2
  OBVIOUS
<1>3. AttemptKey(i) = <<a, b, c>> \o <<i, d>>
  BY <1>1 DEF AttemptKey, d
<1>4. Len(AttemptKey(i)) = 5
  <2> DEFINE x == <<a, b, c>>
             y == <<i, d>>
  <2>1. x \in Seq(S) /\ y \in Seq(S) /\ Len(x) = 3 /\ Len(y) = 2
    BY <1>2
  <2> HIDE DEF x, y, S
  <2>2. Len(x \o y) = Len(x) + Len(y)
    BY <2>1, JoinLen
  <2>3. Len(x \o y) = 5
    BY <2>1, <2>2
  <2> QED
    BY <1>3, <2>3 DEF x, y
<1>5. \A k \in Nat \X QuestionTypes \X Nat : Len(k) = 3
  OBVIOUS
<1> DEFINE T == Nat \X QuestionTypes \X Nat
           k == AttemptKey(i)
<1>6. Len(k) = 5 /\ \A x \in T : Len(x) = 3
  BY <1>4, <1>5
<1> HIDE DEF T, k
<1>7. k \notin T
  BY <1>6
<1> QED
  BY <1>6, <1>7 DEF T, k

-----------------------------------------------------------------------------
(* What a step leaves alone. *)

\* A step that leaves the store alone.
LEMMA SameStore ==
  ASSUME StoreOK, UNCHANGED store
  PROVE  StoreOK'
BY DEF StoreOK, AnsweredAll, CommitResumes, EventsOnce

\* A step that leaves the queue and the last claim alone.
LEMMA SameClaims ==
  ASSUME ClaimsOK, UNCHANGED <<cands, last>>, stale' \in Seq(Kinds(MergeKeys))
  PROVE  ClaimsOK'
BY DEF ClaimsOK, OneGroupPerClaim, ClaimIsMaximal

\* The invariant holds after a step, and the protocol is the same.
Kept == HostInv' /\ run'.mach.protocol = run.mach.protocol

\* A step of the run, for its invariant.
LEMMA RunStep ==
  ASSUME HostInv, RunOK(phase', run', run.mach.protocol), JournalOK(run.mach.protocol, journal'),
         UNCHANGED <<cands, store, last>>, crashes' \in 0..MaxCrashes,
         stale' \in Seq(Kinds(MergeKeys))
  PROVE  Kept
<1>1. run'.mach.protocol = run.mach.protocol
  BY DEF RunOK, Runs, Machines
<1>2. StoreOK'
  BY SameStore DEF HostInv
<1>3. ClaimsOK'
  BY SameClaims DEF HostInv
<1>4. RunOK(phase', run', run'.mach.protocol) /\ JournalOK(run'.mach.protocol, journal')
  BY <1>1
<1> QED
  BY <1>1, <1>2, <1>3, <1>4 DEF HostInv, Kept

\* A run that ends without a result.
LEMMA RunEnds ==
  ASSUME HostInv, NEW how \in Phases, how # "finishing", NEW vm \in SUBSET Nat, EndRun(how, vm)
  PROVE  /\ RunOK(phase', run', run.mach.protocol) /\ stale' \in Seq(Kinds(MergeKeys))
<1> DEFINE pr == run.mach.protocol
           K == Kinds(MergeKeys)
<1>1. pr \in Protocols /\ run.mine \in Seq(K) /\ stale \in Seq(K) /\ StoreOK
  BY DEF HostInv, RunOK, Sound, Runs, ClaimsOK
<1>2. phase' = how /\ run' = [NewRun(pr) EXCEPT !.vm = vm] /\ stale' = stale \o run.mine
  BY DEF EndRun
<1> HIDE DEF K, pr
<1>3. stale' \in Seq(K)
  BY <1>1, <1>2
<1>4. RunOK(how, [NewRun(pr) EXCEPT !.vm = vm], pr)
  BY <1>1, NewRunOK
<1> QED
  BY <1>2, <1>3, <1>4 DEF K, pr

-----------------------------------------------------------------------------
(* The steps of the host. *)

\* What is known when an effect is handled.
LEMMA HandlingIs ==
  ASSUME HostInv, phase = "running", ~Busy, run.mach.pending # <<>>
  PROVE  LET pr == run.mach.protocol
         IN  /\ run \in Runs(pr) /\ pr \in Protocols /\ run.batch = NoBatch /\ ~run.claimed
             /\ Sound(run.mach, pr, 0, run.draft, run.asked, run.requests)
             /\ RunOK(phase, run, pr) /\ JournalOK(pr, journal)
             /\ Effect = Head(run.mach.pending) /\ Taken = Rest(run.mach)
             /\ stale \in Seq(Kinds(MergeKeys)) /\ crashes \in 0..MaxCrashes
BY DEF HostInv, RunOK, Busy, Effect, Taken, Rest, ClaimsOK, Sound

\* StartTurn keeps the invariant.
LEMMA StartTurnInv ==
  ASSUME HostInv, StartTurn
  PROVE  Kept
<1> DEFINE pr == run.mach.protocol
<1>1. RunOK("running", run, pr)
  BY DEF HostInv, StartTurn, RunOK, InHand, Phases
<1>2. phase' = "running" /\ run' = run /\ journal' = journal /\ stale' = stale /\ crashes' = crashes
      /\ UNCHANGED <<cands, store, last>>
  BY DEF StartTurn, Untouched
<1>3. JournalOK(pr, journal) /\ stale \in Seq(Kinds(MergeKeys)) /\ crashes \in 0..MaxCrashes
  BY DEF HostInv, ClaimsOK
<1> QED
  BY <1>1, <1>2, <1>3, RunStep

\* HandleProgress: the draft takes the piece that the report hands over.
LEMMA HandleProgressInv ==
  ASSUME HostInv, HandleProgress
  PROVE  Kept
<1> DEFINE pr == run.mach.protocol
           e == Head(run.mach.pending)
           d == Boundary(run.draft, e)
           p == poll_effect(Rest(run.mach))
           r == [run EXCEPT !.mach = p, !.draft = d]
<1>0. phase = "running" /\ ~Busy /\ run.mach.pending # <<>> /\ Effect.type = "Progress"
      /\ phase' = phase /\ journal' = journal /\ stale' = stale /\ crashes' = crashes
      /\ UNCHANGED <<cands, store, last>>
      /\ run' = [run EXCEPT !.mach = poll_effect(Taken), !.draft = Boundary(@, Effect)]
  BY DEF HandleProgress, Handling, Untouched
<1>1. /\ run \in Runs(pr) /\ run.batch = NoBatch /\ ~run.claimed
      /\ Sound(run.mach, pr, 0, run.draft, run.asked, run.requests)
      /\ JournalOK(pr, journal) /\ Effect = e /\ Taken = Rest(run.mach)
      /\ stale \in Seq(Kinds(MergeKeys)) /\ crashes \in 0..MaxCrashes
  BY <1>0, HandlingIs
<1>2. e.type = "Progress"
  BY <1>0, <1>1
<1>3. Sound(Rest(run.mach), pr, 0, d, run.asked, run.requests)
  BY <1>0, <1>1, <1>2, ReportTaken
<1>4. Sound(p, pr, 0, d, run.asked, run.requests)
  BY <1>3, PollSound
<1>5. d \in Seq(EventsOf(pr))
  <2>1. run.mach \in Machines(pr) /\ run.draft \in Seq(EventsOf(pr))
    BY <1>1 DEF Runs
  <2>2. e \in Effects(pr)
    BY <1>0, <2>1, RestIs
  <2>3. e.delta \in Seq(EventsOf(pr))
    BY <1>2, <2>2 DEF Effects, Dones, Reports, Questions, Question
  <2> HIDE DEF e
  <2>4. run.draft \o e.delta \in Seq(EventsOf(pr))
    BY <2>1, <2>3
  <2> QED
    BY <2>1, <2>4 DEF Boundary
<1>6. p \in Machines(pr)
  BY <1>4 DEF Sound
<1>7. run' = r
  BY <1>0, <1>1
<1> HIDE DEF p, d
<1>8. r \in Runs(pr) /\ r.mach = p /\ r.draft = d /\ r.asked = run.asked /\ r.requests = run.requests
      /\ r.batch = NoBatch /\ ~r.claimed
  BY <1>1, <1>5, <1>6 DEF Runs
<1> HIDE DEF r
<1>9. RunOK("running", r, pr)
  BY <1>4, <1>8, FreeRunOK
<1> QED
  BY <1>0, <1>1, <1>7, <1>9, RunStep

\* HandleDone: the turn ends with what Done carries, or stalls.
LEMMA HandleDoneInv ==
  ASSUME HostInv, HandleDone
  PROVE  Kept
<1> DEFINE pr == run.mach.protocol
           e == Head(run.mach.pending)
           d == run.draft \o e.delta
           m == [Rest(run.mach) EXCEPT !.messages = e.messages]
           r == [run EXCEPT !.mach = m, !.draft = d, !.outcome = e.outcome]
<1>0. phase = "running" /\ ~Busy /\ journal' = journal /\ stale' = stale /\ crashes' = crashes
      /\ UNCHANGED <<cands, store, last>>
  BY DEF HandleDone, Untouched
<1>1. JournalOK(pr, journal) /\ stale \in Seq(Kinds(MergeKeys)) /\ crashes \in 0..MaxCrashes
  BY DEF HostInv, ClaimsOK
<1>2. CASE run.mach.pending = <<>>
  <2>1. phase' = "stalled" /\ run' = run
    BY <1>2 DEF HandleDone
  <2>2. RunOK("stalled", run, pr)
    BY <1>0 DEF HostInv, RunOK, InHand, Phases, Busy
  <2> QED
    BY <1>0, <1>1, <2>1, <2>2, RunStep
<1>3. CASE run.mach.pending # <<>>
  <2>1. /\ run \in Runs(pr) /\ run.batch = NoBatch /\ ~run.claimed
        /\ Sound(run.mach, pr, 0, run.draft, run.asked, run.requests)
        /\ Effect = e /\ Taken = Rest(run.mach)
    BY <1>0, <1>3, HandlingIs
  <2>2. e.type = "Done" /\ phase' = "finishing" /\ run' = r
    BY <1>3, <2>1 DEF HandleDone
  <2>3. /\ Sound(m, pr, 0, d, run.asked, run.requests)
        /\ m.state = "Finished" /\ m.pending = <<>> /\ m.messages = e.messages
        /\ ResumeSafe(e.messages) /\ e.outcome \in Outcomes /\ e.delta \in Seq(EventsOf(pr))
        /\ e.outcome \in Answered => Count(e.messages, "delivered") = Count(run.asked, "delivered")
    <3>1. PICK k, f, q, n : k = run.mach /\ f = run.draft /\ q = run.asked /\ n = run.requests
      OBVIOUS
    <3>2. /\ Sound(k, pr, 0, f, q, n) /\ k.pending # <<>> /\ Head(k.pending).type = "Done"
          /\ e = Head(k.pending)
      BY <1>3, <2>1, <2>2, <3>1
    <3> HIDE DEF e, pr
    <3>3. Sound([Rest(k) EXCEPT !.messages = e.messages], pr, 0, f \o e.delta, q, n)
      BY <3>2, DoneTaken
    <3>4. /\ [Rest(k) EXCEPT !.messages = e.messages].state = "Finished"
          /\ [Rest(k) EXCEPT !.messages = e.messages].pending = <<>>
          /\ [Rest(k) EXCEPT !.messages = e.messages].messages = e.messages
      BY <3>2, DoneTaken
    <3>5. ResumeSafe(e.messages) /\ e.outcome \in Outcomes /\ e.delta \in Seq(EventsOf(pr))
      BY <3>2, DoneTaken
    <3>6. e.outcome \in Answered => Count(e.messages, "delivered") = Count(q, "delivered")
      BY <3>2, DoneTaken
    <3> QED
      BY <3>1, <3>3, <3>4, <3>5, <3>6
  <2>4. m \in Machines(pr) /\ run.draft \in Seq(EventsOf(pr))
    BY <2>1, <2>3 DEF Sound, Runs
  <2>5. d \in Seq(EventsOf(pr))
    <3> HIDE DEF e
    <3> QED
      BY <2>3, <2>4
  <2> HIDE DEF m, d, e
  <2>6. r \in Runs(pr) /\ r.mach = m /\ r.draft = d /\ r.asked = run.asked /\ r.requests = run.requests
        /\ r.batch = NoBatch /\ ~r.claimed /\ r.outcome = e.outcome
    BY <2>1, <2>3, <2>4, <2>5 DEF Runs
  <2> HIDE DEF r
  <2>7. EndedWell(r)
    BY <2>3, <2>6 DEF EndedWell
  <2>8. BatchOK(NoBatch) /\ "finishing" \in Phases
    BY NewBatchOK DEF NoBatch, Phases
  <2>9. RunOK("finishing", r, pr)
    BY <2>3, <2>6, <2>7, <2>8 DEF RunOK, InHand
  <2> QED
    BY <1>0, <1>1, <2>2, <2>9, RunStep
<1> QED
  BY <1>2, <1>3

\* The events of the turn have reached the draft, once and in order.
LEMMA AllHanded ==
  ASSUME NEW pr, NEW r \in Runs(pr), Sound(r.mach, pr, 0, r.draft, r.asked, r.requests), EndedWell(r)
  PROVE  Among(r.draft, ProtocolEvents) = Among(r.mach.events, ProtocolEvents)
<1>1. /\ r.draft \in Seq(EventsOf(pr)) /\ r.mach.events \in Seq(EventsOf(pr))
  BY DEF Runs, Machines
<1>2. CASE pr = "standard"
  <2>1. EventsOf(pr) \cap ProtocolEvents = {}
    BY <1>2 DEF EventsOf, MessageKinds, ProtocolEvents
  <2>2. Among(r.draft, ProtocolEvents) = <<>> /\ Among(r.mach.events, ProtocolEvents) = <<>>
    BY <1>1, <2>1, AmongNone
  <2> QED
    BY <2>2
<1>3. CASE pr # "standard"
  <2>1. Handed(r.mach.pending, r.mach.events, r.mach.cursor, r.draft)
    BY <1>3 DEF Sound
  <2>2. r.mach.pending = <<>> /\ r.mach.cursor = Len(r.mach.events)
    BY DEF EndedWell, Sound, QueueOK
  <2>3. Len(r.mach.events) \in 0..Len(r.mach.events)
    BY <1>1
  <2>4. r.draft = r.mach.events
    BY <1>1, <2>1, <2>2, <2>3, HandedEmpty
  <2> QED
    BY <2>4
<1> QED
  BY <1>2, <1>3

\* Commit: what the run knows becomes what the store promises.
LEMMA CommitInv ==
  ASSUME HostInv, Commit
  PROVE  Kept
<1> DEFINE pr == run.mach.protocol
<1>1. /\ run \in Runs(pr) /\ pr \in Protocols /\ EndedWell(run) /\ StoreOK /\ ClaimsOK
      /\ Sound(run.mach, pr, 0, run.draft, run.asked, run.requests) /\ crashes \in 0..MaxCrashes
      /\ stale \in Seq(Kinds(MergeKeys))
  BY DEF HostInv, Commit, RunOK, Sound, ClaimsOK
<1>2. /\ phase' = "idle" /\ run' = NewRun(pr) /\ journal' = <<>>
      /\ cands' = cands /\ stale' = stale /\ crashes' = crashes /\ last' = last
  BY DEF Commit
<1>3. /\ store'.outcome = run.outcome /\ store'.messages = run.mach.messages
      /\ store'.events = run.draft /\ store'.emitted = run.mach.events /\ store'.asked = run.asked
      /\ store'.vm = run.vm /\ store'.blocks = run.blocks
  BY DEF Commit
<1>4. StoreOK'
  <2>1. Among(run.draft, ProtocolEvents) = Among(run.mach.events, ProtocolEvents)
    BY <1>1, AllHanded
  <2>2. EventsOnce'
    BY <1>3, <2>1 DEF EventsOnce
  <2>3. CommitResumes'
    BY <1>1, <1>3 DEF CommitResumes, EndedWell
  <2>4. AnsweredAll'
    BY <1>1, <1>3 DEF AnsweredAll, EndedWell, Answered
  <2>5. store'.vm \in SUBSET Nat /\ store'.blocks \in SUBSET Nat
    BY <1>1, <1>3 DEF Runs
  <2> QED
    BY <2>2, <2>3, <2>4, <2>5 DEF StoreOK
<1>5. ClaimsOK'
  BY <1>1, <1>2, SameClaims
<1>6. RunOK("idle", NewRun(pr), pr)
  BY <1>1, NewRunOK DEF Phases
<1>7. NewRun(pr).mach.protocol = pr
  BY <1>6 DEF RunOK, Runs, Machines
<1>8. JournalOK(pr, <<>>)
  BY DEF JournalOK
<1> HIDE DEF pr
<1> QED
  BY <1>1, <1>2, <1>4, <1>5, <1>6, <1>7, <1>8 DEF HostInv, Kept, pr

\* The answer of an effect, taken by the machine and recorded.
LEMMA EffectAnswered ==
  ASSUME HostInv, phase = "running", ~Busy, run.mach.pending # <<>>, Effect.type \in QuestionTypes,
         NEW outcome, outcome \in AnswersTo(run.mach.protocol)[Effect.type], ~Aborts(Effect, outcome)
  PROVE  LET a == Answer(run, Taken, Effect, outcome)
             pr == run.mach.protocol
         IN  /\ RunOK("running", a, pr) /\ RunOK("running", [a EXCEPT !.cancel = TRUE], pr)
             /\ RunOK("running", [a EXCEPT !.vm = @ \cup {Effect.id}], pr)
             /\ JournalOK(pr, Recorded(Key, Effect.arg, outcome))
<1> DEFINE pr == run.mach.protocol
           e == Head(run.mach.pending)
           a == Answer(run, Rest(run.mach), e, outcome)
<1>1. /\ run \in Runs(pr) /\ run.batch = NoBatch /\ ~run.claimed
      /\ Sound(run.mach, pr, 0, run.draft, run.asked, run.requests)
      /\ RunOK(phase, run, pr) /\ JournalOK(pr, journal)
      /\ Effect = e /\ Taken = Rest(run.mach)
  BY HandlingIs
<1>2. e.type \in QuestionTypes /\ outcome \in AnswersTo(pr)[e.type] /\ ~Aborts(e, outcome)
  BY <1>1
<1>3. /\ Effect.id \in Nat /\ Key \in Nat \X QuestionTypes \X Nat /\ Key[2] = Effect.type
  BY <1>1, KeyIs
<1>4. outcome \in AnswersTo(pr)[Key[2]]
  BY <1>3
<1>5. JournalOK(pr, Recorded(Key, Effect.arg, outcome))
  BY <1>1, <1>3, <1>4, JournalGrows
<1>6. RunOK("running", a, pr)
  BY <1>1, <1>2, AnsweredRunOK
<1>7. RunOK("running", [a EXCEPT !.cancel = TRUE], pr)
  BY <1>1, <1>2, AnsweredRunOK
<1>8. \A x \in Nat : RunOK("running", [a EXCEPT !.vm = @ \cup {x}], pr)
  BY <1>1, <1>2, AnsweredRunOK
<1>9. RunOK("running", [a EXCEPT !.vm = @ \cup {Effect.id}], pr)
  BY <1>3, <1>8
<1>10. a = Answer(run, Taken, Effect, outcome)
  BY <1>1
<1> HIDE DEF a, e
<1> QED
  BY <1>5, <1>6, <1>7, <1>9, <1>10

\* CancelledBeforeLlm: no call of the model is counted.
LEMMA CancelledBeforeLlmInv ==
  ASSUME HostInv, CancelledBeforeLlm
  PROVE  Kept
<1> DEFINE pr == run.mach.protocol
           e == Head(run.mach.pending)
           n == Rest(run.mach)
           p == finish(n, "cancelled")
           r == [run EXCEPT !.mach = p]
<1>0. phase = "running" /\ ~Busy /\ run.mach.pending # <<>> /\ Effect.type = "LlmCall"
      /\ phase' = phase /\ journal' = journal /\ stale' = stale /\ crashes' = crashes
      /\ UNCHANGED <<cands, store, last>> /\ run' = [run EXCEPT !.mach = finish(Taken, "cancelled")]
  BY DEF CancelledBeforeLlm, Handling, Untouched
<1>1. /\ run \in Runs(pr) /\ run.batch = NoBatch /\ ~run.claimed
      /\ Sound(run.mach, pr, 0, run.draft, run.asked, run.requests)
      /\ JournalOK(pr, journal) /\ Effect = e /\ Taken = n
      /\ stale \in Seq(Kinds(MergeKeys)) /\ crashes \in 0..MaxCrashes
  BY <1>0, HandlingIs
<1>2. e.type = "LlmCall" /\ e.type \in QuestionTypes
  BY <1>0, <1>1 DEF QuestionTypes
<1>3. Open(n, pr, run.draft) /\ Counted(n, run.asked, run.requests) /\ 0 <= n.next_effect_id
      /\ n.state = WaitState[e.type]
  BY <1>0, <1>1, <1>2, QuestionTaken
<1>4. n.state = "WaitingLlm" /\ n.iteration \in Nat
  BY <1>2, <1>3 DEF WaitState, Open, Machines
<1> HIDE DEF n
<1>5. ResumeSafe(n.messages) /\ run.requests = n.iteration /\ Limited(n)
  BY <1>3, <1>4 DEF Counted, AfterModel
<1>6. run.requests <= Top + 1
  BY <1>4, <1>5, TurnAssumption DEF Limited, Top
<1>7. Sound(p, pr, 0, run.draft, run.asked, run.requests)
  BY <1>3, <1>5, <1>6, FinishSound DEF Outcomes, Answered
<1>8. p \in Machines(pr)
  BY <1>7 DEF Sound
<1>9. run' = r
  BY <1>0, <1>1
<1> HIDE DEF p
<1>10. r \in Runs(pr) /\ r.mach = p /\ r.draft = run.draft /\ r.asked = run.asked
      /\ r.requests = run.requests /\ r.batch = NoBatch /\ ~r.claimed
  BY <1>1, <1>8 DEF Runs
<1> HIDE DEF r
<1>11. RunOK("running", r, pr)
  BY <1>7, <1>10, FreeRunOK
<1> QED
  BY <1>0, <1>1, <1>9, <1>11, RunStep

\* ReplayEffect, in a conflict, an abort or an answer.
LEMMA ReplayEffectInv ==
  ASSUME HostInv, ReplayEffect
  PROVE  Kept
<1> DEFINE pr == run.mach.protocol
<1>0. phase = "running" /\ ~Busy /\ run.mach.pending # <<>> /\ Effect.type \in QuestionTypes
      /\ Key \in DOMAIN journal /\ journal' = journal /\ crashes' = crashes
      /\ UNCHANGED <<cands, store, last>>
  BY DEF ReplayEffect, Asks, Handling, Unrecorded, QuestionTypes, Untouched
<1>1. /\ RunOK(phase, run, pr) /\ JournalOK(pr, journal) /\ run.vm \in SUBSET Nat
      /\ stale \in Seq(Kinds(MergeKeys)) /\ crashes \in 0..MaxCrashes
  BY <1>0, HandlingIs DEF Runs
<1>2. ASSUME NEW how \in {"conflict", "aborted"}, EndRun(how, run.vm)
      PROVE  Kept
  <2>1. how \in Phases /\ how # "finishing"
    BY DEF Phases
  <2>2. RunOK(phase', run', pr) /\ stale' \in Seq(Kinds(MergeKeys))
    BY <1>1, <1>2, <2>1, RunEnds
  <2> QED
    BY <1>0, <1>1, <2>2, RunStep
<1>3. ASSUME ~Aborts(Effect, journal[Key].outcome), UNCHANGED <<phase, stale>>,
             run' = Answer(run, Taken, Effect, journal[Key].outcome)
      PROVE  Kept
  <2>1. journal[Key].outcome \in AnswersTo(pr)[Effect.type]
    BY <1>0, <1>1, RecordedAnswer
  <2>2. RunOK("running", Answer(run, Taken, Effect, journal[Key].outcome), pr)
    BY <1>0, <1>3, <2>1, EffectAnswered
  <2>3. RunOK(phase', run', pr) /\ stale' \in Seq(Kinds(MergeKeys))
    BY <1>0, <1>1, <1>3, <2>2
  <2> QED
    BY <1>0, <1>1, <2>3, RunStep
<1> QED
  BY <1>2, <1>3 DEF ReplayEffect

\* An effect that runs and is recorded in one step.
LEMMA RanInv ==
  ASSUME HostInv, NEW type \in QuestionTypes, Handling(type), NEW outcome,
         outcome \in AnswersTo(run.mach.protocol)[type], ~Aborts(Effect, outcome),
         journal' = Recorded(Key, Effect.arg, outcome), UNCHANGED <<phase, stale>>, Untouched,
         \/ run' = Answer(run, Taken, Effect, outcome)
         \/ run' = [Answer(run, Taken, Effect, outcome) EXCEPT !.cancel = TRUE]
         \/ run' = [Answer(run, Taken, Effect, outcome) EXCEPT !.vm = @ \cup {Effect.id}]
  PROVE  Kept
<1> DEFINE pr == run.mach.protocol
           a == Answer(run, Taken, Effect, outcome)
<1>0. phase = "running" /\ ~Busy /\ run.mach.pending # <<>> /\ Effect.type \in QuestionTypes
      /\ Effect.type = type /\ crashes' = crashes /\ UNCHANGED <<cands, store, last>>
  BY DEF Handling, Untouched
<1>1. stale \in Seq(Kinds(MergeKeys)) /\ crashes \in 0..MaxCrashes
  BY DEF HostInv, ClaimsOK
<1>2. /\ RunOK("running", a, pr) /\ RunOK("running", [a EXCEPT !.cancel = TRUE], pr)
      /\ RunOK("running", [a EXCEPT !.vm = @ \cup {Effect.id}], pr)
      /\ JournalOK(pr, Recorded(Key, Effect.arg, outcome))
  BY <1>0, EffectAnswered
<1>3. RunOK(phase', run', pr)
  <2>1. CASE run' = a
    BY <1>0, <1>2, <2>1
  <2>2. CASE run' = [a EXCEPT !.cancel = TRUE]
    BY <1>0, <1>2, <2>2
  <2>3. CASE run' = [a EXCEPT !.vm = @ \cup {Effect.id}]
    BY <1>0, <1>2, <2>3
  <2> QED
    BY <2>1, <2>2, <2>3
<1> QED
  BY <1>0, <1>1, <1>2, <1>3, RunStep

\* The effects that run and are recorded in one step.
LEMMA RunEffectInv ==
  ASSUME HostInv, RunLlm \/ CancelDuringLlm \/ RunSync \/ RunExec
  PROVE  Kept
<1> DEFINE pr == run.mach.protocol
<1>0. /\ AnswersTo(pr)["LlmCall"] = Replies(pr) \cup {Reply("cancelled", <<>>)}
      /\ AnswersTo(pr)["SyncExecutionEnvironment"] = {"ok", "failed"}
      /\ AnswersTo(pr)["ExecCode"] = ExecOutcomes
  BY DEF AnswersTo
<1>1. \A type \in QuestionTypes : Handling(type) /\ type # "Checkpoint" => \A o : ~Aborts(Effect, o)
  BY DEF Handling, Aborts
<1>2. {"LlmCall", "SyncExecutionEnvironment", "ExecCode"} \subseteq QuestionTypes
  BY DEF QuestionTypes
<1>3. CASE RunLlm
  <2>1. PICK o \in Replies(pr) :
          journal' = Recorded(Key, Effect.arg, o) /\ run' = Answer(run, Taken, Effect, o)
    BY <1>3 DEF RunLlm
  <2>2. Handling("LlmCall") /\ UNCHANGED <<phase, stale>> /\ Untouched
    BY <1>3 DEF RunLlm
  <2>3. o \in AnswersTo(pr)["LlmCall"] /\ "LlmCall" \in QuestionTypes /\ ~Aborts(Effect, o)
    BY <1>0, <1>1, <1>2, <2>2
  <2> QED
    BY <2>1, <2>2, <2>3, RanInv
<1>4. CASE CancelDuringLlm
  <2> DEFINE o == Reply("cancelled", <<>>)
  <2>1. /\ journal' = Recorded(Key, Effect.arg, o)
        /\ run' = [Answer(run, Taken, Effect, o) EXCEPT !.cancel = TRUE]
    BY <1>4 DEF CancelDuringLlm
  <2>2. Handling("LlmCall") /\ UNCHANGED <<phase, stale>> /\ Untouched
    BY <1>4 DEF CancelDuringLlm
  <2>3. o \in AnswersTo(pr)["LlmCall"] /\ "LlmCall" \in QuestionTypes /\ ~Aborts(Effect, o)
    BY <1>0, <1>1, <1>2, <2>2
  <2> HIDE DEF o
  <2> QED
    BY <2>1, <2>2, <2>3, RanInv
<1>5. CASE RunSync
  <2>1. PICK o \in {"ok", "failed"} :
          journal' = Recorded(Key, Effect.arg, o) /\ run' = Answer(run, Taken, Effect, o)
    BY <1>5 DEF RunSync
  <2>2. Handling("SyncExecutionEnvironment") /\ UNCHANGED <<phase, stale>> /\ Untouched
    BY <1>5 DEF RunSync
  <2>3. /\ o \in AnswersTo(pr)["SyncExecutionEnvironment"] /\ ~Aborts(Effect, o)
        /\ "SyncExecutionEnvironment" \in QuestionTypes
    BY <1>0, <1>1, <1>2, <2>2
  <2> QED
    BY <2>1, <2>2, <2>3, RanInv
<1>6. CASE RunExec
  <2>1. PICK o \in ExecOutcomes :
          /\ journal' = Recorded(Key, Effect.arg, o)
          /\ run' = [Answer(run, Taken, Effect, o) EXCEPT !.vm = @ \cup {Effect.id}]
    BY <1>6 DEF RunExec
  <2>2. Handling("ExecCode") /\ UNCHANGED <<phase, stale>> /\ Untouched
    BY <1>6 DEF RunExec
  <2>3. o \in AnswersTo(pr)["ExecCode"] /\ "ExecCode" \in QuestionTypes /\ ~Aborts(Effect, o)
    BY <1>0, <1>1, <1>2, <2>2
  <2> QED
    BY <2>1, <2>2, <2>3, RanInv
<1> QED
  BY <1>3, <1>4, <1>5, <1>6

\* A step that may change the queue.
LEMMA AnyStep ==
  ASSUME HostInv, RunOK(phase', run', run.mach.protocol), JournalOK(run.mach.protocol, journal'),
         UNCHANGED store, crashes' \in 0..MaxCrashes, ClaimsOK'
  PROVE  Kept
<1>1. run'.mach.protocol = run.mach.protocol
  BY DEF RunOK, Runs, Machines
<1>2. StoreOK'
  BY SameStore DEF HostInv
<1>3. RunOK(phase', run', run'.mach.protocol) /\ JournalOK(run'.mach.protocol, journal')
  BY <1>1
<1> QED
  BY <1>1, <1>2, <1>3 DEF HostInv, Kept

\* What a checkpoint may deliver.
LEMMA DeliveryIs ==
  ASSUME NEW n \in Nat
  PROVE  LET queued == [i \in 1..n |-> "delivered"]
         IN  {queued, <<"delivered">> \o queued, <<"error">>} \subseteq Deliveries
<1> DEFINE queued == [i \in 1..n |-> "delivered"]
           D == {"delivered"}
<1>1. queued \in Seq(D) /\ <<"delivered">> \in Seq(D)
  OBVIOUS
<1> HIDE DEF queued, D
<1>2. <<"delivered">> \o queued \in Seq(D)
  BY <1>1
<1>3. {queued, <<"delivered">> \o queued, <<"error">>} \subseteq Seq(D) \cup {<<"error">>}
  BY <1>1, <1>2
<1> QED
  BY <1>3 DEF Deliveries, D, queued

\* RunCheckpoint: the claim is one group, and the run has it in hand.
LEMMA RunCheckpointInv ==
  ASSUME HostInv, RunCheckpoint
  PROVE  Kept
<1> DEFINE pr == run.mach.protocol
           K == Kinds(MergeKeys)
           n == SelectTurnWork(cands, "active_turn_checkpoint", MaxBatches)
           queued == [i \in 1..n |-> "delivered"]
<1>0. phase = "running" /\ ~Busy /\ run.mach.pending # <<>> /\ Effect.type = "Checkpoint"
      /\ phase' = phase /\ journal' = journal /\ stale' = stale /\ crashes' = crashes
      /\ UNCHANGED store
  BY DEF RunCheckpoint, Handling
<1>1. /\ run \in Runs(pr) /\ run.batch = NoBatch /\ RunOK(phase, run, pr) /\ JournalOK(pr, journal)
      /\ Effect = Head(run.mach.pending) /\ stale \in Seq(K) /\ crashes \in 0..MaxCrashes
  BY <1>0, HandlingIs
<1>2. ClaimsOK /\ cands \in Seq(K) /\ MaxBatches \in Nat /\ "active_turn_checkpoint" \in Boundaries
  BY HostAssumption DEF HostInv, ClaimsOK, Boundaries
<1>3. n \in 0..Len(cands)
  BY <1>2, SelectionRule
<1>4. n \in Nat
  <2> HIDE DEF n, K
  <2> QED
    BY <1>2, <1>3
<1>5. ClaimsOK'
  <2>1. CASE n > 0
    <3>1. Claimed("active_turn_checkpoint", MaxBatches, n)
      BY <2>1 DEF RunCheckpoint
    <3>2. cands' \in Seq(K) /\ OneGroupPerClaim' /\ ClaimIsMaximal'
      BY <1>2, <2>1, <3>1, ClaimKeeps
    <3> QED
      BY <1>0, <1>1, <3>2 DEF ClaimsOK
  <2>2. CASE ~(n > 0)
    <3>1. UNCHANGED <<cands, last>>
      BY <2>2 DEF RunCheckpoint
    <3> QED
      BY <1>0, <1>1, <1>2, <3>1, SameClaims
  <2> QED
    BY <2>1, <2>2
<1>6. PICK delivery \in {queued, <<"delivered">> \o queued, <<"error">>} :
        run' = [run EXCEPT !.claimed = TRUE, !.delivery = delivery, !.mine = @ \o SubSeq(cands, 1, n)]
  BY DEF RunCheckpoint
<1>7. delivery \in Deliveries
  BY <1>4, <1>6, DeliveryIs
<1> DEFINE x == run.mine \o SubSeq(cands, 1, n)
           r == [run EXCEPT !.claimed = TRUE, !.delivery = delivery, !.mine = x]
<1>8. x \in Seq(K)
  <2>1. run.mine \in Seq(K)
    BY <1>1 DEF Runs
  <2> HIDE DEF K, n
  <2>2. SubSeq(cands, 1, n) \in Seq(K)
    BY <1>2, <1>3
  <2> QED
    BY <2>1, <2>2
<1>9. run' = r
  BY <1>6
<1> HIDE DEF n, x
<1>10. r \in Runs(pr) /\ r.mach = run.mach /\ r.draft = run.draft /\ r.asked = run.asked
      /\ r.requests = run.requests /\ r.batch = NoBatch /\ r.batch = run.batch
  BY <1>1, <1>7, <1>8 DEF Runs
<1> HIDE DEF r
<1>11. RunOK("running", r, pr)
  BY <1>0, <1>1, <1>10 DEF RunOK, InHand
<1> QED
  BY <1>0, <1>1, <1>5, <1>9, <1>11, AnyStep

\* The answer of an effect the run has in hand.
LEMMA InHandAnswered ==
  ASSUME HostInv, phase = "running", run.mach.pending # <<>>, Effect.type \in QuestionTypes,
         NEW r, r \in Runs(run.mach.protocol), r.mach = run.mach, r.draft = run.draft,
         r.asked = run.asked, r.requests = run.requests, r.batch = NoBatch, ~r.claimed,
         NEW outcome, outcome \in AnswersTo(run.mach.protocol)[Effect.type], ~Aborts(Effect, outcome)
  PROVE  RunOK("running", Answer(r, Taken, Effect, outcome), run.mach.protocol)
<1> DEFINE pr == run.mach.protocol
           e == Head(r.mach.pending)
<1>1. Sound(r.mach, pr, 0, r.draft, r.asked, r.requests)
  BY DEF HostInv, RunOK
<1>2. Effect = e /\ Taken = Rest(r.mach) /\ r.mach.pending # <<>>
  BY DEF Effect, Taken, Rest
<1>3. e.type \in QuestionTypes /\ outcome \in AnswersTo(pr)[e.type] /\ ~Aborts(e, outcome)
  BY <1>2
<1>4. RunOK("running", Answer(r, Rest(r.mach), e, outcome), pr)
  BY <1>1, <1>2, <1>3, AnsweredRunOK
<1> QED
  BY <1>2, <1>4

\* RecordCheckpoint: the machine takes what was delivered, or the turn aborts.
LEMMA RecordCheckpointInv ==
  ASSUME HostInv, RecordCheckpoint
  PROVE  Kept
<1> DEFINE pr == run.mach.protocol
           d == run.delivery
           r == [run EXCEPT !.claimed = FALSE, !.delivery = <<>>]
<1>0. phase = "running" /\ run.claimed /\ journal' = Recorded(Key, Effect.arg, d)
      /\ crashes' = crashes /\ UNCHANGED <<cands, store, last>>
  BY DEF RecordCheckpoint, RecordCheckpointAs, Untouched
<1>1. /\ run \in Runs(pr) /\ RunOK(phase, run, pr) /\ JournalOK(pr, journal)
      /\ stale \in Seq(Kinds(MergeKeys)) /\ crashes \in 0..MaxCrashes
  BY DEF HostInv, RunOK, ClaimsOK
<1>2. run.mach.pending # <<>> /\ Effect.type = "Checkpoint" /\ run.batch = NoBatch
  BY <1>0, <1>1 DEF RunOK, InHand, Effect
<1>3. Effect.type \in QuestionTypes /\ d \in AnswersTo(pr)[Effect.type] /\ run.vm \in SUBSET Nat
  <2>1. d \in Deliveries /\ run.vm \in SUBSET Nat
    BY <1>1 DEF Runs
  <2> QED
    BY <1>2, <2>1 DEF QuestionTypes, AnswersTo
<1>4. JournalOK(pr, journal')
  <2>1. Key \in Nat \X QuestionTypes \X Nat /\ Key[2] = Effect.type
    BY <1>1, <1>2, <1>3, KeyIs
  <2>2. d \in AnswersTo(pr)[Key[2]]
    BY <1>3, <2>1
  <2> QED
    BY <1>0, <1>1, <2>1, <2>2, JournalGrows
<1>5. CASE Aborts(Effect, d)
  <2>1. EndRun("aborted", run.vm) /\ "aborted" \in Phases
    BY <1>5 DEF RecordCheckpoint, RecordCheckpointAs, Phases
  <2>2. RunOK(phase', run', pr) /\ stale' \in Seq(Kinds(MergeKeys))
    BY <1>3, <2>1, RunEnds
  <2> QED
    BY <1>0, <1>1, <1>4, <2>2, RunStep
<1>6. CASE ~Aborts(Effect, d)
  <2>1. run' = Answer(r, Taken, Effect, d) /\ UNCHANGED <<phase, stale>>
    BY <1>6 DEF RecordCheckpoint, RecordCheckpointAs
  <2>2. <<>> \in Deliveries
    BY DEF Deliveries
  <2>3. r \in Runs(pr) /\ r.mach = run.mach /\ r.draft = run.draft /\ r.asked = run.asked
        /\ r.requests = run.requests /\ r.batch = NoBatch /\ ~r.claimed
    BY <1>1, <1>2, <2>2 DEF Runs
  <2> HIDE DEF r, d
  <2>4. RunOK("running", Answer(r, Taken, Effect, d), pr)
    BY <1>0, <1>2, <1>3, <1>6, <2>3, InHandAnswered
  <2> QED
    BY <1>0, <1>1, <1>4, <2>1, <2>4, RunStep
<1> QED
  BY <1>5, <1>6

\* StartBatch.
LEMMA StartBatchInv ==
  ASSUME HostInv, StartBatch
  PROVE  Kept
<1> DEFINE pr == run.mach.protocol
           e == Head(run.mach.pending)
           b == NewBatch(e.arg)
           r == [run EXCEPT !.batch = b]
<1>0. phase = "running" /\ ~Busy /\ run.mach.pending # <<>> /\ Effect.type = "ToolCalls"
      /\ phase' = phase /\ journal' = journal /\ stale' = stale /\ crashes' = crashes
      /\ UNCHANGED <<cands, store, last>> /\ run' = [run EXCEPT !.batch = NewBatch(Effect.arg)]
  BY DEF StartBatch, Handling, Untouched
<1>1. /\ run \in Runs(pr) /\ ~run.claimed /\ RunOK(phase, run, pr) /\ JournalOK(pr, journal)
      /\ Effect = e /\ stale \in Seq(Kinds(MergeKeys)) /\ crashes \in 0..MaxCrashes
  BY <1>0, HandlingIs
<1>2. e \in Effects(pr) /\ e.type = "ToolCalls"
  <2>1. run.mach \in Machines(pr)
    BY <1>1 DEF Runs
  <2> QED
    BY <1>0, <1>1, <2>1, RestIs
<1> HIDE DEF e
<1>3. e.arg \in Batches
  BY <1>2 DEF Effects, Dones, Reports, Questions, Question
<1>4. BatchOK(b) /\ b.calls = e.arg
  BY <1>3, NewBatchOK
<1>5. b \in BatchStates
  BY <1>4 DEF BatchOK
<1>6. run' = r
  BY <1>0, <1>1
<1> HIDE DEF b
<1>7. r \in Runs(pr) /\ r.mach = run.mach /\ r.draft = run.draft /\ r.asked = run.asked
      /\ r.requests = run.requests /\ r.batch = b /\ ~r.claimed
  BY <1>1, <1>5 DEF Runs
<1> HIDE DEF r
<1>8. RunOK("running", r, pr)
  BY <1>0, <1>1, <1>2, <1>4, <1>7 DEF RunOK, InHand, e
<1> QED
  BY <1>0, <1>1, <1>6, <1>8, RunStep

\* What is known while a batch is in hand.
LEMMA InBatchIs ==
  ASSUME HostInv, InBatch
  PROVE  LET pr == run.mach.protocol
         IN  /\ phase = "running" /\ RunOK("running", run, pr) /\ run.batch # NoBatch
             /\ BatchOK(run.batch) /\ run \in Runs(pr) /\ JournalOK(pr, journal)
             /\ run.mach.pending # <<>> /\ Effect.type = "ToolCalls" /\ Effect.type \in QuestionTypes
             /\ ~run.claimed /\ stale \in Seq(Kinds(MergeKeys)) /\ crashes \in 0..MaxCrashes
BY DEF HostInv, InBatch, RunOK, InHand, Effect, QuestionTypes, ClaimsOK

\* The steps of the calls of a batch.
LEMMA BatchStepInv ==
  ASSUME HostInv, NEW i \in DOMAIN run.batch.calls,
         BatchCall(i) \/ RunAttempt(i) \/ ReplayAttempt(i) \/ AttemptError(i) \/ CancelCall(i)
  PROVE  Kept
<1> DEFINE pr == run.mach.protocol
           b == run.batch
<1>0. InBatch /\ phase' = phase /\ stale' = stale /\ crashes' = crashes
      /\ UNCHANGED <<cands, store, last>>
  BY DEF BatchCall, RunAttempt, ReplayAttempt, AttemptError, CancelCall, Untouched
<1>1. /\ phase = "running" /\ RunOK("running", run, pr) /\ RunOK(phase, run, pr) /\ b # NoBatch
      /\ BatchOK(b) /\ JournalOK(pr, journal) /\ run.mach.pending # <<>>
      /\ Effect.type \in QuestionTypes
      /\ stale \in Seq(Kinds(MergeKeys)) /\ crashes \in 0..MaxCrashes
  BY <1>0, InBatchIs
<1>2. ASSUME NEW c, BatchOK(c), c.calls = b.calls, run' = [run EXCEPT !.batch = c],
             JournalOK(pr, journal')
      PROVE  Kept
  <2>1. RunOK("running", [run EXCEPT !.batch = c], pr)
    BY <1>1, <1>2, BatchRunOK
  <2> QED
    BY <1>0, <1>1, <1>2, <2>1, RunStep
<1>3. CASE BatchCall(i)
  <2> DEFINE c == StartCall(b, i)
  <2>1. MayStart(b, i) /\ run' = [run EXCEPT !.batch = c] /\ journal' = journal
    BY <1>3 DEF BatchCall
  <2>2. BatchOK(c) /\ c.calls = b.calls
    BY <1>1, <2>1, BatchStarts
  <2> HIDE DEF c
  <2> QED
    BY <1>1, <1>2, <2>1, <2>2
<1>4. CASE RunAttempt(i)
  <2>1. PICK o \in ToolOutcomes :
          /\ journal' = Recorded(AttemptKey(i), b.calls[i], o)
          /\ run' = [run EXCEPT !.batch = AttemptEnds(b, i, o)]
    BY <1>4 DEF RunAttempt
  <2> DEFINE c == AttemptEnds(b, i, o)
  <2>2. i \in Running(b)
    BY <1>4 DEF RunAttempt
  <2>3. BatchOK(c) /\ c.calls = b.calls
    BY <1>1, <2>2, BatchAttempt
  <2>4. Len(AttemptKey(i)) = 5
    BY <1>1, AttemptKeyIs
  <2>5. JournalOK(pr, journal')
    BY <1>1, <2>1, <2>4, JournalGrows
  <2>6. run' = [run EXCEPT !.batch = c]
    BY <2>1
  <2> HIDE DEF c
  <2> QED
    BY <1>2, <2>3, <2>5, <2>6
<1>5. CASE ReplayAttempt(i)
  <2> DEFINE o == journal[AttemptKey(i)].outcome
             c == AttemptEnds(b, i, o)
  <2>1. /\ i \in Running(b) /\ AttemptKey(i) \in DOMAIN journal /\ journal' = journal
        /\ run' = [run EXCEPT !.batch = c]
    BY <1>5 DEF ReplayAttempt
  <2>2. AttemptKey(i) \notin Nat \X QuestionTypes \X Nat
    BY <1>1, AttemptKeyIs
  <2>3. o \in ToolOutcomes
    BY <1>1, <2>1, <2>2 DEF JournalOK
  <2> HIDE DEF o
  <2>4. BatchOK(c) /\ c.calls = b.calls
    BY <1>1, <2>1, <2>3, BatchAttempt
  <2> HIDE DEF c
  <2> QED
    BY <1>1, <1>2, <2>1, <2>4
<1>6. CASE AttemptError(i)
  <2> DEFINE c == EndCall(b, i, "failure")
  <2>1. i \in Running(b) /\ run' = [run EXCEPT !.batch = c] /\ journal' = journal
    BY <1>6 DEF AttemptError
  <2>2. "failure" \in Results
    BY DEF Results
  <2>3. BatchOK(c) /\ c.calls = b.calls
    BY <1>1, <2>1, <2>2, BatchEnds
  <2> HIDE DEF c
  <2> QED
    BY <1>1, <1>2, <2>1, <2>3
<1>7. CASE CancelCall(i)
  <2> DEFINE c == EndCall(b, i, "cancelled")
  <2>1. i \in Running(b) /\ run' = [run EXCEPT !.batch = c] /\ journal' = journal
    BY <1>7 DEF CancelCall
  <2>2. "cancelled" \in Results
    BY DEF Results
  <2>3. BatchOK(c) /\ c.calls = b.calls
    BY <1>1, <2>1, <2>2, BatchEnds
  <2> HIDE DEF c
  <2> QED
    BY <1>1, <1>2, <2>1, <2>3
<1> QED
  BY <1>3, <1>4, <1>5, <1>6, <1>7

\* FinishBatch: the results are recorded and the attempts forgotten.
LEMMA FinishBatchInv ==
  ASSUME HostInv, FinishBatch
  PROVE  Kept
<1> DEFINE pr == run.mach.protocol
           o == run.batch.result
           r == [run EXCEPT !.batch = NoBatch]
           j == Recorded(Key, Effect.arg, o)
           D == {k \in DOMAIN journal : Len(k) = Len(Key)} \cup {Key}
<1>0. /\ InBatch /\ journal' = [k \in D |-> j[k]] /\ run' = Answer(r, Taken, Effect, o)
      /\ phase' = phase /\ stale' = stale /\ crashes' = crashes /\ UNCHANGED <<cands, store, last>>
  BY DEF FinishBatch, Untouched
<1>1. /\ phase = "running" /\ RunOK(phase, run, pr) /\ run \in Runs(pr) /\ JournalOK(pr, journal)
      /\ run.mach.pending # <<>> /\ Effect.type = "ToolCalls" /\ Effect.type \in QuestionTypes
      /\ ~run.claimed /\ stale \in Seq(Kinds(MergeKeys)) /\ crashes \in 0..MaxCrashes
  BY <1>0, InBatchIs
<1>2. o \in AnswersTo(pr)[Effect.type] /\ ~Aborts(Effect, o)
  <2>1. o \in Seq(Results)
    BY <1>1 DEF Runs, BatchStates
  <2> QED
    BY <1>1, <2>1 DEF AnswersTo, Aborts
<1>3. JournalOK(pr, j)
  <2>1. Key \in Nat \X QuestionTypes \X Nat /\ Key[2] = Effect.type
    BY <1>1, KeyIs
  <2>2. o \in AnswersTo(pr)[Key[2]]
    BY <1>2, <2>1
  <2> QED
    BY <1>1, <2>1, <2>2, JournalGrows
<1>4. JournalOK(pr, journal')
  <2>1. D \subseteq DOMAIN j
    BY DEF Recorded
  <2> HIDE DEF j, D
  <2>2. DOMAIN journal' = D /\ \A k \in D : journal'[k] = j[k]
    BY <1>0
  <2> QED
    BY <1>3, <2>1, <2>2 DEF JournalOK
<1>5. NoBatch \in BatchStates
  <2>1. BatchOK(NoBatch)
    BY NewBatchOK DEF NoBatch
  <2> QED
    BY <2>1 DEF BatchOK
<1>6. r \in Runs(pr) /\ r.mach = run.mach /\ r.draft = run.draft /\ r.asked = run.asked
      /\ r.requests = run.requests /\ r.batch = NoBatch /\ ~r.claimed
  BY <1>1, <1>5 DEF Runs
<1> HIDE DEF r, o, j, D
<1>7. RunOK("running", Answer(r, Taken, Effect, o), pr)
  BY <1>1, <1>2, <1>6, InHandAnswered
<1> QED
  BY <1>0, <1>1, <1>4, <1>7, RunStep

\* Cancel.
LEMMA CancelInv ==
  ASSUME HostInv, Cancel
  PROVE  Kept
<1> DEFINE pr == run.mach.protocol
           r == [run EXCEPT !.cancel = TRUE]
<1>0. phase = "running" /\ run' = r /\ phase' = phase /\ journal' = journal /\ stale' = stale
      /\ crashes' = crashes /\ UNCHANGED <<cands, store, last>>
  BY DEF Cancel, Untouched
<1>1. /\ run \in Runs(pr) /\ RunOK("running", run, pr) /\ JournalOK(pr, journal)
      /\ stale \in Seq(Kinds(MergeKeys)) /\ crashes \in 0..MaxCrashes
  BY <1>0 DEF HostInv, RunOK, ClaimsOK
<1>2. r \in Runs(pr) /\ r.mach = run.mach /\ r.draft = run.draft /\ r.asked = run.asked
      /\ r.requests = run.requests /\ r.batch = run.batch /\ r.claimed = run.claimed
  BY <1>1 DEF Runs
<1> HIDE DEF r
<1>3. RunOK("running", r, pr)
  BY <1>1, <1>2 DEF RunOK, InHand
<1> QED
  BY <1>0, <1>1, <1>3, RunStep

\* Crash: a new machine, the interpreter of the store and the same journal.
LEMMA CrashInv ==
  ASSUME HostInv, Crash
  PROVE  Kept
<1> DEFINE pr == run.mach.protocol
<1>1. /\ EndRun("ready", store.vm) /\ journal' = journal /\ crashes' = crashes + 1
      /\ crashes < MaxCrashes /\ UNCHANGED <<cands, store, last>>
  BY DEF Crash
<1>2. JournalOK(pr, journal) /\ crashes \in 0..MaxCrashes /\ store.vm \in SUBSET Nat
  BY DEF HostInv, StoreOK
<1>3. RunOK(phase', run', pr) /\ stale' \in Seq(Kinds(MergeKeys))
  BY <1>1, <1>2, RunEnds DEF Phases
<1>4. crashes' \in 0..MaxCrashes
  BY <1>1, <1>2, HostAssumption
<1> QED
  BY <1>1, <1>2, <1>3, <1>4, RunStep

\* AskAgain.
LEMMA AskAgainInv ==
  ASSUME HostInv, AskAgain
  PROVE  Kept
<1> DEFINE pr == run.mach.protocol
<1>1. RunOK("ready", run, pr)
  BY DEF HostInv, AskAgain, RunOK, InHand, Phases
<1>2. phase' = "ready" /\ run' = run /\ journal' = journal /\ stale' = stale /\ crashes' = crashes
      /\ UNCHANGED <<cands, store, last>>
  BY DEF AskAgain, Untouched
<1>3. JournalOK(pr, journal) /\ stale \in Seq(Kinds(MergeKeys)) /\ crashes \in 0..MaxCrashes
  BY DEF HostInv, ClaimsOK
<1> QED
  BY <1>1, <1>2, <1>3, RunStep

\* The queue, between turns and when claims expire.
LEMMA QueueInv ==
  ASSUME HostInv,
         \/ ClaimsExpire \/ ClaimCommand
         \/ \E b \in Boundaries, m \in 0..MaxBatches : ClaimTurnWork(b, m)
  PROVE  Kept
<1> DEFINE pr == run.mach.protocol
           K == Kinds(MergeKeys)
<1>1. phase' = phase /\ run' = run /\ journal' = journal /\ crashes' = crashes /\ UNCHANGED store
  BY DEF ClaimsExpire, ClaimCommand, ClaimTurnWork
<1>2. /\ RunOK(phase, run, pr) /\ JournalOK(pr, journal) /\ crashes \in 0..MaxCrashes
      /\ cands \in Seq(K) /\ stale \in Seq(K) /\ ClaimsOK
  BY DEF HostInv, ClaimsOK
<1>3. ClaimsOK'
  <2>1. CASE ClaimsExpire
    <3>1. cands' = stale \o cands /\ stale' = <<>> /\ last' = last
      BY <2>1 DEF ClaimsExpire
    <3> HIDE DEF K
    <3>2. cands' \in Seq(K) /\ stale' \in Seq(K)
      BY <1>2, <3>1
    <3> QED
      BY <1>2, <3>1, <3>2 DEF ClaimsOK, OneGroupPerClaim, ClaimIsMaximal, K
  <2>2. CASE ClaimCommand
    <3>1. /\ cands' = SubSeq(cands, 2, Len(cands)) /\ stale' = stale /\ last'.boundary = "command"
      BY <2>2 DEF ClaimCommand, Claimed
    <3>2. cands' \in Seq(K)
      <4> HIDE DEF K
      <4> QED
        BY <1>2, <3>1
    <3> QED
      BY <1>2, <3>1, <3>2 DEF ClaimsOK, OneGroupPerClaim, ClaimIsMaximal, Boundaries
  <2>3. CASE \E b \in Boundaries, m \in 0..MaxBatches : ClaimTurnWork(b, m)
    <3>1. PICK b \in Boundaries, m \in 0..MaxBatches : ClaimTurnWork(b, m)
      BY <2>3
    <3>2. m \in Nat
      BY HostAssumption
    <3>3. /\ SelectTurnWork(cands, b, m) > 0 /\ Claimed(b, m, SelectTurnWork(cands, b, m))
          /\ stale' = stale
      BY <3>1 DEF ClaimTurnWork
    <3>4. cands' \in Seq(K) /\ OneGroupPerClaim' /\ ClaimIsMaximal'
      BY <1>2, <3>2, <3>3, ClaimKeeps
    <3> QED
      BY <1>2, <3>3, <3>4 DEF ClaimsOK
  <2> QED
    BY <2>1, <2>2, <2>3
<1> QED
  BY <1>1, <1>2, <1>3, AnyStep

-----------------------------------------------------------------------------
(* The invariant. *)

\* The invariant holds at first.
LEMMA HostInvInit ==
  ASSUME Init
  PROVE  HostInv
<1>1. PICK p \in Protocols : run = NewRun(p)
  BY DEF Init
<1>2. StoreOK
  <2>1. /\ store.vm = {} /\ store.blocks = {} /\ store.outcome = "none" /\ store.messages = <<>>
        /\ store.events = <<>> /\ store.emitted = <<>>
    BY DEF Init, NothingCommitted
  <2>2. ResumeSafe(<<>>)
    <3>1. <<>> \in Seq({}) /\ {} \cap ToolKinds = {}
      OBVIOUS
    <3> QED
      BY <3>1, SafeNeutral
  <2> QED
    BY <2>1, <2>2 DEF StoreOK, AnsweredAll, CommitResumes, EventsOnce
<1>3. phase \in Phases /\ phase # "finishing"
  BY DEF Init, Phases
<1>4. RunOK(phase, run, p)
  BY <1>1, <1>2, <1>3, NewRunOK
<1>5. run.mach.protocol = p
  BY <1>4 DEF RunOK, Runs, Machines
<1>6. JournalOK(p, journal)
  BY DEF Init, JournalOK
<1>7. ClaimsOK
  <2>1. last.boundary = "none" /\ cands \in Seq(Kinds(MergeKeys)) /\ stale = <<>>
    BY DEF Init
  <2>2. stale \in Seq(Kinds(MergeKeys))
    BY <2>1
  <2> QED
    BY <2>1, <2>2 DEF ClaimsOK, OneGroupPerClaim, ClaimIsMaximal, Boundaries
<1>8. crashes \in 0..MaxCrashes
  BY HostAssumption DEF Init
<1> QED
  BY <1>2, <1>4, <1>5, <1>6, <1>7, <1>8 DEF HostInv

\* Every step keeps it.
LEMMA HostInvStep ==
  ASSUME HostInv, [Next]_vars
  PROVE  Kept
<1>1. CASE UNCHANGED vars
  BY <1>1 DEF vars, HostInv, StoreOK, ClaimsOK, AnsweredAll, CommitResumes, EventsOnce,
              OneGroupPerClaim, ClaimIsMaximal, Kept
<1>2. CASE HostStep
  BY <1>2, StartTurnInv, HandleProgressInv, HandleDoneInv, CommitInv, CancelledBeforeLlmInv,
     ReplayEffectInv, RunEffectInv, RunCheckpointInv, RecordCheckpointInv, StartBatchInv,
     FinishBatchInv, BatchStepInv DEF HostStep
<1>3. CASE CancelDuringLlm \/ Cancel \/ Crash \/ AskAgain
  BY <1>3, RunEffectInv, CancelInv, CrashInv, AskAgainInv
<1>4. CASE \/ ClaimsExpire \/ ClaimCommand
           \/ \E b \in Boundaries, m \in 0..MaxBatches : ClaimTurnWork(b, m)
  BY <1>4, QueueInv
<1> QED
  BY <1>1, <1>2, <1>3, <1>4 DEF Next

-----------------------------------------------------------------------------
(* Replay.  A run that starts again is led along one path of machines, by the *)
(* journal alone; a run is always somewhere on it, or has ended.              *)

\* The keys of questions, and the machines that ask one.
Keys == Nat \X QuestionTypes \X Nat
Asking(m) == m.pending # <<>> /\ Head(m.pending).type \in QuestionTypes
KeyOf(m) == EffectKey(Rest(m), Head(m.pending))

\* The machine that follows: a report is taken, a recorded answer is given.
Led(m, n, j) ==
  \/ /\ m.pending # <<>> /\ Head(m.pending).type = "Progress" /\ n = poll_effect(Rest(m))
  \/ /\ Asking(m) /\ KeyOf(m) \in DOMAIN j /\ ~Aborts(Head(m.pending), j[KeyOf(m)].outcome)
     /\ n = poll_effect(Resumed(Rest(m), Head(m.pending), j[KeyOf(m)].outcome))

\* A machine that some run may have, with low ids used up.
SomeSound(m, pr, low) == \E draft, asked, requests : Sound(m, pr, low, draft, asked, requests)

\* The path p of a journal j.  Ids below L[k] are used up before its k-th machine
\* asks, and every answer in the journal was given to a machine on the path.
Path(pr, j, p, L, n) ==
  /\ n \in Nat
  /\ p[0] = poll_effect(NewMachine(pr, <<"user">>))
  /\ \A i \in 0..n : L[i] \in Nat /\ SomeSound(p[i], pr, L[i])
  /\ \A i \in 0..(n - 1) : Led(p[i], p[i + 1], j)
  /\ \A i, k \in 0..n : i < k /\ Asking(p[i]) => Head(p[i].pending).id < L[k]
  /\ \A k \in DOMAIN j \cap Keys :
       \E i \in 0..n :
         /\ Asking(p[i]) /\ KeyOf(p[i]) = k /\ j[k].arg = Head(p[i].pending).arg
         /\ i = n => Aborts(Head(p[i].pending), j[k].outcome)

\* A machine is on a path of the journal, or has ended.
OnPath(pr, j, m) ==
  \E p, L, n : Path(pr, j, p, L, n) /\ (m.state = "Finished" \/ \E i \in 0..n : m = p[i])

\* The inductive invariant of replay: what the run has in hand is not recorded yet.
ReplayInv ==
  /\ OnPath(run.mach.protocol, journal, run.mach)
  /\ Busy => Unrecorded
  /\ NoReplayConflict

\* A machine that asks, asks under an id that was not used before.
LEMMA AskingIs ==
  ASSUME NEW pr, NEW m, NEW low \in Nat, SomeSound(m, pr, low), Asking(m)
  PROVE  LET e == Head(m.pending)
         IN  /\ e.id \in Nat /\ low <= e.id /\ e.id < m.next_effect_id /\ m.next_effect_id \in Nat
             /\ KeyOf(m) = <<m.iteration, e.type, e.id>> /\ KeyOf(m) \in Keys
             /\ KeyOf(m)[2] = e.type /\ KeyOf(m)[3] = e.id
             /\ low <= m.next_effect_id /\ m.state # "Finished"
<1> DEFINE e == Head(m.pending)
<1>1. PICK draft, asked, requests : Sound(m, pr, low, draft, asked, requests)
  BY DEF SomeSound
<1>2. /\ m \in Machines(pr) /\ m.effect_id < m.next_effect_id /\ low <= m.next_effect_id
      /\ QueueOK(m, low, asked) /\ m.pending # <<>> /\ e.type \in QuestionTypes
  BY <1>1 DEF Sound, Asking
<1>3. m.iteration \in Nat /\ m.effect_id \in Nat /\ m.next_effect_id \in Nat
  BY <1>2 DEF Machines
<1>4. /\ e = m.pending[1] /\ Len(m.pending) \in Nat /\ Len(m.pending) >= 1
      /\ Rest(m).iteration = m.iteration
  BY <1>2, RestIs DEF SameTurn
<1>5. Awaited(m, low, m.pending[1])
  <2>1. 1 \in 1..Len(m.pending)
    BY <1>4
  <2>2. m.pending[1].type # "Progress" /\ m.pending[1].type # "Done"
    BY <1>2, <1>4 DEF QuestionTypes
  <2> QED
    BY <1>2, <2>1, <2>2 DEF QueueOK, Ending
<1>6. e.id = m.effect_id /\ low <= e.id /\ m.state = WaitState[e.type]
  BY <1>3, <1>4, <1>5 DEF Awaited
<1>7. m.state # "Finished"
  BY <1>2, <1>6 DEF WaitState, QuestionTypes
<1>8. KeyOf(m) = <<m.iteration, e.type, e.id>>
  BY <1>4 DEF KeyOf, EffectKey
<1> HIDE DEF e
<1> QED
  BY <1>2, <1>3, <1>6, <1>7, <1>8 DEF Keys, e

\* A key is asked for at one place of the path.
LEMMA PathKey ==
  ASSUME NEW pr, NEW j, NEW p, NEW L, NEW n, Path(pr, j, p, L, n),
         NEW i \in 0..n, Asking(p[i]), KeyOf(p[i]) \in DOMAIN j
  PROVE  /\ j[KeyOf(p[i])].arg = Head(p[i].pending).arg
         /\ i = n => Aborts(Head(p[i].pending), j[KeyOf(p[i])].outcome)
<1>1. \A k \in 0..n : Asking(p[k]) =>
        /\ KeyOf(p[k]) \in Keys /\ KeyOf(p[k])[3] = Head(p[k].pending).id
        /\ Head(p[k].pending).id \in Nat /\ L[k] <= Head(p[k].pending).id /\ L[k] \in Nat
  BY AskingIs DEF Path
<1>2. PICK k \in 0..n : /\ Asking(p[k]) /\ KeyOf(p[k]) = KeyOf(p[i])
                        /\ j[KeyOf(p[i])].arg = Head(p[k].pending).arg
                        /\ k = n => Aborts(Head(p[k].pending), j[KeyOf(p[i])].outcome)
  BY <1>1 DEF Path
<1>3. Head(p[k].pending).id = Head(p[i].pending).id
  BY <1>1, <1>2
<1>4. ~(i < k)
  <2> SUFFICES ASSUME i < k PROVE FALSE
    OBVIOUS
  <2>1. Head(p[i].pending).id < L[k]
    BY DEF Path
  <2> QED
    BY <1>1, <1>2, <1>3, <2>1
<1>5. ~(k < i)
  <2> SUFFICES ASSUME k < i PROVE FALSE
    OBVIOUS
  <2>1. Head(p[k].pending).id < L[i]
    BY <1>2 DEF Path
  <2> QED
    BY <1>1, <1>2, <1>3, <2>1
<1>6. k = i
  <2>1. n \in Nat
    BY DEF Path
  <2> QED
    BY <1>4, <1>5, <2>1
<1> QED
  BY <1>2, <1>6

\* Where the journal leads from a place of the path: an unrecorded key is at its
\* end, and a recorded answer leads to the next place.
LEMMA PathNext ==
  ASSUME NEW pr, NEW j, NEW p, NEW L, NEW n, Path(pr, j, p, L, n), NEW i \in 0..n, Asking(p[i])
  PROVE  /\ KeyOf(p[i]) \notin DOMAIN j => i = n
         /\ KeyOf(p[i]) \in DOMAIN j /\ ~Aborts(Head(p[i].pending), j[KeyOf(p[i])].outcome) =>
              /\ i + 1 \in 0..n
              /\ p[i + 1] = poll_effect(Resumed(Rest(p[i]), Head(p[i].pending), j[KeyOf(p[i])].outcome))
<1>0. n \in Nat
  BY DEF Path
<1>1. ASSUME i # n
      PROVE  /\ i + 1 \in 0..n /\ KeyOf(p[i]) \in DOMAIN j
             /\ p[i + 1] = poll_effect(Resumed(Rest(p[i]), Head(p[i].pending), j[KeyOf(p[i])].outcome))
  <2>1. i \in 0..(n - 1) /\ i + 1 \in 0..n
    BY <1>0, <1>1
  <2>2. Led(p[i], p[i + 1], j)
    BY <2>1 DEF Path
  <2>3. Head(p[i].pending).type # "Progress"
    BY DEF Asking, QuestionTypes
  <2> QED
    BY <2>1, <2>2, <2>3 DEF Led
<1>2. ASSUME KeyOf(p[i]) \in DOMAIN j, ~Aborts(Head(p[i].pending), j[KeyOf(p[i])].outcome)
      PROVE  i # n
  BY <1>2, PathKey
<1> QED
  BY <1>1, <1>2

\* Two journals that lead the same way.
Alike(j, h) ==
  \A k \in Keys : (k \in DOMAIN h <=> k \in DOMAIN j) /\ (k \in DOMAIN j => h[k] = j[k])

\* A path is one of every journal that leads the same way.
LEMMA PathAlike ==
  ASSUME NEW pr, NEW j, NEW h, Alike(j, h), NEW p, NEW L, NEW n, Path(pr, j, p, L, n)
  PROVE  Path(pr, h, p, L, n)
<1>1. \A i \in 0..(n - 1) : Led(p[i], p[i + 1], h)
  <2> SUFFICES ASSUME NEW i \in 0..(n - 1) PROVE Led(p[i], p[i + 1], h)
    OBVIOUS
  <2>1. Led(p[i], p[i + 1], j) /\ n \in Nat
    BY DEF Path
  <2>2. i \in 0..n
    BY <2>1
  <2>3. L[i] \in Nat /\ SomeSound(p[i], pr, L[i])
    BY <2>2 DEF Path
  <2>4. Asking(p[i]) => KeyOf(p[i]) \in Keys
    BY <2>3, AskingIs
  <2> QED
    BY <2>1, <2>4 DEF Led, Alike
<1>2. ASSUME NEW k \in DOMAIN h \cap Keys
      PROVE  \E i \in 0..n :
               /\ Asking(p[i]) /\ KeyOf(p[i]) = k /\ h[k].arg = Head(p[i].pending).arg
               /\ i = n => Aborts(Head(p[i].pending), h[k].outcome)
  <2>1. k \in DOMAIN j \cap Keys /\ h[k] = j[k]
    BY DEF Alike
  <2> QED
    BY <2>1 DEF Path
<1> QED
  BY <1>1, <1>2 DEF Path

\* A journal that leads along a path, and that holds answers of the path only.
Follows(p, n, h) == \A i \in 0..(n - 1) : Led(p[i], p[i + 1], h)
Covers(p, n, h) ==
  \A k \in DOMAIN h \cap Keys :
    \E i \in 0..n : Asking(p[i]) /\ KeyOf(p[i]) = k /\ h[k].arg = Head(p[i].pending).arg

\* There is a path of n places after the first, with the machine m at its end.
EndsIn(pr, h, n, m) == \E q, M : Path(pr, h, q, M, n) /\ q[n] = m

\* The path grows by one place at its end.
LEMMA PathLonger ==
  ASSUME NEW pr, NEW j, NEW h, NEW p, NEW L, NEW n, Path(pr, j, p, L, n), NEW m, NEW low \in Nat,
         Follows(p, n, h), Led(p[n], m, h), Covers(p, n, h),
         SomeSound(m, pr, low), L[n] <= low, Asking(p[n]) => Head(p[n].pending).id < low
  PROVE  EndsIn(pr, h, n + 1, m)
<1> DEFINE q == [i \in 0..(n + 1) |-> IF i = n + 1 THEN m ELSE p[i]]
           M == [i \in 0..(n + 1) |-> IF i = n + 1 THEN low ELSE L[i]]
<1>0. n \in Nat /\ n + 1 \in Nat /\ 0 \in 0..n
  BY DEF Path
<1>1. /\ q[n + 1] = m /\ M[n + 1] = low /\ \A i \in 0..n : q[i] = p[i] /\ M[i] = L[i]
  BY <1>0
<1>2. \A i \in 0..(n + 1) : i \in 0..n \/ i = n + 1
  BY <1>0
<1> HIDE DEF q, M
<1>3. q[0] = poll_effect(NewMachine(pr, <<"user">>))
  BY <1>0, <1>1 DEF Path
<1>4. \A i \in 0..(n + 1) : M[i] \in Nat /\ SomeSound(q[i], pr, M[i])
  BY <1>1, <1>2 DEF Path
<1>5. ASSUME NEW i \in 0..n PROVE Led(q[i], q[i + 1], h)
  <2>1. CASE i = n
    BY <1>1, <2>1
  <2>2. CASE i # n
    <3>1. i \in 0..(n - 1) /\ i + 1 \in 0..n
      BY <1>0, <2>2
    <3> QED
      BY <1>1, <3>1 DEF Follows
  <2> QED
    BY <2>1, <2>2
<1>6. ASSUME NEW i \in 0..(n + 1), NEW k \in 0..(n + 1), i < k, Asking(q[i])
      PROVE  Head(q[i].pending).id < M[k]
  <2>1. i \in 0..n
    BY <1>0, <1>6
  <2>2. CASE k \in 0..n
    BY <1>1, <1>6, <2>1, <2>2 DEF Path
  <2>3. CASE k = n + 1 /\ i = n
    BY <1>1, <1>6, <2>1, <2>3
  <2>4. CASE k = n + 1 /\ i # n
    <3>1. i < n /\ n \in 0..n
      BY <1>0, <2>1, <2>4
    <3>2. Asking(p[i]) /\ q[i] = p[i]
      BY <1>1, <1>6, <2>1
    <3>3. Head(p[i].pending).id < L[n] /\ L[n] \in Nat
      BY <2>1, <3>1, <3>2 DEF Path
    <3>4. L[i] \in Nat /\ SomeSound(p[i], pr, L[i])
      BY <2>1 DEF Path
    <3>5. Head(p[i].pending).id \in Nat
      BY <3>2, <3>4, AskingIs
    <3>6. Head(p[i].pending).id < low
      BY <3>3, <3>5
    <3> QED
      BY <1>1, <2>4, <3>2, <3>6
  <2> QED
    BY <1>2, <2>2, <2>3, <2>4
<1>7. ASSUME NEW k \in DOMAIN h \cap Keys
      PROVE  \E i \in 0..(n + 1) :
               /\ Asking(q[i]) /\ KeyOf(q[i]) = k /\ h[k].arg = Head(q[i].pending).arg
               /\ i = n + 1 => Aborts(Head(q[i].pending), h[k].outcome)
  <2>1. PICK i \in 0..n : Asking(p[i]) /\ KeyOf(p[i]) = k /\ h[k].arg = Head(p[i].pending).arg
    BY DEF Covers
  <2>2. i \in 0..(n + 1) /\ i # n + 1 /\ q[i] = p[i]
    BY <1>0, <1>1, <2>1
  <2> QED
    BY <2>1, <2>2
<1>8. (n + 1) - 1 = n
  BY <1>0
<1> QED
  BY <1>0, <1>1, <1>3, <1>4, <1>5, <1>6, <1>7, <1>8 DEF Path, EndsIn

\* An answer is added to a journal, under a key that it did not have.
Added(j, h, key, arg, outcome) ==
  /\ key \in DOMAIN h /\ h[key].arg = arg /\ h[key].outcome = outcome
  /\ \A k \in Keys \ {key} : (k \in DOMAIN h <=> k \in DOMAIN j) /\ (k \in DOMAIN j => h[k] = j[k])

\* The path after the answer at its end is recorded: one place longer, or as it
\* was if the answer aborts the turn.
LEMMA PathAnswered ==
  ASSUME NEW pr, NEW j, NEW h, NEW p, NEW L, NEW n, Path(pr, j, p, L, n), Asking(p[n]),
         KeyOf(p[n]) \notin DOMAIN j, NEW outcome,
         outcome \in AnswersTo(pr)[Head(p[n].pending).type],
         Added(j, h, KeyOf(p[n]), Head(p[n].pending).arg, outcome)
  PROVE  /\ Aborts(Head(p[n].pending), outcome) => Path(pr, h, p, L, n)
         /\ ~Aborts(Head(p[n].pending), outcome) =>
              EndsIn(pr, h, n + 1, poll_effect(Resumed(Rest(p[n]), Head(p[n].pending), outcome)))
<1> DEFINE key == KeyOf(p[n])
           e == Head(p[n].pending)
           m == poll_effect(Resumed(Rest(p[n]), e, outcome))
           low == p[n].next_effect_id
<1>0. n \in Nat /\ n \in 0..n /\ L[n] \in Nat /\ SomeSound(p[n], pr, L[n])
  BY DEF Path
<1>1. /\ e.id < low /\ low \in Nat /\ L[n] <= low /\ key \in Keys
  BY <1>0, AskingIs
<1>2. \A i \in 0..(n - 1) : Led(p[i], p[i + 1], h)
  <2> SUFFICES ASSUME NEW i \in 0..(n - 1) PROVE Led(p[i], p[i + 1], h)
    OBVIOUS
  <2>1. Led(p[i], p[i + 1], j) /\ i \in 0..n
    BY <1>0 DEF Path
  <2>2. L[i] \in Nat /\ SomeSound(p[i], pr, L[i])
    BY <2>1 DEF Path
  <2>3. Asking(p[i]) => KeyOf(p[i]) \in Keys
    BY <2>2, AskingIs
  <2> QED
    BY <2>1, <2>3 DEF Led, Added
<1>3. \A k \in DOMAIN h \cap Keys :
        \E i \in 0..n : /\ Asking(p[i]) /\ KeyOf(p[i]) = k /\ h[k].arg = Head(p[i].pending).arg
                        /\ i = n => k = key \/ Aborts(Head(p[i].pending), h[k].outcome)
  <2> SUFFICES ASSUME NEW k \in DOMAIN h \cap Keys
               PROVE \E i \in 0..n :
                        /\ Asking(p[i]) /\ KeyOf(p[i]) = k /\ h[k].arg = Head(p[i].pending).arg
                        /\ i = n => k = key \/ Aborts(Head(p[i].pending), h[k].outcome)
    OBVIOUS
  <2>1. CASE k = key
    BY <1>0, <2>1 DEF Added
  <2>2. CASE k # key
    <3>1. k \in DOMAIN j \cap Keys /\ h[k] = j[k]
      BY <2>2 DEF Added
    <3> QED
      BY <3>1 DEF Path
  <2> QED
    BY <2>1, <2>2
<1>4. CASE Aborts(e, outcome)
  <2>1. ASSUME NEW k \in DOMAIN h \cap Keys
        PROVE  \E i \in 0..n :
                 /\ Asking(p[i]) /\ KeyOf(p[i]) = k /\ h[k].arg = Head(p[i].pending).arg
                 /\ i = n => Aborts(Head(p[i].pending), h[k].outcome)
    <3>1. PICK i \in 0..n :
                 /\ Asking(p[i]) /\ KeyOf(p[i]) = k /\ h[k].arg = Head(p[i].pending).arg
                 /\ i = n => k = key \/ Aborts(Head(p[i].pending), h[k].outcome)
      BY <1>3
    <3>2. ASSUME i = n PROVE Aborts(Head(p[i].pending), h[k].outcome)
      BY <1>4, <3>1, <3>2 DEF Added
    <3> QED
      BY <3>1, <3>2
  <2>2. Path(pr, h, p, L, n)
    BY <1>2, <2>1 DEF Path
  <2> QED
    BY <1>4, <2>2
<1>5. CASE ~Aborts(e, outcome)
  <2>1. PICK draft, asked, requests : Sound(p[n], pr, L[n], draft, asked, requests)
    BY <1>0 DEF SomeSound
  <2>2. SomeSound(m, pr, low)
    <3> DEFINE t == p[n]
    <3>1. /\ Sound(t, pr, L[n], draft, asked, requests) /\ t.pending # <<>>
          /\ Head(t.pending).type \in QuestionTypes /\ low <= t.next_effect_id /\ low \in Nat
          /\ outcome \in AnswersTo(pr)[Head(t.pending).type] /\ ~Aborts(Head(t.pending), outcome)
          /\ m = poll_effect(Resumed(Rest(t), Head(t.pending), outcome))
      BY <1>1, <1>5, <2>1 DEF Asking
    <3> HIDE DEF t, m, low, e
    <3>2. Sound(poll_effect(Resumed(Rest(t), Head(t.pending), outcome)), pr, low, draft,
                IF Head(t.pending).type = "LlmCall" THEN Head(t.pending).arg.messages ELSE asked,
                IF Head(t.pending).type = "LlmCall" THEN requests + 1 ELSE requests)
      BY <3>1, ResumedSound
    <3> QED
      BY <3>1, <3>2 DEF SomeSound
  <2>3. Led(p[n], m, h)
    BY <1>5 DEF Led, Added
  <2> HIDE DEF m, low
  <2>4. Follows(p, n, h) /\ Covers(p, n, h)
    BY <1>2, <1>3 DEF Follows, Covers
  <2>5. EndsIn(pr, h, n + 1, m)
    BY <1>1, <2>2, <2>3, <2>4, PathLonger
  <2> QED
    BY <1>5, <2>5 DEF m
<1> QED
  BY <1>4, <1>5

\* A report at the end of the path is taken.
LEMMA PathReported ==
  ASSUME NEW pr, NEW j, NEW p, NEW L, NEW n, Path(pr, j, p, L, n),
         p[n].pending # <<>>, Head(p[n].pending).type = "Progress"
  PROVE  EndsIn(pr, j, n + 1, poll_effect(Rest(p[n])))
<1> DEFINE m == poll_effect(Rest(p[n]))
<1>0. n \in Nat /\ n \in 0..n /\ L[n] \in Nat /\ SomeSound(p[n], pr, L[n])
  BY DEF Path
<1>1. PICK draft, asked, requests : Sound(p[n], pr, L[n], draft, asked, requests)
  BY <1>0 DEF SomeSound
<1>2. SomeSound(m, pr, L[n])
  <2>1. Sound(Rest(p[n]), pr, L[n], Boundary(draft, Head(p[n].pending)), asked, requests)
    BY <1>1, ReportTaken
  <2>2. Sound(m, pr, L[n], Boundary(draft, Head(p[n].pending)), asked, requests)
    BY <1>0, <2>1, PollSound
  <2> QED
    BY <2>2 DEF SomeSound
<1>3. Led(p[n], m, j) /\ ~Asking(p[n]) /\ L[n] <= L[n]
  BY <1>0 DEF Led, Asking, QuestionTypes
<1> HIDE DEF m
<1>4. Follows(p, n, j) /\ Covers(p, n, j)
  BY DEF Path, Follows, Covers
<1>6. Asking(p[n]) => Head(p[n].pending).id < L[n]
  BY <1>3
<1>7. EndsIn(pr, j, n + 1, m)
  <2>1. PICK low : low = L[n]
    OBVIOUS
  <2>2. low \in Nat /\ SomeSound(m, pr, low) /\ L[n] <= low
        /\ (Asking(p[n]) => Head(p[n].pending).id < low)
    BY <1>0, <1>2, <1>3, <1>6, <2>1
  <2> QED
    BY <1>3, <1>4, <2>2, PathLonger
<1> QED
  BY <1>7 DEF m

-----------------------------------------------------------------------------
(* A run on the path. *)

NewMach(pr) == poll_effect(NewMachine(pr, <<"user">>))

\* Without a journal the path is its first machine.
LEMMA OnPathStart ==
  ASSUME NEW pr \in Protocols
  PROVE  OnPath(pr, <<>>, NewMach(pr))
<1> DEFINE p == [i \in {0} |-> NewMach(pr)]
           L == [i \in {0} |-> 0]
<1>1. Sound(NewMach(pr), pr, 0, <<>>, <<>>, 0)
  BY NewSound, PollSound DEF NewMach
<1>2. p[0] = NewMach(pr) /\ L[0] = 0 /\ 0..0 = {0} /\ 0..(0 - 1) = {}
  OBVIOUS
<1>3. SomeSound(NewMach(pr), pr, 0)
  BY <1>1 DEF SomeSound
<1> HIDE DEF p, L
<1>4. Path(pr, <<>>, p, L, 0)
  BY <1>2, <1>3 DEF Path, NewMach
<1> QED
  BY <1>2, <1>4 DEF OnPath

\* A run that starts again is on the path.
LEMMA OnPathAgain ==
  ASSUME NEW pr, NEW j, NEW m, OnPath(pr, j, m)
  PROVE  OnPath(pr, j, NewMach(pr))
<1>1. PICK p, L, n : Path(pr, j, p, L, n)
  BY DEF OnPath
<1>2. 0 \in 0..n /\ p[0] = NewMach(pr)
  BY <1>1 DEF Path, NewMach
<1> QED
  BY <1>1, <1>2 DEF OnPath

\* A run stays on the path of a journal that leads the same way.
LEMMA OnPathAlike ==
  ASSUME NEW pr, NEW j, NEW h, Alike(j, h), NEW m, OnPath(pr, j, m)
  PROVE  OnPath(pr, h, m)
<1>1. PICK p, L, n : Path(pr, j, p, L, n) /\ (m.state = "Finished" \/ \E i \in 0..n : m = p[i])
  BY DEF OnPath
<1>2. Path(pr, h, p, L, n)
  BY <1>1, PathAlike
<1> QED
  BY <1>1, <1>2 DEF OnPath

\* A machine that has ended stays on no path.
LEMMA OnPathEnded ==
  ASSUME NEW pr, NEW j, NEW m, OnPath(pr, j, m), NEW n, n.state = "Finished"
  PROVE  OnPath(pr, j, n)
BY DEF OnPath

\* A report is taken along the path, or at its end.
LEMMA OnPathReport ==
  ASSUME NEW pr, NEW j, NEW m \in Machines(pr), OnPath(pr, j, m), m.pending # <<>>,
         Head(m.pending).type = "Progress"
  PROVE  OnPath(pr, j, poll_effect(Rest(m)))
<1>1. CASE m.state = "Finished"
  <2>1. Rest(m).state = "Finished"
    BY <1>1, RestIs DEF SameWait
  <2>2. poll_effect(Rest(m)) = Rest(m)
    BY <2>1 DEF poll_effect
  <2> QED
    BY <2>1, <2>2, OnPathEnded
<1>2. CASE m.state # "Finished"
  <2>1. PICK p, L, n : Path(pr, j, p, L, n) /\ \E i \in 0..n : m = p[i]
    BY <1>2 DEF OnPath
  <2>2. PICK i \in 0..n : m = p[i]
    BY <2>1
  <2>3. n \in Nat
    BY <2>1 DEF Path
  <2>4. CASE i = n
    <3>1. EndsIn(pr, j, n + 1, poll_effect(Rest(p[n])))
      BY <2>1, <2>2, <2>4, PathReported
    <3>2. n + 1 \in 0..(n + 1)
      BY <2>3
    <3> QED
      BY <2>2, <2>4, <3>1, <3>2 DEF OnPath, EndsIn
  <2>5. CASE i # n
    <3>1. i \in 0..(n - 1) /\ i + 1 \in 0..n
      BY <2>3, <2>5
    <3>2. Led(p[i], p[i + 1], j)
      BY <2>1, <3>1 DEF Path
    <3>3. p[i + 1] = poll_effect(Rest(m))
      BY <2>2, <3>2 DEF Led, Asking, QuestionTypes
    <3> QED
      BY <2>1, <3>1, <3>3 DEF OnPath
  <2> QED
    BY <2>4, <2>5
<1> QED
  BY <1>1, <1>2

\* A recorded answer is one to what the machine asks for, and leads along the path.
LEMMA OnPathReplay ==
  ASSUME NEW pr, NEW j, NEW m, OnPath(pr, j, m), m.state # "Finished", Asking(m), KeyOf(m) \in DOMAIN j
  PROVE  /\ j[KeyOf(m)].arg = Head(m.pending).arg
         /\ ~Aborts(Head(m.pending), j[KeyOf(m)].outcome) =>
              OnPath(pr, j, poll_effect(Resumed(Rest(m), Head(m.pending), j[KeyOf(m)].outcome)))
<1>1. PICK p, L, n : Path(pr, j, p, L, n) /\ \E i \in 0..n : m = p[i]
  BY DEF OnPath
<1>2. PICK i \in 0..n : m = p[i]
  BY <1>1
<1>3. Asking(p[i]) /\ KeyOf(p[i]) \in DOMAIN j
  BY <1>2
<1>4. j[KeyOf(p[i])].arg = Head(p[i].pending).arg
  BY <1>1, <1>3, PathKey
<1>5. ASSUME ~Aborts(Head(p[i].pending), j[KeyOf(p[i])].outcome)
      PROVE  OnPath(pr, j, poll_effect(Resumed(Rest(p[i]), Head(p[i].pending), j[KeyOf(p[i])].outcome)))
  <2>1. /\ i + 1 \in 0..n
        /\ p[i + 1] = poll_effect(Resumed(Rest(p[i]), Head(p[i].pending), j[KeyOf(p[i])].outcome))
    BY <1>1, <1>3, <1>5, PathNext
  <2> QED
    BY <1>1, <2>1 DEF OnPath
<1> QED
  BY <1>2, <1>4, <1>5

\* A new answer is added at the end of the path.
LEMMA OnPathAnswer ==
  ASSUME NEW pr, NEW j, NEW h, NEW m, OnPath(pr, j, m), m.state # "Finished", Asking(m),
         KeyOf(m) \notin DOMAIN j, NEW outcome, outcome \in AnswersTo(pr)[Head(m.pending).type],
         Added(j, h, KeyOf(m), Head(m.pending).arg, outcome)
  PROVE  IF Aborts(Head(m.pending), outcome) THEN OnPath(pr, h, m)
         ELSE OnPath(pr, h, poll_effect(Resumed(Rest(m), Head(m.pending), outcome)))
<1>1. PICK p, L, n : Path(pr, j, p, L, n) /\ \E i \in 0..n : m = p[i]
  BY DEF OnPath
<1>2. PICK i \in 0..n : m = p[i]
  BY <1>1
<1>3. i = n /\ n \in Nat
  <2>1. Asking(p[i]) /\ KeyOf(p[i]) \notin DOMAIN j
    BY <1>2
  <2>2. i = n
    BY <1>1, <2>1, PathNext
  <2> QED
    BY <1>1, <2>2 DEF Path
<1>4. /\ m = p[n] /\ Asking(p[n]) /\ KeyOf(p[n]) \notin DOMAIN j
      /\ outcome \in AnswersTo(pr)[Head(p[n].pending).type]
      /\ Added(j, h, KeyOf(p[n]), Head(p[n].pending).arg, outcome)
  BY <1>2, <1>3
<1>5. CASE Aborts(Head(m.pending), outcome)
  <2>1. Path(pr, h, p, L, n)
    BY <1>1, <1>4, <1>5, PathAnswered
  <2> QED
    BY <1>2, <1>5, <2>1 DEF OnPath
<1>6. CASE ~Aborts(Head(m.pending), outcome)
  <2>1. ~Aborts(Head(p[n].pending), outcome)
    BY <1>4, <1>6
  <2>4. EndsIn(pr, h, n + 1, poll_effect(Resumed(Rest(p[n]), Head(p[n].pending), outcome)))
    BY <1>1, <1>4, <2>1, PathAnswered
  <2>2. n + 1 \in 0..(n + 1)
    BY <1>3
  <2>3. OnPath(pr, h, poll_effect(Resumed(Rest(m), Head(m.pending), outcome)))
    BY <1>4, <2>2, <2>4 DEF OnPath, EndsIn
  <2> QED
    BY <1>6, <2>3
<1> QED
  BY <1>5, <1>6

-----------------------------------------------------------------------------
(* The steps of the host, on the path. *)

\* What a step must show, for the invariant of replay.
LEMMA ReplayStep ==
  ASSUME Kept, OnPath(run.mach.protocol, journal', run'.mach), Busy' => Unrecorded', phase' # "conflict"
  PROVE  ReplayInv'
BY DEF Kept, ReplayInv, NoReplayConflict

\* What is known of a run that has a question at the head of its queue.
LEMMA AskingRun ==
  ASSUME HostInv, run.mach.pending # <<>>, Effect.type \in QuestionTypes
  PROVE  /\ Asking(run.mach) /\ Key = KeyOf(run.mach) /\ Key \in Keys /\ Len(Key) = 3
         /\ run.mach.state # "Finished" /\ Effect = Head(run.mach.pending) /\ Taken = Rest(run.mach)
<1> DEFINE pr == run.mach.protocol
<1>1. RunOK(phase, run, pr) /\ SomeSound(run.mach, pr, 0)
  BY DEF HostInv, RunOK, SomeSound
<1>2. Effect = Head(run.mach.pending) /\ Taken = Rest(run.mach)
  BY DEF Effect, Taken, Rest
<1>3. Asking(run.mach) /\ Key = KeyOf(run.mach)
  BY <1>2 DEF Asking, Key, KeyOf
<1>4. Key \in Keys /\ Len(Key) = 3
  BY <1>1, KeyIs DEF Keys
<1>5. run.mach.state # "Finished"
  BY <1>1, <1>3, AskingIs
<1> QED
  BY <1>2, <1>3, <1>4, <1>5

\* A run that has something in hand was asked for it.
LEMMA BusyRun ==
  ASSUME HostInv, Busy
  PROVE  phase = "running" /\ run.mach.pending # <<>> /\ Effect.type \in QuestionTypes
BY DEF HostInv, RunOK, InHand, Busy, Effect, QuestionTypes

\* The machine of a run that takes an answer.
LEMMA AnswerMach ==
  ASSUME NEW pr, NEW r \in Runs(pr), NEW m, NEW e, e.type \in QuestionTypes, NEW outcome
  PROVE  /\ Answer(r, m, e, outcome).mach = poll_effect(Resumed(m, e, outcome))
         /\ ~r.claimed => ~Answer(r, m, e, outcome).claimed
<1>1. CASE e.type = "LlmCall"
  BY <1>1 DEF Answer, Resumed, Runs
<1>2. CASE e.type = "ExecCode"
  BY <1>2 DEF Answer, Resumed, Runs
<1>3. CASE e.type = "ToolCalls"
  BY <1>3 DEF Answer, Resumed, Runs
<1>4. CASE e.type = "SyncExecutionEnvironment"
  BY <1>4 DEF Answer, Resumed, Runs
<1>5. CASE e.type = "Checkpoint"
  BY <1>5 DEF Answer, Resumed, Runs
<1> QED
  BY <1>1, <1>2, <1>3, <1>4, <1>5 DEF QuestionTypes

\* A first answer is added to the journal.
LEMMA RecordedAdded ==
  ASSUME NEW key, key \notin DOMAIN journal, NEW arg, NEW outcome
  PROVE  Added(journal, Recorded(key, arg, outcome), key, arg, outcome)
BY DEF Added, Recorded

\* A first answer, in a journal that holds it.
LEMMA AnswerLeads ==
  ASSUME HostInv, ReplayInv, run.mach.pending # <<>>, Effect.type \in QuestionTypes, Unrecorded,
         NEW outcome, outcome \in AnswersTo(run.mach.protocol)[Effect.type],
         NEW h, Added(journal, h, Key, Effect.arg, outcome), NEW r \in Runs(run.mach.protocol)
  PROVE  /\ Aborts(Effect, outcome) => OnPath(run.mach.protocol, h, run.mach)
         /\ ~Aborts(Effect, outcome) =>
              OnPath(run.mach.protocol, h, Answer(r, Taken, Effect, outcome).mach)
<1> DEFINE pr == run.mach.protocol
           m == run.mach
           e == Head(m.pending)
<1>1. /\ Asking(m) /\ Key = KeyOf(m) /\ m.state # "Finished" /\ Effect = e /\ Taken = Rest(m)
  BY AskingRun
<1>2. OnPath(pr, journal, m) /\ KeyOf(m) \notin DOMAIN journal
  BY <1>1 DEF ReplayInv, Unrecorded
<1>3. outcome \in AnswersTo(pr)[e.type] /\ Added(journal, h, KeyOf(m), e.arg, outcome)
  BY <1>1
<1>4. Answer(r, Rest(m), e, outcome).mach = poll_effect(Resumed(Rest(m), e, outcome))
  BY <1>1, AnswerMach
<1>5. IF Aborts(e, outcome) THEN OnPath(pr, h, m)
      ELSE OnPath(pr, h, poll_effect(Resumed(Rest(m), e, outcome)))
  <2> HIDE DEF pr, m
  <2> QED
    BY <1>1, <1>2, <1>3, OnPathAnswer
<1> QED
  BY <1>1, <1>4, <1>5

\* A run that ends without a result is followed by a new one.
LEMMA EndRunPath ==
  ASSUME NEW how, NEW vm, EndRun(how, vm)
  PROVE  run'.mach = NewMach(run.mach.protocol) /\ ~Busy' /\ phase' = how
<1>1. run' = [NewRun(run.mach.protocol) EXCEPT !.vm = vm] /\ phase' = how
  BY DEF EndRun
<1> QED
  BY <1>1 DEF NewRun, NewMach, Busy

\* A step that leaves the machine alone and records no answer to its questions.
LEMMA SameMachReplay ==
  ASSUME HostInv, ReplayInv, Kept, Alike(journal, journal'), run'.mach = run.mach,
         Busy' => Busy \/ (run.mach.pending # <<>> /\ Effect.type \in QuestionTypes /\ Unrecorded),
         phase' # "conflict"
  PROVE  ReplayInv'
<1>1. OnPath(run.mach.protocol, journal', run'.mach)
  BY OnPathAlike DEF ReplayInv
<1>2. ASSUME Busy' PROVE Unrecorded'
  <2>1. run.mach.pending # <<>> /\ Effect.type \in QuestionTypes /\ Unrecorded
    BY <1>2, BusyRun DEF ReplayInv
  <2>2. Key \in Keys /\ Key \notin DOMAIN journal
    BY <2>1, AskingRun DEF Unrecorded
  <2>3. Key \notin DOMAIN journal'
    BY <2>2 DEF Alike
  <2>4. Key' = Key
    BY DEF Key, Taken, Effect
  <2> QED
    BY <2>3, <2>4 DEF Unrecorded
<1> QED
  BY <1>1, <1>2, ReplayStep

\* The same journal leads the same way.
LEMMA AlikeSame ==
  ASSUME journal' = journal
  PROVE  Alike(journal, journal')
BY DEF Alike

\* The steps that touch neither the machine nor the journal.
LEMMA IdleReplay ==
  ASSUME HostInv, ReplayInv, Kept,
         \/ StartTurn \/ Cancel \/ AskAgain \/ ClaimsExpire \/ ClaimCommand
         \/ \E b \in Boundaries, m \in 0..MaxBatches : ClaimTurnWork(b, m)
  PROVE  ReplayInv'
<1> DEFINE pr == run.mach.protocol
<1>1. /\ journal' = journal /\ phase' # "conflict"
      /\ run' = run \/ run' = [run EXCEPT !.cancel = TRUE]
  BY DEF StartTurn, Cancel, AskAgain, ClaimsExpire, ClaimCommand, ClaimTurnWork, ReplayInv,
         NoReplayConflict
<1>2. run \in Runs(pr)
  BY DEF HostInv, RunOK
<1>3. run'.mach = run.mach /\ run'.batch = run.batch /\ run'.claimed = run.claimed
  BY <1>1, <1>2 DEF Runs
<1>4. Busy' => Busy
  BY <1>3 DEF Busy
<1> QED
  BY <1>1, <1>3, <1>4, AlikeSame, SameMachReplay

\* HandleProgress moves along the path.
LEMMA ProgressReplay ==
  ASSUME HostInv, ReplayInv, Kept, HandleProgress
  PROVE  ReplayInv'
<1> DEFINE pr == run.mach.protocol
           d == Boundary(run.draft, Effect)
           p == poll_effect(Taken)
<1>1. /\ phase = "running" /\ ~Busy /\ run.mach.pending # <<>> /\ Effect.type = "Progress"
      /\ phase' = phase /\ journal' = journal /\ run' = [run EXCEPT !.mach = p, !.draft = d]
  BY DEF HandleProgress, Handling
<1>2. /\ run \in Runs(pr) /\ run.mach \in Machines(pr) /\ run.batch = NoBatch /\ ~run.claimed
      /\ Effect = Head(run.mach.pending) /\ Taken = Rest(run.mach)
  BY <1>1, HandlingIs DEF Runs
<1>3. OnPath(pr, journal, p)
  BY <1>1, <1>2, OnPathReport DEF ReplayInv
<1> HIDE DEF p, d
<1>4. run'.mach = p /\ run'.batch = NoBatch /\ ~run'.claimed
  BY <1>1, <1>2 DEF Runs
<1>5. ~Busy'
  BY <1>4 DEF Busy
<1> QED
  BY <1>1, <1>3, <1>4, <1>5, ReplayStep

\* A run that ends leaves the path for good.
LEMMA DoneReplay ==
  ASSUME HostInv, ReplayInv, Kept, HandleDone \/ CancelledBeforeLlm
  PROVE  ReplayInv'
<1> DEFINE pr == run.mach.protocol
<1>1. phase = "running" /\ ~Busy /\ journal' = journal /\ phase' # "conflict"
  BY DEF HandleDone, CancelledBeforeLlm, Handling
<1>2. CASE run.mach.pending = <<>>
  <2>1. run' = run
    BY <1>2 DEF HandleDone, CancelledBeforeLlm, Handling
  <2>2. Busy' => Busy
    BY <2>1 DEF Busy
  <2> QED
    BY <1>1, <2>1, <2>2, AlikeSame, SameMachReplay
<1>3. CASE run.mach.pending # <<>>
  <2>1. /\ run \in Runs(pr) /\ run.mach \in Machines(pr) /\ run.batch = NoBatch /\ ~run.claimed
        /\ Effect = Head(run.mach.pending) /\ Taken = Rest(run.mach)
        /\ Sound(run.mach, pr, 0, run.draft, run.asked, run.requests)
    BY <1>1, <1>3, HandlingIs DEF Runs
  <2>2. Rest(run.mach) \in Machines(pr) /\ SameWait(run.mach, Rest(run.mach))
    BY <1>3, <2>1, RestIs
  <2>3. run'.mach.state = "Finished" /\ run'.batch = NoBatch /\ ~run'.claimed
    <3>1. CASE HandleDone
      <4> DEFINE m == [Rest(run.mach) EXCEPT !.messages = Effect.messages]
                 d == run.draft \o Effect.delta
                 o == Effect.outcome
      <4>1. run' = [run EXCEPT !.mach = m, !.draft = d, !.outcome = o] /\ Effect.type = "Done"
        BY <1>3, <2>1, <3>1 DEF HandleDone
      <4>2. run.mach.state = "Finished"
        <5>1. Head(run.mach.pending) = run.mach.pending[1] /\ 1 \in 1..Len(run.mach.pending)
          BY <1>3, <2>1, RestIs
        <5>2. run.mach.pending[1].type = "Done"
          BY <2>1, <4>1, <5>1
        <5> QED
          BY <2>1, <5>1, <5>2 DEF Sound, QueueOK, Awaited, Ending, QuestionTypes
      <4>3. m.state = "Finished"
        BY <2>2, <4>2 DEF SameWait, Machines
      <4> HIDE DEF m, d, o
      <4>4. run'.mach = m /\ run'.batch = NoBatch /\ ~run'.claimed
        BY <2>1, <4>1 DEF Runs
      <4> QED
        BY <4>3, <4>4
    <3>2. CASE CancelledBeforeLlm
      <4> DEFINE m == finish(Rest(run.mach), "cancelled")
      <4>1. run' = [run EXCEPT !.mach = m]
        BY <2>1, <3>2 DEF CancelledBeforeLlm
      <4>2. m.state = "Finished"
        BY <2>2 DEF finish, Queue, Machines
      <4> HIDE DEF m
      <4>3. run'.mach = m /\ run'.batch = NoBatch /\ ~run'.claimed
        BY <2>1, <4>1 DEF Runs
      <4> QED
        BY <4>2, <4>3
    <3> QED
      BY <3>1, <3>2
  <2>4. OnPath(pr, journal, run'.mach)
    BY <2>3, OnPathEnded DEF ReplayInv
  <2>5. ~Busy'
    BY <2>3 DEF Busy
  <2> QED
    BY <1>1, <2>4, <2>5, ReplayStep
<1> QED
  BY <1>2, <1>3

\* Commit forgets the journal, and a new path begins.
LEMMA CommitReplay ==
  ASSUME HostInv, Kept, Commit
  PROVE  ReplayInv'
<1> DEFINE pr == run.mach.protocol
<1>1. run' = NewRun(pr) /\ journal' = <<>> /\ phase' = "idle"
  BY DEF Commit
<1>2. run'.mach = NewMach(pr) /\ ~Busy'
  BY <1>1 DEF NewRun, NewMach, Busy
<1>3. pr \in Protocols
  BY DEF HostInv, RunOK, Sound
<1>4. OnPath(pr, journal', run'.mach)
  BY <1>1, <1>2, <1>3, OnPathStart
<1> QED
  BY <1>1, <1>2, <1>4, ReplayStep

\* A run that ends without a result starts the path again.
LEMMA EndReplay ==
  ASSUME ReplayInv, Kept, NEW how, how # "conflict", NEW vm, EndRun(how, vm), journal' = journal
  PROVE  ReplayInv'
<1> DEFINE pr == run.mach.protocol
<1>1. run'.mach = NewMach(pr) /\ ~Busy' /\ phase' = how
  BY EndRunPath
<1>2. OnPath(pr, journal, NewMach(pr))
  BY OnPathAgain DEF ReplayInv
<1> QED
  BY <1>1, <1>2, ReplayStep

\* ReplayEffect: what is recorded was asked for, so there is no conflict.
LEMMA ReplayReplay ==
  ASSUME HostInv, ReplayInv, Kept, ReplayEffect
  PROVE  ReplayInv'
<1> DEFINE pr == run.mach.protocol
           m == run.mach
           o == journal[Key].outcome
<1>1. /\ phase = "running" /\ ~Busy /\ m.pending # <<>> /\ Effect.type \in QuestionTypes
      /\ Key \in DOMAIN journal /\ journal' = journal
  BY DEF ReplayEffect, Asks, Handling, Unrecorded, QuestionTypes
<1>2. /\ Asking(m) /\ Key = KeyOf(m) /\ m.state # "Finished" /\ Effect = Head(m.pending)
      /\ Taken = Rest(m) /\ OnPath(pr, journal, m)
  BY <1>1, AskingRun DEF ReplayInv
<1>3. run \in Runs(pr) /\ run.batch = NoBatch /\ ~run.claimed
  BY <1>1, HandlingIs
<1>4. journal[Key].arg = Effect.arg
  BY <1>1, <1>2, OnPathReplay
<1>5. CASE Aborts(Effect, o)
  <2>1. EndRun("aborted", run.vm)
    BY <1>4, <1>5 DEF ReplayEffect
  <2> QED
    BY <1>1, <2>1, EndReplay
<1>6. CASE ~Aborts(Effect, o)
  <2> DEFINE a == Answer(run, Taken, Effect, o)
  <2>1. run' = a /\ phase' = phase
    BY <1>4, <1>6 DEF ReplayEffect
  <2>2. OnPath(pr, journal, poll_effect(Resumed(Taken, Effect, o)))
    BY <1>1, <1>2, <1>6, OnPathReplay
  <2>3. a.mach = poll_effect(Resumed(Taken, Effect, o)) /\ ~a.claimed
    BY <1>1, <1>3, AnswerMach
  <2>4. a.batch = NoBatch
    BY <1>1, <1>3, AnswerKeeps
  <2> HIDE DEF a
  <2>5. ~Busy'
    BY <2>1, <2>3, <2>4 DEF Busy
  <2>6. OnPath(pr, journal', run'.mach)
    BY <1>1, <2>1, <2>2, <2>3
  <2> QED
    BY <1>1, <2>1, <2>5, <2>6, ReplayStep
<1> QED
  BY <1>5, <1>6

\* An effect that runs and is recorded in one step.
LEMMA RanReplay ==
  ASSUME HostInv, ReplayInv, Kept, NEW type \in QuestionTypes, Handling(type), Unrecorded, NEW outcome,
         outcome \in AnswersTo(run.mach.protocol)[type], ~Aborts(Effect, outcome),
         journal' = Recorded(Key, Effect.arg, outcome), UNCHANGED phase,
         \/ run' = Answer(run, Taken, Effect, outcome)
         \/ run' = [Answer(run, Taken, Effect, outcome) EXCEPT !.cancel = TRUE]
         \/ run' = [Answer(run, Taken, Effect, outcome) EXCEPT !.vm = @ \cup {Effect.id}]
  PROVE  ReplayInv'
<1> DEFINE pr == run.mach.protocol
           a == Answer(run, Taken, Effect, outcome)
<1>1. /\ phase = "running" /\ ~Busy /\ run.mach.pending # <<>> /\ Effect.type \in QuestionTypes
      /\ Effect.type = type
  BY DEF Handling
<1>2. run \in Runs(pr) /\ run.batch = NoBatch /\ ~run.claimed
  BY <1>1, HandlingIs
<1>3. Added(journal, journal', Key, Effect.arg, outcome)
  BY RecordedAdded DEF Unrecorded
<1>4. OnPath(pr, journal', a.mach)
  BY <1>1, <1>2, <1>3, AnswerLeads
<1>5. a \in Runs(pr)
  <2>1. RunOK("running", a, pr)
    BY <1>1, EffectAnswered
  <2> QED
    BY <2>1 DEF RunOK
<1>6. ~a.claimed
  BY <1>1, <1>2, AnswerMach
<1>7. a.batch = NoBatch
  BY <1>1, <1>2, AnswerKeeps
<1> DEFINE v == a.vm \cup {Effect.id}
<1>8. run' = a \/ run' = [a EXCEPT !.cancel = TRUE] \/ run' = [a EXCEPT !.vm = v]
  OBVIOUS
<1> HIDE DEF a, v
<1>9. run'.mach = a.mach /\ run'.batch = NoBatch /\ ~run'.claimed
  <2>1. CASE run' = a
    BY <1>6, <1>7, <2>1
  <2>2. CASE run' = [a EXCEPT !.cancel = TRUE]
    BY <1>5, <1>6, <1>7, <2>2 DEF Runs
  <2>3. CASE run' = [a EXCEPT !.vm = v]
    BY <1>5, <1>6, <1>7, <2>3 DEF Runs
  <2> QED
    BY <1>8, <2>1, <2>2, <2>3
<1>10. ~Busy'
  BY <1>9 DEF Busy
<1>11. phase' # "conflict"
  BY <1>1
<1> QED
  BY <1>4, <1>9, <1>10, <1>11, ReplayStep

\* The effects that run and are recorded in one step make the path longer.
LEMMA EffectReplays ==
  ASSUME HostInv, ReplayInv, Kept, RunLlm \/ CancelDuringLlm \/ RunSync \/ RunExec
  PROVE  ReplayInv'
<1> DEFINE pr == run.mach.protocol
<1>0. /\ AnswersTo(pr)["LlmCall"] = Replies(pr) \cup {Reply("cancelled", <<>>)}
      /\ AnswersTo(pr)["SyncExecutionEnvironment"] = {"ok", "failed"}
      /\ AnswersTo(pr)["ExecCode"] = ExecOutcomes
  BY DEF AnswersTo
<1>1. \A type \in QuestionTypes : Handling(type) /\ type # "Checkpoint" => \A o : ~Aborts(Effect, o)
  BY DEF Handling, Aborts
<1>2. {"LlmCall", "SyncExecutionEnvironment", "ExecCode"} \subseteq QuestionTypes
  BY DEF QuestionTypes
<1>3. CASE RunLlm
  <2>1. PICK o \in Replies(pr) :
          journal' = Recorded(Key, Effect.arg, o) /\ run' = Answer(run, Taken, Effect, o)
    BY <1>3 DEF RunLlm
  <2>2. Handling("LlmCall") /\ UNCHANGED phase /\ Unrecorded
    BY <1>3 DEF RunLlm
  <2>3. o \in AnswersTo(pr)["LlmCall"] /\ "LlmCall" \in QuestionTypes /\ ~Aborts(Effect, o)
    BY <1>0, <1>1, <1>2, <2>2
  <2> QED
    BY <2>1, <2>2, <2>3, RanReplay
<1>4. CASE CancelDuringLlm
  <2> DEFINE o == Reply("cancelled", <<>>)
  <2>1. /\ journal' = Recorded(Key, Effect.arg, o)
        /\ run' = [Answer(run, Taken, Effect, o) EXCEPT !.cancel = TRUE]
    BY <1>4 DEF CancelDuringLlm
  <2>2. Handling("LlmCall") /\ UNCHANGED phase /\ Unrecorded
    BY <1>4 DEF CancelDuringLlm
  <2>3. o \in AnswersTo(pr)["LlmCall"] /\ "LlmCall" \in QuestionTypes /\ ~Aborts(Effect, o)
    BY <1>0, <1>1, <1>2, <2>2
  <2> HIDE DEF o
  <2> QED
    BY <2>1, <2>2, <2>3, RanReplay
<1>5. CASE RunSync
  <2>1. PICK o \in {"ok", "failed"} :
          journal' = Recorded(Key, Effect.arg, o) /\ run' = Answer(run, Taken, Effect, o)
    BY <1>5 DEF RunSync
  <2>2. Handling("SyncExecutionEnvironment") /\ UNCHANGED phase /\ Unrecorded
    BY <1>5 DEF RunSync
  <2>3. /\ o \in AnswersTo(pr)["SyncExecutionEnvironment"] /\ ~Aborts(Effect, o)
        /\ "SyncExecutionEnvironment" \in QuestionTypes
    BY <1>0, <1>1, <1>2, <2>2
  <2> QED
    BY <2>1, <2>2, <2>3, RanReplay
<1>6. CASE RunExec
  <2>1. PICK o \in ExecOutcomes :
          /\ journal' = Recorded(Key, Effect.arg, o)
          /\ run' = [Answer(run, Taken, Effect, o) EXCEPT !.vm = @ \cup {Effect.id}]
    BY <1>6 DEF RunExec
  <2>2. Handling("ExecCode") /\ UNCHANGED phase /\ Unrecorded
    BY <1>6 DEF RunExec
  <2>3. o \in AnswersTo(pr)["ExecCode"] /\ "ExecCode" \in QuestionTypes /\ ~Aborts(Effect, o)
    BY <1>0, <1>1, <1>2, <2>2
  <2> QED
    BY <2>1, <2>2, <2>3, RanReplay
<1> QED
  BY <1>3, <1>4, <1>5, <1>6

\* The run takes an effect in hand that has no recorded answer.
LEMMA StartReplay ==
  ASSUME HostInv, ReplayInv, Kept, RunCheckpoint \/ StartBatch
  PROVE  ReplayInv'
<1>1. /\ phase = "running" /\ run.mach.pending # <<>> /\ Effect.type \in QuestionTypes /\ Unrecorded
      /\ phase' = phase /\ journal' = journal
  BY DEF RunCheckpoint, StartBatch, Handling, QuestionTypes
<1>2. run \in Runs(run.mach.protocol)
  BY DEF HostInv, RunOK
<1>3. run'.mach = run.mach
  <2>1. CASE RunCheckpoint
    <3>1. PICK x, y : run' = [run EXCEPT !.claimed = TRUE, !.delivery = x, !.mine = y]
      BY <2>1 DEF RunCheckpoint
    <3> QED
      BY <1>2, <3>1 DEF Runs
  <2>2. CASE StartBatch
    <3>1. PICK b : run' = [run EXCEPT !.batch = b]
      BY <2>2 DEF StartBatch
    <3> QED
      BY <1>2, <3>1 DEF Runs
  <2> QED
    BY <2>1, <2>2
<1> QED
  BY <1>1, <1>3, AlikeSame, SameMachReplay

\* RecordCheckpoint makes the path longer, or ends it in an abort.
LEMMA RecordReplay ==
  ASSUME HostInv, ReplayInv, Kept, RecordCheckpoint
  PROVE  ReplayInv'
<1> DEFINE pr == run.mach.protocol
           d == run.delivery
           r == [run EXCEPT !.claimed = FALSE, !.delivery = <<>>]
<1>0. phase = "running" /\ run.claimed /\ journal' = Recorded(Key, Effect.arg, d)
  BY DEF RecordCheckpoint, RecordCheckpointAs
<1>1. run \in Runs(pr) /\ d \in Deliveries
  BY DEF HostInv, RunOK, Runs
<1>2. run.mach.pending # <<>> /\ Effect.type = "Checkpoint" /\ run.batch = NoBatch /\ Unrecorded
  BY <1>0 DEF HostInv, RunOK, InHand, Effect, ReplayInv, Busy
<1>3. Effect.type \in QuestionTypes /\ d \in AnswersTo(pr)[Effect.type]
  BY <1>1, <1>2 DEF QuestionTypes, AnswersTo
<1>4. Added(journal, journal', Key, Effect.arg, d)
  BY <1>0, <1>2, RecordedAdded DEF Unrecorded
<1>5. CASE Aborts(Effect, d)
  <2>1. EndRun("aborted", run.vm)
    BY <1>5 DEF RecordCheckpoint, RecordCheckpointAs
  <2>2. run'.mach = NewMach(pr) /\ ~Busy' /\ phase' = "aborted"
    BY <2>1, EndRunPath
  <2>3. OnPath(pr, journal', run.mach)
    BY <1>1, <1>2, <1>3, <1>4, <1>5, AnswerLeads
  <2>4. OnPath(pr, journal', NewMach(pr))
    BY <2>3, OnPathAgain
  <2> QED
    BY <2>2, <2>4, ReplayStep
<1>6. CASE ~Aborts(Effect, d)
  <2> DEFINE a == Answer(r, Taken, Effect, d)
  <2>1. run' = a /\ phase' = phase
    BY <1>6 DEF RecordCheckpoint, RecordCheckpointAs
  <2>2. <<>> \in Deliveries
    BY DEF Deliveries
  <2>3. r \in Runs(pr) /\ r.batch = NoBatch /\ ~r.claimed
    BY <1>1, <1>2, <2>2 DEF Runs
  <2> HIDE DEF r
  <2>4. OnPath(pr, journal', a.mach)
    BY <1>2, <1>3, <1>4, <1>6, <2>3, AnswerLeads
  <2>5. ~a.claimed
    BY <1>3, <2>3, AnswerMach
  <2>6. a.batch = NoBatch
    BY <1>3, <2>3, AnswerKeeps
  <2> HIDE DEF a
  <2>7. ~Busy'
    BY <2>1, <2>5, <2>6 DEF Busy
  <2> QED
    BY <1>0, <2>1, <2>4, <2>7, ReplayStep
<1> QED
  BY <1>5, <1>6

\* The steps of a batch record attempts only.
LEMMA BatchReplay ==
  ASSUME HostInv, ReplayInv, Kept, NEW i \in DOMAIN run.batch.calls,
         BatchCall(i) \/ RunAttempt(i) \/ ReplayAttempt(i) \/ AttemptError(i) \/ CancelCall(i)
  PROVE  ReplayInv'
<1> DEFINE pr == run.mach.protocol
<1>1. InBatch /\ phase' = phase
  BY DEF BatchCall, RunAttempt, ReplayAttempt, AttemptError, CancelCall
<1>2. /\ phase = "running" /\ RunOK(phase, run, pr) /\ run \in Runs(pr) /\ run.mach.pending # <<>>
      /\ Effect.type \in QuestionTypes /\ Busy
  BY <1>1, InBatchIs DEF Busy
<1>3. PICK c : run' = [run EXCEPT !.batch = c]
  BY DEF BatchCall, RunAttempt, ReplayAttempt, AttemptError, CancelCall
<1>4. run'.mach = run.mach
  BY <1>2, <1>3 DEF Runs
<1>5. Alike(journal, journal')
  <2>1. CASE RunAttempt(i)
    <3>1. PICK arg, o : journal' = Recorded(AttemptKey(i), arg, o)
      BY <2>1 DEF RunAttempt
    <3>2. AttemptKey(i) \notin Keys
      BY <1>2, AttemptKeyIs DEF Keys
    <3> QED
      BY <3>1, <3>2 DEF Alike, Recorded
  <2>2. CASE BatchCall(i) \/ ReplayAttempt(i) \/ AttemptError(i) \/ CancelCall(i)
    <3>1. journal' = journal
      BY <2>2 DEF BatchCall, ReplayAttempt, AttemptError, CancelCall
    <3> QED
      BY <3>1, AlikeSame
  <2> QED
    BY <2>1, <2>2
<1> QED
  BY <1>1, <1>2, <1>4, <1>5, SameMachReplay

\* FinishBatch makes the path longer.
LEMMA FinishReplay ==
  ASSUME HostInv, ReplayInv, Kept, FinishBatch
  PROVE  ReplayInv'
<1> DEFINE pr == run.mach.protocol
           o == run.batch.result
           r == [run EXCEPT !.batch = NoBatch]
           j == Recorded(Key, Effect.arg, o)
           D == {k \in DOMAIN journal : Len(k) = Len(Key)} \cup {Key}
           a == Answer(r, Taken, Effect, o)
<1>0. InBatch /\ journal' = [k \in D |-> j[k]] /\ run' = a /\ phase' = phase
  BY DEF FinishBatch
<1>1. /\ phase = "running" /\ run \in Runs(pr) /\ run.mach.pending # <<>> /\ Effect.type = "ToolCalls"
      /\ Effect.type \in QuestionTypes /\ ~run.claimed /\ Unrecorded
  BY <1>0, InBatchIs DEF ReplayInv, Busy
<1>2. o \in AnswersTo(pr)[Effect.type] /\ ~Aborts(Effect, o)
  <2>1. o \in Seq(Results)
    BY <1>1 DEF Runs, BatchStates
  <2> QED
    BY <1>1, <2>1 DEF AnswersTo, Aborts
<1>3. Added(journal, journal', Key, Effect.arg, o)
  <2>1. Len(Key) = 3 /\ Key \in Keys /\ \A k \in Keys : Len(k) = 3
    BY <1>1, AskingRun DEF Keys
  <2>2. Added(journal, j, Key, Effect.arg, o)
    BY <1>1, RecordedAdded DEF Unrecorded
  <2>3. \A k \in Keys : k \in D <=> k \in DOMAIN journal \/ k = Key
    BY <2>1
  <2>4. Key \in D
    OBVIOUS
  <2> HIDE DEF j, D, o
  <2>5. DOMAIN journal' = D /\ \A k \in D : journal'[k] = j[k]
    BY <1>0
  <2> QED
    BY <2>2, <2>3, <2>4, <2>5 DEF Added
<1>4. NoBatch \in BatchStates
  <2>1. BatchOK(NoBatch)
    BY NewBatchOK DEF NoBatch
  <2> QED
    BY <2>1 DEF BatchOK
<1>5. r \in Runs(pr) /\ r.batch = NoBatch /\ ~r.claimed
  BY <1>1, <1>4 DEF Runs
<1> HIDE DEF r, o, j, D
<1>6. OnPath(pr, journal', a.mach)
  BY <1>1, <1>2, <1>3, <1>5, AnswerLeads
<1>7. ~a.claimed
  BY <1>1, <1>5, AnswerMach
<1>8. a.batch = NoBatch
  BY <1>1, <1>5, AnswerKeeps
<1> HIDE DEF a
<1>9. ~Busy'
  BY <1>0, <1>7, <1>8 DEF Busy
<1> QED
  BY <1>0, <1>1, <1>6, <1>9, ReplayStep

\* The invariant of replay holds at first.
LEMMA ReplayInvInit ==
  ASSUME Init
  PROVE  ReplayInv
<1>1. PICK p \in Protocols : run = NewRun(p)
  BY DEF Init
<1>2. journal = <<>> /\ phase # "conflict"
  BY DEF Init
<1>3. run.mach = NewMach(p) /\ ~Busy
  BY <1>1 DEF NewRun, NewMach, Busy
<1>4. run.mach.protocol = p
  <2>1. Sound(NewMachine(p, <<"user">>), p, 0, <<>>, <<>>, 0)
    BY NewSound
  <2>2. Sound(NewMach(p), p, 0, <<>>, <<>>, 0)
    BY <2>1, PollSound DEF NewMach
  <2>3. NewMach(p) \in Machines(p)
    BY <2>2 DEF Sound
  <2> QED
    BY <1>3, <2>3 DEF Machines
<1> QED
  BY <1>2, <1>3, <1>4, OnPathStart DEF ReplayInv, NoReplayConflict

\* Every step keeps it.
LEMMA ReplayInvStep ==
  ASSUME HostInv, ReplayInv, [Next]_vars
  PROVE  ReplayInv'
<1>0. Kept
  BY HostInvStep
<1>1. CASE UNCHANGED vars
  <2>1. run' = run /\ journal' = journal /\ phase' = phase
    BY <1>1 DEF vars
  <2>2. Busy' => Busy
    BY <2>1 DEF Busy
  <2>3. phase' # "conflict"
    BY <2>1 DEF ReplayInv, NoReplayConflict
  <2> QED
    BY <1>0, <2>1, <2>2, <2>3, AlikeSame, SameMachReplay
<1>2. CASE HostStep
  BY <1>0, <1>2, IdleReplay, ProgressReplay, DoneReplay, CommitReplay, ReplayReplay, EffectReplays,
     StartReplay, RecordReplay, BatchReplay, FinishReplay DEF HostStep
<1>3. CASE Crash
  <2>1. EndRun("ready", store.vm) /\ journal' = journal
    BY <1>3 DEF Crash
  <2> QED
    BY <1>0, <2>1, EndReplay
<1>4. CASE \/ CancelDuringLlm \/ Cancel \/ AskAgain \/ ClaimsExpire \/ ClaimCommand
           \/ \E b \in Boundaries, m \in 0..MaxBatches : ClaimTurnWork(b, m)
  BY <1>0, <1>4, EffectReplays, IdleReplay
<1> QED
  BY <1>1, <1>2, <1>3, <1>4 DEF Next

-----------------------------------------------------------------------------
(* The theorems. *)

\* The inductive invariant holds in every reachable state.
LEMMA HostInvHolds == Spec => []HostInv
<1>1. Init => HostInv
  BY HostInvInit
<1>2. HostInv /\ [Next]_vars => HostInv'
  BY HostInvStep DEF Kept
<1> QED
  BY <1>1, <1>2, PTL DEF Spec

\* It implies the type invariant.
LEMMA HostTypes ==
  ASSUME HostInv
  PROVE  TypeOK
<1> DEFINE pr == run.mach.protocol
<1>1. /\ phase \in Phases /\ crashes \in 0..MaxCrashes /\ run \in Runs(pr) /\ BatchOK(run.batch)
      /\ run.mach.cursor <= Len(run.mach.events) /\ run.mach.effect_id < run.mach.next_effect_id
      /\ stale \in Seq(Kinds(MergeKeys))
  BY DEF HostInv, RunOK, Sound, ClaimsOK
<1>2. /\ run.mach.messages \in Seq(MessagesOf(pr)) /\ run.mach.events \in Seq(EventsOf(pr))
      /\ run.mach.cursor \in Nat /\ run.mach.effect_id \in Nat /\ run.mach.next_effect_id \in Nat
      /\ run.draft \in Seq(EventsOf(pr)) /\ run.cancel \in BOOLEAN /\ run.mine \in Seq(Kinds(MergeKeys))
  BY <1>1 DEF Runs, Machines
<1>3. MessagesOf(pr) \subseteq MessageKinds /\ EventsOf(pr) \subseteq EventKinds
  BY DEF MessagesOf, EventsOf, EventKinds
<1> HIDE DEF pr
<1>4. run.mach.messages \in Seq(MessageKinds)
  BY <1>2, <1>3
<1>5. run.mach.events \in Seq(EventKinds) /\ run.draft \in Seq(EventKinds)
  BY <1>2, <1>3
<1>6. run.mach.cursor \in 0..Len(run.mach.events)
  BY <1>1, <1>2
<1>7. run.mach.effect_id \in 0..(run.mach.next_effect_id - 1)
  BY <1>1, <1>2
<1>8. ASSUME NEW i \in DOMAIN run.batch.calls
      PROVE  run.batch.status[i] \in Statuses /\ run.batch.attempt[i] \in 1..run.batch.calls[i].max
  <2>1. i \in 1..Len(run.batch.calls)
    BY <1>1, CallsOf
  <2>2. run.batch.status \in Seq(Statuses) /\ Len(run.batch.status) = Len(run.batch.calls)
    BY <1>1 DEF BatchOK, BatchStates
  <2>3. run.batch.status[i] \in Statuses
    BY <2>1, <2>2
  <2> QED
    BY <1>1, <2>1, <2>3 DEF BatchOK
<1> QED
  BY <1>1, <1>2, <1>4, <1>5, <1>6, <1>7, <1>8 DEF TypeOK

\* It implies the bound on the calls of the model.
LEMMA HostLimit ==
  ASSUME HostInv
  PROVE  TurnLimit
<1>1. Counted(run.mach, run.asked, run.requests) /\ run.mach \in Machines(run.mach.protocol)
  BY DEF HostInv, RunOK, Sound
<1>2. run.mach.iteration \in Nat
  BY <1>1 DEF Machines
<1> QED
  BY <1>1, <1>2, TurnAssumption DEF TurnLimit, Counted, Limited, Top

\* The machine, the draft, the queue and the batch in hand are well formed: the
\* machine waits with an effect id it gave out, its cursor is inside its events
\* and no tool call is in an attempt its retry policy forbids.
THEOREM HostTypesTheorem == Spec => []TypeOK
<1>1. HostInv => TypeOK
  BY HostTypes
<1> QED
  BY <1>1, HostInvHolds, PTL

\* A turn that commits an answer, a value or the error of a tool has shown the
\* model every message that a checkpoint delivered to it.
THEOREM AnsweredTheorem == Spec => []AnsweredAll
<1>1. HostInv => AnsweredAll
  BY DEF HostInv, StoreOK
<1> QED
  BY <1>1, HostInvHolds, PTL

\* Whatever became of its tool calls, what a turn commits can be
\* continued from: each batch of tool calls has its results behind it.
THEOREM ResumeTheorem == Spec => []CommitResumes
<1>1. HostInv => CommitResumes
  BY DEF HostInv, StoreOK
<1> QED
  BY <1>1, HostInvHolds, PTL

\* The protocol events that a turn commits are those its driver emitted, once
\* each and in order, whatever boundaries were dropped on the way.
THEOREM EventsTheorem == Spec => []EventsOnce
<1>1. HostInv => EventsOnce
  BY DEF HostInv, StoreOK
<1> QED
  BY <1>1, HostInvHolds, PTL

\* However checkpoints prolong a turn, the model is called max_turns times at
\* most and once more for a final answer.
THEOREM LimitTheorem == Spec => []TurnLimit
<1>1. HostInv => TurnLimit
  BY HostLimit
<1> QED
  BY <1>1, HostInvHolds, PTL

\* A serial tool runs alone, in batches of any length and mix of modes.
THEOREM SerialTheorem == Spec => []SerialAlone
<1>1. HostInv => SerialAlone
  BY BatchSerial DEF HostInv, RunOK, SerialAlone
<1> QED
  BY <1>1, HostInvHolds, PTL

\* A claim is one group of ready batches, of one delivery policy and within its
\* limit, for queues of any length and any limit.
THEOREM GroupTheorem == Spec => []OneGroupPerClaim
<1>1. HostInv => OneGroupPerClaim
  BY DEF HostInv, ClaimsOK
<1> QED
  BY <1>1, HostInvHolds, PTL

\* A claim is as large as it may be: what it leaves behind does not belong to it.
THEOREM MaximalTheorem == Spec => []ClaimIsMaximal
<1>1. HostInv => ClaimIsMaximal
  BY DEF HostInv, ClaimsOK
<1> QED
  BY <1>1, HostInvHolds, PTL

\* An idle runner always finds something to do in a queue that is not empty.
THEOREM IdleTheorem == Spec => []IdleRunnerProgress
<1>1. HostInv => IdleRunnerProgress
  BY IdleClaims DEF HostInv, ClaimsOK
<1> QED
  BY <1>1, HostInvHolds, PTL

\* A run of the turn after a crash asks under each recorded key for what was
\* asked for when the key was recorded: replay never ends in a conflict, with any
\* number of crashes, aborts, cancellations, deliveries and batches of tools.
THEOREM ReplayTheorem == Spec => []NoReplayConflict
<1>1. Init => HostInv /\ ReplayInv
  BY HostInvInit, ReplayInvInit
<1>2. HostInv /\ ReplayInv /\ [Next]_vars => (HostInv /\ ReplayInv)'
  BY HostInvStep, ReplayInvStep DEF Kept
<1>3. HostInv /\ ReplayInv => NoReplayConflict
  BY DEF ReplayInv
<1> QED
  BY <1>1, <1>2, <1>3, PTL DEF Spec
=============================================================================
