------------------------------ MODULE TurnHost ------------------------------
(***************************************************************************)
(* The host of one turn on a durable effect controller                     *)
(* (crates/lash-core/src/runtime/turn_driver).  It polls the turn machine, *)
(* answers each effect from the journal of the turn or by running it, and  *)
(* commits what the machine ends with.  A crash loses everything but the   *)
(* journal, the queue and the claims on it; a durable host then runs the   *)
(* turn again under its id.                                                *)
(*                                                                         *)
(* One runtime at a time holds the session (module SessionLease) and one   *)
(* answer is recorded per key (module EffectReplay), so the journal is a   *)
(* function from keys to what was asked and answered, and an effect that   *)
(* leaves nothing behind but its answer runs and is recorded in one step.  *)
(* A statement of the controller that fails and is not recorded ends the   *)
(* run like a crash does.  Queued batches are their kinds.                 *)
(***************************************************************************)
EXTENDS TurnMachine, ToolBatch, QueuedWork, FiniteSets

CONSTANTS
  MaxBatches,   \* the limit of one claim (64 in the code)
  MergeKeys,
  Batches,      \* the tool calls a model response may carry
  ToolOutcomes, \* what an attempt may answer
  ExecOutcomes, \* what a code cell may answer
  MaxCrashes

\* A call is tried at least once (max_attempts.max(1)), a response with calls has
\* one, and a claim has room for a batch.
ASSUME HostAssumption ==
  /\ MaxBatches \in Nat \ {0} /\ MaxCrashes \in Nat
  /\ Batches \subseteq Seq([mode: Modes, max: Nat \ {0}]) \ {<<>>}

VARIABLES
  phase,    \* of the turn: idle, ready, running, finishing, or how it went wrong
  run,      \* what the running driver has in memory
  journal,  \* replay key -> [arg, outcome]
  cands,    \* the queue of ready batches
  stale,    \* batches claimed by runs that ended without completing them
  store,    \* what the turn has committed
  crashes,
  last      \* the last claim of queued work, for the properties

vars == <<phase, run, journal, cands, stale, store, crashes, last>>

NoBatch == NewBatch(<<>>)
NothingCommitted ==
  [outcome |-> "none", messages |-> <<>>, events |-> <<>>, emitted |-> <<>>,
   asked |-> <<>>, vm |-> {}, blocks |-> {}]

\* A driver that starts: vm is the interpreter, with the blocks it has executed;
\* blocks are those the machine has been answered for.
NewRun(protocol) ==
  [mach |-> poll_effect(NewMachine(protocol, <<"user">>)), outcome |-> "none", cancel |-> FALSE,
   batch |-> NoBatch, claimed |-> FALSE, delivery |-> <<>>, mine |-> <<>>,
   draft |-> <<>>, asked |-> <<>>, requests |-> 0, vm |-> store.vm, blocks |-> store.blocks]

-----------------------------------------------------------------------------
(* The effect in hand.  The machine is kept as poll_effect leaves it: with the *)
(* next effect at the head of its queue.                                       *)

Effect == Head(run.mach.pending)
Taken == [run.mach EXCEPT !.pending = Tail(@)]

\* turn_effect_invocation; session, turn id and turn index are those of the turn.
EffectKey(m, e) == <<m.iteration, e.type, e.id>>
Key == EffectKey(Taken, Effect)

Busy == run.claimed \/ run.batch # NoBatch

\* run_machine is about to handle an effect of this type.
Handling(type) ==
  /\ phase = "running" /\ ~Busy
  /\ run.mach.pending # <<>> /\ Effect.type = type

Recorded(key, arg, outcome) ==
  [k \in DOMAIN journal \cup {key} |->
     IF k = key THEN [arg |-> arg, outcome |-> outcome] ELSE journal[k]]
Unrecorded == Key \notin DOMAIN journal

\* machine.handle_response, with what the host keeps of the answer.
Answer(r, m, e, outcome) ==
  CASE e.type = "LlmCall" ->
         [r EXCEPT !.mach = poll_effect(handle_llm_complete(m, e.id, outcome)),
                   !.asked = e.arg.messages, !.requests = @ + 1]
    [] e.type = "ToolCalls" -> [r EXCEPT !.mach = poll_effect(handle_tool_results(m, e.id, outcome))]
    [] e.type = "ExecCode" ->
         [r EXCEPT !.mach = poll_effect(handle_exec_result(m, e.id, outcome)), !.blocks = @ \cup {e.id}]
    [] e.type = "SyncExecutionEnvironment" ->
         [r EXCEPT !.mach = poll_effect(handle_execution_environment_synced(m, e.id, outcome))]
    [] e.type = "Checkpoint" -> [r EXCEPT !.mach = poll_effect(handle_checkpoint(m, e.id, outcome))]

\* The run ends without a result; its claims stay until they expire.  A process
\* that lives on keeps its interpreter.
EndRun(how, vm) ==
  /\ phase' = how
  /\ run' = [NewRun(run.mach.protocol) EXCEPT !.vm = vm]
  /\ stale' = stale \o run.mine

Untouched == UNCHANGED <<cands, store, crashes, last>>

-----------------------------------------------------------------------------
(* The loop of run_machine. *)

\* The driver is built for a turn that was asked for or has to be run again.
StartTurn ==
  /\ phase = "ready"
  /\ phase' = "running"
  /\ UNCHANGED <<run, journal, stale>> /\ Untouched

Count(s, kind) == Len(Among(s, {kind}))

\* messages_are_prompt_resume_safe: every call has its result, behind it.
ResumeSafe(messages) ==
  /\ Count(messages, "tool_calls") = Count(messages, "tool_results")
  /\ \A i \in DOMAIN messages :
       LET before == SubSeq(messages, 1, i)
       IN  Count(before, "tool_results") <= Count(before, "tool_calls")

\* progress_boundary_in_memory: the draft takes the events, if it can be resumed.
Boundary(draft, e) == IF ResumeSafe(e.messages) THEN draft \o e.delta ELSE draft

HandleProgress ==
  /\ Handling("Progress")
  /\ run' = [run EXCEPT !.mach = poll_effect(Taken), !.draft = Boundary(@, Effect)]
  /\ UNCHANGED <<phase, journal, stale>> /\ Untouched

\* The loop ends with Done.  It also ends when the machine has nothing to do and
\* is not done; the turn then has no messages.
HandleDone ==
  /\ phase = "running" /\ ~Busy
  /\ run.mach.pending # <<>> => Effect.type = "Done"
  /\ IF run.mach.pending = <<>>
     THEN phase' = "stalled" /\ UNCHANGED run
     ELSE /\ phase' = "finishing"
          /\ run' = [run EXCEPT !.mach = [Taken EXCEPT !.messages = Effect.messages],
                                !.draft = @ \o Effect.delta, !.outcome = Effect.outcome]
  /\ UNCHANGED <<journal, stale>> /\ Untouched

\* finish_turn: one commit that completes the claims of this run.  Nobody asks
\* for the turn's effects any more, and the model forgets its journal.
Commit ==
  /\ phase = "finishing"
  /\ phase' = "idle"
  /\ store' = [outcome |-> run.outcome, messages |-> run.mach.messages, events |-> run.draft,
               emitted |-> run.mach.events, asked |-> run.asked, vm |-> run.vm, blocks |-> run.blocks]
  /\ run' = NewRun(run.mach.protocol)
  /\ journal' = <<>>
  /\ UNCHANGED <<cands, stale, crashes, last>>

-----------------------------------------------------------------------------
(* Effects.  A model call is not even replayed once the turn is cancelled. *)

Wanted == Effect.type = "LlmCall" => ~run.cancel

Asks == \E t \in {"LlmCall", "ToolCalls", "ExecCode", "SyncExecutionEnvironment", "Checkpoint"} :
          Handling(t)

\* handle_llm_call_effect of a cancelled turn.
CancelledBeforeLlm ==
  /\ Handling("LlmCall") /\ run.cancel
  /\ run' = [run EXCEPT !.mach = finish(Taken, "cancelled")]
  /\ UNCHANGED <<phase, journal, stale>> /\ Untouched

\* The error of a checkpoint is an outcome; it aborts the turn.
Aborts(e, outcome) == e.type = "Checkpoint" /\ outcome = <<"error">>

\* A recorded outcome answers a call that asks for the same.  Anything else under
\* a recorded key is an error, and aborts the turn.
ReplayEffect ==
  /\ Asks /\ Wanted /\ ~Unrecorded
  /\ IF journal[Key].arg # Effect.arg THEN EndRun("conflict", run.vm)
     ELSE IF Aborts(Effect, journal[Key].outcome) THEN EndRun("aborted", run.vm)
     ELSE /\ run' = Answer(run, Taken, Effect, journal[Key].outcome)
          /\ UNCHANGED <<phase, stale>>
  /\ UNCHANGED journal /\ Untouched

\* What the model may answer: calls, code cells or prose, by protocol, or one of
\* the ends that no driver decides about.
Reply(kind, calls) == [kind |-> kind, calls |-> calls]
Replies(protocol) ==
  {Reply(k, <<>>) : k \in {"text", "empty", "error", "output_limit"}} \cup
  IF protocol = "standard" THEN {Reply("calls", b) : b \in Batches}
  ELSE {Reply(k, <<>>) : k \in {"cell", "invalid_cell"}}

RunLlm ==
  /\ Handling("LlmCall") /\ Wanted /\ Unrecorded
  /\ \E r \in Replies(run.mach.protocol) :
       /\ journal' = Recorded(Key, Effect.arg, r)
       /\ run' = Answer(run, Taken, Effect, r)
  /\ UNCHANGED <<phase, stale>> /\ Untouched

\* The turn is cancelled while the model answers: the outcome is an error, and
\* it is recorded like any other.
CancelDuringLlm ==
  /\ Handling("LlmCall") /\ Wanted /\ Unrecorded
  /\ journal' = Recorded(Key, Effect.arg, Reply("cancelled", <<>>))
  /\ run' = [Answer(run, Taken, Effect, Reply("cancelled", <<>>)) EXCEPT !.cancel = TRUE]
  /\ UNCHANGED <<phase, stale>> /\ Untouched

\* refresh_execution_environment.
RunSync ==
  /\ Handling("SyncExecutionEnvironment") /\ Unrecorded
  /\ \E r \in {"ok", "failed"} :
       /\ r = "failed" => Effect.arg  \* without an update there is nothing that fails
       /\ journal' = Recorded(Key, Effect.arg, r)
       /\ run' = Answer(run, Taken, Effect, r)
  /\ UNCHANGED <<phase, stale>> /\ Untouched

\* run_exec_code: the block changes the interpreter, the outcome is recorded.
RunExec ==
  /\ Handling("ExecCode") /\ Unrecorded
  /\ \E r \in ExecOutcomes :
       /\ journal' = Recorded(Key, Effect.arg, r)
       /\ run' = [Answer(run, Taken, Effect, r) EXCEPT !.vm = @ \cup {Effect.id}]
  /\ UNCHANGED <<phase, stale>> /\ Untouched

-----------------------------------------------------------------------------
(* Checkpoints: what is claimed is claimed in the store, and a crash before *)
(* the outcome is recorded leaves the claim behind.                         *)

Claimed(boundary, max, n) ==
  /\ cands' = SubSeq(cands, n + 1, Len(cands))
  /\ last' = [boundary |-> boundary, max |-> max, taken |-> SubSeq(cands, 1, n), left |-> cands']

\* run_checkpoint: messages of the host, of turn inputs and of plugins, and a
\* claim of queued work; a plugin may abort.
RunCheckpoint ==
  /\ Handling("Checkpoint") /\ Unrecorded
  /\ LET n == SelectTurnWork(cands, "active_turn_checkpoint", MaxBatches)
         queued == [i \in 1..n |-> "delivered"]
     IN  /\ IF n > 0 THEN Claimed("active_turn_checkpoint", MaxBatches, n)
            ELSE UNCHANGED <<cands, last>>
         /\ \E delivery \in {queued, <<"delivered">> \o queued, <<"error">>} :
              run' = [run EXCEPT !.claimed = TRUE, !.delivery = delivery,
                                 !.mine = @ \o SubSeq(cands, 1, n)]
  /\ UNCHANGED <<phase, journal, stale, store, crashes>>

RecordCheckpointAs(outcome) ==
  /\ phase = "running" /\ run.claimed
  /\ journal' = Recorded(Key, Effect.arg, outcome)
  /\ IF Aborts(Effect, run.delivery)
     THEN EndRun("aborted", run.vm)
     ELSE /\ run' = Answer([run EXCEPT !.claimed = FALSE, !.delivery = <<>>],
                           Taken, Effect, run.delivery)
          /\ UNCHANGED <<phase, stale>>
  /\ Untouched

\* Mutant: the outcome is recorded without what was delivered.
RecordCheckpointBare == RecordCheckpointAs(<<>>)

\* The outcome of the checkpoint is recorded with everything it delivered.
RecordCheckpoint == RecordCheckpointAs(run.delivery)

-----------------------------------------------------------------------------
(* Tool batches: an effect whose attempts are effects of their own. *)

AttemptKey(i) == Key \o <<i, run.batch.attempt[i]>>
InBatch == phase = "running" /\ run.batch # NoBatch

StartBatch ==
  /\ Handling("ToolCalls") /\ Unrecorded
  /\ run' = [run EXCEPT !.batch = NewBatch(Effect.arg)]
  /\ UNCHANGED <<phase, journal, stale>> /\ Untouched

BatchCall(i) ==
  /\ InBatch /\ MayStart(run.batch, i)
  /\ run' = [run EXCEPT !.batch = StartCall(@, i)]
  /\ UNCHANGED <<phase, journal, stale>> /\ Untouched

RunAttempt(i) ==
  /\ InBatch /\ i \in Running(run.batch)
  /\ AttemptKey(i) \notin DOMAIN journal
  /\ \E r \in ToolOutcomes :
       /\ journal' = Recorded(AttemptKey(i), run.batch.calls[i], r)
       /\ run' = [run EXCEPT !.batch = AttemptEnds(@, i, r)]
  /\ UNCHANGED <<phase, stale>> /\ Untouched

ReplayAttempt(i) ==
  /\ InBatch /\ i \in Running(run.batch)
  /\ AttemptKey(i) \in DOMAIN journal
  /\ run' = [run EXCEPT !.batch = AttemptEnds(@, i, journal[AttemptKey(i)].outcome)]
  /\ UNCHANGED <<phase, journal, stale>> /\ Untouched

\* The attempt fails in the controller: the call fails and nothing is recorded.
AttemptError(i) ==
  /\ InBatch /\ i \in Running(run.batch)
  /\ AttemptKey(i) \notin DOMAIN journal
  /\ run' = [run EXCEPT !.batch = EndCall(@, i, "failure")]
  /\ UNCHANGED <<phase, journal, stale>> /\ Untouched

\* A cancelled turn gives a running call 50 ms.
CancelCall(i) ==
  /\ InBatch /\ run.cancel /\ i \in Running(run.batch)
  /\ run' = [run EXCEPT !.batch = EndCall(@, i, "cancelled")]
  /\ UNCHANGED <<phase, journal, stale>> /\ Untouched

\* The batch is recorded.  Its attempts are not looked up again, and the model
\* forgets them.
FinishBatch ==
  /\ InBatch /\ AllDone(run.batch)
  /\ journal' = [k \in {k \in DOMAIN journal : Len(k) = Len(Key)} \cup {Key} |->
                   Recorded(Key, Effect.arg, run.batch.result)[k]]
  /\ run' = Answer([run EXCEPT !.batch = NoBatch], Taken, Effect, run.batch.result)
  /\ UNCHANGED <<phase, stale>> /\ Untouched

-----------------------------------------------------------------------------
(* Around the turn. *)

\* The host cancels the turn.
Cancel ==
  /\ phase = "running" /\ ~run.cancel
  /\ run' = [run EXCEPT !.cancel = TRUE]
  /\ UNCHANGED <<phase, journal, stale>> /\ Untouched

Crash ==
  /\ phase \in {"running", "finishing"} /\ crashes < MaxCrashes
  /\ crashes' = crashes + 1
  /\ EndRun("ready", store.vm)
  /\ UNCHANGED <<journal, cands, store, last>>

\* The host of an aborted turn asks for it once more.
AskAgain ==
  /\ phase = "aborted"
  /\ phase' = "ready"
  /\ UNCHANGED <<run, journal, stale>> /\ Untouched

\* Claims of a run that is gone expire, and their batches are ready again.
ClaimsExpire ==
  /\ stale # <<>>
  /\ cands' = stale \o cands
  /\ stale' = <<>>
  /\ UNCHANGED <<phase, run, journal, store, crashes, last>>

\* claim_leading_ready_session_command and claim_ready_queued_work, between turns.
ClaimCommand ==
  /\ phase = "idle" /\ SelectCommand(cands) > 0
  /\ Claimed("command", 1, 1)
  /\ UNCHANGED <<phase, run, journal, stale, store, crashes>>

ClaimTurnWork(boundary, max) ==
  LET n == SelectTurnWork(cands, boundary, max)
  IN  /\ phase = "idle" /\ n > 0
      /\ Claimed(boundary, max, n)
      /\ UNCHANGED <<phase, run, journal, stale, store, crashes>>

HostStep ==
  \/ StartTurn \/ HandleProgress \/ HandleDone \/ Commit
  \/ CancelledBeforeLlm \/ ReplayEffect
  \/ RunLlm \/ RunSync \/ RunExec \/ RunCheckpoint \/ RecordCheckpoint
  \/ StartBatch \/ FinishBatch
  \/ \E i \in DOMAIN run.batch.calls :
       BatchCall(i) \/ RunAttempt(i) \/ ReplayAttempt(i) \/ AttemptError(i) \/ CancelCall(i)

Next ==
  \/ HostStep
  \/ CancelDuringLlm \/ Cancel \/ Crash \/ AskAgain \/ ClaimsExpire
  \/ ClaimCommand \/ \E b \in Boundaries, m \in 0..MaxBatches : ClaimTurnWork(b, m)

Queues(n) == UNION {[1..k -> Kinds(MergeKeys)] : k \in 0..n}

Init ==
  /\ phase \in {"idle", "ready"}
  /\ store = NothingCommitted
  /\ \E p \in Protocols : run = NewRun(p)
  /\ journal = <<>> /\ stale = <<>> /\ crashes = 0
  /\ last = [boundary |-> "none", max |-> 0, taken |-> <<>>, left |-> <<>>]
  /\ cands \in Seq(Kinds(MergeKeys))

\* The driver goes on with what it has in hand, and a durable host runs a turn
\* again that was cut short.  Nothing is assumed of cancellations and crashes.
Fairness == WF_vars(HostStep)

Spec == Init /\ [][Next]_vars /\ Fairness

-----------------------------------------------------------------------------
(* Properties. *)

Phases == {"idle", "ready", "running", "finishing", "aborted", "conflict", "stalled"}

\* Type invariant: the machine waits with an effect id it has given out, the
\* cursor is inside the events, and no call is in an attempt its tool forbids.
TypeOK ==
  /\ phase \in Phases /\ crashes \in 0..MaxCrashes
  /\ run.mach.messages \in Seq(MessageKinds) /\ run.mach.events \in Seq(EventKinds)
  /\ run.mach.cursor \in 0..Len(run.mach.events)
  /\ run.mach.effect_id \in 0..(run.mach.next_effect_id - 1)
  /\ run.draft \in Seq(EventKinds) /\ run.cancel \in BOOLEAN
  /\ run.mine \in Seq(Kinds(MergeKeys)) /\ stale \in Seq(Kinds(MergeKeys))
  /\ \A i \in DOMAIN run.batch.calls :
       /\ run.batch.status[i] \in Statuses
       /\ run.batch.attempt[i] \in 1..run.batch.calls[i].max

\* A run of the turn after a crash asks, under every key, for exactly what the
\* earlier run asked for: the answers in the journal are enough to bring the
\* machine to the same request, whatever was claimed or delivered in between.
NoReplayConflict == phase # "conflict"

\* A turn that ends with an answer, a value or an error of a tool has shown the
\* model every message that was delivered to it: what arrives at the checkpoint
\* before completion is answered and not swallowed.
AnsweredAll ==
  store.outcome \in {"answer", "value", "tool_error"} =>
    Count(store.messages, "delivered") = Count(store.asked, "delivered")

\* What a turn commits can be continued from: every tool call in it has its
\* result, whether the batch was cancelled, failed or ended the turn.
CommitResumes == ResumeSafe(store.messages)

\* Protocol events reach the session once and in order, although they are handed
\* over in pieces and the pieces of an unsafe boundary are dropped.
EventsOnce ==
  Among(store.events, ProtocolEvents) = Among(store.emitted, ProtocolEvents)

\* max_turns bounds the calls of the model, with one more for a final answer,
\* however many checkpoints deliver messages and prolong the turn.
TurnLimit == run.requests <= (IF MaxTurns = 0 THEN 1 ELSE MaxTurns) + 1

\* A serial tool never runs next to another call of its batch.
SerialAlone ==
  \A i, j \in Running(run.batch) : run.batch.calls[i].mode = "serial" => i = j

\* A turn that is asked for ends, in a commit or in an error, with cancellations
\* and crashes anywhere.  In particular the loop of run_machine never ends for
\* want of an effect (stalled), which would commit a turn with no messages.
TurnEnds == phase = "ready" ~> phase \in {"idle", "aborted"}

\* Variables bound by the code cells of a turn are in the execution state that
\* the turn commits.
VariablesPersist == store.blocks \subseteq store.vm

\* A claim of turn work is one group within the limit: no session command in it,
\* more than one batch only if all of them join with one delivery policy and one
\* merge key, and at a checkpoint only work that asked for the earliest boundary.
OneGroupPerClaim ==
  last.boundary \in Boundaries =>
    /\ Len(last.taken) <= last.max
    /\ \A i \in DOMAIN last.taken : last.taken[i].class = "turn_work"
    /\ last.boundary = "active_turn_checkpoint" =>
         \A i \in DOMAIN last.taken : last.taken[i].delivery = "earliest_safe_boundary"
    /\ Len(last.taken) > 1 =>
         Cardinality({<<last.taken[i].slot, last.taken[i].delivery, last.taken[i].key>> :
                        i \in DOMAIN last.taken}) = 1

\* The claim is maximal: what it left at the head of the queue could not have
\* been added to it, because the limit was reached, because the group is
\* exclusive, or because the next batch belongs to another group.
ClaimIsMaximal ==
  last.boundary \in Boundaries /\ last.left # <<>> =>
    \/ Len(last.taken) = last.max
    \/ last.taken[1].slot = "exclusive"
    \/ LET next == Head(last.left)
       IN  \/ next.class = "session_command" \/ next.slot = "exclusive"
           \/ next.delivery # last.taken[1].delivery \/ next.key # last.taken[1].key

\* An idle runner is never stuck: with room for one batch, a nonempty queue
\* always yields a command or a turn-work claim.
IdleRunnerProgress ==
  cands # <<>> =>
    SelectCommand(cands) > 0 \/ SelectTurnWork(cands, "idle", MaxBatches) > 0
=============================================================================
