----------------------------- MODULE TurnMachine -----------------------------
(***************************************************************************)
(* The sans-IO machine that drives one turn                                *)
(* (crates/lash-sansio/src/sansio/sections/turn_machine.rs) and the two    *)
(* protocol drivers that decide its next step: standard                    *)
(* (crates/lash-protocol-standard), which answers tool calls, and RLM      *)
(* (crates/lash-protocol-rlm), which executes code cells and either may    *)
(* end with prose ("rlm") or must finish with a value ("rlm_finish").      *)
(*                                                                         *)
(* The machine is a value and a step is an operator from machine to        *)
(* machine.  Messages and events are their kinds.  An event that is not of *)
(* ProtocolEvents is a conversation record and is a message too.  Effects  *)
(* that only show or log something are left out; the outcome of the turn,  *)
(* which the code emits just before Done, is kept in Done.  Iterations     *)
(* count from the run offset.                                              *)
(***************************************************************************)
EXTENDS Filters

CONSTANTS
  MaxTurns,        \* config.max_turns
  SyncEnvironment  \* config.sync_execution_environment

ASSUME TurnAssumption == MaxTurns \in Nat /\ SyncEnvironment \in BOOLEAN

Protocols == {"standard", "rlm", "rlm_finish"}
ProtocolEvents == {"diagnostic", "trajectory"}
MessageKinds ==
  {"user", "delivered", "turn_limit", "tool_calls", "tool_results", "exhausted", "prose", "reminder"}
EventKinds == MessageKinds \cup ProtocolEvents

NewMachine(protocol, msgs) ==
  [protocol |-> protocol, state |-> "PreparingProtocol", effect_id |-> 0,
   checkpoint |-> "none", on_empty |-> "none", next_effect_id |-> 1,
   iteration |-> 0, synced |-> {}, final_scheduled |-> FALSE,
   messages |-> msgs, events |-> <<>>, cursor |-> 0, pending |-> <<>>]

-----------------------------------------------------------------------------
(* Effects. *)

Queue(m, effect) == [m EXCEPT !.pending = Append(@, effect)]

\* Mutant: the cursor stays, and the next delta repeats the events.
CursorStays(m) == m.cursor

\* next_event_delta hands out the events since the last one.
NextCursor(m) == Len(m.events)
EventDelta(m) == SubSeq(m.events, m.cursor + 1, Len(m.events))

emit_progress(m) ==
  [Queue(m, [type |-> "Progress", messages |-> m.messages, delta |-> EventDelta(m)])
     EXCEPT !.cursor = NextCursor(m)]

finish(m, outcome) ==
  [Queue(m, [type |-> "Done", messages |-> m.messages, delta |-> EventDelta(m),
             outcome |-> outcome])
     EXCEPT !.state = "Finished", !.messages = <<>>, !.cursor = NextCursor(m)]

fail_turn(m) == finish(m, "runtime_error")

\* An effect that wants a response: a new id, and the machine waits for it.
Ask(m, state, type, arg) ==
  [Queue(m, [type |-> type, id |-> m.next_effect_id, arg |-> arg])
     EXCEPT !.state = state, !.effect_id = m.next_effect_id, !.next_effect_id = @ + 1]

\* start_llm_request, with the request the projector makes of the history.
start_llm_request(m) ==
  Ask(m, "WaitingLlm", "LlmCall", [messages |-> m.messages, events |-> m.events])
start_tool_calls(m, calls) == Ask(m, "WaitingTools", "ToolCalls", calls)
start_exec(m, code) == Ask(m, "WaitingExec", "ExecCode", code)
request_checkpoint(m, c) ==
  [Ask(m, "WaitingCheckpoint", "Checkpoint", c.checkpoint)
     EXCEPT !.checkpoint = c.checkpoint, !.on_empty = c.on_empty]
sync_environment(m, update) ==
  Ask(m, "WaitingExecutionEnvironment", "SyncExecutionEnvironment", update)

-----------------------------------------------------------------------------
(* The turn limit: one more model call after the last iteration. *)

\* turn_limit_final_to_schedule.
FinalDue(m) == ~m.final_scheduled /\ m.iteration >= MaxTurns
schedule_turn_limit_final(m) ==
  [m EXCEPT !.final_scheduled = TRUE, !.messages = Append(@, "turn_limit")]

-----------------------------------------------------------------------------
(* What a driver may ask for, and apply_actions. *)

AppendEvents(events) == [do |-> "append", arg |-> events]
StartLlm == [do |-> "llm"]
StartTools(calls) == [do |-> "tools", arg |-> calls]
StartExec(code) == [do |-> "exec", arg |-> code]
StartCheckpoint(checkpoint, on_empty) ==
  [do |-> "checkpoint", arg |-> [checkpoint |-> checkpoint, on_empty |-> on_empty]]
AdvanceProtocolIteration == [do |-> "advance"]
ScheduleTurnLimitFinal == [do |-> "limit"]
Finish(outcome) == [do |-> "finish", arg |-> outcome]

append_events(m, events) ==
  [m EXCEPT !.events = @ \o events,
            !.messages = @ \o Among(events, MessageKinds)]

\* One action, applied to the machine and the progress_dirty flag of the loop.
ApplyAction(s, a) ==
  LET to(m) == [s EXCEPT !.m = m]
      touch(m) == [s EXCEPT !.m = m, !.dirty = TRUE]
  IN  IF s.m.state = "Finished" THEN s
      ELSE CASE a.do = "append" -> touch(append_events(s.m, a.arg))
             [] a.do = "llm" -> to(start_llm_request(s.m))
             [] a.do = "tools" -> to(start_tool_calls(s.m, a.arg))
             [] a.do = "exec" -> to(start_exec(s.m, a.arg))
             [] a.do = "checkpoint" -> to(request_checkpoint(s.m, a.arg))
             [] a.do = "advance" ->
                  touch([s.m EXCEPT !.iteration = @ + 1, !.synced = {}])
             [] a.do = "limit" ->
                  IF FinalDue(s.m) THEN touch(schedule_turn_limit_final(s.m)) ELSE s
             [] a.do = "finish" ->
                  [m |-> finish(IF s.dirty THEN emit_progress(s.m) ELSE s.m, a.arg),
                   dirty |-> FALSE]

\* after[n] holds the one state that the first n actions lead to.
apply_actions(m, actions) ==
  LET after[n \in 0..Len(actions)] ==
        IF n = 0 THEN {[m |-> m, dirty |-> FALSE]}
        ELSE {ApplyAction(s, actions[n]) : s \in after[n - 1]}
  IN  CHOOSE r \in {IF s.dirty THEN emit_progress(s.m) ELSE s.m : s \in after[Len(actions)]} : TRUE

-----------------------------------------------------------------------------
(* The drivers.  A response of the model is [kind, calls].               *)

IsRlm(m) == m.protocol # "standard"

BeforeCompletion(outcome) == StartCheckpoint("before_completion", outcome)
AfterWork == StartCheckpoint("after_work", "prepare")
ReachesLimit(m) == m.iteration + 1 >= MaxTurns

\* last_message_has_tool_result.
LastIsToolResult(m) == m.messages # <<>> /\ m.messages[Len(m.messages)] = "tool_results"

\* StandardDriver::handle_llm_success.
StandardLlmSuccess(m, r) ==
  IF r.kind = "calls" THEN <<AppendEvents(<<"tool_calls">>), StartTools(r.calls)>>
  ELSE IF r.kind = "text" \/ LastIsToolResult(m) THEN <<BeforeCompletion("answer")>>
  ELSE <<Finish("provider_error")>>

\* The control of a completed call, if it ends the turn.
Control == [finish |-> "value", fail |-> "tool_error", switch |-> "frame_switch"]
Ends(result) == result \in DOMAIN Control

\* Mutant: the results of a batch that ends the turn are not appended.
StandardToolResultsDropped(m, results) ==
  IF \E i \in DOMAIN results : Ends(results[i])
  THEN <<Finish(Control[Among(results, DOMAIN Control)[1]])>>
  ELSE <<AppendEvents(<<"tool_results">>), AdvanceProtocolIteration, AfterWork>>

\* StandardDriver::handle_tool_results.
StandardToolResults(m, results) ==
  <<AppendEvents(<<"tool_results">>)>> \o
    IF \E i \in DOMAIN results : Ends(results[i])
    THEN <<Finish(Control[Among(results, DOMAIN Control)[1]])>>
    ELSE <<AdvanceProtocolIteration>> \o
         IF ReachesLimit(m)
         THEN <<AppendEvents(<<"exhausted">>), Finish("max_turns")>>
         ELSE <<AfterWork>>

\* continue_or_stop_after_nonterminal, of the RLM driver.
ContinueOrStop(m, durable, retry) ==
  (IF durable = <<>> THEN <<>> ELSE <<AppendEvents(durable)>>)
    \o <<AdvanceProtocolIteration>>
    \o IF m.final_scheduled \/ (ReachesLimit(m) /\ m.protocol = "rlm_finish")
       THEN <<Finish("max_turns")>>
       ELSE (IF ReachesLimit(m) THEN <<ScheduleTurnLimitFinal>>
             ELSE IF retry = <<>> THEN <<>> ELSE <<AppendEvents(retry)>>)
            \o <<AfterWork>>

\* RlmDriver::handle_llm_success.
RlmLlmSuccess(m, r) ==
  LET diagnosed == <<AppendEvents(<<"diagnostic">>)>>
  IN  CASE r.kind = "cell" -> diagnosed \o <<StartExec(r.kind)>>
        [] r.kind = "invalid_cell" -> diagnosed \o ContinueOrStop(m, <<>>, <<"reminder">>)
        [] r.kind = "text" /\ m.protocol = "rlm" -> diagnosed \o <<BeforeCompletion("answer")>>
        [] r.kind = "text" /\ m.protocol = "rlm_finish" ->
             diagnosed \o ContinueOrStop(m, <<>>, <<"prose", "reminder">>)
        [] OTHER -> <<Finish("provider_error")>>

\* RlmDriver::handle_exec_result: a tool control inside the code, a finish that
\* passes or fails the schema, or code that merely ran or failed.
RlmExecResult(m, result) ==
  LET ran == <<"prose", "trajectory">>
  IN  CASE Ends(result) ->
             <<AppendEvents(ran), BeforeCompletion(Control[result])>>
        [] result = "finished" \/ (result = "mismatch" /\ m.protocol = "rlm") ->
             <<AppendEvents(ran), BeforeCompletion("value")>>
        [] result = "mismatch" /\ m.protocol = "rlm_finish" ->
             ContinueOrStop(m, ran, <<"reminder">>)
        [] OTHER -> ContinueOrStop(m, ran, <<>>)

-----------------------------------------------------------------------------
(* Polling. *)

prepare_protocol_iteration(m) ==
  IF SyncEnvironment /\ m.iteration \notin m.synced
  THEN sync_environment(m, TRUE)
  ELSE apply_actions(m, <<StartLlm>>)

prepare_protocol(m) ==
  IF SyncEnvironment THEN sync_environment(m, FALSE) ELSE prepare_protocol_iteration(m)

\* poll_effect, up to taking the effect from the queue.
poll_effect(m) ==
  CASE m.pending # <<>> -> m
    [] m.pending = <<>> /\ m.state = "PreparingProtocol" -> prepare_protocol(m)
    [] m.pending = <<>> /\ m.state = "PrepareIteration" -> prepare_protocol_iteration(m)
    [] OTHER -> m

-----------------------------------------------------------------------------
(* Responses.  One that the machine does not wait for changes nothing. *)

WaitsFor(m, state, id) == m.state = state /\ m.effect_id = id

handle_execution_environment_synced(m, id, result) ==
  IF ~WaitsFor(m, "WaitingExecutionEnvironment", id) THEN m
  ELSE IF result = "failed" THEN fail_turn(m)
  ELSE [m EXCEPT !.synced = {m.iteration}, !.state = "PrepareIteration"]

\* How a response ends the turn by its terminal reason.
TerminalReason ==
  [output_limit |-> "incomplete", filtered |-> "provider_error", stopped |-> "cancelled"]

handle_llm_complete(m, id, r) ==
  IF ~WaitsFor(m, "WaitingLlm", id) THEN m
  ELSE IF r.kind \in {"error", "cancelled"} THEN finish(m, "provider_error")
  ELSE IF r.kind \in DOMAIN TerminalReason THEN finish(m, TerminalReason[r.kind])
  ELSE apply_actions(m, IF IsRlm(m) THEN RlmLlmSuccess(m, r) ELSE StandardLlmSuccess(m, r))

handle_tool_results(m, id, results) ==
  IF ~WaitsFor(m, "WaitingTools", id) THEN m
  ELSE apply_actions(m, IF IsRlm(m) THEN <<>> ELSE StandardToolResults(m, results))

handle_exec_result(m, id, result) ==
  IF ~WaitsFor(m, "WaitingExec", id) THEN m
  ELSE apply_actions(m, IF IsRlm(m) THEN RlmExecResult(m, result) ELSE <<>>)

\* Mutants: the machine finishes although messages were delivered; it goes on
\* although the extra call was used up.
CheckpointFinishes(m, id, delivery) ==
  IF m.on_empty # "prepare"
  THEN finish([m EXCEPT !.messages = @ \o delivery], m.on_empty)
  ELSE emit_progress([m EXCEPT !.messages = @ \o delivery, !.state = "PrepareIteration"])
CheckpointNoForcedExit(m, id, delivery) ==
  IF delivery # <<>>
  THEN LET n == [m EXCEPT !.messages = @ \o delivery, !.iteration = @ + 1,
                          !.state = "PrepareIteration"]
       IN  emit_progress(IF FinalDue(n) THEN schedule_turn_limit_final(n) ELSE n)
  ELSE IF m.on_empty = "prepare" THEN [m EXCEPT !.state = "PrepareIteration"]
  ELSE finish(m, m.on_empty)

\* handle_checkpoint, with append_checkpoint_messages.
handle_checkpoint(m, id, delivery) ==
  IF ~WaitsFor(m, "WaitingCheckpoint", id) THEN m
  ELSE IF delivery # <<>>
  THEN LET got == [m EXCEPT !.messages = @ \o delivery]
           next == [got EXCEPT !.iteration = @ + 1]
       IN  IF m.checkpoint # "before_completion"
           THEN emit_progress([got EXCEPT !.state = "PrepareIteration"])
           ELSE IF m.final_scheduled
           THEN finish(emit_progress(next), "max_turns")
           ELSE emit_progress([(IF FinalDue(next) THEN schedule_turn_limit_final(next) ELSE next)
                                 EXCEPT !.state = "PrepareIteration"])
  ELSE IF m.on_empty = "prepare"
  THEN [m EXCEPT !.state = "PrepareIteration"]
  ELSE finish(m, m.on_empty)
=============================================================================
