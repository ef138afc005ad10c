------------------------------ MODULE ToolBatch ------------------------------
(***************************************************************************)
(* A batch of tool calls of one model response, on a controller that runs  *)
(* effects concurrently (crates/lash-core/src/session/tool_execution.rs    *)
(* and tool_dispatch/scheduling.rs).  Parallel calls run at once; serial   *)
(* calls run after them, one at a time in the order of the response.  Each *)
(* call is a loop of attempts, up to the limit of its tool's retry policy. *)
(*                                                                         *)
(* A call is [mode, max]: its scheduling and its max_attempts.  A call     *)
(* that answers later through its completion key is one that runs longer.  *)
(***************************************************************************)
EXTENDS Naturals, Sequences

Modes == {"parallel", "serial"}
Statuses == {"waiting", "running", "done"}

NewBatch(calls) ==
  [calls |-> calls,
   status |-> [i \in DOMAIN calls |-> "waiting"],
   attempt |-> [i \in DOMAIN calls |-> 1],
   result |-> [i \in DOMAIN calls |-> "none"]]

Done(b, i) == b.status[i] = "done"
Running(b) == {i \in DOMAIN b.calls : b.status[i] = "running"}

\* Mutants: a serial call does not wait for the parallel ones; everything waits
\* for what is before it and for every call of the other mode.
MayStartUnordered(b, i) ==
  /\ b.status[i] = "waiting"
  /\ b.calls[i].mode = "serial" =>
       \A j \in 1..(i - 1) : b.calls[j].mode = "serial" => Done(b, j)
MayStartCircular(b, i) ==
  /\ b.status[i] = "waiting"
  /\ \A j \in DOMAIN b.calls \ {i} : b.calls[j].mode # b.calls[i].mode \/ j < i => Done(b, j)

\* schedule_tool_batch: FuturesUnordered for the parallel calls, then a loop.
MayStart(b, i) ==
  /\ b.status[i] = "waiting"
  /\ b.calls[i].mode = "serial" =>
       \A j \in DOMAIN b.calls \ {i} : b.calls[j].mode = "parallel" \/ j < i => Done(b, j)

StartCall(b, i) == [b EXCEPT !.status[i] = "running"]
EndCall(b, i, result) == [b EXCEPT !.status[i] = "done", !.result[i] = result]

\* Mutant: one attempt too many.
AttemptEndsLate(b, i, result) ==
  IF result # "retryable" THEN EndCall(b, i, result)
  ELSE IF b.attempt[i] > b.calls[i].max THEN EndCall(b, i, "failure")
  ELSE [b EXCEPT !.attempt[i] = @ + 1]

\* The body of the attempt loop: a failure that is safe to retry is tried again
\* while attempts are left, and is marked as exhausted after the last.
AttemptEnds(b, i, result) ==
  IF result # "retryable" THEN EndCall(b, i, result)
  ELSE IF b.attempt[i] >= b.calls[i].max THEN EndCall(b, i, "failure")
  ELSE [b EXCEPT !.attempt[i] = @ + 1]

AllDone(b) == \A i \in DOMAIN b.calls : Done(b, i)
==============================================================================
