----------------------------- MODULE MCTurnHost -----------------------------
(***************************************************************************)
(* TurnHost for TLC: any queue of a few batches of any kind is drained     *)
(* between turns; a standard turn runs with deliveries of its host, and an *)
(* RLM turn with a queued wake as well.                                    *)
(***************************************************************************)
EXTENDS TurnHost

CONSTANT MaxLen

MCHost == [o \in Owners |-> Opaque]

Work(delivery, slot, key) ==
  [class |-> "turn_work", delivery |-> delivery, slot |-> slot, key |-> key]
Wake == Work("earliest_safe_boundary", "join", "default")

MCBatches == {<<[mode |-> "serial", max |-> 1], [mode |-> "parallel", max |-> 2]>>}

MCInit ==
  /\ cands \in Queues(MaxLen)
  /\ Init
  /\ phase = "ready" => cands = IF run.mach.protocol = "standard" THEN <<>> ELSE <<Wake>>
  /\ phase = "idle" => run.mach.protocol = "standard"

MCSpec == MCInit /\ [][Next]_vars /\ Fairness
=============================================================================
