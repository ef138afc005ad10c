-------------------------- MODULE MCSessionRuntime --------------------------
(***************************************************************************)
(* Instances: two runtimes of one host, a session command, a process wake  *)
(* that wants the earliest boundary, an input for the next turn and one    *)
(* that steers a turn.                                                     *)
(***************************************************************************)
EXTENDS SessionRuntime, TLC

CONSTANTS t1   \* the turn that is steered

\* Processes of one host see each other die, and every takeover that is possible
\* without that is possible with it.
MCHost == [o \in Owners |-> "h1"]

Command == [class |-> "session_command", delivery |-> "after_current_turn_commit",
            slot |-> "exclusive", key |-> "never"]
Wake == [class |-> "turn_work", delivery |-> "earliest_safe_boundary",
         slot |-> "join", key |-> "default"]

MCKindOf == [b \in Batches |-> IF b = "cmd" THEN Command ELSE Wake]
MCIngressOf == [i \in Inputs |-> IF i = "steer" THEN t1 ELSE NextTurn]

\* The runtimes are interchangeable, and so are the turns that no host names and
\* nobody steers.
Symmetry ==
  Permutations(Owners)
    \cup Permutations(Turns \ (HostTurns \cup {MCIngressOf[i] : i \in Inputs}))
=============================================================================
