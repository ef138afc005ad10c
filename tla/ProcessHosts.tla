----------------------------- MODULE ProcessHosts -----------------------------
(***************************************************************************)
(* What the modules of the durable process system share: the tasks that    *)
(* run on the hosts of a deployment, the values they compute, and how a    *)
(* deadline comes closer.  A task is one recovery of one process           *)
(* (DurableProcessWorker::recover_process) and calls effects as itself.    *)
(***************************************************************************)
EXTENDS Integers

CONSTANTS
  Runners,   \* the tasks of all hosts
  Values,    \* outcomes of a successful effect
  Nobody     \* no runner, key, hash, result or output

\* What a deadline has left after a tick of the clock.
Countdown(n) == IF n = 0 THEN 0 ELSE n - 1
=============================================================================
