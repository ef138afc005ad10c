---------------------------- MODULE DurableProcess ----------------------------
(***************************************************************************)
(* Durable background processes: trigger deliveries register them, the     *)
(* sweep of DurableProcessWorker                                           *)
(* (crates/lash-core/src/runtime/process_worker.rs) claims, runs and       *)
(* completes them, their program runs its effects through the replay table *)
(* and wakes the session that started them.                                *)
(*                                                                         *)
(* The program is that of a lashlang process: call a tool, emit the        *)
(* answer as a wake event, sleep, and finish with the answer.  A process   *)
(* keeps nothing but its registration: a recovery runs the program again   *)
(* from the start, and relies on the replay keys.                          *)
(*                                                                         *)
(* A fault is a crash, a stall past a lease's expiry, or a store that      *)
(* fails; MaxFaults bounds their number.                                   *)
(***************************************************************************)
EXTENDS EffectReplay, Triggers

CONSTANTS
  Usual,       \* the envelope hash of an effect before any reconfiguration
  MaxFaults,   \* bound: number of faults
  MaxWakes     \* bound: times a wake is consumed

\* The replay keys of the program of process p.
ToolKey(p) == <<p, "tool">>
SleepKey(p) == <<p, "sleep">>

ASSUME ProcessAssumption ==
  /\ Keys = Processes \X {"tool", "sleep"}
  /\ SleepKeys = Processes \X {"sleep"}
  /\ Usual \in Envelopes
  /\ MaxFaults \in Nat /\ MaxWakes \in Nat \ {0}

VARIABLES
  task,    \* task[w]: the recovery in progress on task w
  config,  \* config[w]: envelope hash its host's configuration gives an effect
  wakes,   \* wakes[p]: the row of the wake in the session's queued work
  faults   \* faults so far

vars == <<effectVars, registryVars, triggerVars, task, config, wakes, faults>>

\* listed -> claimed -> tool -> wake -> enqueue -> sleep -> finish -> fenced -> release
NoTask == [pc |-> "idle", proc |-> Nobody, value |-> Nobody, end |-> Nobody]
Task == [pc: {"idle", "listed", "claimed", "tool", "wake", "enqueue", "sleep",
              "finish", "fenced", "release"},
         proc: Processes \cup {Nobody}, value: Values \cup {Nobody},
         end: TerminalKeys \cup {Nobody}]

TypeOK ==
  /\ EffectTypeOK /\ RegistryTypeOK /\ TriggerTypeOK
  /\ task \in [Runners -> Task]
  /\ wakes \in [Processes -> [pending: Values \cup {Nobody}, consumed: 0..MaxWakes]]
  /\ config \in [Runners -> Envelopes]
  /\ faults \in 0..MaxFaults

Init ==
  /\ EffectInit /\ RegistryInit /\ TriggerInit
  /\ task = [w \in Runners |-> NoTask]
  /\ wakes = [p \in Processes |-> [pending |-> Nobody, consumed |-> 0]]
  /\ config = [w \in Runners |-> Usual]
  /\ faults = 0

Proc(w) == task[w].proc
In(w, S) == task[w].pc \in S
Step(w, pc) == task' = [task EXCEPT ![w].pc = pc]
StepWith(w, pc, v) == task' = [task EXCEPT ![w].pc = pc, ![w].value = v]
\* run_process is over: with the value, with an error, or cancelled.
Ends(w, end) == task' = [task EXCEPT ![w].pc = "finish", ![w].end = end]
Leave(w) == task' = [task EXCEPT ![w] = NoTask]

Running == {"tool", "wake", "enqueue", "sleep"}

Fault == faults < MaxFaults /\ faults' = faults + 1
NoFault == UNCHANGED faults

-----------------------------------------------------------------------------
\* drive_pending_processes: a task for every row that is not terminal.
Drive(w, p) ==
  /\ In(w, {"idle"}) /\ record[p].status = "running"
  /\ task' = [task EXCEPT ![w] = [NoTask EXCEPT !.pc = "listed", !.proc = p]]
  /\ UNCHANGED <<effectVars, registryVars, triggerVars, config, wakes, faults>>

\* recover_process: a claim that is refused ends the task.
Claim(w) ==
  /\ In(w, {"listed"})
  /\ IF MayClaim(Proc(w))
     THEN ClaimLease(Proc(w), w) /\ Step(w, "claimed")
     ELSE Leave(w) /\ UNCHANGED registryVars
  /\ UNCHANGED <<effectVars, triggerVars, config, wakes, faults>>

\* ... a process that became terminal since it was listed is released again.
Recheck(w) ==
  /\ In(w, {"claimed"})
  /\ Step(w, IF IsTerminal(Proc(w)) THEN "release" ELSE "tool")
  /\ UNCHANGED <<effectVars, registryVars, triggerVars, config, wakes, faults>>

\* run_process cannot rebuild the runtime: the process is recorded as failed.
RunFails(w) ==
  /\ In(w, {"tool"}) /\ At(w, "idle")
  /\ Fault
  /\ Ends(w, "failed")
  /\ UNCHANGED <<effectVars, registryVars, triggerVars, config, wakes>>

-----------------------------------------------------------------------------
\* The program calls the tool, or sleeps.  It is deterministic: the envelope
\* differs from that of another run only if the hosts' configurations do.
CallEffect(w) ==
  /\ \/ In(w, {"tool"}) /\ StartCall(w, ToolKey(Proc(w)), config[w])
     \/ In(w, {"sleep"}) /\ StartCall(w, SleepKey(Proc(w)), config[w])
  /\ UNCHANGED <<registryVars, triggerVars, task, config, wakes, faults>>

\* Mutant: an error goes on as an answer.
EffectAnswerAny(w) ==
  /\ In(w, {"tool", "sleep"}) /\ TakeAnswer(w)
  /\ IF In(w, {"tool"}) THEN StepWith(w, "wake", call[w].result)
     ELSE Ends(w, "completed")
  /\ UNCHANGED <<registryVars, triggerVars, config, wakes, faults>>

\* It has the answer: an error ends the program.
EffectAnswer(w) ==
  /\ In(w, {"tool", "sleep"}) /\ TakeAnswer(w)
  /\ IF call[w].result \notin Values THEN Ends(w, "failed")
     ELSE IF In(w, {"tool"}) THEN StepWith(w, "wake", call[w].result)
     ELSE Ends(w, "completed")
  /\ UNCHANGED <<registryVars, triggerVars, config, wakes, faults>>

\* Mutant: a replayed event is not delivered again.
AppendWakeOnce(w) ==
  /\ In(w, {"wake"})
  /\ AppendEvent(Proc(w), EventOf("wake", task[w].value))
  /\ IF Refused(Proc(w), EventOf("wake", task[w].value))
     THEN Ends(w, "failed")
     ELSE Step(w, IF Replays(Proc(w), EventOf("wake", task[w].value))
                  THEN "sleep" ELSE "enqueue")
  /\ UNCHANGED <<effectVars, triggerVars, config, wakes, faults>>

\* process_event: append the wake, ...
AppendWake(w) ==
  /\ In(w, {"wake"})
  /\ AppendEvent(Proc(w), EventOf("wake", task[w].value))
  /\ IF Refused(Proc(w), EventOf("wake", task[w].value))
     THEN Ends(w, "failed") ELSE Step(w, "enqueue")
  /\ UNCHANGED <<effectVars, triggerVars, config, wakes, faults>>

\* ... then enqueue it for the session; a row with its source key stays as it is.
EnqueueWake(w) ==
  /\ In(w, {"enqueue"})
  /\ wakes' = IF wakes[Proc(w)].pending = Nobody
              THEN [wakes EXCEPT ![Proc(w)].pending = task[w].value]
              ELSE wakes
  /\ Step(w, "sleep")
  /\ UNCHANGED <<effectVars, registryVars, triggerVars, config, faults>>

\* ... a store that fails is an error of the program.
EnqueueFails(w) ==
  /\ In(w, {"wake", "enqueue"})
  /\ Fault
  /\ Ends(w, "failed")
  /\ UNCHANGED <<effectVars, registryVars, triggerVars, config, wakes>>

\* The cancel watcher cancels the token, execute_lashlang drops the program.
SeeCancel(w) ==
  /\ In(w, Running) /\ Logged(Proc(w), "cancel_requested")
  /\ DropCall(w)
  /\ Ends(w, "cancelled")
  /\ UNCHANGED <<registryVars, triggerVars, config, wakes, faults>>

-----------------------------------------------------------------------------
\* The lease is renewed while the program runs.
Renew(w) ==
  /\ In(w, Running)
  /\ RenewLease(Proc(w), w)
  /\ UNCHANGED <<effectVars, triggerVars, task, config, wakes, faults>>

\* ... lost, or the store fails: the run is dropped and nothing written.
RenewLost(w) ==
  /\ In(w, Running)
  /\ GuardLease(Proc(w), w) => Fault
  /\ ~GuardLease(Proc(w), w) => NoFault
  /\ DropCall(w) /\ OrphanLease(w) /\ Leave(w)
  /\ UNCHANGED <<triggerVars, config, wakes>>

\* complete_and_release: confirm the lease, ...
Fence(w) ==
  /\ In(w, {"finish"})
  /\ IF GuardLease(Proc(w), w)
     THEN RenewLease(Proc(w), w) /\ Step(w, "fenced")
     ELSE OrphanLease(w) /\ Leave(w)
  /\ UNCHANGED <<effectVars, triggerVars, config, wakes, faults>>

\* ... write the outcome (complete_process takes no lease), ...
Complete(w) ==
  /\ In(w, {"fenced"})
  /\ AppendEvent(Proc(w), EventOf(task[w].end,
       IF task[w].end = "completed" THEN task[w].value ELSE Nobody))
  /\ Step(w, "release")
  /\ UNCHANGED <<effectVars, triggerVars, config, wakes, faults>>

\* ... a write that fails is only logged, ...
CompleteFails(w) ==
  /\ In(w, {"fenced"})
  /\ Fault
  /\ Step(w, "release")
  /\ UNCHANGED <<effectVars, registryVars, triggerVars, config, wakes>>

\* ... and give the lease back.
Release(w) ==
  /\ In(w, {"release"})
  /\ CompleteLease(Proc(w), w) /\ Leave(w)
  /\ UNCHANGED <<effectVars, triggerVars, config, wakes, faults>>

\* The host of the task dies; it may come back with another configuration.
Crash(w) ==
  /\ ~In(w, {"idle"})
  /\ Fault
  /\ DropCall(w) /\ OrphanLease(w) /\ Leave(w)
  /\ \E h \in Envelopes : config' = [config EXCEPT ![w] = h]
  /\ UNCHANGED <<triggerVars, wakes>>

-----------------------------------------------------------------------------
\* request_process_cancel.
RequestCancel(p) ==
  /\ Known(p) /\ ~Logged(p, "cancel_requested")
  /\ AppendEvent(p, EventOf("cancel_requested", Nobody))
  /\ UNCHANGED <<effectVars, triggerVars, task, config, wakes, faults>>

\* A turn of the woken session consumes the row.
ConsumeWake(p) ==
  /\ wakes[p].pending # Nobody /\ wakes[p].consumed < MaxWakes
  /\ wakes' = [wakes EXCEPT ![p].pending = Nobody, ![p].consumed = @ + 1]
  /\ UNCHANGED <<effectVars, registryVars, triggerVars, task, config, faults>>

\* A lease about to run out on a task that is at work.
NearlyLost ==
  \/ \E p \in Processes : lease[p].holder # Nobody /\ lease[p].left = 1
  \/ \E k \in Keys : replay[k].holder # Nobody /\ replay[k].left = 1

\* Time passes.  Leases are renewed three times per term, so a task loses one
\* only when it stalls, which is a fault.
Tick ==
  /\ EffectTick /\ RegistryTick
  /\ IF NearlyLost THEN Fault ELSE NoFault
  /\ UNCHANGED <<triggerVars, task, config, wakes>>

\* The steps of the effect call a task is in.
EffectStep(w) ==
  /\ CallStep(w)
  /\ UNCHANGED <<registryVars, triggerVars, task, config, wakes, faults>>

EffectFails(w) ==
  /\ CallFails(w)
  /\ Fault
  /\ UNCHANGED <<registryVars, triggerVars, task, config, wakes>>

EffectRenews(w) ==
  /\ RenewEffect(w)
  /\ UNCHANGED <<registryVars, triggerVars, task, config, wakes, faults>>

Emits(e) == EmitStep(e) /\ UNCHANGED <<effectVars, task, config, wakes, faults>>

EmitFails(e) ==
  /\ DeliveryFails(e) \/ EmitterCrash(e)
  /\ Fault
  /\ UNCHANGED <<effectVars, task, config, wakes>>

-----------------------------------------------------------------------------
\* What a task does when nothing goes wrong.
Work(w) ==
  \/ Claim(w) \/ Recheck(w)
  \/ CallEffect(w) \/ EffectStep(w) \/ EffectAnswer(w)
  \/ AppendWake(w) \/ EnqueueWake(w) \/ SeeCancel(w)
  \/ Fence(w) \/ Complete(w) \/ Release(w)

GoesWrong(w) ==
  \/ RunFails(w) \/ EffectFails(w) \/ EnqueueFails(w) \/ CompleteFails(w)
  \/ Crash(w)

Sweep(w) == \E p \in Processes : Drive(w, p)
Renewals(w) == Renew(w) \/ EffectRenews(w)
Progress(w) == Sweep(w) \/ Work(w) \/ RenewLost(w)

Next ==
  \/ \E w \in Runners : Progress(w) \/ Renewals(w) \/ GoesWrong(w)
  \/ \E e \in Emitters : Emits(e) \/ EmitFails(e)
  \/ \E p \in Processes : RequestCancel(p) \/ ConsumeWake(p)
  \/ Tick

\* The host sweeps again and again, tasks run, renewals are made and time
\* passes.  Nothing makes a fault, a cancel, an emission or a session happen.
Fairness ==
  /\ \A w \in Runners : WF_vars(Progress(w)) /\ WF_vars(Renewals(w))
  /\ WF_vars(Tick)

Spec == Init /\ [][Next]_vars /\ Fairness

-----------------------------------------------------------------------------
(* Whatever a process works with or leaves, the value a run has in hand,    *)
(* the wake event, the row queued for the session and the value it          *)
(* completed with, is the answer recorded for its tool call, although every *)
(* run of the tool may answer differently and a run that lost its lease is  *)
(* still writing.                                                           *)
OneAnswer ==
  \A p \in Processes :
    LET answers == {log[p][i].payload : i \in DOMAIN log[p]}
                     \cup {wakes[p].pending, record[p].output}
                     \cup {task[w].value : w \in {v \in Runners : Proc(v) = p}}
    IN \A v \in answers \ {Nobody} : replay[ToolKey(p)].result = v

(* A process that completed has woken its session: the row is queued, or   *)
(* was consumed, also when the run that appended the wake event died       *)
(* before it could enqueue it.                                             *)
WakeNotLost ==
  \A p \in Processes : record[p].status = "completed" =>
    wakes[p].pending # Nobody \/ wakes[p].consumed > 0

(* Every registered process ends, whatever crashes and stalls, if they are *)
(* finitely many and the host keeps sweeping.                              *)
EventuallyTerminal == \A p \in Processes : Known(p) ~> IsTerminal(p)
=============================================================================
