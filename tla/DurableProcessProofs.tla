------------------------- MODULE DurableProcessProofs -------------------------
(***************************************************************************)
(* Durable processes, for any number of processes, tasks, values, emitters *)
(* and faults.  A step of the whole system is a step of the replay table,  *)
(* or leaves it alone, and the same for the registry, so that what         *)
(* EffectReplayProofs and ProcessRegistryProofs show of each carries over. *)
(* What is left is what ties them together: every answer in sight is the   *)
(* one recorded for the tool call (Agrees), and a task that has passed its *)
(* wake has left a trace of it in the queue (Woken).                       *)
(***************************************************************************)
EXTENDS DurableProcess, EffectReplayProofs, ProcessRegistryProofs

Agrees(p, v) == v = Nobody \/ replay[ToolKey(p)].result = v
Woken(p) == wakes[p].pending # Nobody \/ wakes[p].consumed > 0

\* The effect a task is calling is the one its program is at.
CallsOwnKey(w) ==
  ~At(w, "idle") =>
    \/ In(w, {"tool"}) /\ call[w].key = ToolKey(Proc(w))
    \/ In(w, {"sleep"}) /\ call[w].key = SleepKey(Proc(w))

TaskOK(w) ==
  /\ ~In(w, {"idle"}) => Proc(w) \in Processes
  /\ Proc(w) \in Processes => Agrees(Proc(w), task[w].value)
  /\ In(w, {"wake", "enqueue"}) => task[w].value \in Values
  /\ In(w, {"finish", "fenced"}) => task[w].end \in TerminalKeys
  /\ CallsOwnKey(w)
  /\ In(w, {"sleep"}) \/ (In(w, {"finish", "fenced"}) /\ task[w].end = "completed") =>
       Woken(Proc(w))

ProcOK(p) ==
  /\ \A i \in DOMAIN log[p] : Agrees(p, log[p][i].payload)
  /\ Agrees(p, wakes[p].pending) /\ Agrees(p, record[p].output)
  /\ record[p].status = "completed" => Woken(p)

TriggerOK ==
  /\ TriggerTypeOK
  /\ \A e \in Emitters : emitter[e].pc = "granting" => emitter[e].current \in Processes

HostOK ==
  /\ task \in [Runners -> Task]
  /\ wakes \in [Processes -> [pending: Values \cup {Nobody}, consumed: 0..MaxWakes]]
  /\ config \in [Runners -> Envelopes]
  /\ faults \in 0..MaxFaults

DInv ==
  /\ EInv /\ RegistryOK /\ TriggerOK /\ HostOK
  /\ \A w \in Runners : TaskOK(w)
  /\ \A p \in Processes : ProcOK(p)

-----------------------------------------------------------------------------

\* The invariant holds at first.
LEMMA InitDInv == Init => DInv
<1> SUFFICES ASSUME Init PROVE DInv
  OBVIOUS
<1>1. EInv /\ RegistryOK
  BY InitEInv, InitRegistryOK DEF Init
<1>2. TriggerOK
  BY DEF Init, TriggerInit, TriggerOK, TriggerTypeOK, NoEmit, Emitter
<1>3. HostOK
  BY ProcessAssumption DEF Init, HostOK, NoTask, Task
<1>4. ASSUME NEW w \in Runners PROVE TaskOK(w)
  BY DEF Init, EffectInit, NoCall, NoTask, TaskOK, In, Proc, CallsOwnKey, At, Agrees
<1>5. ASSUME NEW p \in Processes PROVE ProcOK(p)
  BY DEF Init, RegistryInit, ProcOK, Agrees
<1> QED
  BY <1>1, <1>2, <1>3, <1>4, <1>5 DEF DInv

\* What a task of a process can say of itself.
LEMMA AtWork ==
  ASSUME DInv, NEW w \in Runners
  PROVE  /\ TaskOK(w) /\ task[w] \in Task /\ call[w] \in Call
         /\ ~In(w, {"idle"}) =>
              /\ Proc(w) \in Processes
              /\ ToolKey(Proc(w)) \in Keys /\ SleepKey(Proc(w)) \in Keys
BY ProcessAssumption DEF DInv, HostOK, TaskOK, EInv, EffectTypeOK, ToolKey, SleepKey

-----------------------------------------------------------------------------
\* Every step is a step of the replay table or leaves it alone.
LEMMA EffectSide ==
  ASSUME DInv, [Next]_vars
  PROVE  EInv' /\ RecordFixed
<1>1. [EffectNext]_effectVars
  <2>1. ASSUME NEW w \in Runners, CallEffect(w) PROVE EffectNext
    <3>1. config[w] \in Envelopes
      BY DEF DInv, HostOK
    <3>2. ToolKey(Proc(w)) \in Keys /\ SleepKey(Proc(w)) \in Keys
      BY <2>1, AtWork DEF CallEffect, In
    <3> QED
      BY <2>1, <3>1, <3>2 DEF CallEffect, EffectNext
  <2>2. ASSUME NEW w \in Runners,
               EffectAnswer(w) \/ SeeCancel(w) \/ RenewLost(w) \/ Crash(w)
        PROVE  EffectNext
    BY <2>2 DEF EffectAnswer, SeeCancel, RenewLost, Crash, EffectNext
  <2>3. ASSUME NEW w \in Runners, EffectStep(w) \/ EffectFails(w) \/ EffectRenews(w)
        PROVE  EffectNext
    BY <2>3 DEF EffectStep, EffectFails, EffectRenews, EffectNext
  <2>4. ASSUME NEW w \in Runners,
               \/ Sweep(w) \/ Claim(w) \/ Recheck(w) \/ AppendWake(w) \/ EnqueueWake(w)
               \/ Fence(w) \/ Complete(w) \/ Release(w) \/ RunFails(w) \/ EnqueueFails(w)
               \/ CompleteFails(w) \/ Renew(w)
        PROVE  UNCHANGED effectVars
    BY <2>4 DEF Sweep, Drive, Claim, Recheck, AppendWake, EnqueueWake, Fence, Complete, Release,
                RunFails, EnqueueFails, CompleteFails, Renew
  <2>5. ASSUME NEW e \in Emitters, Emits(e) \/ EmitFails(e) PROVE UNCHANGED effectVars
    BY <2>5 DEF Emits, EmitFails
  <2>6. ASSUME NEW p \in Processes, RequestCancel(p) \/ ConsumeWake(p)
        PROVE  UNCHANGED effectVars
    BY <2>6 DEF RequestCancel, ConsumeWake
  <2>7. CASE Tick
    BY <2>7 DEF Tick, EffectNext
  <2>8. CASE UNCHANGED vars
    BY <2>8 DEF vars
  <2> QED
    BY <2>1, <2>2, <2>3, <2>4, <2>5, <2>6, <2>7, <2>8
       DEF Next, Progress, Work, GoesWrong, Renewals
<1>2. EInv' /\ [RecordFixed]_effectVars
  BY <1>1, NextEInv DEF DInv
<1>3. CASE UNCHANGED effectVars
  <2>1. ASSUME NEW k \in Keys PROVE replay[k].due <= replay[k].due
    BY EffectAssumption DEF DInv, EInv, EffectTypeOK, Row
  <2> QED
    BY <1>2, <1>3, <2>1 DEF RecordFixed, effectVars
<1> QED
  BY <1>2, <1>3

\* Where a step ends the program has typed the event.
LEMMA Events ==
  /\ \A v \in Values \cup {Nobody} : EventOf("wake", v) \in Event
  /\ \A k \in TerminalKeys, v \in Values \cup {Nobody} : EventOf(k, v) \in Event
  /\ EventOf("cancel_requested", Nobody) \in Event
BY DEF EventOf, Event

\* ... and of the registry.
LEMMA RegistrySide ==
  ASSUME DInv, [Next]_vars
  PROVE  RegistryOK' /\ TerminalFixed
<1>1. ASSUME NEW p \in Processes, NEW e \in Event, AppendEvent(p, e)
      PROVE  RegistryOK' /\ TerminalFixed
  BY <1>1, AppendOK DEF DInv
<1>2. ASSUME NEW p \in Processes, NEW w \in Runners,
             ClaimLease(p, w) \/ RenewLease(p, w) \/ CompleteLease(p, w) \/ OrphanLease(w)
      PROVE  RegistryOK' /\ TerminalFixed
  <2>1. /\ lease' \in [Processes -> [holder: Runners \cup {Nobody}, left: 0..LeaseTtl]]
        /\ UNCHANGED <<record, log, granted>>
    BY <1>2, LeasesTyped DEF DInv
  <2> QED
    BY <2>1, RestOK DEF DInv, RegistryOK, RegistryTypeOK
<1>3. CASE UNCHANGED registryVars
  BY <1>3, RestOK DEF DInv, RegistryOK, RegistryTypeOK, registryVars
<1>4. ASSUME NEW w \in Runners, AppendWake(w) PROVE RegistryOK' /\ TerminalFixed
  <2>1. Proc(w) \in Processes /\ task[w].value \in Values
    BY <1>4, AtWork DEF AppendWake, In, TaskOK
  <2> QED
    BY <1>1, <1>4, <2>1, Events DEF AppendWake
<1>5. ASSUME NEW w \in Runners, Complete(w) PROVE RegistryOK' /\ TerminalFixed
  <2>1. Proc(w) \in Processes /\ task[w].value \in Values \cup {Nobody}
          /\ task[w].end \in TerminalKeys
    BY <1>5, AtWork DEF Complete, In, TaskOK, Task
  <2> QED
    BY <1>1, <1>5, <2>1, Events DEF Complete
<1>6. ASSUME NEW w \in Runners,
             Claim(w) \/ Fence(w) \/ Release(w) \/ Renew(w) \/ RenewLost(w) \/ Crash(w)
      PROVE  RegistryOK' /\ TerminalFixed
  <2>1. Proc(w) \in Processes
    BY <1>6, AtWork DEF Claim, Fence, Release, Renew, RenewLost, Crash, In, Running
  <2> QED
    BY <1>2, <1>3, <1>6, <2>1 DEF Claim, Fence, Release, Renew, RenewLost, Crash
<1>7. ASSUME NEW w \in Runners,
             \/ Sweep(w) \/ Recheck(w) \/ EnqueueWake(w) \/ RunFails(w) \/ EnqueueFails(w)
             \/ CompleteFails(w) \/ CallEffect(w) \/ EffectAnswer(w) \/ SeeCancel(w)
             \/ EffectStep(w) \/ EffectFails(w) \/ EffectRenews(w)
      PROVE  UNCHANGED registryVars
  BY <1>7 DEF Sweep, Drive, Recheck, EnqueueWake, RunFails, EnqueueFails, CompleteFails,
              CallEffect, EffectAnswer, SeeCancel, EffectStep, EffectFails, EffectRenews
<1>8. ASSUME NEW e \in Emitters, Emits(e) \/ EmitFails(e) PROVE RegistryOK' /\ TerminalFixed
  <2>1. CASE \E p \in Processes : StartDelivery(e, p)
    BY <2>1, RegisterOK DEF DInv, StartDelivery
  <2>2. CASE GrantDelivery(e)
    <3>1. granted' \subseteq Processes /\ record' = record /\ log' = log /\ lease' = lease
      BY <2>2 DEF GrantDelivery, GrantHandle, DInv, TriggerOK, RegistryOK, RegistryTypeOK
    <3> QED
      BY <3>1, RestOK DEF DInv, RegistryOK, RegistryTypeOK
  <2>3. CASE (\E q \in Requests : RecordOccurrence(e, q)) \/ ReserveDeliveries(e)
               \/ EmitFails(e)
    <3>1. UNCHANGED registryVars
      BY <2>3 DEF RecordOccurrence, ReserveDeliveries, EmitFails, DeliveryFails, EmitterCrash
    <3> QED
      BY <1>3, <3>1
  <2> QED
    BY <1>8, <2>1, <2>2, <2>3 DEF Emits, EmitStep
<1>9. ASSUME NEW p \in Processes, RequestCancel(p) \/ ConsumeWake(p)
      PROVE  RegistryOK' /\ TerminalFixed
  BY <1>1, <1>3, <1>9, Events DEF RequestCancel, ConsumeWake
<1>10. CASE Tick
  <2>1. /\ lease' \in [Processes -> [holder: Runners \cup {Nobody}, left: 0..LeaseTtl]]
        /\ UNCHANGED <<record, log, granted>>
    BY <1>10, RegistryTickTyped DEF DInv, Tick
  <2> QED
    BY <2>1, RestOK DEF DInv, RegistryOK, RegistryTypeOK
<1>11. CASE UNCHANGED vars
  BY <1>3, <1>11 DEF vars
<1> QED
  BY <1>3, <1>4, <1>5, <1>6, <1>7, <1>8, <1>9, <1>10, <1>11
     DEF Next, Progress, Work, GoesWrong, Renewals

-----------------------------------------------------------------------------
\* An emitter stays typed, and while it grants it has a process in hand.
LEMMA TriggerSide ==
  ASSUME DInv, [Next]_vars
  PROVE  TriggerOK'
<1>1. TriggerTypeOK /\ \A e \in Emitters : emitter[e] \in Emitter
  BY DEF DInv, TriggerOK, TriggerTypeOK
<1>2. CASE UNCHANGED triggerVars
  BY <1>2 DEF DInv, TriggerOK, TriggerTypeOK, triggerVars
<1>3. ASSUME NEW e \in Emitters, NEW m \in Emitter, SetEmitter(e, m),
             m.pc = "granting" => m.current \in Processes,
             occurrence' \in Requests \cup {Nobody}, reserved' \subseteq Processes
      PROVE  TriggerOK'
  BY <1>1, <1>3 DEF SetEmitter, TriggerOK, TriggerTypeOK, DInv
<1>4. \A m \in Emitter : Advance(m) \in Emitter /\ Advance(m).pc # "granting"
  BY DEF Advance, Emitter
<1>5. NoEmit \in Emitter /\ NoEmit.pc = "idle"
  BY DEF NoEmit, Emitter
<1>6. ASSUME NEW e \in Emitters, NEW q \in Requests, RecordOccurrence(e, q) PROVE TriggerOK'
  <2>1. CASE occurrence \in {Nobody, q}
    <3> DEFINE m == [NoEmit EXCEPT !.pc = "recorded"]
    <3>1. m \in Emitter /\ m.pc # "granting"
      BY DEF NoEmit, Emitter
    <3>2. SetEmitter(e, m) /\ occurrence' = q /\ reserved' = reserved
      BY <1>6, <2>1 DEF RecordOccurrence
    <3> HIDE DEF m
    <3> QED
      BY <1>1, <1>3, <3>1, <3>2 DEF TriggerTypeOK
  <2>2. CASE occurrence \notin {Nobody, q}
    <3> DEFINE m == [NoEmit EXCEPT !.pc = "err"]
    <3>1. m \in Emitter /\ m.pc # "granting"
      BY DEF NoEmit, Emitter
    <3>2. SetEmitter(e, m) /\ occurrence' = occurrence /\ reserved' = reserved
      BY <1>6, <2>2 DEF RecordOccurrence
    <3> HIDE DEF m
    <3> QED
      BY <1>1, <1>3, <3>1, <3>2 DEF TriggerTypeOK
  <2> QED
    BY <2>1, <2>2
<1>7. ASSUME NEW e \in Emitters, ReserveDeliveries(e) PROVE TriggerOK'
  <2> DEFINE m == [emitter[e] EXCEPT !.todo = Processes \ reserved]
  <2>1. m \in Emitter
    BY <1>1 DEF Emitter
  <2>2. SetEmitter(e, Advance(m)) /\ occurrence' = occurrence /\ reserved' = Processes
    BY <1>7 DEF ReserveDeliveries
  <2> HIDE DEF m
  <2> QED
    BY <1>1, <1>3, <1>4, <2>1, <2>2 DEF TriggerTypeOK
<1>8. ASSUME NEW e \in Emitters, NEW p \in Processes, StartDelivery(e, p) PROVE TriggerOK'
  <2> DEFINE m == [emitter[e] EXCEPT !.pc = "granting", !.current = p, !.todo = @ \ {p}]
  <2>1. m \in Emitter /\ m.current = p
    BY <1>1 DEF Emitter
  <2>2. SetEmitter(e, m) /\ occurrence' = occurrence /\ reserved' = reserved
    BY <1>8 DEF StartDelivery
  <2> HIDE DEF m
  <2> QED
    BY <1>1, <1>3, <2>1, <2>2 DEF TriggerTypeOK
<1>9. ASSUME NEW e \in Emitters, GrantDelivery(e) PROVE TriggerOK'
  <2> DEFINE m == [emitter[e] EXCEPT !.started = @ \cup {emitter[e].current}]
  <2>1. emitter[e].current \in Processes
    BY <1>9 DEF DInv, TriggerOK, GrantDelivery
  <2>2. m \in Emitter
    BY <1>1, <2>1 DEF Emitter
  <2>3. SetEmitter(e, Advance(m)) /\ occurrence' = occurrence /\ reserved' = reserved
    BY <1>9 DEF GrantDelivery
  <2> HIDE DEF m
  <2> QED
    BY <1>1, <1>3, <1>4, <2>2, <2>3 DEF TriggerTypeOK
<1>10. ASSUME NEW e \in Emitters, DeliveryFails(e) PROVE TriggerOK'
  <2>1. PICK p : SetEmitter(e, Advance([emitter[e] EXCEPT !.todo = @ \ {p}, !.failed = TRUE]))
    BY <1>10 DEF DeliveryFails
  <2> DEFINE m == [emitter[e] EXCEPT !.todo = @ \ {p}, !.failed = TRUE]
  <2>2. m \in Emitter
    BY <1>1 DEF Emitter
  <2>3. SetEmitter(e, Advance(m)) /\ occurrence' = occurrence /\ reserved' = reserved
    BY <1>10, <2>1 DEF DeliveryFails
  <2> HIDE DEF m
  <2> QED
    BY <1>1, <1>3, <1>4, <2>2, <2>3 DEF TriggerTypeOK
<1>11. ASSUME NEW e \in Emitters, EmitterCrash(e) PROVE TriggerOK'
  BY <1>1, <1>3, <1>5, <1>11 DEF EmitterCrash, TriggerTypeOK
<1>12. ASSUME NEW e \in Emitters, Emits(e) \/ EmitFails(e) PROVE TriggerOK'
  BY <1>6, <1>7, <1>8, <1>9, <1>10, <1>11, <1>12 DEF Emits, EmitStep, EmitFails
<1>13. CASE \E w \in Runners : Progress(w) \/ Renewals(w) \/ GoesWrong(w)
  <2>1. UNCHANGED triggerVars
    BY <1>13 DEF Progress, Sweep, Drive, Work, Claim, Recheck, CallEffect, EffectStep,
         EffectAnswer, AppendWake, EnqueueWake, SeeCancel, Fence, Complete, Release, RenewLost,
         Renewals, Renew, EffectRenews, GoesWrong, RunFails, EffectFails, EnqueueFails,
         CompleteFails, Crash
  <2> QED
    BY <1>2, <2>1
<1> QED
  BY <1>2, <1>12, <1>13 DEF Next, RequestCancel, ConsumeWake, Tick, vars

-----------------------------------------------------------------------------
\* What a run has in hand, and what it has left, stays what is on record.
LEMMA AgreesStable ==
  ASSUME DInv, [Next]_vars, NEW p \in Processes, NEW v, Agrees(p, v)
  PROVE  Agrees(p, v)'
<1>1. ToolKey(p) \in Keys
  BY ProcessAssumption DEF ToolKey
<1>2. RowOK(ToolKey(p)) /\ RecordFixed
  BY <1>1, EffectSide DEF DInv, EInv
<1>3. replay[ToolKey(p)].status \in Recorded =>
        replay'[ToolKey(p)].result = replay[ToolKey(p)].result
  BY <1>1, <1>2 DEF RecordFixed, Recorded
<1> QED
  BY <1>2, <1>3 DEF Agrees, RowOK

\* The row of a wake changes by its delivery and its consumption.
LEMMA WakesSide ==
  ASSUME DInv, [Next]_vars
  PROVE  /\ wakes' \in [Processes -> [pending: Values \cup {Nobody}, consumed: 0..MaxWakes]]
         /\ \A p \in Processes :
              /\ Woken(p) => Woken(p)'
              /\ \/ wakes'[p].pending \in {wakes[p].pending, Nobody}
                 \/ \E w \in Runners : /\ Proc(w) = p
                                       /\ wakes'[p].pending = task[w].value
<1>1. /\ wakes \in [Processes -> [pending: Values \cup {Nobody}, consumed: 0..MaxWakes]]
      /\ MaxWakes \in Nat
  BY ProcessAssumption DEF DInv, HostOK
<1>2. CASE UNCHANGED wakes
  BY <1>1, <1>2 DEF Woken
<1>3. ASSUME NEW w \in Runners, EnqueueWake(w)
      PROVE  /\ wakes' \in [Processes -> [pending: Values \cup {Nobody}, consumed: 0..MaxWakes]]
             /\ \A p \in Processes :
                  /\ Woken(p) => Woken(p)'
                  /\ \/ wakes'[p].pending \in {wakes[p].pending, Nobody}
                     \/ Proc(w) = p /\ wakes'[p].pending = task[w].value
  <2>1. Proc(w) \in Processes /\ task[w].value \in Values
    BY <1>3, AtWork DEF EnqueueWake, In, TaskOK
  <2>2. CASE wakes[Proc(w)].pending # Nobody
    BY <1>1, <1>3, <2>2 DEF EnqueueWake, Woken
  <2>3. CASE wakes[Proc(w)].pending = Nobody
    <3>1. wakes' = [wakes EXCEPT ![Proc(w)].pending = task[w].value]
      BY <1>3, <2>3 DEF EnqueueWake
    <3>2. \A p \in Processes : wakes'[p].consumed = wakes[p].consumed
      BY <1>1, <2>1, <3>1
    <3>3. \A p \in Processes : p # Proc(w) => wakes'[p] = wakes[p]
      BY <1>1, <2>1, <3>1
    <3>4. wakes'[Proc(w)].pending = task[w].value
      BY <1>1, <2>1, <3>1
    <3>5. wakes' \in [Processes -> [pending: Values \cup {Nobody}, consumed: 0..MaxWakes]]
      BY <1>1, <2>1, <3>1
    <3> QED
      BY <2>1, <3>2, <3>3, <3>4, <3>5, EffectAssumption DEF Woken
  <2> QED
    BY <2>2, <2>3
<1>4. ASSUME NEW q \in Processes, ConsumeWake(q)
      PROVE  /\ wakes' \in [Processes -> [pending: Values \cup {Nobody}, consumed: 0..MaxWakes]]
             /\ \A p \in Processes :
                  /\ Woken(p) => Woken(p)'
                  /\ wakes'[p].pending \in {wakes[p].pending, Nobody}
  <2>1. /\ wakes' = [wakes EXCEPT ![q].pending = Nobody, ![q].consumed = @ + 1]
        /\ wakes[q].consumed < MaxWakes
    BY <1>4 DEF ConsumeWake
  <2>2. \A p \in Processes : p # q => wakes'[p] = wakes[p]
    BY <1>1, <2>1
  <2>3. wakes'[q] = [pending |-> Nobody, consumed |-> wakes[q].consumed + 1]
    BY <1>1, <2>1
  <2>4. wakes[q].consumed + 1 \in 0..MaxWakes /\ wakes[q].consumed + 1 > 0
    BY <1>1, <2>1
  <2>5. wakes' \in [Processes -> [pending: Values \cup {Nobody}, consumed: 0..MaxWakes]]
    BY <1>1, <2>1, <2>2, <2>3, <2>4
  <2> QED
    BY <2>2, <2>3, <2>4, <2>5 DEF Woken
<1>5. ASSUME NEW w \in Runners, Progress(w) \/ Renewals(w) \/ GoesWrong(w)
      PROVE  EnqueueWake(w) \/ UNCHANGED wakes
  BY <1>5 DEF Progress, Sweep, Drive, Work, Claim, Recheck, CallEffect, EffectStep,
       EffectAnswer, AppendWake, SeeCancel, Fence, Complete, Release, RenewLost,
       Renewals, Renew, EffectRenews, GoesWrong, RunFails, EffectFails, EnqueueFails,
       CompleteFails, Crash
<1>6. \/ \E w \in Runners : EnqueueWake(w)
      \/ \E q \in Processes : ConsumeWake(q)
      \/ UNCHANGED wakes
  BY <1>5 DEF Next, Emits, EmitFails, RequestCancel, Tick, vars
<1>7. CASE \E w \in Runners : EnqueueWake(w)
  BY <1>3, <1>7
<1>8. CASE \E q \in Processes : ConsumeWake(q)
  BY <1>4, <1>8
<1> QED
  BY <1>2, <1>6, <1>7, <1>8

-----------------------------------------------------------------------------
TasksOK == task \in [Runners -> Task] /\ \A w \in Runners : TaskOK(w)

\* A task that does not move, and calls no other effect than before.
LEMMA TaskStays ==
  ASSUME DInv, [Next]_vars, NEW d \in Runners, task'[d] = task[d],
         call'[d].pc # "idle" => call[d].pc # "idle" /\ call'[d].key = call[d].key
  PROVE  TaskOK(d)'
<1>1. TaskOK(d) /\ (~In(d, {"idle"}) => Proc(d) \in Processes)
  BY AtWork
<1>2. Proc(d)' = Proc(d) /\ task'[d].value = task[d].value
  BY DEF Proc
<1>3. Proc(d) \in Processes => Agrees(Proc(d), task[d].value)'
  <2>1. SUFFICES ASSUME Proc(d) \in Processes PROVE Agrees(task[d].proc, task[d].value)'
    BY <1>2 DEF Proc, Agrees
  <2>2. \A v : Agrees(Proc(d), v) => (v = Nobody \/ replay'[ToolKey(Proc(d))].result = v)
    BY <2>1, AgreesStable DEF Agrees
  <2> QED
    BY <1>1, <1>2, <2>1, <2>2 DEF TaskOK, Agrees, Proc
<1>4. Proc(d) \in Processes /\ Woken(Proc(d)) => Woken(Proc(d))'
  <2>1. \A p \in Processes : Woken(p) => wakes'[p].pending # Nobody \/ wakes'[p].consumed > 0
    BY WakesSide DEF Woken
  <2> QED
    BY <1>2, <2>1 DEF Woken, Proc
<1>5. CallsOwnKey(d)'
  BY <1>1, <1>2 DEF TaskOK, CallsOwnKey, At, In, ToolKey, SleepKey
<1> QED
  BY <1>1, <1>2, <1>3, <1>4, <1>5 DEF TaskOK, In

\* A task that moves to t and has no effect in flight there.
LEMMA TaskMoves ==
  ASSUME DInv, [Next]_vars, NEW w \in Runners, NEW t \in Task,
         task' = [task EXCEPT ![w] = t],
         call'[w].pc = "idle",
         \A d \in Runners : d # w => call'[d] = call[d],
         t.pc # "idle" => t.proc \in Processes,
         t.proc \in Processes => t.value = Nobody \/ replay'[ToolKey(t.proc)].result = t.value,
         t.pc \in {"wake", "enqueue"} => t.value \in Values,
         t.pc \in {"finish", "fenced"} => t.end \in TerminalKeys,
         t.pc = "sleep" \/ (t.pc \in {"finish", "fenced"} /\ t.end = "completed") =>
           wakes'[t.proc].pending # Nobody \/ wakes'[t.proc].consumed > 0
  PROVE  TasksOK'
<1>1. task' \in [Runners -> Task] /\ task'[w] = t
      /\ \A d \in Runners : d # w => task'[d] = task[d]
  BY DEF DInv, HostOK
<1>2. TaskOK(w)'
  BY <1>1 DEF TaskOK, In, Proc, Agrees, CallsOwnKey, At, Woken, ToolKey
<1>3. ASSUME NEW d \in Runners, d # w PROVE TaskOK(d)'
  BY <1>1, <1>3, TaskStays
<1> QED
  BY <1>1, <1>2, <1>3 DEF TasksOK

\* A task has an effect in flight only where its program calls one.
LEMMA NoCallHere ==
  ASSUME DInv, NEW w \in Runners, ~In(w, {"tool", "sleep"})
  PROVE  At(w, "idle")
BY AtWork DEF TaskOK, CallsOwnKey, In

\* The answer a task has, and the wake it left, in the next state.
LEMMA Carried ==
  ASSUME DInv, [Next]_vars, NEW w \in Runners, ~In(w, {"idle"})
  PROVE  /\ Proc(w) \in Processes /\ task[w] \in Task
         /\ task[w].value = Nobody \/ replay'[ToolKey(Proc(w))].result = task[w].value
         /\ Woken(Proc(w)) => wakes'[Proc(w)].pending # Nobody \/ wakes'[Proc(w)].consumed > 0
<1>1. TaskOK(w) /\ Proc(w) \in Processes /\ task[w] \in Task
  BY AtWork
<1>2. \A p \in Processes : \A v : Agrees(p, v) => v = Nobody \/ replay'[ToolKey(p)].result = v
  BY AgreesStable DEF Agrees
<1>3. \A p \in Processes : Woken(p) => wakes'[p].pending # Nobody \/ wakes'[p].consumed > 0
  BY WakesSide DEF Woken
<1> QED
  BY <1>1, <1>2, <1>3 DEF TaskOK

\* A task that leaves is as new.
LEMMA LeaveOK ==
  ASSUME DInv, [Next]_vars, NEW w \in Runners, Leave(w),
         call'[w].pc = "idle", \A d \in Runners : d # w => call'[d] = call[d]
  PROVE  TasksOK'
<1>1. NoTask \in Task /\ NoTask.pc = "idle" /\ NoTask.value = Nobody
  BY DEF NoTask, Task
<1>2. task' = [task EXCEPT ![w] = NoTask]
  BY DEF Leave
<1> QED
  BY <1>1, <1>2, TaskMoves

\* A program that is over without a value, and a step that only moves on.
LEMMA EndsOK ==
  ASSUME DInv, [Next]_vars, NEW w \in Runners, NEW end \in {"failed", "cancelled"}, Ends(w, end),
         ~In(w, {"idle"}),
         call'[w].pc = "idle", \A d \in Runners : d # w => call'[d] = call[d]
  PROVE  TasksOK'
<1> DEFINE t == [task[w] EXCEPT !.pc = "finish", !.end = end]
<1>1. /\ Proc(w) \in Processes /\ task[w] \in Task
      /\ task[w].value = Nobody \/ replay'[ToolKey(Proc(w))].result = task[w].value
  BY Carried
<1>2. task' = [task EXCEPT ![w] = t]
  BY DEF Ends
<1>3. /\ t \in Task /\ t.pc = "finish" /\ t.end = end /\ t.end \in TerminalKeys
      /\ t.end # "completed" /\ t.proc = Proc(w) /\ t.value = task[w].value
  BY <1>1 DEF Task, TerminalKeys, Proc
<1> HIDE DEF t
<1> QED
  BY <1>1, <1>2, <1>3, TaskMoves

\* A step of an idle call from one point of the program to another, in which only
\* the task itself moves.
LEMMA StepOK ==
  ASSUME DInv, [Next]_vars, NEW w \in Runners,
         NEW pc \in {"claimed", "tool", "enqueue", "sleep", "fenced", "release"}, Step(w, pc),
         ~In(w, {"idle"}), At(w, "idle"), call' = call,
         pc = "enqueue" => In(w, {"wake"}),
         pc = "fenced" => In(w, {"finish"}),
         pc = "sleep" => wakes'[Proc(w)].pending # Nobody
  PROVE  TasksOK'
<1> DEFINE t == [task[w] EXCEPT !.pc = pc]
<1>1. /\ Proc(w) \in Processes /\ task[w] \in Task
      /\ task[w].value = Nobody \/ replay'[ToolKey(Proc(w))].result = task[w].value
      /\ Woken(Proc(w)) => wakes'[Proc(w)].pending # Nobody \/ wakes'[Proc(w)].consumed > 0
  BY Carried
<1>2. task' = [task EXCEPT ![w] = t]
  BY DEF Step
<1>3. t \in Task /\ t.pc = pc /\ t.end = task[w].end /\ t.proc = Proc(w)
      /\ t.value = task[w].value
  BY <1>1 DEF Task, Proc
<1>4. TaskOK(w)
  BY AtWork
<1>5. /\ t.pc \in {"wake", "enqueue"} => t.value \in Values
      /\ t.pc \in {"finish", "fenced"} => t.end \in TerminalKeys /\ In(w, {"finish"})
  BY <1>3, <1>4 DEF TaskOK, In
<1>6. t.pc = "sleep" \/ (t.pc \in {"finish", "fenced"} /\ t.end = "completed") =>
        wakes'[t.proc].pending # Nobody \/ wakes'[t.proc].consumed > 0
  BY <1>1, <1>3, <1>4, <1>5 DEF TaskOK, In
<1>7. call'[w].pc = "idle"
  BY DEF At
<1> HIDE DEF t
<1> QED
  BY <1>1, <1>2, <1>3, <1>5, <1>6, <1>7, TaskMoves

\* A call in flight keeps its key.
LEMMA CallKeepsKey ==
  ASSUME EInv, NEW r \in Runners, CallStep(r) \/ CallFails(r) \/ RenewEffect(r),
         NEW d \in Runners
  PROVE  call'[d].pc # "idle" => call[d].pc # "idle" /\ call'[d].key = call[d].key
<1>1. call \in [Runners -> Call]
  BY DEF EInv, EffectTypeOK
<1>2. ASSUME NEW pc, Go(r, pc), ~At(r, "idle")
      PROVE  call'[d].pc # "idle" => call[d].pc # "idle" /\ call'[d].key = call[d].key
  BY <1>1, <1>2 DEF Go, At, Call
<1>3. ASSUME NEW pc, NEW o, GoWith(r, pc, o), ~At(r, "idle")
      PROVE  call'[d].pc # "idle" => call[d].pc # "idle" /\ call'[d].key = call[d].key
  BY <1>1, <1>3 DEF GoWith, At, Call
<1>4. CASE PrepareInsert(r) \/ PrepareTakeOver(r) \/ ReplayDue(r) \/ Finalize(r)
  BY <1>2, <1>3, <1>4 DEF PrepareInsert, PrepareTakeOver, ReplayDue, Finalize, At
<1>5. CASE PrepareConflict(r) \/ PrepareReplay(r) \/ PrepareReplayError(r) \/ PrepareFails(r)
  BY <1>3, <1>5 DEF PrepareConflict, PrepareReplay, PrepareReplayError, PrepareFails, At
<1>6. CASE (\E o \in Outcomes : Execute(r, o)) \/ RenewEffectLost(r) \/ RenewEffectFails(r)
             \/ FinalizeFails(r)
  BY <1>3, <1>6 DEF Execute, RenewEffectLost, RenewEffectFails, FinalizeFails, At
<1>7. CASE RenewEffect(r)
  BY <1>7 DEF RenewEffect
<1> QED
  BY <1>4, <1>5, <1>6, <1>7 DEF CallStep, CallFails

\* An answer the program goes on with is on record.
LEMMA EffectAnswerOK ==
  ASSUME DInv, [Next]_vars, NEW w \in Runners, EffectAnswer(w)
  PROVE  TasksOK'
<1>1. /\ At(w, "returned") /\ call' = [call EXCEPT ![w] = NoCall] /\ replay' = replay
      /\ ~In(w, {"idle"})
  BY DEF EffectAnswer, TakeAnswer, In
<1>2. call'[w].pc = "idle" /\ \A d \in Runners : d # w => call'[d] = call[d]
  BY <1>1 DEF DInv, EInv, EffectTypeOK, NoCall
<1>3. CASE call[w].result \notin Values
  BY <1>1, <1>2, <1>3, EndsOK DEF EffectAnswer
<1>4. CASE call[w].result \in Values /\ In(w, {"tool"})
  <2> DEFINE t == [task[w] EXCEPT !.pc = "wake", !.value = call[w].result]
  <2>1. Proc(w) \in Processes /\ task[w] \in Task /\ TaskOK(w)
    BY <1>1, AtWork
  <2>2. task' = [task EXCEPT ![w] = t]
    BY <1>4 DEF EffectAnswer, StepWith
  <2>3. t \in Task /\ t.pc = "wake" /\ t.proc = Proc(w) /\ t.value = call[w].result
    BY <1>4, <2>1 DEF Task, Proc
  <2>4. call[w].key = ToolKey(Proc(w))
    BY <1>1, <1>4, <2>1 DEF TaskOK, CallsOwnKey, At, In
  <2>5. replay[ToolKey(Proc(w))].result = call[w].result
    <3>1. CallOK(w) /\ Answered(w)
      BY <1>1, <1>4 DEF DInv, EInv, Answered
    <3> QED
      BY <2>4, <3>1 DEF CallOK, OnRecord, RowOf
  <2> HIDE DEF t
  <2> QED
    BY <1>1, <1>2, <1>4, <2>1, <2>2, <2>3, <2>5, TaskMoves
<1>5. CASE call[w].result \in Values /\ ~In(w, {"tool"})
  <2> DEFINE t == [task[w] EXCEPT !.pc = "finish", !.end = "completed"]
  <2>1. /\ Proc(w) \in Processes /\ task[w] \in Task
        /\ task[w].value = Nobody \/ replay'[ToolKey(Proc(w))].result = task[w].value
        /\ Woken(Proc(w)) => wakes'[Proc(w)].pending # Nobody \/ wakes'[Proc(w)].consumed > 0
    BY <1>1, Carried
  <2>2. task' = [task EXCEPT ![w] = t]
    BY <1>5 DEF EffectAnswer, Ends
  <2>3. /\ t \in Task /\ t.pc = "finish" /\ t.proc = Proc(w) /\ t.value = task[w].value
        /\ t.end = "completed" /\ t.end \in TerminalKeys
    BY <2>1 DEF Task, TerminalKeys, Proc
  <2>4. In(w, {"sleep"})
    BY <1>5 DEF EffectAnswer, In
  <2>5. Woken(Proc(w))
    BY <2>4, AtWork DEF TaskOK
  <2> HIDE DEF t
  <2> QED
    BY <1>2, <2>1, <2>2, <2>3, <2>5, TaskMoves
<1> QED
  BY <1>3, <1>4, <1>5

\* One step of one task, or none.
LEMMA TasksSide ==
  ASSUME DInv, [Next]_vars
  PROVE  TasksOK'
<1>1. ASSUME UNCHANGED task,
             \A d \in Runners :
               call'[d].pc # "idle" => call[d].pc # "idle" /\ call'[d].key = call[d].key
      PROVE  TasksOK'
  BY <1>1, TaskStays DEF TasksOK, DInv, HostOK
<1>2. ASSUME NEW w \in Runners, DropCall(w)
      PROVE  call'[w].pc = "idle" /\ \A d \in Runners : d # w => call'[d] = call[d]
  BY <1>2 DEF DropCall, NoCall, DInv, EInv, EffectTypeOK
<1>3. ASSUME NEW w \in Runners, NEW p \in Processes, Drive(w, p) PROVE TasksOK'
  <2> DEFINE t == [NoTask EXCEPT !.pc = "listed", !.proc = p]
  <2>1. t \in Task /\ t.pc = "listed" /\ t.proc = p /\ t.value = Nobody
    BY DEF NoTask, Task
  <2>2. task' = [task EXCEPT ![w] = t] /\ call' = call
    BY <1>3 DEF Drive, effectVars
  <2>3. call[w].pc = "idle"
    BY <1>3, NoCallHere DEF Drive, In, At
  <2> HIDE DEF t
  <2> QED
    BY <2>1, <2>2, <2>3, TaskMoves
<1>4. ASSUME NEW w \in Runners, Claim(w) PROVE TasksOK'
  <2>1. At(w, "idle") /\ call' = call /\ ~In(w, {"idle"})
    BY <1>4, NoCallHere DEF Claim, In, effectVars
  <2> QED
    BY <1>4, <2>1, LeaveOK, StepOK DEF Claim, At
<1>5. ASSUME NEW w \in Runners, Recheck(w) PROVE TasksOK'
  <2>1. At(w, "idle") /\ call' = call /\ ~In(w, {"idle"})
    BY <1>5, NoCallHere DEF Recheck, In, effectVars
  <2> QED
    BY <1>5, <2>1, StepOK DEF Recheck
<1>6. ASSUME NEW w \in Runners, RunFails(w) \/ EnqueueFails(w) PROVE TasksOK'
  <2>1. At(w, "idle") /\ call' = call /\ ~In(w, {"idle"}) /\ Ends(w, "failed")
    BY <1>6, NoCallHere DEF RunFails, EnqueueFails, In, effectVars
  <2> QED
    BY <2>1, EndsOK DEF At
<1>7. ASSUME NEW w \in Runners, CallEffect(w) PROVE TasksOK'
  <2>1. task' = task /\ call \in [Runners -> Call]
    BY <1>7 DEF CallEffect, DInv, EInv, EffectTypeOK
  <2>2. \A d \in Runners : d # w => call'[d] = call[d]
    BY <1>7, <2>1 DEF CallEffect, StartCall
  <2>3. \/ In(w, {"tool"}) /\ call'[w].key = ToolKey(Proc(w))
        \/ In(w, {"sleep"}) /\ call'[w].key = SleepKey(Proc(w))
    BY <1>7, <2>1 DEF CallEffect, StartCall
  <2>4. ASSUME NEW d \in Runners, d # w PROVE TaskOK(d)'
    BY <2>1, <2>2, <2>4, TaskStays
  <2>5. CallsOwnKey(w)'
    BY <2>1, <2>3 DEF CallsOwnKey, In, Proc, ToolKey, SleepKey
  <2>6. ~In(w, {"idle"}) /\ TaskOK(w)
    BY <2>3, AtWork DEF In
  <2>7. /\ Proc(w) \in Processes
        /\ task[w].value = Nobody \/ replay'[ToolKey(Proc(w))].result = task[w].value
        /\ Woken(Proc(w)) => wakes'[Proc(w)].pending # Nobody \/ wakes'[Proc(w)].consumed > 0
    BY <2>6, Carried
  <2>8. Agrees(Proc(w), task[w].value)'
    BY <2>1, <2>7 DEF Agrees, Proc, ToolKey
  <2>9. Woken(Proc(w)) => Woken(Proc(w))'
    BY <2>1, <2>7 DEF Woken, Proc
  <2>10. TaskOK(w)'
    BY <2>1, <2>5, <2>6, <2>7, <2>8, <2>9 DEF TaskOK, In, Proc
  <2> QED
    BY <2>1, <2>4, <2>10 DEF TasksOK, DInv, HostOK
<1>8. ASSUME NEW w \in Runners, EffectStep(w) \/ EffectFails(w) \/ EffectRenews(w) PROVE TasksOK'
  <2>1. UNCHANGED task /\ (CallStep(w) \/ CallFails(w) \/ RenewEffect(w))
    BY <1>8 DEF EffectStep, EffectFails, EffectRenews
  <2> QED
    BY <1>1, <2>1, CallKeepsKey DEF DInv
<1>9. ASSUME NEW w \in Runners, AppendWake(w) PROVE TasksOK'
  <2>1. At(w, "idle") /\ call' = call /\ ~In(w, {"idle"}) /\ In(w, {"wake"})
    BY <1>9, NoCallHere DEF AppendWake, In, effectVars
  <2> QED
    BY <1>9, <2>1, EndsOK, StepOK DEF AppendWake, At
<1>10. ASSUME NEW w \in Runners, EnqueueWake(w) PROVE TasksOK'
  <2>1. At(w, "idle") /\ call' = call /\ ~In(w, {"idle"}) /\ Step(w, "sleep")
    BY <1>10, NoCallHere DEF EnqueueWake, In, effectVars
  <2>2. Proc(w) \in Processes /\ task[w].value \in Values
    BY <1>10, AtWork DEF EnqueueWake, In, TaskOK
  <2>3. wakes'[Proc(w)].pending # Nobody
    BY <1>10, <2>2, EffectAssumption DEF EnqueueWake, DInv, HostOK
  <2> QED
    BY <2>1, <2>3, StepOK
<1>11. ASSUME NEW w \in Runners, SeeCancel(w) PROVE TasksOK'
  <2>1. ~In(w, {"idle"}) /\ DropCall(w) /\ Ends(w, "cancelled")
    BY <1>11 DEF SeeCancel, In, Running
  <2> QED
    BY <1>2, <2>1, EndsOK
<1>12. ASSUME NEW w \in Runners, RenewLost(w) \/ Crash(w) PROVE TasksOK'
  BY <1>2, <1>12, LeaveOK DEF RenewLost, Crash
<1>13. ASSUME NEW w \in Runners, Fence(w) \/ Complete(w) \/ CompleteFails(w) \/ Release(w)
       PROVE  TasksOK'
  <2>1. At(w, "idle") /\ call' = call /\ ~In(w, {"idle"})
    BY <1>13, NoCallHere DEF Fence, Complete, CompleteFails, Release, In, effectVars
  <2>2. CASE Fence(w)
    BY <2>1, <2>2, LeaveOK, StepOK DEF Fence, At
  <2>3. CASE Complete(w) \/ CompleteFails(w)
    BY <2>1, <2>3, StepOK DEF Complete, CompleteFails
  <2>4. CASE Release(w)
    BY <2>1, <2>4, LeaveOK DEF Release, At
  <2> QED
    BY <1>13, <2>2, <2>3, <2>4
<1>14. ASSUME NEW w \in Runners, Renew(w) PROVE TasksOK'
  BY <1>1, <1>14 DEF Renew, effectVars
<1>15. CASE \/ \E e \in Emitters : Emits(e) \/ EmitFails(e)
            \/ \E p \in Processes : RequestCancel(p) \/ ConsumeWake(p)
            \/ Tick
            \/ UNCHANGED vars
  BY <1>1, <1>15 DEF Emits, EmitFails, RequestCancel, ConsumeWake, Tick, EffectTick, vars,
                     effectVars
<1> QED
  BY <1>3, <1>4, <1>5, <1>6, <1>7, <1>8, <1>9, <1>10, <1>11, <1>12, <1>13, <1>14, <1>15,
     EffectAnswerOK DEF Next, Progress, Sweep, Work, GoesWrong, Renewals

-----------------------------------------------------------------------------
\* A row that keeps what it says, or says it with less.
LEMMA ProcStays ==
  ASSUME DInv, [Next]_vars, NEW p \in Processes,
         log'[p] = log[p], record'[p].output = record[p].output,
         record'[p].status = "completed" => record[p].status = "completed"
  PROVE  ProcOK(p)'
<1> DEFINE Stands(v) == v = Nobody \/ replay'[ToolKey(p)].result = v
<1>1. ProcOK(p)
  BY DEF DInv
<1>2. \A v : Agrees(p, v) => Stands(v)
  BY AgreesStable DEF Agrees
<1>3. Stands(wakes'[p].pending)
  <2>1. CASE wakes'[p].pending \in {wakes[p].pending, Nobody}
    BY <1>1, <1>2, <2>1 DEF ProcOK
  <2>2. CASE \E w \in Runners : Proc(w) = p /\ wakes'[p].pending = task[w].value
    <3>1. PICK w \in Runners : Proc(w) = p /\ wakes'[p].pending = task[w].value
      BY <2>2
    <3>2. Agrees(p, task[w].value)
      BY <3>1, AtWork DEF TaskOK
    <3> QED
      BY <1>2, <3>1, <3>2
  <2> QED
    BY <2>1, <2>2, WakesSide
<1>4. \A i \in DOMAIN log[p] : Stands(log[p][i].payload)
  BY <1>1, <1>2 DEF ProcOK
<1>5. Stands(record[p].output)
  BY <1>1, <1>2 DEF ProcOK
<1>6. record'[p].status = "completed" => Woken(p)'
  BY <1>1, WakesSide DEF ProcOK
<1> QED
  BY <1>3, <1>4, <1>5, <1>6 DEF ProcOK, Agrees

\* An event whose payload is on record, appended to one process.
LEMMA AppendProcOK ==
  ASSUME DInv, [Next]_vars, NEW p \in Processes, NEW e \in Event, AppendEvent(p, e),
         Agrees(p, e.payload), e.key = "completed" => Woken(p), wakes' = wakes
  PROVE  \A q \in Processes : ProcOK(q)'
<1>1. /\ log \in [Processes -> Seq(Event)] /\ log[p] \in Seq(Event)
      /\ DOMAIN record = Processes
  BY DEF DInv, RegistryOK, RegistryTypeOK
<1>2. ASSUME NEW q \in Processes, q # p PROVE ProcOK(q)'
  <2>1. log'[q] = log[q] /\ record'[q] = record[q]
    BY <1>1, <1>2 DEF AppendEvent
  <2> QED
    BY <2>1, ProcStays
<1>3. ProcOK(p)'
  <2> DEFINE Stands(v) == v = Nobody \/ replay'[ToolKey(p)].result = v
  <2>1. ProcOK(p) /\ \A v : Agrees(p, v) => Stands(v)
    BY AgreesStable DEF DInv, Agrees
  <2>2. \/ record'[p] = record[p]
        \/ record'[p] = [status |-> e.key, output |-> e.payload]
    BY <1>1 DEF AppendEvent
  <2>3. Stands(e.payload) /\ Stands(record[p].output) /\ Stands(wakes[p].pending)
    BY <2>1 DEF ProcOK
  <2>4. Stands(record'[p].output) /\ Stands(wakes'[p].pending)
    BY <2>2, <2>3
  <2>5. record'[p].status = "completed" => Woken(p)'
    BY <2>1, <2>2 DEF ProcOK, Woken
  <2>6. log'[p] = log[p] \/ log'[p] = Append(log[p], e)
    BY <1>1 DEF AppendEvent
  <2>7. ASSUME NEW i \in DOMAIN log'[p] PROVE Stands(log'[p][i].payload)
    <3>1. log'[p][i] = e \/ (i \in DOMAIN log[p] /\ log'[p][i] = log[p][i])
      <4>1. CASE log'[p] = log[p]
        BY <2>7, <4>1
      <4>2. CASE log'[p] = Append(log[p], e)
        <5> DEFINE s == log[p]
        <5>1. s \in Seq(Event) /\ i \in DOMAIN Append(s, e)
          BY <1>1, <2>7, <4>2
        <5> HIDE DEF s
        <5>2. Append(s, e)[i] = e \/ (i \in DOMAIN s /\ Append(s, e)[i] = s[i])
          BY <5>1
        <5> QED
          BY <4>2, <5>2 DEF s
      <4> QED
        BY <2>6, <4>1, <4>2
    <3>2. \A j \in DOMAIN log[p] : Stands(log[p][j].payload)
      BY <2>1 DEF ProcOK
    <3> QED
      BY <2>3, <3>1, <3>2
  <2> QED
    BY <2>4, <2>5, <2>7 DEF ProcOK, Agrees
<1> QED
  BY <1>2, <1>3

\* What the program owes a process by its record and log.
LEMMA ProcsSide ==
  ASSUME DInv, [Next]_vars
  PROVE  \A p \in Processes : ProcOK(p)'
<1>1. ASSUME record' = record, log' = log PROVE \A p \in Processes : ProcOK(p)'
  BY <1>1, ProcStays
<1>2. ASSUME NEW w \in Runners, AppendWake(w) PROVE \A p \in Processes : ProcOK(p)'
  <2> DEFINE e == EventOf("wake", task[w].value)
  <2>1. Proc(w) \in Processes /\ task[w].value \in Values /\ Agrees(Proc(w), task[w].value)
    BY <1>2, AtWork DEF AppendWake, In, TaskOK
  <2>2. e \in Event /\ e.key = "wake" /\ e.payload = task[w].value
    BY <2>1, Events DEF EventOf
  <2>3. AppendEvent(Proc(w), e) /\ wakes' = wakes
    BY <1>2 DEF AppendWake
  <2> HIDE DEF e
  <2> QED
    BY <2>1, <2>2, <2>3, AppendProcOK
<1>3. ASSUME NEW w \in Runners, Complete(w) PROVE \A p \in Processes : ProcOK(p)'
  <2> DEFINE v == IF task[w].end = "completed" THEN task[w].value ELSE Nobody
             e == EventOf(task[w].end, v)
  <2>1. /\ Proc(w) \in Processes /\ Agrees(Proc(w), task[w].value)
        /\ task[w].value \in Values \cup {Nobody} /\ task[w].end \in TerminalKeys
        /\ task[w].end = "completed" => Woken(Proc(w))
    BY <1>3, AtWork DEF Complete, In, TaskOK, Task
  <2>2. e \in Event /\ e.key = task[w].end /\ e.payload = v
    BY <2>1, Events DEF EventOf
  <2>3. AppendEvent(Proc(w), e) /\ wakes' = wakes
    BY <1>3 DEF Complete
  <2>4. Agrees(Proc(w), v)
    BY <2>1 DEF Agrees
  <2> HIDE DEF e, v
  <2> QED
    BY <2>1, <2>2, <2>3, <2>4, AppendProcOK
<1>4. ASSUME NEW p \in Processes, RequestCancel(p) PROVE \A q \in Processes : ProcOK(q)'
  <2> DEFINE e == EventOf("cancel_requested", Nobody)
  <2>1. e \in Event /\ e.key = "cancel_requested" /\ e.payload = Nobody
    BY Events DEF EventOf
  <2>2. AppendEvent(p, e) /\ wakes' = wakes /\ Agrees(p, Nobody)
    BY <1>4 DEF RequestCancel, Agrees
  <2> HIDE DEF e
  <2> QED
    BY <2>1, <2>2, AppendProcOK
<1>5. ASSUME NEW e \in Emitters, NEW p \in Processes, StartDelivery(e, p)
      PROVE  \A q \in Processes : ProcOK(q)'
  <2>1. log' = log /\ \A q \in Processes : /\ record'[q].output = record[q].output
                                           /\ record'[q].status = "completed" =>
                                                record[q].status = "completed"
    BY <1>5 DEF StartDelivery, RegisterProcess, DInv, RegistryOK, RegistryTypeOK
  <2> QED
    BY <2>1, ProcStays
<1>6. ASSUME NEW w \in Runners, Progress(w) \/ Renewals(w) \/ GoesWrong(w)
      PROVE  AppendWake(w) \/ Complete(w) \/ (record' = record /\ log' = log)
  BY <1>6 DEF Progress, Sweep, Drive, Work, Claim, Recheck, CallEffect, EffectStep,
       EffectAnswer, EnqueueWake, SeeCancel, Fence, Release, RenewLost, Renewals, Renew,
       EffectRenews, GoesWrong, RunFails, EffectFails, EnqueueFails, CompleteFails, Crash,
       ClaimLease, RenewLease, CompleteLease, OrphanLease, registryVars
<1>7. ASSUME NEW e \in Emitters, Emits(e) \/ EmitFails(e)
      PROVE  (\E p \in Processes : StartDelivery(e, p)) \/ (record' = record /\ log' = log)
  BY <1>7 DEF Emits, EmitStep, EmitFails, RecordOccurrence, ReserveDeliveries, GrantDelivery,
       GrantHandle, DeliveryFails, EmitterCrash, registryVars
<1>8. CASE Tick \/ (\E p \in Processes : ConsumeWake(p)) \/ UNCHANGED vars
  BY <1>1, <1>8 DEF Tick, RegistryTick, ConsumeWake, vars, registryVars
<1> QED
  BY <1>1, <1>2, <1>3, <1>4, <1>5, <1>6, <1>7, <1>8 DEF Next

-----------------------------------------------------------------------------

\* Hosts, faults, tasks and wakes together.
LEMMA HostSide ==
  ASSUME DInv, [Next]_vars
  PROVE  HostOK'
<1>1. faults \in 0..MaxFaults /\ MaxFaults \in Nat /\ config \in [Runners -> Envelopes]
  BY ProcessAssumption DEF DInv, HostOK
<1>2. Fault \/ UNCHANGED faults
  BY DEF Next, Progress, Sweep, Drive, Work, Claim, Recheck, CallEffect, EffectStep,
       EffectAnswer, AppendWake, EnqueueWake, SeeCancel, Fence, Complete, Release, RenewLost,
       Renewals, Renew, EffectRenews, GoesWrong, RunFails, EffectFails, EnqueueFails,
       CompleteFails, Crash, Emits, EmitFails, RequestCancel, ConsumeWake, Tick, NoFault, vars
<1>3. faults' \in 0..MaxFaults
  BY <1>1, <1>2 DEF Fault
<1>4. (\E w \in Runners, h \in Envelopes : config' = [config EXCEPT ![w] = h])
        \/ UNCHANGED config
  BY DEF Next, Progress, Sweep, Drive, Work, Claim, Recheck, CallEffect, EffectStep,
       EffectAnswer, AppendWake, EnqueueWake, SeeCancel, Fence, Complete, Release, RenewLost,
       Renewals, Renew, EffectRenews, GoesWrong, RunFails, EffectFails, EnqueueFails,
       CompleteFails, Crash, Emits, EmitFails, RequestCancel, ConsumeWake, Tick, vars
<1>5. config' \in [Runners -> Envelopes]
  BY <1>1, <1>4
<1> QED
  BY <1>3, <1>5, TasksSide, WakesSide DEF HostOK, TasksOK

\* One step keeps the invariant, recorded outcomes and terminal states.
LEMMA NextDInv == DInv /\ [Next]_vars => DInv' /\ RecordFixed /\ TerminalFixed
BY EffectSide, RegistrySide, TriggerSide, HostSide, TasksSide, ProcsSide DEF DInv, TasksOK

\* What the invariant gives.
LEMMA DInvImplies ==
  DInv => /\ TypeOK /\ EffectAgreement /\ LostLeaseNotRecorded /\ SleepHonoured
          /\ OneTerminal /\ OneAnswer /\ WakeNotLost
<1> SUFFICES ASSUME DInv
             PROVE  /\ TypeOK /\ EffectAgreement /\ LostLeaseNotRecorded /\ SleepHonoured
                    /\ OneTerminal /\ OneAnswer /\ WakeNotLost
  OBVIOUS
<1>1. EffectTypeOK /\ EffectAgreement /\ LostLeaseNotRecorded /\ SleepHonoured
  BY EInvImplies DEF DInv
<1>2. TypeOK
  BY <1>1 DEF DInv, RegistryOK, TriggerOK, HostOK, TypeOK
<1>3. OneAnswer
  <2> SUFFICES ASSUME NEW p \in Processes,
                      NEW v \in {log[p][i].payload : i \in DOMAIN log[p]}
                                  \cup {wakes[p].pending, record[p].output}
                                  \cup {task[w].value : w \in {d \in Runners : Proc(d) = p}},
                      v # Nobody
               PROVE  replay[ToolKey(p)].result = v
    BY DEF OneAnswer
  <2>1. ASSUME NEW w \in Runners, Proc(w) = p PROVE Agrees(p, task[w].value)
    BY <2>1, AtWork DEF TaskOK
  <2>2. Agrees(p, v)
    BY <2>1 DEF DInv, ProcOK
  <2> QED
    BY <2>2 DEF Agrees
<1>4. WakeNotLost
  BY DEF DInv, ProcOK, WakeNotLost, Woken
<1> QED
  BY <1>1, <1>2, <1>3, <1>4 DEF DInv, RegistryOK

-----------------------------------------------------------------------------
\* Rows, calls, leases, tasks, emitters and wakes stay typed, however the hosts
\* of a deployment interleave, crash and stall (drive_pending_processes and all
\* that it drives).
THEOREM ProcessTypeCorrect == Spec => []TypeOK
BY InitDInv, NextDInv, DInvImplies, PTL DEF Spec

\* The value in the hands of any run of a process, its wake and its result are
\* the one answer recorded for its tool call (finalize_effect, process_event,
\* complete_and_release).
THEOREM ProcessOneAnswer == Spec => []OneAnswer
BY InitDInv, NextDInv, DInvImplies, PTL DEF Spec

\* A completed process has woken its session (append_process_event,
\* enqueue_wake_delivery).
THEOREM ProcessWakes == Spec => []WakeNotLost
BY InitDInv, NextDInv, DInvImplies, PTL DEF Spec

\* A process has one terminal event at most and its record shows it, although
\* complete_process checks no lease.
THEOREM ProcessOneTerminal == Spec => []OneTerminal
BY InitDInv, NextDInv, DInvImplies, PTL DEF Spec

\* Nothing replaces a terminal state (prepare_process_event_append).
THEOREM ProcessTerminalForever == Spec => TerminalForever
BY InitDInv, NextDInv, PTL DEF Spec, TerminalForever

\* The guarantees of the replay table hold for the processes that use it.
THEOREM ProcessEffects ==
  Spec => [](EffectAgreement /\ LostLeaseNotRecorded /\ SleepHonoured) /\ RecordedForever
BY InitDInv, NextDInv, DInvImplies, PTL DEF Spec, RecordedForever
=============================================================================
