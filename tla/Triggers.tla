------------------------------- MODULE Triggers -------------------------------
(***************************************************************************)
(* Trigger delivery (TriggerRouter::emit and start_delivery in             *)
(* crates/lash-core/src/triggers.rs over the trigger store of              *)
(* crates/lash-sqlite-store/src/triggers.rs) of one occurrence, that is of *)
(* one idempotency key.  The process of a delivery has an id that is a     *)
(* hash of occurrence and subscription, so a subscription is named by the  *)
(* process that its delivery starts.                                       *)
(***************************************************************************)
EXTENDS ProcessRegistry

CONSTANTS
  Emitters,   \* calls of emit that can be in flight together
  Requests    \* contents emitters send under the one idempotency key

VARIABLES
  occurrence,  \* the recorded request, or Nobody
  reserved,    \* rows of trigger_deliveries
  emitter      \* emitter[e]: where a call of emit is

triggerVars == <<occurrence, reserved, emitter>>

\* idle -> recorded -> starting (<-> granting) -> ok | err
NoEmit == [pc |-> "idle", todo |-> {}, current |-> Nobody, started |-> {}, failed |-> FALSE]
Emitter == [pc: {"idle", "recorded", "starting", "granting", "ok", "err"},
            todo: SUBSET Processes, current: Processes \cup {Nobody},
            started: SUBSET Processes, failed: BOOLEAN]

TriggerTypeOK ==
  /\ occurrence \in Requests \cup {Nobody}
  /\ reserved \subseteq Processes
  /\ emitter \in [Emitters -> Emitter]

TriggerInit ==
  /\ occurrence = Nobody
  /\ reserved = {}
  /\ emitter = [e \in Emitters |-> NoEmit]

SetEmitter(e, m) == emitter' = [emitter EXCEPT ![e] = m]

-----------------------------------------------------------------------------
\* emit, record_occurrence: the first request of the key is stored, the same
\* one again finds it, another one is refused.
RecordOccurrence(e, q) ==
  /\ emitter[e].pc \in {"idle", "err"}
  /\ IF occurrence \in {Nobody, q}
     THEN occurrence' = q /\ SetEmitter(e, [NoEmit EXCEPT !.pc = "recorded"])
     ELSE UNCHANGED occurrence /\ SetEmitter(e, [NoEmit EXCEPT !.pc = "err"])
  /\ UNCHANGED reserved /\ UNCHANGED registryVars

\* The loop of emit over its reservations: the next one, or the answer, which is
\* an error only if nothing was started and something failed.
Advance(m) ==
  [m EXCEPT !.pc = IF m.todo # {} THEN "starting"
                   ELSE IF m.started = {} /\ m.failed THEN "err" ELSE "ok",
            !.current = Nobody]

\* reserve_matching_deliveries: the caller is given the deliveries that it is
\* the first to reserve.
ReserveDeliveries(e) ==
  /\ emitter[e].pc = "recorded"
  /\ reserved' = Processes
  /\ SetEmitter(e, Advance([emitter[e] EXCEPT !.todo = Processes \ reserved]))
  /\ UNCHANGED occurrence /\ UNCHANGED registryVars

\* start_delivery: register the process, ...
StartDelivery(e, p) ==
  /\ emitter[e].pc = "starting" /\ p \in emitter[e].todo
  /\ RegisterProcess(p)
  /\ SetEmitter(e, [emitter[e] EXCEPT !.pc = "granting", !.current = p,
                                      !.todo = @ \ {p}])
  /\ UNCHANGED <<occurrence, reserved>>

\* ... then grant its handle to the wake-target session.
GrantDelivery(e) ==
  /\ emitter[e].pc = "granting"
  /\ GrantHandle(emitter[e].current)
  /\ SetEmitter(e, Advance([emitter[e] EXCEPT !.started = @ \cup {emitter[e].current}]))
  /\ UNCHANGED <<occurrence, reserved>>

\* One of the two fails: emit goes on with the next delivery.
DeliveryFails(e) ==
  /\ emitter[e].pc \in {"starting", "granting"}
  /\ \E p \in IF emitter[e].pc = "granting" THEN {emitter[e].current} ELSE emitter[e].todo :
       SetEmitter(e, Advance([emitter[e] EXCEPT !.todo = @ \ {p}, !.failed = TRUE]))
  /\ UNCHANGED <<occurrence, reserved>> /\ UNCHANGED registryVars

\* The emitting host dies; its event source emits again, with the same key.
EmitterCrash(e) ==
  /\ emitter[e].pc \in {"recorded", "starting", "granting"}
  /\ SetEmitter(e, NoEmit)
  /\ UNCHANGED <<occurrence, reserved>> /\ UNCHANGED registryVars

EmitStep(e) ==
  \/ \E q \in Requests : RecordOccurrence(e, q)
  \/ ReserveDeliveries(e)
  \/ \E p \in Processes : StartDelivery(e, p)
  \/ GrantDelivery(e)

-----------------------------------------------------------------------------
(* docs/architecture/triggers.html: "Delivery is therefore idempotent /    *)
(* exactly-once and replay-safe".  When emit has answered Ok and no emit   *)
(* is in flight, every delivery reserved for the occurrence was started.   *)
EmitMeansStarted ==
  (\E e \in Emitters : emitter[e].pc = "ok")
    /\ (\A e \in Emitters : emitter[e].pc \in {"idle", "ok"})
  => \A p \in reserved : Known(p)
=============================================================================
