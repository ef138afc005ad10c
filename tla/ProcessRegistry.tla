--------------------------- MODULE ProcessRegistry ---------------------------
(***************************************************************************)
(* The durable process registry of the SQLite store                        *)
(* (crates/lash-sqlite-store/src/process_registry.rs) with the event rules *)
(* it shares with the other stores (prepare_process_event_append in        *)
(* crates/lash-core/src/runtime/process/validation.rs).  Every operation   *)
(* is one transaction.                                                     *)
(*                                                                         *)
(* Events are told apart by their replay key: "wake" is the event the      *)
(* program emits (process:{id}:event:{n}), "cancel_requested" is keyed by  *)
(* its reason, and a terminal event by its type.  Owner ids and lease      *)
(* tokens are new in every recovery, so a lease names the task, and nobody *)
(* once that task is gone.                                                 *)
(***************************************************************************)
EXTENDS ProcessHosts, Sequences

CONSTANTS
  Processes,   \* process ids
  LeaseTtl     \* RUNTIME_TURN_LEASE_TTL_MS, in ticks

ASSUME RegistryAssumption == LeaseTtl \in Nat \ {0}

VARIABLES
  record,    \* record[p]: status and output of the process row
  log,       \* log[p]: its events, in sequence
  lease,     \* lease[p]: its lease row
  granted    \* processes whose handle the wake-target session holds

registryVars == <<record, log, lease, granted>>

TerminalKeys == {"completed", "failed", "cancelled"}
Event == [key: {"wake", "cancel_requested"} \cup TerminalKeys,
          payload: Values \cup {Nobody}]
EventOf(k, v) == [key |-> k, payload |-> v]

NoLease == [holder |-> Nobody, left |-> 0]

RegistryTypeOK ==
  /\ record \in [Processes -> [status: {"absent", "running"} \cup TerminalKeys,
                               output: Values \cup {Nobody}]]
  /\ log \in [Processes -> Seq(Event)]
  /\ lease \in [Processes -> [holder: Runners \cup {Nobody}, left: 0..LeaseTtl]]
  /\ granted \subseteq Processes

RegistryInit ==
  /\ record = [p \in Processes |-> [status |-> "absent", output |-> Nobody]]
  /\ log = [p \in Processes |-> <<>>]
  /\ lease = [p \in Processes |-> NoLease]
  /\ granted = {}

Known(p) == record[p].status # "absent"
IsTerminal(p) == record[p].status \in TerminalKeys
Logged(p, k) == \E i \in DOMAIN log[p] : log[p][i].key = k

-----------------------------------------------------------------------------
\* register_process: a second registration returns the row of the first.
RegisterProcess(p) ==
  /\ record' = IF Known(p) THEN record ELSE [record EXCEPT ![p].status = "running"]
  /\ UNCHANGED <<log, lease, granted>>

\* grant_handle.
GrantHandle(p) ==
  /\ granted' = granted \cup {p}
  /\ UNCHANGED <<record, log, lease>>

\* prepare_process_event_append: the same request again is a replay, ...
Replays(p, e) == \E i \in DOMAIN log[p] : log[p][i] = e

\* Mutant: a terminal event is accepted on a terminal record.
RefusedUnlessRunning(p, e) ==
  \/ ~Known(p)
  \/ ~Replays(p, e) /\ Logged(p, e.key)

\* ... a replay key used for something else, and a second terminal state, are
\* refused.  Other events are accepted whatever the status.
Refused(p, e) ==
  \/ ~Known(p)
  \/ ~Replays(p, e) /\ \/ Logged(p, e.key)
                       \/ e.key \in TerminalKeys /\ IsTerminal(p)

\* append_event: insert the event and project a terminal one on the record; a
\* replay repairs the record if the projection was lost.
AppendEvent(p, e) ==
  /\ log' = IF Refused(p, e) \/ Replays(p, e) THEN log
            ELSE [log EXCEPT ![p] = Append(@, e)]
  /\ record' = IF ~Refused(p, e) /\ e.key \in TerminalKeys
                  /\ (Replays(p, e) => ~IsTerminal(p))
               THEN [record EXCEPT ![p] = [status |-> e.key, output |-> e.payload]]
               ELSE record
  /\ UNCHANGED <<lease, granted>>

-----------------------------------------------------------------------------
\* claim_process_lease succeeds unless the lease is live; owner ids are new, so
\* a live lease is always somebody else's.  A terminal process can be claimed.
MayClaim(p) == Known(p) /\ lease[p].left = 0

ClaimLease(p, w) ==
  /\ MayClaim(p)
  /\ lease' = [lease EXCEPT ![p] = [holder |-> w, left |-> LeaseTtl]]
  /\ UNCHANGED <<record, log, granted>>

\* guard_lease, of renew_process_lease.
GuardLease(p, w) == lease[p].holder = w /\ lease[p].left > 0

RenewLease(p, w) ==
  /\ GuardLease(p, w)
  /\ lease' = [lease EXCEPT ![p].left = LeaseTtl]
  /\ UNCHANGED <<record, log, granted>>

\* complete_process_lease: clears the row if it still has the caller's token.
CompleteLease(p, w) ==
  /\ lease' = IF lease[p].holder = w THEN [lease EXCEPT ![p] = NoLease] ELSE lease
  /\ UNCHANGED <<record, log, granted>>

\* The task with the lease's token is gone; the lease runs out by itself.
OrphanLease(w) ==
  /\ lease' = [p \in Processes |-> IF lease[p].holder = w
                                   THEN [lease[p] EXCEPT !.holder = Nobody]
                                   ELSE lease[p]]
  /\ UNCHANGED <<record, log, granted>>

RegistryTick ==
  /\ lease' = [p \in Processes |-> [lease[p] EXCEPT !.left = Countdown(@)]]
  /\ UNCHANGED <<record, log, granted>>

-----------------------------------------------------------------------------
(* A process has one terminal event at most, it is the one the record shows *)
(* to whoever awaits the process, and no replay key occurs twice.           *)
OneTerminal ==
  \A p \in Processes :
    /\ \A i, j \in DOMAIN log[p] :
         \/ i = j
         \/ /\ log[p][i].key # log[p][j].key
            /\ ~{log[p][i].key, log[p][j].key} \subseteq TerminalKeys
    /\ IsTerminal(p) <=> \E i \in DOMAIN log[p] : log[p][i].key \in TerminalKeys
    /\ \A i \in DOMAIN log[p] : log[p][i].key \in TerminalKeys =>
         log[p][i] = EventOf(record[p].status, record[p].output)

(* A terminal state is final: what await_process answered once it answers *)
(* forever, whichever worker comes late with another outcome.             *)
TerminalFixed ==
  \A p \in Processes : IsTerminal(p) => record'[p] = record[p]

TerminalForever == [][TerminalFixed]_record
=============================================================================
