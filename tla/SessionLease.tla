---------------------------- MODULE SessionLease ----------------------------
(***************************************************************************)
(* The session execution lease of one session: the durable row and the     *)
(* SessionExecutionLeaseGuard each runtime keeps in memory                 *)
(* (crates/lash-core/src/runtime/session_execution_lease.rs).              *)
(*                                                                         *)
(* A runtime has two places where it opens a guard: "turn", held from the  *)
(* start of a turn to its final commit, and "fresh", opened by             *)
(* commit_runtime_state_with_fresh_session_execution_lease around a single *)
(* commit.  A plugin that appends session nodes from a hook of a running   *)
(* turn opens the second while the first is held (PluginAppends).          *)
(***************************************************************************)
EXTENDS LeaseRow

CONSTANTS
  MaxFence,      \* bound: number of tenures
  PluginAppends  \* do turn hooks call append_session_nodes?

ASSUME BoundAssumption == MaxFence \in Nat /\ PluginAppends \in BOOLEAN

VARIABLES
  row,      \* the durable lease row
  guard,    \* guard[o][s]: the guard runtime o holds in place s
  observed, \* observed[o][s]: fence of the dead holder o is about to replace
  alive,    \* incarnations that have not crashed
  written   \* fencing token of the newest accepted commit

vars == <<row, guard, observed, alive, written>>

Slots == {"turn", "fresh"}

\* open -> (lost | committed) -> none.  `left' is what the guard's own copy of
\* expires_at has left on the clock.
NoGuard == [st |-> "none", fence |-> 0, left |-> 0]
Guard == [st: {"none", "open", "lost", "committed"}, fence: Nat, left: 0..TTL]
OpenGuard(r) == [st |-> "open", fence |-> r.fence, left |-> TTL]

NoneObserved == [owner |-> NoOwner, fence |-> 0]

TypeOK ==
  /\ row \in Row
  /\ guard \in [Owners -> [Slots -> Guard]]
  /\ observed \in [Owners -> [Slots -> [owner: Owners \cup {NoOwner}, fence: Nat]]]
  /\ alive \subseteq Owners
  /\ written \in Nat

Init ==
  /\ row = EmptyRow
  /\ guard = [o \in Owners |-> [s \in Slots |-> NoGuard]]
  /\ observed = [o \in Owners |-> [s \in Slots |-> NoneObserved]]
  /\ alive = Owners
  /\ written = 0

SetGuard(o, s, g) == guard' = [guard EXCEPT ![o][s] = g]
SetObserved(o, s, ob) == observed' = [observed EXCEPT ![o][s] = ob]

Idle(o, s) == guard[o][s].st = "none" /\ observed[o][s] = NoneObserved

\* May runtime o run a step of place s?  A turn holds the runtime exclusively,
\* and waits for a hook that is committing on its own; such a hook exists only
\* while PluginAppends.
MayRun(o, s) ==
  /\ o \in alive
  /\ s = "turn" => Idle(o, "fresh")
  /\ s = "fresh" => \/ Idle(o, "turn")
                    \/ PluginAppends /\ guard[o]["turn"].st \in {"open", "lost"}

-----------------------------------------------------------------------------
\* try_claim_session_execution_lease on a row nobody holds, or that expired.
TryClaim(o, s) ==
  /\ MayRun(o, s) /\ Idle(o, s)
  /\ ~IsLive(row) /\ row.fence < MaxFence
  /\ row' = Acquire(row, o)
  /\ SetGuard(o, s, OpenGuard(row'))
  /\ UNCHANGED <<observed, alive, written>>

\* ... by the incarnation that already holds it: same tenure, new expiry.
Reenter(o, s) ==
  /\ MayRun(o, s) /\ Idle(o, s)
  /\ IsLive(row) /\ row.owner = o
  /\ row' = Extend(row)
  /\ SetGuard(o, s, OpenGuard(row'))
  /\ UNCHANGED <<observed, alive, written>>

\* ... answered Busy with a holder that this host can see is dead: the guard
\* goes on to reclaim.  (Busy with any other holder changes nothing.)
SeeDeadHolder(o, s) ==
  /\ MayRun(o, s) /\ Idle(o, s)
  /\ IsLive(row) /\ row.owner # o
  /\ DefinitelyDead(row.owner, o, alive)
  /\ SetObserved(o, s, [owner |-> row.owner, fence |-> row.fence])
  /\ UNCHANGED <<row, guard, alive, written>>

\* Mutant: trust the observation and skip the compare with the row.
MayReclaimAnybody(o, s) ==
  \/ ~IsLive(row)
  \/ DefinitelyDead(observed[o][s].owner, o, alive)

\* reclaim_session_execution_lease: by now the row may have expired, may still
\* be the observed one, or may belong to somebody else.
MayReclaim(o, s) ==
  \/ ~IsLive(row)
  \/ /\ Matches(row, observed[o][s].owner, observed[o][s].fence)
     /\ DefinitelyDead(row.owner, o, alive)

Reclaim(o, s) ==
  /\ MayRun(o, s) /\ observed[o][s] # NoneObserved
  /\ SetObserved(o, s, NoneObserved)
  /\ IF MayReclaim(o, s) /\ row.fence < MaxFence
     THEN /\ row' = Acquire(row, o)
          /\ SetGuard(o, s, OpenGuard(row'))
     ELSE UNCHANGED <<row, guard>>
  /\ UNCHANGED <<alive, written>>

\* renew_session_execution_lease, called by the renewal task on its own and by
\* refresh_or_mark_lost before a commit.  Any error marks the guard lost, a store
\* that cannot be reached included.  The task outlives the commit that releases
\* the row until mark_released stops it.
Renew(o, s) ==
  /\ o \in alive
  /\ guard[o][s].st \in {"open", "committed"}
  /\ \/ /\ Verify(row, o, guard[o][s].fence)
        /\ row' = Extend(row)
        /\ SetGuard(o, s, [guard[o][s] EXCEPT !.left = TTL])
     \/ /\ SetGuard(o, s, [guard[o][s] EXCEPT !.st = "lost"])
        /\ UNCHANGED row
  /\ UNCHANGED <<observed, alive, written>>

\* A commit of the turn that keeps the lease (progress boundary, session
\* command, agent-frame switch).
CommitKeep(o) ==
  /\ MayRun(o, "turn")
  /\ guard[o]["turn"].st \in {"open", "lost"}
  /\ Verify(row, o, guard[o]["turn"].fence)
  /\ written' = guard[o]["turn"].fence
  /\ UNCHANGED <<row, guard, observed, alive>>

\* A commit that releases the lease in the same transaction.
CommitRelease(o, s) ==
  /\ MayRun(o, s)
  /\ guard[o][s].st \in {"open", "lost"}
  /\ Verify(row, o, guard[o][s].fence)
  /\ written' = guard[o][s].fence
  /\ row' = Release(row, o, guard[o][s].fence)
  /\ SetGuard(o, s, [guard[o][s] EXCEPT !.st = "committed"])
  /\ UNCHANGED <<observed, alive>>

\* mark_released after such a commit; also the end of a guard dropped without
\* release, which is how store errors leave it.
DropGuard(o, s) ==
  /\ MayRun(o, s)
  /\ guard[o][s].st # "none"
  /\ SetGuard(o, s, NoGuard)
  /\ UNCHANGED <<row, observed, alive, written>>

\* release_if_live: a lost guard sends nothing to the store.
ReleaseIfLive(o, s) ==
  /\ MayRun(o, s)
  /\ guard[o][s].st = "open"
  /\ row' = Release(row, o, guard[o][s].fence)
  /\ SetGuard(o, s, NoGuard)
  /\ UNCHANGED <<observed, alive, written>>

\* The process dies: its guards go, the row stays.
Crash(o) ==
  /\ o \in alive
  /\ alive' = alive \ {o}
  /\ guard' = [guard EXCEPT ![o] = [s \in Slots |-> NoGuard]]
  /\ observed' = [observed EXCEPT ![o] = [s \in Slots |-> NoneObserved]]
  /\ UNCHANGED <<row, written>>

Tick ==
  /\ row.left > 0 \/ \E o \in Owners, s \in Slots : guard[o][s].left > 0
  /\ row' = [row EXCEPT !.left = Countdown(@)]
  /\ guard' = [o \in Owners |-> [s \in Slots |->
                 [guard[o][s] EXCEPT !.left = Countdown(@)]]]
  /\ UNCHANGED <<observed, alive, written>>

SlotStep(o, s) ==
  \/ TryClaim(o, s) \/ Reenter(o, s) \/ SeeDeadHolder(o, s) \/ Reclaim(o, s)
  \/ Renew(o, s) \/ CommitRelease(o, s) \/ DropGuard(o, s) \/ ReleaseIfLive(o, s)

OwnerStep(o) == (\E s \in Slots : SlotStep(o, s)) \/ CommitKeep(o) \/ Crash(o)

Next == (\E o \in Owners : OwnerStep(o)) \/ Tick

Spec == Init /\ [][Next]_vars

\* Time passes; an operation that a live runtime began goes on to its end; and a
\* runtime that wants the session keeps asking for it (the queued-work drivers
\* poll, a host retries a busy session).
Fairness ==
  /\ WF_vars(Tick)
  /\ \A o \in Owners :
       /\ WF_vars(TryClaim(o, "turn"))
       /\ \A s \in Slots : WF_vars(Reclaim(o, s)) /\ WF_vars(DropGuard(o, s))

FairSpec == Spec /\ Fairness

-----------------------------------------------------------------------------
(* Properties *)

\* A guard that is open and, by its own copy of the expiry, still has time.
Holding(o, s) == guard[o][s].st = "open" /\ guard[o][s].left > 0

\* The lane is exclusive (docs/architecture/scaling.html: "exactly one runtime
\* owner execute mutating work for a session at a time"): while a runtime holds
\* an unexpired guard, no other runtime does.  Crashes, the two-step reclaim of
\* a dead holder, expiry and renewal all have to cooperate for this to hold.
LaneExclusive ==
  \A o1, o2 \in Owners, s1, s2 \in Slots :
    Holding(o1, s1) /\ Holding(o2, s2) => o1 = o2

\* An unexpired lease of a runtime that is still running is taken from it by
\* nobody: a reclaim ends only the tenure of a holder that really crashed, even
\* when the holder was observed in an earlier step.
NeverStolenFromLiving ==
  [][IsLive(row) /\ row.owner \in alive => row'.owner \in {row.owner, NoOwner}]_vars

\* The guards, the row and the clock implement the numbered lane of FencedLane:
\* every accepted commit belongs to the newest tenure, whatever stale guards,
\* late renewals and retried releases do in between.
Lane == INSTANCE FencedLane WITH epoch <- row.fence, holder <- row.owner
LaneRefinement == Lane!LaneSpec

\* A crashed holder does not block the session: its tenure ends, by reclaim on
\* the same host or else by expiry, and a runtime that is still running takes
\* over (unless the bound on tenures is reached or nobody is left).
DeadHolderReplaced ==
  (row.owner \in Owners \ alive) ~>
     (row.owner \in alive \/ alive = {} \/ row.fence = MaxFence)

\* Nor does a runtime that goes on running but dropped its guard without a
\* release, as settle_session_execution_lease does when the commit failed: the
\* row runs out and somebody opens the session again, that runtime or another.
DroppedLeaseReplaced ==
  (IsLive(row) /\ \A s \in Slots : guard[row.owner][s].st = "none") ~>
     \/ \E o \in Owners, s \in Slots : guard[o][s].st # "none"
     \/ alive = {} \/ row.fence = MaxFence
=============================================================================
