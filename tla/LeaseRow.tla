------------------------------ MODULE LeaseRow ------------------------------
(***************************************************************************)
(* The durable session-execution-lease row and the operations a store      *)
(* performs on it in one transaction (crates/lash-core/src/store/mod.rs,   *)
(* runtime/in_memory_store.rs; the SQLite and Postgres adapters implement  *)
(* the same transitions as single statements in one transaction).          *)
(*                                                                         *)
(* An owner is one incarnation of a runtime: a restarted process is a new  *)
(* owner.  The lease token a store generates embeds the fencing token, so  *)
(* comparing tokens is comparing fencing tokens and the row keeps only the *)
(* latter.  Time is relative: `left' is expires_at - now, counted down by  *)
(* the clock and stopping at 0, where the code's test `expires_at > now'   *)
(* becomes false.                                                          *)
(***************************************************************************)
EXTENDS Integers

CONSTANTS
  Owners,    \* the runtime incarnations that may ask for the lease
  NoOwner,   \* Option::None in the owner column
  Host,      \* Host[o]: host id and boot id of o, or Opaque
  Opaque,    \* LeaseOwnerLiveness::Opaque: nobody can probe this owner
  TTL        \* RUNTIME_TURN_LEASE_TTL_MS, in clock ticks

ASSUME LeaseAssumption ==
  /\ NoOwner \notin Owners
  /\ DOMAIN Host = Owners
  /\ TTL \in Nat \ {0}

Row == [owner: Owners \cup {NoOwner}, fence: Nat, left: 0..TTL]

\* or_default(): a session nobody has claimed yet.
EmptyRow == [owner |-> NoOwner, fence |-> 0, left |-> 0]

\* Mutant: an expired row still counts as held.
IsLiveWhileOwned(r) == r.owner # NoOwner

IsLive(r) == r.owner # NoOwner /\ r.left > 0

\* The three comparisons every fenced operation makes, expiry excluded.
Matches(r, o, f) == r.owner = o /\ r.fence = f

\* verify_session_execution_lease: the fence is current and unexpired.
Verify(r, o, f) == Matches(r, o, f) /\ r.left > 0

\* is_definitely_dead_for_claimant: only a process of the same host and boot
\* can be probed, and an opaque owner never.
DefinitelyDead(h, claimant, alive) ==
  /\ Host[h] # Opaque
  /\ Host[h] = Host[claimant]
  /\ h \notin alive

\* acquire_session_execution_lease_in_memory: every new tenure takes the next
\* fencing token.
Acquire(r, o) == [owner |-> o, fence |-> r.fence + 1, left |-> TTL]

\* Mutant: a renewal adds to the old expiry instead of starting from now.
ExtendFromExpiry(r) == [r EXCEPT !.left = @ + TTL]

\* Renewal, and re-entry of the same incarnation, only move the expiry.
Extend(r) == [r EXCEPT !.left = TTL]

\* Mutants: the release forgets the comparison; the release deletes the row.
ReleaseUnfenced(r, o, f) == [r EXCEPT !.owner = NoOwner, !.left = 0]
ReleaseDeletesRow(r, o, f) == IF Matches(r, o, f) THEN EmptyRow ELSE r

\* release_session_execution_lease_in_memory: compare and clear; the fencing
\* token stays so that the next tenure still gets a larger one.
Release(r, o, f) ==
  IF Matches(r, o, f) THEN [r EXCEPT !.owner = NoOwner, !.left = 0] ELSE r

Countdown(n) == IF n > 0 THEN n - 1 ELSE 0
=============================================================================
