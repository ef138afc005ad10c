----------------------------- MODULE QueuedWork -----------------------------
(***************************************************************************)
(* The claim columns that queued-work batches and pending turn inputs      *)
(* carry in a session store, and the dialect-independent choice of what    *)
(* one claim takes (crates/lash-core/src/store/queued_work.rs).            *)
(*                                                                         *)
(* A claim id is the pair (head row, fencing token of that row), and the   *)
(* lease token is a digest of owner, claim id and time.  The fencing token *)
(* of a row only grows, so a claim id is never given out twice and stands  *)
(* for the lease token as well.                                            *)
(***************************************************************************)
EXTENDS LeaseRow, Sequences

CONSTANTS
  ClaimTTL,   \* QUEUED_WORK_CLAIM_TTL_MS = TURN_INPUT_CLAIM_TTL_MS, in ticks
  NoClaim     \* claim_id IS NULL

ASSUME ClaimAssumption == ClaimTTL \in Nat \ {0}

-----------------------------------------------------------------------------
(* What a batch looks like to the selection. *)

Classes == {"session_command", "turn_work"}
DeliveryPolicies == {"earliest_safe_boundary", "after_current_turn_commit"}
SlotPolicies == {"join", "exclusive"}
Boundaries == {"idle", "active_turn_checkpoint"}

Kinds(mergeKeys) ==
  [class: Classes, delivery: DeliveryPolicies, slot: SlotPolicies, key: mergeKeys]

\* select_leading_session_command: one command at a time, and only at the head.
SelectCommand(cands) ==
  IF cands # <<>> /\ Head(cands).class = "session_command" THEN 1 ELSE 0

\* Mutants: the class of a follower is forgotten; the delivery policy of the
\* head is checked at every boundary.
JoinsAnyClass(c, first) ==
  c.slot = "join" /\ c.delivery = first.delivery /\ c.key = first.key
AdmitsEarliestOnly(c, boundary) ==
  c.class = "turn_work" /\ c.delivery = "earliest_safe_boundary"

\* May candidate c ride along with the head of its claim?
Joins(c, first) ==
  /\ c.class = "turn_work"
  /\ c.slot = "join"
  /\ c.delivery = first.delivery
  /\ c.key = first.key

\* May a claim at this boundary start with candidate c?
Admits(c, boundary) ==
  /\ c.class = "turn_work"
  /\ boundary = "active_turn_checkpoint" => c.delivery = "earliest_safe_boundary"

\* Mutant: the loop stops one candidate before the limit.
JoinRunShort(cands, max) ==
  LET run[n \in Nat] ==
        IF n + 1 < max /\ n < Len(cands) /\ Joins(cands[n + 1], cands[1])
        THEN run[n + 1] ELSE n
  IN  run[1]

\* The loop over the candidates behind a `join' head: it stops at the limit or
\* at the first candidate that does not join.
JoinRun(cands, max) ==
  LET run[n \in Nat] ==
        IF n < max /\ n < Len(cands) /\ Joins(cands[n + 1], cands[1])
        THEN run[n + 1] ELSE n
  IN  run[1]

\* select_turn_work_claim_prefix.
SelectTurnWork(cands, boundary, max) ==
  IF max = 0 \/ cands = <<>> THEN 0
  ELSE IF ~Admits(cands[1], boundary) THEN 0
  ELSE IF cands[1].slot # "join" THEN 1
  ELSE JoinRun(cands, max)

-----------------------------------------------------------------------------
(* The claim columns of a row. *)

Unclaimed == [by |-> NoOwner, id |-> NoClaim, tok |-> 0, left |-> 0]

HeldLive(c) == c.by # NoOwner /\ c.left > 0

\* claim_available: never claimed, expired, or held by a dead neighbour.
Available(c, o, alive) ==
  \/ ~HeldLive(c)
  \/ DefinitelyDead(c.by, o, alive)

\* Mutant: the new claim adds to what the expired one had left.
StampFromExpiry(c, o, id) == [by |-> o, id |-> id, tok |-> c.tok + 1, left |-> c.left + ClaimTTL]

\* QueuedWorkClaimLease::derive and the stamp on every claimed row.
StampClaim(c, o, id) == [by |-> o, id |-> id, tok |-> c.tok + 1, left |-> ClaimTTL]

\* Abandoning a claim, or deferring an input, clears it but keeps the token.
ClearClaim(c) == [c EXCEPT !.by = NoOwner, !.id = NoClaim, !.left = 0]

\* A completion or an abandon names the row by claim id and lease token.
Owns(c, id) == c.by # NoOwner /\ c.id = id
=============================================================================
