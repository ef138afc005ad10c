----------------------------- MODULE FencedLane -----------------------------
(***************************************************************************)
(* What the session execution lease promises its users, without clocks,    *)
(* guards or crashes: tenures of the lane are numbered, a session is       *)
(* written only in the newest tenure, and never while the lane is vacant.  *)
(***************************************************************************)
EXTENDS Integers

CONSTANTS Owners, NoOwner

VARIABLES
  epoch,      \* number of the newest tenure granted so far
  holder,     \* who was granted it, or NoOwner once it was given back
  written     \* tenure of the newest accepted write

laneVars == <<epoch, holder, written>>

LaneInit == epoch = 0 /\ holder = NoOwner /\ written = 0

Grant(o) ==
  /\ epoch' = epoch + 1
  /\ holder' = o
  /\ UNCHANGED written

GiveBack ==
  /\ holder # NoOwner
  /\ holder' = NoOwner
  /\ UNCHANGED <<epoch, written>>

\* A write, which may give the lane back in the same step.
Write ==
  /\ holder # NoOwner
  /\ written' = epoch
  /\ holder' \in {holder, NoOwner}
  /\ UNCHANGED epoch

LaneNext == (\E o \in Owners : Grant(o)) \/ GiveBack \/ Write

LaneSpec == LaneInit /\ [][LaneNext]_laneVars
=============================================================================
