------------------------- MODULE SessionLeaseProofs -------------------------
(***************************************************************************)
(* The session execution lease for any set of runtimes, any placement on   *)
(* hosts, any TTL and any number of tenures.                               *)
(***************************************************************************)
EXTENDS SessionLease, TLAPS

\* A guard that still has time is backed by the row, which expires no earlier.
GuardBacked ==
  \A o \in Owners, s \in Slots :
    Holding(o, s) => /\ Matches(row, o, guard[o][s].fence)
                     /\ guard[o][s].left <= row.left

\* A crashed runtime has no guard left.
DeadDropped == \A o \in Owners \ alive, s \in Slots : guard[o][s] = NoGuard

LeaseInv == TypeOK /\ GuardBacked /\ DeadDropped

-----------------------------------------------------------------------------
\* Countdown stays within the range of the timers and never exceeds its input.
LEMMA CountdownRange ==
  ASSUME NEW n \in 0..TTL
  PROVE  Countdown(n) \in 0..TTL /\ Countdown(n) <= n
  BY LeaseAssumption DEF Countdown

\* Countdown keeps the order of two timers and reaches zero only from above.
LEMMA CountdownOrder ==
  ASSUME NEW m \in 0..TTL, NEW n \in 0..TTL, m <= n
  PROVE  Countdown(m) <= Countdown(n) /\ (Countdown(m) > 0 => m > 0)
  BY LeaseAssumption DEF Countdown

\* The row operations stay within the type of rows.
LEMMA RowOperations ==
  ASSUME NEW r \in Row, NEW o \in Owners, NEW f \in Nat
  PROVE  /\ Acquire(r, o) \in Row
         /\ Extend(r) \in Row
         /\ Release(r, o, f) \in Row
<1>1. TTL \in 0..TTL /\ 0 \in 0..TTL
  BY LeaseAssumption
<1>2. r.fence + 1 \in Nat
  BY DEF Row
<1>3. Acquire(r, o) \in Row
  BY <1>1, <1>2 DEF Row, Acquire
<1>4. Extend(r) \in Row
  BY <1>1 DEF Row, Extend
<1>5. Release(r, o, f) \in Row
  BY <1>1 DEF Row, Release
<1> QED
  BY <1>3, <1>4, <1>5

\* Type correctness of the lease row, the guards and the observations, for every
\* instance: the store never writes a row outside the schema, and a guard's
\* copied timer never exceeds the TTL.
THEOREM LeaseTypeCorrect == Spec => []TypeOK
<1>1. Init => TypeOK
  BY LeaseAssumption
     DEF Init, TypeOK, EmptyRow, Row, NoGuard, Guard, NoneObserved, Slots
<1>2. TypeOK /\ [Next]_vars => TypeOK'
  <2> SUFFICES ASSUME TypeOK, [Next]_vars PROVE TypeOK'
    OBVIOUS
  <2> USE DEF TypeOK, SetGuard, SetObserved
  <2>0. ASSUME NEW o \in Owners, NEW s \in Slots
        PROVE  /\ guard[o][s] \in Guard
               /\ guard[o][s].fence \in Nat
               /\ row.fence \in Nat /\ row.left \in 0..TTL
               /\ row.owner \in Owners \cup {NoOwner}
    BY DEF Guard, Row
  <2>1. ASSUME NEW r \in Row PROVE OpenGuard(r) \in Guard
    BY LeaseAssumption DEF OpenGuard, Guard, Row
  <2>2. NoGuard \in Guard
    BY LeaseAssumption DEF NoGuard, Guard
  <2>3. ASSUME NEW o \in Owners, NEW s \in Slots, TryClaim(o, s) PROVE TypeOK'
    BY <2>3, <2>0, <2>1, RowOperations DEF TryClaim
  <2>4. ASSUME NEW o \in Owners, NEW s \in Slots, Reenter(o, s) PROVE TypeOK'
    BY <2>4, <2>0, <2>1, RowOperations DEF Reenter
  <2>5. ASSUME NEW o \in Owners, NEW s \in Slots, SeeDeadHolder(o, s) PROVE TypeOK'
    BY <2>5, <2>0 DEF SeeDeadHolder
  <2>6. ASSUME NEW o \in Owners, NEW s \in Slots, Reclaim(o, s) PROVE TypeOK'
    <3>1. NoneObserved \in [owner: Owners \cup {NoOwner}, fence: Nat]
      BY DEF NoneObserved
    <3>2. CASE row' = Acquire(row, o) /\ guard' = [guard EXCEPT ![o][s] = OpenGuard(row')]
      BY <2>6, <3>1, <3>2, <2>0, <2>1, RowOperations DEF Reclaim
    <3>3. CASE UNCHANGED <<row, guard>>
      BY <2>6, <3>1, <3>3 DEF Reclaim
    <3> QED
      BY <2>6, <3>2, <3>3 DEF Reclaim
  <2>7. ASSUME NEW o \in Owners, NEW s \in Slots, Renew(o, s) PROVE TypeOK'
    <3>1. TTL \in 0..TTL
      BY LeaseAssumption
    <3>2. CASE row' = Extend(row) /\ SetGuard(o, s, [guard[o][s] EXCEPT !.left = TTL])
      <4>1. [guard[o][s] EXCEPT !.left = TTL] \in Guard
        BY <2>0, <3>1 DEF Guard
      <4>2. /\ row' = Extend(row) /\ UNCHANGED <<observed, alive, written>>
            /\ guard' = [guard EXCEPT ![o][s] = [guard[o][s] EXCEPT !.left = TTL]]
        BY <2>7, <3>2 DEF Renew
      <4>3. guard' \in [Owners -> [Slots -> Guard]]
        BY <4>1, <4>2
      <4>4. row' \in Row
        BY <4>2, <2>0, RowOperations
      <4> QED
        BY <4>2, <4>3, <4>4
    <3>3. CASE UNCHANGED row /\ SetGuard(o, s, [guard[o][s] EXCEPT !.st = "lost"])
      <4>1. [guard[o][s] EXCEPT !.st = "lost"] \in Guard
        BY <2>0 DEF Guard
      <4>2. /\ UNCHANGED <<row, observed, alive, written>>
            /\ guard' = [guard EXCEPT ![o][s] = [guard[o][s] EXCEPT !.st = "lost"]]
        BY <2>7, <3>3 DEF Renew
      <4>3. guard' \in [Owners -> [Slots -> Guard]]
        BY <4>1, <4>2
      <4> QED
        BY <4>2, <4>3
    <3> QED
      BY <2>7, <3>2, <3>3 DEF Renew
  <2>8. ASSUME NEW o \in Owners, NEW s \in Slots, CommitRelease(o, s) PROVE TypeOK'
    <3>1. [guard[o][s] EXCEPT !.st = "committed"] \in Guard
      BY <2>0 DEF Guard
    <3> QED
      BY <2>8, <2>0, <3>1, RowOperations DEF CommitRelease
  <2>9. ASSUME NEW o \in Owners, NEW s \in Slots, DropGuard(o, s) PROVE TypeOK'
    BY <2>9, <2>2 DEF DropGuard
  <2>10. ASSUME NEW o \in Owners, NEW s \in Slots, ReleaseIfLive(o, s) PROVE TypeOK'
    BY <2>10, <2>0, <2>2, RowOperations DEF ReleaseIfLive
  <2>11. ASSUME NEW o \in Owners, CommitKeep(o) PROVE TypeOK'
    BY <2>11, <2>0 DEF CommitKeep, Slots
  <2>12. ASSUME NEW o \in Owners, Crash(o) PROVE TypeOK'
    <3>1. NoneObserved \in [owner: Owners \cup {NoOwner}, fence: Nat]
      BY DEF NoneObserved
    <3> QED
      BY <2>12, <2>2, <3>1 DEF Crash
  <2>13. ASSUME Tick PROVE TypeOK'
    <3>1. ASSUME NEW g \in Guard PROVE [g EXCEPT !.left = Countdown(@)] \in Guard
      BY CountdownRange DEF Guard
    <3>2. guard' \in [Owners -> [Slots -> Guard]]
      BY <2>13, <2>0, <3>1 DEF Tick
    <3>3. row' \in Row
      BY <2>13, CountdownRange DEF Tick, Row
    <3> QED
      BY <2>13, <3>2, <3>3 DEF Tick
  <2>14. CASE UNCHANGED vars
    BY <2>14 DEF vars
  <2> QED
    BY <2>3, <2>4, <2>5, <2>6, <2>7, <2>8, <2>9, <2>10, <2>11, <2>12, <2>13, <2>14
       DEF Next, OwnerStep, SlotStep
<1> QED
  BY <1>1, <1>2, PTL DEF Spec

-----------------------------------------------------------------------------
\* A runtime that is not alive, or whose guard is not open, holds nothing.
LEMMA HoldingIsOpen ==
  ASSUME TypeOK, DeadDropped, NEW o \in Owners, NEW s \in Slots, Holding(o, s)
  PROVE  o \in alive /\ guard[o][s].st = "open" /\ guard[o][s].left > 0
  BY DEF TypeOK, DeadDropped, Holding, NoGuard

\* While anybody holds, the row is live and belongs to the holder.
LEMMA HeldRowIsLive ==
  ASSUME LeaseInv, NEW o \in Owners, NEW s \in Slots, Holding(o, s)
  PROVE  IsLive(row) /\ row.owner = o /\ row.fence = guard[o][s].fence
  BY LeaseAssumption DEF LeaseInv, TypeOK, GuardBacked, Holding, IsLive, Matches, Row, Guard

\* The inductive step: without hooks that commit on their own, every step of the
\* store, the guards, the clock and the crashes keeps each unexpired guard backed
\* by the row.
LEMMA LeaseInvStep ==
  ASSUME PluginAppends = FALSE, LeaseInv, [Next]_vars, TypeOK'
  PROVE  (GuardBacked /\ DeadDropped)'
<1> USE DEF SetGuard, SetObserved
<1>0. /\ TypeOK /\ GuardBacked /\ DeadDropped
      /\ row \in Row /\ guard \in [Owners -> [Slots -> Guard]]
      /\ row.left \in 0..TTL /\ row.fence \in Nat
  BY DEF LeaseInv, TypeOK, Row
<1>1. ASSUME NEW o \in Owners, NEW s \in Slots
      PROVE  guard[o][s] \in Guard /\ guard[o][s].left \in 0..TTL
  BY <1>0 DEF Guard
<1>2. ASSUME NEW o \in Owners, NEW s \in Slots, MayRun(o, s)
      PROVE  \A s2 \in Slots : s2 # s => guard[o][s2].st = "none"
  BY <1>2 DEF MayRun, Idle, Slots, LeaseInv
<1>3. ASSUME NEW o \in Owners, NEW s \in Slots, SlotStep(o, s)
      PROVE  DeadDropped'
  <2>1. o \in alive /\ alive' = alive
    BY <1>3 DEF SlotStep, TryClaim, Reenter, SeeDeadHolder, Reclaim, Renew,
                CommitRelease, DropGuard, ReleaseIfLive, MayRun
  <2>2. \A o2 \in Owners \ {o} : guard'[o2] = guard[o2]
    BY <1>3, <1>0 DEF SlotStep, TryClaim, Reenter, SeeDeadHolder, Reclaim, Renew,
                CommitRelease, DropGuard, ReleaseIfLive
  <2> QED
    BY <2>1, <2>2, <1>0 DEF DeadDropped
<1>4. ASSUME NEW o \in Owners, NEW s \in Slots,
             row' = Acquire(row, o), guard' = [guard EXCEPT ![o][s] = OpenGuard(row')],
             \A o2 \in Owners, s2 \in Slots : ~Holding(o2, s2)
      PROVE  GuardBacked'
  <2> SUFFICES ASSUME NEW o2 \in Owners, NEW s2 \in Slots, Holding(o2, s2)'
               PROVE  Matches(row, o2, guard[o2][s2].fence)' /\ (guard[o2][s2].left <= row.left)'
    BY DEF GuardBacked
  <2>1. o2 = o /\ s2 = s
    BY <1>4, <1>0 DEF Holding
  <2>2. guard'[o][s] = OpenGuard(row')
    BY <1>4, <1>0
  <2> QED
    BY <1>4, <2>1, <2>2, LeaseAssumption DEF OpenGuard, Acquire, Matches
<1>5. ASSUME NEW o \in Owners, NEW s \in Slots, TryClaim(o, s) PROVE GuardBacked'
  BY <1>5, <1>4, HeldRowIsLive DEF TryClaim
<1>6. ASSUME NEW o \in Owners, NEW s \in Slots, Reclaim(o, s) PROVE GuardBacked'
  <2>1. CASE MayReclaim(o, s) /\ row.fence < MaxFence
    <3>1. ASSUME NEW o2 \in Owners, NEW s2 \in Slots, Holding(o2, s2) PROVE FALSE
      <4>1. IsLive(row) /\ row.owner = o2
        BY <3>1, HeldRowIsLive
      <4>2. o2 \notin alive
        BY <2>1, <4>1 DEF MayReclaim, DefinitelyDead
      <4> QED
        BY <3>1, <4>2, <1>0, HoldingIsOpen
    <3> QED
      BY <1>6, <2>1, <3>1, <1>4 DEF Reclaim
  <2>2. CASE ~(MayReclaim(o, s) /\ row.fence < MaxFence)
    BY <1>6, <2>2, <1>0 DEF Reclaim, GuardBacked, Holding
  <2> QED
    BY <2>1, <2>2
<1>7. ASSUME NEW o \in Owners, NEW s \in Slots, Reenter(o, s) PROVE GuardBacked'
  <2> SUFFICES ASSUME NEW o2 \in Owners, NEW s2 \in Slots, Holding(o2, s2)'
               PROVE  Matches(row, o2, guard[o2][s2].fence)' /\ (guard[o2][s2].left <= row.left)'
    BY DEF GuardBacked
  <2>1. /\ guard' = [guard EXCEPT ![o][s] = OpenGuard(row')]
        /\ row' = Extend(row) /\ row.owner = o
    BY <1>7 DEF Reenter
  <2>2. row'.owner = o /\ row'.fence = row.fence /\ row'.left = TTL
    BY <2>1, <1>0 DEF Extend, Row
  <2>3. CASE o2 = o /\ s2 = s
    BY <2>1, <2>2, <2>3, <1>0, LeaseAssumption DEF OpenGuard, Matches
  <2>4. CASE ~(o2 = o /\ s2 = s)
    <3>1. guard'[o2][s2] = guard[o2][s2]
      BY <2>1, <2>4, <1>0
    <3>2. Holding(o2, s2)
      BY <3>1 DEF Holding
    <3> QED
      BY <3>1, <3>2, <2>1, <2>2, <1>1, HeldRowIsLive DEF Matches
  <2> QED
    BY <2>3, <2>4
<1>8. ASSUME NEW o \in Owners, NEW s \in Slots, Renew(o, s) PROVE GuardBacked'
  <2> SUFFICES ASSUME NEW o2 \in Owners, NEW s2 \in Slots, Holding(o2, s2)'
               PROVE  Matches(row, o2, guard[o2][s2].fence)' /\ (guard[o2][s2].left <= row.left)'
    BY DEF GuardBacked
  <2>1. CASE /\ Verify(row, o, guard[o][s].fence) /\ row' = Extend(row)
             /\ SetGuard(o, s, [guard[o][s] EXCEPT !.left = TTL])
    <3>1. /\ row' = Extend(row)
          /\ guard' = [guard EXCEPT ![o][s] = [guard[o][s] EXCEPT !.left = TTL]]
      BY <2>1 DEF SetGuard
    <3>2. row'.owner = row.owner /\ row'.fence = row.fence /\ row'.left = TTL
      BY <3>1, <1>0 DEF Extend, Row
    <3>3. CASE o2 = o /\ s2 = s
      <4>1. guard'[o][s].fence = guard[o][s].fence /\ guard'[o][s].left = TTL
        BY <3>1, <1>0, <1>1 DEF Guard
      <4> QED
        BY <3>2, <3>3, <4>1, <2>1, LeaseAssumption DEF Verify, Matches
    <3>4. CASE ~(o2 = o /\ s2 = s)
      <4>1. guard'[o2][s2] = guard[o2][s2]
        BY <3>1, <3>4, <1>0
      <4>2. Holding(o2, s2)
        BY <4>1 DEF Holding
      <4> QED
        BY <4>1, <4>2, <3>2, <1>1, HeldRowIsLive DEF Matches
    <3> QED
      BY <3>3, <3>4
  <2>2. CASE UNCHANGED row /\ SetGuard(o, s, [guard[o][s] EXCEPT !.st = "lost"])
    <3>1. row' = row /\ guard' = [guard EXCEPT ![o][s] = [guard[o][s] EXCEPT !.st = "lost"]]
      BY <2>2 DEF SetGuard
    <3>2. ~(o2 = o /\ s2 = s)
      BY <3>1, <1>0, <1>1 DEF Holding, Guard
    <3>3. guard'[o2][s2] = guard[o2][s2]
      BY <3>1, <3>2, <1>0
    <3> QED
      BY <3>1, <3>3, <1>0 DEF GuardBacked, Holding
  <2> QED
    BY <1>8, <2>1, <2>2 DEF Renew
<1>9. ASSUME NEW o \in Owners, NEW s \in Slots, MayRun(o, s),
             row' = Release(row, o, guard[o][s].fence),
             NEW g, g.st # "open", guard' = [guard EXCEPT ![o][s] = g]
      PROVE  GuardBacked'
  <2> SUFFICES ASSUME NEW o2 \in Owners, NEW s2 \in Slots, Holding(o2, s2)'
               PROVE  Matches(row, o2, guard[o2][s2].fence)' /\ (guard[o2][s2].left <= row.left)'
    BY DEF GuardBacked
  <2>1. ~(o2 = o /\ s2 = s)
    BY <1>9, <1>0 DEF Holding
  <2>2. guard'[o2][s2] = guard[o2][s2]
    BY <1>9, <2>1, <1>0
  <2>3. Holding(o2, s2)
    BY <2>2 DEF Holding
  <2>4. o2 # o
    BY <1>9, <1>2, <2>1, <2>3 DEF Holding
  <2>5. row' = row
    BY <1>9, <2>3, <2>4, HeldRowIsLive DEF Release, Matches
  <2> QED
    BY <2>2, <2>3, <2>5, <1>0 DEF GuardBacked
<1>10. ASSUME NEW o \in Owners, NEW s \in Slots, CommitRelease(o, s) PROVE GuardBacked'
  <2>1. [guard[o][s] EXCEPT !.st = "committed"].st # "open"
    BY <1>1 DEF Guard
  <2> QED
    BY <1>10, <2>1, <1>9 DEF CommitRelease
<1>11. ASSUME NEW o \in Owners, NEW s \in Slots, ReleaseIfLive(o, s) PROVE GuardBacked'
  <2>1. NoGuard.st # "open"
    BY DEF NoGuard
  <2> QED
    BY <1>11, <2>1, <1>9 DEF ReleaseIfLive
<1>12. ASSUME NEW o \in Owners, NEW s \in Slots, DropGuard(o, s) PROVE GuardBacked'
  <2> SUFFICES ASSUME NEW o2 \in Owners, NEW s2 \in Slots, Holding(o2, s2)'
               PROVE  Holding(o2, s2) /\ guard'[o2][s2] = guard[o2][s2]
    BY <1>12, <1>0 DEF GuardBacked, DropGuard, Matches
  <2>1. row' = row /\ guard' = [guard EXCEPT ![o][s] = NoGuard]
    BY <1>12 DEF DropGuard
  <2>2. ~(o2 = o /\ s2 = s)
    BY <2>1, <1>0 DEF Holding, NoGuard
  <2> QED
    BY <2>1, <2>2, <1>0 DEF Holding
<1>13. ASSUME NEW o \in Owners, NEW s \in Slots, SeeDeadHolder(o, s) PROVE GuardBacked'
  BY <1>13, <1>0 DEF SeeDeadHolder, GuardBacked, Holding
<1>14. ASSUME NEW o \in Owners, CommitKeep(o) PROVE (GuardBacked /\ DeadDropped)'
  BY <1>14, <1>0 DEF CommitKeep, GuardBacked, Holding, DeadDropped
<1>15. ASSUME NEW o \in Owners, Crash(o) PROVE (GuardBacked /\ DeadDropped)'
  <2>1. /\ row' = row /\ alive' = alive \ {o}
        /\ guard' = [guard EXCEPT ![o] = [s \in Slots |-> NoGuard]]
    BY <1>15 DEF Crash
  <2>2. \A s \in Slots : guard'[o][s] = NoGuard
    BY <2>1, <1>0
  <2>3. \A o2 \in Owners \ {o} : guard'[o2] = guard[o2]
    BY <2>1, <1>0
  <2>4. GuardBacked'
    <3> SUFFICES ASSUME NEW o2 \in Owners, NEW s2 \in Slots, Holding(o2, s2)'
                 PROVE  o2 # o
      BY <2>1, <2>3, <1>0 DEF GuardBacked, Holding, Matches
    <3> QED
      BY <2>2 DEF Holding, NoGuard
  <2>5. DeadDropped'
    BY <2>1, <2>2, <2>3, <1>0 DEF DeadDropped
  <2> QED
    BY <2>4, <2>5
<1>16. ASSUME Tick PROVE (GuardBacked /\ DeadDropped)'
  <2>1. /\ row'.owner = row.owner /\ row'.fence = row.fence
        /\ row'.left = Countdown(row.left) /\ alive' = alive
    BY <1>16, <1>0 DEF Tick, Row
  <2>2. ASSUME NEW o \in Owners, NEW s \in Slots
        PROVE  /\ guard'[o][s].st = guard[o][s].st
               /\ guard'[o][s].fence = guard[o][s].fence
               /\ guard'[o][s].left = Countdown(guard[o][s].left)
               /\ guard'[o][s] = [guard[o][s] EXCEPT !.left = Countdown(@)]
    BY <1>16, <1>1 DEF Tick, Guard
  <2>3. GuardBacked'
    <3> SUFFICES ASSUME NEW o \in Owners, NEW s \in Slots, Holding(o, s)'
                 PROVE  Matches(row, o, guard[o][s].fence)' /\ (guard[o][s].left <= row.left)'
      BY DEF GuardBacked
    <3>1. guard[o][s].left > 0
      <4>1. guard[o][s].left \in Nat
        BY <1>1, LeaseAssumption
      <4>2. Countdown(guard[o][s].left) > 0
        BY <2>2 DEF Holding
      <4> QED
        BY <4>1, <4>2 DEF Countdown
    <3>2. Holding(o, s)
      BY <2>2, <3>1 DEF Holding
    <3>3. Matches(row, o, guard[o][s].fence) /\ guard[o][s].left <= row.left
      BY <3>2, <1>0 DEF GuardBacked
    <3>4. Countdown(guard[o][s].left) <= Countdown(row.left)
      BY <3>3, <1>0, <1>1, CountdownOrder
    <3> QED
      BY <2>1, <2>2, <3>3, <3>4 DEF Matches
  <2>4. DeadDropped'
    <3>1. [NoGuard EXCEPT !.left = Countdown(@)] = NoGuard
      BY DEF NoGuard, Countdown
    <3> QED
      BY <2>1, <2>2, <3>1, <1>0 DEF DeadDropped
  <2> QED
    BY <2>3, <2>4
<1>17. CASE UNCHANGED vars
  BY <1>17, <1>0 DEF vars, GuardBacked, Holding, DeadDropped
<1> QED
  BY <1>3, <1>5, <1>6, <1>7, <1>8, <1>10, <1>11, <1>12, <1>13, <1>14, <1>15, <1>16, <1>17
     DEF Next, OwnerStep, SlotStep

\* For every set of runtimes, placement, TTL and bound, as long as no hook of a
\* running turn commits on its own: two runtimes never hold unexpired guards of
\* the same session at once.
THEOREM LaneExclusiveTheorem ==
  ASSUME PluginAppends = FALSE
  PROVE  Spec => []LaneExclusive
<1>1. Init => GuardBacked /\ DeadDropped
  BY DEF Init, GuardBacked, DeadDropped, Holding, NoGuard
<1>2. TypeOK /\ TypeOK' /\ GuardBacked /\ DeadDropped /\ [Next]_vars => (GuardBacked /\ DeadDropped)'
  BY LeaseInvStep DEF LeaseInv
<1>3. TypeOK /\ GuardBacked /\ DeadDropped => LaneExclusive
  BY HeldRowIsLive DEF LeaseInv, LaneExclusive
<1> QED
  BY <1>1, <1>2, <1>3, LeaseTypeCorrect, PTL DEF Spec

\* Nobody takes an unexpired lease from a runtime that is still running, hooks
\* that commit on their own included.
THEOREM NeverStolenTheorem == Spec => NeverStolenFromLiving
<1>1. TypeOK /\ [Next]_vars =>
        [IsLive(row) /\ row.owner \in alive => row'.owner \in {row.owner, NoOwner}]_vars
  <2> SUFFICES ASSUME TypeOK, Next, IsLive(row), row.owner \in alive
               PROVE  row'.owner \in {row.owner, NoOwner}
    OBVIOUS
  <2>0. row \in Row
    BY DEF TypeOK
  <2>1. ASSUME NEW o \in Owners, NEW s \in Slots, SlotStep(o, s)
        PROVE  row'.owner \in {row.owner, NoOwner}
    <3>1. Extend(row).owner = row.owner
      BY <2>0 DEF Extend, Row
    <3>2. \A f : Release(row, o, f).owner \in {row.owner, NoOwner}
      BY <2>0 DEF Release, Row
    <3>3. CASE TryClaim(o, s)
      BY <3>3 DEF TryClaim
    <3>4. CASE Reclaim(o, s)
      BY <3>4 DEF Reclaim, MayReclaim, DefinitelyDead
    <3>5. CASE Reenter(o, s) \/ Renew(o, s)
      BY <3>5, <3>1 DEF Reenter, Renew
    <3>6. CASE CommitRelease(o, s) \/ ReleaseIfLive(o, s)
      BY <3>6, <3>2 DEF CommitRelease, ReleaseIfLive
    <3>7. CASE SeeDeadHolder(o, s) \/ DropGuard(o, s)
      BY <3>7 DEF SeeDeadHolder, DropGuard
    <3> QED
      BY <2>1, <3>3, <3>4, <3>5, <3>6, <3>7 DEF SlotStep
  <2>2. ASSUME NEW o \in Owners, CommitKeep(o) \/ Crash(o)
        PROVE  row'.owner \in {row.owner, NoOwner}
    BY <2>2 DEF CommitKeep, Crash
  <2>3. CASE Tick
    BY <2>3, <2>0 DEF Tick, Row
  <2> QED
    BY <2>1, <2>2, <2>3 DEF Next, OwnerStep
<1> QED
  BY <1>1, LeaseTypeCorrect, PTL DEF Spec, NeverStolenFromLiving

-----------------------------------------------------------------------------
\* The guards, the row and the clock implement FencedLane: every accepted commit
\* carries the newest fencing token, for every instance and whatever hooks do.
THEOREM LaneRefinementTheorem == Spec => LaneRefinement
<1>1. Init => Lane!LaneInit
  BY DEF Init, EmptyRow, Lane!LaneInit
<1>2. TypeOK /\ [Next]_vars => [Lane!LaneNext]_(Lane!laneVars)
  <2> SUFFICES ASSUME TypeOK, [Next]_vars
               PROVE  Lane!LaneNext \/ UNCHANGED Lane!laneVars
    OBVIOUS
  <2> USE DEF Lane!LaneNext, Lane!laneVars
  <2>0. row \in Row
    BY DEF TypeOK
  <2>1. ASSUME NEW o \in Owners, row' = Acquire(row, o), written' = written
        PROVE  Lane!Grant(o)
    BY <2>1 DEF Acquire, Lane!Grant
  <2>2. ASSUME row' = Extend(row) \/ row' = row, written' = written
        PROVE  UNCHANGED Lane!laneVars
    BY <2>2, <2>0 DEF Extend, Row
  <2>3. ASSUME NEW o \in Owners, NEW s \in Slots, SlotStep(o, s)
        PROVE  Lane!LaneNext \/ UNCHANGED Lane!laneVars
    <3>1. CASE TryClaim(o, s)
      BY <3>1, <2>1 DEF TryClaim
    <3>2. CASE Reclaim(o, s)
      BY <3>2, <2>1, <2>2 DEF Reclaim
    <3>3. CASE Reenter(o, s) \/ Renew(o, s) \/ SeeDeadHolder(o, s) \/ DropGuard(o, s)
      BY <3>3, <2>2 DEF Reenter, Renew, SeeDeadHolder, DropGuard
    <3>4. CASE CommitRelease(o, s)
      <4>1. /\ row.owner = o /\ row.owner # NoOwner /\ written' = row.fence
            /\ row' = [row EXCEPT !.owner = NoOwner, !.left = 0]
        BY <3>4, LeaseAssumption DEF CommitRelease, Verify, Matches, Release
      <4>2. row'.owner = NoOwner /\ row'.fence = row.fence
        BY <4>1, <2>0 DEF Row
      <4> QED
        BY <4>1, <4>2 DEF Lane!Write
    <3>5. CASE ReleaseIfLive(o, s)
      <4>1. CASE Matches(row, o, guard[o][s].fence)
        <5>1. row' = [row EXCEPT !.owner = NoOwner, !.left = 0] /\ written' = written
          BY <3>5, <4>1 DEF ReleaseIfLive, Release
        <5>2. row'.owner = NoOwner /\ row'.fence = row.fence /\ row.owner # NoOwner
          BY <5>1, <4>1, <2>0, LeaseAssumption DEF Row, Matches
        <5> QED
          BY <5>1, <5>2 DEF Lane!GiveBack
      <4>2. CASE ~Matches(row, o, guard[o][s].fence)
        BY <3>5, <4>2, <2>2 DEF ReleaseIfLive, Release
      <4> QED
        BY <4>1, <4>2
    <3> QED
      BY <2>3, <3>1, <3>2, <3>3, <3>4, <3>5 DEF SlotStep
  <2>4. ASSUME NEW o \in Owners, CommitKeep(o)
        PROVE  Lane!LaneNext
    <3>1. row.owner = o /\ row.owner # NoOwner /\ written' = row.fence /\ row' = row
      BY <2>4, LeaseAssumption DEF CommitKeep, Verify, Matches
    <3> QED
      BY <3>1 DEF Lane!Write
  <2>5. ASSUME NEW o \in Owners, Crash(o) PROVE UNCHANGED Lane!laneVars
    BY <2>5, <2>2 DEF Crash
  <2>6. CASE Tick
    BY <2>6, <2>0 DEF Tick, Row
  <2>7. CASE UNCHANGED vars
    BY <2>7, <2>2 DEF vars
  <2> QED
    BY <2>3, <2>4, <2>5, <2>6, <2>7 DEF Next, OwnerStep
<1> QED
  BY <1>1, <1>2, LeaseTypeCorrect, PTL DEF Spec, LaneRefinement, Lane!LaneSpec
=============================================================================
