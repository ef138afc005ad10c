------------------------ MODULE SessionRuntimeProofs ------------------------
(***************************************************************************)
(* The runtimes of a session for any number of runtimes, rows and turns,   *)
(* any policies, any TTLs and any bounds.                                  *)
(***************************************************************************)
EXTENDS SessionRuntime, QueuedWorkProofs

PastStart == {"prepare", "turn", "checkpoint", "finalize", "commit"}

\* The part of the state that the argument is about, and its types.
LaneTypes ==
  /\ row \in Row
  /\ head \in Nat
  /\ pc \in [Owners -> PCs]
  /\ fence \in [Owners -> Nat]
  /\ seen \in [Owners -> Nat]
  /\ base \in [Owners -> Nat]

\* Runtime o builds on the current head.
UpToDate(o) ==
  /\ pc[o] = "apply" => seen[o] = head
  /\ pc[o] \in PastStart => base[o] = head

\* Whoever the row names is up to date, expired or not: expiry is no part of the
\* argument, because only a new tenure can move the head.
OwnerIsUpToDate == \A o \in Owners : row.owner = o => UpToDate(o)

LaneInv == LaneTypes /\ OwnerIsUpToDate

-----------------------------------------------------------------------------
\* The row operations stay within the type of rows; none but Acquire names a new
\* owner.
LEMMA RowStep ==
  ASSUME NEW r \in Row, NEW o \in Owners, NEW f
  PROVE  /\ Acquire(r, o) \in Row /\ Acquire(r, o).owner = o
         /\ Extend(r) \in Row /\ Extend(r).owner = r.owner
         /\ Release(r, o, f) \in Row /\ Release(r, o, f).owner \in {r.owner, NoOwner}
<1>1. TTL \in 0..TTL /\ 0 \in 0..TTL
  BY LeaseAssumption
<1>2. r.fence + 1 \in Nat
  BY DEF Row
<1> QED
  BY <1>1, <1>2 DEF Row, Acquire, Extend, Release

\* A run that stops leaves a runtime that builds on nothing.
LEMMA StopStep ==
  ASSUME LaneInv, NEW o \in Owners, NEW rev \in Nat, Stop(o, rev),
         row' \in Row, row'.owner \in {row.owner, NoOwner}, head' = head
  PROVE  LaneInv'
<1>1. LaneTypes'
  BY DEF LaneInv, LaneTypes, Stop, PCs
<1>2. ASSUME NEW p \in Owners, row'.owner = p PROVE UpToDate(p)'
  <2>1. CASE p = o
    BY <2>1 DEF LaneInv, LaneTypes, Stop, UpToDate, PastStart
  <2>2. CASE p # o
    BY <1>2, <2>2, LeaseAssumption DEF LaneInv, LaneTypes, OwnerIsUpToDate, Stop, UpToDate
  <2> QED
    BY <2>1, <2>2
<1> QED
  BY <1>1, <1>2 DEF LaneInv, OwnerIsUpToDate

\* The ways a run ends short of its final commit.
LEMMA EndStep ==
  ASSUME LaneInv, NEW o \in Owners, EndReleased(o) \/ EndDropped(o) \/ EndLeaseLost(o)
  PROVE  LaneInv'
<1>1. seen[o] \in Nat /\ row \in Row
  BY DEF LaneInv, LaneTypes
<1>2. Released(o) \in Row /\ Released(o).owner \in {row.owner, NoOwner}
  BY <1>1, RowStep DEF Released
<1>3. row' \in Row /\ row'.owner \in {row.owner, NoOwner}
  BY <1>1, <1>2 DEF EndReleased, EndDropped, EndLeaseLost
<1>4. Stop(o, seen[o]) /\ head' = head
  BY DEF EndReleased, EndDropped, EndLeaseLost, storeVars
<1> QED
  BY <1>1, <1>3, <1>4, StopStep

\* A step that moves runtime o without touching the lane or the head.
LEMMA GotoStep ==
  ASSUME LaneInv, NEW o \in Owners, NEW p \in PCs, pc' = [pc EXCEPT ![o] = p],
         row' = row, head' = head, UNCHANGED <<fence, seen, base>>,
         p # "apply", p \in PastStart => pc[o] \in PastStart
  PROVE  LaneInv'
<1>1. LaneTypes'
  BY DEF LaneInv, LaneTypes
<1>2. ASSUME NEW q \in Owners, row'.owner = q PROVE UpToDate(q)'
  BY <1>2 DEF LaneInv, LaneTypes, OwnerIsUpToDate, UpToDate
<1> QED
  BY <1>1, <1>2 DEF LaneInv, OwnerIsUpToDate

\* A step that leaves every runtime alone and may only extend the tenure.
LEMMA LaneUntouched ==
  ASSUME LaneInv, row' \in Row, row'.owner = row.owner, head' = head,
         UNCHANGED <<pc, fence, seen, base>>
  PROVE  LaneInv'
BY DEF LaneInv, LaneTypes, OwnerIsUpToDate, UpToDate

-----------------------------------------------------------------------------
\* Every step of the system keeps the owner of the row up to date.
LEMMA LaneInvStep ==
  ASSUME PluginAppends = FALSE, LaneInv, [Next]_vars
  PROVE  LaneInv'
<1>0. /\ row \in Row /\ head \in Nat /\ pc \in [Owners -> PCs] /\ fence \in [Owners -> Nat]
      /\ seen \in [Owners -> Nat] /\ base \in [Owners -> Nat]
  BY DEF LaneInv, LaneTypes
<1>1. ASSUME NEW o \in Owners, NEW t \in Turns, Open(o, t) PROVE LaneInv'
  <2>1. /\ row' \in Row /\ row'.owner = o /\ row'.fence \in Nat
    <3>1. \/ row' = Acquire(row, o)
          \/ row' = Extend(row) /\ row.owner = o
      BY <1>1 DEF Open
    <3>2. row' \in Row /\ row'.owner = o
      BY <1>0, <3>1, RowStep
    <3> QED
      BY <3>2 DEF Row
  <2>2. /\ pc' = [pc EXCEPT ![o] = IF t \in HostTurns THEN "drain" ELSE "precede"]
        /\ fence' = [fence EXCEPT ![o] = row'.fence]
        /\ head' = head /\ UNCHANGED <<seen, base>>
    BY <1>1 DEF Open, storeVars
  <2>3. LaneTypes'
    BY <1>0, <2>1, <2>2 DEF LaneTypes, PCs
  <2>4. pc'[o] \notin PastStart \cup {"apply"}
    BY <1>0, <2>2 DEF PastStart
  <2> QED
    BY <2>1, <2>3, <2>4 DEF LaneInv, OwnerIsUpToDate, UpToDate
<1>2. ASSUME NEW o \in Owners, NEW xs, NEW acc, NEW p \in PCs, NEW list,
             Claim(o, xs, acc, p, list), p # "apply", p \in PastStart => pc[o] \in PastStart
      PROVE  LaneInv'
  BY <1>2, GotoStep DEF Claim
<1>3. ASSUME NEW o \in Owners, NEW p \in PCs, Goto(o, p), p # "apply",
             p \in PastStart => pc[o] \in PastStart, row' = row, head' = head
      PROVE  LaneInv'
  BY <1>3, GotoStep DEF Goto
<1>4. ASSUME NEW o \in Owners, Precede(o) PROVE LaneInv'
  BY <1>3, <1>4 DEF Precede, storeVars, PCs, PastStart
<1>5. ASSUME NEW o \in Owners, DrainClaim(o) PROVE LaneInv'
  BY <1>2, <1>3, <1>5, EndStep DEF DrainClaim, storeVars, PCs, PastStart
<1>6. ASSUME NEW o \in Owners, ClaimInputs(o) PROVE LaneInv'
  BY <1>2, <1>3, <1>6, EndStep DEF ClaimInputs, storeVars, PCs, PastStart
<1>7. ASSUME NEW o \in Owners, ClaimWork(o) PROVE LaneInv'
  BY <1>2, <1>3, <1>7, EndStep DEF ClaimWork, storeVars, PCs, PastStart
<1>8. ASSUME NEW o \in Owners, CheckpointInputs(o) PROVE LaneInv'
  BY <1>2, <1>3, <1>8, EndStep DEF CheckpointInputs, At, storeVars, PCs, PastStart
<1>9. ASSUME NEW o \in Owners, CheckpointWork(o) PROVE LaneInv'
  BY <1>2, <1>3, <1>9, EndStep DEF CheckpointWork, At, storeVars, PCs, PastStart
<1>10. ASSUME NEW o \in Owners, RefreshForCommand(o) PROVE LaneInv'
  <2>1. /\ pc' = [pc EXCEPT ![o] = "apply"] /\ seen' = [seen EXCEPT ![o] = head]
        /\ row' = row /\ head' = head /\ UNCHANGED <<fence, base>>
    BY <1>10 DEF RefreshForCommand, storeVars
  <2>2. LaneTypes'
    BY <1>0, <2>1 DEF LaneTypes, PCs
  <2>3. ASSUME NEW q \in Owners, row'.owner = q PROVE UpToDate(q)'
    BY <1>0, <2>1, <2>3 DEF LaneInv, OwnerIsUpToDate, UpToDate, PastStart
  <2> QED
    BY <2>2, <2>3 DEF LaneInv, OwnerIsUpToDate
<1>11. ASSUME NEW o \in Owners, Start(o) PROVE LaneInv'
  <2>1. /\ pc' = [pc EXCEPT ![o] = "prepare"] /\ seen' = [seen EXCEPT ![o] = head]
        /\ base' = [base EXCEPT ![o] = head]
        /\ row' = row /\ head' = head /\ UNCHANGED fence
    BY <1>11 DEF Start, storeVars
  <2>2. LaneTypes'
    BY <1>0, <2>1 DEF LaneTypes, PCs
  <2>3. ASSUME NEW q \in Owners, row'.owner = q PROVE UpToDate(q)'
    BY <1>0, <2>1, <2>3 DEF LaneInv, OwnerIsUpToDate, UpToDate, PastStart
  <2> QED
    BY <2>2, <2>3 DEF LaneInv, OwnerIsUpToDate
<1>12. ASSUME NEW o \in Owners, Fenced(o) PROVE row.owner = o
  BY <1>12 DEF Fenced, Verify, Matches
<1>13. ASSUME NEW o \in Owners, ProgressCommitted(o) PROVE LaneInv'
  <2>1. /\ pc' = [pc EXCEPT ![o] = "turn"] /\ base' = [base EXCEPT ![o] = head + 1]
        /\ row' = row /\ head' = head + 1 /\ UNCHANGED <<fence, seen>> /\ row.owner = o
    BY <1>12, <1>13 DEF ProgressCommitted
  <2>2. LaneTypes'
    BY <1>0, <2>1 DEF LaneTypes, PCs
  <2>3. UpToDate(o)'
    BY <1>0, <2>1 DEF UpToDate, PastStart
  <2> QED
    BY <2>1, <2>2, <2>3 DEF LaneInv, OwnerIsUpToDate
<1>14. ASSUME NEW o \in Owners, Prepare(o) PROVE LaneInv'
  BY <1>3, <1>13, <1>14, EndStep DEF Prepare, At, storeVars, PCs, PastStart
<1>15. ASSUME NEW o \in Owners, Progress(o) PROVE LaneInv'
  BY <1>13, <1>15, EndStep DEF Progress
<1>16. ASSUME NEW o \in Owners, NEW reset \in BOOLEAN, ApplyCommand(o, reset) PROVE LaneInv'
  <2>1. CASE EndReleased(o) \/ EndDropped(o)
    BY <2>1, EndStep
  <2>2. CASE /\ Fenced(o) /\ head' = head + 1 /\ pc' = [pc EXCEPT ![o] = "drain"]
             /\ seen' = [seen EXCEPT ![o] = head + 1] /\ UNCHANGED <<row, fence, base>>
    <3>1. LaneTypes'
      BY <1>0, <2>2 DEF LaneTypes, PCs
    <3>2. UpToDate(o)'
      BY <1>0, <2>2 DEF UpToDate, PastStart
    <3> QED
      BY <1>12, <2>2, <3>1, <3>2 DEF LaneInv, OwnerIsUpToDate
  <2> QED
    BY <1>16, <2>1, <2>2 DEF ApplyCommand
<1>17. ASSUME NEW o \in Owners, Fail(o) PROVE LaneInv'
  BY <1>17, EndStep DEF Fail
<1>18. ASSUME NEW o \in Owners, NEW from \in PastStart, NEW to \in PastStart, EnsureLive(o, from, to)
       PROVE  LaneInv'
  <2>1. CASE row' = Extend(row) /\ Goto(o, to) /\ head' = head
    <3>1. row' \in Row /\ row'.owner = row.owner /\ pc[o] \in PastStart
      BY <1>0, <1>18, <2>1, RowStep DEF EnsureLive, At
    <3>2. LaneTypes'
      BY <1>0, <2>1, <3>1 DEF LaneTypes, Goto, PCs, PastStart
    <3>3. ASSUME NEW q \in Owners, row'.owner = q PROVE UpToDate(q)'
      BY <1>0, <2>1, <3>1, <3>3 DEF LaneInv, OwnerIsUpToDate, UpToDate, Goto, PastStart
    <3> QED
      BY <3>2, <3>3 DEF LaneInv, OwnerIsUpToDate
  <2>2. CASE Stop(o, seen[o]) /\ row' = row /\ head' = head
    BY <1>0, <2>2, StopStep
  <2> QED
    BY <1>18, <2>1, <2>2 DEF EnsureLive, storeVars
<1>19. ASSUME NEW o \in Owners, Finish(o) \/ Finalize(o) PROVE LaneInv'
  BY <1>18, <1>19 DEF Finish, Finalize, PastStart
<1>20. ASSUME NEW o \in Owners, Commit(o) PROVE LaneInv'
  <2>1. /\ Release(row, o, fence[o]) \in Row
        /\ Release(row, o, fence[o]).owner \in {row.owner, NoOwner}
    BY <1>0, RowStep
  <2>2. CASE CommitAccepted(o)
    <3>1. row.owner = o /\ row' = Release(row, o, fence[o]) /\ Stop(o, head + 1) /\ head' = head + 1
      BY <1>12, <2>2 DEF CommitAccepted
    <3>2. LaneTypes'
      BY <1>0, <2>1, <3>1 DEF LaneTypes, Stop, PCs
    <3>3. pc'[o] = "idle"
      BY <1>0, <3>1 DEF Stop
    <3> QED
      BY <2>1, <3>1, <3>2, <3>3, LeaseAssumption DEF LaneInv, OwnerIsUpToDate, UpToDate, PastStart
  <2>3. CASE CommitRepeated(o)
    BY <1>0, <2>1, <2>3, StopStep DEF CommitRepeated, storeVars
  <2>4. CASE CommitLeaseLost(o)
    BY <2>4, EndStep DEF CommitLeaseLost
  <2>5. CASE CommitRefused(o)
    <3>1. Stop(o, seen[o]) /\ row' = row /\ head' = head
      BY <2>5 DEF CommitRefused
    <3> QED
      BY <1>0, <3>1, StopStep
  <2> QED
    BY <1>20, <2>2, <2>3, <2>4, <2>5 DEF Commit
<1>21. ASSUME NEW o \in Owners, Renew(o) \/ Interrupt(o) PROVE LaneInv'
  <2>1. row' \in Row /\ row'.owner = row.owner
    BY <1>0, <1>21, RowStep DEF Renew, Interrupt
  <2>2. head' = head /\ UNCHANGED <<pc, fence, seen, base>>
    BY <1>21 DEF Renew, Interrupt, storeVars
  <2> QED
    BY <2>1, <2>2, LaneUntouched
<1>22. ASSUME NEW o \in Owners, Crash(o) PROVE LaneInv'
  BY <1>0, <1>22, StopStep DEF Crash, storeVars
<1>23. ASSUME NEW x \in Rows, Enqueue(x) \/ Cancel(x) PROVE LaneInv'
  BY <1>0, <1>23, LaneUntouched DEF Enqueue, Cancel, workerVars
<1>24. CASE Tick
  <2>1. Countdown(row.left) \in 0..TTL
    BY <1>0, LeaseAssumption DEF Countdown, Row
  <2>2. row' = [row EXCEPT !.left = Countdown(@)]
    BY <1>24 DEF Tick
  <2>3. row' \in Row /\ row'.owner = row.owner
    BY <1>0, <2>1, <2>2 DEF Row
  <2>4. head' = head /\ UNCHANGED <<pc, fence, seen, base>>
    BY <1>24 DEF Tick, workerVars
  <2> QED
    BY <2>3, <2>4, LaneUntouched
<1>25. CASE UNCHANGED vars
  BY <1>0, <1>25, LaneUntouched DEF vars, workerVars, storeVars
<1>26. ASSUME NEW o \in Owners, RunStep(o) PROVE LaneInv'
  <2>1. ~HookCommit(o)
    BY DEF HookCommit
  <2> QED
    BY <1>1, <1>4, <1>5, <1>6, <1>7, <1>8, <1>9, <1>10, <1>11, <1>14, <1>15, <1>16, <1>17,
       <1>19, <1>20, <1>21, <1>26, <2>1 DEF RunStep
<1> QED
  BY <1>22, <1>23, <1>24, <1>25, <1>26 DEF Next

\* For every set of runtimes, turns, rows and policies, every TTL and bound and
\* either kind of store and controller, as long as no hook of a running turn
\* commits on its own: a runtime whose fence the store would accept builds on the
\* head of the session, so the head-revision check never refuses a fenced commit.
THEOREM FencedWriterTheorem ==
  ASSUME PluginAppends = FALSE
  PROVE  Spec => []FencedWriterIsCurrent
<1>1. Init => LaneInv
  BY LeaseAssumption
     DEF Init, LaneInv, LaneTypes, OwnerIsUpToDate, UpToDate, EmptyRow, Row, PCs, PastStart
<1>2. LaneInv /\ [Next]_vars => LaneInv'
  BY LaneInvStep
<1>3. LaneInv => FencedWriterIsCurrent
  BY DEF LaneInv, OwnerIsUpToDate, UpToDate, PastStart, FencedWriterIsCurrent, Fenced, Verify, Matches
<1> QED
  BY <1>1, <1>2, <1>3, PTL DEF Spec

-----------------------------------------------------------------------------
(***************************************************************************)
(* The rows of the session: their types, and what happens to each.         *)
(***************************************************************************)

ClaimIds == Rows \X (1..MaxToken)
States == Stored \cup {"new", "done", "cancelled"}
InputStates == {"pending_active", "accepted", "deferred"}
Claims == [by: Owners \cup {NoOwner}, id: ClaimIds \cup {NoClaim}, tok: 0..MaxToken, left: 0..ClaimTTL]
Items == [st: States, claim: Claims]
Handles(X) == [id: ClaimIds, items: SUBSET X]
Works ==
  [turn: Turns \cup {NoTurn}, lost: BOOLEAN, cancel: BOOLEAN,
   q: Seq(Handles(Batches)), ic: Seq(Handles(Inputs)), saved: SUBSET (Rows \cup HostTurns)]
Hashes ==
  [claims: SUBSET (Rows \X (1..MaxToken)), from: 0..MaxHead, interrupted: BOOLEAN, used: BOOLEAN]

\* The lane: fences and revisions that runtimes remember have been there.
LaneBounds ==
  /\ row \in Row /\ alive \subseteq Owners /\ head \in 0..MaxHead
  /\ pc \in [Owners -> PCs]
  /\ fence \in [Owners -> Nat] /\ seen \in [Owners -> Nat] /\ base \in [Owners -> Nat]
  /\ \A o \in Owners : fence[o] <= row.fence /\ seen[o] <= head /\ base[o] <= head

\* Batches are queued, inputs are aimed at a turn, accepted by it or deferred.
RowTypes ==
  /\ item \in [Rows -> Items]
  /\ \A x \in Batches : item[x].st \notin InputStates
  /\ \A x \in Inputs : item[x].st # "queued"
  /\ arrived \in Seq(Rows)
  /\ Elems(arrived) = {x \in Rows : item[x].st # "new"}

\* Before a turn starts a runtime holds at most the command it applies, and on a
\* durable controller no turn saves anything before it commits.
Fits(p, r) ==
  /\ p # "idle" => r.turn \in Turns
  /\ p \in {"precede", "drain", "inputs", "work"} => r.q = <<>> /\ r.ic = <<>>
  /\ p \in {"command", "apply"} => Len(r.q) = 1 /\ r.ic = <<>>
  /\ Durable => r.saved = {}
WorkTypes == w \in [Owners -> Works] /\ \A o \in Owners : Fits(pc[o], w[o])

LedgerTypes == stamp \in [Turns -> Hashes] /\ history \in [Rows \cup HostTurns -> Nat]

StoreTypes == LaneBounds /\ RowTypes /\ WorkTypes /\ LedgerTypes

-----------------------------------------------------------------------------
(* Operators of the store. *)

\* What a step may do to the state of a row other than adding it: an input moves
\* between the states of inputs, and a stored row leaves the store for good.
Moves(x, s, t) ==
  \/ s = t
  \/ x \in Inputs /\ s \in InputStates /\ t \in InputStates
  \/ s \in Stored /\ t \in {"done", "cancelled"}

\* The rows stay well typed in a step that only moves them.
LEMMA MovesKeepRows ==
  ASSUME RowTypes, item' \in [Rows -> Items], arrived' = arrived,
         \A x \in Rows : Moves(x, item[x].st, item'[x].st)
  PROVE  RowTypes'
<1>1. Batches \cap Inputs = {} /\ Batches \subseteq Rows /\ Inputs \subseteq Rows
  BY RuntimeAssumption DEF Rows
<1>2. ASSUME NEW x \in Batches PROVE item'[x].st \notin InputStates
  <2>1. Moves(x, item[x].st, item'[x].st) /\ x \notin Inputs /\ item[x].st \notin InputStates
    BY <1>1 DEF RowTypes
  <2> QED
    BY <2>1 DEF Moves, InputStates
<1>3. ASSUME NEW x \in Inputs PROVE item'[x].st # "queued"
  <2>1. Moves(x, item[x].st, item'[x].st) /\ item[x].st # "queued"
    BY <1>1 DEF RowTypes
  <2> QED
    BY <2>1 DEF Moves, InputStates
<1>4. ASSUME NEW x \in Rows PROVE item[x].st # "new" <=> item'[x].st # "new"
  <2>1. Moves(x, item[x].st, item'[x].st)
    OBVIOUS
  <2> QED
    BY <2>1 DEF Moves, InputStates, Stored
<1>5. Elems(arrived)' = {x \in Rows : item'[x].st # "new"}
  BY <1>4 DEF RowTypes, Elems
<1> QED
  BY <1>2, <1>3, <1>5 DEF RowTypes

\* Clearing and stamping a claim.
LEMMA ClaimTypes ==
  ASSUME NEW c \in Claims
  PROVE  /\ ClearClaim(c) \in Claims /\ Unclaimed \in Claims
         /\ \A o \in Owners, id \in ClaimIds :
              c.tok < MaxToken => StampClaim(c, o, id) \in Claims
<1>1. 0 \in 0..ClaimTTL /\ ClaimTTL \in 0..ClaimTTL /\ 0 \in 0..MaxToken
  BY ClaimAssumption, RuntimeAssumption
<1>2. c.tok < MaxToken => c.tok + 1 \in 0..MaxToken
  BY RuntimeAssumption DEF Claims
<1> QED
  BY <1>1, <1>2 DEF Claims, ClearClaim, Unclaimed, StampClaim

\* Abandoning claims returns an accepted input to its turn, and moves nothing else.
LEMMA AbandonedTypes ==
  ASSUME RowTypes, NEW o \in Owners
  PROVE  /\ Abandoned(o) \in [Rows -> Items]
         /\ \A x \in Rows : Moves(x, item[x].st, Abandoned(o)[x].st)
         /\ \A x \in Rows : Abandoned(o)[x].st = "done" <=> item[x].st = "done"
<1> SUFFICES ASSUME NEW x \in Rows
             PROVE  /\ Abandoned(o)[x] \in Items
                    /\ Moves(x, item[x].st, Abandoned(o)[x].st)
                    /\ Abandoned(o)[x].st = "done" <=> item[x].st = "done"
  BY DEF Abandoned
<1>1. item[x] \in Items /\ item[x].claim \in Claims /\ item[x].st \in States
  BY DEF RowTypes, Items
<1>2. CASE Abandoned(o)[x] = item[x]
  BY <1>1, <1>2 DEF Moves
<1>3. CASE Abandoned(o)[x] = [st |-> IF item[x].st = "accepted" THEN "pending_active" ELSE item[x].st,
                              claim |-> ClearClaim(item[x].claim)]
  <2>1. Abandoned(o)[x] \in Items
    BY <1>1, <1>3, ClaimTypes DEF Items, States, Stored
  <2>2. item[x].st = "accepted" => x \in Inputs
    BY DEF RowTypes, Rows, InputStates
  <2> QED
    BY <1>3, <2>1, <2>2 DEF Moves, InputStates
<1> QED
  BY <1>2, <1>3 DEF Abandoned

\* Completing claims that are held deletes their rows, and moves nothing else.
LEMMA CompletedTypes ==
  ASSUME RowTypes, NEW hs, \A h \in hs : Holds(h)
  PROVE  /\ Completed(hs) \in [Rows -> Items]
         /\ \A x \in Rows : Moves(x, item[x].st, Completed(hs)[x].st)
         /\ \A x \in Rows : Completed(hs)[x].st \in {item[x].st, "done"}
         /\ \A x \in Rows : Completed(hs)[x].st = "done" /\ item[x].st # "done" =>
                              \E h \in hs : x \in h.items
         /\ \A x \in Rows : (\E h \in hs : x \in h.items) => Completed(hs)[x].st = "done"
<1> SUFFICES ASSUME NEW x \in Rows
             PROVE  /\ Completed(hs)[x] \in Items
                    /\ Moves(x, item[x].st, Completed(hs)[x].st)
                    /\ Completed(hs)[x].st \in {item[x].st, "done"}
                    /\ Completed(hs)[x].st = "done" /\ item[x].st # "done" =>
                         \E h \in hs : x \in h.items
                    /\ (\E h \in hs : x \in h.items) => Completed(hs)[x].st = "done"
  BY DEF Completed
<1>1. item[x] \in Items /\ item[x].claim \in Claims /\ item[x].st \in States
  BY DEF RowTypes, Items
<1>2. CASE \E h \in hs : x \in h.items
  <2>1. PICK h \in hs : x \in h.items
    BY <1>2
  <2>2. item[x].st \in Stored /\ Owns(item[x].claim, h.id)
    BY <2>1 DEF Holds
  <2>3. Completed(hs)[x] = [st |-> "done", claim |-> Unclaimed]
    BY <2>1, <2>2 DEF Completed
  <2>4. Completed(hs)[x] \in Items
    BY <1>1, <2>3, ClaimTypes DEF Items, States
  <2> QED
    BY <1>2, <2>2, <2>3, <2>4 DEF Moves
<1>3. CASE ~\E h \in hs : x \in h.items
  <2>1. Completed(hs)[x] = item[x]
    BY <1>3 DEF Completed
  <2> QED
    BY <1>1, <1>3, <2>1 DEF Moves
<1> QED
  BY <1>2, <1>3

\* Deferring what an interrupted turn never reached.
LEMMA DeferredTypes ==
  ASSUME NEW its \in [Rows -> Items], NEW o \in Owners
  PROVE  /\ Deferred(its, o) \in [Rows -> Items]
         /\ \A x \in Rows : \/ Deferred(its, o)[x].st = its[x].st
                            \/ /\ x \in Inputs /\ its[x].st = "pending_active"
                               /\ Deferred(its, o)[x].st = "deferred"
<1> SUFFICES ASSUME NEW x \in Rows
             PROVE  /\ Deferred(its, o)[x] \in Items
                    /\ \/ Deferred(its, o)[x].st = its[x].st
                       \/ /\ x \in Inputs /\ its[x].st = "pending_active"
                          /\ Deferred(its, o)[x].st = "deferred"
  BY DEF Deferred
<1>1. its[x] \in Items /\ its[x].claim \in Claims
  BY DEF Items
<1>2. [st |-> "deferred", claim |-> ClearClaim(its[x].claim)] \in Items
  BY <1>1, ClaimTypes DEF Items, States, Stored
<1> QED
  BY <1>1, <1>2 DEF Deferred

\* What a runtime may claim are rows of the state it looks for.
LEMMA ClaimableRows ==
  ASSUME RowTypes, NEW o \in Owners, NEW st
  PROVE  Claimable(o, st) \in Seq({x \in Rows : item[x].st = st})
<1> DEFINE T == {x \in Rows : item[x].st = st /\ Available(item[x].claim, o, alive)}
           U == {x \in Rows : item[x].st = st}
<1>1. Claimable(o, st) = Among(arrived, T) /\ arrived \in Seq(Rows)
  BY DEF Claimable, RowTypes
<1>2. Rows \cap T \subseteq U
  OBVIOUS
<1> HIDE DEF T, U
<1>3. Among(arrived, T) \in Seq(Rows \cap T)
  BY <1>1, AmongSeq
<1>4. \A s \in Seq(Rows \cap T) : s \in Seq(U)
  BY <1>2
<1>5. Claimable(o, st) \in Seq(U)
  BY <1>1, <1>3, <1>4
<1> QED
  BY <1>5 DEF U

\* The first rows of a queue that is not empty.
LEMMA PrefixRows ==
  ASSUME NEW X, NEW s \in Seq(X), s # <<>>, NEW n \in Nat \ {0}
  PROVE  Prefix(s, n) \in Seq(X) /\ Prefix(s, n) # <<>> /\ Elems(Prefix(s, n)) \subseteq X
<1> DEFINE k == IF n < Len(s) THEN n ELSE Len(s)
           p == SubSeq(s, 1, k)
<1>1. k \in 1..Len(s)
  OBVIOUS
<1> HIDE DEF k
<1>2. p \in Seq(X) /\ Len(p) = k
  BY <1>1
<1> HIDE DEF p
<1>3. p # <<>> /\ Elems(p) \subseteq X
  BY <1>1, <1>2 DEF Elems
<1> QED
  BY <1>2, <1>3 DEF p, k, Prefix

\* Work that is selected is at the head of the queue of ready batches.
LEMMA SelectedRows ==
  ASSUME RowTypes, NEW o \in Owners, NEW boundary,
         NEW n, n = SelectTurnWork(Candidates(o), boundary, MaxBatches) \/ n = SelectCommand(Candidates(o)),
         n # 0
  PROVE  n \in Nat \ {0} /\ Claimable(o, "queued") # <<>>
<1> DEFINE bs == Claimable(o, "queued")
<1>1. bs \in Seq({x \in Rows : item[x].st = "queued"}) /\ Candidates(o) = [i \in DOMAIN bs |-> KindOf[bs[i]]]
  BY ClaimableRows DEF Candidates
<1> HIDE DEF bs
<1> DEFINE c == [i \in DOMAIN bs |-> KindOf[bs[i]]]
           S == {c[i] : i \in DOMAIN bs}
<1>2. c \in Seq(S) /\ Len(c) = Len(bs)
  BY <1>1
<1> HIDE DEF c, S
<1>3. MaxBatches \in Nat
  BY RuntimeAssumption
<1>4. n \in Nat \ {0} /\ c # <<>>
  <2>1. CASE n = SelectTurnWork(c, boundary, MaxBatches)
    BY <1>2, <1>3, <2>1, SelectionRule
  <2>2. CASE n = SelectCommand(c)
    BY <1>2, <2>2 DEF SelectCommand
  <2> QED
    BY <1>1, <2>1, <2>2 DEF c
<1>5. bs # <<>>
  BY <1>1, <1>2, <1>4
<1> QED
  BY <1>4, <1>5 DEF bs

-----------------------------------------------------------------------------
(* The forms that steps take. *)

\* A row is done when it has been written (with an atomic store), and is written
\* once, in the step that completes it (on a durable controller).
NeverLost ==
  /\ \A x \in Rows : item[x].st = "done" => history[x] > 0
  /\ \A o \in Owners : \A x \in w[o].saved : history[x] > 0
OnlyOnce ==
  /\ \A x \in Rows : history[x] <= 1 /\ (history[x] > 0 => item[x].st = "done")
  /\ \A t \in HostTurns : history[t] <= 1 /\ (history[t] > 0 => stamp[t] # NoHash)
Accounts == (AtomicCommit => NeverLost) /\ (Durable => OnlyOnce)

StoreInv == StoreTypes /\ Accounts

\* A step in which nothing is written and no row is completed.
Unwritten ==
  /\ UNCHANGED <<stamp, history>>
  /\ \A x \in Rows : item'[x].st = "done" <=> item[x].st = "done"
  /\ \A o \in Owners : w'[o].saved \in {w[o].saved, {}}

\* A step that writes no row and loses nothing keeps every account.
LEMMA UnwrittenAccounts ==
  ASSUME Accounts, LedgerTypes, Unwritten
  PROVE  Accounts' /\ LedgerTypes'
<1>1. LedgerTypes'
  BY DEF LedgerTypes, Unwritten
<1>2. NeverLost => NeverLost'
  BY DEF NeverLost, Unwritten
<1>3. OnlyOnce => OnlyOnce'
  BY DEF OnlyOnce, Unwritten
<1> QED
  BY <1>1, <1>2, <1>3 DEF Accounts

\* Runtime o moves on; fences and revisions stay within what there has been.
LEMMA LaneMoves ==
  ASSUME LaneBounds, NEW o \in Owners, NEW p \in PCs, NEW f \in Nat, NEW s \in Nat, NEW b \in Nat,
         pc' = [pc EXCEPT ![o] = p], fence' = [fence EXCEPT ![o] = f],
         seen' = [seen EXCEPT ![o] = s], base' = [base EXCEPT ![o] = b],
         row' \in Row, row.fence <= row'.fence, f <= row'.fence,
         head' \in 0..MaxHead, head <= head', s <= head', b <= head', alive' \subseteq Owners
  PROVE  LaneBounds'
<1>1. row.fence \in Nat /\ row'.fence \in Nat /\ head \in Nat /\ head' \in Nat
  BY DEF LaneBounds, Row
<1>2. /\ pc' \in [Owners -> PCs] /\ fence' \in [Owners -> Nat]
      /\ seen' \in [Owners -> Nat] /\ base' \in [Owners -> Nat]
  BY DEF LaneBounds
<1>3. ASSUME NEW q \in Owners PROVE fence'[q] <= row'.fence /\ seen'[q] <= head' /\ base'[q] <= head'
  BY <1>1 DEF LaneBounds
<1> QED
  BY <1>2, <1>3 DEF LaneBounds

\* No runtime moves.
LEMMA LaneStays ==
  ASSUME LaneBounds, UNCHANGED <<pc, fence, seen, base>>,
         row' \in Row, row.fence <= row'.fence,
         head' \in 0..MaxHead, head <= head', alive' \subseteq Owners
  PROVE  LaneBounds'
<1>1. row.fence \in Nat /\ row'.fence \in Nat /\ head \in Nat /\ head' \in Nat
  BY DEF LaneBounds, Row
<1>2. ASSUME NEW q \in Owners PROVE fence'[q] <= row'.fence /\ seen'[q] <= head' /\ base'[q] <= head'
  BY <1>1 DEF LaneBounds
<1> QED
  BY <1>2 DEF LaneBounds

\* The row operations never take a fence back.
LEMMA FenceGrows ==
  ASSUME NEW r \in Row, NEW o \in Owners, NEW f
  PROVE  /\ Acquire(r, o).fence = r.fence + 1 /\ r.fence \in Nat
         /\ Extend(r).fence = r.fence /\ Release(r, o, f).fence = r.fence
BY DEF Row, Acquire, Extend, Release

\* Runtime o goes on with the work r, and the others with what they had.
LEMMA WorkMoves ==
  ASSUME WorkTypes, pc \in [Owners -> PCs], NEW o \in Owners, NEW p, NEW r \in Works, Fits(p, r),
         pc' = [pc EXCEPT ![o] = p], w' = [w EXCEPT ![o] = r]
  PROVE  WorkTypes'
<1>1. w' \in [Owners -> Works]
  BY DEF WorkTypes
<1>2. ASSUME NEW q \in Owners PROVE Fits(pc'[q], w'[q])
  <2>1. CASE q = o
    BY <2>1 DEF WorkTypes
  <2>2. CASE q # o
    <3>1. pc'[q] = pc[q] /\ w'[q] = w[q] /\ Fits(pc[q], w[q])
      BY <2>2 DEF WorkTypes
    <3> QED
      BY <3>1
  <2> QED
    BY <2>1, <2>2
<1> QED
  BY <1>1, <1>2 DEF WorkTypes

\* Runtime o goes on with what it had.
LEMMA WorkKept ==
  ASSUME WorkTypes, pc \in [Owners -> PCs], NEW o \in Owners, NEW p, Fits(p, w[o]),
         pc' = [pc EXCEPT ![o] = p], w' = w
  PROVE  WorkTypes'
<1>1. w' = [w EXCEPT ![o] = w[o]] /\ w[o] \in Works
  BY DEF WorkTypes
<1> QED
  BY <1>1, WorkMoves

\* A run that stops.
LEMMA StopTypes ==
  ASSUME LaneBounds, WorkTypes, NEW o \in Owners, NEW rev \in Nat, Stop(o, rev), rev <= head',
         row' \in Row, row.fence <= row'.fence,
         head' \in 0..MaxHead, head <= head', alive' \subseteq Owners
  PROVE  /\ LaneBounds' /\ WorkTypes'
         /\ \A q \in Owners : w'[q].saved \in {w[q].saved, {}}
<1> DEFINE r == NoRun(NoTurn)
<1>1. /\ pc' = [pc EXCEPT ![o] = "idle"] /\ fence' = [fence EXCEPT ![o] = 0]
      /\ seen' = [seen EXCEPT ![o] = rev] /\ base' = [base EXCEPT ![o] = 0]
      /\ w' = [w EXCEPT ![o] = r]
  BY DEF Stop
<1>2. LaneBounds'
  <2>1. 0 <= row'.fence /\ 0 <= head' /\ "idle" \in PCs
    BY DEF Row, PCs
  <2> QED
    BY <1>1, <2>1, LaneMoves
<1>3. r \in Works /\ Fits("idle", r) /\ r.saved = {}
  BY DEF NoRun, Works, Fits
<1> HIDE DEF r
<1>4. WorkTypes'
  BY <1>1, <1>3, WorkMoves DEF LaneBounds
<1>5. \A q \in Owners : w'[q].saved \in {w[q].saved, {}}
  BY <1>1, <1>3 DEF WorkTypes
<1> QED
  BY <1>2, <1>4, <1>5

\* A run that stops without a commit: its claims are abandoned or left behind.
LEMMA HaltTypes ==
  ASSUME StoreInv, NEW o \in Owners, Stop(o, seen[o]), item' \in {item, Abandoned(o)},
         row' \in {row, Released(o), Release(row, o, fence[o])},
         UNCHANGED <<alive, arrived, head, stamp, history>>
  PROVE  StoreInv'
<1>0. LaneBounds /\ RowTypes /\ WorkTypes /\ LedgerTypes /\ Accounts
  BY DEF StoreInv, StoreTypes
<1>1. row \in Row /\ seen[o] \in Nat /\ seen[o] <= head /\ head \in 0..MaxHead /\ alive \subseteq Owners
  BY <1>0 DEF LaneBounds
<1>2. row' \in Row /\ row.fence <= row'.fence
  BY <1>1, RowStep, FenceGrows DEF Released
<1>3. LaneBounds' /\ WorkTypes' /\ \A q \in Owners : w'[q].saved \in {w[q].saved, {}}
  BY <1>0, <1>1, <1>2, StopTypes
<1>4. /\ RowTypes'
      /\ \A x \in Rows : item'[x].st = "done" <=> item[x].st = "done"
  <2>1. CASE item' = item
    BY <1>0, <2>1 DEF RowTypes, Elems
  <2>2. CASE item' = Abandoned(o)
    BY <1>0, <2>2, AbandonedTypes, MovesKeepRows
  <2> QED
    BY <2>1, <2>2
<1>5. Unwritten
  BY <1>3, <1>4 DEF Unwritten
<1> QED
  BY <1>0, <1>3, <1>4, <1>5, UnwrittenAccounts DEF StoreInv, StoreTypes

\* The ways a run ends short of its final commit.
LEMMA EndTypes ==
  ASSUME StoreInv, NEW o \in Owners,
         EndReleased(o) \/ EndDropped(o) \/ EndLeaseLost(o)
  PROVE  StoreInv'
BY HaltTypes DEF EndReleased, EndDropped, EndLeaseLost, storeVars

\* A step that only moves runtime o from one point to another.
LEMMA GotoTypes ==
  ASSUME StoreInv, NEW o \in Owners, NEW p \in PCs, Goto(o, p), Fits(p, w[o]),
         row' \in Row, row.fence <= row'.fence, UNCHANGED <<alive, storeVars>>
  PROVE  StoreInv'
<1>0. LaneBounds /\ RowTypes /\ WorkTypes /\ LedgerTypes /\ Accounts
  BY DEF StoreInv, StoreTypes
<1>1. /\ pc' = [pc EXCEPT ![o] = p] /\ w' = w
      /\ fence' = [fence EXCEPT ![o] = fence[o]] /\ seen' = [seen EXCEPT ![o] = seen[o]]
      /\ base' = [base EXCEPT ![o] = base[o]]
  BY <1>0 DEF Goto, LaneBounds
<1>2. LaneBounds'
  <2>1. /\ fence[o] \in Nat /\ seen[o] \in Nat /\ base[o] \in Nat /\ head' = head /\ head \in 0..MaxHead
        /\ fence[o] <= row'.fence /\ seen[o] <= head /\ base[o] <= head /\ head <= head'
        /\ alive' \subseteq Owners
    BY <1>0 DEF LaneBounds, storeVars, Row
  <2> QED
    BY <1>0, <1>1, <2>1, LaneMoves
<1>3. WorkTypes'
  BY <1>0, <1>1, WorkKept DEF LaneBounds
<1>4. RowTypes' /\ Unwritten
  BY <1>0, <1>1 DEF RowTypes, Elems, Unwritten, storeVars, WorkTypes
<1> QED
  BY <1>0, <1>2, <1>3, <1>4, UnwrittenAccounts DEF StoreInv, StoreTypes

\* A claim: its rows are stamped and remembered.
LEMMA ClaimStep ==
  ASSUME StoreInv, NEW o \in Owners, NEW X \in SUBSET Rows, NEW xs \in Seq(X), xs # <<>>,
         NEW accept \in BOOLEAN, NEW p, NEW list,
         Claim(o, xs, accept, p, list), pc[o] # "idle",
         \/ list = "q" /\ X \subseteq Batches
         \/ list = "ic" /\ X \subseteq Inputs,
         accept => \A x \in X : x \in Inputs /\ item[x].st = "pending_active",
         \/ p = "command" /\ pc[o] = "drain" /\ list = "q"
         \/ p \in {"start", "turn", "checkpoint"}
  PROVE  StoreInv'
<1>0. LaneBounds /\ RowTypes /\ WorkTypes /\ LedgerTypes /\ Accounts
  BY DEF StoreInv, StoreTypes
<1> DEFINE id == ClaimId(xs)
           h == Handle(id, xs)
           r == IF list = "q" THEN [w[o] EXCEPT !.q = Append(w[o].q, h)]
                ELSE [w[o] EXCEPT !.ic = Append(w[o].ic, h)]
<1>1. Elems(xs) \subseteq X /\ xs[1] \in X /\ xs[1] \in Elems(xs)
  BY DEF Elems
<1>2. /\ \A x \in Elems(xs) : item[x].claim.tok < MaxToken
      /\ item' = [x \in Rows |->
           IF x \in Elems(xs)
           THEN [st |-> IF accept THEN "accepted" ELSE item[x].st,
                 claim |-> StampClaim(item[x].claim, o, id)]
           ELSE item[x]]
      /\ pc' = [pc EXCEPT ![o] = p]
      /\ w' = [w EXCEPT ![o][list] = Append(@, h)]
      /\ UNCHANGED <<row, alive, fence, seen, base, arrived, head, stamp, history>>
  BY DEF Claim
<1>3. id \in ClaimIds
  <2>1. item[xs[1]] \in Items /\ item[xs[1]].claim.tok < MaxToken /\ xs[1] \in Rows
    BY <1>0, <1>1, <1>2 DEF RowTypes
  <2>2. item[xs[1]].claim.tok \in 0..MaxToken
    BY <2>1 DEF Items, Claims
  <2>3. item[xs[1]].claim.tok + 1 \in 1..MaxToken
    BY <2>1, <2>2, RuntimeAssumption
  <2> QED
    BY <2>1, <2>3 DEF ClaimId, ClaimIds
<1> HIDE DEF id
<1>4. \A x \in Rows : /\ item'[x] \in Items
                      /\ Moves(x, item[x].st, item'[x].st)
                      /\ item'[x].st = "done" <=> item[x].st = "done"
  <2> SUFFICES ASSUME NEW x \in Rows
               PROVE  /\ item'[x] \in Items
                      /\ Moves(x, item[x].st, item'[x].st)
                      /\ item'[x].st = "done" <=> item[x].st = "done"
    OBVIOUS
  <2>1. item[x] \in Items /\ item[x].claim \in Claims /\ item[x].st \in States
    BY <1>0 DEF RowTypes, Items
  <2>2. CASE x \notin Elems(xs)
    BY <1>2, <2>1, <2>2 DEF Moves
  <2>3. CASE x \in Elems(xs)
    <3>1. StampClaim(item[x].claim, o, id) \in Claims
      BY <1>2, <1>3, <2>1, <2>3, ClaimTypes
    <3>2. item'[x] = [st |-> IF accept THEN "accepted" ELSE item[x].st,
                      claim |-> StampClaim(item[x].claim, o, id)]
      BY <1>2, <2>3
    <3>3. accept => x \in Inputs /\ item[x].st = "pending_active"
      BY <1>1, <2>3
    <3>4. item'[x] \in Items
      BY <2>1, <3>1, <3>2 DEF Items, States, Stored
    <3> QED
      BY <3>2, <3>3, <3>4 DEF Moves, InputStates
  <2> QED
    BY <2>2, <2>3
<1>5. RowTypes'
  <2>1. item' \in [Rows -> Items]
    BY <1>2, <1>4
  <2> QED
    BY <1>0, <1>2, <1>4, <2>1, MovesKeepRows
<1>6. w' = [w EXCEPT ![o] = r]
  BY <1>0, <1>2 DEF WorkTypes, Works
<1>7. r \in Works /\ r.saved = w[o].saved /\ Fits(p, r)
  <2>1. w[o] \in Works /\ Fits(pc[o], w[o])
    BY <1>0 DEF WorkTypes
  <2>2. h.id \in ClaimIds /\ h.items \subseteq X /\ h = [id |-> h.id, items |-> h.items]
    BY <1>1, <1>3 DEF Handle
  <2> HIDE DEF h
  <2>3. CASE list = "q"
    <3>1. h \in Handles(Batches)
      BY <2>2, <2>3 DEF Handles
    <3>2. w[o].q \in Seq(Handles(Batches))
      BY <2>1 DEF Works
    <3>3. Append(w[o].q, h) \in Seq(Handles(Batches)) /\ Len(Append(w[o].q, h)) = Len(w[o].q) + 1
      BY <3>1, <3>2
    <3>4. r = [w[o] EXCEPT !.q = Append(w[o].q, h)]
      BY <2>3
    <3>5. r \in Works /\ r.saved = w[o].saved /\ r.q = Append(w[o].q, h) /\ r.ic = w[o].ic
          /\ r.turn = w[o].turn
      BY <2>1, <3>3, <3>4 DEF Works
    <3>6. p = "command" => Len(r.q) = 1 /\ r.ic = <<>>
      BY <2>1, <3>3, <3>5 DEF Fits
    <3> HIDE DEF r
    <3> QED
      BY <2>1, <3>5, <3>6 DEF Fits
  <2>4. CASE list = "ic"
    <3>1. h \in Handles(Inputs)
      BY <2>2, <2>4 DEF Handles
    <3>2. w[o].ic \in Seq(Handles(Inputs))
      BY <2>1 DEF Works
    <3>3. Append(w[o].ic, h) \in Seq(Handles(Inputs))
      BY <3>1, <3>2
    <3>4. r = [w[o] EXCEPT !.ic = Append(w[o].ic, h)]
      BY <2>4
    <3>5. r \in Works /\ r.saved = w[o].saved /\ r.turn = w[o].turn
      BY <2>1, <3>3, <3>4 DEF Works
    <3> HIDE DEF r
    <3> QED
      BY <2>1, <2>4, <3>5 DEF Fits
  <2> QED
    BY <2>3, <2>4
<1> HIDE DEF r
<1>8. WorkTypes'
  BY <1>0, <1>2, <1>6, <1>7, WorkMoves DEF LaneBounds
<1>9. LaneBounds'
  <2>1. p \in PCs
    BY DEF PCs
  <2>2. pc' \in [Owners -> PCs]
    BY <1>0, <1>2, <2>1 DEF LaneBounds
  <2> QED
    BY <1>0, <1>2, <2>2 DEF LaneBounds
<1>10. Unwritten
  BY <1>0, <1>2, <1>4, <1>6, <1>7 DEF Unwritten, WorkTypes
<1> QED
  BY <1>0, <1>5, <1>8, <1>9, <1>10, UnwrittenAccounts DEF StoreInv, StoreTypes

\* The five places where a runtime claims rows.
LEMMA ClaimingTypes ==
  ASSUME StoreInv, NEW o \in Owners,
         DrainClaim(o) \/ ClaimInputs(o) \/ ClaimWork(o) \/ CheckpointInputs(o) \/ CheckpointWork(o)
  PROVE  StoreInv'
<1>0. LaneBounds /\ RowTypes /\ WorkTypes /\ Fits(pc[o], w[o])
  BY DEF StoreInv, StoreTypes, WorkTypes
<1> DEFINE Q == {x \in Rows : item[x].st = "queued"}
           D == {x \in Rows : item[x].st = "deferred"}
           P == {x \in Rows : item[x].st = "pending_active"}
<1>1. Q \subseteq Batches /\ D \subseteq Inputs /\ P \subseteq Inputs
      /\ Q \subseteq Rows /\ D \subseteq Rows /\ P \subseteq Rows
  BY <1>0 DEF RowTypes, Rows, InputStates
<1>2. /\ Claimable(o, "queued") \in Seq(Q) /\ Claimable(o, "deferred") \in Seq(D)
      /\ Claimable(o, "pending_active") \in Seq(P)
  BY <1>0, ClaimableRows
<1>3. \A x \in P : x \in Inputs /\ item[x].st = "pending_active"
  BY <1>1
<1>4. MaxBatches \in Nat \ {0} /\ 1 \in Nat \ {0}
  BY RuntimeAssumption
<1>5. ASSUME NEW p \in PCs, Goto(o, p), Fits(p, w[o]), UNCHANGED <<row, alive, storeVars>> PROVE StoreInv'
  <2>1. row' \in Row /\ row.fence <= row'.fence
    BY <1>0, <1>5 DEF LaneBounds, Row
  <2> QED
    BY <1>5, <2>1, GotoTypes
<1> HIDE DEF Q, D, P
<1>6. CASE DrainClaim(o)
  <2>0. pc[o] = "drain"
    BY <1>6 DEF DrainClaim, At
  <2>1. CASE EndReleased(o)
    BY <2>1, EndTypes
  <2>2. CASE /\ Goto(o, IF w[o].turn \in HostTurns THEN "start" ELSE "inputs")
             /\ UNCHANGED <<row, alive, storeVars>>
    <3>1. Fits("start", w[o]) /\ Fits("inputs", w[o])
      BY <1>0, <2>0 DEF Fits
    <3> QED
      BY <1>5, <2>2, <3>1 DEF PCs
  <2>3. CASE /\ SelectCommand(Candidates(o)) = 1
             /\ Claim(o, Prefix(Claimable(o, "queued"), 1), FALSE, "command", "q")
    <3> DEFINE xs == Prefix(Claimable(o, "queued"), 1)
    <3>1. Claimable(o, "queued") # <<>>
      BY <1>0, <2>3, SelectedRows
    <3>2. xs \in Seq(Q) /\ xs # <<>>
      BY <1>2, <1>4, <3>1, PrefixRows
    <3> HIDE DEF xs
    <3>3. Claim(o, xs, FALSE, "command", "q")
      BY <2>3 DEF xs
    <3> QED
      BY <1>1, <2>0, <3>2, <3>3, ClaimStep
  <2> QED
    BY <1>6, <2>1, <2>2, <2>3 DEF DrainClaim
<1>7. CASE ClaimInputs(o)
  <2>0. pc[o] = "inputs"
    BY <1>7 DEF ClaimInputs, At
  <2>1. CASE EndDropped(o)
    BY <2>1, EndTypes
  <2>2. CASE Goto(o, "work") /\ UNCHANGED <<row, alive, storeVars>>
    <3>1. Fits("work", w[o])
      BY <1>0, <2>0 DEF Fits
    <3> QED
      BY <1>5, <2>2, <3>1 DEF PCs
  <2>3. CASE /\ Claimable(o, "deferred") # <<>>
             /\ Claim(o, Prefix(Claimable(o, "deferred"), MaxBatches), FALSE, "start", "ic")
    <3> DEFINE xs == Prefix(Claimable(o, "deferred"), MaxBatches)
    <3>2. xs \in Seq(D) /\ xs # <<>>
      BY <1>2, <1>4, <2>3, PrefixRows
    <3> HIDE DEF xs
    <3>3. Claim(o, xs, FALSE, "start", "ic")
      BY <2>3 DEF xs
    <3> QED
      BY <1>1, <2>0, <3>2, <3>3, ClaimStep
  <2> QED
    BY <1>7, <2>1, <2>2, <2>3 DEF ClaimInputs
<1>8. ASSUME NEW n, NEW boundary, n = SelectTurnWork(Candidates(o), boundary, MaxBatches), n > 0,
             NEW p \in {"start", "turn"}, Claim(o, Prefix(Claimable(o, "queued"), n), FALSE, p, "q"),
             pc[o] # "idle"
      PROVE  StoreInv'
  <2> DEFINE xs == Prefix(Claimable(o, "queued"), n)
  <2>1. n \in Nat \ {0} /\ Claimable(o, "queued") # <<>>
    BY <1>0, <1>8, SelectedRows
  <2>2. xs \in Seq(Q) /\ xs # <<>>
    BY <1>2, <2>1, PrefixRows
  <2> HIDE DEF xs
  <2>3. Claim(o, xs, FALSE, p, "q")
    BY <1>8 DEF xs
  <2> QED
    BY <1>1, <1>8, <2>2, <2>3, ClaimStep
<1>9. CASE ClaimWork(o)
  BY <1>8, <1>9, EndTypes DEF ClaimWork, At
<1>10. CASE CheckpointWork(o)
  <2>0. pc[o] = "checkpoint"
    BY <1>10 DEF CheckpointWork, At
  <2>1. Fits("turn", w[o])
    BY <1>0, <2>0 DEF Fits
  <2> QED
    BY <1>5, <1>8, <1>10, <2>0, <2>1, EndTypes DEF CheckpointWork, PCs
<1>11. CASE CheckpointInputs(o)
  <2> DEFINE mine == Among(Claimable(o, "pending_active"), {x \in Inputs : IngressOf[x] = w[o].turn})
             xs == Prefix(mine, MaxBatches)
  <2>0. pc[o] = "turn"
    BY <1>11 DEF CheckpointInputs, At
  <2>1. CASE EndLeaseLost(o)
    BY <2>1, EndTypes
  <2>2. CASE Goto(o, "checkpoint") /\ UNCHANGED <<row, alive, storeVars>>
    <3>1. Fits("checkpoint", w[o])
      BY <1>0, <2>0 DEF Fits
    <3> QED
      BY <1>5, <2>2, <3>1 DEF PCs
  <2>3. CASE mine # <<>> /\ Claim(o, xs, TRUE, "checkpoint", "ic")
    <3>1. mine \in Seq(P)
      <4> DEFINE T == {x \in Inputs : IngressOf[x] = w[o].turn}
      <4> HIDE DEF T
      <4>1. Among(Claimable(o, "pending_active"), T) \in Seq(P \cap T)
        BY <1>2, AmongSeq
      <4>2. \A s \in Seq(P \cap T) : s \in Seq(P)
        OBVIOUS
      <4> QED
        BY <4>1, <4>2 DEF T
    <3>2. Claim(o, xs, TRUE, "checkpoint", "ic")
      BY <2>3
    <3> HIDE DEF mine
    <3>3. xs \in Seq(P) /\ xs # <<>>
      BY <1>4, <2>3, <3>1, PrefixRows
    <3> HIDE DEF xs
    <3> QED
      BY <1>1, <1>3, <2>0, <3>2, <3>3, ClaimStep
  <2> QED
    BY <1>11, <2>1, <2>2, <2>3 DEF CheckpointInputs
<1> QED
  BY <1>6, <1>7, <1>9, <1>10, <1>11

-----------------------------------------------------------------------------
(* The commits. *)

Held(o) == Elems(w[o].q) \cup Elems(w[o].ic)

\* What a turn has picked up are rows and its own input.
LEMMA PickedUpRows ==
  ASSUME WorkTypes, NEW o \in Owners
  PROVE  /\ \A h \in Held(o) : h.items \subseteq Rows /\ h.id \in ClaimIds
         /\ PickedUp(o) \subseteq Rows \cup HostTurns
         /\ PickedUp(o) \cap Rows = UNION {h.items : h \in Held(o)}
         /\ PickedUp(o) \cap HostTurns \subseteq {w[o].turn}
         /\ HostTurns \cap Rows = {}
<1>1. w[o].q \in Seq(Handles(Batches)) /\ w[o].ic \in Seq(Handles(Inputs))
  BY DEF WorkTypes, Works
<1>2. \A h \in Held(o) : h \in Handles(Batches) \/ h \in Handles(Inputs)
  BY <1>1 DEF Held, Elems
<1>3. \A h \in Held(o) : h.items \subseteq Rows /\ h.id \in ClaimIds
  BY <1>2 DEF Handles, Rows
<1>4. HostTurns \cap Rows = {}
  BY RuntimeAssumption DEF Rows
<1> DEFINE I == UNION {h.items : h \in Held(o)}
<1>5. PickedUp(o) = I \cup ({w[o].turn} \cap HostTurns)
  BY DEF PickedUp, Held
<1>6. I \subseteq Rows
  <2> HIDE DEF Held
  <2> QED
    BY <1>3
<1> HIDE DEF I
<1>7. /\ PickedUp(o) \subseteq Rows \cup HostTurns
      /\ PickedUp(o) \cap Rows = I
      /\ PickedUp(o) \cap HostTurns \subseteq {w[o].turn}
  BY <1>4, <1>5, <1>6
<1> QED
  BY <1>3, <1>4, <1>7 DEF I

\* A commit that completes what its turn holds and writes it keeps the accounts:
\* what it completes was in the store, so it had not been written before.
LEMMA CommitAccounts ==
  ASSUME StoreInv, NEW o \in Owners, NEW W \in SUBSET (Rows \cup HostTurns), Writes(W),
         \A h \in Held(o) : Holds(h),
         W \cap Rows \subseteq UNION {h.items : h \in Held(o)},
         UNION {h.items : h \in Held(o)} \subseteq W \cup w[o].saved,
         \A x \in Rows : item'[x].st = "done" <=> Completed(Held(o))[x].st = "done",
         \A t \in HostTurns : stamp[t] # NoHash => stamp'[t] # NoHash,
         \A t \in HostTurns \cap W : stamp[t] = NoHash /\ stamp'[t] # NoHash,
         \A q \in Owners : w'[q].saved \in {w[q].saved, {}}
  PROVE  Accounts' /\ history' \in [Rows \cup HostTurns -> Nat]
<1>0. RowTypes /\ WorkTypes /\ history \in [Rows \cup HostTurns -> Nat] /\ Accounts
  BY DEF StoreInv, StoreTypes, LedgerTypes
<1>1. /\ history' = [x \in Rows \cup HostTurns |-> IF x \in W THEN history[x] + 1 ELSE history[x]]
      /\ history' \in [Rows \cup HostTurns -> Nat]
  BY <1>0 DEF Writes
<1>2. \A x \in Rows : /\ Completed(Held(o))[x].st \in {item[x].st, "done"}
                      /\ Completed(Held(o))[x].st = "done" /\ item[x].st # "done" =>
                           x \in UNION {h.items : h \in Held(o)}
                      /\ x \in UNION {h.items : h \in Held(o)} => Completed(Held(o))[x].st = "done"
  <2> HIDE DEF Held
  <2> QED
    BY <1>0, CompletedTypes
<1>3. \A x \in UNION {h.items : h \in Held(o)} : item[x].st \in Stored
  BY DEF Holds
<1> DEFINE I == UNION {h.items : h \in Held(o)}
<1> HIDE DEF I
<1>4. ASSUME NeverLost PROVE NeverLost'
  <2>1. ASSUME NEW x \in Rows, item'[x].st = "done" PROVE history'[x] > 0
    <3>1. CASE item[x].st = "done"
      BY <1>0, <1>1, <1>4, <3>1 DEF NeverLost
    <3>2. CASE item[x].st # "done"
      <4>1. x \in W \/ x \in w[o].saved
        BY <1>2, <2>1, <3>2 DEF I
      <4>2. x \in w[o].saved => history[x] > 0
        BY <1>4 DEF NeverLost
      <4> QED
        BY <1>0, <1>1, <4>1, <4>2
    <3> QED
      BY <3>1, <3>2
  <2>2. ASSUME NEW q \in Owners, NEW x \in w'[q].saved PROVE history'[x] > 0
    <3>1. x \in w[q].saved /\ history[x] > 0 /\ x \in Rows \cup HostTurns
      BY <1>0, <1>4, <2>2 DEF NeverLost, WorkTypes, Works
    <3> QED
      BY <1>0, <1>1, <3>1
  <2> QED
    BY <2>1, <2>2 DEF NeverLost
<1>5. ASSUME OnlyOnce PROVE OnlyOnce'
  <2>1. ASSUME NEW x \in Rows PROVE history'[x] <= 1 /\ (history'[x] > 0 => item'[x].st = "done")
    <3>1. history[x] \in Nat /\ history[x] <= 1 /\ (history[x] > 0 => item[x].st = "done")
      BY <1>0, <1>5 DEF OnlyOnce
    <3>2. CASE x \in W
      <4>1. x \in UNION {h.items : h \in Held(o)}
        BY <3>2
      <4>2. item[x].st # "done" /\ item'[x].st = "done"
        BY <1>2, <1>3, <4>1 DEF Stored
      <4> QED
        BY <1>1, <3>1, <3>2, <4>2
    <3>3. CASE x \notin W
      BY <1>1, <1>2, <3>1, <3>3
    <3> QED
      BY <3>2, <3>3
  <2>2. ASSUME NEW t \in HostTurns PROVE history'[t] <= 1 /\ (history'[t] > 0 => stamp'[t] # NoHash)
    <3>1. history[t] \in Nat /\ history[t] <= 1 /\ (history[t] > 0 => stamp[t] # NoHash)
      BY <1>0, <1>5 DEF OnlyOnce
    <3>2. history'[t] = IF t \in W THEN history[t] + 1 ELSE history[t]
      BY <1>1
    <3> QED
      BY <3>1, <3>2
  <2> QED
    BY <2>1, <2>2 DEF OnlyOnce
<1> QED
  BY <1>0, <1>1, <1>4, <1>5 DEF Accounts

\* A command commits with the completion of its batch.
LEMMA ApplyTypes ==
  ASSUME StoreInv, NEW o \in Owners, NEW reset, ApplyCommand(o, reset)
  PROVE  StoreInv'
<1>0. LaneBounds /\ RowTypes /\ WorkTypes /\ LedgerTypes /\ pc[o] = "apply"
  BY DEF StoreInv, StoreTypes, ApplyCommand, At
<1>1. CASE EndReleased(o) \/ EndDropped(o)
  BY <1>1, EndTypes
<1>2. CASE /\ Holds(w[o].q[1]) /\ head < MaxHead
           /\ item' = Completed(Elems(w[o].q))
           /\ Writes(PickedUp(o) \ HostTurns)
           /\ head' = head + 1
           /\ pc' = [pc EXCEPT ![o] = "drain"]
           /\ seen' = [seen EXCEPT ![o] = head + 1]
           /\ w' = [w EXCEPT ![o].q = <<>>]
           /\ UNCHANGED <<row, alive, fence, base, arrived, stamp>>
  <2>1. w[o] \in Works /\ Fits("apply", w[o])
    BY <1>0 DEF WorkTypes
  <2>2. Elems(w[o].q) = {w[o].q[1]} /\ Elems(w[o].ic) = {} /\ Held(o) = Elems(w[o].q)
    BY <2>1 DEF Fits, Works, Elems, Held
  <2>3. \A h \in Held(o) : Holds(h)
    BY <1>2, <2>2
  <2>4. /\ Completed(Held(o)) \in [Rows -> Items]
        /\ \A x \in Rows : Moves(x, item[x].st, Completed(Held(o))[x].st)
    BY <1>0, <2>3, CompletedTypes
  <2>5. RowTypes'
    BY <1>0, <1>2, <2>2, <2>4, MovesKeepRows
  <2> DEFINE r == [w[o] EXCEPT !.q = <<>>]
  <2>6. r \in Works /\ Fits("drain", r) /\ r.saved = w[o].saved
    BY <2>1 DEF Works, Fits
  <2>7. w' = [w EXCEPT ![o] = r]
    BY <1>2
  <2> HIDE DEF r
  <2>8. WorkTypes'
    BY <1>0, <1>2, <2>6, <2>7, WorkMoves DEF LaneBounds
  <2>9. LaneBounds'
    <3>1. head' \in 0..MaxHead /\ head + 1 <= head' /\ head + 1 \in Nat /\ "drain" \in PCs
      BY <1>0, <1>2, RuntimeAssumption DEF LaneBounds, PCs
    <3>2. /\ fence' = [fence EXCEPT ![o] = fence[o]] /\ base' = [base EXCEPT ![o] = base[o]]
          /\ fence[o] \in Nat /\ base[o] \in Nat /\ fence[o] <= row'.fence /\ base[o] <= head'
          /\ row' \in Row /\ row.fence <= row'.fence /\ head <= head' /\ alive' \subseteq Owners
      BY <1>0, <1>2 DEF LaneBounds, Row
    <3> QED
      BY <1>0, <1>2, <3>1, <3>2, LaneMoves
  <2>10. Accounts' /\ history' \in [Rows \cup HostTurns -> Nat]
    <3> DEFINE W == PickedUp(o) \ HostTurns
    <3>1. /\ PickedUp(o) \subseteq Rows \cup HostTurns
          /\ PickedUp(o) \cap Rows = UNION {h.items : h \in Held(o)}
          /\ HostTurns \cap Rows = {}
      BY <1>0, PickedUpRows
    <3>2. /\ W \subseteq Rows \cup HostTurns /\ W \cap HostTurns = {}
          /\ W \cap Rows \subseteq UNION {h.items : h \in Held(o)}
          /\ UNION {h.items : h \in Held(o)} \subseteq W \cup w[o].saved
      BY <3>1
    <3>3. Writes(W)
      BY <1>2
    <3>4. \A q \in Owners : w'[q].saved \in {w[q].saved, {}}
      BY <1>0, <2>6, <2>7 DEF WorkTypes
    <3> HIDE DEF W
    <3> QED
      BY <1>2, <2>2, <2>3, <3>2, <3>3, <3>4, CommitAccounts
  <2> QED
    BY <1>0, <1>2, <2>5, <2>8, <2>9, <2>10 DEF StoreInv, StoreTypes, LedgerTypes
<1> QED
  BY <1>1, <1>2 DEF ApplyCommand

\* The final commit of a turn that is accepted.
LEMMA AcceptedTypes ==
  ASSUME StoreInv, NEW o \in Owners, pc[o] = "commit", CommitAccepted(o)
  PROVE  StoreInv'
<1>0. LaneBounds /\ RowTypes /\ WorkTypes /\ LedgerTypes
  BY DEF StoreInv, StoreTypes
<1>1. /\ FirstCommit(o) /\ AllHeld(o) /\ head < MaxHead
      /\ item' = Deferred(Completed(Held(o)), o)
      /\ Writes(PickedUp(o) \ w[o].saved)
      /\ head' = head + 1
      /\ stamp' = [stamp EXCEPT ![w[o].turn] = Hash(o)]
      /\ row' = Release(row, o, fence[o])
      /\ Stop(o, head + 1)
      /\ UNCHANGED <<alive, arrived>>
  BY DEF CommitAccepted, Held
<1>2. w[o] \in Works /\ Fits("commit", w[o]) /\ w[o].turn \in Turns
  BY <1>0 DEF WorkTypes, Fits
<1>3. \A h \in Held(o) : Holds(h)
  BY <1>1 DEF AllHeld, Held
<1> DEFINE its == Completed(Held(o))
<1>4. /\ its \in [Rows -> Items]
      /\ \A x \in Rows : Moves(x, item[x].st, its[x].st)
  BY <1>0, <1>3, CompletedTypes
<1> HIDE DEF its
<1>5. /\ item' \in [Rows -> Items]
      /\ \A x \in Rows : \/ item'[x].st = its[x].st
                         \/ x \in Inputs /\ its[x].st = "pending_active" /\ item'[x].st = "deferred"
  BY <1>1, <1>4, DeferredTypes DEF its
<1>6. \A x \in Rows : Moves(x, item[x].st, item'[x].st) /\ (item'[x].st = "done" <=> its[x].st = "done")
  BY <1>4, <1>5 DEF Moves, InputStates
<1>7. RowTypes'
  BY <1>0, <1>1, <1>5, <1>6, MovesKeepRows
<1>8. LaneBounds' /\ WorkTypes' /\ \A q \in Owners : w'[q].saved \in {w[q].saved, {}}
  <2>1. head + 1 \in 0..MaxHead /\ head + 1 \in Nat /\ head <= head' /\ head + 1 <= head'
    BY <1>0, <1>1, RuntimeAssumption DEF LaneBounds
  <2>2. row' \in Row /\ row.fence <= row'.fence /\ alive' \subseteq Owners
    BY <1>0, <1>1, RowStep, FenceGrows DEF LaneBounds
  <2> QED
    BY <1>0, <1>1, <2>1, <2>2, StopTypes
<1>9. Hash(o) \in Hashes /\ Hash(o) # NoHash
  <2>1. HandleIds(o) \subseteq ClaimIds
    BY <1>0, PickedUpRows DEF HandleIds, Held
  <2>2. seen[o] \in 0..MaxHead /\ w[o].cancel \in BOOLEAN
    BY <1>0, <1>2, RuntimeAssumption DEF LaneBounds, Works
  <2> QED
    BY <2>1, <2>2 DEF Hash, Hashes, NoHash, ClaimIds
<1>10. /\ stamp' \in [Turns -> Hashes] /\ stamp'[w[o].turn] # NoHash /\ stamp[w[o].turn] = NoHash
       /\ \A t \in Turns : stamp[t] # NoHash => stamp'[t] # NoHash
  BY <1>0, <1>1, <1>2, <1>9 DEF LedgerTypes, FirstCommit
<1>11. Accounts' /\ history' \in [Rows \cup HostTurns -> Nat]
  <2> DEFINE W == PickedUp(o) \ w[o].saved
  <2>1. /\ PickedUp(o) \subseteq Rows \cup HostTurns
        /\ PickedUp(o) \cap Rows = UNION {h.items : h \in Held(o)}
        /\ PickedUp(o) \cap HostTurns \subseteq {w[o].turn}
    BY <1>0, PickedUpRows
  <2>2. /\ W \subseteq Rows \cup HostTurns /\ W \cap HostTurns \subseteq {w[o].turn}
        /\ W \cap Rows \subseteq UNION {h.items : h \in Held(o)}
        /\ UNION {h.items : h \in Held(o)} \subseteq W \cup w[o].saved
    BY <2>1
  <2>3. Writes(W)
    BY <1>1
  <2> HIDE DEF W
  <2>4. \A t \in HostTurns \cap W : stamp[t] = NoHash /\ stamp'[t] # NoHash
    BY <1>10, <2>2
  <2>5. \A t \in HostTurns : stamp[t] # NoHash => stamp'[t] # NoHash
    BY <1>10, RuntimeAssumption
  <2>6. \A x \in Rows : item'[x].st = "done" <=> Completed(Held(o))[x].st = "done"
    BY <1>6 DEF its
  <2> QED
    BY <1>3, <1>8, <2>2, <2>3, <2>4, <2>5, <2>6, CommitAccounts
<1> QED
  BY <1>7, <1>8, <1>10, <1>11 DEF StoreInv, StoreTypes, LedgerTypes

\* A commit that is refused: an atomic store has changed nothing, and the other
\* has deleted rows of claims that were held.
LEMMA RefusedTypes ==
  ASSUME StoreInv, NEW o \in Owners, CommitRefused(o)
  PROVE  StoreInv'
<1>0. LaneBounds /\ RowTypes /\ WorkTypes /\ LedgerTypes /\ Accounts
  BY DEF StoreInv, StoreTypes
<1>1. Stop(o, seen[o]) /\ UNCHANGED <<row, alive, arrived, head, stamp, history>>
  BY DEF CommitRefused
<1>2. CASE item' = item
  BY <1>1, <1>2, HaltTypes
<1>3. CASE item' = Completed(AppliedBeforeRefusal(o))
  <2> DEFINE A == AppliedBeforeRefusal(o)
  <2>1. \A h \in A : Holds(h)
    <3> DEFINE hs == w[o].q \o w[o].ic
    <3>1. A \subseteq {hs[i] : i \in {j \in DOMAIN hs : \A k \in 1..j : Holds(hs[k])}}
      BY DEF AppliedBeforeRefusal
    <3>2. w[o].q \in Seq(Handles(Batches)) /\ w[o].ic \in Seq(Handles(Inputs))
      BY <1>0 DEF WorkTypes, Works
    <3>3. \A j \in DOMAIN hs : j \in 1..j
      BY <3>2
    <3> HIDE DEF A, hs
    <3> QED
      BY <3>1, <3>3
  <2>2. AtomicCommit => A = {}
    BY DEF AppliedBeforeRefusal
  <2> HIDE DEF A
  <2>3. /\ item' \in [Rows -> Items]
        /\ \A x \in Rows : /\ Moves(x, item[x].st, item'[x].st)
                           /\ item'[x].st \in {item[x].st, "done"}
                           /\ item'[x].st = "done" /\ item[x].st # "done" => A # {}
    <3>1. item' = Completed(A)
      BY <1>3 DEF A
    <3> QED
      BY <1>0, <2>1, <3>1, CompletedTypes
  <2>4. RowTypes'
    BY <1>0, <1>1, <2>3, MovesKeepRows
  <2>5. row \in Row /\ row.fence \in Nat /\ seen[o] \in Nat /\ seen[o] <= head /\ head \in 0..MaxHead
    BY <1>0 DEF LaneBounds, Row
  <2>6. LaneBounds' /\ WorkTypes' /\ \A q \in Owners : w'[q].saved \in {w[q].saved, {}}
    BY <1>0, <1>1, <2>5, StopTypes DEF LaneBounds
  <2>7. AtomicCommit => NeverLost'
    BY <1>0, <1>1, <2>2, <2>3, <2>6 DEF Accounts, NeverLost
  <2>8. Durable => OnlyOnce'
    BY <1>0, <1>1, <2>3 DEF Accounts, OnlyOnce
  <2> QED
    BY <1>0, <1>1, <2>4, <2>6, <2>7, <2>8 DEF StoreInv, StoreTypes, LedgerTypes, Accounts
<1> QED
  BY <1>2, <1>3 DEF CommitRefused

\* A commit of progress, with an inline controller.
LEMMA ProgressTypes ==
  ASSUME StoreInv, NEW o \in Owners, ~Durable, pc[o] \in {"prepare", "turn"}, ProgressCommitted(o)
  PROVE  StoreInv'
<1>0. LaneBounds /\ RowTypes /\ WorkTypes /\ LedgerTypes /\ Accounts
  BY DEF StoreInv, StoreTypes
<1>1. /\ head < MaxHead /\ head' = head + 1
      /\ Writes(PickedUp(o) \ w[o].saved)
      /\ pc' = [pc EXCEPT ![o] = "turn"]
      /\ base' = [base EXCEPT ![o] = head + 1]
      /\ w' = [w EXCEPT ![o].saved = PickedUp(o)]
      /\ UNCHANGED <<row, alive, fence, seen, arrived, item, stamp>>
  BY DEF ProgressCommitted
<1>2. w[o] \in Works /\ Fits(pc[o], w[o]) /\ PickedUp(o) \subseteq Rows \cup HostTurns
  BY <1>0, PickedUpRows DEF WorkTypes
<1> DEFINE r == [w[o] EXCEPT !.saved = PickedUp(o)]
<1>3. r \in Works /\ Fits("turn", r) /\ r.saved = PickedUp(o)
  BY <1>2 DEF Works, Fits
<1>4. w' = [w EXCEPT ![o] = r]
  BY <1>1
<1> HIDE DEF r
<1>5. WorkTypes'
  BY <1>0, <1>1, <1>3, <1>4, WorkMoves DEF LaneBounds
<1>6. LaneBounds'
  <2>1. head' \in 0..MaxHead /\ head + 1 <= head' /\ head + 1 \in Nat /\ "turn" \in PCs
    BY <1>0, <1>1, RuntimeAssumption DEF LaneBounds, PCs
  <2>2. /\ fence' = [fence EXCEPT ![o] = fence[o]] /\ seen' = [seen EXCEPT ![o] = seen[o]]
        /\ fence[o] \in Nat /\ seen[o] \in Nat /\ fence[o] <= row'.fence /\ seen[o] <= head'
        /\ row' \in Row /\ row.fence <= row'.fence /\ head <= head' /\ alive' \subseteq Owners
    BY <1>0, <1>1 DEF LaneBounds, Row
  <2> QED
    BY <1>0, <1>1, <2>1, <2>2, LaneMoves
<1>7. RowTypes'
  BY <1>0, <1>1 DEF RowTypes, Elems
<1>8. /\ history' \in [Rows \cup HostTurns -> Nat]
      /\ \A x \in Rows \cup HostTurns :
           history'[x] = IF x \in PickedUp(o) \ w[o].saved THEN history[x] + 1 ELSE history[x]
  BY <1>0, <1>1 DEF LedgerTypes, Writes
<1>9. NeverLost => NeverLost'
  <2> SUFFICES ASSUME NeverLost PROVE NeverLost'
    OBVIOUS
  <2>1. \A x \in Rows \cup HostTurns : history[x] \in Nat /\ (history[x] > 0 => history'[x] > 0)
    BY <1>0, <1>8 DEF LedgerTypes
  <2>2. \A x \in Rows : item'[x].st = "done" => history'[x] > 0
    BY <1>1, <2>1 DEF NeverLost
  <2>3. ASSUME NEW q \in Owners, NEW x \in w'[q].saved PROVE history'[x] > 0
    <3>1. CASE q = o
      <4>1. x \in PickedUp(o) /\ x \in Rows \cup HostTurns
        BY <1>0, <1>2, <1>3, <1>4, <2>3, <3>1 DEF WorkTypes
      <4>2. CASE x \in w[o].saved
        BY <2>1, <4>1, <4>2 DEF NeverLost
      <4>3. CASE x \notin w[o].saved
        BY <1>8, <2>1, <4>1, <4>3
      <4> QED
        BY <4>2, <4>3
    <3>2. CASE q # o
      <4>1. x \in w[q].saved /\ x \in Rows \cup HostTurns
        BY <1>0, <1>4, <2>3, <3>2 DEF WorkTypes, Works
      <4> QED
        BY <2>1, <4>1 DEF NeverLost
    <3> QED
      BY <3>1, <3>2
  <2> QED
    BY <2>2, <2>3 DEF NeverLost
<1> QED
  BY <1>0, <1>1, <1>5, <1>6, <1>7, <1>8, <1>9 DEF StoreInv, StoreTypes, LedgerTypes, Accounts

-----------------------------------------------------------------------------
(* The other steps. *)

\* A runtime that takes the lane starts with nothing picked up.
LEMMA OpenTypes ==
  ASSUME StoreInv, NEW o \in Owners, NEW t \in Turns, Open(o, t)
  PROVE  StoreInv'
<1>0. LaneBounds /\ RowTypes /\ WorkTypes /\ LedgerTypes /\ Accounts
  BY DEF StoreInv, StoreTypes
<1> DEFINE p == IF t \in HostTurns THEN "drain" ELSE "precede"
<1>1. /\ pc' = [pc EXCEPT ![o] = p] /\ fence' = [fence EXCEPT ![o] = row'.fence]
      /\ w' = [w EXCEPT ![o] = NoRun(t)]
      /\ UNCHANGED <<alive, seen, base, arrived, item, head, stamp, history>>
  BY DEF Open, storeVars
<1>2. row' \in Row /\ row.fence <= row'.fence /\ row'.fence \in Nat
  <2>1. row' = Acquire(row, o) \/ row' = Extend(row)
    BY DEF Open
  <2>2. row \in Row /\ row' \in Row
    BY <1>0, <2>1, RowStep DEF LaneBounds
  <2> QED
    BY <2>1, <2>2, FenceGrows DEF Row
<1>3. p \in PCs /\ p \in {"drain", "precede"}
  BY DEF PCs
<1> HIDE DEF p
<1>4. LaneBounds'
  <2>1. /\ seen' = [seen EXCEPT ![o] = seen[o]] /\ base' = [base EXCEPT ![o] = base[o]]
        /\ seen[o] \in Nat /\ base[o] \in Nat /\ seen[o] <= head' /\ base[o] <= head'
        /\ head' \in 0..MaxHead /\ head <= head' /\ alive' \subseteq Owners
        /\ row'.fence <= row'.fence
    BY <1>0, <1>1, <1>2 DEF LaneBounds
  <2> QED
    BY <1>0, <1>1, <1>2, <1>3, <2>1, LaneMoves
<1>5. WorkTypes' /\ \A q \in Owners : w'[q].saved \in {w[q].saved, {}}
  <2> DEFINE r == NoRun(t)
  <2>1. r \in Works /\ Fits(p, r) /\ r.saved = {}
    BY <1>3 DEF NoRun, Works, Fits
  <2>2. w' = [w EXCEPT ![o] = r]
    BY <1>1
  <2> HIDE DEF r
  <2>3. WorkTypes'
    BY <1>0, <1>1, <2>1, <2>2, WorkMoves DEF LaneBounds
  <2> QED
    BY <1>0, <2>1, <2>2, <2>3 DEF WorkTypes
<1>6. RowTypes' /\ Unwritten
  BY <1>0, <1>1, <1>5 DEF RowTypes, Elems, Unwritten
<1> QED
  BY <1>0, <1>4, <1>5, <1>6, UnwrittenAccounts DEF StoreInv, StoreTypes

\* A runtime loads the head of the session.
LEMMA LoadTypes ==
  ASSUME StoreInv, NEW o \in Owners, RefreshForCommand(o) \/ Start(o)
  PROVE  StoreInv'
<1>0. LaneBounds /\ RowTypes /\ WorkTypes /\ LedgerTypes /\ Accounts /\ Fits(pc[o], w[o])
  BY DEF StoreInv, StoreTypes, WorkTypes
<1>1. UNCHANGED <<row, alive, fence, w, arrived, item, head, stamp, history>>
  BY DEF RefreshForCommand, Start, storeVars
<1>2. PICK p \in {"apply", "prepare"}, b \in {base[o], head} :
        /\ pc' = [pc EXCEPT ![o] = p] /\ seen' = [seen EXCEPT ![o] = head]
        /\ base' = [base EXCEPT ![o] = b] /\ Fits(p, w[o])
  <2>1. CASE RefreshForCommand(o)
    <3>1. base' = [base EXCEPT ![o] = base[o]] /\ pc' = [pc EXCEPT ![o] = "apply"]
          /\ seen' = [seen EXCEPT ![o] = head] /\ pc[o] = "command"
      BY <1>0, <2>1 DEF RefreshForCommand, LaneBounds, At
    <3>2. Fits("apply", w[o])
      BY <1>0, <3>1 DEF Fits
    <3> QED
      BY <3>1, <3>2
  <2>2. CASE Start(o)
    <3>1. base' = [base EXCEPT ![o] = head] /\ pc' = [pc EXCEPT ![o] = "prepare"]
          /\ seen' = [seen EXCEPT ![o] = head] /\ pc[o] = "start"
      BY <1>0, <2>2 DEF Start, At
    <3>2. Fits("prepare", w[o])
      BY <1>0, <3>1 DEF Fits
    <3> QED
      BY <3>1, <3>2
  <2> QED
    BY <2>1, <2>2
<1>3. LaneBounds'
  <2>1. /\ fence' = [fence EXCEPT ![o] = fence[o]] /\ p \in PCs
        /\ fence[o] \in Nat /\ b \in Nat /\ head \in Nat /\ fence[o] <= row'.fence /\ b <= head'
        /\ head <= head' /\ row' \in Row /\ row.fence <= row'.fence
        /\ head' \in 0..MaxHead /\ alive' \subseteq Owners
    BY <1>0, <1>1 DEF LaneBounds, Row, PCs
  <2> QED
    BY <1>0, <1>2, <2>1, LaneMoves
<1>4. WorkTypes'
  BY <1>0, <1>1, <1>2, WorkKept DEF LaneBounds
<1>5. RowTypes' /\ Unwritten
  BY <1>0, <1>1 DEF RowTypes, Elems, Unwritten
<1> QED
  BY <1>0, <1>3, <1>4, <1>5, UnwrittenAccounts DEF StoreInv, StoreTypes

\* Renewals, interruptions and hooks touch the lane or a flag of the run.
LEMMA FlagTypes ==
  ASSUME StoreInv, NEW o \in Owners, Renew(o) \/ Interrupt(o) \/ HookCommit(o)
  PROVE  StoreInv'
<1>0. LaneBounds /\ RowTypes /\ WorkTypes /\ LedgerTypes /\ Accounts
  BY DEF StoreInv, StoreTypes
<1>1. UNCHANGED <<alive, pc, fence, seen, base, arrived, item, stamp, history>>
  BY DEF Renew, Interrupt, HookCommit, storeVars, workerVars
<1>2. row' \in Row /\ row.fence <= row'.fence /\ head' \in 0..MaxHead /\ head <= head'
  <2>0. row \in Row /\ row.fence \in Nat /\ head \in 0..MaxHead
    BY <1>0 DEF LaneBounds, Row
  <2>1. CASE Renew(o) \/ Interrupt(o)
    BY <2>0, <2>1, RowStep, FenceGrows DEF Renew, Interrupt, storeVars
  <2>2. CASE HookCommit(o)
    <3> DEFINE r == IF IsLive(row) /\ row.owner = o THEN Extend(row) ELSE Acquire(row, o)
    <3>1. r \in Row /\ row.fence <= r.fence
      BY <2>0, RowStep, FenceGrows
    <3>2. \/ head < MaxHead /\ head' = head + 1 /\ row' = Release(r, o, r.fence)
          \/ row' = r /\ head' = head
      BY <2>2 DEF HookCommit
    <3> HIDE DEF r
    <3>3. Release(r, o, r.fence) \in Row /\ Release(r, o, r.fence).fence = r.fence
      BY <3>1, RowStep, FenceGrows
    <3> QED
      BY <2>0, <3>1, <3>2, <3>3, RuntimeAssumption
  <2> QED
    BY <2>1, <2>2
<1>3. LaneBounds'
  BY <1>0, <1>1, <1>2, LaneStays DEF LaneBounds
<1>4. WorkTypes' /\ \A q \in Owners : w'[q].saved = w[q].saved
  <2>1. CASE w' = w
    BY <1>0, <1>1, <2>1 DEF WorkTypes
  <2>2. CASE w' # w
    <3>1. PICK l \in BOOLEAN : w' = [w EXCEPT ![o] = [w[o] EXCEPT !.lost = l, !.cancel = TRUE]]
      <4>1. w[o] \in Works /\ w[o].lost \in BOOLEAN
        BY <1>0 DEF WorkTypes, Works
      <4>2. CASE Renew(o)
        <5>1. w' = [w EXCEPT ![o] = [w[o] EXCEPT !.lost = TRUE, !.cancel = TRUE]]
          BY <1>0, <2>2, <4>2 DEF Renew, WorkTypes
        <5> QED
          BY <5>1
      <4>3. CASE Interrupt(o)
        <5>1. w' = [w EXCEPT ![o] = [w[o] EXCEPT !.cancel = TRUE]]
          BY <2>2, <4>3 DEF Interrupt
        <5>2. [w[o] EXCEPT !.cancel = TRUE] = [w[o] EXCEPT !.lost = w[o].lost, !.cancel = TRUE]
          BY <4>1 DEF Works
        <5> QED
          BY <4>1, <5>1, <5>2
      <4> QED
        BY <2>2, <4>2, <4>3 DEF HookCommit, workerVars
    <3> DEFINE r == [w[o] EXCEPT !.lost = l, !.cancel = TRUE]
    <3>2. w[o] \in Works /\ Fits(pc[o], w[o])
      BY <1>0 DEF WorkTypes
    <3>3. r \in Works /\ r.saved = w[o].saved /\ Fits(pc[o], r)
      BY <3>2 DEF Works, Fits
    <3>4. w' = [w EXCEPT ![o] = r] /\ pc' = [pc EXCEPT ![o] = pc[o]]
      BY <1>0, <1>1, <3>1 DEF LaneBounds
    <3> HIDE DEF r
    <3>5. WorkTypes'
      BY <1>0, <3>3, <3>4, WorkMoves DEF LaneBounds
    <3> QED
      BY <1>0, <3>3, <3>4, <3>5 DEF WorkTypes
  <2> QED
    BY <2>1, <2>2
<1>5. RowTypes' /\ Unwritten
  BY <1>0, <1>1, <1>4 DEF RowTypes, Elems, Unwritten
<1> QED
  BY <1>0, <1>3, <1>4, <1>5, UnwrittenAccounts DEF StoreInv, StoreTypes

\* The checks around the finalize hooks.
LEMMA EnsureTypes ==
  ASSUME StoreInv, NEW o \in Owners, NEW from \in {"turn", "finalize"}, NEW to \in {"finalize", "commit"},
         EnsureLive(o, from, to)
  PROVE  StoreInv'
<1>0. LaneBounds /\ WorkTypes /\ Fits(pc[o], w[o]) /\ pc[o] = from
  BY DEF StoreInv, StoreTypes, WorkTypes, EnsureLive, At
<1>1. CASE row' = Extend(row) /\ Goto(o, to) /\ UNCHANGED <<alive, storeVars>>
  <2>1. row' \in Row /\ row.fence <= row'.fence
    BY <1>0, <1>1, RowStep, FenceGrows DEF LaneBounds
  <2>2. Fits(to, w[o]) /\ to \in PCs
    BY <1>0 DEF Fits, PCs
  <2> QED
    BY <1>1, <2>1, <2>2, GotoTypes
<1>2. CASE /\ item' = Abandoned(o)
           /\ Stop(o, seen[o])
           /\ UNCHANGED <<row, alive, arrived, head, stamp, history>>
  BY <1>2, HaltTypes
<1> QED
  BY <1>1, <1>2 DEF EnsureLive

\* Rows arrive and are cancelled.
LEMMA HostTypes ==
  ASSUME StoreInv, NEW x \in Rows, Enqueue(x) \/ Cancel(x)
  PROVE  StoreInv'
<1>0. LaneBounds /\ RowTypes /\ WorkTypes /\ LedgerTypes /\ Accounts
  BY DEF StoreInv, StoreTypes
<1>1. UNCHANGED <<row, alive, pc, fence, seen, base, w, head, stamp, history>>
  BY DEF Enqueue, Cancel, workerVars
<1>2. LaneBounds' /\ WorkTypes'
  BY <1>0, <1>1 DEF LaneBounds, WorkTypes
<1>3. item[x] \in Items /\ item[x].claim \in Claims
  BY <1>0 DEF RowTypes, Items
<1>4. RowTypes' /\ \A y \in Rows : item'[y].st = "done" <=> item[y].st = "done"
  <2>1. CASE Enqueue(x)
    <3> DEFINE s == IF x \in Batches THEN "queued"
                    ELSE IF IngressOf[x] \in Turns THEN "pending_active" ELSE "deferred"
    <3>1. item[x].st = "new" /\ item' = [item EXCEPT ![x].st = s] /\ arrived' = Append(arrived, x)
      BY <2>1 DEF Enqueue
    <3>2. s \in Stored /\ (x \in Batches => s \notin InputStates) /\ (x \in Inputs => s # "queued")
      BY RuntimeAssumption DEF Stored, InputStates
    <3> HIDE DEF s
    <3> DEFINE v == [item[x] EXCEPT !.st = s]
    <3>3. v \in Items /\ v.st = s
      BY <1>3, <3>2 DEF Items, States
    <3>4. item' = [item EXCEPT ![x] = v]
      BY <3>1
    <3> HIDE DEF v
    <3>5. item' \in [Rows -> Items] /\ item'[x].st = s /\ \A y \in Rows \ {x} : item'[y] = item[y]
      BY <1>0, <3>3, <3>4 DEF RowTypes
    <3>6. /\ \A y \in Batches : item'[y].st \notin InputStates
          /\ \A y \in Inputs : item'[y].st # "queued"
      BY <1>0, <3>2, <3>5 DEF RowTypes, Rows
    <3>7. arrived' \in Seq(Rows) /\ Elems(arrived') = Elems(arrived) \cup {x}
      BY <1>0, <3>1 DEF RowTypes, Elems
    <3>8. s # "new" /\ s # "done"
      BY <3>2 DEF Stored
    <3>9. Elems(arrived') = {y \in Rows : item'[y].st # "new"}
      BY <1>0, <3>5, <3>7, <3>8 DEF RowTypes
    <3> QED
      BY <3>1, <3>5, <3>6, <3>7, <3>8, <3>9 DEF RowTypes, Elems
  <2>2. CASE Cancel(x)
    <3> DEFINE v == [st |-> "cancelled", claim |-> Unclaimed]
    <3>1. item[x].st \in Stored /\ item' = [item EXCEPT ![x] = v] /\ arrived' = arrived
      BY <2>2 DEF Cancel, Listed
    <3>2. v \in Items /\ v.st = "cancelled"
      BY <1>3, ClaimTypes DEF Items, States
    <3> HIDE DEF v
    <3>3. item' \in [Rows -> Items] /\ item'[x].st = "cancelled" /\ \A y \in Rows \ {x} : item'[y] = item[y]
      BY <1>0, <3>1, <3>2 DEF RowTypes
    <3>4. \A y \in Rows : Moves(y, item[y].st, item'[y].st)
      BY <3>1, <3>3 DEF Moves
    <3>5. RowTypes'
      BY <1>0, <3>1, <3>3, <3>4, MovesKeepRows
    <3> QED
      BY <3>1, <3>3, <3>5 DEF Stored
  <2> QED
    BY <2>1, <2>2
<1>5. Unwritten
  BY <1>1, <1>4 DEF Unwritten
<1> QED
  BY <1>0, <1>2, <1>4, <1>5, UnwrittenAccounts DEF StoreInv, StoreTypes

\* Time passes.
LEMMA TickTypes ==
  ASSUME StoreInv, Tick
  PROVE  StoreInv'
<1>0. LaneBounds /\ RowTypes /\ WorkTypes /\ LedgerTypes /\ Accounts
  BY DEF StoreInv, StoreTypes
<1>1. /\ row' = [row EXCEPT !.left = Countdown(@)]
      /\ item' = [x \in Rows |-> [item[x] EXCEPT !.claim.left = Countdown(@)]]
      /\ UNCHANGED <<alive, pc, fence, seen, base, w, arrived, head, stamp, history>>
  BY DEF Tick, workerVars
<1>2. row' \in Row /\ row'.fence = row.fence /\ row.fence \in Nat
  <2>1. row \in Row /\ Countdown(row.left) \in 0..TTL
    BY <1>0, LeaseAssumption DEF LaneBounds, Row, Countdown
  <2> QED
    BY <1>1, <2>1 DEF Row
<1>3. LaneBounds' /\ WorkTypes'
  BY <1>0, <1>1, <1>2, LaneStays DEF LaneBounds, WorkTypes
<1>4. ASSUME NEW x \in Rows PROVE item'[x] \in Items /\ item'[x].st = item[x].st
  <2>1. item[x] \in Items /\ item[x].claim \in Claims
    BY <1>0 DEF RowTypes, Items
  <2>2. Countdown(item[x].claim.left) \in 0..ClaimTTL
    BY <2>1, ClaimAssumption DEF Claims, Countdown
  <2> DEFINE c == [item[x].claim EXCEPT !.left = Countdown(item[x].claim.left)]
  <2>3. c \in Claims
    BY <2>1, <2>2 DEF Claims
  <2>4. item'[x] = [item[x] EXCEPT !.claim = c]
    BY <1>1
  <2> HIDE DEF c
  <2> QED
    BY <2>1, <2>3, <2>4 DEF Items
<1>5. RowTypes'
  <2>1. item' \in [Rows -> Items] /\ \A x \in Rows : Moves(x, item[x].st, item'[x].st)
    BY <1>1, <1>4 DEF Moves
  <2> QED
    BY <1>0, <1>1, <2>1, MovesKeepRows
<1>6. Unwritten
  BY <1>1, <1>4 DEF Unwritten
<1> QED
  BY <1>0, <1>3, <1>5, <1>6, UnwrittenAccounts DEF StoreInv, StoreTypes

-----------------------------------------------------------------------------
\* Every step of the system keeps the types and the accounts.
LEMMA StoreInvStep ==
  ASSUME StoreInv, [Next]_vars
  PROVE  StoreInv'
<1>0. LaneBounds /\ WorkTypes
  BY DEF StoreInv, StoreTypes
<1>1. ASSUME NEW o \in Owners, Precede(o) PROVE StoreInv'
  <2>1. pc[o] = "precede" /\ Fits(pc[o], w[o]) /\ row' \in Row /\ row.fence <= row'.fence
    BY <1>0, <1>1 DEF Precede, At, WorkTypes, LaneBounds, Row
  <2>2. Fits("drain", w[o]) /\ Fits("inputs", w[o])
    BY <2>1 DEF Fits
  <2> QED
    BY <1>1, <2>1, <2>2, GotoTypes DEF Precede, PCs
<1>2. ASSUME NEW o \in Owners, Prepare(o) PROVE StoreInv'
  <2>1. pc[o] = "prepare" /\ Fits(pc[o], w[o])
    BY <1>0, <1>2 DEF Prepare, At, WorkTypes
  <2>2. CASE Goto(o, "turn") /\ UNCHANGED <<row, alive, storeVars>>
    <3>1. Fits("turn", w[o]) /\ row' \in Row /\ row.fence <= row'.fence
      BY <1>0, <2>1, <2>2 DEF Fits, LaneBounds, Row
    <3> QED
      BY <2>2, <3>1, GotoTypes DEF PCs
  <2> QED
    BY <1>2, <2>1, <2>2, ProgressTypes, EndTypes DEF Prepare
<1>3. ASSUME NEW o \in Owners, Progress(o) PROVE StoreInv'
  BY <1>3, ProgressTypes, EndTypes DEF Progress, At
<1>4. ASSUME NEW o \in Owners, Commit(o) PROVE StoreInv'
  <2>1. pc[o] = "commit"
    BY <1>4 DEF Commit, At
  <2>2. CASE CommitRepeated(o)
    BY <2>2, HaltTypes DEF CommitRepeated, storeVars
  <2>3. CASE CommitLeaseLost(o)
    BY <2>3, EndTypes DEF CommitLeaseLost
  <2> QED
    BY <1>4, <2>1, <2>2, <2>3, AcceptedTypes, RefusedTypes DEF Commit
<1>5. ASSUME NEW o \in Owners, Crash(o) PROVE StoreInv'
  <2>0. RowTypes /\ LedgerTypes /\ Accounts
    BY DEF StoreInv, StoreTypes
  <2>1. Stop(o, 0) /\ alive' \subseteq Owners /\ UNCHANGED <<row, arrived, item, head, stamp, history>>
    BY <1>0, <1>5 DEF Crash, storeVars, LaneBounds
  <2>2. row' \in Row /\ row.fence <= row'.fence /\ head' \in 0..MaxHead /\ head <= head' /\ 0 <= head'
    BY <1>0, <2>1 DEF LaneBounds, Row
  <2>3. LaneBounds' /\ WorkTypes' /\ \A q \in Owners : w'[q].saved \in {w[q].saved, {}}
    BY <1>0, <2>1, <2>2, StopTypes
  <2>4. RowTypes' /\ Unwritten
    BY <2>0, <2>1, <2>3 DEF RowTypes, Elems, Unwritten
  <2> QED
    BY <2>0, <2>3, <2>4, UnwrittenAccounts DEF StoreInv, StoreTypes
<1>6. CASE UNCHANGED vars
  BY <1>6 DEF vars, workerVars, storeVars, StoreInv, StoreTypes, LaneBounds, RowTypes, Elems,
              WorkTypes, LedgerTypes, Accounts, NeverLost, OnlyOnce
<1>7. ASSUME NEW o \in Owners, Finish(o) \/ Finalize(o) PROVE StoreInv'
  BY <1>7, EnsureTypes DEF Finish, Finalize
<1>8. ASSUME NEW o \in Owners, Fail(o) PROVE StoreInv'
  BY <1>8, EndTypes DEF Fail
<1>9. ASSUME NEW o \in Owners, RunStep(o) PROVE StoreInv'
  BY <1>1, <1>2, <1>3, <1>4, <1>7, <1>8, <1>9, OpenTypes, LoadTypes, ApplyTypes, ClaimingTypes,
     FlagTypes DEF RunStep
<1> QED
  BY <1>5, <1>6, <1>9, HostTypes, TickTypes DEF Next

\* The invariant of the store holds at first.
LEMMA StoreInvInit == Init => StoreInv
<1> SUFFICES ASSUME Init PROVE StoreInv
  OBVIOUS
<1>0. MaxHead \in Nat /\ MaxToken \in Nat /\ TTL \in Nat /\ ClaimTTL \in Nat
  BY RuntimeAssumption, LeaseAssumption, ClaimAssumption
<1>1. LaneBounds
  BY <1>0 DEF Init, LaneBounds, EmptyRow, Row, PCs
<1>2. RowTypes
  <2>1. \A x \in Rows : item[x] = [st |-> "new", claim |-> Unclaimed]
    BY DEF Init
  <2>2. [st |-> "new", claim |-> Unclaimed] \in Items
    BY <1>0 DEF Items, States, Claims, Unclaimed
  <2>3. item \in [Rows -> Items]
    BY <2>2 DEF Init
  <2> QED
    BY <2>1, <2>3 DEF Init, RowTypes, InputStates, Rows, Elems
<1>3. WorkTypes
  <2> DEFINE r == NoRun(NoTurn)
  <2>1. r \in Works /\ Fits("idle", r)
    BY DEF NoRun, Works, Fits
  <2> HIDE DEF r
  <2>2. w = [o \in Owners |-> r] /\ pc = [o \in Owners |-> "idle"]
    BY DEF Init, r
  <2> QED
    BY <2>1, <2>2 DEF WorkTypes
<1>4. LedgerTypes
  <2>1. NoHash \in Hashes
    BY <1>0 DEF NoHash, Hashes
  <2> QED
    BY <2>1 DEF Init, LedgerTypes
<1>5. Accounts
  <2>1. /\ \A x \in Rows \cup HostTurns : history[x] = 0
        /\ \A x \in Rows : item[x].st # "done"
        /\ \A o \in Owners : w[o].saved = {}
    BY DEF Init, NoRun
  <2> QED
    BY <2>1 DEF Accounts, NeverLost, OnlyOnce
<1> QED
  BY <1>1, <1>2, <1>3, <1>4, <1>5 DEF StoreInv, StoreTypes

\* For all constants: fences and revisions that a runtime remembers have been
\* there, it holds batches and inputs of the store, every row that arrived is in
\* the queue, and claims stay within their bounds.
THEOREM RuntimeTypes == Spec => []TypeOK
<1>1. StoreInv => TypeOK
  <2> SUFFICES ASSUME StoreInv PROVE TypeOK
    OBVIOUS
  <2>0. LaneBounds /\ RowTypes /\ WorkTypes /\ LedgerTypes
    BY DEF StoreInv, StoreTypes
  <2>1. ASSUME NEW o \in Owners
        PROVE  /\ pc[o] \in PCs /\ w[o].turn \in Turns \cup {NoTurn}
               /\ fence[o] \in 0..row.fence
               /\ seen[o] \in 0..head /\ base[o] \in 0..head
               /\ w[o].lost \in BOOLEAN /\ w[o].cancel \in BOOLEAN
               /\ w[o].saved \subseteq Rows \cup HostTurns
               /\ \A h \in Elems(w[o].q) : h.items \subseteq Batches
               /\ \A h \in Elems(w[o].ic) : h.items \subseteq Inputs
    <3>1. /\ pc[o] \in PCs /\ fence[o] \in 0..row.fence
          /\ seen[o] \in 0..head /\ base[o] \in 0..head
      BY <2>0 DEF LaneBounds, Row
    <3>2. /\ w[o].turn \in Turns \cup {NoTurn} /\ w[o].lost \in BOOLEAN /\ w[o].cancel \in BOOLEAN
          /\ w[o].saved \subseteq Rows \cup HostTurns
          /\ w[o].q \in Seq(Handles(Batches)) /\ w[o].ic \in Seq(Handles(Inputs))
      BY <2>0 DEF WorkTypes, Works
    <3>3. /\ \A h \in Elems(w[o].q) : h \in Handles(Batches)
          /\ \A h \in Elems(w[o].ic) : h \in Handles(Inputs)
      BY <3>2 DEF Elems
    <3> QED
      BY <3>1, <3>2, <3>3 DEF Handles
  <2>2. ASSUME NEW x \in Rows
        PROVE  /\ item[x].st \in Stored \cup {"new", "done", "cancelled"}
               /\ item[x].claim.by \in Owners \cup {NoOwner}
               /\ item[x].claim.tok \in 0..MaxToken /\ item[x].claim.left \in 0..ClaimTTL
    BY <2>0 DEF RowTypes, Items, States, Claims
  <2>3. row \in Row /\ alive \subseteq Owners /\ head \in 0..MaxHead
    BY <2>0 DEF LaneBounds
  <2> QED
    BY <2>0, <2>1, <2>2, <2>3 DEF TypeOK, RowTypes, LedgerTypes, Hashes
<1> QED
  BY <1>1, StoreInvInit, StoreInvStep, PTL DEF Spec

\* For all constants, with a store whose commits are atomic, and whether or not
\* the controller is durable: a batch or input leaves the store only by being
\* written into the session or by being cancelled.
THEOREM NothingLostTheorem ==
  ASSUME AtomicCommit = TRUE
  PROVE  Spec => []NothingLost
<1>1. StoreInv => NothingLost
  BY DEF StoreInv, Accounts, NeverLost, NothingLost
<1> QED
  BY <1>1, StoreInvInit, StoreInvStep, PTL DEF Spec

\* For all constants, on a durable controller and with either kind of store: no
\* batch, input or turn is written into the session twice.
THEOREM NothingTwiceTheorem ==
  ASSUME Durable = TRUE
  PROVE  Spec => []NothingTwice
<1>1. StoreInv => NothingTwice
  <2> SUFFICES ASSUME StoreInv PROVE NothingTwice
    OBVIOUS
  <2>1. OnlyOnce /\ history \in [Rows \cup HostTurns -> Nat]
    BY DEF StoreInv, StoreTypes, LedgerTypes, Accounts
  <2> QED
    BY <2>1 DEF OnlyOnce, NothingTwice, Rows
<1> QED
  BY <1>1, StoreInvInit, StoreInvStep, PTL DEF Spec

\* For all constants, on a durable controller: what the user has cancelled is
\* never written into the session, before or after the cancellation.
THEOREM CancelledTheorem ==
  ASSUME Durable = TRUE
  PROVE  Spec => []CancelledNeverRuns
<1>1. StoreInv => CancelledNeverRuns
  <2> SUFFICES ASSUME StoreInv PROVE CancelledNeverRuns
    OBVIOUS
  <2>1. OnlyOnce /\ history \in [Rows \cup HostTurns -> Nat]
    BY DEF StoreInv, StoreTypes, LedgerTypes, Accounts
  <2> QED
    BY <2>1 DEF OnlyOnce, CancelledNeverRuns, Rows
<1> QED
  BY <1>1, StoreInvInit, StoreInvStep, PTL DEF Spec
=============================================================================
