--------------------------- MODULE SessionRuntime ---------------------------
(***************************************************************************)
(* Runtimes that execute one session: how a turn or a queued-work run      *)
(* takes the session lease, drains commands, claims pending inputs and     *)
(* queued work, runs, and commits (crates/lash-core/src/runtime:           *)
(* turn_loop.rs, turn_boundary.rs, turn_driver/, session_api.rs) against   *)
(* the session store (in_memory_store.rs; lash-sqlite-store and            *)
(* lash-postgres-store keep the same rows).                                *)
(*                                                                         *)
(* Every store call is one step, every pc value a point between two calls. *)
(* The work of a turn itself (model calls, tools) is left out: what        *)
(* matters here is which rows it has picked up, when it talks to the store *)
(* and how it ends.  Enqueue times are distinct and batches are available  *)
(* at once.                                                                *)
(***************************************************************************)
EXTENDS QueuedWork, Filters, FiniteSets

CONSTANTS
  Batches, KindOf,     \* queued-work batches and what each looks like
  Inputs, IngressOf,   \* pending turn inputs; the turn each aims at, or NextTurn
  NextTurn,
  Turns,               \* turn ids (execution scope ids)
  HostTurns,           \* those whose input comes with stream_turn
  NoTurn,
  MaxBatches,          \* rows per claim (64)
  Durable,             \* durable effect controller: no progress commits
  AtomicCommit,        \* SQL stores; FALSE for the in-memory store
  PluginAppends,       \* hooks call append_session_nodes while the turn runs
  MaxFence,            \* bound: tenures of the session lease
  MaxToken,            \* bound: claims of one row
  MaxHead              \* bound: head revision

ASSUME RuntimeAssumption ==
  /\ DOMAIN KindOf = Batches /\ DOMAIN IngressOf = Inputs
  /\ Batches \cap Inputs = {} /\ HostTurns \subseteq Turns
  /\ Turns \cap (Batches \cup Inputs) = {}
  /\ NoTurn \notin Turns /\ NextTurn \notin Turns
  /\ MaxBatches \in Nat \ {0} /\ MaxFence \in Nat /\ MaxToken \in Nat /\ MaxHead \in Nat
  /\ {Durable, AtomicCommit, PluginAppends} \subseteq BOOLEAN

VARIABLES
  row,      \* the session execution lease
  alive,    \* runtimes that have not crashed
  pc,       \* pc[o]: where runtime o is between two store calls
  fence,    \* fence[o]: fencing token of the guard o holds
  seen,     \* seen[o]: head revision of the state o has loaded
  base,     \* base[o]: head revision the draft of its turn builds on
  w,        \* w[o]: the turn o is running and what it has picked up
  arrived,  \* rows in enqueue order
  item,     \* item[x]: state and claim columns of a row
  head,     \* head revision of the session
  stamp,    \* runtime_turn_commits: turn id -> hash of the accepted commit
  history   \* history[x]: how often x was written into the session (ghost)

workerVars == <<pc, fence, seen, base, w>>
storeVars == <<arrived, item, head, stamp, history>>
vars == <<row, alive, workerVars, storeVars>>

Rows == Batches \cup Inputs
Stored == {"queued", "pending_active", "accepted", "deferred"}

NoHash == [claims |-> {}, from |-> 0, interrupted |-> FALSE, used |-> FALSE]

PCs == {"idle", "precede", "drain", "command", "apply", "inputs", "work", "start",
        "prepare", "turn", "checkpoint", "finalize", "commit"}

\* pending_queue_claims (q) and pending_turn_input_claims (ic) of a run.
NoRun(t) == [turn |-> t, lost |-> FALSE, cancel |-> FALSE, q |-> <<>>, ic |-> <<>>, saved |-> {}]

Init ==
  /\ row = EmptyRow
  /\ alive = Owners
  /\ pc = [o \in Owners |-> "idle"]
  /\ fence = [o \in Owners |-> 0]
  /\ seen = [o \in Owners |-> 0]
  /\ base = [o \in Owners |-> 0]
  /\ w = [o \in Owners |-> NoRun(NoTurn)]
  /\ arrived = <<>>
  /\ item = [x \in Rows |-> [st |-> "new", claim |-> Unclaimed]]
  /\ head = 0
  /\ stamp = [t \in Turns |-> NoHash]
  /\ history = [x \in Rows \cup HostTurns |-> 0]

-----------------------------------------------------------------------------
(* Vocabulary of the actions. *)

Elems(s) == {s[i] : i \in DOMAIN s}
Prefix(s, n) == SubSeq(s, 1, IF n < Len(s) THEN n ELSE Len(s))

At(o, p) == o \in alive /\ pc[o] = p
Goto(o, p) == pc' = [pc EXCEPT ![o] = p] /\ UNCHANGED <<fence, seen, base, w>>
Fenced(o) == Verify(row, o, fence[o])

\* A claim as its holder remembers it.
Handle(id, xs) == [id |-> id, items |-> Elems(xs)]
HandleIds(o) == {h.id : h \in Elems(w[o].q) \cup Elems(w[o].ic)}

\* Everything the turn of o has picked up, its own input included.
PickedUp(o) ==
  (UNION {h.items : h \in Elems(w[o].q) \cup Elems(w[o].ic)}) \cup ({w[o].turn} \cap HostTurns)

\* Runtime o claims the rows xs, remembers the claim in `list' and goes to p.
\* Only a claim of the active turn moves an input to accepted.
ClaimId(xs) == <<xs[1], item[xs[1]].claim.tok + 1>>
Claim(o, xs, accept, p, list) ==
  /\ \A x \in Elems(xs) : item[x].claim.tok < MaxToken
  /\ item' = [x \in Rows |->
       IF x \in Elems(xs)
       THEN [st |-> IF accept THEN "accepted" ELSE item[x].st,
             claim |-> StampClaim(item[x].claim, o, ClaimId(xs))]
       ELSE item[x]]
  /\ pc' = [pc EXCEPT ![o] = p]
  /\ w' = [w EXCEPT ![o][list] = Append(@, Handle(ClaimId(xs), xs))]
  /\ UNCHANGED <<row, alive, fence, seen, base, arrived, head, stamp, history>>

Claimable(o, st) ==
  Among(arrived, {x \in Rows : item[x].st = st /\ Available(item[x].claim, o, alive)})
Candidates(o) ==
  LET bs == Claimable(o, "queued") IN [i \in DOMAIN bs |-> KindOf[bs[i]]]

\* Mutant: abandoning a claim deletes its rows as a completion does.
AbandonedDeletes(o) ==
  [x \in Rows |->
     IF \E id \in HandleIds(o) : Owns(item[x].claim, id)
     THEN [st |-> "done", claim |-> Unclaimed] ELSE item[x]]

\* abandon_queued_work_claim and abandon_turn_input_claim of everything o holds.
Abandoned(o) ==
  [x \in Rows |->
     IF \E id \in HandleIds(o) : Owns(item[x].claim, id)
     THEN [st |-> IF item[x].st = "accepted" THEN "pending_active" ELSE item[x].st,
           claim |-> ClearClaim(item[x].claim)]
     ELSE item[x]]

\* release_if_live: nothing is sent for a guard that is known to be lost.
Released(o) == IF w[o].lost THEN row ELSE Release(row, o, fence[o])

\* Between two calls a runtime remembers only the revision it has loaded.
Stop(o, rev) ==
  /\ pc' = [pc EXCEPT ![o] = "idle"]
  /\ fence' = [fence EXCEPT ![o] = 0]
  /\ seen' = [seen EXCEPT ![o] = rev]
  /\ base' = [base EXCEPT ![o] = 0]
  /\ w' = [w EXCEPT ![o] = NoRun(NoTurn)]

\* The ways a run ends short of its final commit.  settle_session_execution_lease
\* releases the lease unless the store failed; only a lost lease makes the
\* runtime abandon its claims.
EndReleased(o) ==
  row' = Released(o) /\ Stop(o, seen[o]) /\ UNCHANGED <<alive, storeVars>>
EndDropped(o) ==
  Stop(o, seen[o]) /\ UNCHANGED <<row, alive, storeVars>>
EndLeaseLost(o) ==
  /\ item' = Abandoned(o)
  /\ row' = Released(o)
  /\ Stop(o, seen[o])
  /\ UNCHANGED <<alive, arrived, head, stamp, history>>

\* An accepted commit writes the rows xs into the session.
Writes(xs) ==
  history' = [x \in DOMAIN history |-> IF x \in xs THEN history[x] + 1 ELSE history[x]]

-----------------------------------------------------------------------------
(* Taking the lane and draining commands. *)

\* claim_session_execution_lease; Busy ends the call at once.  The two-step
\* reclaim of a dead holder is split up in SessionLease.
Open(o, t) ==
  /\ At(o, "idle")
  /\ \/ /\ IsLive(row) => DefinitelyDead(row.owner, o, alive)
        /\ row.fence < MaxFence
        /\ row' = Acquire(row, o)
     \/ /\ IsLive(row) /\ row.owner = o
        /\ row' = Extend(row)
  /\ pc' = [pc EXCEPT ![o] = IF t \in HostTurns THEN "drain" ELSE "precede"]
  /\ fence' = [fence EXCEPT ![o] = row'.fence]
  /\ w' = [w EXCEPT ![o] = NoRun(t)]
  /\ UNCHANGED <<alive, seen, base, storeVars>>

Listed(x) == item[x].st \in Stored /\ ~HeldLive(item[x].claim)
ListedCommand(x) == x \in Batches /\ KindOf[x].class = "session_command" /\ Listed(x)
ListedInput(x) == x \in Inputs /\ item[x].st = "deferred" /\ Listed(x)

\* session_commands_precede_pending_turn_input.
CommandsPrecede ==
  \E i \in DOMAIN arrived :
    ListedCommand(arrived[i]) /\ \A j \in 1..(i - 1) : ~ListedInput(arrived[j])

Precede(o) ==
  /\ At(o, "precede")
  /\ Goto(o, IF CommandsPrecede THEN "drain" ELSE "inputs")
  /\ UNCHANGED <<row, alive, storeVars>>

\* claim_leading_ready_session_command, the first half of
\* drain_next_session_command.
DrainClaim(o) ==
  /\ At(o, "drain")
  /\ \/ ~Fenced(o) /\ EndReleased(o)
     \/ /\ Fenced(o) /\ SelectCommand(Candidates(o)) = 0
        /\ Goto(o, IF w[o].turn \in HostTurns THEN "start" ELSE "inputs")
        /\ UNCHANGED <<row, alive, storeVars>>
     \/ /\ Fenced(o) /\ SelectCommand(Candidates(o)) = 1
        /\ LET xs == Prefix(Claimable(o, "queued"), 1)
           IN  Claim(o, xs, FALSE, "command", "q")

\* apply_session_command: reload the head, then commit with the completion.
RefreshForCommand(o) ==
  /\ At(o, "command")
  /\ pc' = [pc EXCEPT ![o] = "apply"]
  /\ seen' = [seen EXCEPT ![o] = head]
  /\ UNCHANGED <<row, alive, fence, base, w, storeVars>>

\* Mutant: a completion is not compared with the claim columns.
HoldsUnchecked(h) == TRUE

\* ensure_completion_owns_all_batches.
Holds(h) == \A x \in h.items : item[x].st \in Stored /\ Owns(item[x].claim, h.id)

\* Mutant: the rows stay in the store, merely unclaimed.
CompletedKeepsRow(hs) ==
  [x \in Rows |-> IF \E h \in hs : x \in h.items /\ Owns(item[x].claim, h.id)
                  THEN [item[x] EXCEPT !.claim = ClearClaim(@)] ELSE item[x]]

\* The rows of the completed claims are deleted.
Completed(hs) ==
  [x \in Rows |-> IF \E h \in hs : x \in h.items /\ Owns(item[x].claim, h.id)
                  THEN [st |-> "done", claim |-> Unclaimed] ELSE item[x]]

\* A ResetSession command carries no expected revision.
ApplyCommand(o, reset) ==
  /\ At(o, "apply")
  /\ \/ ~Fenced(o) /\ EndReleased(o)
     \/ /\ Fenced(o) /\ ~((reset \/ seen[o] = head) /\ Holds(w[o].q[1]))
        /\ IF w[o].turn \in HostTurns THEN EndDropped(o) ELSE EndReleased(o)
     \/ /\ Fenced(o) /\ (reset \/ seen[o] = head) /\ Holds(w[o].q[1])
        /\ head < MaxHead
        /\ item' = Completed(Elems(w[o].q))
        /\ Writes(PickedUp(o) \ HostTurns)
        /\ head' = head + 1
        /\ pc' = [pc EXCEPT ![o] = "drain"]
        /\ seen' = [seen EXCEPT ![o] = head + 1]
        /\ w' = [w EXCEPT ![o].q = <<>>]
        /\ UNCHANGED <<row, alive, fence, base, arrived, stamp>>

-----------------------------------------------------------------------------
(* Claiming what the turn is about. *)

\* claim_next_turn_inputs; an error drops the guard without releasing it.
ClaimInputs(o) ==
  /\ At(o, "inputs")
  /\ \/ ~Fenced(o) /\ EndDropped(o)
     \/ /\ Fenced(o) /\ Claimable(o, "deferred") = <<>>
        /\ Goto(o, "work")
        /\ UNCHANGED <<row, alive, storeVars>>
     \/ /\ Fenced(o) /\ Claimable(o, "deferred") # <<>>
        /\ LET xs == Prefix(Claimable(o, "deferred"), MaxBatches)
           IN  Claim(o, xs, FALSE, "start", "ic")

\* claim_ready_queued_work at the idle boundary; nothing to do releases the lane.
ClaimWork(o) ==
  LET n == SelectTurnWork(Candidates(o), "idle", MaxBatches)
      xs == Prefix(Claimable(o, "queued"), n)
  IN  /\ At(o, "work")
      /\ \/ ~Fenced(o) /\ EndDropped(o)
         \/ Fenced(o) /\ n = 0 /\ EndReleased(o)
         \/ Fenced(o) /\ n > 0 /\ Claim(o, xs, FALSE, "start", "q")

-----------------------------------------------------------------------------
(* Running the turn. *)

\* Mutant: the turn starts from the revision the runtime happens to have loaded.
StartStale(o) ==
  /\ At(o, "start")
  /\ pc' = [pc EXCEPT ![o] = "prepare"]
  /\ base' = [base EXCEPT ![o] = seen[o]]
  /\ UNCHANGED <<row, alive, fence, seen, w, storeVars>>

\* stream_turn_inner reloads the head before it builds the turn.
Start(o) ==
  /\ At(o, "start")
  /\ pc' = [pc EXCEPT ![o] = "prepare"]
  /\ seen' = [seen EXCEPT ![o] = head]
  /\ base' = [base EXCEPT ![o] = head]
  /\ UNCHANGED <<row, alive, fence, w, storeVars>>

\* The part of commit_progress_graph that succeeds.
ProgressCommitted(o) ==
  /\ Fenced(o) /\ base[o] = head /\ head < MaxHead
  /\ head' = head + 1
  /\ Writes(PickedUp(o) \ w[o].saved)
  /\ pc' = [pc EXCEPT ![o] = "turn"]
  /\ base' = [base EXCEPT ![o] = head + 1]
  /\ w' = [w EXCEPT ![o].saved = PickedUp(o)]
  /\ UNCHANGED <<row, alive, fence, seen, arrived, item, stamp>>

\* prepared_checkpoint: with an inline controller the prepared messages are
\* committed before the first model call, and any refusal ends the turn.  (No
\* commit either when the messages are not safe to resume from.)
Prepare(o) ==
  /\ At(o, "prepare")
  /\ \/ Goto(o, "turn") /\ UNCHANGED <<row, alive, storeVars>>
     \/ ~Durable /\ ProgressCommitted(o)
     \/ ~Durable /\ ~Fenced(o) /\ EndLeaseLost(o)
     \/ ~Durable /\ Fenced(o) /\ base[o] # head /\ EndDropped(o)

\* progress_boundary: a lost lease ends the turn, any other refusal is logged.
Progress(o) ==
  /\ ~Durable /\ At(o, "turn")
  /\ \/ ProgressCommitted(o)
     \/ ~Fenced(o) /\ EndLeaseLost(o)

\* run_checkpoint, first call: inputs aimed at this turn.
CheckpointInputs(o) ==
  LET mine == Among(Claimable(o, "pending_active"), {x \in Inputs : IngressOf[x] = w[o].turn})
      xs == Prefix(mine, MaxBatches)
  IN  /\ At(o, "turn")
      /\ \/ ~Fenced(o) /\ EndLeaseLost(o)
         \/ Fenced(o) /\ mine = <<>> /\ Goto(o, "checkpoint") /\ UNCHANGED <<row, alive, storeVars>>
         \/ Fenced(o) /\ mine # <<>> /\ Claim(o, xs, TRUE, "checkpoint", "ic")

\* run_checkpoint, second call: queued work that asked for the earliest boundary.
CheckpointWork(o) ==
  LET n == SelectTurnWork(Candidates(o), "active_turn_checkpoint", MaxBatches)
      xs == Prefix(Claimable(o, "queued"), n)
  IN  /\ At(o, "checkpoint")
      /\ \/ ~Fenced(o) /\ EndLeaseLost(o)
         \/ Fenced(o) /\ n = 0 /\ Goto(o, "turn") /\ UNCHANGED <<row, alive, storeVars>>
         \/ Fenced(o) /\ n > 0 /\ Claim(o, xs, FALSE, "turn", "q")

\* The host cancels the turn, at any point up to the final commit.
Interrupt(o) ==
  /\ o \in alive /\ pc[o] \in {"turn", "checkpoint", "finalize", "commit"} /\ ~w[o].cancel
  /\ w' = [w EXCEPT ![o].cancel = TRUE]
  /\ UNCHANGED <<row, alive, pc, fence, seen, base, storeVars>>

\* Invalid input, a plugin abort, or any error that is neither a lost lease nor
\* a store failure: no commit, the claims stay until they expire.
Fail(o) ==
  /\ o \in alive /\ pc[o] \in {"start", "prepare", "turn", "checkpoint", "finalize"}
  /\ EndReleased(o)

\* A hook of the running turn appends session nodes: a fresh guard of the same
\* incarnation, a commit against the revision the turn loaded, and the release
\* of the lease (commit_runtime_state_with_fresh_session_execution_lease).
HookCommit(o) ==
  /\ PluginAppends
  /\ o \in alive /\ pc[o] \in {"prepare", "turn", "finalize"}
  /\ IsLive(row) /\ row.owner # o => DefinitelyDead(row.owner, o, alive)
  /\ LET r == IF IsLive(row) /\ row.owner = o THEN Extend(row) ELSE Acquire(row, o)
     IN  /\ r.fence <= MaxFence
         /\ IF seen[o] = head
            THEN /\ head < MaxHead
                 /\ head' = head + 1
                 /\ row' = Release(r, o, r.fence)
            ELSE row' = r /\ UNCHANGED head
  /\ UNCHANGED <<alive, workerVars, arrived, item, stamp, history>>

-----------------------------------------------------------------------------
(* Finishing the turn. *)

\* refresh_or_mark_lost, before and after the finalize hooks of finish_turn.  A
\* guard that is known to be lost, a refused renewal and a renewal that could
\* not reach the store all end the turn.
EnsureLive(o, from, to) ==
  /\ At(o, from)
  /\ \/ /\ ~w[o].lost /\ Fenced(o)
        /\ row' = Extend(row)
        /\ Goto(o, to)
        /\ UNCHANGED <<alive, storeVars>>
     \/ /\ item' = Abandoned(o)
        /\ Stop(o, seen[o])
        /\ UNCHANGED <<row, alive, arrived, head, stamp, history>>

Finish(o) == EnsureLive(o, "turn", "finalize")
Finalize(o) == EnsureLive(o, "finalize", "commit")

\* turn_commit_hash: the content of the turn, which follows from the revision it
\* was built on, its completions and its interruption.
Hash(o) == [claims |-> HandleIds(o), from |-> seen[o], interrupted |-> w[o].cancel, used |-> TRUE]

\* Mutant: the interrupted turn drops the inputs it never reached.
DeferredDropped(its, o) ==
  [x \in Rows |->
     IF w[o].cancel /\ x \in Inputs /\ its[x].st = "pending_active" /\ IngressOf[x] = w[o].turn
     THEN [st |-> "done", claim |-> Unclaimed] ELSE its[x]]

\* The deferral of the inputs that an interrupted turn never reached.
Deferred(its, o) ==
  [x \in Rows |->
     IF w[o].cancel /\ x \in Inputs /\ its[x].st = "pending_active" /\ IngressOf[x] = w[o].turn
     THEN [st |-> "deferred", claim |-> ClearClaim(its[x].claim)] ELSE its[x]]

\* Mutant: the turn id is not looked up.
FirstCommitAlways(o) == TRUE

\* No commit of this turn id is recorded yet.
FirstCommit(o) == stamp[w[o].turn] = NoHash

AllHeld(o) == \A h \in Elems(w[o].q) \cup Elems(w[o].ic) : Holds(h)

\* commit_runtime_state accepts the turn: complete the claims, defer what the
\* interrupted turn left, write the turn, stamp it and release the lease.
CommitAccepted(o) ==
  /\ FirstCommit(o)
  /\ Fenced(o) /\ base[o] = head /\ AllHeld(o) /\ head < MaxHead
  /\ item' = Deferred(Completed(Elems(w[o].q) \cup Elems(w[o].ic)), o)
  /\ Writes(PickedUp(o) \ w[o].saved)
  /\ head' = head + 1
  /\ stamp' = [stamp EXCEPT ![w[o].turn] = Hash(o)]
  /\ row' = Release(row, o, fence[o])
  /\ Stop(o, head + 1)
  /\ UNCHANGED <<alive, arrived>>

\* ... a turn that is already there, with the same content: its result again.
CommitRepeated(o) ==
  /\ stamp[w[o].turn] = Hash(o)
  /\ row' = Release(row, o, fence[o])
  /\ Stop(o, seen[o])
  /\ UNCHANGED <<alive, storeVars>>

\* ... a lost lease.
CommitLeaseLost(o) ==
  /\ FirstCommit(o)
  /\ ~Fenced(o)
  /\ EndLeaseLost(o)

\* Mutant: a refused commit is not rolled back.
AppliedWithoutRollback(o) ==
  LET hs == w[o].q \o w[o].ic
  IN  {hs[i] : i \in {j \in DOMAIN hs : \A k \in 1..j : Holds(hs[k])}}

\* The completions the in-memory store has already applied when it meets the
\* first one it refuses: it checks and deletes claim by claim.
AppliedBeforeRefusal(o) ==
  LET hs == w[o].q \o w[o].ic
  IN  IF AtomicCommit THEN {}
      ELSE {hs[i] : i \in {j \in DOMAIN hs : \A k \in 1..j : Holds(hs[k])}}

\* ... another turn under this id, a stale revision, or a claim that is gone.
CommitRefused(o) ==
  /\ \/ /\ stamp[w[o].turn] \notin {NoHash, Hash(o)}
        /\ UNCHANGED item
     \/ /\ FirstCommit(o) /\ Fenced(o) /\ base[o] # head
        /\ UNCHANGED item
     \/ /\ FirstCommit(o) /\ Fenced(o) /\ base[o] = head /\ ~AllHeld(o)
        /\ item' = Completed(AppliedBeforeRefusal(o))
  /\ Stop(o, seen[o])
  /\ UNCHANGED <<row, alive, arrived, head, stamp, history>>

Commit(o) ==
  /\ At(o, "commit")
  /\ \/ CommitAccepted(o) \/ CommitRepeated(o) \/ CommitLeaseLost(o) \/ CommitRefused(o)

-----------------------------------------------------------------------------
(* The renewal task, the host, crashes and time. *)

\* The task of the open guard; when it fails it marks the guard lost, cancels
\* the turn and ends.
Renew(o) ==
  /\ o \in alive /\ pc[o] # "idle" /\ ~w[o].lost
  /\ \/ Fenced(o) /\ row' = Extend(row) /\ UNCHANGED w
     \/ w' = [w EXCEPT ![o].lost = TRUE, ![o].cancel = TRUE] /\ UNCHANGED row
  /\ UNCHANGED <<alive, pc, fence, seen, base, storeVars>>

Running(t) == \E o \in Owners : w[o].turn = t /\ pc[o] \in {"turn", "checkpoint", "finalize", "commit"}

\* enqueue_queued_work and enqueue_pending_turn_input.  A host steers a turn it
\* sees running.
Enqueue(x) ==
  /\ item[x].st = "new"
  /\ x \in Inputs /\ IngressOf[x] \in Turns => Running(IngressOf[x])
  /\ item' = [item EXCEPT ![x].st = IF x \in Batches THEN "queued"
                                    ELSE IF IngressOf[x] \in Turns THEN "pending_active"
                                    ELSE "deferred"]
  /\ arrived' = Append(arrived, x)
  /\ UNCHANGED <<row, alive, workerVars, head, stamp, history>>

\* cancel_queued_work_batch and cancel_pending_turn_input.
Cancel(x) ==
  /\ Listed(x)
  /\ item' = [item EXCEPT ![x] = [st |-> "cancelled", claim |-> Unclaimed]]
  /\ UNCHANGED <<row, alive, workerVars, arrived, head, stamp, history>>

Crash(o) ==
  /\ o \in alive
  /\ alive' = alive \ {o}
  /\ Stop(o, 0)
  /\ UNCHANGED <<row, storeVars>>

Tick ==
  /\ row.left > 0 \/ \E x \in Rows : item[x].claim.left > 0
  /\ row' = [row EXCEPT !.left = Countdown(@)]
  /\ item' = [x \in Rows |-> [item[x] EXCEPT !.claim.left = Countdown(@)]]
  /\ UNCHANGED <<alive, workerVars, arrived, head, stamp, history>>

RunStep(o) ==
  \/ \E t \in Turns : Open(o, t)
  \/ Precede(o) \/ DrainClaim(o) \/ RefreshForCommand(o)
  \/ \E reset \in BOOLEAN : ApplyCommand(o, reset)
  \/ ClaimInputs(o) \/ ClaimWork(o)
  \/ Start(o) \/ Prepare(o) \/ Progress(o) \/ CheckpointInputs(o) \/ CheckpointWork(o)
  \/ Interrupt(o) \/ Fail(o) \/ HookCommit(o)
  \/ Finish(o) \/ Finalize(o) \/ Commit(o) \/ Renew(o)

Next ==
  \/ \E o \in Owners : RunStep(o) \/ Crash(o)
  \/ \E x \in Rows : Enqueue(x) \/ Cancel(x)
  \/ Tick

Spec == Init /\ [][Next]_vars

-----------------------------------------------------------------------------
(* Properties *)

TypeOK ==
  /\ row \in Row /\ alive \subseteq Owners /\ head \in 0..MaxHead
  /\ \A o \in Owners :
       /\ pc[o] \in PCs /\ w[o].turn \in Turns \cup {NoTurn}
       /\ fence[o] \in 0..row.fence
       /\ seen[o] \in 0..head /\ base[o] \in 0..head
       /\ w[o].lost \in BOOLEAN /\ w[o].cancel \in BOOLEAN
       /\ w[o].saved \subseteq Rows \cup HostTurns
       /\ \A h \in Elems(w[o].q) : h.items \subseteq Batches
       /\ \A h \in Elems(w[o].ic) : h.items \subseteq Inputs
  /\ Elems(arrived) = {x \in Rows : item[x].st # "new"}
  /\ \A x \in Rows :
       /\ item[x].st \in Stored \cup {"new", "done", "cancelled"}
       /\ item[x].claim.by \in Owners \cup {NoOwner}
       /\ item[x].claim.tok \in 0..MaxToken /\ item[x].claim.left \in 0..ClaimTTL
  /\ stamp \in [Turns -> [claims: SUBSET (Rows \X (1..MaxToken)), from: 0..MaxHead,
                          interrupted: BOOLEAN, used: BOOLEAN]]
  /\ history \in [Rows \cup HostTurns -> Nat]

\* The head-revision check is only a backstop (docs/embedding.html: "optimistic
\* CAS on expected_head_revision as the stale-writer backstop"): a runtime whose
\* fence is still current is building on the current head, whoever ran before.
FencedWriterIsCurrent ==
  \A o \in Owners :
    Fenced(o) =>
      /\ pc[o] = "apply" => seen[o] = head
      /\ pc[o] \in {"prepare", "turn", "checkpoint", "finalize", "commit"} => base[o] = head

\* A batch or input leaves the store only by being written into the session (or
\* by being cancelled): crashes, lost leases, expired claims and refused commits
\* never lose one.
NothingLost == \A x \in Rows : item[x].st = "done" => history[x] > 0

\* Nothing is written into the session twice, neither a row that was claimed
\* again after a crash or an expiry nor a turn that was run again under its id.
NothingTwice == \A x \in DOMAIN history : history[x] <= 1

\* What the user has cancelled is not in the session, even if a turn had picked
\* it up before and is still running.
CancelledNeverRuns == \A x \in Rows : item[x].st = "cancelled" => history[x] = 0

\* A turn picks a row up once (docs/architecture/scaling.html: "exactly-once
\* work pickup by any lease-holding session runner").
PickedUpOnce ==
  \A o \in alive : \A i, j \in DOMAIN w[o].q :
    i # j => w[o].q[i].items \cap w[o].q[j].items = {}

\* A steer is accepted, deferred, cancelled or dispatched
\* (docs/architecture/queued-work-ingress.md): it is not left waiting for a turn
\* that has committed.
NoStrandedInput ==
  \A x \in Inputs :
    item[x].st \in {"pending_active", "accepted"} => stamp[IngressOf[x]] = NoHash
=============================================================================
