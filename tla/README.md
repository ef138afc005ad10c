# lash: a TLA+ verification development

lash is a runtime for durable agent sessions. A *session* is a graph of messages
with a head revision, kept in a store; a *turn* takes some input, calls a model
and tools, and commits its result onto the head. Several processes may serve the
same session, any of them may crash at any point, and the same store holds the
work that is waiting. Beside the sessions there are *processes*, small durable
programs that wake them, and *clients* that watch them. The modules here describe
how hosts share a session (who may run it, what each run picks up, what a commit
does), what a turn does between its start and its commit and what is left of it
after a crash, how a process is recovered without being run twice, and how a
client follows a session without missing anything. TLC checks them on small
instances, and TLAPS proves every safety property of the passing runs for all instances.

Paths below are relative to `src/crates/lash-core/src/` unless they start with
`crates/` or `docs/`.

## 1. Inventory

| component | state | operations | hard behaviour | correct when |
|---|---|---|---|---|
| session execution lease (`runtime/session_execution_lease.rs`, store methods) | a row (owner, fencing token, expiry); in each runtime a guard with its own copy of it and two flags, `released` and `lost`; a renewal task | claim, re-enter, reclaim from a dead process, renew, release, release with a commit | expiry, two-step reclaim, a renewal racing a release, two guards of one incarnation, crashes | one holder at a time, nobody robbed, a dead holder replaced, only the newest tenure writes |
| queued work (`store/queued_work.rs`, `runtime/turn_queue.rs`) | batches with class, delivery policy, slot policy, merge key; claim columns | select what one claim takes, claim, complete, abandon, cancel | limits, group borders, claims that expire during a turn | one group per claim, never mixed with commands, never stuck |
| pending turn inputs (`runtime/turn_input_ingress.rs`, store methods) | inputs in state pending-active, accepted, deferred; claim columns | enqueue, claim at a checkpoint or for the next turn, accept, defer on interrupt, cancel, complete, abandon | steering a turn that is just ending | every input is written once or cancelled |
| session store (`runtime/in_memory_store.rs`, SQLite, Postgres) | lease row, batches, inputs, head revision, graph, turn-commit stamps | the above, and `commit_runtime_state` | several completions in one commit; repeated commits | a commit happens completely or not at all, and once per turn id |
| turn pipeline (`runtime/turn_loop.rs`, `turn_boundary.rs`, `turn_driver/`, `session_api.rs`) | loaded revision, draft revision, the claims held, the cancel token | queued-work run, host turn, command drain, checkpoints, progress commits, finalize, commit, settlement | every store call is a point where others act | a fenced writer is current, nothing is lost or repeated |
| plugins and session manager (`plugin/`, `runtime/session_manager/`) | | hooks may abort, fail, or append session nodes | a commit inside a running turn | (as above) |
| process registry (`crates/lash-sqlite-store/src/process_registry.rs`, `runtime/process/`) | process rows with a status, an event log with replay keys, handle grants, process leases | register, append event, complete, claim, renew and release a lease | the terminal write takes no lease; a replayed event | one terminal event, never replaced |
| durable process worker (`runtime/process_worker.rs`, `crates/lash-lashlang-runtime/src/process.rs`) | the recoveries under way | sweep, claim, look again, run, renew, confirm the lease, write the outcome, release, cancel | crashes and stalls at every point, hosts with different configurations | every process ends, with the answers that were recorded, and has woken its session |
| effect replay (`crates/lash-sqlite-store/src/effect_replay.rs`) | recorded outcomes by replay key, a lease and a deadline on each pending effect | prepare, run, renew, finalize, replay | a crash between an effect and its record, two callers of one key, sleeps that outlive their host | one outcome per key, deadlines kept |
| turn machine and protocol drivers (`crates/lash-sansio`, `crates/lash-protocol-standard`, `crates/lash-protocol-rlm`) | state, effect id, iteration, messages, events and a cursor into them, queued effects | poll an effect, take a response, apply a driver's actions | checkpoints that prolong a turn, the turn limit | the turn ends, within the limit, with everything delivered answered |
| turn driver (`runtime/turn_driver/`) | the machine, the interpreter, the draft, the claims held | handle each effect: replay or run, record, answer | a second run over the journal of the first | the second run asks for what the first asked |
| tool dispatch (`tool_dispatch/`, `session/tool_execution.rs`) | waiting, running and finished calls, attempts | schedule, attempt, retry, cancel | serial next to parallel calls, cancellation in the middle | serial calls run alone, every call has a result |
| live observation (`runtime/observation*`, `crates/lash/src/session.rs`) | bounded replay buffer, broadcast channel, cursors of clients | append, trim, replay, subscribe, recover | lag, eviction between two polls, restarts | no gap is silent, none is invented |
| triggers (`triggers.rs`, `crates/lash-sqlite-store/src/triggers.rs`) | occurrences, reserved deliveries | emit: record, reserve, start | a crash between reserving and starting | each delivery starts its process |
| session graph, attachments | nodes and leaf; attachment intents | append, branch; declare, commit | | references resolve |
| providers, lashlang, CLI, TUI, tracing | | network, parsing, rendering | | out of scope |

How the parts interact. A host calls `stream_turn` with an input, or
`stream_queued_work` to run whatever is waiting. Both take the session execution
lease first, drain leading session commands, and then run a turn; the second
claims inputs or queued work for it. During the turn, checkpoints claim inputs
that steer this turn and queued work that asked for the earliest boundary. The
final commit names the lease fence, the expected head revision, all claims to be
completed and the turn id; the store checks all of them and applies everything.
Processes and triggers only ever enqueue. So everything meets in the store rows,
and each store call is an atomic step between which other runtimes act.

Inside the turn, the driver polls the machine for effects. On a durable controller
each effect that wants an answer has a replay key; its outcome is recorded, and a
run of the same turn after a crash is answered from the record. Processes use the
same table for their tool calls and sleeps, and the registry's event log for what
they report; a wake is an event in the registry and then a row in the queue of the
session. A trigger starts a process by way of a reserved delivery. Everything a
session shows passes through the replay buffer, which its clients read by cursor.

## 2. Modules

| module | what it is |
|---|---|
| `LeaseRow` | the lease row and the store's operations on it, as operators |
| `FencedLane` | abstract specification of the lease: numbered tenures, writes only in the newest |
| `SessionLease` | the guards, the renewal task, the two-step reclaim, crashes and time over a `LeaseRow` |
| `SessionLeaseProofs` | type correctness, exclusion, no theft, refinement of `FencedLane` |
| `QueuedWork` | selection of what one claim takes, and the claim columns of a row |
| `Filters` | selection from a sequence in order, as a recursive function |
| `QueuedWorkProofs` | induction on numbers and sequences, filters, and the rule of a claim |
| `SessionRuntime` | the turn pipeline over lease, inputs, batches, head and stamps |
| `SessionRuntimeProofs` | a fenced writer is current; types; nothing is lost, written twice or run after its cancellation |
| `TurnMachine` | the sans-IO machine and the two protocol drivers, as operators on a machine |
| `ToolBatch` | scheduling, attempts and cancellation of one batch of tool calls, as operators |
| `TurnHost` | the turn driver on a durable controller: journal, checkpoints, batches, cancellation, crashes, commit; and the queue between turns |
| `TurnHostProofs` | all safety properties of the turn, replay without conflict among them |
| `ProcessHosts` | hosts, tasks and their faults, shared by the process modules |
| `EffectReplay` | the table of effects: every branch of prepare, run, renew, finalize |
| `EffectReplayProofs` | one outcome per key, for arbitrary callers |
| `ProcessRegistry` | rows, event log, grants and leases of processes |
| `ProcessRegistryProofs` | what each registry operation preserves |
| `Triggers` | emit, reserve, start |
| `DurableProcess` | the worker and a program (tool call, wake, sleep, finish) over the three above |
| `DurableProcessProofs` | the properties of the composed system |
| `LiveReplay` | replay buffer, channel, clients |
| `LiveReplayProofs` | no silent gap, no invented one |
| `MCSessionLease`, `MCSessionRuntime`, `MCTurnHost`, `MCDurableProcess` | instances for TLC (`LiveReplay` needs none) |

`SessionRuntime` extends `QueuedWork`, which extends `LeaseRow`; `SessionLease`
extends `LeaseRow`. `TurnHost` extends `TurnMachine`, `ToolBatch` and `QueuedWork`;
`SessionRuntime` and `TurnMachine` extend `Filters`.
`EffectReplay` and `ProcessRegistry` extend `ProcessHosts`, `Triggers` extends
`ProcessRegistry`, and `DurableProcess` composes `EffectReplay` and `Triggers`. The
lease operations are thus the same definitions in both session machines, and so is
the choice of what a claim takes in `SessionRuntime` and `TurnHost`. `PROJECT.json`
gives the lines behind every definition.

### Correspondence

*Time.* `left` is `expires_at - now`, decreased by `Tick` and stopping at 0; the
code's `expires_at > now` is `left > 0`. All clocks are one clock, as they are
with a store on one host; the skew between hosts of a shared database is not
modelled.

*Tokens.* The lease token of a row contains its fencing token, and a claim id
contains the head row and its token, which only grow; comparing tokens is
comparing those.

*Owners.* An owner is an incarnation of a runtime, so a restarted process is a
new owner. `Host[o]` is host and boot id; only a process of the same host and
boot can be seen to be dead (`DefinitelyDead`), an opaque owner never.

*SessionLease.* `guard[o]["turn"]` is the guard of a running turn and
`guard[o]["fresh"]` the one that
`commit_runtime_state_with_fresh_session_execution_lease` opens around one
commit. `observed` is the fence a runtime read from a `Busy` answer and carries
into `reclaim_session_execution_lease`. `Renew` is both the renewal task and
`refresh_or_mark_lost`: it extends the row, or marks the guard lost, also when
the store merely could not be reached.

*SessionRuntime.* Each value of `pc` is a point between two store calls:

    idle -> precede -> drain -> command -> apply -> drain ...      commands
                    -> inputs -> work -> start                     claims
    start -> prepare -> turn <-> checkpoint                        the turn
    turn -> finalize -> commit -> idle                             the end

A host turn goes from `idle` straight to `drain`, then to `start`. The turn's own
work is not modelled; what it has picked up is (`w[o].q`, `w[o].ic`), in the
order of the claims, because the in-memory store completes them in that order.
`seen` is the revision of the state in memory, `base` the one the draft builds
on. The four ways `settle_session_execution_lease` and the callers end a run are
`EndReleased`, `EndDropped`, `EndLeaseLost` and the accepted commit: a store
failure drops the guard without releasing the row, and only a lost lease makes
the runtime abandon its claims. `Durable` says whether the effect controller is
durable (no progress commits), `AtomicCommit` whether `commit_runtime_state`
rolls back when refused (the SQL stores) or not (the in-memory store),
`PluginAppends` whether hooks append session nodes during a turn.

`history[x]` is a ghost: how often an accepted commit has written row or host
turn `x` into the session. It is what the user sees, and the properties are about
it.

*TurnMachine.* A machine is a record, and the methods that change it are operators
from machine to machine. Messages and events are their kinds (`delivered`,
`tool_calls`, `tool_results`, `trajectory`...); the text is left out, and so are
effects that only show or log something. The outcome, which the code emits just
before `Done`, is kept in `Done`. Iterations count from the run offset, and
`max_turns` is set (without it a turn has no bound). The three protocols are the
standard one, RLM that may end with prose, and RLM that must finish with a value.

*TurnHost.* `run` is what the driver has in memory and `journal` what the
controller has recorded. That only one runtime runs the turn is `SessionLease`, and
that a key has one outcome is `EffectReplay`; so an effect that leaves nothing
behind but its answer runs and is recorded in one step. A checkpoint leaves a claim
behind and takes two steps (`RunCheckpoint`, `RecordCheckpoint`), a tool batch one
per start and attempt. `mine` are the claims in memory; a run that ends without a
commit leaves them in `stale` until they expire. `vm` holds the code cells the
interpreter has executed, `blocks` those the machine was answered for. `asked` is
the last request, `requests` their number in this run; both are ghosts, as are
`emitted`, the machine's own events at the commit, and `last`, the last claim.
A failing statement that is not recorded ends a run as a crash does. The model
forgets the journal at the commit and the attempts of a recorded batch, which are
not read again.

*ProcessHosts, EffectReplay, ProcessRegistry, DurableProcess.* A *task* is one
recovery of a process by one host. Lease tokens and owner ids are new in every
recovery, so a lease names its task. `left` and `due` count down as above; the
code reads the clock before the transaction it is used in, and the model takes the
two together: a clock that is read too early is a stall, which `Tick` covers.
A stall is time passing while a task does nothing; one that loses a lease counts as
a fault, as do a crash and a failing statement, and faults are bounded. Store errors
while releasing, confirming or claiming coincide with a crash at that point. The
program calls a tool, wakes its session, sleeps and finishes: one of each kind of
step a process has, in an order in which each can be cut off from the next.

*LiveReplay.* Events are numbers. `since` (where a client started), `seen` and
`count` (what it was given, and how many), `own` (whether its cursor was issued by
this buffer) are ghosts. A restart empties the buffer and keeps the clients.

## 3. Properties and runs

`SessionLease` (run `lease`: three runtimes, two of one host and one opaque, TTL
of two ticks, three tenures; 60,384 states):

* `LaneExclusive`: two runtimes never hold open, unexpired guards at once.
* `NeverStolenFromLiving`: no step takes an unexpired lease from a living runtime.
* `LaneRefinement`: the machine implements `FencedLane`.
* `DeadHolderReplaced` (liveness): a crashed holder is replaced.
* `DroppedLeaseReplaced` (liveness): a guard that is dropped without a release, as
  after a failed store commit, does not close the session for ever.

Three tenures allow a crash, a reclaim or an expiry, and a late action of the
first holder in the third; with three owners a third party can come between the
two steps of a reclaim.

`TurnHost` (run `turn`; 421,710 states):

* `NoReplayConflict`: a second run of a turn asks, under every key, for what the
  first asked.
* `AnsweredAll`: an ordinary end has shown the model everything that was delivered.
* `CommitResumes`: every tool call in a committed turn has its result.
* `EventsOnce`: protocol events reach the session once, in order.
* `TurnLimit`: at most `max_turns` model calls and one more for a final answer.
* `SerialAlone`: a serial call never runs next to another call of its batch.
* `TurnEnds` (liveness): a turn that is asked for ends, in a commit or an error; the
  machine never leaves the driver without an effect.
* `OneGroupPerClaim`, `ClaimIsMaximal`, `IdleRunnerProgress` compare the selection
  loops with a declarative reading of what one claim may take.

Two iterations (`MaxTurns = 2`) let a turn go on once, reach the limit, and be
prolonged beyond it by a delivery; the batch is a serial call with one attempt
before a parallel one with two, so that the scheduler has to reorder and a retry
meets the wait; one crash cuts the turn at every point between two steps, and the
second run meets the journal of the first. A standard turn starts over an empty
queue and is given messages by its host, an RLM turn over one queued wake, which a
checkpoint claims and a crash leaves claimed. Between turns every queue of at most
three batches of sixteen kinds is drained with a limit of two: a head, a follower
at the limit, one beyond it.

`DurableProcess` (run `processes`: two tasks, one process, one trigger, two
envelopes, leases of two ticks, a sleep of one, one fault; 236,980 states):

* `EffectAgreement`: whoever is answered is answered with what the row records.
* `LostLeaseNotRecorded`: a refused renewal is never recorded as an outcome.
* `SleepHonoured`: nobody goes on before the deadline of the first claim.
* `OneTerminal`, `TerminalForever`: one terminal event, never replaced, although
  its writer takes no lease.
* `OneAnswer`: whatever a process works with or leaves behind (events, the queued
  wake, its output) is the one recorded answer of its tool call.
* `WakeNotLost`: a process that completed has woken its session.
* `RecordedForever`: a recorded outcome does not change, and neither does the
  envelope or the deadline of a row once it exists.
* `EventuallyTerminal` (liveness): a registered process ends.

One fault is a crash, a stall past a lease, a failing statement or a cancelled run;
two tasks are the holder and the one that takes over, and the second envelope is
that of a host with another configuration. A single fault can fall at any step, and
what takes two faults (the holder and its successor both fail) leaves the same rows
behind as one.

`LiveReplay` (run `observation`: two clients, a buffer of two events, a channel of
two, an age of one tick, four appends, two losses; 317,658 states):

* `NoSilentGap`: a client whose cursor this buffer issued has been given every event
  since its start, or since the last gap it was told of, once.
* `GapIsReal`: a client is told of a gap only if an event it lacks is gone.
* `CatchesUp` (liveness): a client that keeps polling reaches the tail.

Four appends fill the buffer twice, so that a cursor can be inside, at the edge of
and behind what is kept.

`SessionRuntime`:

* `FencedWriterIsCurrent`: a runtime whose fence the store would accept builds on
  the current head, so that the head-revision check is only a backstop.
* `NothingLost`: a row leaves the store only by being written or cancelled.
* `NothingTwice`: no row and no host turn is written twice.
* `CancelledNeverRuns`: what was cancelled is not in the session.

| run | instance | states | properties |
|---|---|---|---|
| `runtime` | a process wake and an input, two runtimes of one host | 840,195 | the last three, and `TypeOK` |
| `runtime_turns` | a session command, a host turn, an input that steers it | 452,044 | all four |
| `runtime_inline` | a wake, inline controller, hooks that append nodes | 157,451 | `NothingLost` |

Every row may be claimed twice (`MaxToken = 2`): once by a run that fails,
crashes or loses it, and once more. Two tenures (`MaxFence = 2`) let the second
runtime take over from the first, while a runtime may re-enter its own tenure any
number of times. A claim lasts one tick and the lease two, so that a claim expires
under a lease that is still held, as it does in the code (30 s without renewal
against a renewed lease). `MaxHead` leaves room for every commit these rows allow.
The two runtimes are interchangeable, and so are turn ids that no host names and
no input steers, hence the symmetry set. The runtimes run on one host, which
allows every takeover that two hosts allow and the reclaim of a dead one besides.

With an inline controller `NothingTwice` and `CancelledNeverRuns` do not hold: the
messages of an unfinished turn are committed while its input stays claimed, and
after a crash the input is written again. With hooks that append nodes,
`FencedWriterIsCurrent` does not hold: the hook's commit moves the head.

Deadlock is checked in `processes` and `observation`. It is not in the session and
turn runs: with everything done, everybody crashed or a bound reached, those systems
may stop.

### Fairness

* `lease` (`DeadHolderReplaced`, `DroppedLeaseReplaced`): time passes; a runtime that
  has begun a reclaim, or has a guard to drop, goes on (the code awaits the store
  and the future is driven); and a runtime that wants the session keeps asking, as
  the queued-work drivers do by polling. Nothing is assumed of turns, commits or
  renewals.
* `turn` (`TurnEnds`): the driver goes on with the effect in hand, and a durable host
  runs a turn again that was cut short (`WF_vars(HostStep)`). Nothing is assumed of
  cancellations, crashes or the expiry of claims.
* `processes` (`EventuallyTerminal`): the host keeps sweeping: the code sweeps when a
  session is opened and when a process or a delivery is started, and leaves further
  sweeps to the embedding host (`runtime/process_work_driver.rs`); a task goes on; renewals are made in time, at a
  third of the lease, except in a stall that is counted as a fault; time passes.
  Nothing is assumed of faults, cancellations, triggers or the sessions.
* `observation` (`CatchesUp`): a client keeps polling its stream. Nothing is assumed
  of appends, losses or time.

### Disagreements between the code and what is written about it

* `lease_hooks_exclusive`: a hook that appends session nodes during a turn opens
  a second guard of the same incarnation; it re-enters the row and releases it
  with its commit. The turn goes on without a lease, and another runtime takes
  the lane while the first guard still looks valid
  (docs/architecture/scaling.html: "exactly one runtime owner"). The fence of the
  final commit refuses the first one, so nothing wrong is written.
* `pickup`: claims are never renewed. A turn of more than 30 s finds its own
  batch available at the next checkpoint and picks it up again; its commit is
  then refused, since the first claim is gone
  (docs/architecture/scaling.html: "exactly-once work pickup"). The same expiry
  lets an input be cancelled while it is in a running turn
  (docs/architecture/queued-work-ingress.md: "cancelled before claim"); the commit
  check keeps that harmless, see `CancelledNeverRuns`.
* `stranded`: an input that steers a turn and arrives after its last checkpoint
  stays pending for a turn that has committed. Only an interrupted commit defers
  such inputs, and no claim for a next turn selects them.
* `trigger_delivery`: a delivery is handed only to the emit that reserves it. When
  that emit stops before the process is registered, a retry under the same
  idempotency key is given no reservation and answers `Ok`; the process is never
  started (docs/architecture/triggers.html: "idempotent / exactly-once").
* `turn_replay`: the recorded outcome of a code cell is its response, without the
  state of the interpreter. A second run of the turn replays the cell without
  executing it, and goes on, and commits, without the variables it bound
  (docs/architecture/lashlang.html: "Variables persist across `<lashlang>` blocks";
  docs/rlm.html says the same).

Without a run of their own, because no line of the repository claims otherwise or
because a run above shows the cause:

* the in-memory store completes claims one by one and returns an error at the first
  it does not own; those already completed are deleted although the turn is not
  written. With `AtomicCommit = FALSE` TLC finds `NothingLost` violated. The SQL
  stores roll back;
* a checkpoint that is replayed delivers its messages again but not its claims: the
  commit does not complete them, and the batch comes back after it was committed
  (`stale` in `TurnHost`);
* a model call that is cancelled, and the error of a checkpoint, are recorded as
  outcomes, so that every later run of the turn ends there;
* the prompt and the tool list of a turn's first request are recorded nowhere; if
  they change before a second run, the request conflicts with the journal;
* a renewal that fails because the database is busy drops the effect and records the
  error as its outcome, as long as its lease holds;
* a wake that a recovery appends again after the session consumed the first is a new
  row, since deduplication looks only at rows that exist;
* the signals of a process are counted after they are appended
  (`session/execution_context.rs:505`), so that two at once can resolve one wait;
* a session's snapshot is loaded before its cursor is read
  (`runtime/observation.rs:386`), so that a client can start ahead of its view;
* a cursor of an earlier life of the buffer is refused only while it is ahead of the
  tail; once the tail has passed it, it is taken as this buffer's own. `NoSilentGap`
  therefore speaks of cursors that this buffer issued.

## 4. Proofs

Every invariant and every action property of the passing runs is proved, and so is
the refinement of `FencedLane`. The theorems hold for every value of the constants
that satisfies the named assumptions (`LeaseAssumption`, `BoundAssumption`,
`ClaimAssumption`, `RuntimeAssumption`, `TurnAssumption`, `HostAssumption`,
`EffectAssumption`, `RegistryAssumption`, `ProcessAssumption`, `ReplayAssumption`):
any number of runtimes, hosts, tasks, processes, clients, rows, batches and turns, any
TTLs, limits, buffer sizes and numbers of crashes. `HostAssumption` asks that a batch of
tool calls is not empty, that a call has at least one attempt and that a claim has room
for one batch: the driver starts no batch without calls, a retry policy is read as
`max_attempts.max(1)`, and the limit of a claim is 64.

`SessionLeaseProofs`:

* `LeaseTypeCorrect`: `Spec => []TypeOK`.
* `LaneExclusiveTheorem`: `LaneExclusive` when no hook commits on its own. It is
  not inductive, since it says nothing of the row. The invariant is
  `LeaseInv == TypeOK /\ GuardBacked /\ DeadDropped`: an open guard with time left
  belongs to the row's owner and tenure, and its copy of the expiry is not ahead of
  the row's; and a crashed runtime has no guards, which is why a reclaim cannot
  leave an unexpired guard behind.
* `NeverStolenTheorem`: `NeverStolenFromLiving`, hooks included, one case per action.
* `LaneRefinementTheorem`: the machine implements `FencedLane`, hooks included.
  Each action maps to a grant, a give-back, a write or a stutter; the proof needs
  that a commit is verified against the row in the step that writes.

`SessionRuntimeProofs`:

* `FencedWriterTheorem`: `FencedWriterIsCurrent` when no hook commits on its own.
  The invariant is `LaneInv == LaneTypes /\ OwnerIsUpToDate`: the runtime the row
  names is up to date, whether its tenure has expired or not. It is stronger than
  the property, which asks it only of an unexpired fence, and inductive because
  the head moves only in a step verified against the row: such a step brings its
  own runtime up to date and no other runtime is named; and a runtime that takes
  the lane is at a point where it has not loaded anything it will write.
* `RuntimeTypes`: `Spec => []TypeOK`, from `StoreInv == StoreTypes /\ Accounts`, hooks
  and either controller and store included. `StoreTypes` adds to the types what a
  runtime holds at each point of a run (`Fits`): nothing before it claims, one command
  while it applies one, and, on a durable controller, nothing saved before the commit.
* `NothingLostTheorem`: `NothingLost` if commits are atomic (`AtomicCommit`), on either
  controller. With the in-memory store, whose commit completes its claims before it
  can be refused, it is no theorem.
* `NothingTwiceTheorem`, `CancelledTheorem`: `NothingTwice` and `CancelledNeverRuns` on a
  durable controller (`Durable`), with either store. With the inline controller they do
  not hold (section 3).
  `Accounts` says of each row that it was written exactly if it is done, and of each
  host turn that it was written at most once, and only with its stamp. It is
  inductive because the step that writes a row is the one that completes it: a commit
  demands that every row it completes is still in the store, under the claim it was
  handed out with, and a row that is done or cancelled has left the store. What a
  step does to the other rows is in one lemma per kind of step (`MovesKeepRows`,
  `UnwrittenAccounts`).

`QueuedWorkProofs` has what the two session machines share: induction on numbers and
on sequences, the laws of `Among` (type, append, concatenation), and `SelectionRule`,
which says what the selection loop takes from a queue of any length under any limit.

`TurnHostProofs` is about one turn after the other on a durable controller, for every
limit `MaxTurns`, every set of batches and of outcomes, and any number of crashes:

* `HostTypesTheorem` (`TypeOK`), `AnsweredTheorem` (`AnsweredAll`), `ResumeTheorem`
  (`CommitResumes`), `EventsTheorem` (`EventsOnce`), `LimitTheorem` (`TurnLimit`),
  `SerialTheorem` (`SerialAlone`), `GroupTheorem` (`OneGroupPerClaim`), `MaximalTheorem`
  (`ClaimIsMaximal`), `IdleTheorem` (`IdleRunnerProgress`). The invariant is `HostInv`. Its
  core is `Sound`, what is known of a machine between two calls of its host:
  - `QueueOK`: the queue of effects holds one question at most, which is the one the
    machine waits for, and `Done` only at the end; a finished machine has handed over
    all its events and ends resumably;
  - `Handed`: the pieces of the event log that were handed over and those in the queue
    are, one after the other, the log up to the cursor. It is said of the RLM
    protocols only: with the standard one a boundary whose tool calls have no results
    is dropped with its piece. The standard driver emits no protocol events, and the
    RLM drivers have no tool calls to leave open, which together give `EventsOnce`;
  - `Counted`: how many requests were made in each state, by the iteration; that
    the model has been shown every delivery once it was called; and that tool calls
    without results are the last message and only while they run.

  The proof goes upwards: each driver's list of actions leads from a machine that was
  given its answer to a sound one (`StandardLlmSound`, `RlmLlmSound`, `ToolsAnswered`,
  ...), every answer of the host is of the kind the machine waits for (`AnswerSound`),
  and each action of the host does one of these (`HostInvStep`). `BatchOK` adds of a
  batch that a serial call that has begun has all parallel and all earlier calls
  behind it, from which `SerialAlone` follows.
* `ReplayTheorem`: `NoReplayConflict`. The invariant is `ReplayInv`: there is a path of
  machines from the initial one on which each follows from the last by a report
  that is taken or an answer that is recorded; every recorded answer was given to a
  machine on the path, with the argument it asked with; and the machine of the run is
  on the path, or has ended. The ids of questions strictly increase along the path, so
  that a key belongs to one place on it. A run that starts again starts at the first
  machine and can only go along the path: whatever it asks at a place with a recorded
  answer, it asks as before. Where the record stops, the run is at the end of the path
  and its answer prolongs it. The recorded error of a checkpoint ends the path, since it
  aborts the turn, and a run that is cancelled before it asks the model has ended.

`EffectReplayProofs` is about the table alone. Its callers may do anything that the
operations allow, so that the theorems hold for processes and for turns.

* `OneOutcomePerKey`: `EffectAgreement`; `RefusalNotRecorded`: `LostLeaseNotRecorded`;
  `SleepsToTheDeadline`: `SleepHonoured`; `RecordIsFinal`: `RecordedForever`.
  The invariant `EInv` adds to the types what a row says of its holder (it is in the
  middle of a call for this key and envelope), what a call at each point knows of its
  row, and that a call which was refused a renewal does not hold its row.

`ProcessRegistryProofs` has no specification of its own: its lemmas say that each
operation preserves `RegistryOK` (the types and `OneTerminal`). `DurableProcessProofs` puts the
parts together:

* `ProcessTypeCorrect`, `ProcessOneTerminal`, `ProcessTerminalForever`,
  `ProcessOneAnswer`, `ProcessWakes` (`WakeNotLost`), `ProcessEffects` (the
  properties of the table, in the composed system). The invariant is
  `DInv == EInv /\ RegistryOK /\ TriggerOK /\ HostOK /\ TaskOK /\ ProcOK`: where a task
  is in the program tells what must be recorded and enqueued by then.

`LiveReplayProofs`:

* `TypeCorrect`; `ReplayComplete`: `NoSilentGap`; `GapsAreReal`: `GapIsReal`. The
  invariant is `IInv == TypeOK /\ Suffix /\ Given /\ Linked /\ Blank`: the buffer is
  the end of what was appended; what a client was given runs from its start to its
  cursor; the replayed events and then the channel continue from there; a client
  that has not started has no cursor to lose.

`HostInv` and `ReplayInv` were checked by TLC as invariants of the instance of run `turn`
before they were proved. The proofs also corrected the model: two arms of a `CASE` in `TurnMachine`
overlapped (a finished machine that is given another action, and a response with
calls to a conversation that ends in tool results), so that their value was TLC's
choice of the first arm and not determined; they are now nested conditions, in the
order of the code.

What stays with TLC: the liveness properties (`DeadHolderReplaced`,
`DroppedLeaseReplaced`, `TurnEnds`, `EventuallyTerminal`, `CatchesUp`), which need
fairness and `ENABLED`; and the counterexamples, which are instances by nature.
Induction is used where its hypothesis can be stated as a set of numbers or of sequences
(`NatInd`, `SeqInd`), since the provers cannot instantiate an operator: so it is with the
selection loop, the filters and the machine's `apply_actions`, which are recursive functions.

## 5. Not modelled

* agent-frame switches, which keep the lease across turns;
* claims by explicit batch id (`stream_selected_queued_work`);
* in the turn: the inline controller (its commits are in `SessionRuntime`), the
  branch that runs tool calls one after the other for a controller that cannot run
  effects at once (Restate), the export and restoration of a machine's state,
  `before_llm_call` hooks, turns without a limit;
* in the processes: signals, processes that start processes, awaiting another
  process, the matching of subscriptions;
* in the observation: the snapshot a client starts from;
* `available_at` delays, equal enqueue times, deduplication by source key, and
  checkpoints restricted to the end of a turn;
* store errors other than refusals, except for renewals, and answers lost after
  an accepted commit;
* the graph nodes, blobs, usage ledger and attachments a commit carries;
* the SQL text and migrations of the stores, whose operations are each one
  transaction;
* everything `PROJECT.json` lists as `not_modelled`, with its reason.

## 6. Plan

1. Proofs. An abstract specification of the turn (a sequence of questions, each
   answered once, then one commit) that `TurnHost` implements, from the path of
   `ReplayInv`; one of the queue (a row is waiting, held by one claim, written or
   cancelled) that `SessionRuntime` implements, from `Accounts`.
2. Signals and their waits in `DurableProcess`: the ordinal of a signal against the
   ordinal of a wait, when two are sent at once.
3. Agent-frame switches and claims by id in `SessionRuntime`; a liveness property for
   the queue.
4. The snapshot a client starts from, in `LiveReplay`.
5. The session graph and attachments: intents, commits, and what a collection may
   remove.
