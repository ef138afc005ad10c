----------------------------- MODULE EffectReplay -----------------------------
(***************************************************************************)
(* The durable effect controller of the SQLite store                       *)
(* (crates/lash-sqlite-store/src/effect_replay.rs): one row per replay key *)
(* of a scope, leased to the call that executes the effect, and the        *)
(* outcome replayed to every later call with the same key.                 *)
(*                                                                         *)
(* A runner is whoever calls execute_effect; it has one call in flight.    *)
(* The lease token is new in every call and a call claims at most once, so *)
(* a row names the runner instead of the token, and names nobody once the  *)
(* call with that token is gone.  `left' is what lease_expires_at_ms, and  *)
(* `due' what due_at_ms, still have on the clock.                          *)
(***************************************************************************)
EXTENDS ProcessHosts

CONSTANTS
  ReplayOnly,  \* runners whose host was put in replay mode
  Keys,        \* replay keys, each within its scope
  SleepKeys,   \* those whose effect is Sleep
  Envelopes,   \* stable hashes of effect envelopes
  Slept,       \* the outcome of Sleep
  EffectTtl,   \* lease_ttl, in ticks
  SleepTicks   \* duration of Sleep, in ticks

Errors == {"failed", "lease_lost", "store", "hash_conflict", "missing"}

ASSUME EffectAssumption ==
  /\ ReplayOnly \subseteq Runners /\ SleepKeys \subseteq Keys
  /\ Slept \in Values
  /\ Nobody \notin Runners \cup Keys \cup Envelopes \cup Values \cup Errors
  /\ Values \cap Errors = {}
  /\ EffectTtl \in Nat \ {0} /\ SleepTicks \in Nat

VARIABLES
  replay,   \* replay[k]: the row of key k
  call      \* call[r]: what runner r is doing in execute_effect

effectVars == <<replay, call>>

Outcomes == Values \cup Errors

Absent == [status |-> "absent", hash |-> Nobody, result |-> Nobody,
           holder |-> Nobody, left |-> 0, due |-> 0]
Row == [status: {"absent", "in_progress", "completed", "failed"},
        hash: Envelopes \cup {Nobody}, result: Outcomes \cup {Nobody},
        holder: Runners \cup {Nobody}, left: 0..EffectTtl, due: 0..SleepTicks]

\* prepare -> (executing -> finalize | due) -> returned -> idle
NoCall == [pc |-> "idle", key |-> Nobody, hash |-> Nobody, result |-> Nobody]
Call == [pc: {"idle", "prepare", "executing", "finalize", "due", "returned"},
         key: Keys \cup {Nobody}, hash: Envelopes \cup {Nobody},
         result: Outcomes \cup {Nobody}]

EffectTypeOK ==
  /\ replay \in [Keys -> Row]
  /\ call \in [Runners -> Call]

EffectInit ==
  /\ replay = [k \in Keys |-> Absent]
  /\ call = [r \in Runners |-> NoCall]

At(r, pc) == call[r].pc = pc
RowOf(r) == replay[call[r].key]

SetRow(r, row) == replay' = [replay EXCEPT ![call[r].key] = row]
Go(r, pc) == call' = [call EXCEPT ![r].pc = pc]
GoWith(r, pc, o) == call' = [call EXCEPT ![r].pc = pc, ![r].result = o]

\* The token of r's call goes out of use; the row's expiry stays.
Orphan(r) ==
  replay' = [k \in Keys |-> IF replay[k].holder = r
                            THEN [replay[k] EXCEPT !.holder = Nobody]
                            ELSE replay[k]]

-----------------------------------------------------------------------------
\* execute_effect is called, with the envelope the caller built this time.
StartCall(r, k, h) ==
  /\ At(r, "idle")
  /\ call' = [call EXCEPT ![r] = [pc |-> "prepare", key |-> k, hash |-> h,
                                  result |-> Nobody]]
  /\ UNCHANGED replay

\* prepare_effect, no row yet: claim it, and fix when a sleep is due.
PrepareInsert(r) ==
  /\ At(r, "prepare") /\ RowOf(r).status = "absent"
  /\ IF r \in ReplayOnly
     THEN GoWith(r, "returned", "missing") /\ UNCHANGED replay
     ELSE /\ SetRow(r, [status |-> "in_progress", hash |-> call[r].hash,
                        result |-> Nobody, holder |-> r, left |-> EffectTtl,
                        due |-> IF call[r].key \in SleepKeys THEN SleepTicks ELSE 0])
          /\ Go(r, "executing")

\* ... the key was used with another envelope.
PrepareConflict(r) ==
  /\ At(r, "prepare")
  /\ RowOf(r).status # "absent" /\ RowOf(r).hash # call[r].hash
  /\ GoWith(r, "returned", "hash_conflict")
  /\ UNCHANGED replay

\* ... an outcome is recorded.
PrepareReplay(r) ==
  /\ At(r, "prepare")
  /\ RowOf(r).status = "completed" /\ RowOf(r).hash = call[r].hash
  /\ GoWith(r, "due", RowOf(r).result)
  /\ UNCHANGED replay

\* ... an error is recorded.
PrepareReplayError(r) ==
  /\ At(r, "prepare")
  /\ RowOf(r).status = "failed" /\ RowOf(r).hash = call[r].hash
  /\ GoWith(r, "returned", RowOf(r).result)
  /\ UNCHANGED replay

\* Mutant: a new claim starts the sleep again.
PrepareTakeOverResleep(r) ==
  /\ At(r, "prepare")
  /\ RowOf(r).status = "in_progress" /\ RowOf(r).hash = call[r].hash
  /\ RowOf(r).left = 0
  /\ SetRow(r, [RowOf(r) EXCEPT !.holder = r, !.left = EffectTtl,
                  !.due = IF call[r].key \in SleepKeys THEN SleepTicks ELSE 0])
  /\ Go(r, "executing")

\* Mutant: only the call that holds the row may claim it again.
PrepareTakeOverOwn(r) ==
  /\ At(r, "prepare")
  /\ RowOf(r).status = "in_progress" /\ RowOf(r).hash = call[r].hash
  /\ RowOf(r).left = 0 /\ RowOf(r).holder = r
  /\ SetRow(r, [RowOf(r) EXCEPT !.left = EffectTtl])
  /\ Go(r, "executing")

\* ... the row is in progress and its lease expired: claim it, keeping its
\* deadline.  (While the lease is live the call polls: nothing changes.)
PrepareTakeOver(r) ==
  /\ At(r, "prepare")
  /\ RowOf(r).status = "in_progress" /\ RowOf(r).hash = call[r].hash
  /\ RowOf(r).left = 0
  /\ SetRow(r, [RowOf(r) EXCEPT !.holder = r, !.left = EffectTtl])
  /\ Go(r, "executing")

\* ... the database fails.
PrepareFails(r) ==
  /\ At(r, "prepare")
  /\ GoWith(r, "returned", "store")
  /\ UNCHANGED replay

\* The recorded outcome of a sleep is handed out when the sleep is due.
ReplayDue(r) ==
  /\ At(r, "due") /\ RowOf(r).due = 0
  /\ Go(r, "returned")
  /\ UNCHANGED replay

-----------------------------------------------------------------------------
\* Mutant: sleep without a look at the deadline.
MayEndEarly(r, o) ==
  IF call[r].key \in SleepKeys THEN o = Slept
  ELSE o \in (Values \ {Slept}) \cup {"failed"}

\* execute_claimed_effect can end with outcome o.
MayEnd(r, o) ==
  IF call[r].key \in SleepKeys THEN o = Slept /\ RowOf(r).due = 0
  ELSE o \in (Values \ {Slept}) \cup {"failed"}

Execute(r, o) ==
  /\ At(r, "executing") /\ MayEnd(r, o)
  /\ GoWith(r, "finalize", o)
  /\ UNCHANGED replay

\* Mutant: the statement does not compare the lease token.
HoldsAny(r) ==
  /\ RowOf(r).status = "in_progress" /\ RowOf(r).hash = call[r].hash
  /\ RowOf(r).left > 0

\* The WHERE clause of the renewal and of the final update.
Holds(r) ==
  /\ RowOf(r).status = "in_progress" /\ RowOf(r).hash = call[r].hash
  /\ RowOf(r).holder = r /\ RowOf(r).left > 0

\* renew_effect_lease, every third of the lease while the effect runs.
RenewEffect(r) ==
  /\ At(r, "executing") /\ Holds(r)
  /\ SetRow(r, [RowOf(r) EXCEPT !.left = EffectTtl])
  /\ UNCHANGED call

\* ... refused: the effect is dropped, its result is the refusal.
RenewEffectLost(r) ==
  /\ At(r, "executing") /\ ~Holds(r)
  /\ GoWith(r, "finalize", "lease_lost")
  /\ UNCHANGED replay

\* ... the database fails: the effect is dropped the same way.
RenewEffectFails(r) ==
  /\ At(r, "executing")
  /\ GoWith(r, "finalize", "store")
  /\ UNCHANGED replay

\* Mutant: the outcome is handed out whether or not it was recorded.
FinalizeUnchecked(r) ==
  /\ At(r, "finalize")
  /\ Go(r, "returned")
  /\ IF Holds(r)
     THEN SetRow(r, [RowOf(r) EXCEPT
            !.status = IF call[r].result \in Values THEN "completed" ELSE "failed",
            !.result = call[r].result, !.holder = Nobody, !.left = 0])
     ELSE Orphan(r)

\* finalize_effect: record the outcome or the error, if the lease is still ours.
Finalize(r) ==
  /\ At(r, "finalize")
  /\ IF Holds(r)
     THEN /\ SetRow(r, [RowOf(r) EXCEPT
               !.status = IF call[r].result \in Values THEN "completed" ELSE "failed",
               !.result = call[r].result, !.holder = Nobody, !.left = 0])
          /\ Go(r, "returned")
     ELSE /\ Orphan(r)
          /\ GoWith(r, "returned", "lease_lost")

\* ... the database fails.
FinalizeFails(r) ==
  /\ At(r, "finalize")
  /\ Orphan(r)
  /\ GoWith(r, "returned", "store")

\* The caller takes the answer.
TakeAnswer(r) ==
  /\ At(r, "returned")
  /\ call' = [call EXCEPT ![r] = NoCall]
  /\ UNCHANGED replay

\* The caller drops the future, or its host crashes.
DropCall(r) ==
  /\ Orphan(r)
  /\ call' = [call EXCEPT ![r] = NoCall]

EffectTick ==
  /\ replay' = [k \in Keys |-> [replay[k] EXCEPT !.left = Countdown(@), !.due = Countdown(@)]]
  /\ UNCHANGED call

-----------------------------------------------------------------------------
\* The steps of a call that nothing has to go wrong for.
CallStep(r) ==
  \/ PrepareInsert(r) \/ PrepareConflict(r) \/ PrepareReplay(r)
  \/ PrepareReplayError(r) \/ PrepareTakeOver(r) \/ ReplayDue(r)
  \/ \E o \in Outcomes : Execute(r, o)
  \/ RenewEffectLost(r) \/ Finalize(r)

CallFails(r) == PrepareFails(r) \/ RenewEffectFails(r) \/ FinalizeFails(r)

EffectNext ==
  \/ \E r \in Runners :
       \/ \E k \in Keys, h \in Envelopes : StartCall(r, k, h)
       \/ CallStep(r) \/ CallFails(r) \/ RenewEffect(r)
       \/ TakeAnswer(r) \/ DropCall(r)
  \/ EffectTick

EffectSpec == EffectInit /\ [][EffectNext]_effectVars

-----------------------------------------------------------------------------
(* Whoever was answered with an outcome of the effect, or with its failure, *)
(* was answered with what the row records: a runner that lost its lease     *)
(* while the effect ran never hands out its own result                      *)
(* (execute_effect returns finalize's error in place of the outcome).       *)
Answered(r) == At(r, "returned") /\ call[r].result \in Values \cup {"failed"}

EffectAgreement ==
  \A r \in Runners : Answered(r) =>
    /\ RowOf(r).status \in {"completed", "failed"}
    /\ RowOf(r).result = call[r].result

(* A refused renewal or finalization is never recorded as the outcome: the *)
(* row stays for the call that took it over.                               *)
LostLeaseNotRecorded == \A k \in Keys : replay[k].result # "lease_lost"

(* A sleep is over for its caller only when the deadline fixed by the first *)
(* claim has passed, whoever finishes it.                                   *)
SleepHonoured ==
  \A r \in Runners :
    At(r, "returned") /\ call[r].result = Slept => RowOf(r).due = 0

(* A recorded outcome is final, and once a row exists its envelope and its *)
(* sleep deadline stay: a take-over after a crash does not sleep again.    *)
RecordFixed ==
  \A k \in Keys :
    /\ replay[k].status \in {"completed", "failed"} =>
         replay'[k].status = replay[k].status /\ replay'[k].result = replay[k].result
    /\ replay[k].status # "absent" =>
         /\ replay'[k].status # "absent"
         /\ replay'[k].hash = replay[k].hash
         /\ replay'[k].due <= replay[k].due

RecordedForever == [][RecordFixed]_effectVars
=============================================================================
