-------------------------- MODULE EffectReplayProofs --------------------------
(***************************************************************************)
(* The replay table answers every call with one outcome per key, whatever  *)
(* the number of callers, keys, envelopes and outcomes, and however leases *)
(* run out.                                                                *)
(*                                                                         *)
(* The invariant has a part for every row (a lease names a call that is    *)
(* executing this key, and what is recorded is an outcome or an error of   *)
(* the effect) and one for every call (what it has in hand agrees with the *)
(* row).  A call that lost its lease never gets it back (Lost), which is   *)
(* why its outcome cannot be recorded.                                     *)
(***************************************************************************)
EXTENDS EffectReplay, TLAPS

Recorded == {"completed", "failed"}

RowOK(k) ==
  /\ replay[k].holder # Nobody =>
       /\ replay[k].status = "in_progress"
       /\ call[replay[k].holder].pc \in {"executing", "finalize"}
       /\ call[replay[k].holder].key = k
       /\ call[replay[k].holder].hash = replay[k].hash
  /\ replay[k].status = "completed" => replay[k].result \in Values
  /\ replay[k].status = "failed" => replay[k].result \in Errors \ {"lease_lost"}
  /\ replay[k].status \notin Recorded => replay[k].result = Nobody

\* The row of a call has this outcome on record.
OnRecord(r) == RowOf(r).status \in Recorded /\ RowOf(r).result = call[r].result

CallOK(r) ==
  /\ ~At(r, "idle") => call[r].key \in Keys /\ call[r].hash \in Envelopes
  /\ At(r, "executing") \/ At(r, "finalize") => RowOf(r).status # "absent"
  /\ At(r, "finalize") => call[r].result \in Values \cup {"failed", "store", "lease_lost"}
  /\ At(r, "due") => RowOf(r).status = "completed" /\ OnRecord(r)
  /\ Answered(r) => OnRecord(r)
  /\ (At(r, "finalize") \/ At(r, "returned")) /\ call[r].result = Slept =>
       RowOf(r).status # "absent" /\ RowOf(r).due = 0

\* A call that was refused a renewal does not hold its row.
Lost(r) == At(r, "finalize") /\ call[r].result = "lease_lost" => ~Holds(r)

EInv ==
  /\ EffectTypeOK
  /\ \A k \in Keys : RowOK(k)
  /\ \A r \in Runners : CallOK(r) /\ Lost(r)

-----------------------------------------------------------------------------

\* The invariant holds at first.
LEMMA InitEInv == EffectInit => EInv
<1> SUFFICES ASSUME EffectInit PROVE EInv
  OBVIOUS
<1>1. EffectTypeOK
  BY EffectAssumption
     DEF EffectInit, EffectTypeOK, Row, Call, Absent, NoCall
<1>2. ASSUME NEW k \in Keys PROVE RowOK(k)
  BY DEF EffectInit, RowOK, Absent, Recorded
<1>3. ASSUME NEW r \in Runners PROVE CallOK(r) /\ Lost(r)
  BY DEF EffectInit, CallOK, Lost, NoCall, At, Answered
<1> QED
  BY <1>1, <1>2, <1>3 DEF EInv

\* The other calls only see their row go forward.
LEMMA OtherCall ==
  ASSUME EInv, RecordFixed, EffectTypeOK', NEW d \in Runners, call'[d] = call[d],
         ~Holds(d) => ~Holds(d)'
  PROVE  CallOK(d)' /\ Lost(d)'
<1>1. call[d].key \in Keys =>
        /\ RowOf(d).status \in Recorded =>
             RowOf(d)'.status = RowOf(d).status /\ RowOf(d)'.result = RowOf(d).result
        /\ RowOf(d).status # "absent" =>
             RowOf(d)'.status # "absent" /\ RowOf(d)'.due <= RowOf(d).due
        /\ RowOf(d).due \in Nat /\ RowOf(d)'.due \in Nat
  BY EffectAssumption DEF RecordFixed, RowOf, EInv, EffectTypeOK, Row, Recorded
<1>2. CallOK(d) /\ Lost(d)
  BY DEF EInv
<1>3. CallOK(d)'
  <2>1. (~At(d, "idle") => call[d].key \in Keys /\ call[d].hash \in Envelopes)'
    BY <1>2 DEF CallOK, At
  <2>2. CASE At(d, "idle")
    BY <2>1, <2>2 DEF CallOK, At, Answered
  <2>3. CASE ~At(d, "idle")
    <3>1. call[d].key \in Keys
      BY <1>2, <2>3 DEF CallOK
    <3>2. (At(d, "due") => RowOf(d).status = "completed" /\ OnRecord(d))'
      BY <1>1, <1>2, <3>1 DEF CallOK, At, OnRecord, Recorded
    <3>3. (Answered(d) => OnRecord(d))'
      BY <1>1, <1>2, <3>1 DEF CallOK, At, OnRecord, Recorded, Answered
    <3>4. ((At(d, "finalize") \/ At(d, "returned")) /\ call[d].result = Slept =>
             RowOf(d).status # "absent" /\ RowOf(d).due = 0)'
      BY <1>1, <1>2, <3>1 DEF CallOK, At
    <3> QED
      BY <1>1, <1>2, <2>1, <3>1, <3>2, <3>3, <3>4 DEF CallOK, At
  <2> QED
    BY <2>2, <2>3
<1>4. Lost(d)'
  BY <1>2 DEF Lost, At
<1> QED
  BY <1>3, <1>4

\* A step of r that leaves the table alone, and with it any lease of r.
LEMMA CallMoves ==
  ASSUME EInv, NEW r \in Runners, NEW c \in Call,
         replay' = replay, call' = [call EXCEPT ![r] = c],
         CallOK(r)', Lost(r)',
         call[r].pc \in {"executing", "finalize"} =>
           /\ c.pc \in {"executing", "finalize"}
           /\ c.key = call[r].key /\ c.hash = call[r].hash
  PROVE  EInv' /\ RecordFixed
<1>1. EffectTypeOK'
  BY DEF EInv, EffectTypeOK
<1>2. RecordFixed
  <2>1. ASSUME NEW k \in Keys PROVE replay[k].due <= replay[k].due
    BY EffectAssumption DEF EInv, EffectTypeOK, Row
  <2> QED
    BY <2>1 DEF RecordFixed
<1>3. \A d \in Runners : d # r => call'[d] = call[d]
  BY DEF EInv, EffectTypeOK
<1>4. call'[r] = c
  BY DEF EInv, EffectTypeOK
<1>5. ASSUME NEW k \in Keys PROVE RowOK(k)'
  <2>1. RowOK(k) /\ replay[k].holder \in Runners \cup {Nobody}
    BY DEF EInv, EffectTypeOK, Row
  <2>2. CASE replay[k].holder = r
    BY <1>4, <2>1, <2>2, EffectAssumption DEF RowOK, Recorded
  <2>3. CASE replay[k].holder # r
    BY <1>3, <2>1, <2>3 DEF RowOK, Recorded
  <2> QED
    BY <2>2, <2>3
<1>6. ASSUME NEW d \in Runners PROVE CallOK(d)' /\ Lost(d)'
  <2>1. CASE d = r
    BY <2>1
  <2>2. CASE d # r
    <3>1. call'[d] = call[d] /\ (~Holds(d) => ~Holds(d)')
      BY <1>3, <2>2 DEF Holds, RowOf
    <3> QED
      BY <1>1, <1>2, <3>1, OtherCall
  <2> QED
    BY <2>1, <2>2
<1> QED
  BY <1>1, <1>2, <1>5, <1>6 DEF EInv

\* A step of r that writes the row of its key: nobody else holds it after.
LEMMA RowMoves ==
  ASSUME EInv, NEW r \in Runners, NEW c \in Call, NEW row \in Row,
         call[r].key \in Keys, call[r].pc \in {"prepare", "executing", "finalize"},
         replay' = [replay EXCEPT ![call[r].key] = row],
         call' = [call EXCEPT ![r] = c], c.key = call[r].key,
         RowOf(r).status \notin Recorded,
         RowOf(r).status # "absent" =>
           row.status # "absent" /\ row.hash = RowOf(r).hash /\ row.due <= RowOf(r).due,
         row.holder \in {r, Nobody},
         RowOK(call[r].key)', CallOK(r)', Lost(r)'
  PROVE  EInv' /\ RecordFixed
<1>1. EffectTypeOK'
  BY DEF EInv, EffectTypeOK
<1>2. replay'[call[r].key] = row /\ \A k \in Keys : k # call[r].key => replay'[k] = replay[k]
  BY DEF EInv, EffectTypeOK
<1>3. RecordFixed
  <2>1. ASSUME NEW k \in Keys PROVE replay[k].due <= replay[k].due
    BY EffectAssumption DEF EInv, EffectTypeOK, Row
  <2> QED
    BY <1>2, <2>1 DEF RecordFixed, RowOf, Recorded
<1>4. call'[r] = c /\ \A d \in Runners : d # r => call'[d] = call[d]
  BY DEF EInv, EffectTypeOK
<1>5. ASSUME NEW k \in Keys PROVE RowOK(k)'
  <2>1. CASE k = call[r].key
    BY <2>1
  <2>2. CASE k # call[r].key
    <3>1. RowOK(k) /\ replay[k].holder \in Runners \cup {Nobody} /\ replay'[k] = replay[k]
      BY <1>2, <2>2 DEF EInv, EffectTypeOK, Row
    <3>2. replay[k].holder # r
      BY <2>2, <3>1, EffectAssumption DEF RowOK
    <3> QED
      BY <1>4, <3>1, <3>2 DEF RowOK, Recorded
  <2> QED
    BY <2>1, <2>2
<1>6. ASSUME NEW d \in Runners PROVE CallOK(d)' /\ Lost(d)'
  <2>1. CASE d = r
    BY <2>1
  <2>2. CASE d # r
    <3>1. call'[d] = call[d]
      BY <1>4, <2>2
    <3>2. ASSUME Holds(d)' PROVE Holds(d)
      <4>1. CASE call[d].key = call[r].key
        <5>1. row.holder = d
          BY <1>2, <3>1, <3>2, <4>1 DEF Holds, RowOf
        <5> QED
          BY <2>2, <5>1, EffectAssumption
      <4>2. CASE call[d].key # call[r].key
        <5>1. replay'[call[d].key] = replay[call[d].key]
          BY <4>2 DEF EInv, EffectTypeOK
        <5> QED
          BY <3>1, <3>2, <5>1 DEF Holds, RowOf
      <4> QED
        BY <4>1, <4>2
    <3> QED
      BY <1>1, <1>3, <3>1, <3>2, OtherCall
  <2> QED
    BY <2>1, <2>2
<1> QED
  BY <1>1, <1>3, <1>5, <1>6 DEF EInv

\* A step that takes leases away or lets them run down, and moves r.
LEMMA LeasesFade ==
  ASSUME EInv, NEW r \in Runners, EffectTypeOK',
         \A d \in Runners : d # r => call'[d] = call[d],
         \A k \in Keys :
           /\ replay'[k].status = replay[k].status /\ replay'[k].hash = replay[k].hash
           /\ replay'[k].result = replay[k].result
           /\ replay'[k].due <= replay[k].due /\ replay'[k].left <= replay[k].left
           /\ replay'[k].holder \in {replay[k].holder, Nobody}
           /\ replay'[k].holder = r => call'[r] = call[r],
         CallOK(r)', Lost(r)'
  PROVE  EInv' /\ RecordFixed
<1>1. RecordFixed
  BY DEF RecordFixed
<1>2. ASSUME NEW k \in Keys PROVE RowOK(k)'
  <2>1. RowOK(k) /\ replay[k].holder \in Runners \cup {Nobody}
    BY DEF EInv, EffectTypeOK, Row
  <2>2. CASE replay'[k].holder = Nobody
    BY <2>1, <2>2 DEF RowOK, Recorded
  <2>3. CASE replay'[k].holder # Nobody
    <3>1. replay'[k].holder = replay[k].holder /\ call'[replay[k].holder] = call[replay[k].holder]
      BY <2>1, <2>3
    <3> QED
      BY <2>1, <3>1 DEF RowOK, Recorded
  <2> QED
    BY <2>2, <2>3
<1>3. ASSUME NEW d \in Runners PROVE CallOK(d)' /\ Lost(d)'
  <2>1. CASE d = r
    BY <2>1
  <2>2. CASE d # r
    <3>1. call'[d] = call[d]
      BY <2>2
    <3>2. CASE call[d].key \in Keys
      <4>1. ASSUME Holds(d)' PROVE Holds(d)
        <5> DEFINE k == call[d].key
        <5>1. /\ replay'[k].status = replay[k].status /\ replay'[k].hash = replay[k].hash
              /\ replay'[k].left <= replay[k].left
              /\ replay'[k].holder \in {replay[k].holder, Nobody}
              /\ replay[k].left \in Int /\ replay'[k].left \in Int
          BY <3>2 DEF EInv, EffectTypeOK, Row
        <5>2. /\ replay'[k].status = "in_progress" /\ replay'[k].hash = call[d].hash
              /\ replay'[k].holder = d /\ replay'[k].left > 0
          BY <3>1, <4>1 DEF Holds, RowOf
        <5>3. replay[k].holder = d
          BY <5>1, <5>2, EffectAssumption
        <5> QED
          BY <5>1, <5>2, <5>3 DEF Holds, RowOf
      <4> QED
        BY <1>1, <3>1, <4>1, OtherCall
    <3>3. CASE call[d].key \notin Keys
      <4>1. At(d, "idle")
        BY <3>3 DEF EInv, CallOK
      <4> QED
        BY <3>1, <4>1 DEF CallOK, Lost, At, Answered
    <3> QED
      BY <3>2, <3>3
  <2> QED
    BY <2>1, <2>2
<1> QED
  BY <1>1, <1>2, <1>3 DEF EInv

-----------------------------------------------------------------------------

\* A call that begins knows nothing of its row yet.
LEMMA StartCallEInv ==
  ASSUME EInv, NEW r \in Runners, NEW k \in Keys, NEW h \in Envelopes, StartCall(r, k, h)
  PROVE  EInv' /\ RecordFixed
<1> DEFINE c == [pc |-> "prepare", key |-> k, hash |-> h, result |-> Nobody]
<1>1. call' = [call EXCEPT ![r] = c] /\ replay' = replay /\ call[r].pc = "idle"
  BY DEF StartCall, At
<1>2. c \in Call
  BY DEF Call
<1>3. call'[r] = c
  BY <1>1 DEF EInv, EffectTypeOK
<1>4. CallOK(r)' /\ Lost(r)'
  BY <1>3 DEF CallOK, Lost, At, Answered
<1> HIDE DEF c
<1> QED
  BY <1>1, <1>2, <1>4, CallMoves

\* The answers of prepare_effect that do not claim the row, and of a call that
\* waits for a recorded sleep.
LEMMA AnswerEInv ==
  ASSUME EInv, NEW r \in Runners,
         PrepareConflict(r) \/ PrepareReplay(r) \/ PrepareReplayError(r) \/ PrepareFails(r)
           \/ ReplayDue(r)
  PROVE  EInv' /\ RecordFixed
<1>1. call[r] \in Call /\ CallOK(r) /\ call[r].pc \in {"prepare", "due"} /\ replay' = replay
  BY DEF EInv, EffectTypeOK, PrepareConflict, PrepareReplay, PrepareReplayError, PrepareFails,
         ReplayDue, At
<1>2. call[r].key \in Keys /\ call[r].hash \in Envelopes /\ RowOK(call[r].key)
      /\ RowOf(r) \in Row /\ RowOf(r)' = replay[call'[r].key]
  BY <1>1 DEF EInv, EffectTypeOK, CallOK, At, RowOf
<1>3. ASSUME NEW pc \in {"due", "returned"}, NEW o \in Outcomes,
             call' = [call EXCEPT ![r].pc = pc, ![r].result = o],
             pc = "due" => RowOf(r).status = "completed" /\ RowOf(r).result = o,
             pc = "returned" =>
               /\ o \in Values \cup {"failed"} =>
                    RowOf(r).status \in Recorded /\ RowOf(r).result = o
               /\ o = Slept => RowOf(r).due = 0
      PROVE  EInv' /\ RecordFixed
  <2> DEFINE c == [call[r] EXCEPT !.pc = pc, !.result = o]
  <2>1. call' = [call EXCEPT ![r] = c] /\ c \in Call
    BY <1>1, <1>3 DEF Call
  <2>2. call'[r].pc = pc /\ call'[r].result = o /\ call'[r].key = call[r].key
        /\ call'[r].hash = call[r].hash
    BY <1>1, <2>1 DEF EInv, EffectTypeOK, Call
  <2>3. RowOf(r)' = RowOf(r)
    BY <1>1, <2>2 DEF RowOf
  <2>4. CallOK(r)'
    <3>1. o = Slept => RowOf(r).status # "absent" \/ pc = "due"
      BY <1>3, EffectAssumption DEF Recorded
    <3> QED
      BY <1>2, <1>3, <2>2, <2>3, <3>1 DEF CallOK, At, Answered, OnRecord, Recorded
  <2>5. Lost(r)'
    BY <2>2 DEF Lost, At
  <2> HIDE DEF c
  <2> QED
    BY <1>1, <2>1, <2>4, <2>5, CallMoves
<1>4. CASE PrepareConflict(r)
  BY <1>3, <1>4, EffectAssumption DEF PrepareConflict, GoWith, Outcomes, Errors
<1>5. CASE PrepareFails(r)
  BY <1>3, <1>5, EffectAssumption DEF PrepareFails, GoWith, Outcomes, Errors
<1>6. CASE PrepareReplay(r)
  <2>1. RowOf(r).status = "completed" /\ RowOf(r).result \in Values
    BY <1>2, <1>6 DEF PrepareReplay, RowOK, RowOf
  <2> QED
    BY <1>3, <1>6, <2>1 DEF PrepareReplay, GoWith, Outcomes
<1>7. CASE PrepareReplayError(r)
  <2>1. RowOf(r).status = "failed" /\ RowOf(r).result \in Errors
    BY <1>2, <1>7 DEF PrepareReplayError, RowOK, RowOf
  <2> QED
    BY <1>3, <1>7, <2>1, EffectAssumption DEF PrepareReplayError, GoWith, Outcomes, Recorded
<1>8. CASE ReplayDue(r)
  <2>1. OnRecord(r) /\ RowOf(r).status = "completed" /\ RowOf(r).due = 0
    BY <1>1, <1>8 DEF ReplayDue, CallOK
  <2>2. call[r].result \in Outcomes
    BY <1>2, <2>1 DEF OnRecord, RowOK, RowOf, Outcomes
  <2>3. call' = [call EXCEPT ![r].pc = "returned", ![r].result = call[r].result]
    <3>1. [call[r] EXCEPT !.pc = "returned"]
            = [call[r] EXCEPT !.pc = "returned", !.result = call[r].result]
      BY <1>1 DEF Call
    <3>2. call' = [call EXCEPT ![r] = [call[r] EXCEPT !.pc = "returned"]]
      BY <1>8 DEF ReplayDue, Go
    <3> QED
      BY <3>1, <3>2
  <2> QED
    BY <1>3, <2>1, <2>2, <2>3 DEF OnRecord
<1> QED
  BY <1>4, <1>5, <1>6, <1>7, <1>8

\* The effect ends, or is dropped because a renewal was refused or failed.
LEMMA ExecuteEInv ==
  ASSUME EInv, NEW r \in Runners,
         (\E o \in Outcomes : Execute(r, o)) \/ RenewEffectLost(r) \/ RenewEffectFails(r)
  PROVE  EInv' /\ RecordFixed
<1>1. call[r] \in Call /\ CallOK(r) /\ call[r].pc = "executing" /\ replay' = replay
  BY DEF EInv, EffectTypeOK, Execute, RenewEffectLost, RenewEffectFails, At
<1>2. call[r].key \in Keys /\ call[r].hash \in Envelopes /\ RowOf(r).status # "absent"
  BY <1>1 DEF CallOK, At
<1>3. PICK o \in Outcomes :
        /\ call' = [call EXCEPT ![r].pc = "finalize", ![r].result = o]
        /\ o \in Values \cup {"failed", "store", "lease_lost"}
        /\ o = Slept => RowOf(r).due = 0
        /\ o = "lease_lost" => ~Holds(r)
  <2>1. CASE \E o \in Outcomes : Execute(r, o)
    <3>1. PICK o \in Outcomes : Execute(r, o)
      BY <2>1
    <3>2. o \in Values \cup {"failed"} /\ (o = Slept => RowOf(r).due = 0)
      BY <3>1, EffectAssumption DEF Execute, MayEnd, Errors
    <3>3. o # "lease_lost"
      BY <3>2, EffectAssumption DEF Errors
    <3> QED
      BY <3>1, <3>2, <3>3 DEF Execute, GoWith
  <2>2. \A e \in {"lease_lost", "store"} : e \in Outcomes /\ e # Slept
    BY EffectAssumption DEF Outcomes, Errors
  <2>3. CASE RenewEffectLost(r)
    <3>1. call' = [call EXCEPT ![r].pc = "finalize", ![r].result = "lease_lost"] /\ ~Holds(r)
      BY <2>3 DEF RenewEffectLost, GoWith
    <3> QED
      BY <2>2, <3>1
  <2>4. CASE RenewEffectFails(r)
    <3>1. call' = [call EXCEPT ![r].pc = "finalize", ![r].result = "store"]
      BY <2>4 DEF RenewEffectFails, GoWith
    <3> QED
      BY <2>2, <3>1
  <2> QED
    BY <2>1, <2>3, <2>4
<1> DEFINE c == [call[r] EXCEPT !.pc = "finalize", !.result = o]
<1>4. call' = [call EXCEPT ![r] = c] /\ c \in Call
  BY <1>1, <1>3 DEF Call
<1>5. call'[r].pc = "finalize" /\ call'[r].result = o /\ call'[r].key = call[r].key
      /\ call'[r].hash = call[r].hash
  BY <1>1, <1>4 DEF EInv, EffectTypeOK, Call
<1>6. RowOf(r)' = RowOf(r) /\ (Holds(r)' <=> Holds(r))
  BY <1>1, <1>5 DEF RowOf, Holds
<1>7. CallOK(r)' /\ Lost(r)'
  BY <1>2, <1>3, <1>5, <1>6 DEF CallOK, Lost, At, Answered
<1>8. c.pc = "finalize" /\ c.key = call[r].key /\ c.hash = call[r].hash
  BY <1>1 DEF Call
<1> HIDE DEF c
<1> QED
  BY <1>1, <1>4, <1>7, <1>8, CallMoves

\* prepare_effect claims a row that is new or whose lease expired.
LEMMA ClaimEInv ==
  ASSUME EInv, NEW r \in Runners, PrepareInsert(r) \/ PrepareTakeOver(r)
  PROVE  EInv' /\ RecordFixed
<1>1. call[r] \in Call /\ CallOK(r) /\ call[r].pc = "prepare"
  BY DEF EInv, EffectTypeOK, PrepareInsert, PrepareTakeOver, At
<1> DEFINE k == call[r].key
<1>2. /\ k \in Keys /\ call[r].hash \in Envelopes /\ RowOK(k) /\ RowOf(r) \in Row
      /\ replay[k] = RowOf(r)
  BY <1>1 DEF EInv, EffectTypeOK, CallOK, At, RowOf
<1>3. ASSUME NEW row \in Row, replay' = [replay EXCEPT ![k] = row],
             call' = [call EXCEPT ![r].pc = "executing"],
             RowOf(r).status \notin Recorded,
             RowOf(r).status # "absent" =>
               row.hash = RowOf(r).hash /\ row.due <= RowOf(r).due,
             row.status = "in_progress", row.hash = call[r].hash, row.holder = r,
             row.result = Nobody
      PROVE  EInv' /\ RecordFixed
  <2> DEFINE c == [call[r] EXCEPT !.pc = "executing"]
  <2>1. call' = [call EXCEPT ![r] = c] /\ c \in Call /\ c.key = k
    BY <1>1, <1>3 DEF Call
  <2>2. call'[r].pc = "executing" /\ call'[r].key = k /\ call'[r].hash = call[r].hash
    BY <1>1, <2>1 DEF EInv, EffectTypeOK, Call
  <2>3. replay'[k] = row
    BY <1>2, <1>3 DEF EInv, EffectTypeOK
  <2>4. RowOf(r)' = row
    BY <2>2, <2>3 DEF RowOf
  <2>5. CallOK(r)' /\ Lost(r)'
    BY <1>2, <1>3, <2>2, <2>4 DEF CallOK, Lost, At, Answered
  <2>6. RowOK(k)'
    <3>1. /\ replay'[k].status = "in_progress" /\ replay'[k].holder = r
          /\ replay'[k].hash = call'[r].hash /\ replay'[k].result = Nobody
      BY <1>3, <2>2, <2>3
    <3> QED
      BY <2>2, <3>1 DEF RowOK, Recorded
  <2>7. row.status # "absent" /\ row.holder \in {r, Nobody}
    BY <1>3
  <2> HIDE DEF c
  <2> QED
    BY <1>1, <1>2, <1>3, <2>1, <2>5, <2>6, <2>7, RowMoves
<1>4. CASE PrepareInsert(r)
  <2>1. CASE r \in ReplayOnly
    <3> DEFINE c == [call[r] EXCEPT !.pc = "returned", !.result = "missing"]
    <3>1. "missing" \in Outcomes /\ "missing" \notin Values \cup {"failed"} /\ "missing" # Slept
      BY EffectAssumption DEF Outcomes, Errors
    <3>2. call' = [call EXCEPT ![r] = c] /\ replay' = replay
      BY <1>4, <2>1 DEF PrepareInsert, GoWith
    <3>3. c \in Call
      BY <1>1, <3>1 DEF Call
    <3>4. call'[r].pc = "returned" /\ call'[r].result = "missing" /\ call'[r].key = k
          /\ call'[r].hash = call[r].hash
      BY <1>1, <3>2 DEF EInv, EffectTypeOK, Call
    <3>5. CallOK(r)' /\ Lost(r)'
      BY <1>2, <3>1, <3>4 DEF CallOK, Lost, At, Answered
    <3> HIDE DEF c
    <3> QED
      BY <1>1, <3>2, <3>3, <3>5, CallMoves
  <2>2. CASE r \notin ReplayOnly
    <3> DEFINE due == IF k \in SleepKeys THEN SleepTicks ELSE 0
               row == [status |-> "in_progress", hash |-> call[r].hash, result |-> Nobody,
                       holder |-> r, left |-> EffectTtl, due |-> due]
    <3>1. due \in 0..SleepTicks /\ EffectTtl \in 0..EffectTtl
      BY EffectAssumption
    <3>2. row \in Row
      BY <1>2, <3>1 DEF Row
    <3>3. /\ replay' = [replay EXCEPT ![k] = row]
          /\ call' = [call EXCEPT ![r].pc = "executing"]
          /\ RowOf(r).status = "absent"
      BY <1>4, <2>2 DEF PrepareInsert, SetRow, Go
    <3>4. row.status = "in_progress" /\ row.hash = call[r].hash /\ row.holder = r
          /\ row.result = Nobody
      OBVIOUS
    <3> HIDE DEF row
    <3> QED
      BY <1>3, <3>2, <3>3, <3>4 DEF Recorded
  <2> QED
    BY <2>1, <2>2
<1>5. CASE PrepareTakeOver(r)
  <2> DEFINE row == [RowOf(r) EXCEPT !.holder = r, !.left = EffectTtl]
  <2>1. /\ RowOf(r).status = "in_progress" /\ RowOf(r).hash = call[r].hash
        /\ replay' = [replay EXCEPT ![k] = row] /\ call' = [call EXCEPT ![r].pc = "executing"]
    BY <1>5 DEF PrepareTakeOver, SetRow, Go
  <2>2. EffectTtl \in 0..EffectTtl /\ RowOf(r).due \in Nat /\ RowOf(r).result = Nobody
    BY <1>2, <2>1, EffectAssumption DEF Row, RowOK, RowOf, Recorded
  <2>3. row \in Row
    BY <1>2, <2>2 DEF Row
  <2>4. /\ row.status = "in_progress" /\ row.hash = call[r].hash /\ row.holder = r
        /\ row.result = Nobody /\ row.hash = RowOf(r).hash /\ row.due <= RowOf(r).due
    BY <1>2, <2>1, <2>2 DEF Row
  <2> HIDE DEF row
  <2> QED
    BY <1>3, <2>1, <2>3, <2>4 DEF Recorded
<1> QED
  BY <1>4, <1>5

\* A renewal that is accepted only extends the lease of the row.
LEMMA RenewEInv ==
  ASSUME EInv, NEW r \in Runners, RenewEffect(r)
  PROVE  EInv' /\ RecordFixed
<1> DEFINE k == call[r].key
           row == [RowOf(r) EXCEPT !.left = EffectTtl]
<1>1. call[r] \in Call /\ CallOK(r) /\ call[r].pc = "executing" /\ Holds(r)
  BY DEF EInv, EffectTypeOK, RenewEffect, At
<1>2. /\ k \in Keys /\ call[r].hash \in Envelopes /\ RowOK(k) /\ RowOf(r) \in Row
      /\ replay[k] = RowOf(r)
  BY <1>1 DEF EInv, EffectTypeOK, CallOK, At, RowOf
<1>3. replay' = [replay EXCEPT ![k] = row] /\ call' = call
  BY DEF RenewEffect, SetRow
<1>4. call' = [call EXCEPT ![r] = call[r]]
  BY <1>3 DEF EInv, EffectTypeOK
<1>5. /\ RowOf(r).status = "in_progress" /\ RowOf(r).holder = r
      /\ RowOf(r).due \in Nat /\ EffectTtl \in 0..EffectTtl
  BY <1>1, <1>2, EffectAssumption DEF Holds, Row
<1>6. row \in Row
  BY <1>2, <1>5 DEF Row
<1>7. /\ row.status = RowOf(r).status /\ row.hash = RowOf(r).hash /\ row.holder = r
      /\ row.result = RowOf(r).result /\ row.due = RowOf(r).due
  BY <1>2, <1>5 DEF Row
<1>8. replay'[k] = row
  BY <1>2, <1>3 DEF EInv, EffectTypeOK
<1> HIDE DEF row
<1>9. RowOK(k)'
  BY <1>2, <1>3, <1>7, <1>8, <1>5 DEF RowOK
<1>10. CallOK(r)' /\ Lost(r)'
  <2>1. RowOf(r)' = row
    BY <1>3, <1>8 DEF RowOf
  <2> QED
    BY <1>1, <1>2, <1>3, <1>5, <1>7, <2>1 DEF CallOK, Lost, At, Answered
<1>11. row.due <= RowOf(r).due /\ row.status # "absent" /\ RowOf(r).status \notin Recorded
  BY <1>5, <1>7 DEF Recorded
<1> QED
  BY <1>1, <1>2, <1>3, <1>4, <1>6, <1>7, <1>9, <1>10, <1>11, RowMoves

\* What Orphan leaves of the table.
LEMMA OrphanRows ==
  ASSUME EInv, NEW r \in Runners, Orphan(r)
  PROVE  /\ replay' \in [Keys -> Row]
         /\ \A k \in Keys :
              /\ replay'[k].status = replay[k].status /\ replay'[k].hash = replay[k].hash
              /\ replay'[k].result = replay[k].result
              /\ replay'[k].due <= replay[k].due /\ replay'[k].left <= replay[k].left
              /\ replay'[k].holder \in {replay[k].holder, Nobody}
              /\ replay'[k].holder # r
<1> USE EffectAssumption
<1>1. ASSUME NEW k \in Keys
      PROVE  /\ replay'[k] \in Row
             /\ replay'[k].status = replay[k].status /\ replay'[k].hash = replay[k].hash
             /\ replay'[k].result = replay[k].result
             /\ replay'[k].due <= replay[k].due /\ replay'[k].left <= replay[k].left
             /\ replay'[k].holder \in {replay[k].holder, Nobody}
             /\ replay'[k].holder # r
  <2>1. replay[k] \in Row /\ replay[k].due <= replay[k].due /\ replay[k].left <= replay[k].left
    BY DEF EInv, EffectTypeOK, Row
  <2>2. CASE replay[k].holder = r
    <3>1. replay'[k] = [replay[k] EXCEPT !.holder = Nobody]
      BY <2>2 DEF Orphan
    <3> QED
      BY <2>1, <3>1 DEF Row
  <2>3. CASE replay[k].holder # r
    <3>1. replay'[k] = replay[k]
      BY <2>3 DEF Orphan
    <3> QED
      BY <2>1, <2>3, <3>1
  <2> QED
    BY <2>2, <2>3
<1>2. replay' \in [Keys -> Row]
  BY <1>1 DEF Orphan
<1> QED
  BY <1>1, <1>2

\* finalize_effect that did not record, and a call that is dropped or done with:
\* r is left with an answer that claims nothing, or with no call at all.
LEMMA AbandonEInv ==
  ASSUME EInv, NEW r \in Runners,
         \/ Finalize(r) /\ ~Holds(r)
         \/ FinalizeFails(r) \/ DropCall(r)
  PROVE  EInv' /\ RecordFixed
<1>1. Orphan(r)
  BY DEF Finalize, FinalizeFails, DropCall
<1>2. call[r] \in Call /\ CallOK(r) /\ call \in [Runners -> Call]
  BY DEF EInv, EffectTypeOK
<1>3. PICK c \in Call :
        /\ call' = [call EXCEPT ![r] = c]
        /\ \/ c = NoCall
           \/ /\ c.pc = "returned" /\ c.result \in {"lease_lost", "store"}
              /\ c.key \in Keys /\ c.hash \in Envelopes
  <2>1. CASE DropCall(r)
    <3>1. NoCall \in Call
      BY DEF NoCall, Call
    <3> QED
      BY <2>1, <3>1 DEF DropCall
  <2>2. CASE (Finalize(r) /\ ~Holds(r)) \/ FinalizeFails(r)
    <3>1. PICK o \in {"lease_lost", "store"} :
            call' = [call EXCEPT ![r].pc = "returned", ![r].result = o]
      BY <2>2 DEF Finalize, FinalizeFails, GoWith
    <3> DEFINE c == [call[r] EXCEPT !.pc = "returned", !.result = o]
    <3>2. o \in Outcomes
      BY DEF Outcomes, Errors
    <3>3. c \in Call /\ c.pc = "returned" /\ c.result = o /\ c.key = call[r].key
          /\ c.hash = call[r].hash
      BY <1>2, <3>2 DEF Call
    <3>4. call[r].key \in Keys /\ call[r].hash \in Envelopes
      BY <1>2, <2>2 DEF CallOK, Finalize, FinalizeFails, At
    <3>5. call' = [call EXCEPT ![r] = c]
      BY <3>1
    <3> HIDE DEF c
    <3> QED
      BY <3>3, <3>4, <3>5
  <2> QED
    BY <2>1, <2>2
<1>4. call'[r] = c /\ \A d \in Runners : d # r => call'[d] = call[d]
  BY <1>2, <1>3
<1>5. EffectTypeOK'
  BY <1>1, <1>2, <1>3, OrphanRows DEF EffectTypeOK
<1>6. CallOK(r)' /\ Lost(r)'
  <2>1. CASE c = NoCall
    BY <1>4, <2>1 DEF CallOK, Lost, At, Answered, NoCall
  <2>2. CASE /\ c.pc = "returned" /\ c.result \in {"lease_lost", "store"}
             /\ c.key \in Keys /\ c.hash \in Envelopes
    <3>1. c.result \notin Values \cup {"failed"} /\ c.result # Slept
      BY <2>2, EffectAssumption DEF Errors
    <3> QED
      BY <1>4, <2>2, <3>1 DEF CallOK, Lost, At, Answered
  <2> QED
    BY <1>3, <2>1, <2>2
<1> QED
  BY <1>1, <1>4, <1>5, <1>6, OrphanRows, LeasesFade

\* finalize_effect that did: what the caller is told is what the row says.
LEMMA FinalizeEInv ==
  ASSUME EInv, NEW r \in Runners, Finalize(r), Holds(r)
  PROVE  EInv' /\ RecordFixed
<1> DEFINE k == call[r].key
           o == call[r].result
           st == IF o \in Values THEN "completed" ELSE "failed"
           row == [RowOf(r) EXCEPT !.status = st, !.result = o, !.holder = Nobody, !.left = 0]
           c == [call[r] EXCEPT !.pc = "returned"]
<1>1. call[r] \in Call /\ CallOK(r) /\ Lost(r) /\ call[r].pc = "finalize"
  BY DEF EInv, EffectTypeOK, Finalize, At
<1>2. /\ k \in Keys /\ call[r].hash \in Envelopes /\ RowOf(r) \in Row
      /\ RowOf(r).status = "in_progress" /\ RowOf(r).due \in Nat
  BY <1>1, EffectAssumption DEF EInv, EffectTypeOK, CallOK, At, RowOf, Holds, Row
<1>3. o \in Values \cup {"failed", "store"} /\ (o = Slept => RowOf(r).due = 0)
  BY <1>1 DEF CallOK, Lost, At
<1>4. replay' = [replay EXCEPT ![k] = row] /\ call' = [call EXCEPT ![r] = c]
  BY DEF Finalize, SetRow, Go
<1>5. /\ st \in {"completed", "failed"}
      /\ st = "completed" => o \in Values
      /\ st = "failed" => o \in Errors \ {"lease_lost"}
  BY <1>3 DEF Errors
<1>6. o \in Outcomes /\ 0 \in 0..EffectTtl
  BY <1>3, EffectAssumption DEF Outcomes, Errors
<1> HIDE DEF st
<1>7. row \in Row /\ c \in Call
  BY <1>1, <1>2, <1>5, <1>6 DEF Row, Call
<1>8. /\ row.status = st /\ row.result = o /\ row.holder = Nobody
      /\ row.hash = RowOf(r).hash /\ row.due = RowOf(r).due
  BY <1>2 DEF Row
<1>9. c.pc = "returned" /\ c.key = k /\ c.hash = call[r].hash /\ c.result = o
  BY <1>1 DEF Call
<1>10. replay'[k] = row /\ call'[r] = c
  BY <1>2, <1>4 DEF EInv, EffectTypeOK
<1> HIDE DEF row, c
<1>11. RowOK(k)'
  <2>1. call'[r].key = k
    BY <1>9, <1>10
  <2> QED
    BY <1>5, <1>8, <1>10, <2>1 DEF RowOK, Recorded
<1>12. CallOK(r)' /\ Lost(r)'
  <2>1. RowOf(r)' = row
    BY <1>9, <1>10 DEF RowOf
  <2> QED
    BY <1>2, <1>3, <1>5, <1>8, <1>9, <1>10, <2>1 DEF CallOK, Lost, At, Answered, OnRecord, Recorded
<1>13. row.due <= RowOf(r).due /\ row.status # "absent" /\ RowOf(r).status \notin Recorded
  BY <1>2, <1>5, <1>8 DEF Recorded
<1> QED
  BY <1>1, <1>2, <1>4, <1>7, <1>8, <1>9, <1>11, <1>12, <1>13, RowMoves

\* A caller that has its answer is free again.
LEMMA TakeAnswerEInv ==
  ASSUME EInv, NEW r \in Runners, TakeAnswer(r)
  PROVE  EInv' /\ RecordFixed
<1>1. NoCall \in Call /\ call[r].pc = "returned"
  BY DEF NoCall, Call, TakeAnswer, At
<1>2. call' = [call EXCEPT ![r] = NoCall] /\ replay' = replay
  BY DEF TakeAnswer
<1>3. call'[r] = NoCall
  BY <1>2 DEF EInv, EffectTypeOK
<1>4. CallOK(r)' /\ Lost(r)'
  BY <1>3 DEF CallOK, Lost, At, Answered, NoCall
<1> QED
  BY <1>1, <1>2, <1>4, CallMoves

\* Time shortens leases and deadlines and leaves outcomes alone.
LEMMA TickEInv ==
  ASSUME EInv, EffectTick
  PROVE  EInv' /\ RecordFixed
<1>1. ASSUME NEW k \in Keys
      PROVE  /\ replay'[k] \in Row
             /\ replay'[k].status = replay[k].status /\ replay'[k].hash = replay[k].hash
             /\ replay'[k].result = replay[k].result
             /\ replay'[k].due <= replay[k].due /\ replay'[k].left <= replay[k].left
             /\ replay'[k].holder = replay[k].holder
  <2>1. replay[k] \in Row
    BY DEF EInv, EffectTypeOK
  <2>2. replay'[k] = [replay[k] EXCEPT !.left = Countdown(replay[k].left),
                                       !.due = Countdown(replay[k].due)]
    BY <2>1 DEF EffectTick, Row
  <2>3. /\ Countdown(replay[k].left) \in 0..EffectTtl
        /\ Countdown(replay[k].due) \in 0..SleepTicks
        /\ Countdown(replay[k].left) <= replay[k].left
        /\ Countdown(replay[k].due) <= replay[k].due
    BY <2>1, EffectAssumption DEF Row, Countdown
  <2> QED
    BY <2>1, <2>2, <2>3 DEF Row
<1>2. EffectTypeOK' /\ call' = call
  BY <1>1 DEF EffectTick, EInv, EffectTypeOK
<1>3. CASE Runners = {}
  <2>1. RecordFixed
    BY <1>1 DEF RecordFixed
  <2>2. ASSUME NEW k \in Keys PROVE RowOK(k)'
    <3>1. replay[k].holder = Nobody /\ RowOK(k)
      BY <1>3 DEF EInv, EffectTypeOK, Row
    <3> QED
      BY <1>1, <3>1 DEF RowOK, Recorded
  <2> QED
    BY <1>2, <1>3, <2>1, <2>2 DEF EInv
<1>4. CASE Runners # {}
  <2>1. PICK r \in Runners : TRUE
    BY <1>4
  <2>2. RecordFixed
    BY <1>1 DEF RecordFixed
  <2>3. CASE call[r].key \in Keys
    <3>1. ASSUME Holds(r)' PROVE Holds(r)
      <4>1. /\ RowOf(r)'.left <= RowOf(r).left /\ RowOf(r)'.status = RowOf(r).status
            /\ RowOf(r)'.hash = RowOf(r).hash /\ RowOf(r)'.holder = RowOf(r).holder
            /\ RowOf(r)'.left \in Int /\ RowOf(r).left \in Int
        BY <1>1, <1>2, <2>3 DEF RowOf, EInv, EffectTypeOK, Row
      <4> QED
        BY <1>2, <3>1, <4>1 DEF Holds
    <3>2. CallOK(r)' /\ Lost(r)'
      BY <1>2, <2>2, <3>1, OtherCall
    <3> QED
      BY <1>1, <1>2, <2>1, <3>2, LeasesFade
  <2>4. CASE call[r].key \notin Keys
    <3>1. At(r, "idle")'
      BY <1>2, <2>4 DEF EInv, CallOK, At
    <3>2. CallOK(r)' /\ Lost(r)'
      BY <3>1 DEF CallOK, Lost, At, Answered
    <3> QED
      BY <1>1, <1>2, <2>1, <3>2, LeasesFade
  <2> QED
    BY <2>3, <2>4
<1> QED
  BY <1>3, <1>4

-----------------------------------------------------------------------------

\* One step keeps the invariant and every recorded outcome.
LEMMA NextEInv == EInv /\ [EffectNext]_effectVars => EInv' /\ [RecordFixed]_effectVars
<1> SUFFICES ASSUME EInv, [EffectNext]_effectVars PROVE EInv' /\ [RecordFixed]_effectVars
  OBVIOUS
<1>1. ASSUME NEW r \in Runners, NEW k \in Keys, NEW h \in Envelopes, StartCall(r, k, h)
      PROVE  EInv' /\ RecordFixed
  BY <1>1, StartCallEInv
<1>2. ASSUME NEW r \in Runners, CallStep(r) \/ CallFails(r) PROVE EInv' /\ RecordFixed
  <2>1. CASE PrepareInsert(r) \/ PrepareTakeOver(r)
    BY <2>1, ClaimEInv
  <2>2. CASE PrepareConflict(r) \/ PrepareReplay(r) \/ PrepareReplayError(r)
               \/ PrepareFails(r) \/ ReplayDue(r)
    BY <2>2, AnswerEInv
  <2>3. CASE (\E o \in Outcomes : Execute(r, o)) \/ RenewEffectLost(r) \/ RenewEffectFails(r)
    BY <2>3, ExecuteEInv
  <2>4. CASE Finalize(r) /\ Holds(r)
    BY <2>4, FinalizeEInv
  <2>5. CASE (Finalize(r) /\ ~Holds(r)) \/ FinalizeFails(r)
    BY <2>5, AbandonEInv
  <2> QED
    BY <1>2, <2>1, <2>2, <2>3, <2>4, <2>5 DEF CallStep, CallFails
<1>3. ASSUME NEW r \in Runners, RenewEffect(r) PROVE EInv' /\ RecordFixed
  BY <1>3, RenewEInv
<1>4. ASSUME NEW r \in Runners, TakeAnswer(r) PROVE EInv' /\ RecordFixed
  BY <1>4, TakeAnswerEInv
<1>5. ASSUME NEW r \in Runners, DropCall(r) PROVE EInv' /\ RecordFixed
  BY <1>5, AbandonEInv
<1>6. CASE EffectTick
  BY <1>6, TickEInv
<1>7. CASE UNCHANGED effectVars
  BY <1>7 DEF effectVars, EInv, EffectTypeOK, RowOK, CallOK, Lost, Holds, At, RowOf, Answered,
              OnRecord
<1> QED
  BY <1>1, <1>2, <1>3, <1>4, <1>5, <1>6, <1>7 DEF EffectNext

\* What the invariant gives.
LEMMA EInvImplies ==
  EInv => EffectTypeOK /\ EffectAgreement /\ LostLeaseNotRecorded /\ SleepHonoured
<1> SUFFICES ASSUME EInv
             PROVE  EffectTypeOK /\ EffectAgreement /\ LostLeaseNotRecorded /\ SleepHonoured
  OBVIOUS
<1>1. EffectAgreement
  BY DEF EInv, EffectAgreement, CallOK, OnRecord, Recorded
<1>2. SleepHonoured
  BY DEF EInv, SleepHonoured, CallOK
<1>3. ASSUME NEW k \in Keys PROVE replay[k].result # "lease_lost"
  <2>1. RowOK(k)
    BY DEF EInv
  <2> QED
    BY <2>1, EffectAssumption DEF RowOK, Recorded, Errors
<1> QED
  BY <1>1, <1>2, <1>3 DEF EInv, LostLeaseNotRecorded

\* The replay table and the calls keep their types.
THEOREM EffectTypeCorrect == EffectSpec => []EffectTypeOK
BY InitEInv, NextEInv, EInvImplies, PTL DEF EffectSpec

\* Every caller that is answered with an outcome of the effect, or its failure,
\* is answered with what the row records (execute_effect, finalize_effect).
THEOREM OneOutcomePerKey == EffectSpec => []EffectAgreement
BY InitEInv, NextEInv, EInvImplies, PTL DEF EffectSpec

\* The refusal of a renewal is never recorded as the outcome of the effect
\* (renew_effect_lease, finalize_effect).
THEOREM RefusalNotRecorded == EffectSpec => []LostLeaseNotRecorded
BY InitEInv, NextEInv, EInvImplies, PTL DEF EffectSpec

\* A sleep ends for a caller only after the deadline of the first claim
\* (prepare_effect keeps due_at_ms, execute_claimed_effect and the replay of the
\* outcome wait for it).
THEOREM SleepsToTheDeadline == EffectSpec => []SleepHonoured
BY InitEInv, NextEInv, EInvImplies, PTL DEF EffectSpec

\* Nothing changes a recorded outcome, or the envelope and deadline of a row.
THEOREM RecordIsFinal == EffectSpec => RecordedForever
BY InitEInv, NextEInv, PTL DEF EffectSpec, RecordedForever
=============================================================================
