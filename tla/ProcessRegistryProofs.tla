------------------------- MODULE ProcessRegistryProofs -------------------------
(***************************************************************************)
(* Every operation of the process registry keeps its rows typed and their  *)
(* terminal states unique and final.  OneTerminal is inductive together    *)
(* with the types: an append looks at all of the log and at the record,    *)
(* and the two agree on what is terminal.                                  *)
(***************************************************************************)
EXTENDS ProcessRegistry, TLAPS

RegistryOK == RegistryTypeOK /\ OneTerminal

\* Types and single terminal events hold at first.
LEMMA InitRegistryOK == RegistryInit => RegistryOK
BY RegistryAssumption
   DEF RegistryInit, RegistryOK, RegistryTypeOK, OneTerminal, NoLease, IsTerminal, TerminalKeys

\* What the log and the record of one process say to each other.
Consistent(p) ==
  /\ \A i, j \in DOMAIN log[p] :
       \/ i = j
       \/ /\ log[p][i].key # log[p][j].key
          /\ ~{log[p][i].key, log[p][j].key} \subseteq TerminalKeys
  /\ IsTerminal(p) <=> \E i \in DOMAIN log[p] : log[p][i].key \in TerminalKeys
  /\ \A i \in DOMAIN log[p] : log[p][i].key \in TerminalKeys =>
       log[p][i] = EventOf(record[p].status, record[p].output)

\* One terminal event at most, said process by process.
LEMMA OneTerminalConsistent == OneTerminal <=> \A p \in Processes : Consistent(p)
BY DEF OneTerminal, Consistent

\* append_event: only a first terminal event touches the record.
LEMMA AppendOK ==
  ASSUME RegistryOK, NEW p \in Processes, NEW e \in Event, AppendEvent(p, e)
  PROVE  RegistryOK' /\ TerminalFixed
<1> DEFINE new == ~Refused(p, e) /\ ~Replays(p, e)
<1>1. /\ log \in [Processes -> Seq(Event)] /\ log[p] \in Seq(Event)
      /\ record \in [Processes -> [status: {"absent", "running"} \cup TerminalKeys,
                                   output: Values \cup {Nobody}]]
      /\ e.key \in {"wake", "cancel_requested"} \cup TerminalKeys
      /\ e.payload \in Values \cup {Nobody}
      /\ e = EventOf(e.key, e.payload)
  BY DEF RegistryOK, RegistryTypeOK, Event, EventOf
<1>2. Consistent(p)
  BY OneTerminalConsistent DEF RegistryOK
<1>3. ~Refused(p, e) /\ e.key \in TerminalKeys /\ Replays(p, e) => IsTerminal(p)
  BY <1>2 DEF Replays, Consistent
<1>4. record' = IF new /\ e.key \in TerminalKeys
                THEN [record EXCEPT ![p] = [status |-> e.key, output |-> e.payload]]
                ELSE record
  BY <1>3 DEF AppendEvent
<1>5. log' = IF new THEN [log EXCEPT ![p] = Append(@, e)] ELSE log
  BY DEF AppendEvent
<1>6. new => /\ ~Logged(p, e.key)
             /\ e.key \in TerminalKeys => ~IsTerminal(p)
  BY DEF Refused
<1> HIDE DEF new
<1>7. \A q \in Processes : q # p => log'[q] = log[q] /\ record'[q] = record[q]
  BY <1>1, <1>4, <1>5
<1>8. RegistryTypeOK'
  <2>1. record' \in [Processes -> [status: {"absent", "running"} \cup TerminalKeys,
                                   output: Values \cup {Nobody}]]
    BY <1>1, <1>4
  <2>2. log' \in [Processes -> Seq(Event)]
    BY <1>1, <1>5
  <2> QED
    BY <2>1, <2>2 DEF RegistryOK, RegistryTypeOK, AppendEvent
<1>9. Consistent(p)'
  <2>1. CASE ~new
    BY <1>2, <1>4, <1>5, <2>1 DEF Consistent, IsTerminal
  <2>2. CASE new
    <3> DEFINE n == Len(log[p])
    <3>1. /\ n \in Nat /\ DOMAIN log[p] = 1..n /\ DOMAIN log'[p] = 1..(n + 1)
          /\ log'[p][n + 1] = e /\ \A i \in 1..n : log'[p][i] = log[p][i]
      BY <1>1, <1>5, <2>2
    <3>2. \A i \in 1..n : log[p][i].key # e.key
      BY <1>6, <2>2, <3>1 DEF Logged
    <3> HIDE DEF n
    <3>3. CASE e.key \in TerminalKeys
      <4>1. record'[p] = [status |-> e.key, output |-> e.payload]
        BY <1>1, <1>4, <2>2, <3>3
      <4>2. \A i \in 1..n : log[p][i].key \notin TerminalKeys
        BY <1>2, <1>6, <2>2, <3>1, <3>3 DEF Consistent
      <4>3. ASSUME NEW i \in 1..(n + 1), NEW j \in 1..(n + 1), i # j
            PROVE  /\ log'[p][i].key # log'[p][j].key
                   /\ ~{log'[p][i].key, log'[p][j].key} \subseteq TerminalKeys
        <5>1. CASE i \in 1..n /\ j \in 1..n
          BY <1>2, <3>1, <4>2, <4>3, <5>1 DEF Consistent
        <5>2. CASE i = n + 1
          <6>1. j \in 1..n
            BY <3>1, <4>3, <5>2
          <6> QED
            BY <3>1, <3>2, <4>2, <5>2, <6>1
        <5>3. CASE j = n + 1
          <6>1. i \in 1..n
            BY <3>1, <4>3, <5>3
          <6> QED
            BY <3>1, <3>2, <4>2, <5>3, <6>1
        <5> QED
          BY <3>1, <5>1, <5>2, <5>3
      <4>4. n + 1 \in 1..(n + 1) /\ IsTerminal(p)'
        BY <3>1, <3>3, <4>1 DEF IsTerminal
      <4>5. \A i \in 1..(n + 1) : log'[p][i].key \in TerminalKeys =>
              log'[p][i] = EventOf(record'[p].status, record'[p].output)
        <5>1. ASSUME NEW i \in 1..(n + 1), log'[p][i].key \in TerminalKeys PROVE i = n + 1
          BY <3>1, <4>2, <5>1
        <5> QED
          BY <1>1, <3>1, <4>1, <5>1 DEF EventOf
      <4> QED
        BY <3>1, <3>3, <4>3, <4>4, <4>5 DEF Consistent
    <3>4. CASE e.key \notin TerminalKeys
      <4>1. record' = record
        BY <1>4, <3>4
      <4>2. ASSUME NEW i \in 1..(n + 1), NEW j \in 1..(n + 1), i # j
            PROVE  /\ log'[p][i].key # log'[p][j].key
                   /\ ~{log'[p][i].key, log'[p][j].key} \subseteq TerminalKeys
        <5>1. CASE i \in 1..n /\ j \in 1..n
          <6>1. log'[p][i] = log[p][i] /\ log'[p][j] = log[p][j]
            BY <3>1, <5>1
          <6>2. /\ log[p][i].key # log[p][j].key
                /\ ~{log[p][i].key, log[p][j].key} \subseteq TerminalKeys
            BY <1>2, <3>1, <4>2, <5>1 DEF Consistent
          <6> QED
            BY <6>1, <6>2
        <5>2. CASE i = n + 1
          <6>1. j \in 1..n
            BY <3>1, <4>2, <5>2
          <6> QED
            BY <3>1, <3>2, <3>4, <5>2, <6>1
        <5>3. CASE j = n + 1
          <6>1. i \in 1..n
            BY <3>1, <4>2, <5>3
          <6> QED
            BY <3>1, <3>2, <3>4, <5>3, <6>1
        <5> QED
          BY <3>1, <5>1, <5>2, <5>3
      <4>3. ASSUME NEW i \in 1..(n + 1), log'[p][i].key \in TerminalKeys
            PROVE  i \in 1..n /\ log'[p][i] = log[p][i]
        BY <3>1, <3>4, <4>3
      <4>4. \A i \in 1..n : i \in 1..(n + 1)
        BY <3>1
      <4> QED
        BY <1>2, <3>1, <4>1, <4>2, <4>3, <4>4 DEF Consistent, IsTerminal
    <3> QED
      BY <3>3, <3>4
  <2> QED
    BY <2>1, <2>2
<1>10. \A q \in Processes : Consistent(q)'
  <2>1. ASSUME NEW q \in Processes, q # p PROVE Consistent(q)'
    BY <1>7, <2>1, OneTerminalConsistent DEF RegistryOK, Consistent, IsTerminal
  <2> QED
    BY <1>9, <2>1
<1>11. TerminalFixed
  BY <1>1, <1>4, <1>6, <1>7 DEF TerminalFixed
<1>12. OneTerminal'
  BY <1>10 DEF OneTerminal, Consistent
<1> QED
  BY <1>8, <1>11, <1>12 DEF RegistryOK

\* register_process: a new row is not terminal.
LEMMA RegisterOK ==
  ASSUME RegistryOK, NEW p \in Processes, RegisterProcess(p)
  PROVE  RegistryOK' /\ TerminalFixed
<1>1. /\ record \in [Processes -> [status: {"absent", "running"} \cup TerminalKeys,
                                   output: Values \cup {Nobody}]]
      /\ UNCHANGED <<log, lease, granted>>
  BY DEF RegistryOK, RegistryTypeOK, RegisterProcess
<1>2. /\ record' \in [Processes -> [status: {"absent", "running"} \cup TerminalKeys,
                                    output: Values \cup {Nobody}]]
      /\ \A q \in Processes :
           record'[q] = record[q] \/ (~IsTerminal(q) /\ ~IsTerminal(q)')
  <2>1. CASE Known(p)
    BY <1>1, <2>1 DEF RegisterProcess
  <2>2. CASE ~Known(p)
    <3>1. record' = [record EXCEPT ![p].status = "running"]
      BY <2>2 DEF RegisterProcess
    <3>2. record'[p].status = "running" /\ record[p].status = "absent"
      BY <1>1, <2>2, <3>1 DEF Known
    <3>3. \A q \in Processes : q # p => record'[q] = record[q]
      BY <1>1, <3>1
    <3>4. ~IsTerminal(p) /\ ~IsTerminal(p)'
      BY <3>2 DEF IsTerminal, TerminalKeys
    <3>5. record' \in [Processes -> [status: {"absent", "running"} \cup TerminalKeys,
                                     output: Values \cup {Nobody}]]
      BY <1>1, <3>1
    <3> QED
      BY <3>3, <3>4, <3>5
  <2> QED
    BY <2>1, <2>2
<1>3. OneTerminal'
  <2>1. ASSUME NEW q \in Processes PROVE Consistent(q)'
    BY <1>1, <1>2, OneTerminalConsistent DEF RegistryOK, Consistent, IsTerminal
  <2> QED
    BY <2>1 DEF OneTerminal, Consistent
<1>4. RegistryTypeOK'
  BY <1>1, <1>2 DEF RegistryOK, RegistryTypeOK
<1> QED
  BY <1>2, <1>3, <1>4 DEF RegistryOK, TerminalFixed

\* Handles and leases are no part of it.
LEMMA RestOK ==
  ASSUME RegistryOK, record' = record, log' = log,
         lease' \in [Processes -> [holder: Runners \cup {Nobody}, left: 0..LeaseTtl]],
         granted' \subseteq Processes
  PROVE  RegistryOK' /\ TerminalFixed
BY DEF RegistryOK, RegistryTypeOK, OneTerminal, IsTerminal, TerminalFixed

\* The lease operations keep the lease table typed.
LEMMA LeasesTyped ==
  ASSUME RegistryOK, NEW p \in Processes, NEW w \in Runners,
         ClaimLease(p, w) \/ RenewLease(p, w) \/ CompleteLease(p, w) \/ OrphanLease(w)
  PROVE  /\ lease' \in [Processes -> [holder: Runners \cup {Nobody}, left: 0..LeaseTtl]]
         /\ UNCHANGED <<record, log, granted>>
<1> USE RegistryAssumption
<1>1. lease \in [Processes -> [holder: Runners \cup {Nobody}, left: 0..LeaseTtl]]
  BY DEF RegistryOK, RegistryTypeOK
<1>2. CASE ClaimLease(p, w)
  BY <1>1, <1>2 DEF ClaimLease
<1>3. CASE RenewLease(p, w)
  BY <1>1, <1>3 DEF RenewLease
<1>4. CASE CompleteLease(p, w)
  BY <1>1, <1>4 DEF CompleteLease, NoLease
<1>5. CASE OrphanLease(w)
  BY <1>1, <1>5 DEF OrphanLease
<1> QED
  BY <1>2, <1>3, <1>4, <1>5

\* Time runs on the leases only.
LEMMA RegistryTickTyped ==
  ASSUME RegistryOK, RegistryTick
  PROVE  /\ lease' \in [Processes -> [holder: Runners \cup {Nobody}, left: 0..LeaseTtl]]
         /\ UNCHANGED <<record, log, granted>>
<1>1. lease \in [Processes -> [holder: Runners \cup {Nobody}, left: 0..LeaseTtl]]
  BY DEF RegistryOK, RegistryTypeOK
<1> QED
  BY <1>1, RegistryAssumption DEF RegistryTick, Countdown
=============================================================================
