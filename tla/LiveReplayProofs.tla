--------------------------- MODULE LiveReplayProofs ---------------------------
(***************************************************************************)
(* No client of the live replay buffer misses or repeats an event without  *)
(* being told, for any number of clients, any size of the buffer and of    *)
(* the channel, and any retention time.                                    *)
(*                                                                         *)
(* NoSilentGap is not inductive: that the next event a subscribed client   *)
(* is given follows its cursor rests on what its subscription still holds  *)
(* (Linked), and that on what the buffer held when it subscribed (Suffix). *)
(***************************************************************************)
EXTENDS LiveReplay, FiniteSetTheorems, TLAPS

\* The buffer holds the latest events and no others.
Suffix ==
  \A n \in events : n <= tail /\ \A m \in n..tail : m \in events

\* What a client was given is what lies between the two cursors.
Given(c) ==
  client[c].own =>
    /\ client[c].cursor <= tail /\ client[c].since <= client[c].cursor
    /\ client[c].seen = (client[c].since + 1)..client[c].cursor
    /\ client[c].count = client[c].cursor - client[c].since

\* A subscription begins after the cursor: the replayed events, then the
\* channel, with nothing between them.
Linked(c) ==
  In(c, "live") =>
    /\ client[c].next >= 1
    /\ client[c].own =>
         /\ client[c].next \in (client[c].cursor + 1)..(tail + 1)
         /\ client[c].replay = (client[c].cursor + 1)..(client[c].next - 1)

\* A client that has not started has no cursor to lose.
Blank(c) == In(c, "new") => client[c].own /\ client[c].cursor = 0

IInv ==
  /\ TypeOK
  /\ Suffix
  /\ \A c \in Clients : Given(c) /\ Linked(c) /\ Blank(c)

-----------------------------------------------------------------------------
\* Trimming takes events from the front: what it leaves is a suffix.
LEMMA TrimmedSuffix ==
  ASSUME NEW es, NEW last \in Nat, NEW lft,
         es \subseteq Nat,
         \A n \in es : n <= last /\ \A m \in n..last : m \in es
  PROVE  /\ Trimmed(es, last, lft) \subseteq es
         /\ \A n \in Trimmed(es, last, lft) :
              n <= last /\ \A m \in n..last : m \in Trimmed(es, last, lft)
<1> DEFINE bounded == {n \in es : n + MaxEvents > last}
<1>1. Trimmed(es, last, lft) = {n \in bounded : \E m \in bounded : m <= n /\ lft[m] > 0}
  BY DEF Trimmed
<1>2. ASSUME NEW n \in Trimmed(es, last, lft), NEW m \in n..last
      PROVE  m \in Trimmed(es, last, lft)
  <2>1. n \in bounded /\ n \in Nat
    BY <1>1
  <2>2. m \in bounded /\ m \in Nat /\ n <= m
    BY <2>1, ReplayAssumption
  <2>3. PICK k \in bounded : k <= n /\ lft[k] > 0
    BY <1>1
  <2>4. k <= m /\ k \in Nat
    BY <2>1, <2>2, <2>3
  <2> QED
    BY <1>1, <2>2, <2>3, <2>4
<1> QED
  BY <1>1, <1>2

\* What follows a cursor that meets no gap is in the buffer, to the last event.
LEMMA NoGapAfter ==
  ASSUME NEW es, NEW k \in Nat, tail \in Nat, es \subseteq Nat,
         \A n \in es : n <= tail /\ \A m \in n..tail : m \in es,
         ~Gap(k, es)
  PROVE  k <= tail /\ After(k, es) = (k + 1)..tail
<1>1. k <= tail
  BY DEF Gap
<1>2. CASE es = {}
  <2>1. k = tail
    BY <1>1, <1>2 DEF Gap
  <2> QED
    BY <1>1, <1>2, <2>1 DEF After
<1>3. CASE es # {}
  <2>1. PICK n \in es : ~(k + 1 < n)
    BY <1>3 DEF Gap
  <2>2. n \in Nat /\ n <= k + 1
    BY <2>1
  <2>3. ASSUME NEW m \in (k + 1)..tail PROVE m \in es /\ m > k
    BY <2>2, <2>3
  <2>4. ASSUME NEW m \in es, m > k PROVE m \in (k + 1)..tail
    BY <2>4
  <2> QED
    BY <1>1, <2>3, <2>4 DEF After
<1> QED
  BY <1>2, <1>3

-----------------------------------------------------------------------------
\* Nothing but the stream of the client itself is touched, and the buffer may
\* only be trimmed.
LEMMA TrimmedBuffer ==
  ASSUME IInv, events' = Trimmed(events, tail, left), tail' = tail
  PROVE  Suffix' /\ events' \subseteq Positions
<1>1. events \subseteq Nat /\ tail \in Nat
  BY ReplayAssumption DEF IInv, TypeOK, Positions
<1>2. /\ Trimmed(events, tail, left) \subseteq events
      /\ \A n \in Trimmed(events, tail, left) :
           n <= tail /\ \A m \in n..tail : m \in Trimmed(events, tail, left)
  BY <1>1, TrimmedSuffix DEF IInv, Suffix
<1> QED
  BY <1>2 DEF Suffix, IInv, TypeOK

\* The invariant holds at first.
LEMMA InitIInv == Init => IInv
<1> SUFFICES ASSUME Init PROVE IInv
  OBVIOUS
<1>1. TypeOK /\ Suffix
  BY ReplayAssumption DEF Init, TypeOK, Client, Positions, Suffix
<1>2. ASSUME NEW c \in Clients PROVE Given(c) /\ Linked(c) /\ Blank(c)
  <2>1. /\ client[c].pc = "new" /\ client[c].cursor = 0 /\ client[c].since = 0
        /\ client[c].seen = {} /\ client[c].count = 0 /\ client[c].own = TRUE
        /\ tail = 0
    BY DEF Init
  <2> QED
    BY <2>1 DEF Given, Linked, Blank, In
<1> QED
  BY <1>1, <1>2 DEF IInv

\* An event is added at the end, and the oldest may go.
LEMMA AppendIInv == IInv /\ Append => IInv'
<1> SUFFICES ASSUME IInv, Append PROVE IInv'
  OBVIOUS
<1> USE ReplayAssumption
<1>1. tail \in Nat /\ tail + 1 \in Positions /\ tail' = tail + 1 /\ client' = client
  BY DEF IInv, TypeOK, Append, Positions
<1> DEFINE es == events \cup {tail + 1}
<1>2. /\ es \subseteq Positions /\ es \subseteq Nat
      /\ \A n \in es : n <= tail + 1 /\ \A m \in n..(tail + 1) : m \in es
  <2>1. events \subseteq Positions /\ Positions \subseteq Nat
    BY DEF IInv, TypeOK, Positions
  <2>2. ASSUME NEW n \in events, NEW m \in n..(tail + 1), m # tail + 1
        PROVE  m \in events
    <3>1. m \in n..tail
      BY <1>1, <2>1, <2>2
    <3> QED
      BY <3>1 DEF IInv, Suffix
  <2>3. ASSUME NEW n \in events PROVE n <= tail + 1
    BY <1>1, <2>1 DEF IInv, Suffix
  <2> QED
    BY <1>1, <2>1, <2>2, <2>3
<1>3. /\ events' \subseteq es
      /\ \A n \in events' : n <= tail + 1 /\ \A m \in n..(tail + 1) : m \in events'
  <2>1. events' = Trimmed(es, tail + 1, left')
    BY DEF Append
  <2> HIDE DEF es
  <2>2. /\ Trimmed(es, tail + 1, left') \subseteq es
        /\ \A n \in Trimmed(es, tail + 1, left') :
             n <= tail + 1 /\ \A m \in n..(tail + 1) : m \in Trimmed(es, tail + 1, left')
    <3>1. tail + 1 \in Nat
      BY <1>1
    <3> QED
      BY <1>2, <3>1, TrimmedSuffix
  <2> QED
    BY <2>1, <2>2
<1>4. TypeOK'
  <2>1. tail' \in 0..MaxAppends /\ left' \in [Positions -> 0..MaxAge]
    BY <1>1 DEF IInv, TypeOK, Append
  <2>2. events' \subseteq Positions
    BY <1>2, <1>3
  <2> QED
    BY <1>1, <2>1, <2>2 DEF IInv, TypeOK, Append
<1>5. Suffix'
  BY <1>1, <1>3 DEF Suffix
<1>6. ASSUME NEW c \in Clients PROVE Given(c)' /\ Linked(c)' /\ Blank(c)'
  <2>1. client[c].cursor \in Nat /\ client[c].next \in Nat
    BY DEF IInv, TypeOK, Client
  <2> QED
    BY <1>1, <2>1 DEF IInv, Given, Linked, Blank, In
<1> QED
  BY <1>4, <1>5, <1>6 DEF IInv

\* Trimming takes the oldest events only.
LEMMA QuietIInv == IInv /\ (Trim \/ Tick) => IInv'
<1> SUFFICES ASSUME IInv, Trim \/ Tick PROVE IInv'
  OBVIOUS
<1>1. tail' = tail /\ client' = client /\ losses' = losses
  BY DEF Trim, Tick
<1>2. TypeOK' /\ Suffix'
  <2>1. CASE Trim
    BY <2>1, TrimmedBuffer DEF Trim, IInv, TypeOK
  <2>2. CASE Tick
    <3>1. left' \in [Positions -> 0..MaxAge]
      BY <2>2, ReplayAssumption DEF Tick, IInv, TypeOK
    <3> QED
      BY <2>2, <3>1 DEF Tick, IInv, TypeOK, Suffix
  <2> QED
    BY <2>1, <2>2
<1>3. \A c \in Clients : Given(c)' /\ Linked(c)' /\ Blank(c)'
  BY <1>1 DEF IInv, Given, Linked, Blank, In
<1> QED
  BY <1>2, <1>3 DEF IInv

\* A restart empties the buffer and issues no cursor.
LEMMA RestartIInv == IInv /\ Restart => IInv'
<1> SUFFICES ASSUME IInv, Restart PROVE IInv'
  OBVIOUS
<1> USE ReplayAssumption
<1>0. /\ tail' = 0 /\ events' = {} /\ left' = [n \in Positions |-> 0]
      /\ losses < MaxLosses /\ losses' = losses + 1
  BY Zenon DEF Restart
<1>1. TypeOK' /\ Suffix'
  <2>1. ASSUME NEW c \in Clients PROVE client'[c] \in Client
    <3>1. client[c] \in Client
      BY DEF IInv, TypeOK
    <3>2. [client[c] EXCEPT !.pc = "idle", !.replay = {}, !.next = 0, !.own = FALSE] \in Client
      <4>1. 0 \in 0..(MaxAppends + 1) /\ {} \in SUBSET Positions /\ FALSE \in BOOLEAN
        OBVIOUS
      <4> QED
        BY <3>1, <4>1 DEF Client
    <3> QED
      BY <3>1, <3>2 DEF Restart
  <2>2. client' \in [Clients -> Client]
    BY <2>1 DEF Restart
  <2>3. tail' \in 0..MaxAppends /\ left' \in [Positions -> 0..MaxAge]
    BY <1>0
  <2>4. losses' \in 0..MaxLosses
    BY <1>0 DEF IInv, TypeOK
  <2> QED
    BY <1>0, <2>2, <2>3, <2>4 DEF TypeOK, Suffix
<1>2. ASSUME NEW c \in Clients PROVE Given(c)' /\ Linked(c)' /\ Blank(c)'
  <2>1. CASE In(c, "new")
    <3>1. client'[c] = client[c] /\ tail' = 0
      BY <2>1 DEF Restart
    <3> QED
      BY <2>1, <3>1 DEF IInv, Given, Linked, Blank, In
  <2>2. CASE ~In(c, "new")
    <3>1. client'[c].own = FALSE /\ client'[c].pc = "idle"
      BY <2>2 DEF Restart, IInv, TypeOK, Client
    <3> QED
      BY <3>1 DEF Given, Linked, Blank, In
  <2> QED
    BY <2>1, <2>2
<1> QED
  BY <1>1, <1>2 DEF IInv

-----------------------------------------------------------------------------
\* A step of client c leaves the other clients alone: what remains is c.
LEMMA ClientStep ==
  ASSUME IInv, NEW c \in Clients, NEW r \in Client,
         client' = [client EXCEPT ![c] = r], tail' = tail, left' = left,
         losses' = losses, Suffix', events' \subseteq Positions,
         Given(c)', Linked(c)', Blank(c)'
  PROVE  IInv'
<1>1. TypeOK'
  BY DEF IInv, TypeOK
<1>2. ASSUME NEW d \in Clients PROVE Given(d)' /\ Linked(d)' /\ Blank(d)'
  <2>1. CASE d = c
    BY <2>1
  <2>2. CASE d # c
    <3>1. client'[d] = client[d]
      BY <2>2 DEF IInv, TypeOK
    <3> QED
      BY <3>1 DEF IInv, Given, Linked, Blank, In
  <2> QED
    BY <2>1, <2>2
<1> QED
  BY <1>1, <1>2 DEF IInv

\* A cursor of the tail starts a client with nothing given.
LEMMA StartIInv ==
  ASSUME IInv, NEW c \in Clients, StartAt(c, tail), UNCHANGED <<tail, events, left, losses>>
  PROVE  IInv'
<1> DEFINE r == [pc |-> "idle", cursor |-> tail, replay |-> {}, next |-> 0,
                 since |-> tail, seen |-> {}, count |-> 0, own |-> TRUE]
<1>1. client' = [client EXCEPT ![c] = r] /\ r \in Client
  BY ReplayAssumption DEF StartAt, IInv, TypeOK, Client
<1>2. client'[c] = r /\ tail' = tail /\ tail \in Nat
  BY <1>1, ReplayAssumption DEF IInv, TypeOK
<1>3. Given(c)' /\ Linked(c)' /\ Blank(c)'
  BY <1>2 DEF Given, Linked, Blank, In
<1>4. Suffix' /\ events' \subseteq Positions
  BY DEF IInv, TypeOK, Suffix
<1> HIDE DEF r
<1> QED
  BY <1>1, <1>3, <1>4, ClientStep

\* A subscription joins the replayed events and the channel without a hole.
LEMMA SubscribeIInv ==
  ASSUME IInv, NEW c \in Clients, Subscribe(c)
  PROVE  IInv'
<1> DEFINE es == Trimmed(events, tail, left)
           k == client[c].cursor
<1>1. /\ In(c, "idle") /\ events' = es /\ tail' = tail /\ left' = left
      /\ losses' = losses
      /\ client' = IF Gap(k, es)
                   THEN [client EXCEPT ![c].pc = "gap"]
                   ELSE [client EXCEPT ![c].pc = "live", ![c].next = tail + 1,
                                       ![c].replay = After(k, es)]
  BY DEF Subscribe
<1>2. Suffix' /\ es \subseteq Positions
  BY <1>1, TrimmedBuffer
<1>3. tail \in Nat /\ tail <= MaxAppends /\ client[c] \in Client /\ k \in Nat /\ es \subseteq Nat
  BY <1>2, ReplayAssumption DEF IInv, TypeOK, Client, Positions
<1>4. CASE Gap(k, es)
  <2> DEFINE r == [client[c] EXCEPT !.pc = "gap"]
  <2>1. client' = [client EXCEPT ![c] = r] /\ r \in Client
    BY <1>1, <1>3, <1>4 DEF Client
  <2>2. /\ client'[c].pc = "gap" /\ client'[c].cursor = k
        /\ client'[c].since = client[c].since /\ client'[c].seen = client[c].seen
        /\ client'[c].count = client[c].count /\ client'[c].own = client[c].own
    BY <1>3, <2>1 DEF IInv, TypeOK, Client
  <2>3. Given(c)' /\ Linked(c)' /\ Blank(c)'
    BY <1>1, <2>2 DEF IInv, Given, Linked, Blank, In
  <2> HIDE DEF r
  <2> QED
    BY <1>1, <1>2, <2>1, <2>3, ClientStep
<1>5. CASE ~Gap(k, es)
  <2> DEFINE r == [client[c] EXCEPT !.pc = "live", !.next = tail + 1, !.replay = After(k, es)]
  <2>1. After(k, es) \subseteq Positions
    BY <1>2 DEF After
  <2>2. client' = [client EXCEPT ![c] = r]
    BY <1>1, <1>5
  <2>3. r \in Client
    <3>1. tail + 1 \in 0..(MaxAppends + 1) /\ After(k, es) \in SUBSET Positions
      BY <1>3, <2>1, ReplayAssumption
    <3> QED
      BY <1>3, <3>1 DEF Client
  <2>4. /\ client'[c].pc = "live" /\ client'[c].cursor = k /\ client'[c].next = tail + 1
        /\ client'[c].replay = After(k, es)
        /\ client'[c].since = client[c].since /\ client'[c].seen = client[c].seen
        /\ client'[c].count = client[c].count /\ client'[c].own = client[c].own
    BY <1>3, <2>2 DEF IInv, TypeOK, Client
  <2>5. \A n \in es : n <= tail /\ \A m \in n..tail : m \in es
    BY <1>1, <1>2 DEF Suffix
  <2>6. k <= tail /\ After(k, es) = (k + 1)..tail
    BY <1>3, <1>5, <2>5, NoGapAfter
  <2>7. Given(c)' /\ Blank(c)'
    BY <1>1, <2>4 DEF IInv, Given, Blank, In
  <2>8. Linked(c)'
    BY <1>1, <1>3, <2>4, <2>6 DEF Linked, In
  <2> HIDE DEF r
  <2> QED
    BY <1>1, <1>2, <2>2, <2>3, <2>7, <2>8, ClientStep
<1> QED
  BY <1>4, <1>5

\* A resumption hands over all that is after the cursor, or tells of a gap.
LEMMA ResumeIInv ==
  ASSUME IInv, NEW c \in Clients, Resume(c)
  PROVE  IInv'
<1> DEFINE es == Trimmed(events, tail, left)
           k == client[c].cursor
           answer == After(k, es)
<1>1. /\ In(c, "idle") /\ events' = es /\ tail' = tail /\ left' = left
      /\ losses' = losses
      /\ client' = IF Gap(k, es)
                   THEN [client EXCEPT ![c].pc = "gap"]
                   ELSE [client EXCEPT ![c].cursor = IF answer = {} THEN @ ELSE tail,
                           ![c].seen = @ \cup answer, ![c].count = @ + Cardinality(answer)]
  BY DEF Resume
<1>2. Suffix' /\ es \subseteq Positions
  BY <1>1, TrimmedBuffer
<1>3. /\ tail \in Nat /\ tail \in 0..MaxAppends /\ client[c] \in Client
      /\ k \in Nat /\ k \in 0..MaxAppends /\ es \subseteq Nat
  BY <1>2, ReplayAssumption DEF IInv, TypeOK, Client, Positions
<1>4. CASE Gap(k, es)
  <2> DEFINE r == [client[c] EXCEPT !.pc = "gap"]
  <2>1. client' = [client EXCEPT ![c] = r] /\ r \in Client
    BY <1>1, <1>3, <1>4 DEF Client
  <2>2. /\ client'[c].pc = "gap" /\ client'[c].cursor = k
        /\ client'[c].since = client[c].since /\ client'[c].seen = client[c].seen
        /\ client'[c].count = client[c].count /\ client'[c].own = client[c].own
    BY <1>3, <2>1 DEF IInv, TypeOK, Client
  <2>3. Given(c)' /\ Linked(c)' /\ Blank(c)'
    BY <1>1, <2>2 DEF IInv, Given, Linked, Blank, In
  <2> HIDE DEF r
  <2> QED
    BY <1>1, <1>2, <2>1, <2>3, ClientStep
<1>5. CASE ~Gap(k, es)
  <2> DEFINE last == IF answer = {} THEN k ELSE tail
             r == [client[c] EXCEPT !.cursor = last, !.seen = @ \cup answer,
                                    !.count = @ + Cardinality(answer)]
  <2>1. \A n \in es : n <= tail /\ \A m \in n..tail : m \in es
    BY <1>1, <1>2 DEF Suffix
  <2>2. k <= tail /\ answer = (k + 1)..tail
    BY <1>3, <1>5, <2>1, NoGapAfter
  <2>3. last = tail /\ Cardinality(answer) = tail - k
    <3>1. CASE k = tail
      <4>1. (k + 1)..tail = {}
        BY <1>3, <3>1
      <4> QED
        BY <1>3, <2>2, <3>1, <4>1, FS_EmptySet
    <3>2. CASE k < tail
      <4>1. tail \in (k + 1)..tail
        BY <1>3, <3>2
      <4>2. Cardinality((k + 1)..tail) = tail - (k + 1) + 1
        BY <1>3, <3>2, FS_Interval
      <4> QED
        BY <1>3, <2>2, <4>1, <4>2
    <3> QED
      BY <1>3, <2>2, <3>1, <3>2
  <2>4. answer \subseteq Positions
    BY <1>2 DEF After
  <2>5. client' = [client EXCEPT ![c] = r]
    BY <1>1, <1>5
  <2> HIDE DEF answer, last
  <2>6. r \in Client
    <3>1. /\ client[c].seen \cup answer \in SUBSET Positions
          /\ client[c].count + Cardinality(answer) \in Nat
          /\ last \in 0..MaxAppends
      BY <1>3, <2>2, <2>3, <2>4 DEF Client
    <3> QED
      BY <1>3, <3>1 DEF Client
  <2>7. /\ client'[c].pc = "idle" /\ client'[c].cursor = tail
        /\ client'[c].since = client[c].since /\ client'[c].seen = client[c].seen \cup answer
        /\ client'[c].count = client[c].count + (tail - k)
        /\ client'[c].own = client[c].own
    <3>1. client'[c] = r
      BY <2>5 DEF IInv, TypeOK
    <3>2. client[c].pc = "idle"
      BY <1>1 DEF In
    <3> QED
      BY <1>3, <2>3, <3>1, <3>2 DEF Client
  <2>8. client[c].count \in Nat /\ client[c].since \in Nat
    BY <1>3 DEF Client
  <2>9. Given(c)'
    <3>1. ASSUME client[c].own
          PROVE  /\ client[c].since <= tail
                 /\ client[c].seen \cup answer = (client[c].since + 1)..tail
                 /\ client[c].count + (tail - k) = tail - client[c].since
      <4>1. /\ client[c].since <= k /\ client[c].seen = (client[c].since + 1)..k
            /\ client[c].count = k - client[c].since
        BY <3>1 DEF IInv, Given
      <4> QED
        BY <1>3, <2>2, <2>8, <4>1
    <3>2. tail' = tail
      BY DEF Resume
    <3>3. tail <= tail
      BY <1>3
    <3> HIDE DEF k
    <3> QED
      BY <2>7, <3>1, <3>2, <3>3 DEF Given
  <2>10. Linked(c)' /\ Blank(c)'
    BY <2>7 DEF Linked, Blank, In
  <2> HIDE DEF r
  <2> QED
    BY <1>1, <1>2, <2>5, <2>6, <2>9, <2>10, ClientStep
<1> QED
  BY <1>4, <1>5

\* An event handed out is the one after the cursor.
LEMMA DeliverIInv ==
  ASSUME IInv, NEW c \in Clients, NEW n \in Positions, NEW rest \in SUBSET Positions,
         NEW nx \in 1..(MaxAppends + 1),
         In(c, "live"), Deliver(c, n, rest, nx),
         client[c].own => /\ n = client[c].cursor + 1 /\ n <= tail
                          /\ nx \in (n + 1)..(tail + 1) /\ rest = (n + 1)..(nx - 1)
  PROVE  IInv'
<1> DEFINE r == [client[c] EXCEPT !.cursor = n, !.seen = @ \cup {n}, !.count = @ + 1,
                                  !.replay = rest, !.next = nx]
<1>1. client[c] \in Client /\ tail \in Nat
  BY ReplayAssumption DEF IInv, TypeOK
<1>2. client' = [client EXCEPT ![c] = r] /\ UNCHANGED <<tail, events, left, losses>>
  BY DEF Deliver
<1>3. r \in Client
  <2>1. /\ n \in 0..MaxAppends /\ client[c].seen \cup {n} \in SUBSET Positions
        /\ client[c].count + 1 \in Nat /\ nx \in 0..(MaxAppends + 1)
    BY <1>1, ReplayAssumption DEF Client, Positions
  <2> QED
    BY <1>1, <2>1 DEF Client
<1>4. /\ client'[c].pc = "live" /\ client'[c].cursor = n
      /\ client'[c].since = client[c].since /\ client'[c].seen = client[c].seen \cup {n}
      /\ client'[c].count = client[c].count + 1 /\ client'[c].replay = rest
      /\ client'[c].next = nx /\ client'[c].own = client[c].own
  BY <1>1, <1>2 DEF IInv, TypeOK, Client, In
<1>5. /\ client[c].cursor \in Nat /\ client[c].since \in Nat /\ client[c].count \in Nat
      /\ nx \in Nat /\ nx >= 1 /\ n \in Nat
  BY <1>1, ReplayAssumption DEF Client, Positions
<1>6. Given(c)' /\ Blank(c)'
  <2>1. ASSUME client[c].own
        PROVE  /\ n <= tail /\ client[c].since <= n
               /\ client[c].seen \cup {n} = (client[c].since + 1)..n
               /\ client[c].count + 1 = n - client[c].since
    <3>1. /\ client[c].since <= client[c].cursor
          /\ client[c].seen = (client[c].since + 1)..client[c].cursor
          /\ client[c].count = client[c].cursor - client[c].since
      BY <2>1 DEF IInv, Given
    <3>2. n = client[c].cursor + 1 /\ n <= tail
      BY <2>1
    <3>3. (client[c].since + 1)..client[c].cursor \cup {client[c].cursor + 1}
            = (client[c].since + 1)..(client[c].cursor + 1)
      BY <1>5, <3>1
    <3>4. client[c].count + 1 = n - client[c].since /\ client[c].since <= n
      BY <1>5, <3>1, <3>2
    <3> QED
      BY <3>1, <3>2, <3>3, <3>4
  <2> QED
    BY <1>2, <1>4, <2>1 DEF Given, Blank, In
<1>7. Linked(c)'
  BY <1>1, <1>2, <1>4, <1>5 DEF Linked, In
<1>8. Suffix' /\ events' \subseteq Positions
  BY <1>2 DEF IInv, TypeOK, Suffix
<1> HIDE DEF r
<1> QED
  BY <1>2, <1>3, <1>6, <1>7, <1>8, ClientStep

\* A poll takes the next event and moves the cursor to it.
LEMMA PollIInv ==
  ASSUME IInv, NEW c \in Clients, PollReplay(c) \/ PollLive(c)
  PROVE  IInv'
<1>1. /\ client[c] \in Client /\ client[c].cursor \in Nat /\ tail \in Nat
      /\ tail <= MaxAppends /\ client[c].next \in Nat
      /\ client[c].next <= MaxAppends + 1 /\ client[c].replay \subseteq Positions
  BY ReplayAssumption DEF IInv, TypeOK, Client
<1>2. CASE PollReplay(c)
  <2>1. PICK n \in client[c].replay :
          /\ \A m \in client[c].replay : n <= m
          /\ Deliver(c, n, client[c].replay \ {n}, client[c].next)
    BY <1>2 DEF PollReplay
  <2>2. In(c, "live")
    BY <1>2 DEF PollReplay
  <2>3. client[c].next >= 1 /\ n \in Positions /\ client[c].replay \ {n} \in SUBSET Positions
    BY <1>1, <2>2 DEF IInv, Linked
  <2>4. ASSUME client[c].own
        PROVE  /\ n = client[c].cursor + 1 /\ n <= tail
               /\ client[c].next \in (n + 1)..(tail + 1)
               /\ client[c].replay \ {n} = (n + 1)..(client[c].next - 1)
    <3>1. /\ client[c].next \in (client[c].cursor + 1)..(tail + 1)
          /\ client[c].replay = (client[c].cursor + 1)..(client[c].next - 1)
      BY <2>2, <2>4 DEF IInv, Linked
    <3>2. n \in Nat /\ client[c].cursor + 1 <= n /\ n <= client[c].next - 1
      BY <1>1, <3>1
    <3>3. n = client[c].cursor + 1
      <4>1. client[c].cursor + 1 \in client[c].replay
        BY <1>1, <3>1, <3>2
      <4> QED
        BY <1>1, <2>1, <3>2, <4>1
    <3> QED
      BY <1>1, <3>1, <3>2, <3>3
  <2>5. client[c].next \in 1..(MaxAppends + 1)
    BY <1>1, <2>3, ReplayAssumption
  <2> QED
    BY <2>1, <2>2, <2>3, <2>4, <2>5, DeliverIInv
<1>3. CASE PollLive(c)
  <2> DEFINE n == client[c].next
  <2>1. /\ In(c, "live") /\ client[c].replay = {} /\ n <= tail
        /\ Deliver(c, n, {}, n + 1)
    BY <1>3 DEF PollLive
  <2>2. n >= 1
    BY <2>1 DEF IInv, Linked
  <2>3. n \in Positions /\ n + 1 \in 1..(MaxAppends + 1) /\ {} \in SUBSET Positions
    BY <1>1, <2>1, <2>2, ReplayAssumption DEF Positions
  <2>4. ASSUME client[c].own
        PROVE  /\ n = client[c].cursor + 1 /\ n <= tail
               /\ n + 1 \in (n + 1)..(tail + 1) /\ {} = (n + 1)..((n + 1) - 1)
    <3>1. /\ n \in (client[c].cursor + 1)..(tail + 1)
          /\ {} = (client[c].cursor + 1)..(n - 1)
      BY <2>1, <2>4 DEF IInv, Linked
    <3>2. n = client[c].cursor + 1
      <4>1. CASE n > client[c].cursor + 1
        <5>1. client[c].cursor + 1 \in (client[c].cursor + 1)..(n - 1)
          BY <1>1, <4>1
        <5> QED
          BY <3>1, <5>1
      <4> QED
        BY <1>1, <3>1, <4>1
    <3> QED
      BY <1>1, <2>1, <3>2
  <2> HIDE DEF n
  <2> QED
    BY <2>1, <2>3, <2>4, DeliverIInv
<1> QED
  BY <1>2, <1>3

\* A dropped receiver, or connection, leaves the client its cursor.
LEMMA DropIInv ==
  ASSUME IInv, NEW c \in Clients, PollLagged(c) \/ Disconnect(c)
  PROVE  IInv'
<1> DEFINE r == [client[c] EXCEPT !.pc = "idle", !.replay = {}, !.next = 0]
<1>1. client[c] \in Client /\ In(c, "live")
  BY DEF IInv, TypeOK, PollLagged, Disconnect
<1>2. r \in Client
  <2>1. 0 \in 0..(MaxAppends + 1) /\ {} \in SUBSET Positions
    BY ReplayAssumption
  <2> QED
    BY <1>1, <2>1 DEF Client
<1>3. client' = [client EXCEPT ![c] = r]
  <2>1. CASE PollLagged(c)
    <3>1. client[c].replay = {}
      BY <2>1 DEF PollLagged
    <3>2. [client[c] EXCEPT !.pc = "idle", !.next = 0] = r
      BY <1>1, <3>1 DEF Client
    <3> QED
      BY <2>1, <3>2 DEF PollLagged
  <2>2. CASE Disconnect(c)
    BY <2>2 DEF Disconnect
  <2> QED
    BY <2>1, <2>2
<1>4. /\ client'[c].pc = "idle" /\ client'[c].cursor = client[c].cursor
      /\ client'[c].since = client[c].since /\ client'[c].seen = client[c].seen
      /\ client'[c].count = client[c].count /\ client'[c].own = client[c].own
  BY <1>1, <1>3 DEF IInv, TypeOK, Client
<1>5. tail' = tail /\ events' = events /\ left' = left
  BY DEF PollLagged, Disconnect
<1>6. Given(c)' /\ Linked(c)' /\ Blank(c)'
  BY <1>4, <1>5 DEF IInv, Given, Linked, Blank, In
<1>7. TypeOK'
  <2>1. losses' \in 0..MaxLosses
    BY ReplayAssumption DEF IInv, TypeOK, PollLagged, Disconnect
  <2> QED
    BY <1>2, <1>3, <1>5, <2>1 DEF IInv, TypeOK
<1>8. ASSUME NEW d \in Clients PROVE Given(d)' /\ Linked(d)' /\ Blank(d)'
  <2>1. CASE d = c
    BY <1>6, <2>1
  <2>2. CASE d # c
    <3>1. client'[d] = client[d]
      BY <1>3, <2>2 DEF IInv, TypeOK
    <3> QED
      BY <1>5, <3>1 DEF IInv, Given, Linked, Blank, In
  <2> QED
    BY <2>1, <2>2
<1> QED
  BY <1>5, <1>7, <1>8 DEF IInv, Suffix

-----------------------------------------------------------------------------

\* One step keeps the invariant.
LEMMA NextIInv == IInv /\ [Next]_vars => IInv'
<1> SUFFICES ASSUME IInv, [Next]_vars PROVE IInv'
  OBVIOUS
<1>1. CASE Append
  BY <1>1, AppendIInv
<1>2. CASE Trim \/ Tick
  BY <1>2, QuietIInv
<1>3. CASE Restart
  BY <1>3, RestartIInv
<1>4. ASSUME NEW c \in Clients, Observe(c) \/ TakeLatest(c) PROVE IInv'
  BY <1>4, StartIInv DEF Observe, TakeLatest
<1>5. ASSUME NEW c \in Clients, Subscribe(c) PROVE IInv'
  BY <1>5, SubscribeIInv
<1>6. ASSUME NEW c \in Clients, Resume(c) PROVE IInv'
  BY <1>6, ResumeIInv
<1>7. ASSUME NEW c \in Clients, PollReplay(c) \/ PollLive(c) PROVE IInv'
  BY <1>7, PollIInv
<1>8. ASSUME NEW c \in Clients, PollLagged(c) \/ Disconnect(c) PROVE IInv'
  BY <1>8, DropIInv
<1>9. CASE UNCHANGED vars
  BY <1>9 DEF vars, IInv, TypeOK, Suffix, Given, Linked, Blank, In
<1> QED
  BY <1>1, <1>2, <1>3, <1>4, <1>5, <1>6, <1>7, <1>8, <1>9 DEF Next, Follow

\* The variables of the live replay buffer and its clients keep their types.
THEOREM TypeCorrect == Spec => []TypeOK
<1>1. IInv => TypeOK
  BY DEF IInv
<1> QED
  BY <1>1, InitIInv, NextIInv, PTL DEF Spec

\* Every client that started at a cursor of the buffer is given every later
\* event exactly once or is told of the gap (subscribe_after_cursor,
\* replay_after_cursor and poll_next of the recovering stream).
THEOREM ReplayComplete == Spec => []NoSilentGap
<1>1. IInv => NoSilentGap
  BY DEF IInv, NoSilentGap, Given
<1> QED
  BY <1>1, InitIInv, NextIInv, PTL DEF Spec

\* A refused cursor is followed by an event that is out of the buffer.
LEMMA RefusedCursor ==
  ASSUME NEW es, NEW k \in Nat, tail \in Nat, es \subseteq Nat,
         \A n \in es : n <= tail, Gap(k, es)
  PROVE  k > tail \/ \E n \in (k + 1)..tail : n \notin es
<1>1. CASE es = {} /\ k < tail
  <2>1. tail \in (k + 1)..tail
    BY <1>1
  <2> QED
    BY <1>1, <2>1
<1>2. CASE es # {} /\ \A n \in es : k + 1 < n
  <2>1. PICK n \in es : k + 1 < n /\ n <= tail
    BY <1>2
  <2>2. k + 1 \in (k + 1)..tail
    BY <2>1
  <2>3. k + 1 \notin es
    BY <1>2
  <2> QED
    BY <2>2, <2>3
<1> QED
  BY <1>1, <1>2 DEF Gap

\* A client that is told of a gap lacks an event that is gone.
LEMMA NextJustified == IInv /\ [Next]_vars => [GapJustified]_vars
<1> SUFFICES ASSUME IInv, Next,
                    NEW c \in Clients, client[c].pc = "idle", client'[c].pc = "gap"
             PROVE  \/ client[c].cursor > tail
                    \/ \E n \in (client[c].cursor + 1)..tail : n \notin events'
  BY DEF GapJustified
<1> DEFINE es == Trimmed(events, tail, left)
           k == client[c].cursor
<1>1. client[c] \in Client /\ client \in [Clients -> Client]
  BY DEF IInv, TypeOK
<1>2. Subscribe(c) \/ Resume(c)
  <2>1. CASE Append \/ Trim \/ Tick
    BY <2>1 DEF Append, Trim, Tick
  <2>2. CASE Restart
    <3>1. client'[c].pc = "idle" \/ client'[c] = client[c]
      BY <1>1, <2>2 DEF Restart, Client
    <3> QED
      BY <3>1
  <2>3. ASSUME NEW d \in Clients, d # c, Follow(d) \/ Disconnect(d) PROVE FALSE
    <3>1. client'[c] = client[c]
      BY <1>1, <2>3 DEF Follow, Disconnect, Observe, TakeLatest, StartAt, Subscribe, Resume,
        PollReplay, PollLive, PollLagged, Deliver
    <3> QED
      BY <3>1
  <2>4. ASSUME Observe(c) \/ TakeLatest(c) \/ PollReplay(c) \/ PollLive(c) \/ PollLagged(c)
                 \/ Disconnect(c)
        PROVE  FALSE
    BY <1>1, <2>4 DEF Observe, TakeLatest, PollReplay, PollLive, PollLagged, Disconnect, In
  <2> QED
    BY <2>1, <2>2, <2>3, <2>4 DEF Next, Follow
<1>3. events' = es /\ tail' = tail
  BY <1>2 DEF Subscribe, Resume
<1>4. Gap(k, es)
  <2>1. CASE Subscribe(c)
    BY <1>1, <2>1 DEF Subscribe, Client
  <2>2. CASE Resume(c)
    BY <1>1, <2>2 DEF Resume, Client
  <2> QED
    BY <1>2, <2>1, <2>2
<1>5. Suffix' /\ es \subseteq Positions
  BY <1>3, TrimmedBuffer
<1>6. k \in Nat /\ tail \in Nat /\ es \subseteq Nat /\ \A n \in es : n <= tail
  BY <1>1, <1>3, <1>5, ReplayAssumption DEF IInv, TypeOK, Client, Positions, Suffix
<1> HIDE DEF es, k
<1>7. k > tail \/ \E n \in (k + 1)..tail : n \notin es
  BY <1>4, <1>6, RefusedCursor
<1> QED
  BY <1>3, <1>7 DEF k

\* A client is told of a gap only when the buffer cannot serve its cursor
\* (gap_reason_for_cursor).
THEOREM GapsAreReal == Spec => GapIsReal
<1> QED
  BY InitIInv, NextIInv, NextJustified, PTL DEF Spec, GapIsReal
=============================================================================
