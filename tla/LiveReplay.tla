------------------------------ MODULE LiveReplay ------------------------------
(***************************************************************************)
(* Live observation of one session: the bounded in-memory replay buffer    *)
(* (crates/lash-core/src/runtime/observation/replay.rs), the positions its *)
(* cursors name, and the clients that follow it: the recovering stream of  *)
(* crates/lash/src/session.rs and the one-shot resume.                     *)
(*                                                                         *)
(* An event is its position.  A client keeps the cursor of the last event  *)
(* it was given; while it is subscribed it has what the buffer held at     *)
(* that moment (`replay') and then reads a broadcast channel of bounded    *)
(* capacity from `next'.  The buffer is in memory: a restart of the host   *)
(* begins again at position 0 while clients keep their cursors.            *)
(*                                                                         *)
(* `since', `seen', `count' and `own' are ghosts: the cursor the client    *)
(* started or was reset at, the events given to it since then, how often   *)
(* one was given, and whether this buffer issued the cursor it started at. *)
(***************************************************************************)
EXTENDS Integers, FiniteSets

CONSTANTS
  Clients,
  MaxEvents,   \* max_events_per_session
  Capacity,    \* of the broadcast channel: MaxEvents, rounded up
  MaxAge,      \* max_age, in ticks
  MaxAppends,  \* bound: events of one lifetime of the buffer
  MaxLosses    \* bound: dropped connections and restarts

ASSUME ReplayAssumption ==
  /\ MaxEvents \in Nat /\ MaxAge \in Nat /\ MaxAppends \in Nat /\ MaxLosses \in Nat
  /\ Capacity \in Nat \ {0} /\ Capacity >= MaxEvents

VARIABLES
  tail,     \* tail_position
  events,   \* positions of the events in the buffer
  left,     \* left[n]: ticks until event n is older than max_age
  client,   \* client[c]: stream of client c
  losses    \* connections lost and restarts so far

vars == <<tail, events, left, client, losses>>

Positions == 1..MaxAppends

Client == [pc: {"new", "idle", "gap", "live"}, cursor: 0..MaxAppends,
           replay: SUBSET Positions, next: 0..(MaxAppends + 1),
           since: 0..MaxAppends, seen: SUBSET Positions, count: Nat, own: BOOLEAN]

TypeOK ==
  /\ tail \in 0..MaxAppends
  /\ events \subseteq Positions
  /\ left \in [Positions -> 0..MaxAge]
  /\ client \in [Clients -> Client]
  /\ losses \in 0..MaxLosses

Init ==
  /\ tail = 0
  /\ events = {}
  /\ left = [n \in Positions |-> 0]
  /\ client = [c \in Clients |->
       [pc |-> "new", cursor |-> 0, replay |-> {}, next |-> 0,
        since |-> 0, seen |-> {}, count |-> 0, own |-> TRUE]]
  /\ losses = 0

In(c, pc) == client[c].pc = pc

-----------------------------------------------------------------------------
\* trim_locked: drop from the front what is over the bound, then what is old.
Trimmed(es, last, lft) ==
  LET bounded == {n \in es : n + MaxEvents > last}
  IN {n \in bounded : \E m \in bounded : m <= n /\ lft[m] > 0}

\* append, from record_turn_activity, record_queue_changed,
\* record_process_changed and publish_from.
Append ==
  /\ tail < MaxAppends
  /\ tail' = tail + 1
  /\ left' = [left EXCEPT ![tail + 1] = MaxAge]
  /\ events' = Trimmed(events \cup {tail + 1}, tail + 1, left')
  /\ UNCHANGED <<client, losses>>

\* trim_session.
Trim ==
  /\ events' = Trimmed(events, tail, left)
  /\ UNCHANGED <<tail, left, client, losses>>

Tick ==
  /\ left' = [n \in Positions |-> IF left[n] > 0 THEN left[n] - 1 ELSE 0]
  /\ UNCHANGED <<tail, events, client, losses>>

\* Mutant: the event of the cursor itself must be in the buffer.
GapEager(cursor, es) ==
  \/ cursor > tail
  \/ es = {} /\ cursor < tail
  \/ es # {} /\ \A n \in es : cursor < n

\* gap_reason_for_cursor: unavailable; trimmed, with the buffer empty or not.
Gap(cursor, es) ==
  \/ cursor > tail
  \/ es = {} /\ cursor < tail
  \/ es # {} /\ \A n \in es : cursor + 1 < n

After(cursor, es) == {n \in es : n > cursor}

-----------------------------------------------------------------------------
\* The client starts at cursor k of this buffer.
StartAt(c, k) ==
  client' = [client EXCEPT ![c] =
    [pc |-> "idle", cursor |-> k, replay |-> {}, next |-> 0,
     since |-> k, seen |-> {}, count |-> 0, own |-> TRUE]]

\* current_observation: the cursor of the tail.
Observe(c) ==
  /\ In(c, "new")
  /\ StartAt(c, tail)
  /\ UNCHANGED <<tail, events, left, losses>>

\* subscribe_after_cursor: what is buffered after the cursor, and a receiver
\* for everything that is appended from now on.
Subscribe(c) ==
  LET es == Trimmed(events, tail, left) IN
  /\ In(c, "idle")
  /\ events' = es
  /\ client' = IF Gap(client[c].cursor, es)
               THEN [client EXCEPT ![c].pc = "gap"]
               ELSE [client EXCEPT ![c].pc = "live", ![c].next = tail + 1,
                                   ![c].replay = After(client[c].cursor, es)]
  /\ UNCHANGED <<tail, left, losses>>

\* replay_after_cursor, for resume_from_cursor: all of it in one answer.
Resume(c) ==
  LET es == Trimmed(events, tail, left)
      answer == After(client[c].cursor, es)
  IN
  /\ In(c, "idle")
  /\ events' = es
  /\ client' = IF Gap(client[c].cursor, es)
               THEN [client EXCEPT ![c].pc = "gap"]
               ELSE [client EXCEPT
                 ![c].cursor = IF answer = {} THEN @ ELSE tail,
                 ![c].seen = @ \cup answer,
                 ![c].count = @ + Cardinality(answer)]
  /\ UNCHANGED <<tail, left, losses>>

\* Mutant: the stream subscribes again with the cursor that was refused.
TakeLatestNot(c) ==
  /\ In(c, "gap")
  /\ client' = [client EXCEPT ![c].pc = "idle"]
  /\ UNCHANGED <<tail, events, left, losses>>

\* A gap comes with a fresh observation and the latest cursor, which is read
\* after the lock on the buffer was given up; the client starts again there.
TakeLatest(c) ==
  /\ In(c, "gap")
  /\ StartAt(c, tail)
  /\ UNCHANGED <<tail, events, left, losses>>

\* poll_next hands out event n and moves the cursor to it.
Deliver(c, n, rest, next) ==
  /\ client' = [client EXCEPT ![c].cursor = n, ![c].seen = @ \cup {n},
                  ![c].count = @ + 1, ![c].replay = rest, ![c].next = next]
  /\ UNCHANGED <<tail, events, left, losses>>

\* ... first what was replayed, in order, ...
PollReplay(c) ==
  /\ In(c, "live")
  /\ \E n \in client[c].replay :
       /\ \A m \in client[c].replay : n <= m
       /\ Deliver(c, n, client[c].replay \ {n}, client[c].next)

\* Mutant: the receiver does not wait for the event at the tail.
PollLiveEarly(c) ==
  /\ In(c, "live") /\ client[c].replay = {}
  /\ client[c].next <= tail + 1 /\ client[c].next + Capacity > tail
  /\ Deliver(c, client[c].next, {}, client[c].next + 1)

\* ... then what was broadcast, ...
PollLive(c) ==
  /\ In(c, "live") /\ client[c].replay = {}
  /\ client[c].next <= tail /\ client[c].next + Capacity > tail
  /\ Deliver(c, client[c].next, {}, client[c].next + 1)

\* Mutant: a receiver that lagged goes on with the oldest event it can have.
PollLaggedSkip(c) ==
  /\ In(c, "live") /\ client[c].replay = {}
  /\ client[c].next + Capacity <= tail
  /\ client' = [client EXCEPT ![c].next = tail + 1 - Capacity]
  /\ UNCHANGED <<tail, events, left, losses>>

\* ... and a receiver that lagged is dropped, to subscribe again.
PollLagged(c) ==
  /\ In(c, "live") /\ client[c].replay = {}
  /\ client[c].next + Capacity <= tail
  /\ client' = [client EXCEPT ![c].pc = "idle", ![c].next = 0]
  /\ UNCHANGED <<tail, events, left, losses>>

-----------------------------------------------------------------------------
\* The connection breaks; the client has its cursor and comes back with it.
Disconnect(c) ==
  /\ In(c, "live")
  /\ losses < MaxLosses /\ losses' = losses + 1
  /\ client' = [client EXCEPT ![c].pc = "idle", ![c].replay = {}, ![c].next = 0]
  /\ UNCHANGED <<tail, events, left>>

\* The host restarts: an empty buffer, and cursors it did not issue.
Restart ==
  /\ losses < MaxLosses /\ losses' = losses + 1
  /\ tail' = 0 /\ events' = {} /\ left' = [n \in Positions |-> 0]
  /\ client' = [c \in Clients |-> IF In(c, "new") THEN client[c] ELSE
                  [client[c] EXCEPT !.pc = "idle", !.replay = {}, !.next = 0,
                                    !.own = FALSE]]

Follow(c) ==
  \/ Observe(c) \/ Subscribe(c) \/ Resume(c) \/ TakeLatest(c)
  \/ PollReplay(c) \/ PollLive(c) \/ PollLagged(c)

Next ==
  \/ Append \/ Trim \/ Tick \/ Restart
  \/ \E c \in Clients : Follow(c) \/ Disconnect(c)

\* Clients keep polling; nothing else has to happen.
Spec == Init /\ [][Next]_vars /\ \A c \in Clients : WF_vars(Follow(c))

-----------------------------------------------------------------------------
(* A client that started at a cursor of this buffer has been given every   *)
(* event after it exactly once, up to the cursor it now holds, or was told *)
(* of a gap: not one is lost or repeated where replay meets broadcast,     *)
(* when the receiver lags, when the buffer is trimmed between two polls or *)
(* when the connection breaks.                                             *)
NoSilentGap ==
  \A c \in Clients : client[c].own =>
    /\ client[c].seen = (client[c].since + 1)..client[c].cursor
    /\ client[c].count = client[c].cursor - client[c].since

(* A client is told of a gap only when an event after its cursor is really *)
(* out of the buffer, or the cursor is not this buffer's: the answers of   *)
(* gap_reason_for_cursor are not a way to give up on a client that could   *)
(* have been served.                                                       *)
GapJustified ==
  \A c \in Clients : client[c].pc = "idle" /\ client'[c].pc = "gap" =>
    \/ client[c].cursor > tail
    \/ \E n \in (client[c].cursor + 1)..tail : n \notin events'

GapIsReal == [][GapJustified]_vars

(* Once the session falls silent every client has caught up with it,       *)
(* however often it lagged, met a gap or lost its connection.              *)
CatchesUp == \A c \in Clients : []<>(client[c].cursor = tail)
=============================================================================
