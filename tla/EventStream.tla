---------------------------- MODULE EventStream ----------------------------
(***************************************************************************)
(* GET /v1/incidents/{id}/events: the server-sent event streams of the     *)
(* Control API and the clients that follow them.  The module knows nothing *)
(* of the store behind it: Replay takes the retained sequences, and the    *)
(* store calls Offer for every event it publishes.  An event is its        *)
(* sequence number.                                                        *)
(*                                                                         *)
(* A stream is a program counter over stream_incident_events:              *)
(*   closed      no connection; the client remembers its Last-Event-ID     *)
(*   subscribed  in the subscriber set, the replay not yet read            *)
(*   replaying   yielding the events read by replay                        *)
(*   live        at the top of the live loop                               *)
(*   waiting     suspended in subscriber.queue.get()                       *)
(***************************************************************************)
EXTENDS Naturals, Sequences

CONSTANTS
  Streams,        \* clients, each with at most one connection
  BufferSize,     \* maxsize of a subscriber queue
  StartCursors    \* Last-Event-ID values a client may present out of the blue

ASSUME BufferSizeAssumption == BufferSize \in Nat \ {0}
ASSUME StartCursorsAssumption == StartCursors \subseteq Nat

VARIABLE stream

StreamInit(none) ==
  stream = [s \in Streams |->
    [pc |-> "closed",
     incident |-> none,       \* the incident followed
     header |-> FALSE,        \* the client sends Last-Event-ID ...
     cursor |-> 0,            \* ... with this value
     delivered |-> 0,         \* local variable of the generator
     replay |-> {},           \* replayed events not yet yielded
     queue |-> <<>>,          \* subscriber.queue
     overflow |-> FALSE,      \* subscriber.closed
     seen |-> <<>>,           \* history: sequences the client has received
     excused |-> {},          \* history: sequences it is not owed: before the
                              \* point where it joined, or cut off by a gap
     skipped |-> {}]]         \* history: retained events a gap made it skip

\* Mutant: the stream subscribes after it has yielded the replay.
SubscribedLate(s) == stream[s].pc \in {"live", "waiting"}

\* The connection has a Subscriber in the store's set.
Subscribed(s) == stream[s].pc # "closed"

Least(S) == CHOOSE n \in S : \A m \in S : n <= m

Set(s, value) == stream' = [stream EXCEPT ![s] = value]

-----------------------------------------------------------------------------

\* Open a connection on an existing incident.  A client that has received
\* nothing may present any of StartCursors and is owed only what follows.
Subscribe(s, i, start) ==
  LET first == stream[s].seen = <<>> /\ ~stream[s].header /\ start > 0 IN
  /\ stream[s].pc = "closed"
  /\ Set(s, [stream[s] EXCEPT
               !.pc = "subscribed", !.incident = i,
               !.queue = <<>>, !.overflow = FALSE, !.replay = {},
               !.header = @ \/ first,
               !.cursor = IF first THEN start ELSE @,
               !.excused = IF first THEN 1..start ELSE @])

\* Read the projection: 400 for a cursor beyond it, control.retention_gap for
\* one before it, the events after the cursor otherwise.  `last' is the
\* newest sequence, `retained' the sequences still stored.  PostgreSQL reads
\* the two in separate statements; both only grow, so a refusal is atomic at
\* the first statement and a success at the last.  The gap names the oldest
\* retained event as earliest_cursor: a client may take that for the cursor
\* to resume from and steps over the event, or resume just before it.  A
\* client without Last-Event-ID joins at the oldest retained event and is not
\* told of what was pruned before it.
Replay(s, retained, last) ==
  LET c == stream[s].cursor
      earliest == Least(retained)
      gap == stream[s].header /\ c < earliest - 1
  IN
  /\ stream[s].pc = "subscribed"
  /\ \/ /\ c > last
        /\ Set(s, [stream[s] EXCEPT !.pc = "closed", !.header = FALSE,
                                    !.cursor = 0, !.excused = {},
                                    !.skipped = {}])
     \/ /\ c <= last /\ gap
        /\ \E resume \in {earliest - 1, earliest} :
             Set(s, [stream[s] EXCEPT !.pc = "closed", !.cursor = resume,
                                      !.excused = @ \cup (1..(earliest - 1)),
                                      !.skipped = @ \cup (earliest..resume)])
     \/ /\ c <= last /\ ~gap
        /\ Set(s, [stream[s] EXCEPT
                     !.pc = "replaying", !.delivered = c,
                     !.replay = {n \in retained : n > c},
                     !.excused = IF stream[s].header THEN @
                                 ELSE @ \cup (1..(earliest - 1))])

\* The record of stream s after yielding event n to the client.
Yielded(s, n) ==
  [stream[s] EXCEPT !.delivered = n, !.cursor = n, !.header = TRUE,
                    !.seen = Append(@, n)]

YieldReplay(s) ==
  /\ stream[s].pc = "replaying" /\ stream[s].replay # {}
  /\ LET n == Least(stream[s].replay) IN
       Set(s, [Yielded(s, n) EXCEPT !.replay = @ \ {n}])

EndReplay(s) ==
  /\ stream[s].pc = "replaying" /\ stream[s].replay = {}
  /\ Set(s, [stream[s] EXCEPT !.pc = "live"])

\* The queue is empty: queue.get() suspends, for 15 s at most.
Wait(s) ==
  /\ stream[s].pc = "live" /\ ~stream[s].overflow /\ stream[s].queue = <<>>
  /\ Set(s, [stream[s] EXCEPT !.pc = "waiting"])

Heartbeat(s) ==
  /\ stream[s].pc = "waiting" /\ stream[s].queue = <<>>
  /\ Set(s, [stream[s] EXCEPT !.pc = "live"])

\* Mutant: the overflow flag is not looked at in the live loop.
Deaf(s) == stream[s].pc \in {"live", "waiting"}

\* Mutant: a suspended get() is not woken by put_nowait.
ListeningAwake(s) == stream[s].pc = "live" /\ ~stream[s].overflow

\* A stream at the top of its loop looks at the overflow flag first; one that
\* was suspended in get() does not look again before it handles the event.
Listening(s) ==
  stream[s].pc = "waiting" \/ (stream[s].pc = "live" /\ ~stream[s].overflow)

\* Mutant: events at or below the delivered cursor are yielded again.
TakeAll(s) ==
  /\ Listening(s) /\ stream[s].queue # <<>>
  /\ Set(s, [Yielded(s, Head(stream[s].queue)) EXCEPT
               !.queue = Tail(@), !.pc = "live"])

\* queue.get(): an event the replay already covered is dropped.
Take(s) ==
  /\ Listening(s) /\ stream[s].queue # <<>>
  /\ LET n == Head(stream[s].queue) IN
       Set(s, [IF n <= stream[s].delivered THEN stream[s] ELSE Yielded(s, n)
                 EXCEPT !.queue = Tail(stream[s].queue), !.pc = "live"])

\* control.slow_consumer with resume_from, then the stream ends.
SlowConsumer(s) ==
  /\ stream[s].pc = "live" /\ stream[s].overflow
  /\ Set(s, [stream[s] EXCEPT !.pc = "closed", !.header = TRUE,
                              !.cursor = stream[s].delivered])

\* The client goes away or its token expires; `finally' unsubscribes.
Disconnect(s) ==
  /\ stream[s].pc \in {"replaying", "live", "waiting"}
  /\ Set(s, [stream[s] EXCEPT !.pc = "closed"])

\* What the server does of its own accord on an open connection.
StreamStep(s) ==
  YieldReplay(s) \/ EndReplay(s) \/ Wait(s) \/ Take(s) \/ SlowConsumer(s)

\* put_nowait of event n of incident i to every subscriber; a full queue
\* marks the subscriber closed and loses the event for it.
Offer(i, n) ==
  stream' = [s \in Streams |->
    IF ~Subscribed(s) \/ stream[s].incident # i THEN stream[s]
    ELSE IF Len(stream[s].queue) < BufferSize
         THEN [stream[s] EXCEPT !.queue = Append(@, n)]
         ELSE [stream[s] EXCEPT !.overflow = TRUE]]

-----------------------------------------------------------------------------

Seen(s) == {stream[s].seen[k] : k \in DOMAIN stream[s].seen}

\* Every sequence up to the client's cursor was received, lies before the
\* point where the client joined or was cut off by an announced gap: replay,
\* live delivery, overflow, retention and reconnection leave no hole that a
\* resume would skip for ever.
NoSilentGap ==
  \A s \in Streams :
    1..stream[s].cursor \subseteq Seen(s) \cup stream[s].excused

\* The same but for the one event per retention gap that earliest_cursor
\* names and that a client resuming with this cursor steps over.
NoGapButEarliest ==
  \A s \in Streams :
    1..stream[s].cursor \subseteq
      Seen(s) \cup stream[s].excused \cup stream[s].skipped

\* The sequences a client receives grow strictly, within one connection and
\* across reconnects with Last-Event-ID, so it never gets an event twice.
DeliveredInOrder ==
  \A s \in Streams : \A k, m \in DOMAIN stream[s].seen :
    k < m => stream[s].seen[k] < stream[s].seen[m]
=============================================================================
