----------------------------- MODULE ControlApi -----------------------------
(***************************************************************************)
(* The Control API process: PostgresIncidentStore handlers and the event   *)
(* streams they publish to, on one asyncio loop (the chart deploys one     *)
(* replica).  A handler publishes only after its COMMIT returned and the   *)
(* connection went back to the pool, so between the two every other        *)
(* handler and every stream can run.                                       *)
(***************************************************************************)
EXTENDS ControlStore, EventStream

apiVars == <<vars, stream>>

ApiInit == Init /\ StreamInit(None)

\* Mutant: the event is handed to subscribers before COMMIT.
SaveAndPublish(r) ==
  /\ SaveIdempotency(r)
  /\ Offer(target[r], row[r].cursor + 1)

SaveOnly(r) == SaveIdempotency(r) /\ UNCHANGED stream

\* _publish of the event the handler has just committed.
PublishToStreams(r) ==
  /\ Publish(r)
  /\ Offer(target[r], row[r].cursor + 1)

Retained(i) == {e.seq : e \in projection[i]}

ReplayProjection(s) ==
  /\ stream[s].pc = "subscribed"
  /\ Replay(s, Retained(stream[s].incident), incident[stream[s].incident].cursor)
  /\ UNCHANGED vars

OpenStream(s, i) ==
  /\ stream[s].incident \in {None, i}
  /\ incident[i] # AbsentRow
  /\ \E start \in StartCursors \cup {0} : Subscribe(s, i, start)
  /\ UNCHANGED vars

ApiNext ==
  \/ \E r \in Requests : Receive(r) /\ UNCHANGED stream
  \/ \E r \in Requests : InsertIncident(r) /\ UNCHANGED stream
  \/ \E r \in Requests : LockIncident(r) /\ UNCHANGED stream
  \/ \E r \in Requests : SaveOnly(r)
  \/ \E r \in Requests : Commit(r) /\ UNCHANGED stream
  \/ \E r \in Requests : PublishToStreams(r)
  \/ \E r \in Requests : Fail(r) /\ UNCHANGED stream
  \/ \E i \in Incidents, a \in ActionIds, d \in ActionDigests :
       ProposeAction(i, a, d) /\ UNCHANGED stream
  \/ \E s \in Streams, i \in Incidents : OpenStream(s, i)
  \/ \E s \in Streams : ReplayProjection(s)
  \/ \E s \in Streams : YieldReplay(s) /\ UNCHANGED vars
  \/ \E s \in Streams : EndReplay(s) /\ UNCHANGED vars
  \/ \E s \in Streams : Wait(s) /\ UNCHANGED vars
  \/ \E s \in Streams : Heartbeat(s) /\ UNCHANGED vars
  \/ \E s \in Streams : Take(s) /\ UNCHANGED vars
  \/ \E s \in Streams : SlowConsumer(s) /\ UNCHANGED vars
  \/ \E s \in Streams : Disconnect(s) /\ UNCHANGED vars

ApiSpec == ApiInit /\ [][ApiNext]_apiVars

-----------------------------------------------------------------------------

\* A client is only ever shown events that are durable: every sequence it
\* received, or waits for it in a queue, is a committed row of the
\* projection, whatever rolls back.
OnlyCommittedDelivered ==
  \A s \in Streams :
    LET Committed == IF stream[s].incident = None THEN {}
                     ELSE Retained(stream[s].incident)
    IN /\ Seen(s) \subseteq Committed
       /\ \A k \in DOMAIN stream[s].queue : stream[s].queue[k] \in Committed

\* The committed event of incident i with sequence n has not been published:
\* its handler is about to publish it, or failed before it could.
Unpublished(i, n) ==
  \E e \in projection[i] :
    e.seq = n /\ e.by # None
      /\ (pc[e.by] = "committed" \/ reply[e.by].status = "failed")

\* An open stream that was not marked slow holds every published event it
\* has not delivered yet, in its replay or in its queue: nothing falls
\* between the replay and the subscription.
StreamCovers ==
  \A s \in Streams :
    stream[s].pc \in {"replaying", "live", "waiting"} /\ ~stream[s].overflow =>
      \A n \in (stream[s].delivered + 1)..incident[stream[s].incident].cursor :
        \/ n \in stream[s].replay
        \/ \E k \in DOMAIN stream[s].queue : stream[s].queue[k] = n
        \/ Unpublished(stream[s].incident, n)

\* What a client is shown is exact: durable events only, in order and once,
\* with nothing lost between its replay and its subscription.
StreamExact == DeliveredInOrder /\ OnlyCommittedDelivered /\ StreamCovers
=============================================================================
