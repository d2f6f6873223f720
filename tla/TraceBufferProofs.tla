------------------------- MODULE TraceBufferProofs -------------------------
(***************************************************************************)
(* Proofs about TraceBuffer for every number of traces, sinks, ingests and *)
(* drains and every capacity.                                              *)
(***************************************************************************)
EXTENDS TraceBuffer, FiniteSetTheorems, TLAPS

Delivery == [state : {"PENDING", "LEASED", "ACKED"}, leased : BOOLEAN, due : BOOLEAN]
Ingest == [pc : {"idle", "known", "conflict", "full", "counted", "accepted", "aborted"},
           trace : Traces \cup {None}, digest : Digests \cup {None}]
Busy == {"claiming", "exporting", "settling"}
Worker == [pc : Busy \cup {"idle", "dead"}, at : Nat, batch : SUBSET Traces,
           trace : Traces \cup {None}, failed : BOOLEAN, settled : BOOLEAN]
Message == [trace : Traces, digest : Digests]

\* Every table and task holds values of its type.
TraceTypes ==
  /\ payload \in [Traces -> Digests \cup {None}]
  /\ delivery \in [Traces -> [Sinks -> Delivery]]
  /\ ingest \in [Ingests -> Ingest]
  /\ worker \in [Workers -> Worker]
  /\ received \in [Sinks -> SUBSET Message]

\* The advisory lock: at most one ingest is between counting and inserting,
\* and what it saw still holds: the reference is new and there is room.
EnqueueLock ==
  \A h \in Ingests : ingest[h].pc = "counted" =>
    /\ ingest[h].trace \in Traces /\ ingest[h].digest \in Digests
    /\ ~Stored(ingest[h].trace)
    /\ Cardinality(Undelivered) < Capacity
    /\ \A o \in Ingests \ {h} : ingest[o].pc # "counted"

\* The sink a task with position n works on.
SinkAt(w, n) == IF w = Relay THEN CHOOSE k \in Relayed : TRUE ELSE Automatic[n]

\* A task works on a sink there is and on stored traces; a trace it settles as
\* delivered has reached that sink.
WorkerFits(w, x) ==
  /\ w # Relay => x.at \in 1..Len(Automatic)
  /\ w = Relay /\ x.pc \in Busy => Relayed # {}
  /\ \A t \in x.batch : Stored(t)
  /\ x.pc = "settling" =>
       /\ x.trace \in Traces /\ Stored(x.trace)
       /\ ~x.failed => [trace |-> x.trace, digest |-> payload[x.trace]]
                         \in received[SinkAt(w, x.at)]
Working == \A w \in Workers : WorkerFits(w, worker[w])

\* Deliveries are touched only once the trace is stored, and sinks receive
\* stored payloads only.
StoredFirst ==
  /\ \A t \in Traces, k \in Sinks : ~Stored(t) => delivery[t][k].state = "PENDING"
  /\ \A k \in Sinks : \A e \in received[k] : /\ Stored(e.trace)
                                             /\ e.digest = payload[e.trace]

TraceInv ==
  /\ TraceTypes /\ EnqueueLock /\ Working /\ StoredFirst
  /\ IsFiniteSet(Undelivered) /\ CapacityHeld /\ AckedReceived

\* The position of a task names a sink.
LEMMA SinkInSinks ==
  ASSUME NEW w \in Workers, NEW n \in Nat, w # Relay => n \in 1..Len(Automatic),
         w = Relay => Relayed # {}
  PROVE  SinkAt(w, n) \in Sinks
  <1>1. CASE w = Relay
    BY <1>1 DEF SinkAt, Sinks
  <1>2. CASE w # Relay
    BY <1>2, SinkAssumption DEF SinkAt, Sinks
  <1>3. QED
    BY <1>1, <1>2

\* An empty buffer satisfies the invariant.
LEMMA TraceInitInv == TraceInit => TraceInv
  <1> SUFFICES ASSUME TraceInit PROVE TraceInv
    OBVIOUS
  <1> USE DEF TraceInit
  <1>1. TraceTypes
    BY DEF TraceTypes, Delivery, Ingest, Worker, Message, Fresh, IdleIngest, IdleWorker
  <1>2. EnqueueLock /\ StoredFirst /\ AckedReceived
    BY DEF EnqueueLock, StoredFirst, AckedReceived, Stored, IdleIngest, Fresh
  <1>3. Working
    BY SinkAssumption DEF Working, WorkerFits, IdleWorker, Busy
  <1>4. Undelivered = {}
    BY DEF Undelivered, Stored
  <1>5. IsFiniteSet(Undelivered) /\ CapacityHeld
    BY <1>4, FS_EmptySet, BufferAssumption DEF CapacityHeld
  <1>6. QED
    BY <1>1, <1>2, <1>3, <1>5 DEF TraceInv

\* What a task, the clock or a restart may do to the deliveries: an ACKED row
\* stays, a new one has been received, and rows of unknown traces stay PENDING.
DeliveryMoves ==
  /\ payload' = payload
  /\ delivery' \in [Traces -> [Sinks -> Delivery]]
  /\ received' \in [Sinks -> SUBSET Message]
  /\ \A t \in Traces, k \in Sinks :
       /\ delivery[t][k].state = "ACKED" => delivery'[t][k].state = "ACKED"
       /\ ~Stored(t) => delivery'[t][k].state = "PENDING"
       /\ delivery'[t][k].state = "ACKED" =>
            \/ delivery[t][k].state = "ACKED"
            \/ [trace |-> t, digest |-> payload[t]] \in received'[k]
  /\ \A k \in Sinks : /\ received[k] \subseteq received'[k]
                      /\ \A e \in received'[k] : /\ Stored(e.trace)
                                                 /\ e.digest = payload[e.trace]

\* Such a step leaves no more undelivered traces than there were.
LEMMA MovesKeep ==
  ASSUME TraceInv, DeliveryMoves
  PROVE  /\ StoredFirst' /\ AckedReceived'
         /\ IsFiniteSet(Undelivered') /\ CapacityHeld'
         /\ Cardinality(Undelivered') <= Cardinality(Undelivered)
  <1>1. Undelivered' \subseteq Undelivered
    BY DEF DeliveryMoves, Undelivered, Stored
  <1>2. /\ IsFiniteSet(Undelivered')
        /\ Cardinality(Undelivered') <= Cardinality(Undelivered)
    BY <1>1, FS_Subset DEF TraceInv
  <1>3. /\ Cardinality(Undelivered) \in Nat /\ Cardinality(Undelivered') \in Nat
    BY <1>2, FS_CardinalityType DEF TraceInv
  <1>4. CapacityHeld'
    BY <1>2, <1>3, BufferAssumption DEF TraceInv, CapacityHeld
  <1>5. StoredFirst'
    BY DEF TraceInv, StoredFirst, DeliveryMoves, Stored
  <1>6. AckedReceived'
    BY DEF TraceInv, AckedReceived, DeliveryMoves, Stored
  <1>7. QED
    BY <1>2, <1>4, <1>5, <1>6

\* A step of task w that fits keeps the invariant.
LEMMA TaskStep ==
  ASSUME TraceInv, DeliveryMoves, ingest' = ingest, NEW w \in Workers,
         NEW x \in Worker, worker' = [worker EXCEPT ![w] = x], WorkerFits(w, x)'
  PROVE  TraceInv'
  <1> USE DEF TraceInv
  <1>1. /\ StoredFirst' /\ AckedReceived'
        /\ IsFiniteSet(Undelivered') /\ CapacityHeld'
        /\ Cardinality(Undelivered') <= Cardinality(Undelivered)
    BY MovesKeep
  <1>2. /\ worker'[w] = x /\ \A o \in Workers : o # w => worker'[o] = worker[o]
        /\ worker' \in [Workers -> Worker]
    BY DEF TraceTypes
  <1>3. TraceTypes'
    BY <1>2 DEF TraceTypes, DeliveryMoves
  <1>4. EnqueueLock'
    <2>1. Cardinality(Undelivered) \in Nat /\ Cardinality(Undelivered') \in Nat
      BY <1>1, FS_CardinalityType
    <2>2. QED
      BY <1>1, <2>1, BufferAssumption DEF EnqueueLock, DeliveryMoves, Stored
  <1>5. ASSUME NEW o \in Workers PROVE WorkerFits(o, worker[o])'
    <2>1. CASE o = w
      BY <1>2, <2>1 DEF WorkerFits, Stored
    <2>2. CASE o # w
      <3>1. WorkerFits(o, worker[o]) /\ worker'[o] = worker[o] /\ worker[o] \in Worker
        BY <1>2, <2>2 DEF Working, TraceTypes
      <3>2. worker[o].pc = "settling" => SinkAt(o, worker[o].at) \in Sinks
        BY <3>1, SinkInSinks DEF WorkerFits, Worker, Busy
      <3>3. QED
        BY <3>1, <3>2 DEF WorkerFits, DeliveryMoves, Stored
    <2>3. QED
      BY <2>1, <2>2
  <1>6. QED
    BY <1>1, <1>3, <1>4, <1>5 DEF Working

-----------------------------------------------------------------------------
(***************************************************************************)
(* Ingests.                                                                *)
(***************************************************************************)

\* A step that leaves the tables alone moves no delivery.
LEMMA NoMove ==
  ASSUME TraceInv, UNCHANGED <<payload, delivery, received>>
  PROVE  DeliveryMoves
  BY DEF TraceInv, TraceTypes, StoredFirst, DeliveryMoves

\* Tasks keep fitting while payloads and sinks keep what they hold.
LEMMA TasksKept ==
  ASSUME TraceInv, UNCHANGED <<worker, received>>,
         \A t \in Traces : Stored(t) => payload'[t] = payload[t]
  PROVE  Working'
  <1>1. \A w \in Workers : worker[w] \in Worker /\ WorkerFits(w, worker[w])
    BY DEF TraceInv, TraceTypes, Working
  <1>2. QED
    BY <1>1 DEF Working, WorkerFits, Stored, Worker

\* Counting takes the advisory lock.
LEMMA CountPendingInv ==
  ASSUME TraceInv, NEW h \in Ingests, NEW t \in Traces, NEW d \in Digests,
         CountPending(h, t, d)
  PROVE  TraceInv'
  <1> USE DEF TraceInv
  <1>1. PICK x : x = [pc |-> IF Stored(t)
                               THEN (IF payload[t] = d THEN "known" ELSE "conflict")
                             ELSE IF Cardinality(Undelivered) >= Capacity THEN "full"
                             ELSE "counted",
                      trace |-> t, digest |-> d]
    OBVIOUS
  <1>2. /\ ingest' = [ingest EXCEPT ![h] = x] /\ EnqueueLockFreed(h)
        /\ UNCHANGED <<payload, delivery, worker, received>>
    BY <1>1 DEF CountPending, database, history
  <1>3. /\ x \in Ingest /\ x.trace = t /\ x.digest = d
        /\ x.pc = "counted" => ~Stored(t) /\ ~(Cardinality(Undelivered) >= Capacity)
    BY <1>1 DEF Ingest
  <1>4. /\ ingest'[h] = x /\ \A o \in Ingests : o # h => ingest'[o] = ingest[o]
        /\ ingest' \in [Ingests -> Ingest]
    BY <1>2, <1>3 DEF TraceTypes
  <1>5. /\ StoredFirst' /\ AckedReceived' /\ IsFiniteSet(Undelivered')
        /\ CapacityHeld' /\ Working'
    BY <1>2, MovesKeep, NoMove, TasksKept
  <1>6. TraceTypes'
    BY <1>2, <1>4 DEF TraceTypes
  <1>7. EnqueueLock'
    <2>1. Cardinality(Undelivered) \in Nat
      BY FS_CardinalityType
    <2>2. Undelivered' = Undelivered
      BY <1>2 DEF Undelivered, Stored
    <2>3. x.pc = "counted" => Cardinality(Undelivered) < Capacity
      BY <1>3, <2>1, BufferAssumption
    <2>4. ASSUME NEW o \in Ingests, ingest'[o].pc = "counted" PROVE o = h
      BY <1>2, <1>4, <2>4 DEF EnqueueLockFreed
    <2>5. QED
      BY <1>2, <1>3, <1>4, <2>2, <2>3, <2>4 DEF EnqueueLock, Stored
  <1>8. QED
    BY <1>5, <1>6, <1>7

\* The insert fills the room that was counted.
LEMMA InsertTraceInv ==
  ASSUME TraceInv, NEW h \in Ingests, InsertTrace(h)
  PROVE  TraceInv'
  <1> USE DEF TraceInv
  <1>1. PICK t \in Traces : t = ingest[h].trace
    BY DEF InsertTrace, EnqueueLock
  <1>2. PICK d \in Digests : d = ingest[h].digest
    BY DEF InsertTrace, EnqueueLock
  <1>3. /\ ~Stored(t) /\ Cardinality(Undelivered) < Capacity
        /\ \A o \in Ingests \ {h} : ingest[o].pc # "counted"
    BY <1>1 DEF InsertTrace, EnqueueLock
  <1>4. /\ payload' = [payload EXCEPT ![t] = d]
        /\ delivery' = [delivery EXCEPT ![t] = [k \in Sinks |-> Fresh]]
        /\ ingest' = [ingest EXCEPT ![h].pc = "accepted"]
        /\ UNCHANGED <<worker, received>>
    BY <1>1, <1>2 DEF InsertTrace, history
  <1>5. /\ payload'[t] = d /\ d # None
        /\ \A s \in Traces : s # t => /\ payload'[s] = payload[s]
                                      /\ delivery'[s] = delivery[s]
        /\ \A k \in Sinks : delivery'[t][k] = Fresh
    BY <1>4, ActorAssumption DEF TraceTypes
  <1>6. TraceTypes'
    <2>1. Fresh \in Delivery
      BY DEF Fresh, Delivery
    <2>2. ingest' \in [Ingests -> Ingest]
      BY <1>4 DEF TraceTypes, Ingest
    <2>3. QED
      BY <1>4, <2>1, <2>2 DEF TraceTypes
  <1>7. EnqueueLock'
    BY <1>3, <1>4 DEF TraceTypes, Ingest, EnqueueLock
  <1>8. Working'
    BY <1>3, <1>4, <1>5, TasksKept
  <1>9. StoredFirst' /\ AckedReceived'
    <2>1. \A k \in Sinks : \A e \in received[k] : e.trace \in Traces /\ e.trace # t
      BY <1>3 DEF StoredFirst, TraceTypes, Message
    <2>2. Fresh.state = "PENDING"
      BY DEF Fresh
    <2>3. StoredFirst'
      BY <1>4, <1>5, <2>1, <2>2 DEF StoredFirst, Stored
    <2>4. AckedReceived'
      BY <1>4, <1>5, <2>2 DEF AckedReceived, Stored
    <2>5. QED
      BY <2>3, <2>4
  <1>10. IsFiniteSet(Undelivered') /\ CapacityHeld'
    <2>1. Undelivered' \subseteq Undelivered \cup {t}
      BY <1>5 DEF Undelivered, Stored
    <2>2. /\ IsFiniteSet(Undelivered \cup {t})
          /\ Cardinality(Undelivered \cup {t}) <= Cardinality(Undelivered) + 1
          /\ Cardinality(Undelivered) \in Nat
      <3>1. Cardinality(Undelivered) \in Nat
        BY FS_CardinalityType
      <3>2. /\ IsFiniteSet(Undelivered \cup {t})
            /\ Cardinality(Undelivered \cup {t}) =
                 IF t \in Undelivered THEN Cardinality(Undelivered)
                 ELSE Cardinality(Undelivered) + 1
        BY FS_AddElement
      <3>3. QED
        BY <3>1, <3>2
    <2>3. /\ IsFiniteSet(Undelivered')
          /\ Cardinality(Undelivered') <= Cardinality(Undelivered \cup {t})
      BY <2>1, <2>2, FS_Subset
    <2>4. Cardinality(Undelivered') \in Nat /\ Cardinality(Undelivered \cup {t}) \in Nat
      BY <2>2, <2>3, FS_CardinalityType
    <2>5. QED
      BY <1>3, <2>2, <2>3, <2>4, BufferAssumption DEF CapacityHeld
  <1>11. QED
    BY <1>6, <1>7, <1>8, <1>9, <1>10

\* A step that only takes ingests out of their transaction keeps the invariant.
LEMMA IngestEnds ==
  ASSUME TraceInv, UNCHANGED <<payload, delivery, received>>, Working',
         worker' \in [Workers -> Worker], ingest' \in [Ingests -> Ingest],
         \A h \in Ingests : ingest'[h].pc = "counted" => ingest'[h] = ingest[h]
  PROVE  TraceInv'
  <1> USE DEF TraceInv
  <1>1. /\ StoredFirst' /\ AckedReceived' /\ IsFiniteSet(Undelivered') /\ CapacityHeld'
    BY MovesKeep, NoMove
  <1>2. TraceTypes'
    BY DEF TraceTypes
  <1>3. EnqueueLock'
    <2>1. Undelivered' = Undelivered
      BY DEF Undelivered, Stored
    <2>2. QED
      BY <2>1 DEF EnqueueLock, Stored
  <1>4. QED
    BY <1>1, <1>2, <1>3

\* A rolled back ingest releases the lock and changes nothing.
LEMMA AbortIngestInv ==
  ASSUME TraceInv, NEW h \in Ingests, AbortIngest(h)
  PROVE  TraceInv'
  <1>1. /\ ingest' = [ingest EXCEPT ![h].pc = "aborted"]
        /\ UNCHANGED <<payload, delivery, received, worker>>
    BY DEF AbortIngest, database, history
  <1>2. /\ ingest' \in [Ingests -> Ingest]
        /\ ingest'[h].pc = "aborted"
        /\ \A o \in Ingests : o # h => ingest'[o] = ingest[o]
    BY <1>1 DEF TraceInv, TraceTypes, Ingest
  <1>3. Working' /\ worker' \in [Workers -> Worker]
    BY <1>1, TasksKept DEF TraceInv, TraceTypes
  <1>4. QED
    BY <1>1, <1>2, <1>3, IngestEnds

-----------------------------------------------------------------------------
(***************************************************************************)
(* Drains and the relay.                                                   *)
(***************************************************************************)

\* The sink a busy task works on is one of the sinks.
LEMMA BusySink ==
  ASSUME TraceInv, NEW w \in Workers, worker[w].pc \in Busy
  PROVE  Sink(w) \in Sinks /\ Sink(w) = SinkAt(w, worker[w].at)
  <1>1. WorkerFits(w, worker[w]) /\ worker[w].at \in Nat
    BY DEF TraceInv, Working, TraceTypes, Worker
  <1>2. SinkAt(w, worker[w].at) \in Sinks
    BY <1>1, SinkInSinks DEF WorkerFits
  <1>3. QED
    BY <1>2 DEF Sink, SinkAt

\* An idle or dead task fits.
LEMMA IdleFits ==
  ASSUME NEW w \in Workers, NEW pc \in {"idle", "dead", "claiming"},
         pc = "claiming" => (w = Relay => Relayed # {})
  PROVE  /\ [IdleWorker EXCEPT !.pc = pc] \in Worker /\ IdleWorker \in Worker
         /\ WorkerFits(w, [IdleWorker EXCEPT !.pc = pc])'
         /\ WorkerFits(w, IdleWorker)'
  <1>1. IdleWorker \in Worker
    BY DEF IdleWorker, Worker, Busy
  <1>2. PICK x : x = [IdleWorker EXCEPT !.pc = pc]
    OBVIOUS
  <1>3. x \in Worker
    BY <1>1, <1>2 DEF Worker, Busy
  <1>4. x.pc = pc /\ x.at = 1 /\ x.batch = {}
    BY <1>2 DEF IdleWorker
  <1>5. 1 \in 1..Len(Automatic)
    BY SinkAssumption
  <1>6. WorkerFits(w, x)'
    BY <1>4, <1>5 DEF WorkerFits, Busy
  <1>7. WorkerFits(w, IdleWorker)'
    BY <1>5 DEF WorkerFits, Busy, IdleWorker
  <1>8. QED
    BY <1>1, <1>2, <1>3, <1>6, <1>7

\* The loop wakes up, a drain or the relay is started.
LEMMA StartInv ==
  ASSUME TraceInv, NEW w \in Workers, Start(w)
  PROVE  TraceInv'
  <1>1. PICK x : x = [IdleWorker EXCEPT !.pc = "claiming"]
    OBVIOUS
  <1>2. x \in Worker /\ WorkerFits(w, x)'
    BY <1>1, IdleFits DEF Start
  <1>3. /\ worker' = [worker EXCEPT ![w] = x] /\ ingest' = ingest
        /\ UNCHANGED <<payload, delivery, received>>
    BY <1>1 DEF Start, database, history
  <1>4. QED
    BY <1>2, <1>3, NoMove, TaskStep

\* Leasing a batch of claimable rows moves no ACKED delivery.
LEMMA LeasedMoves ==
  ASSUME TraceInv, NEW w \in Workers, worker[w].pc \in Busy,
         NEW S \in Batches(w), delivery' = Leased(S, Sink(w)),
         UNCHANGED <<payload, received>>
  PROVE  DeliveryMoves /\ S \subseteq Traces /\ \A t \in S : Stored(t)
  <1>1. PICK k \in Sinks : k = Sink(w)
    BY BusySink
  <1>2. /\ S \subseteq Traces
        /\ \A t \in S : Stored(t) /\ delivery[t][k].state # "ACKED"
    BY <1>1 DEF Batches, Claimable
  <1>3. /\ \A t \in S : delivery'[t] =
             [delivery[t] EXCEPT ![k] =
                [delivery[t][k] EXCEPT !.state = "LEASED", !.leased = TRUE]]
        /\ \A t \in Traces \ S : delivery'[t] = delivery[t]
        /\ DOMAIN delivery' = Traces
    BY <1>1, <1>2 DEF Leased
  <1>4. \A t \in Traces : delivery[t] \in [Sinks -> Delivery]
    BY DEF TraceInv, TraceTypes
  <1>5. ASSUME NEW t \in Traces
        PROVE  /\ delivery'[t] \in [Sinks -> Delivery]
               /\ \A m \in Sinks :
                    \/ delivery'[t][m] = delivery[t][m]
                    \/ /\ delivery'[t][m].state = "LEASED" /\ Stored(t)
                       /\ delivery[t][m].state # "ACKED"
    <2>1. CASE t \in S
      <3>1. PICK row : row = [delivery[t][k] EXCEPT !.state = "LEASED", !.leased = TRUE]
        OBVIOUS
      <3>2. row \in Delivery /\ row.state = "LEASED"
        BY <1>4, <3>1 DEF Delivery
      <3>3. delivery'[t] = [delivery[t] EXCEPT ![k] = row]
        BY <1>3, <2>1, <3>1
      <3>4. QED
        BY <1>2, <1>4, <2>1, <3>2, <3>3
    <2>2. CASE t \notin S
      BY <1>3, <1>4, <2>2
    <2>3. QED
      BY <2>1, <2>2
  <1>6. delivery' \in [Traces -> [Sinks -> Delivery]]
    <2>1. delivery' = [t \in Traces |-> delivery'[t]]
      BY <1>1 DEF Leased
    <2>2. QED
      BY <1>5, <2>1
  <1>7. QED
    BY <1>2, <1>5, <1>6 DEF DeliveryMoves, TraceInv, TraceTypes, StoredFirst

\* A task that claims a batch works on stored traces.
LEMMA ClaimInv ==
  ASSUME TraceInv, NEW w \in Workers, Claim(w)
  PROVE  TraceInv'
  <1>1. PICK S \in Batches(w) :
          /\ delivery' = Leased(S, Sink(w))
          /\ worker' = [worker EXCEPT ![w] =
               IF w = Relay /\ S = {} THEN IdleWorker
               ELSE [worker[w] EXCEPT !.batch = S, !.pc = "exporting"]]
    BY DEF Claim
  <1>2. /\ worker[w].pc = "claiming" /\ worker[w].pc \in Busy
        /\ UNCHANGED <<payload, ingest, received>>
        /\ worker[w] \in Worker /\ WorkerFits(w, worker[w])
    BY DEF Claim, Busy, history, TraceInv, TraceTypes, Working
  <1>3. DeliveryMoves /\ S \subseteq Traces /\ \A t \in S : Stored(t)
    BY <1>1, <1>2, LeasedMoves
  <1>4. CASE w = Relay /\ S = {}
    BY <1>1, <1>2, <1>3, <1>4, IdleFits, TaskStep
  <1>5. CASE ~(w = Relay /\ S = {})
    <2>1. PICK x : x = [worker[w] EXCEPT !.batch = S, !.pc = "exporting"]
      OBVIOUS
    <2>2. /\ x \in Worker /\ x.pc = "exporting" /\ x.batch = S
          /\ x.at = worker[w].at
      BY <1>2, <1>3, <2>1 DEF Worker, Busy
    <2>3. WorkerFits(w, x)'
      BY <1>2, <1>3, <2>2 DEF WorkerFits, Stored
    <2>4. QED
      BY <1>1, <1>2, <1>3, <1>5, <2>1, <2>2, <2>3, TaskStep
  <1>6. QED
    BY <1>4, <1>5

\* A trace that is exported reaches its sink with the stored payload, or the
\* attempt counts as failed.
LEMMA ExportInv ==
  ASSUME TraceInv, NEW w \in Workers, NEW t \in Traces, Export(w, t)
  PROVE  TraceInv'
  <1>1. /\ worker[w].pc = "exporting" /\ worker[w].pc \in Busy
        /\ t \in worker[w].batch /\ UNCHANGED <<payload, delivery, ingest>>
        /\ worker[w] \in Worker /\ WorkerFits(w, worker[w])
    BY DEF Export, Busy, database, TraceInv, TraceTypes, Working
  <1>2. Stored(t) /\ payload[t] \in Digests
    BY <1>1 DEF WorkerFits, Stored, TraceInv, TraceTypes
  <1>3. PICK k \in Sinks : k = Sink(w) /\ k = SinkAt(w, worker[w].at)
    BY <1>1, BusySink
  <1>4. PICK e \in Message : e = [trace |-> t, digest |-> payload[t]]
    BY <1>2 DEF Message
  <1>5. PICK f \in BOOLEAN :
          /\ worker' = [worker EXCEPT ![w] =
               [worker[w] EXCEPT !.pc = "settling", !.trace = t, !.failed = f,
                                 !.batch = worker[w].batch \ {t}]]
          /\ \/ received' = [received EXCEPT ![k] = received[k] \cup {e}]
             \/ f /\ received' = received
    <2> DEFINE settle(f) ==
                 [worker EXCEPT ![w] =
                    [worker[w] EXCEPT !.pc = "settling", !.trace = t, !.failed = f,
                                      !.batch = worker[w].batch \ {t}]]
    <2>1. \/ /\ received' = [received EXCEPT ![k] = received[k] \cup {e}]
             /\ worker' = settle(FALSE)
          \/ /\ received' \in {received, [received EXCEPT ![k] = received[k] \cup {e}]}
             /\ worker' = settle(TRUE)
      BY <1>3, <1>4 DEF Export
    <2>2. QED
      BY <2>1
  <1>6. /\ received' \in [Sinks -> SUBSET Message]
        /\ \A m \in Sinks : /\ received[m] \subseteq received'[m]
                            /\ received'[m] \subseteq received[m] \cup {e}
        /\ ~f => e \in received'[k]
    BY <1>5 DEF TraceInv, TraceTypes
  <1>7. DeliveryMoves
    <2>1. e.trace = t /\ e.digest = payload[t]
      BY <1>4
    <2>2. \A m \in Sinks : \A x \in received'[m] :
            Stored(x.trace) /\ x.digest = payload[x.trace]
      BY <1>2, <1>6, <2>1 DEF TraceInv, StoredFirst
    <2>3. QED
      BY <1>1, <1>6, <2>2 DEF DeliveryMoves, TraceInv, TraceTypes, StoredFirst
  <1>8. PICK x : x = [worker[w] EXCEPT !.pc = "settling", !.trace = t, !.failed = f,
                                       !.batch = worker[w].batch \ {t}]
    OBVIOUS
  <1>9. /\ x \in Worker /\ x.pc = "settling" /\ x.trace = t /\ x.failed = f
        /\ x.batch = worker[w].batch \ {t} /\ x.at = worker[w].at
    BY <1>1, <1>8 DEF Worker, Busy
  <1>10. WorkerFits(w, x)'
    BY <1>1, <1>2, <1>3, <1>4, <1>6, <1>9 DEF WorkerFits, Stored, Busy
  <1>11. QED
    BY <1>1, <1>5, <1>7, <1>8, <1>9, <1>10, TaskStep

\* Settling a row: ACKED rows stay ACKED, and only a received trace becomes so.
LEMMA SettledMoves ==
  ASSUME TraceInv, NEW w \in Workers, worker[w].pc = "settling",
         NEW row \in Delivery, delivery' = Settled(w, row),
         UNCHANGED <<payload, received>>,
         Row(w).state = "ACKED" => row.state = "ACKED",
         row.state = "ACKED" => ~worker[w].failed
  PROVE  DeliveryMoves
  <1>1. PICK k \in Sinks : k = Sink(w) /\ k = SinkAt(w, worker[w].at)
    BY BusySink DEF Busy
  <1>2. WorkerFits(w, worker[w])
    BY DEF TraceInv, Working
  <1>3. PICK t \in Traces : t = worker[w].trace
    BY <1>2 DEF WorkerFits
  <1>4. /\ Stored(t)
        /\ row.state = "ACKED" => [trace |-> t, digest |-> payload[t]] \in received[k]
    BY <1>1, <1>2, <1>3 DEF WorkerFits
  <1>5. /\ delivery' = [delivery EXCEPT ![t][k] = row] /\ Row(w) = delivery[t][k]
    BY <1>1, <1>3 DEF Settled, Row
  <1>6. /\ delivery' \in [Traces -> [Sinks -> Delivery]]
        /\ delivery'[t][k] = row
        /\ \A s \in Traces, m \in Sinks :
             s # t \/ m # k => delivery'[s][m] = delivery[s][m]
    BY <1>5 DEF TraceInv, TraceTypes
  <1>7. QED
    BY <1>4, <1>5, <1>6 DEF DeliveryMoves, TraceInv, TraceTypes, StoredFirst

\* The rows that acknowledge and retry write are deliveries.
LEMMA SettledRows ==
  ASSUME TraceInv, NEW w \in Workers, worker[w].pc = "settling"
  PROVE  /\ AckedRow(w) \in Delivery /\ AckedRow(w).state = "ACKED"
         /\ RetriedRow(w) \in Delivery /\ RetriedRow(w).state = "PENDING"
  <1>1. Row(w) \in Delivery
    BY BusySink DEF Row, Busy, TraceInv, TraceTypes, Working, WorkerFits
  <1>2. QED
    BY <1>1 DEF AckedRow, RetriedRow, Delivery

\* A task that raises ends.
LEMMA RaisesInv ==
  ASSUME TraceInv, DeliveryMoves, ingest' = ingest, NEW w \in Workers, Raises(w)
  PROVE  TraceInv'
  <1>1. PICK x : x = IF w = Loop THEN [IdleWorker EXCEPT !.pc = "dead"] ELSE IdleWorker
    OBVIOUS
  <1>2. /\ [IdleWorker EXCEPT !.pc = "dead"] \in Worker /\ IdleWorker \in Worker
        /\ WorkerFits(w, [IdleWorker EXCEPT !.pc = "dead"])'
        /\ WorkerFits(w, IdleWorker)'
    BY IdleFits
  <1>3. x \in Worker /\ WorkerFits(w, x)' /\ worker' = [worker EXCEPT ![w] = x]
    BY <1>1, <1>2 DEF Raises
  <1>4. QED
    BY <1>3, TaskStep

\* A task that settled a row goes on with its batch or claims again.
LEMMA GoesInv ==
  ASSUME TraceInv, DeliveryMoves, ingest' = ingest, NEW w \in Workers,
         worker[w].pc = "settling", Goes(w)
  PROVE  TraceInv'
  <1>1. worker[w] \in Worker /\ WorkerFits(w, worker[w])
    BY DEF TraceInv, TraceTypes, Working
  <1>2. PICK x : x = [worker[w] EXCEPT !.pc = IF w = Relay THEN "claiming"
                                                ELSE "exporting",
                                       !.settled = TRUE]
    OBVIOUS
  <1>3. /\ x \in Worker /\ x.pc \in {"claiming", "exporting"}
        /\ x.batch = worker[w].batch /\ x.at = worker[w].at
    BY <1>1, <1>2 DEF Worker, Busy
  <1>4. WorkerFits(w, x)'
    BY <1>1, <1>3 DEF WorkerFits, Stored, Busy, DeliveryMoves
  <1>5. QED
    BY <1>2, <1>3, <1>4, TaskStep DEF Goes

\* acknowledge writes ACKED for a trace that reached the sink.
LEMMA AcknowledgeInv ==
  ASSUME TraceInv, NEW w \in Workers, Acknowledge(w)
  PROVE  TraceInv' /\ DeliveryMoves
  <1>1. DeliveryMoves
    BY SettledRows, SettledMoves DEF Acknowledge, history
  <1>2. QED
    BY <1>1, GoesInv DEF Acknowledge

\* retry writes PENDING, and not over ACKED.
LEMMA RetryInv ==
  ASSUME TraceInv, NEW w \in Workers, Retry(w)
  PROVE  TraceInv' /\ DeliveryMoves
  <1>1. /\ worker[w].pc = "settling" /\ ingest' = ingest
        /\ UNCHANGED <<payload, received>> /\ (Raises(w) \/ Goes(w))
    BY DEF Retry, Retrying, history
  <1>2. DeliveryMoves
    <2>1. CASE UNCHANGED delivery
      BY <1>1, <2>1, NoMove
    <2>2. CASE Row(w).state # "ACKED" /\ delivery' = Settled(w, RetriedRow(w))
      BY <1>1, <2>2, SettledRows, SettledMoves
    <2>3. QED
      BY <2>1, <2>2 DEF Retry
  <1>3. QED
    BY <1>1, <1>2, RaisesInv, GoesInv

\* A statement that raises has had its effect or none.
LEMMA StoreErrorInv ==
  ASSUME TraceInv, NEW w \in Workers, StoreError(w)
  PROVE  TraceInv' /\ DeliveryMoves
  <1>1. /\ worker[w].pc \in Busy /\ ingest' = ingest /\ Raises(w)
        /\ UNCHANGED <<payload, received>>
    BY DEF StoreError, Busy
  <1>2. CASE delivery' = delivery
    BY <1>1, <1>2, NoMove, RaisesInv
  <1>3. ASSUME NEW S \in Batches(w), delivery' = Leased(S, Sink(w)) PROVE DeliveryMoves
    BY <1>1, <1>3, LeasedMoves
  <1>4. CASE /\ worker[w].pc = "settling" /\ ~worker[w].failed
             /\ delivery' = Settled(w, AckedRow(w))
    BY <1>1, <1>4, SettledRows, SettledMoves, RaisesInv
  <1>5. CASE /\ worker[w].pc = "settling" /\ Row(w).state # "ACKED"
             /\ delivery' = Settled(w, RetriedRow(w))
    BY <1>1, <1>5, SettledRows, SettledMoves, RaisesInv
  <1>6. QED
    BY <1>1, <1>2, <1>3, <1>4, <1>5, RaisesInv DEF StoreError

\* The next sink of a drain is one of the automatic ones.
LEMMA NextSinkInv ==
  ASSUME TraceInv, NEW w \in Workers, NextSink(w)
  PROVE  TraceInv'
  <1>1. /\ w # Relay /\ ingest' = ingest /\ UNCHANGED <<payload, delivery, received>>
        /\ worker[w] \in Worker /\ WorkerFits(w, worker[w])
    BY DEF NextSink, database, history, TraceInv, TraceTypes, Working
  <1>2. CASE worker[w].at = Len(Automatic)
    <2>1. PICK pc \in {"claiming", "idle"} :
            worker' = [worker EXCEPT ![w] = [IdleWorker EXCEPT !.pc = pc]]
      BY <1>2 DEF NextSink
    <2>2. PICK x : x = [IdleWorker EXCEPT !.pc = pc]
      OBVIOUS
    <2>3. x \in Worker /\ WorkerFits(w, x)'
      BY <1>1, <2>2, IdleFits
    <2>4. QED
      BY <1>1, <2>1, <2>2, <2>3, NoMove, TaskStep
  <1>3. CASE worker[w].at # Len(Automatic)
    <2>1. PICK x : x = [worker[w] EXCEPT !.at = worker[w].at + 1, !.pc = "claiming"]
      OBVIOUS
    <2>2. worker' = [worker EXCEPT ![w] = x]
      BY <1>3, <2>1 DEF NextSink
    <2>3. /\ x \in Worker /\ x.pc = "claiming" /\ x.at = worker[w].at + 1
          /\ x.batch = worker[w].batch
      <3>1. PICK n \in Nat : n = worker[w].at + 1
        BY <1>1 DEF Worker
      <3>2. x = [worker[w] EXCEPT !.at = n, !.pc = "claiming"]
        BY <2>1, <3>1
      <3>3. x \in Worker /\ x.pc = "claiming" /\ x.at = n /\ x.batch = worker[w].batch
        BY <1>1, <3>2 DEF Worker, Busy
      <3>4. QED
        BY <3>1, <3>3
    <2>4. worker[w].at + 1 \in 1..Len(Automatic)
      <3>1. Len(Automatic) \in Nat
        BY SinkAssumption
      <3>2. worker[w].at \in 1..Len(Automatic)
        BY <1>1 DEF WorkerFits
      <3>3. QED
        BY <1>3, <3>1, <3>2
    <2>5. WorkerFits(w, x)'
      BY <1>1, <2>3, <2>4 DEF WorkerFits, Stored, Busy
    <2>6. QED
      BY <1>1, <2>2, <2>3, <2>5, NoMove, TaskStep
  <1>4. QED
    BY <1>2, <1>3

\* The clock changes no state.
LEMMA ClockInv ==
  ASSUME TraceInv, NEW t \in Traces, NEW k \in Sinks,
         LeaseExpires(t, k) \/ BackoffEnds(t, k)
  PROVE  TraceInv' /\ DeliveryMoves
  <1>1. /\ UNCHANGED <<payload, ingest, worker, received>>
        /\ delivery' \in [Traces -> [Sinks -> Delivery]]
        /\ \A s \in Traces, m \in Sinks : delivery'[s][m].state = delivery[s][m].state
    <2>1. delivery \in [Traces -> [Sinks -> Delivery]] /\ delivery[t][k] \in Delivery
      BY DEF TraceInv, TraceTypes
    <2>2. PICK row \in Delivery :
            /\ delivery' = [delivery EXCEPT ![t][k] = row]
            /\ row.state = delivery[t][k].state
      <3>1. CASE LeaseExpires(t, k)
        <4>1. PICK row : row = [delivery[t][k] EXCEPT !.leased = FALSE]
          OBVIOUS
        <4>2. row \in Delivery /\ row.state = delivery[t][k].state
          BY <2>1, <4>1 DEF Delivery
        <4>3. QED
          BY <3>1, <4>1, <4>2 DEF LeaseExpires
      <3>2. CASE BackoffEnds(t, k)
        <4>1. PICK row : row = [delivery[t][k] EXCEPT !.due = TRUE]
          OBVIOUS
        <4>2. row \in Delivery /\ row.state = delivery[t][k].state
          BY <2>1, <4>1 DEF Delivery
        <4>3. QED
          BY <3>2, <4>1, <4>2 DEF BackoffEnds
      <3>3. QED
        BY <3>1, <3>2
    <2>3. /\ delivery' \in [Traces -> [Sinks -> Delivery]]
          /\ delivery'[t][k] = row
          /\ \A s \in Traces, m \in Sinks :
               s # t \/ m # k => delivery'[s][m] = delivery[s][m]
      BY <2>1, <2>2
    <2>4. QED
      BY <2>2, <2>3 DEF LeaseExpires, BackoffEnds, history
  <1>2. DeliveryMoves
    BY <1>1 DEF DeliveryMoves, TraceInv, TraceTypes, StoredFirst
  <1>3. Undelivered' = Undelivered
    BY <1>1 DEF Undelivered, Stored
  <1>4. TraceTypes' /\ EnqueueLock'
    BY <1>1, <1>3 DEF TraceInv, TraceTypes, EnqueueLock, Stored
  <1>5. QED
    BY <1>1, <1>2, <1>4, MovesKeep, TasksKept DEF TraceInv

\* A restart takes tasks and open transactions away and keeps the tables.
LEMMA RestartInv ==
  ASSUME TraceInv, Restart
  PROVE  TraceInv'
  <1>1. /\ UNCHANGED <<payload, delivery, received>>
        /\ worker' = [w \in Workers |-> IF w = Relay THEN worker[w] ELSE IdleWorker]
        /\ ingest' = [h \in Ingests |->
             IF ingest[h].pc = "counted" THEN [ingest[h] EXCEPT !.pc = "aborted"]
             ELSE ingest[h]]
    BY DEF Restart, database
  <1>2. /\ ingest' \in [Ingests -> Ingest]
        /\ \A h \in Ingests : ingest'[h].pc # "counted"
    BY <1>1 DEF TraceInv, TraceTypes, Ingest
  <1>3. IdleWorker \in Worker
    BY DEF IdleWorker, Worker, Busy
  <1>4. worker' \in [Workers -> Worker]
    BY <1>1, <1>3 DEF TraceInv, TraceTypes
  <1>5. ASSUME NEW w \in Workers PROVE WorkerFits(w, worker[w])'
    <2>1. CASE w # Relay
      <3>1. worker'[w] = IdleWorker
        BY <1>1, <2>1
      <3>2. WorkerFits(w, IdleWorker)'
        BY IdleFits
      <3>3. QED
        BY <3>1, <3>2 DEF WorkerFits, Stored
    <2>2. CASE w = Relay
      <3>1. worker'[w] = worker[w] /\ WorkerFits(w, worker[w])
        BY <1>1, <2>2 DEF TraceInv, Working
      <3>2. QED
        BY <1>1, <3>1 DEF WorkerFits, Stored
    <2>3. QED
      BY <2>1, <2>2
  <1>6. QED
    BY <1>1, <1>2, <1>4, <1>5, IngestEnds DEF Working

-----------------------------------------------------------------------------

\* Every step keeps the invariant.
LEMMA TraceNextInv == TraceInv /\ [TraceNext]_traceVars => TraceInv'
  <1> SUFFICES ASSUME TraceInv, [TraceNext]_traceVars PROVE TraceInv'
    OBVIOUS
  <1>1. ASSUME NEW h \in Ingests, NEW t \in Traces, NEW d \in Digests,
               CountPending(h, t, d)
        PROVE  TraceInv'
    BY <1>1, CountPendingInv
  <1>2. ASSUME NEW h \in Ingests, InsertTrace(h) \/ AbortIngest(h) PROVE TraceInv'
    BY <1>2, InsertTraceInv, AbortIngestInv
  <1>3. ASSUME NEW w \in Workers, Start(w) \/ StoreError(w) PROVE TraceInv'
    BY <1>3, StartInv, StoreErrorInv
  <1>4. ASSUME NEW w \in Workers, Work(w) PROVE TraceInv'
    BY <1>4, ClaimInv, ExportInv, AcknowledgeInv, RetryInv, NextSinkInv DEF Work
  <1>5. ASSUME NEW t \in Traces, NEW k \in Sinks,
               LeaseExpires(t, k) \/ BackoffEnds(t, k)
        PROVE  TraceInv'
    BY <1>5, ClockInv
  <1>6. CASE Restart
    BY <1>6, RestartInv
  <1>7. CASE UNCHANGED traceVars
    <2>1. UNCHANGED <<payload, delivery, ingest, worker, received>>
      BY <1>7 DEF traceVars, database, history
    <2>2. QED
      BY <2>1, IngestEnds, TasksKept DEF TraceInv, TraceTypes
  <1>8. QED
    BY <1>1, <1>2, <1>3, <1>4, <1>5, <1>6, <1>7 DEF TraceNext

\* The invariant holds throughout every behaviour of the Trace Service.
LEMMA TraceInvariance == TraceSpec => []TraceInv
  BY TraceInitInv, TraceNextInv, PTL DEF TraceSpec

\* However many ingests, drains, relays, failures and restarts interleave, the
\* buffer keeps its capacity, what it calls ACKED was received with the stored
\* payload, and no two sinks hold different payloads of one trace.
THEOREM BufferIsSound == TraceSpec => []BufferSound
  <1>1. TraceInv => BufferSound
    BY DEF TraceInv, BufferSound, SameReplay, StoredFirst
  <1>2. QED
    BY <1>1, TraceInvariance, PTL

\* No step takes a delivery out of ACKED, late retries included.
THEOREM AcksAreFinal == TraceSpec => AckedFinal
  <1> DEFINE Final ==
        \A t \in Traces, k \in Sinks :
          delivery[t][k].state = "ACKED" => delivery'[t][k].state = "ACKED"
  <1>1. TraceInv /\ [TraceNext]_traceVars => [Final]_traceVars
    <2> SUFFICES ASSUME TraceInv, TraceNext PROVE Final
      OBVIOUS
    <2>1. ASSUME DeliveryMoves PROVE Final
      BY <2>1 DEF DeliveryMoves
    <2>2. ASSUME UNCHANGED delivery PROVE Final
      BY <2>2
    <2>3. ASSUME NEW h \in Ingests, InsertTrace(h) PROVE Final
      <3>1. PICK t \in Traces : t = ingest[h].trace /\ ~Stored(t)
        BY <2>3 DEF InsertTrace, TraceInv, EnqueueLock
      <3>2. \A s \in Traces : s # t => delivery'[s] = delivery[s]
        BY <2>3, <3>1 DEF InsertTrace, TraceInv, TraceTypes
      <3>3. QED
        BY <3>1, <3>2 DEF TraceInv, StoredFirst
    <2>4. ASSUME NEW w \in Workers, Claim(w) PROVE DeliveryMoves
      BY <2>4, LeasedMoves DEF Claim, Busy, history
    <2>5. CASE \E h \in Ingests, t \in Traces, d \in Digests : CountPending(h, t, d)
      BY <2>2, <2>5 DEF CountPending, database
    <2>6. CASE \E h \in Ingests : AbortIngest(h)
      BY <2>2, <2>6 DEF AbortIngest, database
    <2>7. CASE \E w \in Workers : Start(w)
      BY <2>2, <2>7 DEF Start, database
    <2>8. CASE \E w \in Workers, t \in Traces : Export(w, t)
      BY <2>2, <2>8 DEF Export, database
    <2>9. CASE \E w \in Workers : NextSink(w)
      BY <2>2, <2>9 DEF NextSink, database
    <2>10. CASE Restart
      BY <2>2, <2>10 DEF Restart, database
    <2>11. QED
      BY <2>1, <2>3, <2>4, <2>5, <2>6, <2>7, <2>8, <2>9, <2>10,
         AcknowledgeInv, RetryInv, StoreErrorInv, ClockInv DEF TraceNext, Work
  <1>2. QED
    BY <1>1, TraceInvariance, PTL DEF TraceSpec, AckedFinal
=============================================================================
