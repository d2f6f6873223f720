---------------------------- MODULE TraceBuffer ----------------------------
(***************************************************************************)
(* PostgresTraceBuffer and the actors of the Trace Service around it:      *)
(*   ingests   POST /internal/v1/traces, which enqueue sanitized traces    *)
(*   drains    run_drain_loop and POST /internal/v1/drain, which claim,    *)
(*             export and settle the deliveries of the automatic sinks     *)
(*   relay     the operator's relay_langsmith, which does the same for the *)
(*             one sink the service cannot reach                           *)
(* all on one event loop, with a process that may restart and a clock that *)
(* expires leases and ends back-offs whenever it likes.  A payload is its  *)
(* digest: cipher and sanitizer are functions of it.                       *)
(***************************************************************************)
EXTENDS Naturals, Sequences, FiniteSets

CONSTANTS
  Traces,         \* trace references
  Digests,        \* payload digests
  Automatic,      \* automatic_sinks, in order
  Relayed,        \* sinks drained by the operator relay
  Ingests,        \* invocations of ingest_trace
  Loop,           \* the task of run_drain_loop
  Drains,         \* requests of POST /internal/v1/drain at a time
  Relay,          \* the operator's relay process
  Capacity,       \* capacity
  Limit,          \* per_sink_limit of a drain; the relay claims one
  MaxFailures,    \* bound: export attempts that fail
  MaxStoreErrors, \* bound: statements of a drain that raise
  MaxCrashes,     \* bound: restarts of the Trace Service
  None            \* absence of a value

AutomaticSinks == {Automatic[n] : n \in DOMAIN Automatic}
Sinks == AutomaticSinks \cup Relayed
Workers == {Loop, Relay} \cup Drains

ASSUME SinkAssumption ==
  /\ AutomaticSinks \cap Relayed = {}
  /\ Automatic \in Seq(AutomaticSinks) \ {<<>>}
ASSUME BufferAssumption ==
  /\ Capacity \in Nat \ {0} /\ Limit \in Nat \ {0}
  /\ MaxFailures \in Nat /\ MaxStoreErrors \in Nat /\ MaxCrashes \in Nat
ASSUME ActorAssumption ==
  None \notin Digests /\ None \notin Traces /\ Loop # Relay
    /\ Loop \notin Drains /\ Relay \notin Drains

VARIABLES
  payload,        \* trace_payload: digest stored under each reference
  delivery,       \* delivery rows, per reference and sink
  ingest,         \* the ingest handlers
  worker,         \* the drain and relay tasks
  received,       \* history: what each sink has received
  failures,       \* history: failed export attempts
  storeErrors,    \* history: statements that raised
  crashes         \* history: restarts

database == <<payload, delivery>>
history == <<received, failures, storeErrors, crashes>>
traceVars == <<database, ingest, worker, history>>

\* state, whether leased_until is in the future, and whether next_attempt_at
\* has passed.
Fresh == [state |-> "PENDING", leased |-> FALSE, due |-> TRUE]

IdleIngest == [pc |-> "idle", trace |-> None, digest |-> None]
IdleWorker == [pc |-> "idle", at |-> 1, batch |-> {}, trace |-> None,
               failed |-> FALSE, settled |-> FALSE]

TraceInit ==
  /\ payload = [t \in Traces |-> None]
  /\ delivery = [t \in Traces |-> [k \in Sinks |-> Fresh]]
  /\ ingest = [h \in Ingests |-> IdleIngest]
  /\ worker = [w \in Workers |-> IdleWorker]
  /\ received = [k \in Sinks |-> {}]
  /\ failures = 0
  /\ storeErrors = 0
  /\ crashes = 0

Stored(t) == payload[t] # None

\* Traces with a delivery that is not ACKED.
Undelivered ==
  {t \in Traces : Stored(t) /\ \E k \in Sinks : delivery[t][k].state # "ACKED"}

-----------------------------------------------------------------------------
(***************************************************************************)
(* enqueue: one transaction under pg_advisory_xact_lock.                   *)
(***************************************************************************)

\* Mutant: the advisory lock is not taken.
EnqueueLockFree(h) == TRUE

EnqueueLockFreed(h) == \A o \in Ingests \ {h} : ingest[o].pc # "counted"

\* Take the lock and look: a known reference answers at once (a
\* duplicate, or PayloadConflict), a full buffer refuses.
CountPending(h, t, d) ==
  /\ ingest[h].pc = "idle" /\ EnqueueLockFreed(h)
  /\ ingest' = [ingest EXCEPT ![h] =
       [pc |-> IF Stored(t) THEN (IF payload[t] = d THEN "known" ELSE "conflict")
               ELSE IF Cardinality(Undelivered) >= Capacity THEN "full"
               ELSE "counted",
        trace |-> t, digest |-> d]]
  /\ UNCHANGED <<database, worker, history>>

\* Insert the payload and one PENDING delivery per sink, and commit.
InsertTrace(h) ==
  LET t == ingest[h].trace IN
  /\ ingest[h].pc = "counted"
  /\ payload' = [payload EXCEPT ![t] = ingest[h].digest]
  /\ delivery' = [delivery EXCEPT ![t] = [k \in Sinks |-> Fresh]]
  /\ ingest' = [ingest EXCEPT ![h].pc = "accepted"]
  /\ UNCHANGED <<worker, history>>

\* command_timeout or a lost client: the transaction rolls back.
AbortIngest(h) ==
  /\ ingest[h].pc = "counted"
  /\ ingest' = [ingest EXCEPT ![h].pc = "aborted"]
  /\ UNCHANGED <<database, worker, history>>

-----------------------------------------------------------------------------
(***************************************************************************)
(* Draining.                                                               *)
(***************************************************************************)

Sink(w) == IF w = Relay THEN CHOOSE k \in Relayed : TRUE
           ELSE Automatic[worker[w].at]

\* Mutant: only PENDING deliveries are claimed, never an expired lease.
ClaimablePending(t, k) ==
  Stored(t) /\ delivery[t][k].due /\ delivery[t][k].state = "PENDING"

Claimable(t, k) ==
  /\ Stored(t) /\ delivery[t][k].due
  /\ \/ delivery[t][k].state = "PENDING"
     \/ delivery[t][k].state = "LEASED" /\ ~delivery[t][k].leased

\* What claim may select.  created_at is the time a transaction began, before
\* it had the advisory lock, so any claimable delivery may be the oldest.
Batches(w) ==
  LET ready == {t \in Traces : Claimable(t, Sink(w))}
      limit == IF w = Relay THEN 1 ELSE Limit
  IN {S \in SUBSET ready :
        \/ Cardinality(S) = limit
        \/ Cardinality(S) < limit /\ S = ready}

Leased(S, k) ==
  [t \in Traces |-> IF t \in S
     THEN [delivery[t] EXCEPT ![k] = [@ EXCEPT !.state = "LEASED", !.leased = TRUE]]
     ELSE delivery[t]]

\* The loop wakes up, a drain is requested, the operator runs the relay.
Start(w) ==
  /\ worker[w].pc = "idle" /\ (w = Relay => Relayed # {})
  /\ worker' = [worker EXCEPT ![w] = [IdleWorker EXCEPT !.pc = "claiming"]]
  /\ UNCHANGED <<database, ingest, history>>

\* claim in its own transaction.  The relay ends when there is nothing left.
Claim(w) ==
  /\ worker[w].pc = "claiming"
  /\ \E S \in Batches(w) :
       /\ delivery' = Leased(S, Sink(w))
       /\ worker' = [worker EXCEPT ![w] =
            IF w = Relay /\ S = {} THEN IdleWorker
            ELSE [@ EXCEPT !.batch = S, !.pc = "exporting"]]
  /\ UNCHANGED <<payload, ingest, history>>

\* One export: it succeeds, fails, or fails although the sink has it.
Export(w, t) ==
  LET k == Sink(w)
      got == received[k] \cup {[trace |-> t, digest |-> payload[t]]}
      settle(f) == [worker EXCEPT ![w] =
                      [@ EXCEPT !.pc = "settling", !.trace = t, !.failed = f,
                                !.batch = worker[w].batch \ {t}]]
  IN
  /\ worker[w].pc = "exporting" /\ t \in worker[w].batch
  /\ \/ /\ received' = [received EXCEPT ![k] = got]
        /\ worker' = settle(FALSE)
        /\ UNCHANGED failures
     \/ /\ failures < MaxFailures /\ failures' = failures + 1
        /\ received' \in {received, [received EXCEPT ![k] = got]}
        /\ worker' = settle(TRUE)
  /\ UNCHANGED <<database, ingest, storeErrors, crashes>>

\* The row being settled, and the table with that row replaced.
Row(w) == delivery[worker[w].trace][Sink(w)]
Settled(w, row) == [delivery EXCEPT ![worker[w].trace][Sink(w)] = row]

\* After a settled delivery the next one of the batch, or the next claim.
Goes(w) ==
  worker' = [worker EXCEPT ![w] =
    [@ EXCEPT !.pc = IF w = Relay THEN "claiming" ELSE "exporting",
              !.settled = TRUE]]

\* An exception escapes: nothing restarts the loop task, which is dead until
\* the process restarts; a request is a 500, the relay raises, and either may
\* be run again.
Raises(w) ==
  worker' = [worker EXCEPT ![w] =
    IF w = Loop THEN [IdleWorker EXCEPT !.pc = "dead"] ELSE IdleWorker]

AckedRow(w) == [Row(w) EXCEPT !.state = "ACKED", !.leased = FALSE]

RetriedRow(w) == [state |-> "PENDING", leased |-> FALSE, due |-> FALSE]

\* Mutant: a failed export is acknowledged as well.
AcknowledgeAny(w) ==
  /\ worker[w].pc = "settling"
  /\ delivery' = Settled(w, AckedRow(w))
  /\ Goes(w)
  /\ UNCHANGED <<payload, ingest, history>>

\* acknowledge: whoever holds the lease by now, whatever the state.
Acknowledge(w) ==
  /\ worker[w].pc = "settling" /\ ~worker[w].failed
  /\ delivery' = Settled(w, AckedRow(w))
  /\ Goes(w)
  /\ UNCHANGED <<payload, ingest, history>>

\* retry follows a failed export, or the relay's first good one when the
\* operator injects an uncertain acknowledgement.
Retrying(w) ==
  /\ worker[w].pc = "settling"
  /\ worker[w].failed \/ (w = Relay /\ ~worker[w].settled)

\* Mutant: the retry of an acknowledged delivery clears acked_at.
RetryReopens(w) ==
  /\ Retrying(w)
  /\ delivery' = Settled(w, RetriedRow(w))
  /\ IF w = Relay /\ worker[w].failed THEN Raises(w) ELSE Goes(w)
  /\ UNCHANGED <<payload, ingest, history>>

\* retry: back to PENDING with a back-off.  The table's CHECK ties acked_at
\* to ACKED, so the update raises on a row that another task acknowledged in
\* between.  The relay stops after every failed export.
Retry(w) ==
  /\ Retrying(w)
  /\ \/ Row(w).state = "ACKED" /\ Raises(w) /\ UNCHANGED delivery
     \/ /\ Row(w).state # "ACKED"
        /\ delivery' = Settled(w, RetriedRow(w))
        /\ IF w = Relay /\ worker[w].failed THEN Raises(w) ELSE Goes(w)
  /\ UNCHANGED <<payload, ingest, history>>

\* claim, acknowledge or retry raises (command_timeout, lost connection),
\* before or after its effect.
StoreError(w) ==
  /\ storeErrors < MaxStoreErrors /\ storeErrors' = storeErrors + 1
  /\ \/ /\ worker[w].pc = "claiming"
        /\ delivery' \in {delivery} \cup {Leased(S, Sink(w)) : S \in Batches(w)}
     \/ /\ worker[w].pc = "settling"
        /\ delivery' \in {delivery} \cup
             (IF ~worker[w].failed THEN {Settled(w, AckedRow(w))}
              ELSE IF Row(w).state # "ACKED" THEN {Settled(w, RetriedRow(w))}
              ELSE {})
  /\ Raises(w)
  /\ UNCHANGED <<payload, ingest, received, failures, crashes>>

\* The batch is done: the next sink; after the last one the loop waits and
\* drain_until_idle starts over unless it is idle.
NextSink(w) ==
  /\ w # Relay /\ worker[w].pc = "exporting" /\ worker[w].batch = {}
  /\ LET last == worker[w].at = Len(Automatic)
         again == w \in Drains /\ Undelivered # {} /\ worker[w].settled
     IN worker' = [worker EXCEPT ![w] =
          IF last THEN [IdleWorker EXCEPT !.pc = IF again THEN "claiming" ELSE "idle"]
          ELSE [@ EXCEPT !.at = worker[w].at + 1, !.pc = "claiming"]]
  /\ UNCHANGED <<database, ingest, history>>

-----------------------------------------------------------------------------

\* Clock: a lease runs out, a back-off ends.
LeaseExpires(t, k) ==
  /\ delivery[t][k].state = "LEASED" /\ delivery[t][k].leased
  /\ delivery' = [delivery EXCEPT ![t][k].leased = FALSE]
  /\ UNCHANGED <<payload, ingest, worker, history>>

BackoffEnds(t, k) ==
  /\ ~delivery[t][k].due
  /\ delivery' = [delivery EXCEPT ![t][k].due = TRUE]
  /\ UNCHANGED <<payload, ingest, worker, history>>

\* The Trace Service restarts: its tasks and open transactions are gone, the
\* tables stay, and lifespan starts a new drain loop.
Restart ==
  /\ crashes < MaxCrashes /\ crashes' = crashes + 1
  /\ worker' = [w \in Workers |-> IF w = Relay THEN worker[w] ELSE IdleWorker]
  /\ ingest' = [h \in Ingests |->
       IF ingest[h].pc = "counted" THEN [ingest[h] EXCEPT !.pc = "aborted"]
       ELSE ingest[h]]
  /\ UNCHANGED <<database, received, failures, storeErrors>>

\* What a drain or relay does without waiting for anybody.
Work(w) ==
  \/ Claim(w)
  \/ \E t \in Traces : Export(w, t)
  \/ Acknowledge(w)
  \/ Retry(w)
  \/ NextSink(w)

TraceNext ==
  \/ \E h \in Ingests, t \in Traces, d \in Digests : CountPending(h, t, d)
  \/ \E h \in Ingests : InsertTrace(h) \/ AbortIngest(h)
  \/ \E w \in Workers : Start(w) \/ Work(w) \/ StoreError(w)
  \/ \E t \in Traces, k \in Sinks : LeaseExpires(t, k) \/ BackoffEnds(t, k)
  \/ Restart

TraceSpec == TraceInit /\ [][TraceNext]_traceVars

\* The drain loop wakes up every second and statements and exports time out
\* after 10 s, so the tasks of the service keep stepping; time passes.  Nobody
\* has to request a drain or run the relay.
TraceFairness ==
  /\ WF_traceVars(Start(Loop))
  /\ \A w \in Workers \ {Relay} : WF_traceVars(Work(w))
  /\ \A t \in Traces, k \in Sinks :
       WF_traceVars(LeaseExpires(t, k)) /\ WF_traceVars(BackoffEnds(t, k))

TraceFairSpec == TraceSpec /\ TraceFairness

-----------------------------------------------------------------------------

\* The buffer never holds more undelivered traces than its capacity, however
\* many ingests run at once and however late drains settle: nothing that was
\* counted as delivered comes back.
CapacityHeld == Cardinality(Undelivered) <= Capacity

\* An acknowledged delivery reached its sink with the stored payload, even if
\* another task's attempt failed or the process restarted in between.
AckedReceived ==
  \A t \in Traces, k \in Sinks :
    Stored(t) /\ delivery[t][k].state = "ACKED" =>
      [trace |-> t, digest |-> payload[t]] \in received[k]

\* Exact replay: however often a trace is exported, and to whichever sinks,
\* it is always the same payload.
SameReplay ==
  \A k, m \in Sinks : \A e \in received[k], f \in received[m] :
    e.trace = f.trace => e.digest = f.digest

\* The buffer keeps its bound, what it calls delivered is delivered, and all
\* sinks hold the same payload of a trace.
BufferSound == CapacityHeld /\ AckedReceived /\ SameReplay

\* ACKED is final: a retry that arrives after another task's acknowledgement
\* does not re-open the delivery.
AckedFinal ==
  [][\A t \in Traces, k \in Sinks :
       delivery[t][k].state = "ACKED" => delivery'[t][k].state = "ACKED"]_traceVars

\* Every accepted trace is delivered to all automatic sinks once the outage
\* is over, unless the drain loop has ended.
DeliveredUnlessEnded ==
  \A t \in Traces :
    Stored(t) ~> \/ \A k \in AutomaticSinks : delivery[t][k].state = "ACKED"
                 \/ worker[Loop].pc = "dead"

\* EVAL-G01-007: activity "produces complete, correlated, sanitized,
\* outage-tolerant traces": every accepted trace is delivered to all automatic
\* sinks once the outage is over.
OutageTolerant ==
  \A t \in Traces :
    Stored(t) ~> \A k \in AutomaticSinks : delivery[t][k].state = "ACKED"
=============================================================================
