---------------------------- MODULE MemoryStore ----------------------------
(***************************************************************************)
(* MemoryIncidentStore, the contract reference store, with the event       *)
(* streams of the Control API on top.  Every method runs under one         *)
(* asyncio.Lock, so a command is one step: it appends its event, prunes    *)
(* the projection by count and age, and offers the event to subscribers    *)
(* before the lock is released.                                            *)
(***************************************************************************)
EXTENDS ControlRequests, EventStream, FiniteSets

CONSTANTS
  RetentionCount, \* retention_count
  MaxEvents       \* bound: commands are sent while fewer events exist

ASSUME RetentionAssumption == RetentionCount \in Nat \ {0}

VARIABLES
  snapshot,       \* _incidents[i].snapshot, with the tenant
  retained,       \* sequences in _events[i]
  last,           \* history: newest sequence ever appended
  slots,          \* _idempotency: slots with their digest
  action          \* _incidents[i].pending_action

memory == <<snapshot, retained, last, slots, action>>
memVars == <<memory, stream>>

Absent == [state |-> "ABSENT", tenant |-> None, version |-> 0, cursor |-> 0]

MemInit ==
  /\ snapshot = [i \in Incidents |-> Absent]
  /\ retained = [i \in Incidents |-> {}]
  /\ last = [i \in Incidents |-> 0]
  /\ slots = {}
  /\ action = [i \in Incidents |-> None]
  /\ StreamInit(None)

\* Mutant: the next sequence is derived from the length of the list.
NextSequenceByLength(i) == Cardinality(retained[i]) + 1

\* events[-1].sequence + 1 if events else 1
NextSequence(i) ==
  IF retained[i] = {} THEN 1
  ELSE 1 + CHOOSE n \in retained[i] : \A m \in retained[i] : m <= n

\* What may be left of the events after an append: pop(0) while there are too
\* many, or while the oldest is past the retention age; the event just
\* appended is never that old.
Pruned(kept) ==
  {S \in {{n \in kept : n >= oldest} : oldest \in kept} :
     Cardinality(S) <= RetentionCount}

\* _append_locked, with the subscribers offered the event under the lock.
AppendLocked(i) ==
  LET n == NextSequence(i) IN
  /\ \E S \in Pruned(retained[i] \cup {n}) :
       retained' = [retained EXCEPT ![i] = S]
  /\ last' = [last EXCEPT ![i] = n]
  /\ Offer(i, n)

\* The key is unused; commands whose key is taken only read.
Fresh(q) == \A e \in slots : e.slot # Slot(q)
Remember(q) == slots' = slots \cup {[slot |-> Slot(q), digest |-> Digest(q)]}

Owns(q) == snapshot[q.incident].tenant = q.tenant
Current(q) == snapshot[q.incident].version = q.version

Create(i, q) ==
  /\ q.op = "create" /\ Fresh(q) /\ snapshot[i] = Absent
  /\ snapshot' = [snapshot EXCEPT ![i] =
       [state |-> "NEW", tenant |-> q.tenant, version |-> 0,
        cursor |-> NextSequence(i)]]
  /\ AppendLocked(i) /\ Remember(q)
  /\ UNCHANGED action

Cancel(q) ==
  /\ q.op = "cancel" /\ Fresh(q) /\ Owns(q) /\ Current(q)
  /\ snapshot[q.incident].state \notin Terminal
  /\ snapshot' = [snapshot EXCEPT ![q.incident] =
       [@ EXCEPT !.state = "CANCELLED", !.version = q.version + 1,
                 !.cursor = NextSequence(q.incident)]]
  /\ AppendLocked(q.incident) /\ Remember(q)
  /\ UNCHANGED action

\* The snapshot is not copied, so its event_cursor stays behind.
Feedback(q) ==
  /\ q.op = "feedback" /\ Fresh(q) /\ Owns(q) /\ Current(q)
  /\ AppendLocked(q.incident) /\ Remember(q)
  /\ UNCHANGED <<snapshot, action>>

Approval(q) ==
  /\ q.op = "approval" /\ Fresh(q) /\ Owns(q) /\ Current(q)
  /\ action[q.incident] = <<q.action, q.digest>>
  /\ action' = [action EXCEPT ![q.incident] = None]
  /\ AppendLocked(q.incident) /\ Remember(q)
  /\ UNCHANGED snapshot

\* External: a test or the action owner sets pending_action.
Propose(i, a, d) ==
  /\ snapshot[i] # Absent /\ action[i] = None
  /\ action' = [action EXCEPT ![i] = <<a, d>>]
  /\ UNCHANGED <<snapshot, retained, last, slots, stream>>

Command(q) ==
  \/ \E i \in Incidents : Create(i, q)
  \/ q.op # "create" /\ last[q.incident] < MaxEvents
       /\ (Cancel(q) \/ Feedback(q) \/ Approval(q))

OpenMemoryStream(s, i) ==
  /\ stream[s].incident \in {None, i}
  /\ snapshot[i] # Absent
  /\ \E start \in StartCursors \cup {0} : Subscribe(s, i, start)
  /\ UNCHANGED memory

ReplayEvents(s) ==
  /\ stream[s].pc = "subscribed"
  /\ Replay(s, retained[stream[s].incident],
            NextSequence(stream[s].incident) - 1)
  /\ UNCHANGED memory

\* Server-side progress of an open connection.
Serve(s) == ReplayEvents(s) \/ (StreamStep(s) /\ UNCHANGED memory)

MemNext ==
  \/ \E q \in Request : Command(q)
  \/ \E i \in Incidents, a \in ActionIds, d \in ActionDigests : Propose(i, a, d)
  \/ \E s \in Streams, i \in Incidents : OpenMemoryStream(s, i)
  \/ \E s \in Streams : Serve(s)
  \/ \E s \in Streams : Heartbeat(s) /\ UNCHANGED memory
  \/ \E s \in Streams : Disconnect(s) /\ UNCHANGED memory

MemSpec == MemInit /\ [][MemNext]_memVars

\* The event loop keeps running the generator of every open connection:
\* none of its awaits depends on another handler once an event is queued.
MemFairSpec == MemSpec /\ \A s \in Streams : WF_memVars(Serve(s))

-----------------------------------------------------------------------------

\* Pruning by count and age never rewinds or skips: what is retained is a
\* non-empty run of sequences that ends with the newest one ever appended.
RetainedIsSuffix ==
  \A i \in Incidents :
    snapshot[i] # Absent =>
      \E n \in 1..last[i] : /\ retained[i] = n..last[i]
                            /\ last[i] - n < RetentionCount

\* An open stream that was not marked slow will get every event it has not
\* delivered: each is in its replay or in its queue.
MemStreamCovers ==
  \A s \in Streams :
    stream[s].pc \in {"replaying", "live", "waiting"} /\ ~stream[s].overflow =>
      \A n \in (stream[s].delivered + 1)..last[stream[s].incident] :
        \/ n \in stream[s].replay \cup stream[s].excused
        \/ \E k \in DOMAIN stream[s].queue : stream[s].queue[k] = n

\* A connection does not stall: whatever was appended while a stream is open
\* is eventually delivered to it, unless the connection ends first.
StreamCatchesUp ==
  \A s \in Streams : \A n \in 1..MaxEvents :
    (stream[s].pc # "closed" /\ last[stream[s].incident] >= n)
      ~> (stream[s].pc = "closed" \/ stream[s].cursor >= n)

\* The reference store and its streams lose nothing but the one retained event
\* that a retention gap names as earliest_cursor, and that only for a client
\* that resumes with this cursor: sequences go on through pruning, and neither
\* retention, overflow nor reconnection leaves a client with any other hole,
\* or with a repetition, it was not told of.
ReferenceStreamSound ==
  NoGapButEarliest /\ DeliveredInOrder /\ RetainedIsSuffix /\ MemStreamCovers
=============================================================================
