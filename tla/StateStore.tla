----------------------------- MODULE StateStore -----------------------------
(***************************************************************************)
(* PostgresStateStore for one owner: callers decide a transition with the  *)
(* kernel against a state they have read, and persist it some time later   *)
(* with apply_transition, one READ COMMITTED transaction; workers write    *)
(* fenced checkpoints.  The owner services around the store are external:  *)
(* they read aggregate and lease, decide, apply, and on a lost answer      *)
(* apply the same decision again.                                          *)
(*                                                                         *)
(* A caller is a program counter over apply_transition:                    *)
(*   idle -> decided    the kernel returned a decision                     *)
(*   decided -> checked the idempotency row is absent                      *)
(*   checked -> written the upsert hit one row, which is now locked        *)
(*   written -> done    outbox and idempotency rows inserted, COMMIT       *)
(***************************************************************************)
EXTENDS TransitionKernel, FiniteSets

CONSTANTS
  Callers,        \* invocations of apply_transition in flight
  Writers,        \* invocations of write_checkpoint in flight
  LeaseState,     \* the state that a lease is granted with
  MaxVersion,     \* bound: state_version of each aggregate
  MaxCheckpoint   \* bound: state_version of each checkpoint

ASSUME BoundAssumption ==
  MaxVersion \in [Aggregates -> Nat] /\ MaxCheckpoint \in [Aggregates -> Nat]
ASSUME CallerAssumption == Nobody \notin Callers

VARIABLES
  aggregate,      \* aggregate_state; version 0 while the row is absent
  idempotency,    \* idempotency rows: key, digest and the event id stored
  outbox,         \* outbox rows of transitions: event id and decision
  lease,          \* task_owner.lease, per aggregate
  checkpoint,     \* graph_owner.checkpoint, per aggregate
  caller,         \* the callers
  writer          \* the checkpoint writers

storeTables == <<aggregate, idempotency, outbox, lease, checkpoint>>
storeVars == <<storeTables, caller, writer>>

NoDecision == [id |-> Nobody]
IdleCaller == [pc |-> "idle", decision |-> NoDecision, told |-> Nobody]
IdleWriter == [pc |-> "idle", aggregate |-> Nobody, token |-> 0, version |-> 0]

StoreInit ==
  /\ aggregate = [a \in Aggregates |-> [state |-> InitialState, version |-> 0]]
  /\ idempotency = {}
  /\ outbox = {}
  /\ lease = [a \in Aggregates |-> [token |-> 0, live |-> FALSE]]
  /\ checkpoint = [a \in Aggregates |-> [token |-> 0, version |-> 0]]
  /\ caller = [c \in Callers |-> IdleCaller]
  /\ writer = [w \in Writers |-> IdleWriter]

StepsTo(c, label) ==
  caller' = [caller EXCEPT ![c] = [@ EXCEPT !.pc = label]]

\* Raised: the transaction rolls back.  Answered: told is the event id.
Ends(c, event) ==
  caller' = [caller EXCEPT ![c] = [@ EXCEPT !.pc = "done", !.told = event]]

-----------------------------------------------------------------------------
(***************************************************************************)
(* Callers.                                                                *)
(***************************************************************************)

\* What a caller reads of aggregate a before it decides.
Read(a) == [state |-> aggregate[a].state, version |-> aggregate[a].version,
            token |-> lease[a].token, digest |-> Nobody]

\* Read, build the request and decide.  A request that decide rejects changes
\* nothing, so actor, command and expected version are the right ones here;
\* the token may be that of any earlier attempt.
Decide(c, a, t) ==
  /\ caller[c].pc = "idle" /\ aggregate[a].version < MaxVersion[a]
  /\ \E key \in Keys \cup {Nobody}, token \in 0..lease[a].token :
       LET q == [aggregate |-> a, actor |-> t.actor, command |-> t.command,
                 expected |-> aggregate[a].version, token |-> token,
                 digest |-> Nobody, key |-> key, facts |-> TRUE]
       IN /\ token # 0 => VersionCheck[t.command] = "fencing_token"
          /\ Legal(q, t, Read(a))
          /\ caller' = [caller EXCEPT ![c] =
               [IdleCaller EXCEPT !.pc = "decided",
                                  !.decision = Decision(q, t, Read(a))]]
  /\ UNCHANGED <<storeTables, writer>>

\* A caller whose answer was lost applies its decision again.
Resubmit(c, o) ==
  /\ caller[c].pc = "idle" /\ caller[o].pc = "done" /\ caller[o].told = Nobody
  /\ caller' = [caller EXCEPT
       ![c] = [IdleCaller EXCEPT !.pc = "decided", !.decision = caller[o].decision]]
  /\ UNCHANGED <<storeTables, writer>>

\* The caller has its answer and serves another command.
Forget(c) ==
  /\ caller[c].pc = "done"
  /\ caller' = [caller EXCEPT ![c] = IdleCaller]
  /\ UNCHANGED <<storeTables, writer>>

RowsOf(d) == {e \in idempotency : e.key = d.key}

\* SELECT ... FROM idempotency FOR UPDATE: the stored response, or
\* DuplicateCommand for another digest.  Without a key the call is refused.
CheckKey(c) ==
  LET d == caller[c].decision IN
  /\ caller[c].pc = "decided" /\ d.key # <<"none">>
  /\ \/ RowsOf(d) = {} /\ StepsTo(c, "checked")
     \/ \E e \in RowsOf(d) :
          Ends(c, IF e.digest = d.digest THEN e.event ELSE Nobody)
  /\ UNCHANGED <<storeTables, writer>>

\* Another open transaction has written the row of aggregate a.
RowWritten(c, a) ==
  \E o \in Callers \ {c} :
    caller[o].pc = "written" /\ caller[o].decision.aggregate = a

\* Mutant: the upsert has no WHERE clause.
UpsertBlind(c) ==
  LET d == caller[c].decision IN
  /\ caller[c].pc = "checked" /\ ~RowWritten(c, d.aggregate)
  /\ StepsTo(c, "written")
  /\ UNCHANGED <<storeTables, writer>>

\* INSERT ... ON CONFLICT DO UPDATE WHERE state_version = previous: waits for
\* the row; VersionConflict when it has moved on.  An absent row is inserted
\* whatever version the decision names.
Upsert(c) ==
  LET d == caller[c].decision IN
  /\ caller[c].pc = "checked" /\ ~RowWritten(c, d.aggregate)
  /\ \/ /\ aggregate[d.aggregate].version \in {0, d.version}
        /\ StepsTo(c, "written")
     \/ /\ aggregate[d.aggregate].version \notin {0, d.version}
        /\ Ends(c, Nobody)
  /\ UNCHANGED <<storeTables, writer>>

\* A checkpoint transaction holds the lease row of aggregate a.
LeaseLocked(a) == \E w \in Writers : writer[w].pc = "fenced" /\ writer[w].aggregate = a

\* External: the transition into LeaseState grants the next fencing token in
\* the same transaction.
Granted(d) ==
  IF d.to = LeaseState
  THEN [lease EXCEPT ![d.aggregate] = [token |-> @.token + 1, live |-> TRUE]]
  ELSE lease

\* The transaction's last inserts and COMMIT; the caller may be gone by then.
\* The caller supplies a fresh event id; the outbox row keeps, as history,
\* the lease token in force.
Persist(c) ==
  LET d == caller[c].decision
      event == Cardinality(outbox) + 1
  IN
  /\ d.to = LeaseState => ~LeaseLocked(d.aggregate)
  /\ aggregate' = [aggregate EXCEPT ![d.aggregate] =
                     [state |-> d.to, version |-> d.next]]
  /\ outbox' = outbox \cup
       {[event |-> event, decision |-> d, inForce |-> lease[d.aggregate].token]}
  /\ idempotency' = idempotency \cup
       {[key |-> d.key, digest |-> d.digest, event |-> event]}
  /\ lease' = Granted(d)
  /\ \E told \in {event, Nobody} : Ends(c, told)
  /\ UNCHANGED <<checkpoint, writer>>

\* Mutant: idempotency has no primary key.
CommitUnchecked(c) == caller[c].pc = "written" /\ Persist(c)

\* INSERT INTO outbox and idempotency, COMMIT.  The second insert waits for an
\* open transaction with the same key and raises when that one committed, so
\* it is enough to look at the key when the transaction ends.
Commit(c) ==
  /\ caller[c].pc = "written"
  /\ \/ RowsOf(caller[c].decision) = {} /\ Persist(c)
     \/ /\ RowsOf(caller[c].decision) # {} /\ Ends(c, Nobody)
        /\ UNCHANGED <<storeTables, writer>>

\* A statement fails or the process dies: the transaction rolls back.
Abort(c) ==
  /\ caller[c].pc \in {"checked", "written"}
  /\ Ends(c, Nobody)
  /\ UNCHANGED <<storeTables, writer>>

-----------------------------------------------------------------------------
(***************************************************************************)
(* Checkpoints.                                                            *)
(***************************************************************************)

\* The clock passes expires_at, which only write_checkpoint looks at: of leases
\* nobody writes a checkpoint under, the clock is not followed.
LeaseEnds(a) ==
  /\ lease[a].live /\ MaxCheckpoint[a] > 0
  /\ lease' = [lease EXCEPT ![a].live = FALSE]
  /\ UNCHANGED <<aggregate, idempotency, outbox, checkpoint, caller, writer>>

\* Mutant: the fencing token is not part of the lease query.
FenceAny(w, a, token, version) ==
  /\ writer[w].pc = "idle" /\ ~LeaseLocked(a)
  /\ lease[a].live
  /\ writer' = [writer EXCEPT ![w] =
       [pc |-> "fenced", aggregate |-> a, token |-> token, version |-> version]]
  /\ UNCHANGED <<storeTables, caller>>

\* SELECT ... FROM task_owner.lease FOR UPDATE; StaleFence changes nothing.
Fence(w, a, token, version) ==
  /\ writer[w].pc = "idle" /\ ~LeaseLocked(a)
  /\ lease[a].token = token /\ lease[a].live
  /\ writer' = [writer EXCEPT ![w] =
       [pc |-> "fenced", aggregate |-> a, token |-> token, version |-> version]]
  /\ UNCHANGED <<storeTables, caller>>

\* Upsert the checkpoint WHERE its version advances, insert its outbox event
\* and commit; VersionConflict and every other failure roll back.
WriteCheckpoint(w) ==
  LET x == writer[w] IN
  /\ x.pc = "fenced"
  /\ \/ /\ checkpoint[x.aggregate].version < x.version
        /\ checkpoint' = [checkpoint EXCEPT ![x.aggregate] =
                            [token |-> x.token, version |-> x.version]]
     \/ UNCHANGED checkpoint
  /\ writer' = [writer EXCEPT ![w] = IdleWriter]
  /\ UNCHANGED <<aggregate, idempotency, outbox, lease, caller>>

StoreNext ==
  \/ \E c \in Callers, a \in Aggregates, t \in Transitions : Decide(c, a, t)
  \/ \E c, o \in Callers : Resubmit(c, o)
  \/ \E c \in Callers :
       Forget(c) \/ CheckKey(c) \/ Upsert(c) \/ Commit(c) \/ Abort(c)
  \/ \E a \in Aggregates : LeaseEnds(a)
  \/ \E w \in Writers, a \in Aggregates :
       \E token \in 1..lease[a].token, v \in 1..MaxCheckpoint[a] :
         Fence(w, a, token, v)
  \/ \E w \in Writers : WriteCheckpoint(w)

StoreSpec == StoreInit /\ [][StoreNext]_storeVars

-----------------------------------------------------------------------------

History(a) == {e \in outbox : e.decision.aggregate = a}

\* The persisted history is a path of the contract: an aggregate has exactly
\* one event per version, each leaves the state the one before reached, and
\* the last one reached the current state, although every decision was taken
\* against a state read earlier.
HistoryIsPath ==
  \A a \in Aggregates :
    /\ {e.decision.next : e \in History(a)} = 1..aggregate[a].version
    /\ \A e, f \in History(a) :
         /\ e.decision.next = f.decision.next => e = f
         /\ e.decision.next = f.decision.version => e.decision.to = f.decision.from
    /\ \A e \in History(a) :
         /\ \E t \in Transitions : t.id = e.decision.id
              /\ t.from = e.decision.from /\ t.to = e.decision.to
         /\ e.decision.version = 0 => e.decision.from = InitialState
         /\ e.decision.next = aggregate[a].version =>
              e.decision.to = aggregate[a].state

\* A command with one idempotency key is applied at most once, and whoever
\* applied or repeated it was told the event that its transaction produced.
KeyAppliedOnce ==
  /\ \A e, f \in outbox : e.decision.key = f.decision.key => e = f
  /\ \A c \in Callers : caller[c].told # Nobody =>
       \E e \in outbox : /\ e.event = caller[c].told
                         /\ e.decision.digest = caller[c].decision.digest

\* "Only the current fencing token can checkpoint complete fail pause": a
\* fenced transition commits only under the token it was decided with, though
\* apply_transition does not look at the lease: a new lease needs a new
\* version.
FencedTransition ==
  \A e \in outbox :
    VersionCheck[e.decision.command] = "fencing_token" =>
      e.decision.token = e.inForce

\* A checkpoint is never replaced by an older one, nor by one of an earlier
\* attempt that has lost its lease.
CheckpointAdvances ==
  [][\A a \in Aggregates : checkpoint'[a] # checkpoint[a] =>
       /\ checkpoint'[a].version > checkpoint[a].version
       /\ checkpoint'[a].token >= checkpoint[a].token]_storeVars

=============================================================================
