-------------------------- MODULE StateStoreProofs --------------------------
(***************************************************************************)
(* Proofs about StateStore for every contract table, every number of       *)
(* aggregates, keys, callers and checkpoint writers.                       *)
(***************************************************************************)
EXTENDS StateStore, TLAPS

Fenced(d) == VersionCheck[d.command] = "fencing_token"

\* A decision of the kernel against a state that aggregate d.aggregate has or
\* had: it follows a row of the contract, its version is not ahead of the
\* table, and while the table has not moved on, neither state nor lease have.
Sound(d) ==
  /\ d.aggregate \in Aggregates /\ d.version \in Nat /\ d.next = d.version + 1
  /\ \E t \in Transitions : t.id = d.id /\ t.from = d.from /\ t.to = d.to
  /\ d.version = 0 => d.from = InitialState
  /\ d.version <= aggregate[d.aggregate].version
  /\ d.version = aggregate[d.aggregate].version =>
       /\ d.from = aggregate[d.aggregate].state
       /\ Fenced(d) => d.token = lease[d.aggregate].token

\* Every table and process holds values of its type.
StoreTypes ==
  /\ aggregate \in [Aggregates -> [state : MachineStates, version : Nat]]
  /\ lease \in [Aggregates -> [token : Nat, live : BOOLEAN]]
  /\ checkpoint \in [Aggregates -> [token : Nat, version : Nat]]
  /\ writer \in [Writers -> [pc : {"idle", "fenced"}, token : Nat, version : Nat,
                             aggregate : Aggregates \cup {Nobody}]]
  /\ DOMAIN caller = Callers
  /\ \A c \in Callers : DOMAIN caller[c] = {"pc", "decision", "told"}

\* A caller that is not idle holds a sound decision.
Decided == \A c \in Callers : caller[c].pc # "idle" => Sound(caller[c].decision)

\* The upsert hit the version the decision names, and its row lock keeps the
\* row and every other upsert of it away until the transaction ends.
RowLock ==
  \A c \in Callers : caller[c].pc = "written" =>
    LET d == caller[c].decision IN
    /\ d.version = aggregate[d.aggregate].version
    /\ \A o \in Callers \ {c} :
         caller[o].pc = "written" => caller[o].decision.aggregate # d.aggregate

\* Events and idempotency rows are written together.
KeysAndEvents ==
  /\ \A e \in outbox : \E x \in idempotency : x.key = e.decision.key
  /\ \A x \in idempotency : \E e \in outbox :
       e.event = x.event /\ e.decision.digest = x.digest
  /\ \A e \in outbox : /\ e.decision.aggregate \in Aggregates
                       /\ e.decision.version \in Nat
                       /\ e.decision.next = e.decision.version + 1
  /\ \A a \in Aggregates :
       aggregate[a].version = 0 => aggregate[a].state = InitialState

\* A writer inside its transaction holds the lease it named, and a checkpoint
\* carries no token that was never granted.
LeaseLock ==
  /\ \A w \in Writers : writer[w].pc = "fenced" =>
       /\ writer[w].aggregate \in Aggregates
       /\ writer[w].token = lease[writer[w].aggregate].token
  /\ \A a \in Aggregates : checkpoint[a].token <= lease[a].token

StoreInv ==
  /\ StoreTypes /\ Decided /\ RowLock /\ KeysAndEvents /\ LeaseLock
  /\ HistoryIsPath /\ KeyAppliedOnce /\ FencedTransition

\* The empty tables satisfy the invariant.
LEMMA StoreInitInv == StoreInit => StoreInv
  <1> SUFFICES ASSUME StoreInit PROVE StoreInv
    OBVIOUS
  <1> USE DEF StoreInit
  <1>1. StoreTypes
    BY ContractAssumption DEF StoreTypes, IdleCaller, IdleWriter
  <1>2. Decided /\ RowLock /\ KeyAppliedOnce
    BY DEF Decided, RowLock, KeyAppliedOnce, IdleCaller
  <1>3. KeysAndEvents /\ LeaseLock /\ FencedTransition
    BY DEF KeysAndEvents, LeaseLock, FencedTransition, IdleWriter
  <1>4. HistoryIsPath
    BY DEF HistoryIsPath, History
  <1>5. QED
    BY <1>1, <1>2, <1>3, <1>4 DEF StoreInv

\* A step of caller c that leaves the tables alone keeps the invariant when
\* the new record of c fits.
LEMMA CallerStep ==
  ASSUME StoreInv, NEW c \in Callers, NEW k,
         UNCHANGED <<storeTables, writer>>,
         caller' = [caller EXCEPT ![c] = k],
         DOMAIN k = {"pc", "decision", "told"},
         k.pc # "idle" => Sound(k.decision),
         k.pc = "written" =>
           /\ k.decision.version = aggregate[k.decision.aggregate].version
           /\ \A o \in Callers \ {c} : caller[o].pc = "written" =>
                caller[o].decision.aggregate # k.decision.aggregate,
         k.told # Nobody =>
           \E e \in outbox : /\ e.event = k.told
                             /\ e.decision.digest = k.decision.digest
  PROVE  StoreInv'
  <1> USE DEF StoreInv
  <1>1. /\ UNCHANGED <<aggregate, idempotency, outbox, lease, checkpoint, writer>>
        /\ caller'[c] = k
        /\ \A o \in Callers : o # c => caller'[o] = caller[o]
    BY DEF storeTables, StoreTypes
  <1>2. StoreTypes'
    BY <1>1 DEF StoreTypes
  <1>3. Decided'
    <2> SUFFICES ASSUME NEW o \in Callers, caller'[o].pc # "idle"
                 PROVE  Sound(caller[o].decision)'
      BY DEF Decided
    <2>1. PICK d : d = caller'[o].decision
      OBVIOUS
    <2>2. Sound(d)
      BY <1>1, <2>1 DEF Decided
    <2>3. QED
      BY <1>1, <2>1, <2>2 DEF Sound, Fenced
  <1>4. RowLock'
    BY <1>1 DEF RowLock
  <1>5. KeyAppliedOnce'
    BY <1>1 DEF KeyAppliedOnce
  <1>6. KeysAndEvents' /\ LeaseLock' /\ FencedTransition'
    BY <1>1 DEF KeysAndEvents, LeaseLock, FencedTransition
  <1>7. HistoryIsPath'
    BY <1>1 DEF HistoryIsPath, History
  <1>8. QED
    BY <1>2, <1>3, <1>4, <1>5, <1>6, <1>7

\* A caller that ends or moves on with the decision it has keeps the invariant.
LEMMA MoveInv ==
  ASSUME StoreInv, NEW c \in Callers, caller[c].pc # "idle",
         UNCHANGED <<storeTables, writer>>,
         NEW label, StepsTo(c, label),
         label = "written" =>
           /\ caller[c].decision.version =
                aggregate[caller[c].decision.aggregate].version
           /\ \A o \in Callers \ {c} : caller[o].pc = "written" =>
                caller[o].decision.aggregate # caller[c].decision.aggregate
  PROVE  StoreInv'
  <1>1. PICK k : k = [caller[c] EXCEPT !.pc = label]
    OBVIOUS
  <1>2. DOMAIN caller[c] = {"pc", "decision", "told"}
    BY DEF StoreInv, StoreTypes
  <1>3. /\ k.pc = label /\ k.told = caller[c].told
        /\ k.decision = caller[c].decision /\ DOMAIN k = {"pc", "decision", "told"}
        /\ caller' = [caller EXCEPT ![c] = k]
    BY <1>1, <1>2 DEF StepsTo
  <1>4. Sound(k.decision)
    BY <1>3 DEF StoreInv, Decided
  <1>5. k.told # Nobody =>
          \E e \in outbox : /\ e.event = k.told
                            /\ e.decision.digest = k.decision.digest
    BY <1>3 DEF StoreInv, KeyAppliedOnce
  <1>6. QED
    BY <1>3, <1>4, <1>5, CallerStep

\* A caller that is told nothing, or the event of its own digest, may end.
LEMMA EndInv ==
  ASSUME StoreInv, NEW c \in Callers, caller[c].pc # "idle",
         UNCHANGED <<storeTables, writer>>,
         NEW told, Ends(c, told),
         told # Nobody =>
           \E e \in outbox : /\ e.event = told
                             /\ e.decision.digest = caller[c].decision.digest
  PROVE  StoreInv'
  <1>1. PICK k : k = [caller[c] EXCEPT !.pc = "done", !.told = told]
    OBVIOUS
  <1>2. DOMAIN caller[c] = {"pc", "decision", "told"}
    BY DEF StoreInv, StoreTypes
  <1>3. /\ k.pc = "done" /\ k.told = told
        /\ k.decision = caller[c].decision /\ DOMAIN k = {"pc", "decision", "told"}
        /\ caller' = [caller EXCEPT ![c] = k]
    BY <1>1, <1>2 DEF Ends
  <1>4. Sound(k.decision)
    BY <1>3 DEF StoreInv, Decided
  <1>5. QED
    BY <1>3, <1>4, CallerStep

\* What decide returns is sound at the moment it returns.
LEMMA DecideInv ==
  ASSUME StoreInv, NEW c \in Callers, NEW a \in Aggregates, NEW t \in Transitions,
         Decide(c, a, t)
  PROVE  StoreInv'
  <1>1. PICK key, token :
          LET q == [aggregate |-> a, actor |-> t.actor, command |-> t.command,
                    expected |-> aggregate[a].version, token |-> token,
                    digest |-> Nobody, key |-> key, facts |-> TRUE]
          IN /\ Legal(q, t, Read(a))
             /\ caller' = [caller EXCEPT ![c] =
                  [IdleCaller EXCEPT !.pc = "decided",
                                     !.decision = Decision(q, t, Read(a))]]
    BY DEF Decide
  <1>2. PICK q :
          q = [aggregate |-> a, actor |-> t.actor, command |-> t.command,
               expected |-> aggregate[a].version, token |-> token,
               digest |-> Nobody, key |-> key, facts |-> TRUE]
    OBVIOUS
  <1>3. PICK d : d = Decision(q, t, Read(a))
    OBVIOUS
  <1>4. PICK k : k = [IdleCaller EXCEPT !.pc = "decided", !.decision = d]
    OBVIOUS
  <1>5. /\ Legal(q, t, Read(a)) /\ caller' = [caller EXCEPT ![c] = k]
        /\ k.pc = "decided" /\ k.told = Nobody /\ k.decision = d
        /\ DOMAIN k = {"pc", "decision", "told"}
    BY <1>1, <1>2, <1>3, <1>4 DEF IdleCaller
  <1>6. /\ d.aggregate = a /\ d.id = t.id /\ d.from = aggregate[a].state
        /\ d.to = t.to /\ d.version = aggregate[a].version
        /\ d.next = aggregate[a].version + 1
        /\ d.command = t.command /\ d.token = token
    BY <1>2, <1>3 DEF Decision, Read
  <1>7. /\ aggregate[a].state = t.from
        /\ Fenced(d) => token = lease[a].token
    BY <1>2, <1>5, <1>6 DEF Legal, VersionsMatch, Read, Fenced
  <1>8. Sound(d)
    BY <1>6, <1>7 DEF Sound, StoreInv, StoreTypes, KeysAndEvents
  <1>9. QED
    BY <1>4, <1>5, <1>8, CallerStep DEF Decide

\* A repeated decision was sound when it was decided and still is.
LEMMA ResubmitInv ==
  ASSUME StoreInv, NEW c \in Callers, NEW o \in Callers, Resubmit(c, o)
  PROVE  StoreInv'
  <1>1. PICK k : k = [IdleCaller EXCEPT !.pc = "decided",
                                       !.decision = caller[o].decision]
    OBVIOUS
  <1>2. /\ caller' = [caller EXCEPT ![c] = k]
        /\ k.pc = "decided" /\ k.told = Nobody /\ k.decision = caller[o].decision
        /\ caller[o].pc = "done" /\ DOMAIN k = {"pc", "decision", "told"}
    BY <1>1 DEF Resubmit, IdleCaller
  <1>3. Sound(k.decision)
    BY <1>2 DEF StoreInv, Decided
  <1>4. QED
    BY <1>1, <1>2, <1>3, CallerStep DEF Resubmit

\* A caller that forgets its command is idle.
LEMMA ForgetInv ==
  ASSUME StoreInv, NEW c \in Callers, Forget(c)
  PROVE  StoreInv'
  <1>1. /\ IdleCaller.pc = "idle" /\ IdleCaller.told = Nobody
        /\ DOMAIN IdleCaller = {"pc", "decision", "told"}
    BY DEF IdleCaller
  <1>2. QED
    BY <1>1, CallerStep DEF Forget

\* The idempotency lookup answers with a stored event of the same digest only.
LEMMA CheckKeyInv ==
  ASSUME StoreInv, NEW c \in Callers, CheckKey(c)
  PROVE  StoreInv'
  <1>1. CASE StepsTo(c, "checked")
    BY <1>1, MoveInv DEF CheckKey
  <1>2. ASSUME NEW e \in RowsOf(caller[c].decision),
               Ends(c, IF e.digest = caller[c].decision.digest
                         THEN e.event ELSE Nobody)
        PROVE  StoreInv'
    <2>1. PICK told : told = IF e.digest = caller[c].decision.digest
                               THEN e.event ELSE Nobody
      OBVIOUS
    <2>2. told # Nobody => \E x \in outbox :
            x.event = told /\ x.decision.digest = caller[c].decision.digest
      BY <2>1 DEF RowsOf, StoreInv, KeysAndEvents
    <2>3. QED
      BY <1>2, <2>1, <2>2, EndInv DEF CheckKey
  <1>3. QED
    BY <1>1, <1>2 DEF CheckKey

\* The upsert that hits a row locks it at the version of its decision: an
\* absent row has version 0, and no sound decision is ahead of it.
LEMMA UpsertInv ==
  ASSUME StoreInv, NEW c \in Callers, Upsert(c)
  PROVE  StoreInv'
  <1> DEFINE d == caller[c].decision
  <1>1. /\ caller[c].pc = "checked" /\ ~RowWritten(c, d.aggregate)
        /\ UNCHANGED <<storeTables, writer>>
    BY DEF Upsert
  <1>2. CASE Ends(c, Nobody)
    BY <1>1, <1>2, EndInv
  <1>3. CASE aggregate[d.aggregate].version \in {0, d.version} /\ StepsTo(c, "written")
    <2>1. Sound(d)
      BY <1>1 DEF StoreInv, Decided
    <2>2. d.version = aggregate[d.aggregate].version
      BY <1>3, <2>1 DEF Sound, StoreInv, StoreTypes
    <2>3. \A o \in Callers \ {c} : caller[o].pc = "written" =>
            caller[o].decision.aggregate # d.aggregate
      BY <1>1 DEF RowWritten
    <2>4. QED
      BY <1>1, <1>3, <2>2, <2>3, MoveInv
  <1>4. QED
    BY <1>2, <1>3 DEF Upsert

-----------------------------------------------------------------------------
(***************************************************************************)
(* COMMIT of a transition.                                                 *)
(***************************************************************************)

\* Persisting moves one aggregate one version on, and the lease of no other.
LEMMA PersistInv ==
  ASSUME StoreInv, NEW c \in Callers, caller[c].pc = "written",
         RowsOf(caller[c].decision) = {}, Persist(c)
  PROVE  StoreInv'
  <1> USE DEF StoreInv
  <1>1. PICK d : d = caller[c].decision
    OBVIOUS
  <1>2. PICK event : event = Cardinality(outbox) + 1
    OBVIOUS
  <1>3. PICK a \in Aggregates : a = d.aggregate
    BY <1>1 DEF Decided, Sound
  <1>4. PICK new : new = [event |-> event, decision |-> d, inForce |-> lease[a].token]
    OBVIOUS
  <1>5. new.event = event /\ new.decision = d /\ new.inForce = lease[a].token
    BY <1>4
  <1>6. /\ Sound(d) /\ d.version = aggregate[a].version
        /\ aggregate[a].version \in Nat /\ lease[a].token \in Nat
    BY <1>1, <1>3 DEF Decided, RowLock, StoreTypes
  <1>7. /\ d.next = aggregate[a].version + 1 /\ d.from = aggregate[a].state
        /\ d.version = 0 => d.from = InitialState
        /\ Fenced(d) => d.token = lease[a].token
    BY <1>3, <1>6 DEF Sound
  <1>8. PICK t \in Transitions : t.id = d.id /\ t.from = d.from /\ t.to = d.to
    BY <1>6 DEF Sound
  <1>9. /\ outbox' = outbox \cup {new}
        /\ \E x : /\ idempotency' = idempotency \cup {x}
                  /\ x.key = d.key /\ x.digest = d.digest /\ x.event = event
        /\ UNCHANGED <<checkpoint, writer>>
    <2>1. PICK x : x = [key |-> d.key, digest |-> d.digest, event |-> event]
      OBVIOUS
    <2>2. x.key = d.key /\ x.digest = d.digest /\ x.event = event
      BY <2>1
    <2>3. outbox' = outbox \cup {new} /\ idempotency' = idempotency \cup {x}
      BY <1>1, <1>2, <1>3, <1>4, <2>1 DEF Persist
    <2>4. QED
      BY <2>2, <2>3 DEF Persist
  <1>10. /\ aggregate'[a].state = d.to /\ aggregate'[a].version = d.next
         /\ \A b \in Aggregates : b # a => aggregate'[b] = aggregate[b]
         /\ aggregate' \in [Aggregates -> [state : MachineStates, version : Nat]]
    <2>1. aggregate' = [aggregate EXCEPT ![a] = [state |-> d.to, version |-> d.next]]
      BY <1>1, <1>3 DEF Persist
    <2>2. d.to \in MachineStates /\ d.next \in Nat
      BY <1>6, <1>7, <1>8 DEF MachineStates
    <2>3. QED
      BY <2>1, <2>2 DEF StoreTypes
  <1>11. /\ \A b \in Aggregates : b # a => lease'[b] = lease[b]
         /\ lease'[a].token >= lease[a].token
         /\ LeaseLocked(a) => lease'[a] = lease[a]
         /\ lease' \in [Aggregates -> [token : Nat, live : BOOLEAN]]
    <2>1. /\ lease' = Granted(d)
          /\ d.to = LeaseState => ~LeaseLocked(a)
      BY <1>1, <1>3 DEF Persist
    <2>2. CASE d.to = LeaseState
      <3>1. lease' = [lease EXCEPT ![a] = [token |-> lease[a].token + 1, live |-> TRUE]]
        BY <1>3, <2>1, <2>2 DEF Granted
      <3>2. QED
        BY <1>6, <2>1, <2>2, <3>1 DEF StoreTypes
    <2>3. CASE d.to # LeaseState
      BY <1>6, <2>1, <2>3 DEF Granted, StoreTypes
    <2>4. QED
      BY <2>2, <2>3
  <1>12. /\ DOMAIN caller' = Callers
         /\ \A o \in Callers : o # c => caller'[o] = caller[o]
         /\ DOMAIN caller'[c] = {"pc", "decision", "told"}
         /\ caller'[c].pc = "done" /\ caller'[c].told \in {event, Nobody}
         /\ caller'[c].decision = d
    <2>1. PICK told \in {event, Nobody} : Ends(c, told)
      BY <1>2 DEF Persist
    <2>2. PICK k : k = [caller[c] EXCEPT !.pc = "done", !.told = told]
      OBVIOUS
    <2>3. DOMAIN caller = Callers /\ DOMAIN caller[c] = {"pc", "decision", "told"}
      BY DEF StoreTypes
    <2>4. /\ k.pc = "done" /\ k.told = told /\ k.decision = d
          /\ DOMAIN k = {"pc", "decision", "told"}
      BY <1>1, <2>2, <2>3
    <2>5. caller' = [caller EXCEPT ![c] = k]
      BY <2>1, <2>2 DEF Ends
    <2>6. QED
      BY <2>3, <2>4, <2>5
  <1>13. StoreTypes'
    BY <1>9, <1>10, <1>11, <1>12 DEF StoreTypes
  <1>14. Decided'
    <2> SUFFICES ASSUME NEW o \in Callers, caller'[o].pc # "idle"
                 PROVE  Sound(caller[o].decision)'
      BY DEF Decided
    <2>1. PICK x : x = caller'[o].decision
      OBVIOUS
    <2>2. Sound(x)
      BY <1>6, <1>12, <2>1 DEF Decided
    <2>3. CASE x.aggregate # a
      BY <1>10, <1>11, <2>1, <2>2, <2>3 DEF Sound, Fenced
    <2>4. CASE x.aggregate = a
      <3>1. x.version < aggregate'[a].version
        BY <1>6, <1>7, <1>10, <2>2, <2>4 DEF Sound
      <3>2. QED
        BY <1>6, <1>7, <1>10, <2>1, <2>2, <2>4, <3>1 DEF Sound
    <2>5. QED
      BY <2>3, <2>4
  <1>15. RowLock'
    <2> SUFFICES ASSUME NEW o \in Callers, caller'[o].pc = "written"
                 PROVE  /\ caller'[o].decision.version =
                             aggregate'[caller'[o].decision.aggregate].version
                        /\ \A p \in Callers \ {o} : caller'[p].pc = "written" =>
                             caller'[p].decision.aggregate
                               # caller'[o].decision.aggregate
      BY DEF RowLock
    <2>1. o # c /\ caller[o].pc = "written" /\ caller'[o] = caller[o]
      BY <1>12
    <2>2. /\ caller[o].decision.aggregate # a
          /\ caller[o].decision.aggregate \in Aggregates
      BY <1>1, <1>3, <2>1 DEF RowLock, Decided, Sound
    <2>3. QED
      BY <1>10, <1>12, <2>1, <2>2 DEF RowLock
  <1>16. KeysAndEvents'
    <2>1. PICK x : /\ idempotency' = idempotency \cup {x}
                   /\ x.key = d.key /\ x.digest = d.digest /\ x.event = event
      BY <1>9
    <2>2. \A e \in outbox' : \E y \in idempotency' : y.key = e.decision.key
      BY <1>5, <1>9, <2>1 DEF KeysAndEvents
    <2>3. \A y \in idempotency' : \E e \in outbox' :
            e.event = y.event /\ e.decision.digest = y.digest
      BY <1>5, <1>9, <2>1 DEF KeysAndEvents
    <2>4. \A e \in outbox' : /\ e.decision.aggregate \in Aggregates
                             /\ e.decision.version \in Nat
                             /\ e.decision.next = e.decision.version + 1
      BY <1>3, <1>5, <1>6, <1>7, <1>9 DEF KeysAndEvents
    <2>5. \A b \in Aggregates :
            aggregate'[b].version = 0 => aggregate'[b].state = InitialState
      BY <1>6, <1>7, <1>10 DEF KeysAndEvents
    <2>6. QED
      BY <2>2, <2>3, <2>4, <2>5 DEF KeysAndEvents
  <1>17. LeaseLock'
    <2>1. \A w \in Writers : writer[w].pc = "fenced" =>
            lease'[writer[w].aggregate] = lease[writer[w].aggregate]
      BY <1>11 DEF LeaseLock, LeaseLocked
    <2>2. QED
      BY <1>9, <1>11, <2>1 DEF LeaseLock, StoreTypes
  <1>18. KeyAppliedOnce'
    <2>1. \A e \in outbox : e.decision.key # d.key
      BY <1>1 DEF KeysAndEvents, RowsOf
    <2>2. \A e, f \in outbox' : e.decision.key = f.decision.key => e = f
      BY <1>5, <1>9, <2>1 DEF KeyAppliedOnce
    <2>3. \A o \in Callers : caller'[o].told # Nobody =>
            \E e \in outbox' : /\ e.event = caller'[o].told
                               /\ e.decision.digest = caller'[o].decision.digest
      BY <1>5, <1>9, <1>12 DEF KeyAppliedOnce
    <2>4. QED
      BY <2>2, <2>3 DEF KeyAppliedOnce
  <1>19. FencedTransition'
    BY <1>5, <1>7, <1>9 DEF FencedTransition, Fenced
  <1>20. HistoryIsPath'
    <2> SUFFICES ASSUME NEW b \in Aggregates
                 PROVE  /\ {e.decision.next : e \in History(b)'} = 1..aggregate'[b].version
                        /\ \A e, f \in History(b)' :
                             /\ e.decision.next = f.decision.next => e = f
                             /\ e.decision.next = f.decision.version =>
                                  e.decision.to = f.decision.from
                        /\ \A e \in History(b)' :
                             /\ \E u \in Transitions : u.id = e.decision.id
                                  /\ u.from = e.decision.from /\ u.to = e.decision.to
                             /\ e.decision.version = 0 => e.decision.from = InitialState
                             /\ e.decision.next = aggregate'[b].version =>
                                  e.decision.to = aggregate'[b].state
      BY DEF HistoryIsPath
    <2> DEFINE H == History(b)
               v == aggregate[b].version
    <2>1. /\ {e.decision.next : e \in H} = 1..v
          /\ \A e, f \in H :
               /\ e.decision.next = f.decision.next => e = f
               /\ e.decision.next = f.decision.version => e.decision.to = f.decision.from
          /\ \A e \in H :
               /\ \E u \in Transitions : u.id = e.decision.id
                    /\ u.from = e.decision.from /\ u.to = e.decision.to
               /\ e.decision.version = 0 => e.decision.from = InitialState
               /\ e.decision.next = v => e.decision.to = aggregate[b].state
      BY DEF HistoryIsPath
    <2>2. v \in Nat
      BY DEF StoreTypes
    <2>3. CASE b # a
      <3>1. History(b)' = H
        BY <1>3, <1>5, <1>9, <2>3 DEF History
      <3>2. aggregate'[b] = aggregate[b]
        BY <1>10, <2>3
      <3> HIDE DEF H
      <3>3. QED
        BY <2>1, <3>1, <3>2
    <2>4. CASE b = a
      <3>1. History(b)' = H \cup {new}
        BY <1>3, <1>5, <1>9, <2>4 DEF History
      <3>2. /\ new.decision = d /\ d.next = v + 1 /\ d.version = v
            /\ d.from = aggregate[b].state
            /\ aggregate'[b].version = v + 1 /\ aggregate'[b].state = d.to
        BY <1>5, <1>6, <1>7, <1>10, <2>4
      <3>3. \A e \in H : /\ e.decision.version \in Nat
                         /\ e.decision.next = e.decision.version + 1
        BY DEF History, KeysAndEvents
      <3> HIDE DEF H, v
      <3>4. \A e \in H : e.decision.next \in 1..v
        BY <2>1
      <3>5. {e.decision.next : e \in H \cup {new}} = 1..(v + 1)
        BY <2>1, <2>2, <3>2
      <3>6. \A e, f \in H \cup {new} :
              /\ e.decision.next = f.decision.next => e = f
              /\ e.decision.next = f.decision.version => e.decision.to = f.decision.from
        BY <2>1, <2>2, <3>2, <3>3, <3>4
      <3>7. \A e \in H \cup {new} :
              /\ \E u \in Transitions : u.id = e.decision.id
                   /\ u.from = e.decision.from /\ u.to = e.decision.to
              /\ e.decision.version = 0 => e.decision.from = InitialState
              /\ e.decision.next = v + 1 => e.decision.to = d.to
        BY <1>7, <1>8, <2>1, <2>2, <3>2, <3>4
      <3>8. QED
        BY <3>1, <3>2, <3>5, <3>6, <3>7
    <2>5. QED
      BY <2>3, <2>4
  <1>21. QED
    BY <1>13, <1>14, <1>15, <1>16, <1>17, <1>18, <1>19, <1>20

-----------------------------------------------------------------------------
(***************************************************************************)
(* Leases, checkpoints, and the whole store.                               *)
(***************************************************************************)

\* Steps that touch neither the transition tables nor the callers keep the
\* invariant when types, lease tokens and the lease lock do.
LEMMA WorkerStep ==
  ASSUME StoreInv, UNCHANGED <<aggregate, idempotency, outbox, caller>>,
         StoreTypes', LeaseLock',
         \A a \in Aggregates : lease'[a].token = lease[a].token
  PROVE  StoreInv'
  <1> USE DEF StoreInv
  <1>1. Decided'
    BY DEF Decided, Sound, Fenced
  <1>2. RowLock' /\ KeysAndEvents' /\ KeyAppliedOnce' /\ FencedTransition'
    BY DEF RowLock, KeysAndEvents, KeyAppliedOnce, FencedTransition
  <1>3. HistoryIsPath'
    BY DEF HistoryIsPath, History
  <1>4. QED
    BY <1>1, <1>2, <1>3

\* An expired lease keeps its token.
LEMMA LeaseExpiresInv ==
  ASSUME StoreInv, NEW a \in Aggregates, LeaseEnds(a)
  PROVE  StoreInv'
  <1>1. /\ UNCHANGED <<aggregate, idempotency, outbox, checkpoint, caller, writer>>
        /\ lease' \in [Aggregates -> [token : Nat, live : BOOLEAN]]
        /\ \A b \in Aggregates : lease'[b].token = lease[b].token
    BY DEF LeaseEnds, StoreInv, StoreTypes
  <1>2. StoreTypes' /\ LeaseLock'
    BY <1>1 DEF StoreInv, StoreTypes, LeaseLock
  <1>3. QED
    BY <1>1, <1>2, WorkerStep

\* A writer locks the lease whose token it names.
LEMMA FenceInv ==
  ASSUME StoreInv, NEW w \in Writers, NEW a \in Aggregates,
         NEW token \in 1..lease[a].token, NEW v \in 1..MaxCheckpoint[a],
         Fence(w, a, token, v)
  PROVE  StoreInv'
  <1>1. /\ UNCHANGED <<aggregate, idempotency, outbox, lease, checkpoint, caller>>
        /\ lease[a].token = token /\ token \in Nat /\ v \in Nat
        /\ writer' = [writer EXCEPT ![w] =
             [pc |-> "fenced", aggregate |-> a, token |-> token, version |-> v]]
    BY BoundAssumption DEF Fence, StoreInv, StoreTypes, storeTables
  <1>2. /\ writer'[w] = [pc |-> "fenced", aggregate |-> a, token |-> token,
                         version |-> v]
        /\ \A x \in Writers : x # w => writer'[x] = writer[x]
    BY <1>1 DEF StoreInv, StoreTypes
  <1>3. StoreTypes'
    BY <1>1 DEF StoreInv, StoreTypes
  <1>4. LeaseLock'
    BY <1>1, <1>2 DEF StoreInv, LeaseLock
  <1>5. QED
    BY <1>1, <1>3, <1>4, WorkerStep

\* The checkpoint that is written carries the token of the locked lease.
LEMMA WriteCheckpointInv ==
  ASSUME StoreInv, NEW w \in Writers, WriteCheckpoint(w)
  PROVE  /\ StoreInv'
         /\ \A a \in Aggregates : checkpoint'[a] # checkpoint[a] =>
              /\ checkpoint'[a].version > checkpoint[a].version
              /\ checkpoint'[a].token >= checkpoint[a].token
  <1>1. PICK x : x = writer[w]
    OBVIOUS
  <1>2. /\ x.pc = "fenced" /\ x.aggregate \in Aggregates
        /\ x.token = lease[x.aggregate].token /\ x.token \in Nat /\ x.version \in Nat
        /\ checkpoint[x.aggregate].token <= x.token
    BY <1>1 DEF WriteCheckpoint, StoreInv, LeaseLock, StoreTypes
  <1>3. /\ UNCHANGED <<aggregate, idempotency, outbox, lease, caller>>
        /\ writer' = [writer EXCEPT ![w] = IdleWriter]
    BY DEF WriteCheckpoint
  <1>4. /\ checkpoint' \in [Aggregates -> [token : Nat, version : Nat]]
        /\ \A a \in Aggregates : checkpoint'[a] # checkpoint[a] =>
             /\ checkpoint'[a].token = lease[a].token
             /\ checkpoint'[a].version > checkpoint[a].version
             /\ checkpoint'[a].token >= checkpoint[a].token
    <2>1. CASE UNCHANGED checkpoint
      BY <2>1 DEF StoreInv, StoreTypes
    <2>2. CASE /\ checkpoint[x.aggregate].version < x.version
               /\ checkpoint' = [checkpoint EXCEPT ![x.aggregate] =
                                   [token |-> x.token, version |-> x.version]]
      BY <1>2, <2>2 DEF StoreInv, StoreTypes
    <2>3. QED
      BY <1>1, <2>1, <2>2 DEF WriteCheckpoint
  <1>5. StoreTypes'
    BY <1>3, <1>4 DEF StoreInv, StoreTypes, IdleWriter
  <1>6. LeaseLock'
    <2>1. \A a \in Aggregates : checkpoint'[a].token <= lease'[a].token
      BY <1>3, <1>4 DEF StoreInv, LeaseLock, StoreTypes
    <2>2. \A y \in Writers : writer'[y].pc = "fenced" => writer'[y] = writer[y]
      BY <1>3 DEF StoreInv, StoreTypes, IdleWriter
    <2>3. QED
      BY <1>3, <2>1, <2>2 DEF StoreInv, LeaseLock
  <1>7. QED
    BY <1>3, <1>4, <1>5, <1>6, WorkerStep

\* Every step keeps the invariant.
LEMMA StoreNextInv == StoreInv /\ [StoreNext]_storeVars => StoreInv'
  <1> SUFFICES ASSUME StoreInv, [StoreNext]_storeVars PROVE StoreInv'
    OBVIOUS
  <1>1. ASSUME NEW c \in Callers, NEW a \in Aggregates, NEW t \in Transitions,
               Decide(c, a, t)
        PROVE  StoreInv'
    BY <1>1, DecideInv
  <1>2. ASSUME NEW c \in Callers, NEW o \in Callers, Resubmit(c, o) PROVE StoreInv'
    BY <1>2, ResubmitInv
  <1>3. ASSUME NEW c \in Callers, Forget(c) \/ CheckKey(c) \/ Upsert(c)
        PROVE  StoreInv'
    BY <1>3, ForgetInv, CheckKeyInv, UpsertInv
  <1>4. ASSUME NEW c \in Callers, Commit(c) PROVE StoreInv'
    <2>1. CASE RowsOf(caller[c].decision) = {} /\ Persist(c)
      BY <1>4, <2>1, PersistInv DEF Commit
    <2>2. CASE Ends(c, Nobody) /\ UNCHANGED <<storeTables, writer>>
      BY <1>4, <2>2, EndInv DEF Commit
    <2>3. QED
      BY <1>4, <2>1, <2>2 DEF Commit
  <1>5. ASSUME NEW c \in Callers, Abort(c) PROVE StoreInv'
    BY <1>5, EndInv DEF Abort
  <1>6. ASSUME NEW a \in Aggregates, LeaseEnds(a) PROVE StoreInv'
    BY <1>6, LeaseExpiresInv
  <1>7. ASSUME NEW w \in Writers, NEW a \in Aggregates,
               NEW token \in 1..lease[a].token, NEW v \in 1..MaxCheckpoint[a],
               Fence(w, a, token, v)
        PROVE  StoreInv'
    BY <1>7, FenceInv
  <1>8. ASSUME NEW w \in Writers, WriteCheckpoint(w) PROVE StoreInv'
    BY <1>8, WriteCheckpointInv
  <1>9. CASE UNCHANGED storeVars
    <2>1. StoreTypes' /\ LeaseLock'
      BY <1>9 DEF StoreInv, StoreTypes, LeaseLock, storeVars, storeTables
    <2>2. QED
      BY <1>9, <2>1, WorkerStep DEF storeVars, storeTables
  <1>10. QED
    BY <1>1, <1>2, <1>3, <1>4, <1>5, <1>6, <1>7, <1>8, <1>9 DEF StoreNext

\* The invariant holds throughout every behaviour of the store.
LEMMA StoreInvariance == StoreSpec => []StoreInv
  BY StoreInitInv, StoreNextInv, PTL DEF StoreSpec

\* The history of every aggregate is a path of its state machine, although
\* each transition was decided against a state read before the transaction.
THEOREM HistoriesArePaths == StoreSpec => []HistoryIsPath
  <1>1. StoreInv => HistoryIsPath
    BY DEF StoreInv
  <1>2. QED
    BY <1>1, StoreInvariance, PTL

\* However often and by whomever a decision is applied again, its key takes
\* effect once, and whoever is told an event is told the one of its digest.
THEOREM DecisionsAppliedOnce == StoreSpec => []KeyAppliedOnce
  <1>1. StoreInv => KeyAppliedOnce
    BY DEF StoreInv
  <1>2. QED
    BY <1>1, StoreInvariance, PTL

\* apply_transition never reads the lease, yet no fenced transition commits
\* under another token than the one it was decided with.
THEOREM TransitionsAreFenced == StoreSpec => []FencedTransition
  <1>1. StoreInv => FencedTransition
    BY DEF StoreInv
  <1>2. QED
    BY <1>1, StoreInvariance, PTL

\* Checkpoints move forward in version and never back to an earlier lease.
THEOREM CheckpointsAdvance == StoreSpec => CheckpointAdvances
  <1> DEFINE Advance ==
        \A a \in Aggregates : checkpoint'[a] # checkpoint[a] =>
          /\ checkpoint'[a].version > checkpoint[a].version
          /\ checkpoint'[a].token >= checkpoint[a].token
  <1>1. StoreInv /\ [StoreNext]_storeVars => [Advance]_storeVars
    <2> SUFFICES ASSUME StoreInv, StoreNext PROVE Advance
      OBVIOUS
    <2>1. CASE \E w \in Writers : WriteCheckpoint(w)
      BY <2>1, WriteCheckpointInv
    <2>2. CASE ~\E w \in Writers : WriteCheckpoint(w)
      <3>1. checkpoint' = checkpoint
        BY <2>2 DEF StoreNext, Decide, Resubmit, Forget, CheckKey, Upsert, Commit,
                    Persist, Abort, LeaseEnds, Fence, storeTables
      <3>2. QED
        BY <3>1
    <2>3. QED
      BY <2>1, <2>2
  <1>2. QED
    BY <1>1, StoreInvariance, PTL DEF StoreSpec, CheckpointAdvances
=============================================================================
