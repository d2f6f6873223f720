------------------------- MODULE ControlStoreProofs -------------------------
(***************************************************************************)
(* Proofs about ControlStore for every number of tenants, keys, incidents  *)
(* and concurrent handlers.                                                *)
(***************************************************************************)
EXTENDS ControlStore, SequenceTheorems, FiniteSetTheorems, TLAPS

\* The operation of a command is one of the four.
LEMMA RequestFields ==
  ASSUME NEW q \in Request
  PROVE  /\ q.op \in Ops
         /\ q.tenant \in Tenants
         /\ q.incident \in Incidents \cup {None}
         /\ q.op # "create" => q.incident \in Incidents
         /\ q.version \in Nat
         /\ q.body \in Bodies
         /\ q.action \in ActionIds \cup {None}
  BY MaxVersionAssumption
  DEF Request, IncidentCreate, CancelRequest, FeedbackRequest, ApprovalRequest,
      Ops

\* Every command has an event type.
LEMMA EventTypeInSet == ASSUME NEW q \in Request PROVE EventType(q) \in EventTypes
  BY RequestFields DEF EventTypes, EventType, Ops

\* What a handler writes back is a row.
LEMMA WrittenIsRow ==
  ASSUME NEW r \in Requests, row[r] \in Row, req[r] \in Request
  PROVE  /\ Written(r) \in Row
         /\ Written(r).cursor = row[r].cursor + 1
         /\ Written(r).tenant = row[r].tenant
  <1>1. req[r].version \in Nat
    BY RequestFields
  <1>2. QED
    BY <1>1 DEF Written, Row, States

\* The answer of every operation is an answer of its type.
LEMMA AnswerInType ==
  ASSUME NEW q \in Request, NEW i \in Incidents, NEW w \in Row,
         NEW by \in Requests
  PROVE  Answer(q, i, w, by) \in AnswerType
  BY RequestFields DEF Answer, AnswerType, Row, Ops

\* So is the empty one.
LEMMA NoAnswerInType == NoAnswer \in AnswerType
  BY DEF NoAnswer, AnswerType

-----------------------------------------------------------------------------
(***************************************************************************)
(* The inductive invariant.                                                *)
(***************************************************************************)

InTransaction(r) == pc[r] \in {"locked", "saved"}

\* A handler past its first statement serves a real command, and one inside
\* its transaction works on a real incident.
Serving ==
  \A r \in Requests :
    /\ pc[r] # "idle" => req[r] \in Request
    /\ InTransaction(r) \/ pc[r] = "committed" => target[r] \in Incidents

\* Row locks: no two open transactions work on one incident, and the cursor a
\* transaction read is the committed one until it commits itself.
Locking ==
  \A r \in Requests : InTransaction(r) =>
    /\ row[r].cursor = incident[target[r]].cursor
    /\ \A o \in Requests : InTransaction(o) /\ o # r => target[o] # target[r]

\* What a transaction checked still holds: the row it read is the committed
\* one, and the conditions under which it went on are true of it.
HoldsRow(r) ==
  IF req[r].op = "create"
  THEN incident[target[r]] = AbsentRow /\ row[r] = NewRow(req[r].tenant, 0)
  ELSE /\ target[r] = req[r].incident
       /\ row[r] = incident[target[r]]
       /\ Owned(req[r]) /\ ~Conflicting(req[r])
RowHeld == \A r \in Requests : InTransaction(r) => HoldsRow(r)

\* The api_idempotency row of a handler.
StoredAnswer(r) ==
  [slot |-> Slot(req[r]), digest |-> Digest(req[r]), answer |-> AnswerOf(r)]

\* The primary key of api_idempotency: one row per slot, none for a slot
\* whose insert is still uncommitted, and the row a committed handler wrote.
KeyUnique == \A e, f \in idempotency : e.slot = f.slot => e = f
KeyReserved ==
  \A r \in Requests : pc[r] = "saved" =>
    /\ \A e \in idempotency : e.slot # Slot(req[r])
    /\ \A o \in Requests : pc[o] = "saved" /\ o # r => Slot(req[o]) # Slot(req[r])
KeyStored == \A r \in Requests : pc[r] = "committed" => StoredAnswer(r) \in idempotency

\* An event belongs to a handler that got past COMMIT and was not refused,
\* and the key of that handler is stored.
EventsCommitted ==
  \A i \in Incidents : \A e \in projection[i] : e.by # None =>
    /\ e.by \in Requests
    /\ \/ pc[e.by] = "committed" /\ reply[e.by].status = "none"
       \/ pc[e.by] = "done" /\ reply[e.by].status \in {"ok", "failed"}
    /\ \E x \in idempotency : /\ x.slot = Slot(req[e.by])
                              /\ x.digest = Digest(req[e.by])

\* Handlers that have not answered have no reply.
Unanswered == \A r \in Requests : pc[r] # "done" => reply[r] = NoReply

\* What an accepted command was told is the stored row of its key.
AnswerStored ==
  \A r \in Requests : reply[r].status = "ok" =>
    [slot |-> Slot(req[r]), digest |-> Digest(req[r]),
     answer |-> reply[r].answer] \in idempotency

Inv ==
  /\ TypeOK /\ Serving /\ Locking /\ RowHeld
  /\ KeyUnique /\ KeyReserved /\ KeyStored
  /\ EventsCommitted /\ Unanswered /\ AnswerStored
  /\ ProjectionContiguous /\ AppliedOnce

\* The invariant holds of the database a run starts from.
LEMMA InitInv == Init => Inv
  <1> SUFFICES ASSUME Init PROVE Inv
    OBVIOUS
  <1> USE DEF Init
  <1>1. TypeOK
    <2>1. AbsentRow \in Row /\ \A t \in Tenants : NewRow(t, 1) \in Row
      BY DEF AbsentRow, NewRow, Row, States
    <2>2. incident \in [Incidents -> Row]
      BY <2>1, ExistingAssumption
    <2>3. CreatedEvent \in Event
      BY DEF CreatedEvent, Event, EventTypes
    <2>4. projection \in [Incidents -> SUBSET Event]
      BY <2>3
    <2>5. reply \in [Requests -> [status : Statuses, answer : AnswerType]]
      BY NoAnswerInType DEF NoReply, Statuses
    <2>6. QED
      BY <2>1, <2>2, <2>4, <2>5 DEF TypeOK, Handlers
  <1>2. ProjectionContiguous
    <2> SUFFICES ASSUME NEW i \in Incidents
                 PROVE  /\ {e.seq : e \in projection[i]} = 1..incident[i].cursor
                        /\ \A e, f \in projection[i] : e.seq = f.seq => e = f
      BY DEF ProjectionContiguous
    <2>1. CASE i \in DOMAIN Existing
      <3>1. projection[i] = {CreatedEvent} /\ incident[i].cursor = 1
        BY <2>1 DEF NewRow
      <3>2. {e.seq : e \in {CreatedEvent}} = {1}
        BY DEF CreatedEvent
      <3>3. 1..1 = {1}
        OBVIOUS
      <3>4. QED
        BY <3>1, <3>2, <3>3
    <2>2. CASE i \notin DOMAIN Existing
      <3>1. projection[i] = {} /\ incident[i].cursor = 0
        BY <2>2 DEF AbsentRow
      <3>2. QED
        BY <3>1
    <2>3. QED
      BY <2>1, <2>2
  <1>3. Serving /\ Locking /\ RowHeld /\ KeyUnique /\ KeyReserved /\ KeyStored
    BY DEF Serving, Locking, RowHeld, KeyUnique, KeyReserved, KeyStored,
           InTransaction
  <1>4. EventsCommitted /\ Unanswered /\ AnswerStored /\ AppliedOnce
    BY DEF EventsCommitted, Unanswered, AnswerStored, AppliedOnce, CreatedEvent,
           NoReply
  <1>5. QED
    BY <1>1, <1>2, <1>3, <1>4 DEF Inv

\* A row of api_idempotency is determined by its three columns.
LEMMA StoredRow ==
  ASSUME TypeOK, NEW e \in idempotency
  PROVE  /\ e = [slot |-> e.slot, digest |-> e.digest, answer |-> e.answer]
         /\ e.answer \in AnswerType
  BY DEF TypeOK

\* Looking the key up touches no table.
LEMMA CheckIdempotencyInv ==
  ASSUME Inv, NEW r \in Requests, NEW q \in Request, CheckIdempotency(r, q)
  PROVE  Inv'
  <1> USE DEF Inv
  <1>1. /\ UNCHANGED <<tables, target, row>>
        /\ pc[r] = "idle"
        /\ req' = [req EXCEPT ![r] = q]
        /\ \/ /\ pc' = [pc EXCEPT ![r] = "checked"] /\ reply' = reply
           \/ \E e \in idempotency :
                /\ e.slot = Slot(q)
                /\ pc' = [pc EXCEPT ![r] = "done"]
                /\ \/ /\ e.digest = Digest(q)
                      /\ reply' = [reply EXCEPT ![r] = Accepted(e.answer)]
                   \/ reply' = [reply EXCEPT ![r] = Refusal("conflict")]
    BY DEF CheckIdempotency, Goto, Finish, Prior
  <1>2. TypeOK'
    <2>1. \A e \in idempotency : Accepted(e.answer) \in
            [status : Statuses, answer : AnswerType]
      BY StoredRow DEF Accepted, Statuses
    <2>2. Refusal("conflict") \in [status : Statuses, answer : AnswerType]
      BY NoAnswerInType DEF Refusal, Statuses
    <2>3. reply' \in [Requests -> [status : Statuses, answer : AnswerType]]
      BY <1>1, <2>1, <2>2 DEF TypeOK
    <2>4. QED
      BY <1>1, <2>3 DEF TypeOK, tables, Handlers
  <1>3. Serving' /\ Locking' /\ KeyUnique' /\ KeyReserved' /\ KeyStored'
    BY <1>1
    DEF TypeOK, tables, Serving, Locking, KeyUnique, KeyReserved, KeyStored,
        InTransaction, StoredAnswer, AnswerOf, Written
  <1>4. \A i \in Incidents : \A e \in projection[i] :
          e.by # None => e.by \in Requests /\ e.by # r
    BY <1>1 DEF EventsCommitted
  <1>5. EventsCommitted'
    BY <1>1, <1>4 DEF TypeOK, tables, EventsCommitted
  <1>6. AnswerStored'
    <2> SUFFICES ASSUME NEW x \in Requests, reply'[x].status = "ok"
                 PROVE  [slot |-> Slot(req'[x]), digest |-> Digest(req'[x]),
                         answer |-> reply'[x].answer] \in idempotency
      BY <1>1 DEF AnswerStored, tables
    <2>1. CASE x = r
      <3>1. reply[r].status # "ok"
        BY <1>1 DEF Unanswered, NoReply
      <3>2. PICK e \in idempotency : /\ e.slot = Slot(q) /\ e.digest = Digest(q)
                                     /\ reply'[r] = Accepted(e.answer)
        BY <1>1, <2>1, <3>1 DEF TypeOK, Refusal
      <3>3. reply'[r].answer = e.answer /\ req'[r] = q
        BY <1>1, <3>2 DEF TypeOK, Accepted
      <3>4. QED
        BY <2>1, <3>2, <3>3, StoredRow
    <2>2. CASE x # r
      <3>1. reply'[x] = reply[x] /\ req'[x] = req[x]
        BY <1>1, <2>2 DEF TypeOK
      <3>2. QED
        BY <3>1 DEF AnswerStored
    <2>3. QED
      BY <2>1, <2>2
  <1>7. Unanswered'
    BY <1>1 DEF TypeOK, Unanswered
  <1>8. ProjectionContiguous'
    BY <1>1 DEF tables, ProjectionContiguous
  <1>9. AppliedOnce'
    BY <1>1, <1>4 DEF TypeOK, tables, AppliedOnce
  <1>10. RowHeld'
    BY <1>1
    DEF TypeOK, tables, RowHeld, InTransaction, HoldsRow, Owned, Conflicting
  <1>11. QED
    BY <1>2, <1>3, <1>5, <1>6, <1>7, <1>8, <1>9, <1>10

\* A handler that ends without touching a table keeps the invariant if what
\* it tells the client agrees with the tables.
LEMMA FinishInv ==
  ASSUME Inv, NEW r \in Requests,
         NEW a \in [status : Statuses, answer : AnswerType],
         pc[r] \in {"checked", "locked", "saved", "committed"},
         Finish(r, a), UNCHANGED <<tables, req, target, row>>,
         a.status = "ok" =>
           [slot |-> Slot(req[r]), digest |-> Digest(req[r]),
            answer |-> a.answer] \in idempotency,
         pc[r] = "committed" => a.status \in {"ok", "failed"}
  PROVE  Inv'
  <1> USE DEF Inv
  <1>1. /\ pc' = [pc EXCEPT ![r] = "done"]
        /\ reply' = [reply EXCEPT ![r] = a]
    BY DEF Finish
  <1>2. TypeOK'
    BY <1>1 DEF TypeOK, tables, Handlers
  <1>3. Serving' /\ Locking' /\ KeyUnique' /\ KeyReserved' /\ KeyStored'
    BY <1>1
    DEF TypeOK, tables, Serving, Locking, KeyUnique, KeyReserved, KeyStored,
        InTransaction, StoredAnswer, AnswerOf, Written
  <1>4. EventsCommitted'
    BY <1>1 DEF TypeOK, tables, EventsCommitted
  <1>5. AnswerStored' /\ Unanswered'
    BY <1>1 DEF TypeOK, tables, AnswerStored, Unanswered
  <1>6. ProjectionContiguous' /\ AppliedOnce'
    BY DEF tables, ProjectionContiguous, AppliedOnce
  <1>7. RowHeld'
    BY <1>1
    DEF TypeOK, tables, RowHeld, InTransaction, HoldsRow, Owned, Conflicting
  <1>8. QED
    BY <1>2, <1>3, <1>4, <1>5, <1>6, <1>7

\* A handler that takes the row of an incident nobody else works on.
LEMMA EnterInv ==
  ASSUME Inv, NEW r \in Requests, NEW i \in Incidents, NEW w \in Row,
         pc[r] = "checked", w.cursor = incident[i].cursor,
         \A o \in Requests : InTransaction(o) => target[o] # i,
         Goto(r, "locked"), UNCHANGED <<tables, req>>,
         target' = [target EXCEPT ![r] = i],
         row' = [row EXCEPT ![r] = w],
         IF req[r].op = "create"
         THEN incident[i] = AbsentRow /\ w = NewRow(req[r].tenant, 0)
         ELSE /\ i = req[r].incident /\ w = incident[i]
              /\ Owned(req[r]) /\ ~Conflicting(req[r])
  PROVE  Inv'
  <1> USE DEF Inv
  <1>1. pc' = [pc EXCEPT ![r] = "locked"] /\ reply' = reply
    BY DEF Goto
  <1>2. TypeOK'
    BY <1>1 DEF TypeOK, tables, Handlers
  <1>3. Serving' /\ Locking'
    BY <1>1 DEF TypeOK, tables, Serving, Locking, InTransaction
  <1>4. KeyUnique' /\ KeyReserved' /\ KeyStored'
    BY <1>1
    DEF TypeOK, tables, KeyUnique, KeyReserved, KeyStored, StoredAnswer,
        AnswerOf, Written
  <1>5. EventsCommitted' /\ AnswerStored' /\ Unanswered'
    BY <1>1 DEF TypeOK, tables, EventsCommitted, AnswerStored, Unanswered
  <1>6. ProjectionContiguous' /\ AppliedOnce'
    BY DEF tables, ProjectionContiguous, AppliedOnce
  <1>7. RowHeld'
    BY <1>1
    DEF TypeOK, tables, RowHeld, InTransaction, HoldsRow, Owned, Conflicting
  <1>8. QED
    BY <1>2, <1>3, <1>4, <1>5, <1>6, <1>7

\* A refusal is a reply of its type.
LEMMA RefusalType ==
  ASSUME NEW st \in Statuses
  PROVE  /\ Refusal(st) \in [status : Statuses, answer : AnswerType]
         /\ Refusal(st).status = st
  BY NoAnswerInType DEF Refusal

\* A create inserts under an id no other transaction works on.
LEMMA InsertIncidentInv ==
  ASSUME Inv, NEW r \in Requests, InsertIncident(r)
  PROVE  Inv'
  <1>1. PICK i \in Incidents : /\ incident[i] = AbsentRow
                               /\ \A o \in Requests : target[o] # i
                               /\ target' = [target EXCEPT ![r] = i]
    BY DEF InsertIncident
  <1>2. req[r] \in Request
    BY DEF InsertIncident, Inv, Serving
  <1>3. NewRow(req[r].tenant, 0) \in Row /\ NewRow(req[r].tenant, 0).cursor = 0
    BY <1>2, RequestFields DEF NewRow, Row, States
  <1>4. incident[i].cursor = 0
    BY <1>1 DEF AbsentRow
  <1>5. QED
    BY <1>1, <1>3, <1>4, EnterInv DEF InsertIncident

\* _lock_incident refuses, or takes a row no other transaction holds.
LEMMA LockIncidentInv ==
  ASSUME Inv, NEW r \in Requests, LockIncident(r)
  PROVE  Inv'
  <1>1. /\ pc[r] = "checked" /\ UNCHANGED <<tables, req>>
        /\ req[r] \in Request /\ req[r].incident \in Incidents
    <2>1. pc[r] = "checked" /\ req[r].op # "create" /\ UNCHANGED <<tables, req>>
      BY DEF LockIncident
    <2>2. req[r] \in Request
      BY <2>1 DEF Inv, Serving
    <2>3. QED
      BY <2>1, <2>2, RequestFields
  <1>2. CASE /\ Finish(r, Refusal("not_found")) \/ Finish(r, Refusal("conflict"))
             /\ UNCHANGED <<target, row>>
    BY <1>1, <1>2, RefusalType, FinishInv DEF Statuses
  <1>3. CASE /\ Owned(req[r]) /\ ~Conflicting(req[r])
             /\ ~RowLocked(r, req[r].incident)
             /\ Goto(r, "locked")
             /\ target' = [target EXCEPT ![r] = req[r].incident]
             /\ row' = [row EXCEPT ![r] = incident[req[r].incident]]
    <2>1. incident[req[r].incident] \in Row
      BY <1>1 DEF Inv, TypeOK
    <2>2. \A o \in Requests : InTransaction(o) => target[o] # req[r].incident
      BY <1>1, <1>3 DEF RowLocked, InTransaction
    <2>3. QED
      BY <1>1, <1>3, <2>1, <2>2, EnterInv DEF LockIncident
  <1>4. QED
    BY <1>2, <1>3 DEF LockIncident

\* The key insert fails, or reserves a key nobody stored or reserved.
LEMMA SaveIdempotencyInv ==
  ASSUME Inv, NEW r \in Requests, SaveIdempotency(r)
  PROVE  Inv'
  <1> USE DEF Inv
  <1>1. /\ pc[r] = "locked" /\ ~KeyInFlight(r)
        /\ UNCHANGED <<tables, req, target, row>>
    BY DEF SaveIdempotency
  <1>2. CASE Finish(r, Refusal("duplicate"))
    BY <1>1, <1>2, RefusalType, FinishInv DEF Statuses
  <1>3. CASE Prior(req[r]) = {} /\ Goto(r, "saved")
    <2>1. pc' = [pc EXCEPT ![r] = "saved"] /\ reply' = reply
      BY <1>3 DEF Goto
    <2>2. TypeOK'
      BY <1>1, <2>1 DEF TypeOK, tables, Handlers
    <2>3. Serving' /\ Locking'
      BY <1>1, <2>1 DEF TypeOK, tables, Serving, Locking, InTransaction
    <2>4. KeyReserved'
      BY <1>1, <1>3, <2>1
      DEF TypeOK, tables, KeyReserved, KeyInFlight, Prior
    <2>5. KeyUnique' /\ KeyStored'
      BY <1>1, <2>1
      DEF TypeOK, tables, KeyUnique, KeyStored, StoredAnswer, AnswerOf, Written
    <2>6. EventsCommitted' /\ AnswerStored' /\ Unanswered'
      BY <1>1, <2>1 DEF TypeOK, tables, EventsCommitted, AnswerStored, Unanswered
    <2>7. ProjectionContiguous' /\ AppliedOnce'
      BY <1>1 DEF tables, ProjectionContiguous, AppliedOnce
    <2>8. RowHeld'
      BY <1>1, <2>1
      DEF TypeOK, tables, RowHeld, InTransaction, HoldsRow, Owned, Conflicting
    <2>9. QED
      BY <2>2, <2>3, <2>4, <2>5, <2>6, <2>7, <2>8
  <1>4. QED
    BY <1>2, <1>3 DEF SaveIdempotency

\* A rollback, or a failure after COMMIT, touches no table.
LEMMA FailInv ==
  ASSUME Inv, NEW r \in Requests, Fail(r)
  PROVE  Inv'
  BY RefusalType, FinishInv DEF Fail, Statuses

\* The answer given after COMMIT is the one COMMIT stored.
LEMMA PublishInv ==
  ASSUME Inv, NEW r \in Requests, Publish(r)
  PROVE  Inv'
  <1>1. /\ pc[r] = "committed" /\ Finish(r, Accepted(AnswerOf(r)))
        /\ UNCHANGED <<tables, req, target, row>>
    BY DEF Publish
  <1>2. StoredAnswer(r) \in idempotency /\ AnswerOf(r) \in AnswerType
    BY <1>1, StoredRow DEF Inv, KeyStored, StoredAnswer
  <1>3. /\ Accepted(AnswerOf(r)) \in [status : Statuses, answer : AnswerType]
        /\ Accepted(AnswerOf(r)).answer = AnswerOf(r)
        /\ Accepted(AnswerOf(r)).status = "ok"
    BY <1>2 DEF Accepted, Statuses
  <1>4. QED
    BY <1>1, <1>2, <1>3, FinishInv DEF StoredAnswer

\* COMMIT publishes exactly what the transaction checked, wrote and reserved.
LEMMA CommitInv ==
  ASSUME Inv, NEW r \in Requests, Commit(r)
  PROVE  Inv'
  <1> DEFINE i == target[r]
             ev == [seq |-> row[r].cursor + 1, type |-> EventType(req[r]),
                    by |-> r]
  <1> USE DEF Inv
  <1>1. /\ pc[r] = "saved" /\ pc' = [pc EXCEPT ![r] = "committed"]
        /\ incident' = [incident EXCEPT ![i] = Written(r)]
        /\ projection' = [projection EXCEPT ![i] = projection[i] \cup {ev}]
        /\ idempotency' = idempotency \cup {StoredAnswer(r)}
        /\ pending' = Consumed(r)
        /\ UNCHANGED <<req, target, row, reply>>
    BY DEF Commit, Goto, StoredAnswer
  <1>2. /\ i \in Incidents /\ req[r] \in Request /\ row[r] \in Row
        /\ InTransaction(r) /\ reply[r] = NoReply
        /\ row[r].cursor = incident[i].cursor /\ row[r].cursor \in Nat
        /\ \A o \in Requests : InTransaction(o) /\ o # r => target[o] # i
        /\ \A e \in idempotency : e.slot # Slot(req[r])
    BY <1>1
    DEF TypeOK, Serving, InTransaction, Locking, KeyReserved, Unanswered, Row
  <1>3. Written(r) \in Row /\ Written(r).cursor = row[r].cursor + 1
    BY <1>2, WrittenIsRow
  <1>4. ev \in Event
    BY <1>2, EventTypeInSet DEF Event
  <1>5. StoredAnswer(r) \in [slot : Slots, digest : Digests, answer : AnswerType]
    BY <1>2, <1>3, AnswerInType DEF StoredAnswer, AnswerOf, Slots, Digests
  <1>6. /\ StoredAnswer(r).slot = Slot(req[r])
        /\ StoredAnswer(r).digest = Digest(req[r])
    BY DEF StoredAnswer
  <1>7. TypeOK'
    <2>1. incident' \in [Incidents -> Row]
      BY <1>1, <1>2, <1>3 DEF TypeOK
    <2>2. projection' \in [Incidents -> SUBSET Event]
      BY <1>1, <1>2, <1>4 DEF TypeOK
    <2>3. idempotency' \subseteq [slot : Slots, digest : Digests,
                                  answer : AnswerType]
      BY <1>1, <1>5 DEF TypeOK
    <2>4. pending' \in [Incidents -> SUBSET PendingAction]
      BY <1>1, <1>2 DEF TypeOK, Consumed
    <2>5. QED
      BY <1>1, <2>1, <2>2, <2>3, <2>4 DEF TypeOK, Handlers
  <1>8. Serving' /\ Locking'
    BY <1>1, <1>2 DEF TypeOK, Serving, Locking, InTransaction
  <1>9. RowHeld'
    <2> SUFFICES ASSUME NEW o \in Requests, InTransaction(o)'
                 PROVE  HoldsRow(o)'
      BY DEF RowHeld
    <2>1. o # r /\ InTransaction(o) /\ HoldsRow(o)
      BY <1>1 DEF InTransaction, TypeOK, RowHeld
    <2>2. target[o] # i /\ target[o] \in Incidents
      BY <1>2, <2>1 DEF Serving
    <2>3. incident'[target[o]] = incident[target[o]]
      BY <1>1, <2>2 DEF TypeOK
    <2>4. pending'[target[o]] = pending[target[o]]
      BY <1>1, <2>2 DEF TypeOK, Consumed
    <2>5. QED
      BY <1>1, <2>1, <2>3, <2>4 DEF HoldsRow, Owned, Conflicting
  <1>10. KeyUnique'
    BY <1>1, <1>2, <1>6 DEF KeyUnique
  <1>11. KeyReserved'
    BY <1>1, <1>2, <1>6 DEF KeyReserved, TypeOK
  <1>12. KeyStored'
    BY <1>1 DEF KeyStored, TypeOK, StoredAnswer, AnswerOf, Written
  <1>13. EventsCommitted'
    BY <1>1, <1>2, <1>6 DEF EventsCommitted, TypeOK, NoReply
  <1>14. Unanswered' /\ AnswerStored'
    BY <1>1, <1>2 DEF Unanswered, AnswerStored, TypeOK
  <1>15. ProjectionContiguous'
    <2> SUFFICES ASSUME NEW j \in Incidents
                 PROVE  /\ {e.seq : e \in projection'[j]} = 1..incident'[j].cursor
                        /\ \A e, f \in projection'[j] : e.seq = f.seq => e = f
      BY DEF ProjectionContiguous
    <2>1. CASE j # i
      BY <1>1, <1>2, <2>1 DEF ProjectionContiguous, TypeOK
    <2>2. CASE j = i
      <3> DEFINE n == row[r].cursor
      <3>1. projection'[j] = projection[i] \cup {ev} /\ incident'[j].cursor = n + 1
        BY <1>1, <1>2, <1>3, <2>2 DEF TypeOK
      <3>2. {e.seq : e \in projection[i]} = 1..n
        BY <1>2 DEF ProjectionContiguous
      <3>3. {e.seq : e \in projection[i] \cup {ev}} = (1..n) \cup {n + 1}
        <4> DEFINE P == projection[i]
        <4>1. ev.seq = n + 1
          OBVIOUS
        <4> HIDE DEF ev, P, n
        <4>2. {e.seq : e \in P \cup {ev}} = {e.seq : e \in P} \cup {ev.seq}
          OBVIOUS
        <4>3. {e.seq : e \in P} = 1..n
          BY <3>2 DEF P
        <4>4. QED
          BY <4>1, <4>2, <4>3 DEF P
      <3>4. (1..n) \cup {n + 1} = 1..(n + 1)
        BY <1>2
      <3>5. \A e \in projection[i] : e.seq \in 1..n
        BY <3>2
      <3>6. \A e \in projection[i] : e.seq # ev.seq
        BY <3>5, <1>2
      <3>7. \A e, f \in projection[i] : e.seq = f.seq => e = f
        BY <1>2 DEF ProjectionContiguous
      <3>8. QED
        BY <3>1, <3>3, <3>4, <3>6, <3>7
    <2>3. QED
      BY <2>1, <2>2
  <1>16. AppliedOnce'
    BY <1>1, <1>2 DEF AppliedOnce, EventsCommitted, TypeOK
  <1>17. QED
    BY <1>7, <1>8, <1>9, <1>10, <1>11, <1>12, <1>13, <1>14, <1>15, <1>16

\* A proposal adds a pending row, which no open decision relies on missing.
LEMMA ProposeActionInv ==
  ASSUME Inv, NEW i \in Incidents, NEW a \in ActionIds, NEW d \in ActionDigests,
         ProposeAction(i, a, d)
  PROVE  Inv'
  <1> USE DEF Inv
  <1>1. /\ pending' = [pending EXCEPT ![i] =
                         pending[i] \cup {[action |-> a, digest |-> d]}]
        /\ UNCHANGED <<incident, projection, idempotency, pc, req, target, row,
                       reply>>
    BY DEF ProposeAction, handler
  <1>2. TypeOK'
    BY <1>1 DEF TypeOK, PendingAction
  <1>3. RowHeld'
    <2>1. \A j \in Incidents : pending[j] \subseteq pending'[j]
      BY <1>1 DEF TypeOK
    <2>2. \A r \in Requests : InTransaction(r) => target[r] \in Incidents
      BY DEF Serving
    <2>3. QED
      BY <1>1, <2>1, <2>2
      DEF RowHeld, InTransaction, HoldsRow, Owned, Conflicting
  <1>4. Serving' /\ Locking' /\ KeyUnique' /\ KeyReserved' /\ KeyStored'
    BY <1>1
    DEF Serving, Locking, KeyUnique, KeyReserved, KeyStored, InTransaction,
        StoredAnswer, AnswerOf, Written
  <1>5. EventsCommitted' /\ Unanswered' /\ AnswerStored'
    BY <1>1 DEF EventsCommitted, Unanswered, AnswerStored
  <1>6. ProjectionContiguous' /\ AppliedOnce'
    BY <1>1 DEF ProjectionContiguous, AppliedOnce
  <1>7. QED
    BY <1>2, <1>3, <1>4, <1>5, <1>6

\* Every step of every handler preserves the invariant.
LEMMA NextInv == Inv /\ [Next]_vars => Inv'
  <1> SUFFICES ASSUME Inv, [Next]_vars PROVE Inv'
    OBVIOUS
  <1>1. CASE \E r \in Requests : Receive(r)
    BY <1>1, CheckIdempotencyInv DEF Receive
  <1>2. CASE \E r \in Requests : Step(r)
    BY <1>2, InsertIncidentInv, LockIncidentInv, SaveIdempotencyInv, CommitInv,
       PublishInv
    DEF Step
  <1>3. CASE \E r \in Requests : Fail(r)
    BY <1>3, FailInv
  <1>4. CASE \E i \in Incidents, a \in ActionIds, d \in ActionDigests :
               ProposeAction(i, a, d)
    BY <1>4, ProposeActionInv
  <1>5. CASE UNCHANGED vars
    <2> USE DEF Inv
    <2>1. UNCHANGED <<incident, projection, idempotency, pending, pc, req,
                      target, row, reply>>
      BY <1>5 DEF vars, tables, handler
    <2>2. TypeOK'
      BY <2>1 DEF TypeOK
    <2>3. RowHeld'
      BY <2>1 DEF RowHeld, InTransaction, HoldsRow, Owned, Conflicting
    <2>4. Serving' /\ Locking' /\ KeyUnique' /\ KeyReserved' /\ KeyStored'
      BY <2>1
      DEF Serving, Locking, KeyUnique, KeyReserved, KeyStored, InTransaction,
          StoredAnswer, AnswerOf, Written
    <2>5. EventsCommitted' /\ Unanswered' /\ AnswerStored'
      BY <2>1 DEF EventsCommitted, Unanswered, AnswerStored
    <2>6. ProjectionContiguous' /\ AppliedOnce'
      BY <2>1 DEF ProjectionContiguous, AppliedOnce
    <2>7. QED
      BY <2>2, <2>3, <2>4, <2>5, <2>6
  <1>6. QED
    BY <1>1, <1>2, <1>3, <1>4, <1>5 DEF Next

\* Hence Inv is an invariant of the store.
LEMMA Invariance == Spec => []Inv
  BY InitInv, NextInv, PTL DEF Spec

-----------------------------------------------------------------------------

\* The tables and handlers of the Control API store always hold values of
\* their types.
THEOREM TypeCorrect == Spec => []TypeOK
  <1>1. Inv => TypeOK
    BY DEF Inv
  <1>2. QED
    BY <1>1, Invariance, PTL

\* However many commands run concurrently on an incident, its projection is
\* exactly the sequences 1..event_cursor, each used once.
THEOREM ProjectionIsContiguous == Spec => []ProjectionContiguous
  <1>1. Inv => ProjectionContiguous
    BY DEF Inv
  <1>2. QED
    BY <1>1, Invariance, PTL

\* An Idempotency-Key takes effect at most once, across all incidents, under
\* any interleaving of duplicates and any failure.
THEOREM KeysAppliedOnce == Spec => []AppliedOnce
  <1>1. Inv => AppliedOnce
    BY DEF Inv
  <1>2. QED
    BY <1>1, Invariance, PTL

\* All accepted commands with one key were given the one stored answer.
THEOREM AnswersAgree == Spec => []OneAnswerPerKey
  <1>1. Inv => OneAnswerPerKey
    <2> SUFFICES ASSUME Inv, NEW r \in Requests, reply[r].status = "ok"
                 PROVE  Prior(req[r]) =
                          {[slot |-> Slot(req[r]), digest |-> Digest(req[r]),
                            answer |-> reply[r].answer]}
      BY DEF OneAnswerPerKey
    <2> DEFINE x == [slot |-> Slot(req[r]), digest |-> Digest(req[r]),
                     answer |-> reply[r].answer]
    <2>1. x \in idempotency /\ x.slot = Slot(req[r])
      BY DEF Inv, AnswerStored
    <2>2. \A e \in idempotency : e.slot = Slot(req[r]) => e = x
      BY <2>1 DEF Inv, KeyUnique
    <2>3. QED
      BY <2>1, <2>2 DEF Prior
  <1>2. QED
    BY <1>1, Invariance, PTL

\* CANCELLED is final, and feedback and approvals never move a version.
THEOREM TerminalIsStable == Spec => TerminalStable
  <1> DEFINE Stable ==
        \A i \in Incidents :
          /\ incident[i].state \in Terminal =>
               /\ incident'[i].state = incident[i].state
               /\ incident'[i].version = incident[i].version
          /\ incident[i].state # "ABSENT" =>
               (incident'[i].version # incident[i].version
                  <=> incident'[i].state # incident[i].state)
  <1>1. ASSUME Inv, NEW r \in Requests, Commit(r) PROVE Stable
    <2> USE DEF Inv
    <2>1. /\ pc[r] = "saved" /\ InTransaction(r) /\ HoldsRow(r)
          /\ target[r] \in Incidents /\ req[r] \in Request
          /\ incident' = [incident EXCEPT ![target[r]] = Written(r)]
      BY <1>1 DEF Commit, Serving, InTransaction, RowHeld
    <2>2. \A i \in Incidents \ {target[r]} : incident'[i] = incident[i]
      BY <2>1 DEF TypeOK
    <2>3. incident'[target[r]] = Written(r)
      BY <1>1, <2>1 DEF TypeOK
    <2>4. CASE req[r].op = "create"
      BY <2>1, <2>2, <2>4 DEF HoldsRow, AbsentRow, Terminal
    <2>5. CASE req[r].op = "cancel"
      <3>1. /\ incident[target[r]].state \notin Terminal
            /\ incident[target[r]].version = req[r].version
            /\ req[r].version \in Nat
        BY <2>1, <2>5, RequestFields DEF HoldsRow, Conflicting
      <3>2. Written(r).state = "CANCELLED" /\ Written(r).version = req[r].version + 1
        BY <2>5 DEF Written
      <3>3. QED
        BY <2>2, <2>3, <3>1, <3>2 DEF Terminal
    <2>6. CASE req[r].op \notin {"create", "cancel"}
      BY <2>1, <2>2, <2>3, <2>6 DEF HoldsRow, Written
    <2>7. QED
      BY <2>4, <2>5, <2>6
  <1>2. ASSUME incident' = incident PROVE Stable
    BY <1>2
  <1>3. Inv /\ [Next]_vars => [Stable]_vars
    <2>1. ASSUME Inv, Next, ~\E r \in Requests : Commit(r)
          PROVE  incident' = incident
      BY <2>1
      DEF Next, Receive, CheckIdempotency, Step, InsertIncident, LockIncident,
          SaveIdempotency, Publish, Fail, ProposeAction, tables
    <2>2. QED
      BY <1>1, <1>2, <2>1
  <1>4. QED
    BY <1>3, Invariance, PTL DEF Spec, TerminalStable

-----------------------------------------------------------------------------
(***************************************************************************)
(* Tenants.                                                                *)
(***************************************************************************)

\* Stored answers and events belong to the tenant of their incident.
AnswersOwned ==
  \A e \in idempotency : e.answer.incident # None =>
    incident[e.answer.incident].tenant = e.slot[1]
EventsOwned ==
  \A i \in Incidents : \A e \in projection[i] :
    e.by # None => incident[i].tenant = req[e.by].tenant

TenantInv == AnswersOwned /\ EventsOwned

\* An incident that does not exist has no events.
LEMMA AbsentHasNoEvents ==
  ASSUME Inv, NEW i \in Incidents, incident[i] = AbsentRow
  PROVE  projection[i] = {}
  <1>1. {e.seq : e \in projection[i]} = 1..0
    BY DEF Inv, ProjectionContiguous, AbsentRow
  <1>2. ASSUME NEW e \in projection[i] PROVE FALSE
    <2>1. e.seq \in 1..0
      BY <1>1
    <2>2. QED
      BY <2>1
  <1>3. QED
    BY <1>2

\* Steps other than COMMIT change no incident, no event and no answer, and
\* give a request to a handler that has caused no event.
LEMMA QuietStep ==
  ASSUME Inv, [Next]_vars, ~\E r \in Requests : Commit(r)
  PROVE  /\ UNCHANGED <<incident, projection, idempotency>>
         /\ \A i \in Incidents : \A e \in projection[i] :
              e.by # None => req'[e.by] = req[e.by]
  <1>1. ASSUME NEW r \in Requests, Receive(r)
        PROVE  /\ UNCHANGED <<incident, projection, idempotency>>
               /\ \A i \in Incidents : \A e \in projection[i] :
                    e.by # None => req'[e.by] = req[e.by]
    <2>1. PICK q \in Request : CheckIdempotency(r, q)
      BY <1>1 DEF Receive
    <2>2. /\ pc[r] = "idle" /\ req' = [req EXCEPT ![r] = q]
          /\ UNCHANGED <<incident, projection, idempotency>>
      BY <2>1 DEF CheckIdempotency, tables
    <2>3. QED
      BY <2>2 DEF Inv, EventsCommitted, TypeOK
  <1>2. CASE ~\E r \in Requests : Receive(r)
    BY <1>2
    DEF Next, Step, InsertIncident, LockIncident, SaveIdempotency, Publish, Fail,
        ProposeAction, tables, handler, vars
  <1>3. QED
    BY <1>1, <1>2

\* Every stored answer has its event.
AnswersAppended ==
  \A x \in idempotency : \E i \in Incidents : \E e \in projection[i] :
    e.by # None /\ Slot(req[e.by]) = x.slot

\* COMMIT stores an answer together with its event, and no step takes an event
\* or its handler's request away.
LEMMA AnswersAppendedStep ==
  Inv /\ AnswersAppended /\ [Next]_vars => AnswersAppended'
  <1> SUFFICES ASSUME Inv, AnswersAppended, [Next]_vars PROVE AnswersAppended'
    OBVIOUS
  <1>1. CASE ~\E r \in Requests : Commit(r)
    <2>1. /\ UNCHANGED <<projection, idempotency>>
          /\ \A i \in Incidents : \A e \in projection[i] :
               e.by # None => req'[e.by] = req[e.by]
      BY <1>1, QuietStep
    <2>2. QED
      BY <2>1 DEF AnswersAppended, Slot
  <1>2. ASSUME NEW r \in Requests, Commit(r) PROVE AnswersAppended'
    <2> DEFINE ev == [seq |-> row[r].cursor + 1, type |-> EventType(req[r]),
                      by |-> r]
    <2>1. PICK t \in Incidents :
            /\ projection' = [projection EXCEPT ![t] = projection[t] \cup {ev}]
            /\ idempotency' = idempotency \cup {StoredAnswer(r)} /\ req' = req
      BY <1>2 DEF Commit, StoredAnswer, Inv, Serving, InTransaction, RowHeld
    <2>2. /\ ev \in projection'[t] /\ ev.by = r /\ r # None
          /\ StoredAnswer(r).slot = Slot(req[r])
          /\ \A i \in Incidents : projection[i] \subseteq projection'[i]
      BY <2>1, RequestsAssumption DEF Inv, TypeOK, StoredAnswer
    <2> HIDE DEF ev
    <2>3. ASSUME NEW x \in idempotency'
          PROVE  \E i \in Incidents : \E e \in projection'[i] :
                   e.by # None /\ Slot(req[e.by]) = x.slot
      <3>1. CASE x \in idempotency
        BY <2>2, <3>1 DEF AnswersAppended
      <3>2. CASE x = StoredAnswer(r)
        BY <2>2, <3>2
      <3>3. QED
        BY <2>1, <2>3, <3>1, <3>2
    <2>4. QED
      BY <2>1, <2>3 DEF AnswersAppended, Slot
  <1>3. QED
    BY <1>1, <1>2

\* A refused command has left no event in any projection, and a failed one
\* has left both its event and its stored answer or neither.
THEOREM RefusalsLeaveNoTrace == Spec => []RefusedLeavesNoTrace
  <1>1. Inv /\ AnswersAppended => RefusedLeavesNoTrace
    BY DEF Inv, EventsCommitted, RefusedLeavesNoTrace, AnswersAppended
  <1>2. Init => AnswersAppended
    BY DEF Init, AnswersAppended
  <1>3. QED
    BY <1>1, <1>2, AnswersAppendedStep, Invariance, PTL DEF Spec

\* What COMMIT writes belongs to the tenant of the command.
LEMMA CommitOwned ==
  ASSUME Inv, NEW r \in Requests, Commit(r)
  PROVE  /\ target[r] \in Incidents /\ req[r] \in Request
         /\ incident' = [incident EXCEPT ![target[r]] = Written(r)]
         /\ incident'[target[r]].tenant = req[r].tenant
         /\ \/ incident[target[r]] = AbsentRow
            \/ incident[target[r]].tenant = req[r].tenant
         /\ \A i \in Incidents : i # target[r] => incident'[i] = incident[i]
  <1>1. /\ target[r] \in Incidents /\ req[r] \in Request
        /\ incident' = [incident EXCEPT ![target[r]] = Written(r)]
        /\ HoldsRow(r)
    BY DEF Commit, Inv, Serving, InTransaction, RowHeld
  <1>2. /\ incident'[target[r]] = Written(r)
        /\ \A i \in Incidents : i # target[r] => incident'[i] = incident[i]
    BY <1>1 DEF Inv, TypeOK
  <1>3. Written(r).tenant = row[r].tenant
    BY DEF Written
  <1>4. QED
    BY <1>1, <1>2, <1>3 DEF HoldsRow, NewRow, Owned

\* A slot starts with the tenant of its command.
LEMMA SlotTenant ==
  ASSUME NEW q \in Request
  PROVE  Slot(q)[1] = q.tenant /\ q.tenant \in Tenants
  BY RequestFields DEF Slot

\* The slot of a stored row names a tenant.
LEMMA StoredTenant ==
  ASSUME TypeOK, NEW e \in idempotency
  PROVE  e.slot[1] \in Tenants /\ e.answer.incident \in Incidents \cup {None}
  <1>1. e.slot \in Slots /\ e.answer \in AnswerType
    BY DEF TypeOK
  <1>2. PICK q \in Request : e.slot = Slot(q)
    BY <1>1 DEF Slots
  <1>3. QED
    BY <1>1, <1>2, SlotTenant DEF AnswerType

\* Every step keeps tenants apart.
LEMMA TenantStep == Inv /\ TenantInv /\ [Next]_vars => TenantInv'
  <1> SUFFICES ASSUME Inv, TenantInv, [Next]_vars PROVE TenantInv'
    OBVIOUS
  <1>1. CASE ~\E r \in Requests : Commit(r)
    BY <1>1, QuietStep DEF TenantInv, AnswersOwned, EventsOwned
  <1>2. ASSUME NEW r \in Requests, Commit(r) PROVE TenantInv'
    <2> DEFINE i == target[r]
               ev == [seq |-> row[r].cursor + 1, type |-> EventType(req[r]),
                      by |-> r]
    <2>1. /\ i \in Incidents /\ req[r] \in Request
          /\ incident'[i].tenant = req[r].tenant
          /\ incident[i] = AbsentRow \/ incident[i].tenant = req[r].tenant
          /\ \A j \in Incidents : j # i => incident'[j] = incident[j]
      BY <1>2, CommitOwned
    <2>2. /\ projection' = [projection EXCEPT ![i] = projection[i] \cup {ev}]
          /\ idempotency' = idempotency \cup {StoredAnswer(r)}
          /\ req' = req
      BY <1>2 DEF Commit, StoredAnswer
    <2>3. AnswersOwned'
      <3> SUFFICES ASSUME NEW e \in idempotency', e.answer.incident # None
                   PROVE  incident'[e.answer.incident].tenant = e.slot[1]
        BY DEF AnswersOwned
      <3>1. CASE e = StoredAnswer(r)
        <4>1. e.slot = Slot(req[r]) /\ e.answer.incident \in {i, None}
          BY <3>1 DEF StoredAnswer, AnswerOf, Answer
        <4>2. QED
          BY <2>1, <4>1, SlotTenant
      <3>2. CASE e \in idempotency
        <4>1. /\ e.answer.incident \in Incidents /\ e.slot[1] \in Tenants
              /\ incident[e.answer.incident].tenant = e.slot[1]
          BY <3>2, StoredTenant DEF Inv, TenantInv, AnswersOwned
        <4>2. CASE e.answer.incident = i
          <5>1. incident[i] # AbsentRow
            BY <4>1, <4>2, NoneAssumption DEF AbsentRow
          <5>2. QED
            BY <2>1, <4>1, <4>2, <5>1
        <4>3. QED
          BY <2>1, <4>1, <4>2
      <3>3. QED
        BY <2>2, <3>1, <3>2
    <2>4. EventsOwned'
      <3> SUFFICES ASSUME NEW j \in Incidents, NEW e \in projection'[j], e.by # None
                   PROVE  incident'[j].tenant = req[e.by].tenant
        BY <2>2 DEF EventsOwned
      <3>1. CASE j # i
        <4>1. projection'[j] = projection[j]
          BY <2>1, <2>2, <3>1 DEF Inv, TypeOK
        <4>2. QED
          BY <2>1, <3>1, <4>1 DEF TenantInv, EventsOwned
      <3>2. CASE j = i /\ e = ev
        BY <2>1, <3>2
      <3>3. CASE j = i /\ e \in projection[i]
        <4>1. incident[i] # AbsentRow
          BY <2>1, <3>3, AbsentHasNoEvents
        <4>2. QED
          BY <2>1, <3>3, <4>1 DEF TenantInv, EventsOwned
      <3>4. projection'[i] = projection[i] \cup {ev}
        BY <2>1, <2>2 DEF Inv, TypeOK
      <3>5. QED
        BY <3>1, <3>2, <3>3, <3>4
    <2>5. QED
      BY <2>3, <2>4 DEF TenantInv
  <1>3. QED
    BY <1>1, <1>2

\* No accepted answer and no event crosses from one tenant to another,
\* whatever incident ids and keys the commands of other tenants name.
THEOREM TenantsAreIsolated == Spec => []TenantIsolation
  <1>1. Init => TenantInv
    BY DEF Init, TenantInv, AnswersOwned, EventsOwned, CreatedEvent
  <1>2. Inv /\ TenantInv => TenantIsolation
    <2> SUFFICES ASSUME Inv, TenantInv PROVE TenantIsolation
      OBVIOUS
    <2>1. ASSUME NEW r \in Requests, reply[r].status = "ok",
                 reply[r].answer.incident # None
          PROVE  incident[reply[r].answer.incident].tenant = req[r].tenant
      <3> DEFINE x == [slot |-> Slot(req[r]), digest |-> Digest(req[r]),
                       answer |-> reply[r].answer]
      <3>1. x \in idempotency
        BY <2>1 DEF Inv, AnswerStored
      <3>2. x.slot[1] = req[r].tenant
        BY DEF Slot
      <3>3. QED
        BY <2>1, <3>1, <3>2 DEF TenantInv, AnswersOwned
    <2>2. QED
      BY <2>1 DEF TenantInv, EventsOwned, TenantIsolation
  <1>3. QED
    BY <1>1, <1>2, TenantStep, Invariance, PTL DEF Spec

-----------------------------------------------------------------------------
(***************************************************************************)
(* Approvals.                                                              *)
(***************************************************************************)

\* The primary key of pending_approval: one row per action.
PendingInv ==
  \A i \in Incidents : \A p, q \in pending[i] : p.action = q.action => p = q

\* Only approvals decide.
LEMMA ApprovalType ==
  ASSUME NEW q \in Request
  PROVE  /\ EventType(q) = "EVT-ACTION-APPROVAL-DECIDED" <=> q.op = "approval"
         /\ q.op = "approval" => q.action \in ActionIds /\ q.digest \in ActionDigests
  BY RequestFields DEF EventType, Ops, Request, IncidentCreate, CancelRequest,
                       FeedbackRequest, ApprovalRequest

\* What COMMIT does to the projection and the pending rows of its incident.
LEMMA CommitSpends ==
  ASSUME Inv, PendingInv, NEW r \in Requests, Commit(r),
         NEW i \in Incidents, i = target[r]
  PROVE  LET ev == [seq |-> row[r].cursor + 1, type |-> EventType(req[r]),
                    by |-> r]
             p == [action |-> req[r].action, digest |-> req[r].digest]
         IN /\ projection'[i] \ projection[i] = {ev}
            /\ req[r].op = "approval" => pending[i] \ pending'[i] = {p}
            /\ req[r].op # "approval" => pending' = pending
            /\ \A j \in Incidents : j # i =>
                 projection'[j] = projection[j] /\ pending'[j] = pending[j]
            /\ \A j \in Incidents : pending'[j] \subseteq pending[j]
  <1> DEFINE ev == [seq |-> row[r].cursor + 1, type |-> EventType(req[r]),
                    by |-> r]
             p == [action |-> req[r].action, digest |-> req[r].digest]
  <1>1. /\ pc[r] = "saved" /\ req[r] \in Request /\ HoldsRow(r)
        /\ projection' = [projection EXCEPT ![i] = projection[i] \cup {ev}]
        /\ pending' = Consumed(r)
    BY DEF Commit, Inv, Serving, InTransaction, RowHeld
  <1>2. ev \notin projection[i]
    <2>1. ev.by = r /\ r # None
      BY RequestsAssumption
    <2>2. QED
      BY <1>1, <2>1 DEF Inv, EventsCommitted
  <1>3. projection'[i] = projection[i] \cup {ev}
    BY <1>1 DEF Inv, TypeOK
  <1>4. projection'[i] \ projection[i] = {ev}
    BY <1>2, <1>3
  <1>5. \A j \in Incidents : j # i =>
          projection'[j] = projection[j] /\ pending'[j] = pending[j]
    BY <1>1 DEF Inv, TypeOK, Consumed
  <1>6. req[r].op # "approval" => pending' = pending
    BY <1>1 DEF Consumed
  <1>7. ASSUME req[r].op = "approval"
        PROVE  /\ pending'[i] = {x \in pending[i] : x.action # req[r].action}
               /\ p \in pending[i]
    <2>1. pending' = [pending EXCEPT ![i] =
                        {x \in pending[i] : x.action # req[r].action}]
      BY <1>1, <1>7 DEF Consumed
    <2>2. req[r].incident = i /\ ~Conflicting(req[r])
      BY <1>1, <1>7 DEF HoldsRow
    <2>3. QED
      BY <1>7, <2>1, <2>2 DEF Conflicting, Inv, TypeOK
  <1>8. ASSUME req[r].op = "approval" PROVE pending[i] \ pending'[i] = {p}
    <2>1. \A x \in pending[i] : x.action = req[r].action => x = p
      <3>1. p.action = req[r].action
        OBVIOUS
      <3> HIDE DEF p
      <3>2. QED
        BY <1>7, <1>8, <3>1 DEF PendingInv
    <2>2. p.action = req[r].action
      OBVIOUS
    <2> HIDE DEF p
    <2>3. QED
      BY <1>7, <1>8, <2>1, <2>2
  <1>9. \A j \in Incidents : pending'[j] \subseteq pending[j]
    BY <1>5, <1>6, <1>7
  <1> HIDE DEF ev, p
  <1>10. QED
    BY <1>4, <1>5, <1>6, <1>8, <1>9 DEF ev, p

\* Other steps decide nothing and take no pending row away.
LEMMA OthersSpendNothing ==
  ASSUME Inv, [Next]_vars, ~\E r \in Requests : Commit(r)
  PROVE  /\ projection' = projection
         /\ \A i \in Incidents : pending[i] \subseteq pending'[i]
  <1>1. projection' = projection
    BY QuietStep
  <1>2. ASSUME NEW i \in Incidents, NEW a \in ActionIds, NEW d \in ActionDigests,
               ProposeAction(i, a, d)
        PROVE  \A j \in Incidents : pending[j] \subseteq pending'[j]
    BY <1>2 DEF ProposeAction, Inv, TypeOK
  <1>3. CASE ~\E i \in Incidents, a \in ActionIds, d \in ActionDigests :
               ProposeAction(i, a, d)
    <2>1. pending' = pending
      BY <1>3
      DEF Next, Receive, CheckIdempotency, Step, InsertIncident, LockIncident,
          SaveIdempotency, Publish, Fail, tables, vars
    <2>2. QED
      BY <1>1, <2>1
  <1>4. QED
    BY <1>1, <1>2, <1>3

\* Every step keeps one pending row per action.
LEMMA PendingStep == Inv /\ PendingInv /\ [Next]_vars => PendingInv'
  <1> SUFFICES ASSUME Inv, PendingInv, [Next]_vars PROVE PendingInv'
    OBVIOUS
  <1>1. ASSUME NEW r \in Requests, Commit(r) PROVE PendingInv'
    <2>1. PICK i \in Incidents : i = target[r]
      BY <1>1 DEF Commit, Inv, Serving, InTransaction, RowHeld
    <2>2. \A j \in Incidents : pending'[j] \subseteq pending[j]
      BY <1>1, <2>1, CommitSpends
    <2>3. QED
      BY <2>2 DEF PendingInv
  <1>2. ASSUME NEW i \in Incidents, NEW a \in ActionIds, NEW d \in ActionDigests,
               ProposeAction(i, a, d)
        PROVE  PendingInv'
    <2>1. /\ \A p \in pending[i] : p.action # a
          /\ pending'[i] = pending[i] \cup {[action |-> a, digest |-> d]}
          /\ \A j \in Incidents : j # i => pending'[j] = pending[j]
      BY <1>2 DEF ProposeAction, Inv, TypeOK
    <2>2. QED
      BY <2>1 DEF PendingInv
  <1>3. CASE /\ ~\E r \in Requests : Commit(r)
             /\ ~\E i \in Incidents, a \in ActionIds, d \in ActionDigests :
                   ProposeAction(i, a, d)
    <2>1. pending' = pending
      BY <1>3
      DEF Next, Receive, CheckIdempotency, Step, InsertIncident, LockIncident,
          SaveIdempotency, Publish, Fail, tables, vars
    <2>2. QED
      BY <2>1 DEF PendingInv
  <1>4. QED
    BY <1>1, <1>2, <1>3

\* No action is pending at the start.
LEMMA PendingInit == Init => PendingInv
  BY DEF Init, PendingInv

\* However many approvals of one action are in flight, each decision is taken
\* on a pending proposal with the digest the approver sent, and uses it up.
THEOREM DecisionsSpendProposals == Spec => DecisionSpendsProposal
  <1> DEFINE Spends(i) == /\ pending[i] \ pending'[i] = Spent(i)
                          /\ Cardinality(Decided(i)) <= 1
  <1>1. ASSUME NEW i \in Incidents, projection'[i] = projection[i],
               pending[i] \subseteq pending'[i]
        PROVE  Spends(i)
    <2>1. Decided(i) = {}
      BY <1>1 DEF Decided
    <2>2. Spent(i) = {} /\ Cardinality(Decided(i)) = 0
      BY <2>1, FS_EmptySet DEF Spent
    <2>3. QED
      BY <1>1, <2>2
  <1>2. ASSUME Inv, PendingInv, NEW r \in Requests, Commit(r),
               NEW i \in Incidents
        PROVE  Spends(i)
    <2> DEFINE ev == [seq |-> row[r].cursor + 1, type |-> EventType(req[r]),
                      by |-> r]
               p == [action |-> req[r].action, digest |-> req[r].digest]
    <2>1. PICK t \in Incidents : t = target[r] /\ req[r] \in Request
      BY <1>2 DEF Commit, Inv, Serving, InTransaction, RowHeld
    <2>2. /\ projection'[t] \ projection[t] = {ev}
          /\ req[r].op = "approval" => pending[t] \ pending'[t] = {p}
          /\ req[r].op # "approval" => pending' = pending
          /\ t # i => projection'[i] = projection[i] /\ pending'[i] = pending[i]
      BY <1>2, <2>1, CommitSpends
    <2>3. CASE t # i
      BY <1>1, <2>2, <2>3
    <2>4. CASE t = i /\ req[r].op = "approval"
      <3>1. ev.type = "EVT-ACTION-APPROVAL-DECIDED" /\ ev.by = r
        BY <2>1, <2>4, ApprovalType
      <3>2. Decided(i) = {ev}
        BY <2>2, <2>4, <3>1 DEF Decided
      <3>3. Spent(i) = {p}
        BY <3>1, <3>2 DEF Spent
      <3>4. Cardinality({ev}) = 1
        BY FS_Singleton
      <3> HIDE DEF ev, p
      <3>5. pending[i] \ pending'[i] = Spent(i)
        BY <2>2, <2>4, <3>3
      <3>6. QED
        BY <3>2, <3>4, <3>5
    <2>5. CASE t = i /\ req[r].op # "approval"
      <3>1. ev.type # "EVT-ACTION-APPROVAL-DECIDED"
        BY <2>1, <2>5, ApprovalType
      <3>2. Decided(i) = {}
        BY <2>2, <2>5, <3>1 DEF Decided
      <3>3. Spent(i) = {} /\ Cardinality(Decided(i)) = 0
        BY <3>2, FS_EmptySet DEF Spent
      <3>4. pending[i] \ pending'[i] = {}
        BY <2>2, <2>5
      <3>5. QED
        BY <3>3, <3>4
    <2>6. QED
      BY <2>3, <2>4, <2>5
  <1>3. Inv /\ PendingInv /\ [Next]_vars => [\A i \in Incidents : Spends(i)]_vars
    <2> SUFFICES ASSUME Inv, PendingInv, [Next]_vars, NEW i \in Incidents
                 PROVE  Spends(i)
      OBVIOUS
    <2>1. CASE \E r \in Requests : Commit(r)
      BY <1>2, <2>1
    <2>2. CASE ~\E r \in Requests : Commit(r)
      <3>1. projection' = projection /\ pending[i] \subseteq pending'[i]
        BY <2>2, OthersSpendNothing
      <3>2. QED
        BY <1>1, <3>1
    <2>3. QED
      BY <2>1, <2>2
  <1>4. Spec => []PendingInv
    BY PendingInit, PendingStep, Invariance, PTL DEF Spec
  <1>5. QED
    BY <1>3, <1>4, Invariance, PTL
    DEF Spec, DecisionSpendsProposal

-----------------------------------------------------------------------------
(***************************************************************************)
(* PostgresIncidentStore implements IncidentLog, for every number of       *)
(* tenants, keys, incidents and concurrent handlers: COMMIT is the one     *)
(* append of a command, and no other step of a handler can be observed.    *)
(***************************************************************************)

CancelType == "EVT-INCIDENT-CANCEL-REQUESTED"

\* What state and state_version of a row say about its events.  The abstract
\* log has neither column: it counts cancel events.
RowShape(i) ==
  /\ incident[i].state = "ABSENT" => incident[i] = AbsentRow
  /\ incident[i].state # "ABSENT" => incident[i].tenant \in Tenants
  /\ incident[i].state = "NEW" =>
       incident[i].version = 0 /\ \A e \in projection[i] : e.type # CancelType
  /\ incident[i].state = "CANCELLED" =>
       /\ incident[i].version = 1
       /\ \E c \in projection[i] : \A e \in projection[i] :
            e.type = CancelType <=> e = c

ShapeInv == \A i \in Incidents : RowShape(i)

\* Only cancels append a cancel event, only creates a creation event.
LEMMA CancelsCancel ==
  ASSUME NEW q \in Request
  PROVE  /\ EventType(q) = CancelType <=> q.op = "cancel"
         /\ EventType(q) \in EventTypes
  BY RequestFields, EventTypeInSet DEF EventType, Ops, CancelType

\* A row that belongs to a tenant is the row of an existing incident.
LEMMA OwnedExists ==
  ASSUME Inv, ShapeInv, NEW i \in Incidents, incident[i].tenant \in Tenants
  PROVE  incident[i].state \in {"NEW", "CANCELLED"}
  <1>1. incident[i] # AbsentRow
    BY NoneAssumption DEF AbsentRow
  <1>2. QED
    BY <1>1 DEF ShapeInv, RowShape, Inv, TypeOK, Row, States

\* COMMIT keeps state, version and events of its incident in agreement.
LEMMA CommitShape ==
  ASSUME Inv, ShapeInv, NEW r \in Requests, Commit(r)
  PROVE  ShapeInv'
  <1> DEFINE ev == [seq |-> row[r].cursor + 1, type |-> EventType(req[r]),
                    by |-> r]
  <1>0. PICK i \in Incidents : i = target[r]
    BY DEF Commit, Inv, Serving, InTransaction
  <1>1. /\ req[r] \in Request /\ HoldsRow(r)
        /\ incident' = [incident EXCEPT ![i] = Written(r)]
        /\ projection' = [projection EXCEPT ![i] = projection[i] \cup {ev}]
    BY <1>0 DEF Commit, Inv, Serving, InTransaction, RowHeld
  <1>2. /\ incident'[i] = Written(r)
        /\ projection'[i] = projection[i] \cup {ev}
        /\ \A j \in Incidents : j # i =>
             incident'[j] = incident[j] /\ projection'[j] = projection[j]
    BY <1>1 DEF Inv, TypeOK
  <1>3. ASSUME NEW j \in Incidents, j # i PROVE RowShape(j)'
    BY <1>2, <1>3 DEF ShapeInv, RowShape
  <1>4. /\ req[r].op \in Ops /\ req[r].tenant \in Tenants
        /\ ev.type = CancelType <=> req[r].op = "cancel"
    BY <1>1, RequestFields, CancelsCancel
  <1> HIDE DEF ev
  <1>5. ASSUME req[r].op = "create" PROVE RowShape(i)'
    <2>1. incident[i] = AbsentRow /\ row[r] = NewRow(req[r].tenant, 0)
      BY <1>0, <1>1, <1>5 DEF HoldsRow
    <2>2. projection'[i] = {ev}
      BY <1>2, <2>1, AbsentHasNoEvents
    <2>3. /\ Written(r).state = "NEW" /\ Written(r).version = 0
          /\ Written(r).tenant = req[r].tenant
      BY <1>5, <2>1 DEF Written, NewRow
    <2>4. QED
      BY <1>2, <1>4, <1>5, <2>2, <2>3 DEF RowShape
  <1>6. ASSUME req[r].op # "create" PROVE RowShape(i)'
    <2>1. /\ row[r] = incident[i] /\ incident[i].tenant = req[r].tenant
          /\ incident[i].version = req[r].version
          /\ req[r].op = "cancel" => incident[i].state \notin Terminal
      BY <1>0, <1>1, <1>6 DEF HoldsRow, Owned, Conflicting
    <2>2. incident[i].state \in {"NEW", "CANCELLED"}
      BY <1>4, <2>1, OwnedExists
    <2>3. Written(r).tenant \in Tenants
      BY <1>4, <2>1 DEF Written
    <2>4. CASE req[r].op = "cancel"
      <3>1. incident[i].state = "NEW"
        BY <2>1, <2>2, <2>4 DEF Terminal
      <3>2. incident[i].version = 0 /\ \A e \in projection[i] : e.type # CancelType
        BY <3>1 DEF ShapeInv, RowShape
      <3>3. Written(r).state = "CANCELLED" /\ Written(r).version = 1
        BY <2>1, <2>4, <3>2 DEF Written
      <3>4. \A e \in projection'[i] : e.type = CancelType <=> e = ev
        BY <1>2, <1>4, <2>4, <3>2
      <3>5. QED
        BY <1>2, <2>3, <3>3, <3>4 DEF RowShape
    <2>5. CASE req[r].op # "cancel"
      <3>1. /\ Written(r).state = incident[i].state
            /\ Written(r).version = incident[i].version
        BY <2>1, <2>5 DEF Written
      <3>2. RowShape(i)
        BY DEF ShapeInv
      <3>3. ev.type # CancelType
        BY <1>4, <2>5
      <3>4. QED
        BY <1>2, <2>2, <2>3, <3>1, <3>2, <3>3 DEF RowShape
    <2>6. QED
      BY <2>4, <2>5
  <1>7. RowShape(i)'
    BY <1>5, <1>6
  <1>8. QED
    BY <1>3, <1>7 DEF ShapeInv

\* So does every other step, which changes neither.
LEMMA ShapeStep == Inv /\ ShapeInv /\ [Next]_vars => ShapeInv'
  <1> SUFFICES ASSUME Inv, ShapeInv, [Next]_vars PROVE ShapeInv'
    OBVIOUS
  <1>1. CASE \E r \in Requests : Commit(r)
    BY <1>1, CommitShape
  <1>2. CASE ~\E r \in Requests : Commit(r)
    <2>1. incident' = incident /\ projection' = projection
      BY <1>2, QuietStep
    <2>2. QED
      BY <2>1 DEF ShapeInv, RowShape
  <1>3. QED
    BY <1>1, <1>2

\* The incidents a run starts with were created and nothing else.
LEMMA ShapeInit == Init => ShapeInv
  BY ExistingAssumption
  DEF Init, ShapeInv, RowShape, NewRow, AbsentRow, CreatedEvent, CancelType

-----------------------------------------------------------------------------
(***************************************************************************)
(* Reading the log of an incident off its projection.                      *)
(***************************************************************************)

LogOf(i) ==
  [n \in 1..incident[i].cursor |-> (CHOOSE e \in projection[i] : e.seq = n).type]

\* ORDER BY seq over a contiguous projection finds each event at its own place.
LEMMA ReadInOrder ==
  ASSUME NEW S, NEW c \in Nat, {e.seq : e \in S} = 1..c,
         \A e, f \in S : e.seq = f.seq => e = f
  PROVE  /\ \A e \in S : e.seq \in 1..c /\ (CHOOSE x \in S : x.seq = e.seq) = e
         /\ \A n \in 1..c : \E e \in S : e.seq = n
  <1>1. ASSUME NEW e \in S
        PROVE  e.seq \in 1..c /\ (CHOOSE x \in S : x.seq = e.seq) = e
    <2>1. e.seq \in 1..c
      OBVIOUS
    <2>2. (CHOOSE x \in S : x.seq = e.seq) \in S
          /\ (CHOOSE x \in S : x.seq = e.seq).seq = e.seq
      OBVIOUS
    <2>3. QED
      BY <2>1, <2>2
  <1>2. ASSUME NEW n \in 1..c PROVE \E e \in S : e.seq = n
    OBVIOUS
  <1>3. QED
    BY <1>1, <1>2

\* The log of an incident is a sequence of event types as long as its cursor.
LEMMA LogOfIsSeq ==
  ASSUME Inv, NEW i \in Incidents
  PROVE  /\ incident[i].cursor \in Nat
         /\ LogOf(i) \in Seq(EventTypes) /\ Len(LogOf(i)) = incident[i].cursor
         /\ DOMAIN LogOf(i) = 1..incident[i].cursor
         /\ \A e \in projection[i] : e.seq \in DOMAIN LogOf(i)
                                     /\ LogOf(i)[e.seq] = e.type
         /\ \A n \in DOMAIN LogOf(i) : \E e \in projection[i] : e.seq = n
  <1> DEFINE S == projection[i]
             c == incident[i].cursor
  <1>1. c \in Nat /\ S \subseteq Event
    BY DEF Inv, TypeOK, Row
  <1>2. {e.seq : e \in S} = 1..c /\ \A e, f \in S : e.seq = f.seq => e = f
    BY DEF Inv, ProjectionContiguous
  <1> HIDE DEF S, c
  <1>3. /\ \A e \in S : e.seq \in 1..c /\ (CHOOSE x \in S : x.seq = e.seq) = e
        /\ \A n \in 1..c : \E e \in S : e.seq = n
    BY <1>1, <1>2, ReadInOrder
  <1>4. \A n \in 1..c : (CHOOSE x \in S : x.seq = n).type \in EventTypes
    BY <1>1, <1>3 DEF Event
  <1>5. LogOf(i) = [n \in 1..c |-> (CHOOSE x \in S : x.seq = n).type]
    BY DEF LogOf, S, c
  <1>6. LogOf(i) \in Seq(EventTypes) /\ Len(LogOf(i)) = c
    BY <1>1, <1>4, <1>5
  <1>7. \A e \in S : LogOf(i)[e.seq] = e.type
    BY <1>3, <1>5
  <1>8. DOMAIN LogOf(i) = 1..c
    BY <1>5
  <1>9. QED
    BY <1>1, <1>3, <1>6, <1>7, <1>8 DEF S, c

\* COMMIT appends the event of its command to the log of its incident.
LEMMA CommitAppends ==
  ASSUME Inv, Inv', NEW r \in Requests, Commit(r),
         NEW i \in Incidents, i = target[r]
  PROVE  LogOf(i)' = Append(LogOf(i), EventType(req[r]))
  <1> DEFINE S == projection[i]
             c == incident[i].cursor
             ev == [seq |-> c + 1, type |-> EventType(req[r]), by |-> r]
             L == LogOf(i)
             M == [n \in 1..c + 1 |->
                     (CHOOSE e \in S \cup {ev} : e.seq = n).type]
  <1>1. /\ row[r].cursor = c /\ incident'[i] = Written(r) /\ req[r] \in Request
        /\ projection'[i] = S \cup {ev}
    BY DEF Commit, Inv, TypeOK, Serving, Locking, InTransaction
  <1>2. /\ c \in Nat /\ L \in Seq(EventTypes) /\ Len(L) = c
        /\ \A e \in S : e.seq \in 1..c /\ L[e.seq] = e.type
        /\ \A n \in 1..c : \E e \in S : e.seq = n
    BY LogOfIsSeq
  <1>3. incident'[i].cursor = c + 1
    BY <1>1 DEF Written
  <1>4. LogOf(i)' = M
    BY <1>1, <1>3 DEF LogOf
  <1>5. /\ {e.seq : e \in S \cup {ev}} = 1..c + 1
        /\ \A e, f \in S \cup {ev} : e.seq = f.seq => e = f
    BY <1>1, <1>3 DEF Inv, ProjectionContiguous
  <1>6. ev.seq = c + 1 /\ ev.type = EventType(req[r])
    OBVIOUS
  <1>7. EventType(req[r]) \in EventTypes
    BY <1>1, EventTypeInSet
  <1> HIDE DEF S, c, ev, L
  <1>8. \A e \in S \cup {ev} :
          (CHOOSE x \in S \cup {ev} : x.seq = e.seq) = e
    BY <1>2, <1>5, ReadInOrder
  <1>9. \A e \in S \cup {ev} : M[e.seq] = e.type
    <2> TAKE e \in S \cup {ev}
    <2>1. e.seq \in 1..c + 1
      BY <1>5
    <2>2. M[e.seq] = (CHOOSE x \in S \cup {ev} : x.seq = e.seq).type
      BY <2>1
    <2>3. QED
      BY <1>8, <2>2
  <1>10. \A n \in 1..c : M[n] = L[n]
    <2> HIDE DEF M
    <2>1. QED
      BY <1>2, <1>9
  <1> HIDE DEF M
  <1>11. \A n \in 1..c + 1 : M[n] = Append(L, EventType(req[r]))[n]
    BY <1>2, <1>6, <1>7, <1>9, <1>10
  <1>12. Append(L, EventType(req[r])) \in Seq(EventTypes)
         /\ Len(Append(L, EventType(req[r]))) = c + 1
    BY <1>2, <1>7
  <1>13. M = Append(L, EventType(req[r]))
    <2>1. Append(L, EventType(req[r])) = [n \in 1..c + 1 |-> Append(L, EventType(req[r]))[n]]
      BY <1>2, <1>12
    <2>2. M = [n \in 1..c + 1 |-> M[n]]
      BY DEF M
    <2>3. QED
      BY <1>11, <2>1, <2>2
  <1>14. QED
    BY <1>4, <1>13 DEF L

-----------------------------------------------------------------------------
(***************************************************************************)
(* The refinement, step by step.                                           *)
(***************************************************************************)

\* The three columns of the mapping that change at COMMIT.
OwnerOf == [i \in Incidents |-> incident[i].tenant]
LogsOf == [i \in Incidents |-> LogOf(i)]
AnsweredOf == {[slot |-> e.slot, digest |-> e.digest] : e \in idempotency}

\* Both specifications count with the same operator.
LEMMA SameCount == \A S : Log!Cardinality(S) = Cardinality(S)
  <1> SUFFICES ASSUME NEW S PROVE Log!Cardinality(S) = Cardinality(S)
    OBVIOUS
  <1>1. QED
    BY Zenon DEF Log!Cardinality, Cardinality

\* state_version is the number of cancel events, and CANCELLED says there is
\* one.
LEMMA VersionCountsCancels ==
  ASSUME Inv, ShapeInv, NEW i \in Incidents, incident[i].tenant \in Tenants
  PROVE  /\ Log!Version(i) = incident[i].version
         /\ Log!Cancelled(i) <=> incident[i].state = "CANCELLED"
  <1> DEFINE L == LogOf(i)
             C == {n \in DOMAIN L : L[n] = CancelType}
  <1>1. Log!Cancels(i) = C
    BY DEF Log!Cancels, LogOf, CancelType
  <1>2. /\ \A e \in projection[i] : e.seq \in DOMAIN L /\ L[e.seq] = e.type
        /\ \A n \in DOMAIN L : \E e \in projection[i] : e.seq = n
    BY LogOfIsSeq
  <1> HIDE DEF L
  <1>3. CASE incident[i].state = "NEW"
    <2>1. incident[i].version = 0 /\ \A e \in projection[i] : e.type # CancelType
      BY <1>3 DEF ShapeInv, RowShape
    <2>2. C = {}
      BY <1>2, <2>1
    <2>3. QED
      BY <1>1, <1>3, <2>1, <2>2, FS_EmptySet, SameCount DEF Log!Version, Log!Cancelled
  <1>4. CASE incident[i].state = "CANCELLED"
    <2>1. incident[i].version = 1
      BY <1>4 DEF ShapeInv, RowShape
    <2>2. PICK k \in projection[i] : \A e \in projection[i] :
            e.type = CancelType <=> e = k
      BY <1>4 DEF ShapeInv, RowShape
    <2>3. C = {k.seq}
      BY <1>2, <2>2
    <2>4. Cardinality({k.seq}) = 1
      BY FS_Singleton
    <2>5. QED
      BY <1>1, <1>4, <2>1, <2>3, <2>4, SameCount DEF Log!Version, Log!Cancelled
  <1>5. QED
    BY <1>3, <1>4, OwnedExists

\* A command means the same to both specifications.
LEMMA SameCommands ==
  /\ Log!Request = Request
  /\ \A q : Log!Slot(q) = Slot(q) /\ Log!Digest(q) = Digest(q)
  /\ \A q : Log!EventType(q) = EventType(q)
  <1>1. Log!Request = Request
    BY DEF Log!Request, Request, Log!IncidentCreate, IncidentCreate,
           Log!CancelRequest, CancelRequest, Log!FeedbackRequest, FeedbackRequest,
           Log!ApprovalRequest, ApprovalRequest
  <1>2. ASSUME NEW q PROVE Log!Slot(q) = Slot(q) /\ Log!Digest(q) = Digest(q)
    BY DEF Log!Slot, Slot, Log!Digest, Digest
  <1>3. ASSUME NEW q PROVE Log!EventType(q) = EventType(q)
    BY Zenon DEF Log!EventType, EventType
  <1>4. QED
    BY <1>1, <1>2, <1>3

\* COMMIT stores the answer of an unused key and appends one event.
LEMMA CommitIsAppend ==
  ASSUME Inv, Inv', NEW r \in Requests, Commit(r),
         NEW i \in Incidents, i = target[r]
  PROVE  Log!Append1(i, req[r])
  <1>1. /\ idempotency' = idempotency \cup {StoredAnswer(r)}
        /\ \A e \in idempotency : e.slot # Slot(req[r])
        /\ projection' = [projection EXCEPT ![i] = projection'[i]]
        /\ incident' = [incident EXCEPT ![i] = incident'[i]]
    BY DEF Commit, StoredAnswer, Inv, KeyReserved, TypeOK
  <1>2. \A e \in AnsweredOf : e.slot # Slot(req[r])
    BY <1>1 DEF AnsweredOf
  <1>3. AnsweredOf' = AnsweredOf \cup
          {[slot |-> Slot(req[r]), digest |-> Digest(req[r])]}
    <2>1. /\ StoredAnswer(r).slot = Slot(req[r])
          /\ StoredAnswer(r).digest = Digest(req[r])
      BY DEF StoredAnswer
    <2> HIDE DEF StoredAnswer
    <2>2. QED
      BY <1>1, <2>1 DEF AnsweredOf
  <1>4. LogsOf' = [LogsOf EXCEPT ![i] = Append(@, EventType(req[r]))]
    <2>1. LogOf(i)' = Append(LogOf(i), EventType(req[r]))
      BY CommitAppends
    <2>2. ASSUME NEW j \in Incidents, j # i PROVE LogOf(j)' = LogOf(j)
      <3>1. projection'[j] = projection[j] /\ incident'[j] = incident[j]
        BY <1>1, <2>2 DEF Inv, TypeOK
      <3>2. QED
        BY <3>1 DEF LogOf
    <2>3. QED
      BY <2>1, <2>2 DEF LogsOf
  <1>5. QED
    BY <1>2, <1>3, <1>4, SameCommands DEF Log!Append1, AnsweredOf, LogsOf, LogOf

\* COMMIT is the append of its command: what the handler checked statements
\* earlier is still true of the abstract log.
LEMMA CommitRefines ==
  ASSUME Inv, Inv', ShapeInv, PendingInv, NEW r \in Requests, Commit(r)
  PROVE  Log!Next
  <1>0. PICK i \in Incidents : i = target[r]
    BY DEF Commit, Inv, Serving, InTransaction
  <1>q. PICK q \in Request : q = req[r]
    BY DEF Commit, Inv, Serving
  <1> DEFINE p == [action |-> q.action, digest |-> q.digest]
  <1>1. /\ q \in Request /\ HoldsRow(r) /\ pending' = Consumed(r)
        /\ q.op \in Ops /\ q.tenant \in Tenants
    BY RequestFields DEF Commit, Inv, InTransaction, RowHeld
  <1>2. Log!Append1(i, q)
    BY <1>0, <1>q, CommitIsAppend DEF Log!Append1
  <1>3. /\ incident'[i].tenant = q.tenant
        /\ \A j \in Incidents : j # i => incident'[j] = incident[j]
    BY <1>0, <1>q, CommitOwned
  <1>4. OwnerOf' = [OwnerOf EXCEPT ![i] = q.tenant]
    BY <1>3 DEF OwnerOf
  <1>5. CASE q.op = "create"
    <2>1. OwnerOf[i] = None
      BY <1>q, <1>0, <1>1, <1>5 DEF HoldsRow, AbsentRow, OwnerOf
    <2>2. pending' = pending
      BY <1>q, <1>1, <1>5 DEF Consumed
    <2>3. Log!Create(i, q)
      BY <1>2, <1>4, <1>5, <2>1, <2>2 DEF Log!Create, OwnerOf
    <2>4. QED
      BY <1>1, <2>3, SameCommands DEF Log!Next
  <1>6. CASE q.op # "create"
    <2>1. /\ q.incident = i /\ incident[i].tenant = q.tenant
          /\ incident[i].version = q.version
          /\ q.op = "cancel" => incident[i].state \notin Terminal
          /\ q.op = "approval" => p \in pending[i]
      BY <1>q, <1>0, <1>1, <1>6 DEF HoldsRow, Owned, Conflicting
    <2>2. OwnerOf[i] = q.tenant /\ OwnerOf' = OwnerOf
      BY <1>4, <2>1 DEF OwnerOf
    <2>3. /\ Log!Version(i) = q.version
          /\ Log!Cancelled(i) <=> incident[i].state = "CANCELLED"
      BY <1>1, <2>1, VersionCountsCancels
    <2>4. Log!Addresses(i, q)
      BY <2>1, <2>2, <2>3 DEF Log!Addresses, OwnerOf
    <2>5. CASE q.op = "cancel"
      <3>1. ~Log!Cancelled(i)
        BY <2>1, <2>3, <2>5 DEF Terminal
      <3>2. pending' = pending
        BY <1>q, <1>1, <2>5 DEF Consumed
      <3>3. Log!Cancel(i, q)
        BY <1>2, <2>2, <2>4, <2>5, <3>1, <3>2 DEF Log!Cancel, OwnerOf
      <3>4. QED
        BY <1>1, <3>3, SameCommands DEF Log!Next
    <2>6. CASE q.op = "feedback"
      <3>1. pending' = pending
        BY <1>q, <1>1, <2>6 DEF Consumed
      <3>2. Log!Feedback(i, q)
        BY <1>2, <2>2, <2>4, <2>6, <3>1 DEF Log!Feedback, OwnerOf
      <3>3. QED
        BY <1>1, <3>2, SameCommands DEF Log!Next
    <2>7. CASE q.op = "approval"
      <3>1. q.action \in ActionIds /\ p \in pending[i]
        BY <1>1, <2>1, <2>7, ApprovalType
      <3>2. \A x \in pending[i] : x.action = q.action => x = p
        BY <3>1 DEF PendingInv
      <3>3. {x \in pending[i] : x.action # q.action} = pending[i] \ {p}
        BY <3>2
      <3>4. pending' = [pending EXCEPT ![i] = pending[i] \ {p}]
        BY <1>q, <1>0, <1>1, <2>7, <3>3 DEF Consumed
      <3>5. Log!Decide(i, q)
        BY <1>2, <2>2, <2>4, <2>7, <3>1, <3>4 DEF Log!Decide, OwnerOf
      <3>6. QED
        BY <1>1, <3>5, SameCommands DEF Log!Next
    <2>8. QED
      BY <1>1, <1>6, <2>5, <2>6, <2>7 DEF Ops
  <1>7. QED
    BY <1>5, <1>6

\* A proposal is a proposal on an incident that has an owner.
LEMMA ProposeRefines ==
  ASSUME Inv, ShapeInv, NEW i \in Incidents, NEW a \in ActionIds,
         NEW d \in ActionDigests, ProposeAction(i, a, d)
  PROVE  Log!Next
  <1>1. OwnerOf[i] # None
    <2>1. incident[i] # AbsentRow
      BY DEF ProposeAction
    <2>2. incident[i].tenant \in Tenants
      BY <2>1 DEF ShapeInv, RowShape
    <2>3. QED
      BY <2>2, NoneAssumption DEF OwnerOf
  <1>2. UNCHANGED <<OwnerOf, LogsOf, AnsweredOf>>
    BY DEF ProposeAction, OwnerOf, LogsOf, LogOf, AnsweredOf
  <1>3. Log!Propose(i, a, d)
    BY <1>1, <1>2 DEF ProposeAction, Log!Propose, OwnerOf, LogsOf, LogOf, AnsweredOf
  <1>4. QED
    BY <1>3 DEF Log!Next

\* Every other step of a handler changes nothing the log shows.
LEMMA OthersStutter ==
  ASSUME [Next]_vars, ~\E r \in Requests : Commit(r),
         ~\E i \in Incidents, a \in ActionIds, d \in ActionDigests :
            ProposeAction(i, a, d)
  PROVE  UNCHANGED Log!logVars
  <1>1. UNCHANGED <<incident, projection, idempotency, pending>>
    BY DEF Next, Receive, CheckIdempotency, Step, InsertIncident, LockIncident,
           SaveIdempotency, Publish, Fail, tables, vars
  <1>2. UNCHANGED <<OwnerOf, LogsOf, AnsweredOf, pending>>
    BY <1>1 DEF OwnerOf, LogsOf, LogOf, AnsweredOf
  <1>3. QED
    BY <1>2 DEF Log!logVars, OwnerOf, LogsOf, LogOf, AnsweredOf

\* The database a run starts from is the log the abstract store starts from.
LEMMA InitRefines == Init => Log!Init
  <1> SUFFICES ASSUME Init PROVE Log!Init
    OBVIOUS
  <1>1. OwnerOf = [i \in Incidents |-> IF i \in DOMAIN Existing
                                         THEN Existing[i] ELSE None]
    BY DEF Init, OwnerOf, NewRow, AbsentRow
  <1>2. ASSUME NEW i \in Incidents
        PROVE  LogOf(i) = IF i \in DOMAIN Existing
                            THEN <<"EVT-INCIDENT-CREATED">> ELSE <<>>
    <2>1. CASE i \in DOMAIN Existing
      <3>1. projection[i] = {CreatedEvent} /\ incident[i].cursor = 1
        BY <2>1 DEF Init, NewRow
      <3>2. /\ CreatedEvent.seq = 1
            /\ CreatedEvent.type = "EVT-INCIDENT-CREATED"
        BY DEF CreatedEvent
      <3>3. (CHOOSE e \in {CreatedEvent} : e.seq = 1) = CreatedEvent
        BY <3>2
      <3>4. LogOf(i) = [n \in 1..1 |-> "EVT-INCIDENT-CREATED"]
        <4>1. \A n \in 1..1 : (CHOOSE e \in projection[i] : e.seq = n).type
                                = "EVT-INCIDENT-CREATED"
          <5> TAKE n \in 1..1
          <5>1. n = 1
            OBVIOUS
          <5>2. QED
            BY <3>1, <3>2, <3>3, <5>1
        <4>2. QED
          BY <3>1, <4>1 DEF LogOf
      <3>5. QED
        BY <2>1, <3>4
    <2>2. CASE i \notin DOMAIN Existing
      <3>1. incident[i].cursor = 0
        BY <2>2 DEF Init, AbsentRow
      <3>2. QED
        BY <2>2, <3>1 DEF LogOf
    <2>3. QED
      BY <2>1, <2>2
  <1>3. LogsOf = [i \in Incidents |-> IF i \in DOMAIN Existing
                                        THEN <<"EVT-INCIDENT-CREATED">> ELSE <<>>]
    BY <1>2 DEF LogsOf
  <1>4. AnsweredOf = {} /\ pending = [i \in Incidents |-> {}]
    BY DEF Init, AnsweredOf
  <1>5. QED
    BY <1>1, <1>3, <1>4 DEF Log!Init, OwnerOf, LogsOf, LogOf, AnsweredOf

\* Every step of the store is one step of the log or leaves it alone.
LEMMA StepRefines ==
  Inv /\ Inv' /\ ShapeInv /\ PendingInv /\ [Next]_vars => [Log!Next]_Log!logVars
  <1> SUFFICES ASSUME Inv, Inv', ShapeInv, PendingInv, [Next]_vars
               PROVE  [Log!Next]_Log!logVars
    OBVIOUS
  <1>1. CASE \E r \in Requests : Commit(r)
    BY <1>1, CommitRefines
  <1>2. CASE \E i \in Incidents, a \in ActionIds, d \in ActionDigests :
               ProposeAction(i, a, d)
    BY <1>2, ProposeRefines
  <1>3. QED
    BY <1>1, <1>2, OthersStutter

\* The durable store implements the incident log for any number of concurrent
\* handlers: the version, owner, key and pending action a handler checked under
\* its row lock still hold when COMMIT makes its one append visible.
THEOREM StoreImplementsLog == Spec => ImplementsLog
  <1>1. Spec => []Inv
    BY Invariance
  <1>2. Spec => []ShapeInv
    BY <1>1, ShapeInit, ShapeStep, PTL DEF Spec
  <1>3. Spec => []PendingInv
    BY <1>1, PendingInit, PendingStep, PTL DEF Spec
  <1>4. QED
    BY <1>1, <1>2, <1>3, InitRefines, StepRefines, PTL
    DEF Spec, ImplementsLog, Log!Spec

=============================================================================
