---------------------------- MODULE ControlStore ----------------------------
(***************************************************************************)
(* PostgresIncidentStore: the durable store behind the Control API, one    *)
(* READ COMMITTED transaction per command, any number of commands in       *)
(* flight on the asyncio loop.                                             *)
(*                                                                         *)
(* A command is a program counter over the awaits of its handler:          *)
(*   idle -> checked     the idempotency row was looked up and is absent    *)
(*   checked -> locked   the incident row is held FOR UPDATE (a create has  *)
(*                       inserted its own row) and the guards passed        *)
(*   locked -> saved     the api_idempotency insert succeeded               *)
(*   saved -> committed  COMMIT made every write visible                    *)
(*   committed -> done   _publish ran and the answer was returned           *)
(* Uncommitted writes are visible to nobody else, so the tables change at  *)
(* COMMIT; what an open transaction holds (row lock, unique-index entry)   *)
(* is read off the program counters.                                       *)
(***************************************************************************)
EXTENDS ControlRequests, FiniteSets

CONSTANTS
  Requests,       \* handler invocations
  Existing        \* owner of each incident created before the run starts

ASSUME ExistingAssumption ==
  /\ DOMAIN Existing \subseteq Incidents
  /\ \A i \in DOMAIN Existing : Existing[i] \in Tenants
ASSUME RequestsAssumption == None \notin Requests

VARIABLES
  incident,       \* incident_owner.incident, one row per id
  projection,     \* incident_owner.event_projection, a set of rows per id
  idempotency,    \* incident_owner.api_idempotency, a set of rows
  pending,        \* incident_owner.pending_approval, a set of rows per id
  pc,             \* where each handler is
  req,            \* the command each handler serves
  target,         \* the incident a handler has locked or inserted
  row,            \* the incident row a handler read under its lock
  reply           \* what the client of each handler was told

tables == <<incident, projection, idempotency, pending>>
handler == <<pc, req, target, row, reply>>
vars == <<tables, handler>>

States == {"ABSENT", "NEW", "CANCELLED"}
Row == [state : States, tenant : Tenants \cup {None}, version : Nat,
        cursor : Nat]
AbsentRow == [state |-> "ABSENT", tenant |-> None, version |-> 0, cursor |-> 0]
NewRow(t, c) == [state |-> "NEW", tenant |-> t, version |-> 0, cursor |-> c]

Event == [seq : Nat, type : EventTypes, by : Requests \cup {None}]
CreatedEvent == [seq |-> 1, type |-> "EVT-INCIDENT-CREATED", by |-> None]

PendingAction == [action : ActionIds, digest : ActionDigests]

NoRequest == [op |-> "none", tenant |-> None, key |-> None, incident |-> None,
              version |-> 0, body |-> None, action |-> None, digest |-> None]

\* IncidentSnapshot, FeedbackResult and ApprovalResult in one record: `by'
\* stands for the fresh feedback_id, and fields a result lacks are None.
Answer(q, i, w, by) ==
  [incident |-> IF q.op \in {"create", "cancel"} THEN i ELSE None,
   state    |-> IF q.op \in {"create", "cancel"} THEN w.state ELSE "none",
   version  |-> IF q.op = "feedback" THEN 0 ELSE w.version,
   cursor   |-> IF q.op \in {"create", "cancel"} THEN w.cursor ELSE 0,
   feedback |-> IF q.op = "feedback" THEN by ELSE None,
   action   |-> q.action,
   decision |-> IF q.op = "approval" THEN q.body ELSE None]

NoAnswer == [incident |-> None, state |-> "none", version |-> 0, cursor |-> 0,
             feedback |-> None, action |-> None, decision |-> None]

\* "conflict" is 409, "not_found" 404, "duplicate" the uncaught
\* UniqueViolationError and "failed" any other 500 or a dropped connection.
Statuses == {"none", "ok", "conflict", "not_found", "duplicate", "failed"}
NoReply == [status |-> "none", answer |-> NoAnswer]
Refusal(status) == [status |-> status, answer |-> NoAnswer]
Accepted(a) == [status |-> "ok", answer |-> a]

-----------------------------------------------------------------------------

Init ==
  /\ incident = [i \in Incidents |-> IF i \in DOMAIN Existing
                                       THEN NewRow(Existing[i], 1) ELSE AbsentRow]
  /\ projection = [i \in Incidents |-> IF i \in DOMAIN Existing
                                         THEN {CreatedEvent} ELSE {}]
  /\ idempotency = {}
  /\ pending = [i \in Incidents |-> {}]
  /\ pc = [r \in Requests |-> "idle"]
  /\ req = [r \in Requests |-> NoRequest]
  /\ target = [r \in Requests |-> None]
  /\ row = [r \in Requests |-> AbsentRow]
  /\ reply = [r \in Requests |-> NoReply]

\* The handler returns or raises.
Finish(r, answer) ==
  /\ pc' = [pc EXCEPT ![r] = "done"]
  /\ reply' = [reply EXCEPT ![r] = answer]

Goto(r, label) == pc' = [pc EXCEPT ![r] = label] /\ UNCHANGED reply

\* Mutant: a finished handler never gives its row lock back.
RowLockedForever(r, i) ==
  \E o \in Requests \ {r} :
    pc[o] \in {"locked", "saved", "committed", "done"} /\ target[o] = i

\* A transaction of another handler holds the row of incident i.
RowLocked(r, i) ==
  \E o \in Requests \ {r} : pc[o] \in {"locked", "saved"} /\ target[o] = i

\* Another open transaction has inserted the same idempotency key.
KeyInFlight(r) ==
  \E o \in Requests \ {r} : pc[o] = "saved" /\ Slot(req[o]) = Slot(req[r])

\* Committed api_idempotency rows under the key of q.
Prior(q) == {e \in idempotency : e.slot = Slot(q)}

-----------------------------------------------------------------------------
(***************************************************************************)
(* The statements of a handler.                                            *)
(***************************************************************************)

\* Acquire a connection, open the transaction and look the key up.  A row
\* with the same digest is the answer; one with another digest is a 409.
CheckIdempotency(r, q) ==
  /\ pc[r] = "idle"
  /\ req' = [req EXCEPT ![r] = q]
  /\ \/ /\ Prior(q) = {}
        /\ Goto(r, "checked")
     \/ \E e \in Prior(q) :
          Finish(r, IF e.digest = Digest(q) THEN Accepted(e.answer)
                    ELSE Refusal("conflict"))
  /\ UNCHANGED <<tables, target, row>>

\* INSERT INTO incident under a fresh UUID.  The row in hand carries cursor 0
\* so that the creation event takes sequence 1 like every other append.
InsertIncident(r) ==
  /\ pc[r] = "checked" /\ req[r].op = "create"
  /\ \E i \in Incidents :
       /\ incident[i] = AbsentRow
       /\ \A o \in Requests : target[o] # i
       /\ target' = [target EXCEPT ![r] = i]
  /\ row' = [row EXCEPT ![r] = NewRow(req[r].tenant, 0)]
  /\ Goto(r, "locked")
  /\ UNCHANGED <<tables, req>>

Owned(q) == incident[q.incident].tenant = q.tenant

\* Mutant: cancel forgets that a terminal incident cannot be cancelled.
ConflictingIfStale(q) ==
  \/ incident[q.incident].version # q.version
  \/ /\ q.op = "approval"
     /\ [action |-> q.action, digest |-> q.digest] \notin pending[q.incident]

\* Mutant: the approver's digest is not compared with the pending one.
ConflictingUnlessPending(q) ==
  \/ incident[q.incident].version # q.version
  \/ q.op = "cancel" /\ incident[q.incident].state \in Terminal
  \/ q.op = "approval" /\ \A p \in pending[q.incident] : p.action # q.action

\* StateConflict and ApprovalConflict.
Conflicting(q) ==
  \/ incident[q.incident].version # q.version
  \/ q.op = "cancel" /\ incident[q.incident].state \in Terminal
  \/ /\ q.op = "approval"
     /\ [action |-> q.action, digest |-> q.digest] \notin pending[q.incident]

\* Mutant: the row is read without FOR UPDATE.
LockIncidentUnlocked(r) ==
  LET q == req[r] IN
  /\ pc[r] = "checked" /\ q.op # "create"
  /\ Owned(q) /\ ~Conflicting(q)
  /\ Goto(r, "locked")
  /\ target' = [target EXCEPT ![r] = q.incident]
  /\ row' = [row EXCEPT ![r] = incident[q.incident]]
  /\ UNCHANGED <<tables, req>>

\* _lock_incident and the checks made under the lock.  A row of another
\* tenant does not match the query, so it is neither locked nor waited for.
LockIncident(r) ==
  LET q == req[r] IN
  /\ pc[r] = "checked" /\ q.op # "create"
  /\ \/ /\ ~Owned(q)
        /\ Finish(r, Refusal("not_found"))
        /\ UNCHANGED <<target, row>>
     \/ /\ Owned(q) /\ ~RowLocked(r, q.incident) /\ Conflicting(q)
        /\ Finish(r, Refusal("conflict"))
        /\ UNCHANGED <<target, row>>
     \/ /\ Owned(q) /\ ~RowLocked(r, q.incident) /\ ~Conflicting(q)
        /\ Goto(r, "locked")
        /\ target' = [target EXCEPT ![r] = q.incident]
        /\ row' = [row EXCEPT ![r] = incident[q.incident]]
  /\ UNCHANGED <<tables, req>>

\* Mutant: api_idempotency without its primary key.
SaveIdempotencyUnchecked(r) ==
  /\ pc[r] = "locked"
  /\ Goto(r, "saved")
  /\ UNCHANGED <<tables, req, target, row>>

\* Mutant: without a transaction the event is already stored when the key
\* turns out to be taken.
SaveIdempotencyAutocommit(r) ==
  /\ pc[r] = "locked" /\ ~KeyInFlight(r)
  /\ \/ /\ Prior(req[r]) = {} /\ Goto(r, "saved")
        /\ UNCHANGED projection
     \/ /\ Prior(req[r]) # {} /\ Finish(r, Refusal("duplicate"))
        /\ projection' = [projection EXCEPT ![target[r]] = @ \cup
             {[seq |-> row[r].cursor + 1, type |-> EventType(req[r]), by |-> r]}]
  /\ UNCHANGED <<incident, idempotency, pending, req, target, row>>

\* _save_idempotency: the insert waits for an open transaction with the same
\* key and fails, uncaught, when that one has committed.
SaveIdempotency(r) ==
  /\ pc[r] = "locked" /\ ~KeyInFlight(r)
  /\ \/ Prior(req[r]) = {} /\ Goto(r, "saved")
     \/ Prior(req[r]) # {} /\ Finish(r, Refusal("duplicate"))
  /\ UNCHANGED <<tables, req, target, row>>

\* Mutant: cancel stores the name of the intermediate state.
WrittenCancelling(r) ==
  [state   |-> IF req[r].op = "cancel" THEN "CANCELLING" ELSE row[r].state,
   tenant  |-> row[r].tenant,
   version |-> IF req[r].op = "cancel" THEN req[r].version + 1
               ELSE row[r].version,
   cursor  |-> row[r].cursor + 1]

\* The incident row a handler writes back.
Written(r) ==
  [state   |-> IF req[r].op = "cancel" THEN "CANCELLED" ELSE row[r].state,
   tenant  |-> row[r].tenant,
   version |-> IF req[r].op = "cancel" THEN req[r].version + 1
               ELSE row[r].version,
   cursor  |-> row[r].cursor + 1]

AnswerOf(r) == Answer(req[r], target[r], Written(r), r)

\* Mutant: the decision is recorded and its pending row kept.
ConsumedNothing(r) == pending

\* The pending row of a decided action is deleted.
Consumed(r) ==
  IF req[r].op = "approval"
  THEN [pending EXCEPT ![target[r]] = {p \in @ : p.action # req[r].action}]
  ELSE pending

\* COMMIT: the row update, the event, the answer and the consumed approval
\* become visible together.
Commit(r) ==
  /\ pc[r] = "saved"
  /\ incident' = [incident EXCEPT ![target[r]] = Written(r)]
  /\ projection' = [projection EXCEPT ![target[r]] = @ \cup
       {[seq |-> row[r].cursor + 1, type |-> EventType(req[r]), by |-> r]}]
  /\ idempotency' = idempotency \cup
       {[slot |-> Slot(req[r]), digest |-> Digest(req[r]),
         answer |-> AnswerOf(r)]}
  /\ pending' = Consumed(r)
  /\ Goto(r, "committed")
  /\ UNCHANGED <<req, target, row>>

\* _publish to the local subscribers, then return.
Publish(r) ==
  /\ pc[r] = "committed"
  /\ Finish(r, Accepted(AnswerOf(r)))
  /\ UNCHANGED <<tables, req, target, row>>

\* command_timeout, a lost connection or a cancelled task: an open
\* transaction rolls back; after COMMIT the write stays but neither _publish
\* nor the answer happens.
Fail(r) ==
  /\ pc[r] \in {"checked", "locked", "saved", "committed"}
  /\ Finish(r, Refusal("failed"))
  /\ UNCHANGED <<tables, req, target, row>>

\* External: the action owner proposes an action, or an already decided one
\* again; the primary key allows one pending row per action.
ProposeAction(i, a, d) ==
  /\ incident[i] # AbsentRow
  /\ \A p \in pending[i] : p.action # a
  /\ pending' = [pending EXCEPT ![i] = @ \cup {[action |-> a, digest |-> d]}]
  /\ UNCHANGED <<incident, projection, idempotency, handler>>

-----------------------------------------------------------------------------

\* Bound: a create is only sent while an unused incident id remains for it.
IdsRemain ==
  LET unused == {i \in Incidents : /\ incident[i] = AbsentRow
                                   /\ \A o \in Requests : target[o] # i}
      creating == {r \in Requests : pc[r] = "checked" /\ req[r].op = "create"}
  IN Cardinality(unused) > Cardinality(creating)

Receive(r) ==
  \E q \in Request : /\ q.op = "create" => IdsRemain
                     /\ CheckIdempotency(r, q)

\* What the handler itself does next, once it has a command.
Step(r) ==
  \/ InsertIncident(r)
  \/ LockIncident(r)
  \/ SaveIdempotency(r)
  \/ Commit(r)
  \/ Publish(r)

Next ==
  \/ \E r \in Requests : Receive(r)
  \/ \E r \in Requests : Step(r)
  \/ \E r \in Requests : Fail(r)
  \/ \E i \in Incidents, a \in ActionIds, d \in ActionDigests :
       ProposeAction(i, a, d)

Spec == Init /\ [][Next]_vars

\* The event loop and PostgreSQL keep running every admitted handler.
FairSpec == Spec /\ \A r \in Requests : WF_vars(Step(r))

-----------------------------------------------------------------------------
(***************************************************************************)
(* Properties.                                                             *)
(***************************************************************************)

Handlers == {"idle", "checked", "locked", "saved", "committed", "done"}
Slots == {Slot(q) : q \in Request}
Digests == {Digest(q) : q \in Request}
AnswerType ==
  [incident : Incidents \cup {None}, state : States \cup {"none"},
   version : Nat, cursor : Nat, feedback : Requests \cup {None},
   action : ActionIds \cup {None}, decision : Bodies \cup {None}]

\* Every table and handler field holds a value of its column type.
TypeOK ==
  /\ incident \in [Incidents -> Row]
  /\ projection \in [Incidents -> SUBSET Event]
  /\ idempotency \subseteq [slot : Slots, digest : Digests,
                            answer : AnswerType]
  /\ pending \in [Incidents -> SUBSET PendingAction]
  /\ pc \in [Requests -> Handlers]
  /\ req \in [Requests -> Request \cup {NoRequest}]
  /\ target \in [Requests -> Incidents \cup {None}]
  /\ row \in [Requests -> Row]
  /\ reply \in [Requests -> [status : Statuses, answer : AnswerType]]

\* The projection of an incident is exactly the sequences 1..event_cursor,
\* each used once: concurrent commands on one incident neither reuse nor
\* skip a sequence, whatever commits, fails or waits on the row lock.
ProjectionContiguous ==
  \A i \in Incidents :
    /\ {e.seq : e \in projection[i]} = 1..incident[i].cursor
    /\ \A e, f \in projection[i] : e.seq = f.seq => e = f

\* A key is applied at most once: no two events in any projection come from
\* commands with the same tenant, operation and Idempotency-Key, even when
\* the commands run concurrently or the first one's answer was lost.
AppliedOnce ==
  \A i, j \in Incidents : \A e \in projection[i], f \in projection[j] :
    /\ e.by # None /\ f.by # None
    /\ Slot(req[e.by]) = Slot(req[f.by])
    => e = f /\ i = j

\* Every accepted command was told the one answer stored under its key, so
\* all accepted commands with one key got the same answer and sent the same
\* digest.
OneAnswerPerKey ==
  \A r \in Requests : reply[r].status = "ok" =>
    Prior(req[r]) = {[slot |-> Slot(req[r]), digest |-> Digest(req[r]),
                      answer |-> reply[r].answer]}

\* A command takes effect whole or not at all: one that was refused (404, 409
\* or the 500 of a unique violation) left no event behind, and one that
\* failed, at whichever await, left either both its event and its stored
\* answer or neither.
RefusedLeavesNoTrace ==
  /\ \A i \in Incidents : \A e \in projection[i] :
       e.by # None =>
         /\ reply[e.by].status \notin {"conflict", "not_found", "duplicate"}
         /\ \E x \in idempotency : /\ x.slot = Slot(req[e.by])
                                   /\ x.digest = Digest(req[e.by])
  /\ \A x \in idempotency : \E i \in Incidents : \E e \in projection[i] :
       e.by # None /\ Slot(req[e.by]) = x.slot

\* The decisions a step makes visible, and the proposals they were made on.
Decided(i) == {e \in projection'[i] \ projection[i] :
                 e.type = "EVT-ACTION-APPROVAL-DECIDED"}
Spent(i) == {[action |-> req[e.by].action, digest |-> req[e.by].digest] :
               e \in Decided(i)}

\* A decision spends the proposal it was made on: whenever a decision event
\* becomes visible, the action was pending with the very digest the approver
\* sent, and exactly that row disappears with it; no row disappears without
\* its decision.  So racing approvals of one proposal decide it once.
DecisionSpendsProposal ==
  [][\A i \in Incidents : /\ pending[i] \ pending'[i] = Spent(i)
                          /\ Cardinality(Decided(i)) <= 1]_vars

\* Nobody learns of, or changes, another tenant's incident: an accepted
\* answer names an incident of the caller's tenant, and so does every event.
TenantIsolation ==
  /\ \A r \in Requests :
       reply[r].status = "ok" /\ reply[r].answer.incident # None
         => incident[reply[r].answer.incident].tenant = req[r].tenant
  /\ \A i \in Incidents : \A e \in projection[i] :
       e.by # None => incident[i].tenant = req[e.by].tenant

\* A terminal incident keeps its state and state_version for ever, and a
\* state_version moves only together with a state change.
TerminalStable ==
  [][\A i \in Incidents :
       /\ incident[i].state \in Terminal =>
            /\ incident'[i].state = incident[i].state
            /\ incident'[i].version = incident[i].version
       /\ incident[i].state # "ABSENT" =>
            (incident'[i].version # incident[i].version
               <=> incident'[i].state # incident[i].state)]_vars

\* Every admitted command is answered: lock and key waits cannot form a
\* cycle, because every handler takes the row before the key.
EveryRequestAnswered ==
  \A r \in Requests : pc[r] = "checked" ~> pc[r] = "done"

\* Refinement mapping: the log of an incident is its projection read in
\* sequence order, up to the event_cursor of its row.
Log ==
  INSTANCE IncidentLog WITH
    owner    <- [i \in Incidents |-> incident[i].tenant],
    log      <- [i \in Incidents |->
                   [n \in 1..incident[i].cursor |->
                      (CHOOSE e \in projection[i] : e.seq = n).type]],
    answered <- {[slot |-> e.slot, digest |-> e.digest] : e \in idempotency},
    open     <- pending

\* The store implements the log: every COMMIT is one atomic append whose
\* preconditions (version, ownership, pending action, unused key), checked
\* statements earlier, still hold when it becomes visible; no other step of
\* a handler is observable.
ImplementsLog == Log!Spec

\* CONTROL_API_RUNTIME.md: "Same key and digest returns the original
\* response".  Read at the moment a handler answers: if the key is already
\* stored with the same digest, the handler does not refuse.
DuplicateGetsOriginal ==
  [][\A r \in Requests :
       pc[r] # "done" /\ pc'[r] = "done"
         /\ (\E e \in Prior(req'[r]) : e.digest = Digest(req'[r]))
       => reply'[r].status \in {"ok", "failed"}]_vars
=============================================================================
