---------------------------- MODULE IncidentLog ----------------------------
(***************************************************************************)
(* What the Incident store promises: every incident is an append-only log  *)
(* of events, and a command either appends exactly one event and fixes the *)
(* answer of its idempotency key in one indivisible step, or changes       *)
(* nothing.  There are no rows, locks or transactions here: state, version *)
(* and cursor of an incident are read off its log.                         *)
(***************************************************************************)
EXTENDS ControlRequests, Sequences, FiniteSets

CONSTANTS
  Existing        \* owner of each incident created before the run starts

VARIABLES
  owner,          \* tenant of each incident, None while it does not exist
  log,            \* event types of each incident, oldest first
  answered,       \* slots that have an answer, with the digest they bind
  open            \* actions that wait for a decision, per incident

logVars == <<owner, log, answered, open>>

Cancels(i) == {n \in DOMAIN log[i] : log[i][n] = "EVT-INCIDENT-CANCEL-REQUESTED"}
Version(i) == Cardinality(Cancels(i))
Cancelled(i) == Cancels(i) # {}

Init ==
  /\ owner = [i \in Incidents |-> IF i \in DOMAIN Existing
                                    THEN Existing[i] ELSE None]
  /\ log = [i \in Incidents |-> IF i \in DOMAIN Existing
                                  THEN <<"EVT-INCIDENT-CREATED">> ELSE <<>>]
  /\ answered = {}
  /\ open = [i \in Incidents |-> {}]

\* The one step by which a command takes effect on incident i.
Append1(i, q) ==
  /\ \A e \in answered : e.slot # Slot(q)
  /\ answered' = answered \cup {[slot |-> Slot(q), digest |-> Digest(q)]}
  /\ log' = [log EXCEPT ![i] = Append(@, EventType(q))]

Create(i, q) ==
  /\ q.op = "create" /\ owner[i] = None
  /\ owner' = [owner EXCEPT ![i] = q.tenant]
  /\ Append1(i, q)
  /\ UNCHANGED open

\* A command on an existing incident of its own tenant at the version named.
Addresses(i, q) ==
  q.incident = i /\ owner[i] = q.tenant /\ Version(i) = q.version

Cancel(i, q) ==
  /\ q.op = "cancel" /\ Addresses(i, q) /\ ~Cancelled(i)
  /\ Append1(i, q)
  /\ UNCHANGED <<owner, open>>

Feedback(i, q) ==
  /\ q.op = "feedback" /\ Addresses(i, q)
  /\ Append1(i, q)
  /\ UNCHANGED <<owner, open>>

Decide(i, q) ==
  /\ q.op = "approval" /\ Addresses(i, q)
  /\ [action |-> q.action, digest |-> q.digest] \in open[i]
  /\ open' = [open EXCEPT ![i] = @ \ {[action |-> q.action, digest |-> q.digest]}]
  /\ Append1(i, q)
  /\ UNCHANGED owner

Propose(i, a, d) ==
  /\ owner[i] # None
  /\ \A p \in open[i] : p.action # a
  /\ open' = [open EXCEPT ![i] = @ \cup {[action |-> a, digest |-> d]}]
  /\ UNCHANGED <<owner, log, answered>>

Next ==
  \/ \E i \in Incidents, q \in Request :
       Create(i, q) \/ Cancel(i, q) \/ Feedback(i, q) \/ Decide(i, q)
  \/ \E i \in Incidents, a \in ActionIds, d \in ActionDigests : Propose(i, a, d)

Spec == Init /\ [][Next]_logVars
=============================================================================
