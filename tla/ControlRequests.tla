-------------------------- MODULE ControlRequests --------------------------
(***************************************************************************)
(* The commands of the Control API and what its Incident stores derive     *)
(* from a command alone: the idempotency slot, the request digest, the     *)
(* event type and the HTTP answer.  Payload text is abstracted to a member *)
(* of Bodies; SHA-256 over canonical JSON is modelled by the tuple of the  *)
(* fields it is taken over, which two requests share exactly when their    *)
(* digests agree.                                                          *)
(***************************************************************************)
EXTENDS Naturals

CONSTANTS
  Tenants,        \* tenant ids of the authenticated principals
  Keys,           \* Idempotency-Key header values
  Incidents,      \* incident ids (UUIDs) the store may hand out
  Bodies,         \* request payloads: specs, ratings and comments, decisions
  ActionIds,      \* ids of actions proposed for approval
  ActionDigests,  \* immutable action digests
  MaxVersion,     \* largest expected_state_version a client sends
  None            \* absence of a value

ASSUME NoneAssumption ==
  /\ None \notin Incidents
  /\ None \notin Tenants
  /\ None \notin ActionIds
  /\ None \notin ActionDigests
ASSUME MaxVersionAssumption == MaxVersion \in Nat

Ops == {"create", "cancel", "feedback", "approval"}

\* POST /v1/incidents, /cancel, /feedback and /approvals.
IncidentCreate ==
  [op : {"create"}, tenant : Tenants, key : Keys, incident : {None},
   version : {0}, body : Bodies, action : {None}, digest : {None}]
CancelRequest ==
  [op : {"cancel"}, tenant : Tenants, key : Keys, incident : Incidents,
   version : 0..MaxVersion, body : Bodies, action : {None}, digest : {None}]
FeedbackRequest ==
  [op : {"feedback"}, tenant : Tenants, key : Keys, incident : Incidents,
   version : 0..MaxVersion, body : Bodies, action : {None}, digest : {None}]
ApprovalRequest ==
  [op : {"approval"}, tenant : Tenants, key : Keys, incident : Incidents,
   version : 0..MaxVersion, body : Bodies, action : ActionIds,
   digest : ActionDigests]

Request == IncidentCreate \cup CancelRequest \cup FeedbackRequest
             \cup ApprovalRequest

\* Mutant: a lookup that forgot the tenant column of the primary key.
SlotWithoutTenant(q) == <<q.op, q.key>>

\* Primary key of incident_owner.api_idempotency.
Slot(q) == <<q.tenant, q.op, q.key>>

\* What request_digest hashes.  Only cancel hashes the incident id; its
\* reason is not hashed, and the other bodies are hashed without the id.
Digest(q) ==
  IF q.op = "cancel" THEN <<q.op, q.incident, q.version>>
  ELSE <<q.op, q.body, q.version, q.action, q.digest>>

Terminal == {"RESOLVED", "ESCALATED", "CANCELLED"}

EventTypes ==
  {"EVT-INCIDENT-CREATED", "EVT-INCIDENT-CANCEL-REQUESTED",
   "EVT-INCIDENT-FEEDBACK-RECORDED", "EVT-ACTION-APPROVAL-DECIDED"}

EventType(q) ==
  CASE q.op = "create"   -> "EVT-INCIDENT-CREATED"
    [] q.op = "cancel"   -> "EVT-INCIDENT-CANCEL-REQUESTED"
    [] q.op = "feedback" -> "EVT-INCIDENT-FEEDBACK-RECORDED"
    [] q.op = "approval" -> "EVT-ACTION-APPROVAL-DECIDED"
=============================================================================
