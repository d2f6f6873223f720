------------------------------ MODULE MCLeases ------------------------------
(***************************************************************************)
(* The two stores whose work is leased to workers that may outlive the     *)
(* lease, side by side in one run: StateStore on the runtime_task machine  *)
(* of the contracts, and TraceBuffer in operator_relay mode.  They share   *)
(* no state, so a behaviour is one of one of them and the other rests.     *)
(***************************************************************************)
EXTENDS StateStore, MCTraceBuffer, TLC

VARIABLE part   \* the store that runs

Tr(id, from, to, actor, command) ==
  [id |-> id, from |-> from, to |-> to, actor |-> actor, command |-> command,
   versioned |-> TRUE]

\* docs/contracts/state-machines/runtime_task.yaml
RuntimeTask == {
  Tr("LEASE", "PENDING", "LEASED", "SCHEDULER", "ACQUIRE-TASK-LEASE"),
  Tr("START", "LEASED", "RUNNING", "WORKER", "START-TASK-ATTEMPT"),
  Tr("LEASE-EXPIRE", "LEASED", "RETRY_WAIT", "SCHEDULER", "RETRY-TASK"),
  Tr("SUCCEED", "RUNNING", "SUCCEEDED", "WORKER", "COMPLETE-TASK"),
  Tr("PAUSE", "RUNNING", "PAUSED", "WORKER", "PAUSE-TASK"),
  Tr("RESUME", "PAUSED", "PENDING", "SCHEDULER", "RESUME-TASK"),
  Tr("RETRY", "RUNNING", "RETRY_WAIT", "SCHEDULER", "RETRY-TASK"),
  Tr("REQUEUE", "RETRY_WAIT", "PENDING", "SCHEDULER", "RETRY-TASK"),
  Tr("DEAD-LETTER", "RETRY_WAIT", "DEAD_LETTER", "SCHEDULER", "FAIL-TASK"),
  Tr("FAIL", "RUNNING", "FAILED", "WORKER", "FAIL-TASK"),
  Tr("CANCEL-PENDING", "PENDING", "CANCEL_REQUESTED", "SCHEDULER", "CANCEL-TASK"),
  Tr("CANCEL-LEASED", "LEASED", "CANCEL_REQUESTED", "SCHEDULER", "CANCEL-TASK"),
  Tr("CANCEL-RUNNING", "RUNNING", "CANCEL_REQUESTED", "SCHEDULER", "CANCEL-TASK"),
  Tr("CANCEL-PAUSED", "PAUSED", "CANCEL_REQUESTED", "SCHEDULER", "CANCEL-TASK"),
  Tr("CANCEL-RETRY", "RETRY_WAIT", "CANCEL_REQUESTED", "SCHEDULER", "CANCEL-TASK"),
  Tr("CANCEL-COMPLETE", "CANCEL_REQUESTED", "CANCELLED", "SCHEDULER", "CANCEL-TASK")}

RuntimeTaskTerminals == {"SUCCEEDED", "FAILED", "DEAD_LETTER", "CANCELLED"}

\* docs/contracts/COMMAND_EVENT_CATALOG.yaml
Fenced == {"START-TASK-ATTEMPT", "COMPLETE-TASK", "PAUSE-TASK", "FAIL-TASK"}
Derived == {"ACQUIRE-TASK-LEASE", "RETRY-TASK"}
Commands == Fenced \cup Derived \cup {"RESUME-TASK", "CANCEL-TASK"}

MCIdempotency ==
  [c \in Commands |-> IF c \in Derived THEN "derived" ELSE "required"]
MCVersionCheck ==
  [c \in Commands |-> IF c \in Fenced THEN "fencing_token" ELSE "state_version"]

\* One task runs through a second lease, another competes for its keys.
CONSTANTS task, other
MCMaxVersion == (task :> 4) @@ (other :> 1)
MCMaxCheckpoint == (task :> 2) @@ (other :> 0)

-----------------------------------------------------------------------------
LeasesInit == part \in {"state", "trace"} /\ StoreInit /\ TraceInit

LeasesNext ==
  /\ UNCHANGED part
  /\ \/ part = "state" /\ StoreNext /\ UNCHANGED traceVars
     \/ part = "trace" /\ TraceNext /\ UNCHANGED storeVars

LeasesSpec == LeasesInit /\ [][LeasesNext]_<<part, storeVars, traceVars>>

\* Callers, references and ingest handlers are interchangeable.
Interchangeable == Permutations(Callers) \cup Permutations(Traces) \cup Permutations(Ingests)
=============================================================================
