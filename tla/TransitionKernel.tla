-------------------------- MODULE TransitionKernel --------------------------
(***************************************************************************)
(* TransitionKernel.decide for one owner service: which transition request *)
(* is legal against the state its caller has read, and the decision it     *)
(* yields.  Contract tables are CONSTANTS; error codes are not told apart, *)
(* the facts behind the guard predicates are one Boolean, and the SHA-256  *)
(* digests are the tuples of the fields they are taken over.               *)
(***************************************************************************)
EXTENDS Naturals

CONSTANTS
  Transitions,    \* rows of the state machine: id, from, to, actor, command, versioned
  Terminals,      \* terminal_states
  InitialState,   \* initial_state
  Idempotency,    \* idempotency policy of each command
  VersionCheck,   \* version_check policy of each command
  Aggregates,     \* aggregate ids of the machine
  Keys,           \* idempotency keys callers supply
  Actors,         \* components that send commands
  Nobody          \* absence of a value

Policies == {"required", "derived", "not_applicable"}
Checks == {"state_version", "fencing_token", "digest_and_state_version"}
MachineStates == {t.from : t \in Transitions} \cup {t.to : t \in Transitions}

\* What __init__ refuses to be built with.
ASSUME ContractAssumption ==
  /\ Terminals \subseteq MachineStates /\ InitialState \in MachineStates
  /\ \A t \in Transitions :
       /\ t.actor \in Actors
       /\ t.command \in DOMAIN Idempotency /\ t.command \in DOMAIN VersionCheck
  /\ \A t, u \in Transitions : t.id = u.id => t = u
  /\ \A c \in DOMAIN Idempotency : Idempotency[c] \in Policies
  /\ \A c \in DOMAIN VersionCheck : VersionCheck[c] \in Checks
ASSUME NobodyAssumption == Nobody \notin Keys

\* Mutant: the fencing token is not compared.
VersionsMatchUnfenced(q, t, cur) == q.expected = cur.version

\* _check_versions; `versioned' says that the transition's preconditions name
\* expected_state_version.
VersionsMatch(q, t, cur) ==
  /\ t.versioned \/ VersionCheck[q.command] # "fencing_token" =>
       q.expected = cur.version
  /\ VersionCheck[q.command] = "fencing_token" =>
       cur.token # 0 /\ q.token = cur.token
  /\ VersionCheck[q.command] = "digest_and_state_version" =>
       cur.digest # Nobody /\ q.digest = cur.digest

\* _idempotency_key accepts what the caller supplied.
KeyAllowed(q) == (Idempotency[q.command] = "required") <=> (q.key # Nobody)

\* The effective key; a derived one depends on the version it was derived at.
EffectiveKey(q, t, cur) ==
  CASE Idempotency[q.command] = "required"       -> <<"caller", q.key>>
    [] Idempotency[q.command] = "derived"        ->
         <<"derived", q.aggregate, q.command, t.id, cur.version>>
    [] Idempotency[q.command] = "not_applicable" -> <<"none">>

\* decide does not raise.
Legal(q, t, cur) ==
  /\ cur.state \notin Terminals /\ cur.state = t.from
  /\ q.actor = t.actor /\ q.command = t.command
  /\ VersionsMatch(q, t, cur) /\ KeyAllowed(q) /\ q.facts

\* The TransitionDecision; request_digest covers all of the request and the
\* state it was decided against.
Decision(q, t, cur) ==
  [aggregate |-> q.aggregate, id |-> t.id, from |-> cur.state, to |-> t.to,
   version |-> cur.version, next |-> cur.version + 1, command |-> q.command,
   token |-> q.token, key |-> EffectiveKey(q, t, cur),
   digest |-> <<q.aggregate, q.actor, q.command, q.expected, q.token, q.digest,
                EffectiveKey(q, t, cur), t.id, cur.state, cur.version>>]
=============================================================================
