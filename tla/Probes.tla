------------------------------- MODULE Probes -------------------------------
(***************************************************************************)
(* The isolation probes of G02: run_access_matrix, run_trace_matrix and    *)
(* run_canary_matrix with the probe program they run on the server         *)
(* (deploy/g02/gate_probe.py).  A command provisions the principals' probe *)
(* secrets, measures the units of one matrix and keeps every unit in a     *)
(* TrialJournal, so that an interrupted command resumes.  The matrices     *)
(* share the provisioning only: a behaviour is about one of them, run any  *)
(* number of times, in any environment, at any commit.                     *)
(*                                                                         *)
(* A result is reduced to the environment its payload is bound to and to   *)
(* whether it is what the contract expects (access granted or refused,     *)
(* stage observed, no canary hit).                                         *)
(***************************************************************************)
EXTENDS TrialJournal, Sequences, FiniteSets

CONSTANTS
    Environments,   \* environment fingerprints
    Producers,      \* commits: part of the plan digest, not of the cache key
    NumPrincipals,  \* PRINCIPALS
    MatrixSize,     \* how many cells, stages and surfaces there are
    Granted,        \* the cells with expected_allow
    OwnerCells,     \* the cells of the canonical owner at LangSmith
    MaxPrograms,    \* bound: provisioning programs alive on the server
    MaxCommands     \* bound: commands

ASSUME ProbesAssumption ==
    /\ Environments \subseteq Nat \ {0}
    /\ Producers \subseteq Nat \ {0}
    /\ {NumPrincipals, MaxPrograms, MaxCommands} \subseteq Nat
    /\ MatrixSize \in [{"access", "trace", "canary"} -> Nat]

VARIABLES
    matrix,     \* "access", "trace" or "canary"
    secrets,    \* the cluster: what each principal's secret is bound to
    programs,   \* provisioning programs running on the server
    overlap,    \* history: one was started while another one was running
    journal,    \* provisioning, collection and one record per unit
    cmd,        \* the command that runs
    commands    \* how many were started

probeVars == <<matrix, secrets, programs, overlap, journal, cmd, commands>>

Size == MatrixSize[matrix]
ProbeUnits == 1..Size
NoSecret == [env |-> 0, sha |-> 0]
Unrecorded == [NoRecord EXCEPT !.key = 0, !.artifact = [env |-> 0, good |-> FALSE]]
Waiting == [pc |-> "idle", env |-> 0, sha |-> 0, at |-> 1, good |-> {}, found |-> <<>>, status |-> "none"]

ProbesInit ==
    /\ matrix \in {"access", "trace", "canary"}
    /\ secrets = [p \in 1..NumPrincipals |-> NoSecret]
    /\ programs = {}
    /\ overlap = FALSE
    /\ journal = [provisioning |-> Unrecorded, collection |-> Unrecorded,
                  unit |-> [u \in ProbeUnits |-> Unrecorded]]
    /\ cmd = Waiting
    /\ commands = 0

-----------------------------------------------------------------------------
(* Records.  The attempt number is not read and stays 0. *)

Bound(good) == [env |-> cmd.env, good |-> good]

Started(r) == [Begin(r, cmd.env) EXCEPT !.attempt = 0]

\* _finish: a record that is not running is begun first, in a write of its own.
NeedsBegin(r) == r.status # "running"

\* Mutant: the environment of the payload is not compared.
ReusableByKey(r) == r.status = "pass" /\ r.key = cmd.env

\* A record left running by a command in another environment keeps that one's key.
Reuses(r) == r.status = "pass" /\ r.key = cmd.env /\ r.artifact.env = cmd.env

Final(r) ==
    /\ r.status \in {"metric_fail", "blocked"}
    /\ r.key = cmd.env
    /\ r.artifact.env = cmd.env

\* The unit the command is at, and the writes of its record and of the collection's.
Unit == journal.unit[cmd.at]
Journal(r) == journal' = [journal EXCEPT !.unit[cmd.at] = r]
Collection(r) == journal' = [journal EXCEPT !.collection = r]

Report(status) == cmd' = [cmd EXCEPT !.pc = "report", !.status = status]

-----------------------------------------------------------------------------
(* Provisioning. *)

StartCommand ==
    /\ cmd.pc = "idle"
    /\ commands < MaxCommands
    /\ commands' = commands + 1
    /\ \E e \in Environments, s \in Producers :
          cmd' = [Waiting EXCEPT !.pc = "ensure", !.env = e, !.sha = s]
    /\ UNCHANGED <<matrix, secrets, programs, overlap, journal>>

\* An earlier pass is reused whatever commit it was provisioned for; a block is final.
EnsureProvisioned ==
    /\ cmd.pc = "ensure"
    /\ \/ Reuses(journal.provisioning) /\ cmd' = [cmd EXCEPT !.pc = "scan"]
       \/ Final(journal.provisioning) /\ Report("blocked")
    /\ UNCHANGED <<matrix, commands, secrets, programs, overlap, journal>>

\* Mutant: the record of the last provisioning stays until the new one is done.
ProvisioningBegunLate(j) == j

ProvisioningBegun(j) == [j EXCEPT !.provisioning = Started(j.provisioning)]

BeginProvisioning ==
    /\ cmd.pc = "ensure"
    /\ ~Reuses(journal.provisioning)
    /\ ~Final(journal.provisioning)
    /\ journal' = ProvisioningBegun(journal)
    /\ Cardinality(programs) < MaxPrograms
    /\ programs' = programs \cup {[id |-> commands, env |-> cmd.env, sha |-> cmd.sha,
                                   at |-> 1, retired |-> FALSE]}
    /\ cmd' = [cmd EXCEPT !.pc = "provision"]
    /\ overlap' = (overlap \/ programs # {})
    /\ UNCHANGED <<matrix, commands, secrets>>

Mine(p) == cmd.pc = "provision" /\ p.id = commands

Binding(p) == [env |-> p.env, sha |-> p.sha]

Becomes(p, q) == programs' = (programs \ {p}) \cup {q}

Advance(p) == Becomes(p, [p EXCEPT !.at = @ + 1, !.retired = FALSE])

\* ensure_principal_secret: one bound to other semantics is disabled and deleted first.
RetireSecret(p) ==
    /\ p.at <= NumPrincipals
    /\ ~p.retired
    /\ secrets[p.at] \notin {NoSecret, Binding(p)}
    /\ secrets' = [secrets EXCEPT ![p.at] = NoSecret]
    /\ Becomes(p, [p EXCEPT !.retired = TRUE])
    /\ UNCHANGED <<matrix, commands, overlap, journal, cmd>>

EnsureSecret(p) ==
    /\ p.at <= NumPrincipals
    /\ \/ secrets[p.at] = NoSecret
       \/ secrets[p.at] = Binding(p) /\ ~p.retired
    /\ secrets' = [secrets EXCEPT ![p.at] = Binding(p)]
    /\ Advance(p)
    /\ UNCHANGED <<matrix, commands, overlap, journal, cmd>>

Provisioned(status, good) ==
    journal' = [journal EXCEPT !.provisioning =
                    Finish(journal.provisioning, status, Bound(good))]

\* Users, roles and pods do not touch the secrets; then the program answers.
ProvisioningEnds(p) ==
    /\ p.at = NumPrincipals + 1
    /\ programs' = programs \ {p}
    /\ IF Mine(p)
       THEN /\ Provisioned("pass", TRUE)
            /\ cmd' = [cmd EXCEPT !.pc = "scan"]
       ELSE UNCHANGED <<journal, cmd>>
    /\ UNCHANGED <<matrix, commands, secrets, overlap>>

ProvisioningRefused(status) ==
    /\ Provisioned(status, FALSE)
    /\ Report(status)

\* A kubectl command, an image, a pod or the plan digest fails the program at any point.
ProgramFails(p) ==
    /\ programs' = programs \ {p}
    /\ IF Mine(p) THEN \E status \in {"infra_failed", "blocked"} : ProvisioningRefused(status)
       ELSE UNCHANGED <<journal, cmd>>
    /\ UNCHANGED <<matrix, commands, secrets, overlap>>

\* The connection is lost; the program on the server runs on.
LoseConnection ==
    /\ cmd.pc = "provision"
    /\ ProvisioningRefused("infra_failed")
    /\ UNCHANGED <<matrix, commands, secrets, programs, overlap>>

-----------------------------------------------------------------------------
(* The access matrix: one remote call per cell. *)

\* assert_provisioned: every secret has the environment and the plan of the request.
Asserted == \A p \in DOMAIN secrets : secrets[p] = [env |-> cmd.env, sha |-> cmd.sha]

(***************************************************************************)
(* The cell is tried with the principal's credentials.  A target that does *)
(* not answer is a failure of the infrastructure where access is expected, *)
(* and counts as refused where it is not.  The owner's key is tried from   *)
(* here, without a look at the cluster (_langsmith_access).                *)
(***************************************************************************)
CellOutcomes(u) ==
    IF ~Asserted /\ u \notin OwnerCells THEN {"blocked", "infra_failed"}
    ELSE {"blocked", "infra_failed"} \cup
         {IF allowed = (u \in Granted) THEN "pass" ELSE "metric_fail" : allowed \in BOOLEAN}

Found(r) == [cmd EXCEPT !.at = @ + 1, !.found = Append(@, r.artifact)]

InCells == cmd.pc = "scan" /\ matrix = "access" /\ cmd.at <= Size

ReuseCell ==
    /\ InCells
    /\ \/ Reuses(Unit) /\ cmd' = Found(Unit)
       \/ Final(Unit) /\ Report(Unit.status)
    /\ UNCHANGED <<matrix, commands, secrets, programs, overlap, journal>>

BeginCell ==
    /\ InCells
    /\ ~Reuses(Unit)
    /\ ~Final(Unit)
    /\ Journal(Started(Unit))
    /\ cmd' = [cmd EXCEPT !.pc = "cell"]
    /\ UNCHANGED <<matrix, commands, secrets, programs, overlap>>

AccessCell ==
    /\ cmd.pc = "cell"
    /\ \E status \in CellOutcomes(cmd.at) :
          /\ Journal(Finish(Unit, status, Bound(status = "pass")))
          /\ IF status = "pass"
             THEN cmd' = [cmd EXCEPT !.pc = "scan", !.at = @ + 1,
                                     !.found = Append(@, Bound(TRUE))]
             ELSE Report(status)
    /\ UNCHANGED <<matrix, commands, secrets, programs, overlap>>

-----------------------------------------------------------------------------
(* The trace and the canary matrix: one collection gives all the units. *)

Collects == matrix \in {"trace", "canary"}

\* A final unit ends the scan; one that is not reusable drops the others.
ScanUnits ==
    /\ cmd.pc = "scan"
    /\ Collects
    /\ cmd.at <= Size
    /\ IF Final(Unit) THEN Report(Unit.status)
       ELSE IF Reuses(Unit) THEN cmd' = Found(Unit)
       ELSE cmd' = [cmd EXCEPT !.pc = "recollect", !.at = 1, !.found = <<>>]
    /\ UNCHANGED <<matrix, commands, secrets, programs, overlap, journal>>

BeginCollection ==
    /\ cmd.pc = "recollect"
    /\ IF Final(journal.collection)
       THEN Report(journal.collection.status) /\ UNCHANGED journal
       ELSE /\ Collection(Started(journal.collection))
            /\ cmd' = [cmd EXCEPT !.pc = "collect"]
    /\ UNCHANGED <<matrix, commands, secrets, programs, overlap>>

(***************************************************************************)
(* trace submits one envelope, drains the service, waits for Tempo and     *)
(* relays to LangSmith: any of the stages may be missing from what Tempo   *)
(* holds.  canary submits two envelopes, which must be rejected and leave  *)
(* the backlog alone, and scans every surface: any may have a hit.         *)
(***************************************************************************)
ObservedStages == SUBSET ProbeUnits
CleanSurfaces == SUBSET ProbeUnits

\* A backlog that remains, an unreadable surface or drift fails the collection.
Collect ==
    /\ cmd.pc = "collect"
    /\ \/ /\ Asserted
          /\ \E good \in (IF matrix = "trace" THEN ObservedStages ELSE CleanSurfaces) :
                cmd' = [cmd EXCEPT !.pc = "unit", !.at = 1, !.good = good]
          /\ Collection(Finish(journal.collection, "pass", Bound(TRUE)))
       \/ \E status \in {"infra_failed", "blocked"} :
             /\ Collection(Finish(journal.collection, status, Bound(FALSE)))
             /\ Report(status)
    /\ UNCHANGED <<matrix, commands, secrets, programs, overlap>>

BeginItem ==
    /\ cmd.pc = "unit"
    /\ cmd.at <= Size
    /\ NeedsBegin(Unit)
    /\ Journal(Started(Unit))
    /\ UNCHANGED <<matrix, commands, secrets, programs, overlap, cmd>>

FinishItem ==
    /\ cmd.pc = "unit"
    /\ cmd.at <= Size
    /\ ~NeedsBegin(Unit)
    /\ LET good == cmd.at \in cmd.good
       IN  /\ Journal(Finish(Unit, IF good THEN "pass" ELSE "metric_fail", Bound(good)))
           /\ cmd' = [cmd EXCEPT !.at = @ + 1, !.found = Append(@, Bound(good))]
    /\ UNCHANGED <<matrix, commands, secrets, programs, overlap>>

-----------------------------------------------------------------------------
(***************************************************************************)
(* validate_stage_matrix and validate_all_surface_canary on a pass: the    *)
(* stages have one trace id, which the envelope derives from the           *)
(* environment; the surfaces are checked one by one.                       *)
(***************************************************************************)
Valid(found) ==
    /\ \A i \in DOMAIN found : found[i].good
    /\ matrix = "trace" => \A i, j \in DOMAIN found : found[i].env = found[j].env

ReportMatrix ==
    /\ cmd.pc \in {"scan", "unit"}
    /\ cmd.at = Size + 1
    /\ IF cmd.pc = "unit" /\ cmd.good # ProbeUnits THEN Report("metric_fail")
       ELSE IF Valid(cmd.found) THEN Report("pass")
       ELSE cmd' = Waiting
    /\ UNCHANGED <<matrix, commands, secrets, programs, overlap, journal>>

\* The command returns, or it is killed at any point.
EndCommand ==
    /\ cmd.pc # "idle"
    /\ cmd' = Waiting
    /\ UNCHANGED <<matrix, commands, secrets, programs, overlap, journal>>

ProbesNext ==
    \/ StartCommand \/ EnsureProvisioned \/ BeginProvisioning \/ LoseConnection
    \/ \E p \in programs :
          RetireSecret(p) \/ EnsureSecret(p) \/ ProvisioningEnds(p) \/ ProgramFails(p)
    \/ ReuseCell \/ BeginCell \/ AccessCell
    \/ ScanUnits \/ BeginCollection \/ Collect \/ BeginItem \/ FinishItem
    \/ ReportMatrix \/ EndCommand

ProbesSpec == ProbesInit /\ [][ProbesNext]_probeVars

-----------------------------------------------------------------------------
(***************************************************************************)
(* A matrix reported as passed consists of all its units, each measured in *)
(* the environment of the command: no unit that was begun in one           *)
(* environment and finished in another after a crash, and no unit of a     *)
(* partial collection elsewhere, is taken over (_reusable, _finish).       *)
(***************************************************************************)
PassedHere ==
    cmd.pc = "report" /\ cmd.status = "pass" =>
        /\ Len(cmd.found) = Size
        /\ \A i \in DOMAIN cmd.found : cmd.found[i] = Bound(TRUE)

(***************************************************************************)
(* A journal that says provisioned describes the cluster: all the secrets  *)
(* are bound to the environment of that record, through commands in other  *)
(* environments, failures half way and crashes, as long as no provisioning *)
(* was started while a program that lost its connection was running        *)
(* (_ensure_provisioned, ensure_principal_secret).                         *)
(***************************************************************************)
ProvisionedAsRecorded ==
    ~overlap /\ journal.provisioning.status = "pass" =>
        \A p \in DOMAIN secrets : secrets[p].env = journal.provisioning.key

(***************************************************************************)
(* Journals and reports of the probes belong to the environment they name, *)
(* in whatever order environments alternate and commands die.              *)
(***************************************************************************)
ProbesBound == PassedHere /\ ProvisionedAsRecorded

=============================================================================
