----------------------------- MODULE Readiness ------------------------------
(***************************************************************************)
(* run_retest_baselines_v3: the G03 readiness measurement.  A preflight    *)
(* replays every scenario into a new directory and freezes the dataset; a  *)
(* resume buys three, and if the three-repetition aggregate authorises it  *)
(* five, repetitions of live model trials on that dataset.  One command at *)
(* a time works on the directories; it can be killed between any two       *)
(* writes, every write replaces one file (write_json_artifact_v3).         *)
(*                                                                         *)
(* The repository is reduced to its run identity (sources, configuration,  *)
(* definitions) and to the contract its scenario cache keys cover.         *)
(***************************************************************************)
EXTENDS TrialJournal, Sequences, FiniteSetsExt

CONSTANTS
    Dirs,           \* output directories, numbered from 1
    Seeds,          \* the scenarios, replayed in order: 1..Seeds
    R3, R5,         \* REFERENCE_REPETITIONS and MAX_REFERENCE_REPETITIONS
    Significant,    \* pairs <<successes, trials>> for which the paired bootstrap excludes zero
    MaxIdentity,    \* bound: changes of the repository
    MaxCommands,    \* bound: commands and invalidations
    MaxBought       \* bound: executions of one live trial

CaseIds == 1..Seeds
Trials(n) == CaseIds \X (1..n)

ASSUME ReadinessAssumption ==
    Dirs \subseteq Nat \ {0} /\ Seeds \in Nat \ {0} /\ R3 \in Nat \ {0} /\ R5 \in Nat /\ R3 < R5 /\ MaxIdentity \in Nat

Nothing == "absent"
NoDir == 0
NoAggregate == [scores |-> <<>>, ready |-> FALSE, extend |-> FALSE]

VARIABLES
    repo,       \* current identity, the contract of every identity so far, commands issued
    dir,        \* what each directory holds
    cmd         \* local variables of the command that is running

readinessVars == <<repo, dir, cmd>>

EmptyDir ==
    [used |-> FALSE, invalid |-> FALSE, phase |-> Nothing, identity |-> 0, frozen |-> FALSE,
     cases |-> [c \in CaseIds |-> [NoRecord EXCEPT !.key = 0]],
     scenarios |-> Nothing, preflight |-> Nothing,
     live |-> [t \in Trials(R5) |-> [NoRecord EXCEPT !.key = 0]],
     r3 |-> NoAggregate, r5 |-> NoAggregate, summary |-> Nothing, ledger |-> 0]

Resting == [pc |-> "idle", d |-> NoDir, from |-> NoDir, sweep |-> FALSE, at |-> 0,
            failed |-> FALSE, reps |-> 0, left |-> {}]

ReadinessInit ==
    /\ repo = [identity |-> 1, contract |-> <<1>>, issued |-> 0]
    /\ dir = [d \in Dirs |-> EmptyDir]
    /\ cmd = Resting

Contract == repo.contract[repo.identity]
Here == dir[cmd.d]
Write(r) == dir' = [dir EXCEPT ![cmd.d] = r]
Go(pc) == cmd' = [cmd EXCEPT !.pc = pc]

-----------------------------------------------------------------------------
(* Preflight: --skip-live. *)

Issue == /\ repo.issued < MaxCommands
         /\ repo' = [repo EXCEPT !.issued = @ + 1]

\* _validate_output_dir_v3: the target new and empty, the source a run with a manifest.
StartPreflight(d) ==
    /\ cmd.pc = "idle"
    /\ ~dir[d].used /\ ~dir[d].invalid
    /\ \E from \in {NoDir} \cup {e \in Dirs \ {d} : dir[e].phase # Nothing /\ ~dir[e].invalid},
          sweep \in BOOLEAN :
          /\ sweep => from = NoDir
          /\ cmd' = [Resting EXCEPT !.pc = "inherit", !.d = d, !.from = from, !.sweep = sweep]
    /\ Issue
    /\ UNCHANGED dir

\* inherit_passing_trials_v3: pass records only; killed on the way it has copied some.
Inherit ==
    /\ cmd.pc = "inherit"
    /\ IF cmd.from = NoDir
       THEN UNCHANGED dir /\ Go("manifest")
       ELSE LET passed == {c \in CaseIds : dir[cmd.from].cases[c].status = "pass"}
                Copied(S) == [Here EXCEPT !.used = TRUE, !.cases =
                    [c \in CaseIds |-> IF c \in S THEN dir[cmd.from].cases[c] ELSE @[c]]]
            IN  \/ Write(Copied(passed)) /\ Go("manifest")
                \/ (\E S \in SUBSET passed : Write(Copied(S))) /\ cmd' = Resting
    /\ UNCHANGED repo

\* The metric definition and the manifest with the identity of the repository.
WriteManifest ==
    /\ cmd.pc = "manifest"
    /\ Write([Here EXCEPT !.used = TRUE, !.phase = "preflight_in_progress",
                          !.identity = repo.identity])
    /\ cmd' = [cmd EXCEPT !.pc = "replay", !.at = 1]
    /\ UNCHANGED repo

\* Mutant: an inherited pass counts whatever it was measured on.
ReusableCaseAny(r) == r.status = "pass"

\* replay_all_scenarios_v3: the cache key is recomputed.
ReusableCase(r) == r.status = "pass" /\ r.key = Contract

\* A failed case ends the replay, or in a diagnostic scan is passed over.
ReplayCase ==
    /\ cmd.pc = "replay"
    /\ cmd.at <= Seeds
    /\ LET begun == Begin(Here.cases[cmd.at], Contract)
           Journal(r) == Write([Here EXCEPT !.cases[cmd.at] = r])
       IN  IF ReusableCase(Here.cases[cmd.at])
           THEN UNCHANGED dir /\ cmd' = [cmd EXCEPT !.at = @ + 1]
           ELSE \/ /\ Journal(Finish(begun, "pass", 0))
                   /\ cmd' = [cmd EXCEPT !.at = @ + 1]
                \/ /\ \E status \in {"infra_failed", "metric_fail"} :
                         Journal(Finish(begun, status, 0))
                   /\ cmd' = [cmd EXCEPT !.failed = TRUE,
                                         !.at = IF cmd.sweep THEN @ + 1 ELSE Seeds + 1]
                \/ Journal(begun) /\ cmd' = Resting
    /\ UNCHANGED repo

WriteScenarios ==
    /\ cmd.pc = "replay"
    /\ cmd.at > Seeds
    /\ Write([Here EXCEPT !.scenarios = IF ~cmd.failed THEN "pass"
                                        ELSE IF cmd.sweep THEN "diagnostic_scan" ELSE "incomplete"])
    /\ Go(IF cmd.failed THEN "preflight" ELSE "freeze")
    /\ UNCHANGED repo

\* The dataset is frozen in the manifest; the probes and the rule baseline may block.
FreezeDataset ==
    /\ cmd.pc = "freeze"
    /\ Write([Here EXCEPT !.phase = "preflight_completed", !.frozen = TRUE])
    /\ \E blocked \in BOOLEAN : cmd' = [cmd EXCEPT !.pc = "preflight", !.failed = blocked]
    /\ UNCHANGED repo

PreflightVerdict ==
    IF Here.scenarios = "diagnostic_scan" THEN "diagnostic"
    ELSE IF cmd.failed THEN "blocked" ELSE "pass"

\* preflight-summary.json, which is what a resume reads, and then summary.json.
WritePreflight ==
    /\ cmd.pc = "preflight"
    /\ Write([Here EXCEPT !.preflight = PreflightVerdict])
    /\ Go("summary")
    /\ UNCHANGED repo

-----------------------------------------------------------------------------
(* Live trials: --resume --repetitions 3 or 5. *)

\* Mutant: a resume does not compare the identities.
IdentityMatchesAny(d) == TRUE

\* _assert_resume_identity_v3 compares the manifest with the repository.
IdentityMatches(d) == dir[d].identity = repo.identity

\* The rest of _assert_resume_identity_v3: the frozen dataset and a passed preflight.
MayResume(d) ==
    /\ ~dir[d].invalid
    /\ dir[d].phase # Nothing
    /\ IdentityMatches(d)
    /\ dir[d].frozen
    /\ dir[d].preflight = "pass"

\* Mutant: five repetitions are available from the start.
AuthorizedAny(d, n) == TRUE

\* Five repetitions need the aggregate of three and its authorisation.
Authorized(d, n) == n = R5 => dir[d].r3 # NoAggregate /\ dir[d].r3.extend

StartResume(d) ==
    /\ cmd.pc = "idle"
    /\ MayResume(d)
    /\ \E n \in {R3, R5} :
          /\ Authorized(d, n)
          /\ cmd' = [Resting EXCEPT !.pc = "live", !.d = d, !.reps = n, !.left = Trials(n)]
    /\ Issue
    /\ UNCHANGED dir

\* Mutant: a scored trial is bought again.
ScoredNever(r) == FALSE

\* ExperimentRunner: a passed trial of the same packet and route is reused.
Scored(r) == r.status = "pass"

\* The trials are bought by case and then by repetition.
NextTrial(left) ==
    CHOOSE x \in left : \A y \in left : x[1] < y[1] \/ (x[1] = y[1] /\ x[2] <= y[2])

(***************************************************************************)
(* One live trial.  Every answer of the model is scored, a malformed one   *)
(* as a failure; transport errors leave the trial to be resumed and the    *)
(* loop goes on; a configuration error raises.                             *)
(***************************************************************************)
LiveTrial ==
    /\ cmd.pc = "live"
    /\ cmd.left # {}
    /\ LET t == NextTrial(cmd.left)
           begun == Begin(Here.live[t], repo.identity)
           Journal(r) == Write([Here EXCEPT !.live[t] = r])
           rest == [cmd EXCEPT !.left = @ \ {t}]
       IN  IF Scored(Here.live[t])
           THEN UNCHANGED dir /\ cmd' = rest
           ELSE /\ Here.live[t].attempt < MaxBought
                /\ \/ /\ \E score \in {0, 1} : Journal(Finish(begun, "pass", score))
                      /\ cmd' = rest
                   \/ /\ Journal(Finish(begun, "infra_failed", 0))
                      /\ cmd' = [rest EXCEPT !.failed = TRUE]
                   \/ Journal(begun) /\ cmd' = Resting
    /\ UNCHANGED repo

Scores(live, n) == [t \in Trials(n) |-> live[t].artifact]
Successes(scores) == MapThenSumSet(LAMBDA t : scores[t], DOMAIN scores)

(***************************************************************************)
(* aggregate_reference_v3 and should_extend_reference_v3, on the share of  *)
(* successes: all of them is too easy, an interval of width zero or one    *)
(* that contains zero blocks, and only the latter alone can be extended.   *)
(***************************************************************************)
Blockers(scores) ==
    LET total == Cardinality(DOMAIN scores)
        successes == Successes(scores)
    IN  {b \in {"best_baseline_above_0_90", "zero_width_ci", "significance_not_established"} :
            CASE b = "best_baseline_above_0_90" -> successes = total
              [] b = "zero_width_ci" -> successes \in {0, total}
              [] OTHER -> <<successes, total>> \notin Significant}

Aggregate(scores, n) ==
    [scores |-> scores,
     ready |-> Blockers(scores) = {},
     extend |-> n = R3 /\ Blockers(scores) = {"significance_not_established"}]

Measured(n) == Aggregate(Scores(Here.live, n), n)

\* live-rN.json and aggregate-rN.json, unless trials are unresolved.
WriteAggregate ==
    /\ cmd.pc = "live"
    /\ cmd.left = {}
    /\ IF cmd.failed THEN UNCHANGED dir
       ELSE Write(IF cmd.reps = R3 THEN [Here EXCEPT !.r3 = Measured(R3)]
                  ELSE [Here EXCEPT !.r5 = Measured(R5)])
    /\ Go("summary")
    /\ UNCHANGED repo

-----------------------------------------------------------------------------
(* The end of both commands. *)

WriteSummary ==
    /\ cmd.pc = "summary"
    /\ Write([Here EXCEPT !.summary =
                IF cmd.reps = 0 THEN Here.preflight
                ELSE IF cmd.failed THEN "incomplete"
                ELSE IF Measured(cmd.reps).ready THEN "ready" ELSE "blocked"])
    /\ Go(IF cmd.reps = 0 \/ cmd.failed THEN "ledger" ELSE "phase")
    /\ UNCHANGED repo

WritePhase ==
    /\ cmd.pc = "phase"
    /\ Write([Here EXCEPT !.phase = IF cmd.reps = R3 THEN "r3_completed" ELSE "r5_completed"])
    /\ Go("ledger")
    /\ UNCHANGED repo

\* _update_cost_ledger_v3: the entry of this run is replaced; a failed replay writes none.
WriteLedger ==
    /\ cmd.pc = "ledger"
    /\ Write([Here EXCEPT !.ledger =
                IF cmd.reps = 0 THEN IF Here.frozen THEN 0 ELSE @
                ELSE Cardinality({t \in Trials(cmd.reps) : Scored(Here.live[t])})])
    /\ cmd' = Resting
    /\ UNCHANGED repo

Killed ==
    /\ cmd.pc # "idle"
    /\ cmd' = Resting
    /\ UNCHANGED <<repo, dir>>

-----------------------------------------------------------------------------
(* Between commands. *)

\* A commit: always a new identity, sometimes a new measurement contract.
ChangeRepository ==
    /\ cmd.pc = "idle"
    /\ repo.identity < MaxIdentity
    /\ \E contract \in {Contract, repo.identity + 1} :
          repo' = [repo EXCEPT !.identity = @ + 1, !.contract = Append(@, contract)]
    /\ UNCHANGED <<dir, cmd>>

\* An INVALIDATION.md is put into the directory.
Invalidate(d) ==
    /\ cmd.pc = "idle"
    /\ ~dir[d].invalid
    /\ dir' = [dir EXCEPT ![d].invalid = TRUE]
    /\ Issue
    /\ UNCHANGED cmd

ReadinessNext ==
    \/ \E d \in Dirs : StartPreflight(d) \/ StartResume(d) \/ Invalidate(d)
    \/ Inherit \/ WriteManifest \/ ReplayCase \/ WriteScenarios \/ FreezeDataset
    \/ WritePreflight \/ LiveTrial \/ WriteAggregate \/ WriteSummary \/ WritePhase
    \/ WriteLedger \/ Killed \/ ChangeRepository

ReadinessSpec == ReadinessInit /\ [][ReadinessNext]_readinessVars

-----------------------------------------------------------------------------
(***************************************************************************)
(* Live money is spent only on a dataset of which every case, inherited or *)
(* replayed, was measured under the contract of the run's own identity     *)
(* (replay_all_scenarios_v3, inherit_passing_trials_v3).                   *)
(***************************************************************************)
DatasetCurrent ==
    \A d \in Dirs :
        (\E t \in Trials(R5) : dir[d].live[t].attempt > 0) =>
            \A c \in CaseIds : /\ dir[d].cases[c].status = "pass"
                               /\ dir[d].cases[c].key = repo.contract[dir[d].identity]

(***************************************************************************)
(* All live trials of a directory were made by one identity, that of its   *)
(* manifest, however often it was interrupted and resumed across commits   *)
(* (_assert_resume_identity_v3).                                           *)
(***************************************************************************)
OneIdentity ==
    \A d \in Dirs : \A t \in Trials(R5) :
        dir[d].live[t].attempt > 0 => dir[d].live[t].key = dir[d].identity

(***************************************************************************)
(* The aggregate of three repetitions never changes once it is written:    *)
(* not by a second run with three, by the extension to five or by a crash  *)
(* in either.                                                              *)
(***************************************************************************)
R3Frozen ==
    [][\A d \in Dirs : dir[d].r3 # NoAggregate => dir'[d].r3 = dir[d].r3]_readinessVars

(***************************************************************************)
(* The result of five repetitions extends an undecided result of three: it *)
(* contains the same scores, and the further repetitions were not bought   *)
(* before the three were known to be undecided (AMD-0007, r5).             *)
(***************************************************************************)
ExtendsR3 ==
    \A d \in Dirs :
        (\E t \in Trials(R5) \ Trials(R3) : dir[d].live[t].attempt > 0) =>
            /\ dir[d].r3 # NoAggregate
            /\ ~dir[d].r3.ready
            /\ dir[d].r5 # NoAggregate =>
                  \A t \in Trials(R3) : dir[d].r5.scores[t] = dir[d].r3.scores[t]

(***************************************************************************)
(* What a directory holds fits together across crashes, commits and        *)
(* resumes: one contract for its dataset, one identity for its trials, and *)
(* five repetitions that extend its three (run_retest_baselines_v3).       *)
(***************************************************************************)
DirectoryConsistent == DatasetCurrent /\ OneIdentity /\ ExtendsR3

=============================================================================
