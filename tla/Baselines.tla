----------------------------- MODULE Baselines ------------------------------
(***************************************************************************)
(* The metric-v2 baselines (retest-baselines-v2): the scorer and the rule  *)
(* baseline, and the command that buys the live trials, keeps them in a    *)
(* journal and writes the live matrix, the aggregate and the summary.      *)
(*                                                                         *)
(* A packet has one evidence group per root-cause label, so groups and     *)
(* labels share the numbers 1..NumLabels.  A live answer is reduced to the *)
(* score it gets: right, wrong or malformed.                               *)
(***************************************************************************)
EXTENDS Integers, Sequences, FiniteSetsExt

CONSTANTS
    NumLabels,      \* ROOT_CAUSE_LABELS
    RuleOrder,      \* the order in which _deterministic_v2 tries the labels
    AnswerLabels,   \* bound: the labels and groups a sampled answer names
    Cases, Repetitions,
    Versions,       \* datasets: versions of the scenario artifact
    RuleRight       \* how many cases of a dataset the rule gets right

ASSUME BaselinesAssumption ==
    /\ {NumLabels, Cases, Repetitions} \subseteq Nat
    /\ RuleOrder \in [1..NumLabels -> 1..NumLabels]
    /\ AnswerLabels \subseteq 1..NumLabels
    /\ Versions \subseteq Nat \ {0}
    /\ RuleRight \in [Versions -> 0..Cases]

VARIABLES
    graded,     \* a diagnosis, the truth of its case and its score
    scenarios,  \* the scenario artifact, as a version
    trials,     \* the journal: a trial id contains the digest of its dataset
    files,      \* live.json, aggregate.json and summary.json
    retest      \* local variables of the command

baselineVars == <<graded, scenarios, trials, files, retest>>

-----------------------------------------------------------------------------
(* The scorer. *)

Known == 1..NumLabels
NoLabel == 0                \* "unknown", or a label that is not of the closed set
Foreign == NumLabels + 1    \* an evidence identifier the packet does not have

Malformed(class) == [core |-> 0, unsupported |-> 1, class |-> class]

\* Mutant: distractors among the evidence are not looked at.
ExactCareless(r, truth) == r.root = truth /\ truth \in r.evidence

\* complete, and not selected.intersection(distractors).
Exact(r, truth) == r.root = truth /\ r.evidence = {truth}

ClaimSupported(r, truth) == r.root = truth /\ r.refs = {truth}

ClassV2(r, truth) ==
    IF (r.evidence \cup r.refs) \ {truth} # {} THEN "distractor_evidence"
    ELSE IF r.root # truth THEN "wrong_root_cause"
    ELSE IF truth \notin r.evidence THEN "missing_required_evidence"
    ELSE IF truth \notin r.refs THEN "unsupported_critical_claim"
    ELSE "none"

WellFormed(r, truth) ==
    [core |-> IF Exact(r, truth) /\ ClaimSupported(r, truth) THEN 1 ELSE 0,
     unsupported |-> IF ClaimSupported(r, truth) THEN 0 ELSE 1,
     class |-> ClassV2(r, truth)]

\* _score_result_v2, in the order of its checks.
ScoreV2(r, truth) ==
    IF ({r.root, r.claim} \cup r.candidates) \ Known # {} THEN Malformed("invalid_label")
    ELSE IF r.claim # r.root THEN Malformed("claim_contract")
    ELSE IF (r.evidence \cup r.refs) \ Known # {} THEN Malformed("unknown_evidence")
    ELSE WellFormed(r, truth)

\* What RESULT_SCHEMA_V2 lets a model answer: any labels, some evidence.
Answered2 ==
    LET labels == AnswerLabels \cup {NoLabel}
        groups == SUBSET (AnswerLabels \cup {Foreign}) \ {{}}
    IN  [root : labels, claim : labels, candidates : SUBSET labels,
         evidence : groups, refs : groups]

(***************************************************************************)
(* _deterministic_v2: the first label in RuleOrder whose signal shows; it  *)
(* cites the group that signal was read from.  With no signal the label is *)
(* "unknown" and the first group is cited.                                 *)
(***************************************************************************)
Cites(l) == IF l = NoLabel THEN 1 ELSE l

Rule(signals) ==
    LET shows == {i \in 1..NumLabels : RuleOrder[i] \in signals}
        root == IF shows = {} THEN NoLabel ELSE RuleOrder[Min(shows)]
    IN  [root |-> root, claim |-> root, candidates |-> {root},
         evidence |-> {Cites(root)}, refs |-> {Cites(root)}]

Ungraded == [pc |-> "off", truth |-> NoLabel, result |-> <<>>, score |-> <<>>]

Grade(r) ==
    graded' = [graded EXCEPT !.result = r, !.score = ScoreV2(r, graded.truth),
                             !.pc = IF graded.pc = "live" THEN "answer" ELSE "row"]

GradeResult ==
    /\ \/ graded.pc = "live" /\ \E r \in Answered2 : Grade(r)
       \/ graded.pc = "rule" /\ \E signals \in SUBSET Known : Grade(Rule(signals))
    /\ UNCHANGED <<scenarios, trials, files, retest>>

-----------------------------------------------------------------------------
(* The command. *)

LiveArms == {"naive_react", "no_rag"}

\* _gate_trial_specs: arm by arm, the same trials for every dataset.
PerArm == Cases * Repetitions
NumTrials == 2 * PerArm
Arm(t) == IF t <= PerArm THEN "naive_react" ELSE "no_rag"

Resolved == {"right", "wrong", "malformed"}

NoFile == [version |-> 0, rows |-> <<>>, best |-> 0]
Resting == [pc |-> "idle", version |-> 0, at |-> 1]

BaselinesInit ==
    /\ \/ graded = Ungraded
       \/ \E pc \in {"live", "rule"}, l \in AnswerLabels :
             graded = [Ungraded EXCEPT !.pc = pc, !.truth = l]
    /\ scenarios \in Versions
    /\ trials = [v \in Versions |-> [t \in 1..NumTrials |-> "absent"]]
    /\ files = [live |-> 0, aggregate |-> NoFile, summary |-> NoFile]
    /\ retest = Resting

\* The scenarios are read once; the rule matrix is computed and written on the way.
StartRetest ==
    /\ graded.pc = "off"
    /\ retest.pc = "idle"
    /\ retest' = [Resting EXCEPT !.pc = "trials", !.version = scenarios]
    /\ UNCHANGED <<graded, scenarios, trials, files>>

\* --skip-live: a summary without baselines.
SkipLive ==
    /\ retest.pc = "trials"
    /\ retest.at = 1
    /\ files' = [files EXCEPT !.summary = NoFile]
    /\ retest' = Resting
    /\ UNCHANGED <<graded, scenarios, trials>>

\* run_live_trials: a trial that passed is reused, one that is running or failed is run.
BeginLive ==
    /\ retest.pc = "trials"
    /\ retest.at <= NumTrials
    /\ IF trials[retest.version][retest.at] \in Resolved
       THEN /\ retest' = [retest EXCEPT !.at = @ + 1]
            /\ UNCHANGED trials
       ELSE /\ retest' = [retest EXCEPT !.pc = "call"]
            /\ trials' = [trials EXCEPT ![retest.version][retest.at] = "running"]
    /\ UNCHANGED <<graded, scenarios, files>>

(***************************************************************************)
(* One paid request.  A transport error, 429 or 5xx leaves the trial       *)
(* resumable; malformed output or one over budget is a scored failure; any *)
(* other refusal, another model or missing usage ends the command.         *)
(***************************************************************************)
CallModel ==
    /\ retest.pc = "call"
    /\ \E outcome \in Resolved \cup {"infra_failed"} :
          trials' = [trials EXCEPT ![retest.version][retest.at] = outcome]
    /\ retest' = [retest EXCEPT !.pc = "trials", !.at = @ + 1]
    /\ UNCHANGED <<graded, scenarios, files>>

\* Mutant: the matrix counts as complete with trials that never got an answer.
UnresolvedNever(rows) == FALSE

Unresolved(rows) == \E t \in 1..NumTrials : rows[t] = "infra_failed"

\* live.json is written in any case; the command goes on only if every trial is resolved.
WriteLive ==
    /\ retest.pc = "trials"
    /\ retest.at = NumTrials + 1
    /\ files' = [files EXCEPT !.live = retest.version]
    /\ retest' = IF Unresolved(trials[retest.version]) THEN Resting
                 ELSE [retest EXCEPT !.pc = "aggregate"]
    /\ UNCHANGED <<graded, scenarios, trials>>

\* Right answers of one arm; every case has the same weight, as in the cluster estimate.
Right(rows, arm) == Cardinality({t \in 1..NumTrials : Arm(t) = arm /\ rows[t] = "right"})

\* Mutant: the rule baseline is left out of the comparison.
BestLive(v) == Max({Right(trials[v], arm) : arm \in LiveArms})

\* best_baseline over the two arms and the rule; what is no answer scores as a failure.
BestBaseline(v) ==
    Max({Right(trials[v], arm) : arm \in LiveArms} \cup {RuleRight[v] * Repetitions})

WriteAggregate ==
    /\ retest.pc = "aggregate"
    /\ files' = [files EXCEPT !.aggregate =
                    [version |-> retest.version, rows |-> trials[retest.version],
                     best |-> BestBaseline(retest.version)]]
    /\ retest' = [retest EXCEPT !.pc = "summary"]
    /\ UNCHANGED <<graded, scenarios, trials>>

WriteSummary ==
    /\ retest.pc = "summary"
    /\ files' = [files EXCEPT !.summary = [files.aggregate EXCEPT !.rows = <<>>]]
    /\ retest' = Resting
    /\ UNCHANGED <<graded, scenarios, trials>>

\* LiveConfigurationError, any other exception, or the process dies.
AbortRetest ==
    /\ retest.pc # "idle"
    /\ retest' = Resting
    /\ UNCHANGED <<graded, scenarios, trials, files>>

ReplaceScenarios ==
    /\ graded.pc = "off"
    /\ scenarios' \in Versions \ {scenarios}
    /\ UNCHANGED <<graded, trials, files, retest>>

BaselinesNext ==
    \/ GradeResult \/ StartRetest \/ SkipLive \/ BeginLive \/ CallModel \/ WriteLive
    \/ WriteAggregate \/ WriteSummary \/ AbortRetest \/ ReplaceScenarios

BaselinesSpec == BaselinesInit /\ [][BaselinesNext]_baselineVars

-----------------------------------------------------------------------------
(***************************************************************************)
(* A core point is given for exactly the right diagnosis: the sealed label *)
(* with the one evidence group it rests on, cited by the diagnosis and by  *)
(* its claim and nothing else; and the rule baseline gets it if and only   *)
(* if it names the label (_score_result_v2, _deterministic_v2).            *)
(***************************************************************************)
CoreExact ==
    /\ graded.pc = "answer" =>
          graded.score.core = 1 <=>
             /\ graded.result.root = graded.truth
             /\ graded.result.claim = graded.truth
             /\ graded.result.candidates \subseteq Known
             /\ graded.result.evidence = {graded.truth}
             /\ graded.result.refs = {graded.truth}
    /\ graded.pc = "row" =>
          (graded.score.core = 1 <=> graded.result.root = graded.truth)

(***************************************************************************)
(* No outage is scored as a wrong diagnosis: every row of an aggregate is  *)
(* the final, never re-bought answer of that trial in the journal of that  *)
(* dataset, through interrupted commands, other scenario artifacts and     *)
(* resumes.  The aggregate itself scores whatever is no answer as a        *)
(* failure (run_gate_live_matrix, aggregate_gate_baselines).               *)
(***************************************************************************)
NoOutageScored ==
    files.aggregate.version # 0 =>
        \A t \in 1..NumTrials :
            /\ files.aggregate.rows[t] \in Resolved
            /\ trials[files.aggregate.version][t] = files.aggregate.rows[t]

(***************************************************************************)
(* The baseline that the summary offers for the comparison is the best of  *)
(* all three, measured on the dataset the summary names: its journal has   *)
(* no arm with more right answers, whatever was run, resumed or replaced   *)
(* since, and the rule has not more (aggregate_gate_baselines).            *)
(***************************************************************************)
BestOfAllArms ==
    LET v == files.summary.version
    IN  v # 0 => /\ \A arm \in LiveArms : files.summary.best >= Right(trials[v], arm)
                 /\ files.summary.best >= RuleRight[v] * Repetitions

(***************************************************************************)
(* The number that the metric-v2 baselines hand on is sound: exact scores, *)
(* no outage among them, and the best of the three arms.                   *)
(***************************************************************************)
BaselinesSound == CoreExact /\ NoOutageScored /\ BestOfAllArms

=============================================================================
