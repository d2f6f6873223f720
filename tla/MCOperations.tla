---------------------------- MODULE MCOperations ----------------------------
(***************************************************************************)
(* The operator's tools that keep their state in files: the experiment     *)
(* runner, the readiness trial with its score, the bootstrap of the host,  *)
(* the isolation probes and the metric-v2 baselines.  They share no state: *)
(* a behaviour is one of one tool, the others stay in an initial state.    *)
(***************************************************************************)
EXTENDS Experiment, Diagnosis, Bootstrap, Probes, Baselines

VARIABLE tool   \* the tool that is used

MCDeps == <<{}, {1}>>
MCSignalKind == [l \in 1..3 |-> IF l = 3 THEN "cpu" ELSE "errors"]
MCRuleOrder == <<1, 5, 4, 6, 2, 3>>
MCRuleRight == <<1, 0>>
MCMatrixSize == [access |-> 2, trace |-> 2, canary |-> 1]

\* Of several initial states of a tool that is not used, one.
OtherTools(t) ==
    /\ t # "bootstrap" => \A e \in Endpoints : net.at[e] = "m1"
    /\ t # "probes" => matrix = "access"
    /\ t # "baselines" => graded = Ungraded /\ scenarios = 1

OperationsInit ==
    /\ tool \in {"experiment", "diagnosis", "bootstrap", "probes", "baselines"}
    /\ ExperimentInit
    /\ IF tool = "diagnosis" THEN DiagnosisInit ELSE talk = Silent /\ sheet = NoSheet
    /\ BootstrapInit
    /\ ProbesInit
    /\ BaselinesInit
    /\ OtherTools(tool)

OperationsNext ==
    /\ UNCHANGED tool
    /\ \/ /\ tool = "experiment" /\ ExperimentNext
          /\ UNCHANGED <<diagnosisVars, bootstrapVars, probeVars, baselineVars>>
       \/ /\ tool = "diagnosis" /\ DiagnosisNext
          /\ UNCHANGED <<experimentVars, bootstrapVars, probeVars, baselineVars>>
       \/ /\ tool = "bootstrap" /\ BootstrapNext
          /\ UNCHANGED <<experimentVars, diagnosisVars, probeVars, baselineVars>>
       \/ /\ tool = "probes" /\ ProbesNext
          /\ UNCHANGED <<experimentVars, diagnosisVars, bootstrapVars, baselineVars>>
       \/ /\ tool = "baselines" /\ BaselinesNext
          /\ UNCHANGED <<experimentVars, diagnosisVars, bootstrapVars, probeVars>>

OperationsSpec ==
    /\ OperationsInit
    /\ [][OperationsNext]_<<tool, experimentVars, diagnosisVars, bootstrapVars, probeVars,
                            baselineVars>>

=============================================================================
