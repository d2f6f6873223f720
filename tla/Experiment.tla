----------------------------- MODULE Experiment -----------------------------
(***************************************************************************)
(* ExperimentRunner: units of a DAG are executed in order, a unit that     *)
(* passed on the same semantic inputs is reused, and a run that was        *)
(* interrupted resumes from the journal.  Unit i depends on Deps[i], a     *)
(* subset of 1..i-1 (the constructor refuses any other order).             *)
(***************************************************************************)
EXTENDS TrialJournal, FiniteSets

CONSTANTS
    NumUnits,       \* the units are 1..NumUnits
    Deps,           \* ExperimentUnit.depends_on
    MaxInput,       \* versions of a unit's input digest and checkpoint values
    Artifacts,      \* payload digests a handler may produce
    MaxAttempts     \* bound: executions of one unit

Units == 1..NumUnits

ASSUME DagAssumption ==
    /\ NumUnits \in Nat
    /\ Deps \in [Units -> SUBSET Units]
    /\ \A u \in Units : \A d \in Deps[u] : d < u
    /\ MaxInput \in Nat
    /\ Artifacts \subseteq Nat \ {0}

VARIABLES
    input,     \* what each unit is keyed by, as a version
    record,    \* TrialJournal: the record of each unit
    run        \* local variables of ExperimentRunner.run

experimentVars == <<input, record, run>>

NoKey == [own |-> 0, deps |-> {}]
NotRunning == [pc |-> "idle", at |-> 0, selected |-> {}, failed |-> {}, done |-> {},
         inputs |-> [u \in Units |-> 1]]

ExperimentInit ==
    /\ input = [u \in Units |-> 1]
    /\ record = [u \in Units |-> [NoRecord EXCEPT !.key = NoKey]]
    /\ run = NotRunning

(***************************************************************************)
(* cache_key: the unit's own inputs with, of every dependency, the key and *)
(* the artifact of its exact semantic pass.  NoKey where the code raises.  *)
(* The code recurses over the dependencies; as these form a DAG, the       *)
(* recursion succeeds exactly when the unit is in a set of units that      *)
(* holds all its own dependencies and of which each passed under the key   *)
(* its dependencies' records give it.                                      *)
(***************************************************************************)
SemanticKey(u) ==
    [own |-> run.inputs[u],
     deps |-> {[unit |-> d, key |-> record[d].key, artifact |-> record[d].artifact] :
               d \in Deps[u]}]

Closed(S) == \A u \in S : Deps[u] \subseteq S

PassedOn(u) == record[u].status = "pass" /\ record[u].key = SemanticKey(u)

ExactPass(u) ==
    \E S \in SUBSET Units : u \in S /\ Closed(S) /\ \A x \in S : PassedOn(x)

CacheKey(u) == IF \A d \in Deps[u] : ExactPass(d) THEN SemanticKey(u) ELSE NoKey

Continue(next) == run' = [next EXCEPT !.at = @ + 1]

\* run(): any selection of units; checkpoint_values are read once.
StartRun ==
    /\ run.pc = "idle"
    /\ \E S \in SUBSET Units \ {{}} :
          run' = [NotRunning EXCEPT !.pc = "loop", !.at = 1, !.selected = S, !.inputs = input]
    /\ UNCHANGED <<input, record>>

InLoop == run.pc = "loop" /\ run.at <= NumUnits

NotSelected ==
    /\ InLoop
    /\ run.at \notin run.selected
    /\ Continue(run)
    /\ UNCHANGED <<input, record>>

\* A dependency failed in this run, or has not passed at all.
Lost(u) ==
    \/ Deps[u] \cap run.failed # {}
    \/ CacheKey(u) = NoKey /\ \E d \in Deps[u] : record[d].status # "pass"

SkipUnit ==
    /\ InLoop
    /\ run.at \in run.selected
    /\ Lost(run.at)
    /\ Continue([run EXCEPT !.failed = @ \cup {run.at}])
    /\ UNCHANGED <<input, record>>

\* Raised: a dependency passed on other inputs, or the verdict is final.
RefuseUnit ==
    /\ InLoop
    /\ run.at \in run.selected
    /\ ~Lost(run.at)
    /\ \/ CacheKey(run.at) = NoKey
       \/ /\ record[run.at].key = CacheKey(run.at)
          /\ record[run.at].status \in {"metric_fail", "blocked"}
    /\ run' = NotRunning
    /\ UNCHANGED <<input, record>>

\* Mutant: a pass is reused whatever it was keyed by.
ReusableAnyKey(u) == record[u].status = "pass"

Reusable(u) == record[u].status = "pass" /\ record[u].key = CacheKey(u)

ReuseUnit ==
    /\ InLoop
    /\ run.at \in run.selected
    /\ ~Lost(run.at)
    /\ CacheKey(run.at) # NoKey
    /\ Reusable(run.at)
    /\ Continue([run EXCEPT !.done = @ \cup {run.at}])
    /\ UNCHANGED <<input, record>>

\* A new key, or the same one with a resumable status.
BeginUnit ==
    /\ InLoop
    /\ run.at \in run.selected
    /\ ~Lost(run.at)
    /\ CacheKey(run.at) # NoKey
    /\ ~Reusable(run.at)
    /\ record[run.at].key = CacheKey(run.at) => record[run.at].status \in Resumable
    /\ record[run.at].attempt < MaxAttempts
    /\ record' = [record EXCEPT ![run.at] = Begin(@, CacheKey(run.at))]
    /\ run' = [run EXCEPT !.pc = "handler"]
    /\ UNCHANGED input

\* UnitExecution.checkpoint: a side effect is done, for the inputs the handler works on.
HandlerCheckpoint ==
    /\ run.pc = "handler"
    /\ MayWrite(record[run.at])
    /\ record' = [record EXCEPT ![run.at] = Checkpoint(@, record[run.at].key)]
    /\ UNCHANGED <<input, run>>

\* The handler returns, or raises one of the two errors the runner knows.
HandlerEnds ==
    /\ run.pc = "handler"
    /\ \E status \in Terminal, artifact \in Artifacts :
          /\ record' = [record EXCEPT ![run.at] = Finish(@, status, artifact)]
          /\ Continue([run EXCEPT !.pc = "loop",
                         !.failed = IF status = "pass" THEN @ ELSE @ \cup {run.at},
                         !.done = IF status = "pass" THEN @ \cup {run.at} ELSE @])
    /\ UNCHANGED input

\* Any other exception, or the process dies: the record stays as it is.
Interrupt ==
    /\ run.pc # "idle"
    /\ run' = NotRunning
    /\ UNCHANGED <<input, record>>

EndRun ==
    /\ run.pc = "loop"
    /\ run.at = NumUnits + 1
    /\ run' = NotRunning
    /\ UNCHANGED <<input, record>>

\* The code, a configuration or a checkpoint that a unit is keyed by changes.
ChangeInput ==
    /\ \E u \in Units : /\ input[u] < MaxInput
                        /\ input' = [input EXCEPT ![u] = @ + 1]
    /\ UNCHANGED <<record, run>>

ExperimentNext ==
    \/ StartRun \/ NotSelected \/ SkipUnit \/ RefuseUnit \/ ReuseUnit \/ BeginUnit
    \/ HandlerCheckpoint \/ HandlerEnds \/ Interrupt \/ EndRun \/ ChangeInput

ExperimentSpec == ExperimentInit /\ [][ExperimentNext]_experimentVars

(***************************************************************************)
(* A resumed execution trusts only the checkpoints of its own inputs: the  *)
(* side effects named in a record were made on the inputs of that record,  *)
(* through crashes, resumes and input changes (TrialJournal.begin).        *)
(***************************************************************************)
ResumeSameInputs ==
    \A u \in Units : \A mark \in record[u].marks : mark = record[u].key

(***************************************************************************)
(* What a run returns as passed or reused rests, through all its           *)
(* dependencies, on passes over the inputs the run was given: no artifact  *)
(* of an earlier input or of a replaced dependency is reported             *)
(* (ExperimentRunner.cache_key, run).                                      *)
(***************************************************************************)
Supports(u) ==
    /\ record[u].status = "pass"
    /\ record[u].key.own = run.inputs[u]
    /\ \A d \in Deps[u] :
          \E x \in record[u].key.deps :
             /\ x.unit = d
             /\ x.key = record[d].key
             /\ x.artifact = record[d].artifact

\* The units that u rests on: in every closed set of units with u in it.
Below(u) == {d \in Units : \A S \in SUBSET Units : u \in S /\ Closed(S) => d \in S}

ReportedCurrent == \A u \in run.done : \A d \in Below(u) : Supports(d)

(***************************************************************************)
(* A resumed or repeated run of the DAG rests on the inputs it was given:  *)
(* both what it skips inside a unit and what it reports as passed.         *)
(***************************************************************************)
ReuseSound == ReportedCurrent /\ ResumeSameInputs

=============================================================================
