------------------------------ MODULE FaultLab ------------------------------
(***************************************************************************)
(* The fault lab: scenarios that switch one feature flag of the system     *)
(* under test to its fault variant, observe it, and put the flag document  *)
(* back.  run_gate_scenario_matrix, replay_resource_scenarios and          *)
(* replay_all_scenarios_v3 run them case by case with a journal;           *)
(* inject_live_fault and restore_live_fault do it by hand.  One operator   *)
(* runs one command at a time; the flag document and the journals survive  *)
(* a crash of the command.                                                 *)
(*                                                                         *)
(* The flag document is the set of fault classes whose flag is at its      *)
(* injection variant.  An observation is reduced to its verdict.           *)
(***************************************************************************)
EXTENDS TrialJournal, Sequences, FiniteSetsExt

CONSTANTS
    Cases,          \* seed_catalog: the fault class of each scenario, in order
    Suites,         \* which of the three matrices are run
    SampleBound,    \* classes whose recovery is compared with the last fault sample
    GrowthClasses,  \* classes whose first fault sample is only kept for comparison
    ResourceClasses,\* classes of the resource_capacity family
    MaxContract,    \* bound: versions of the SUT images and observer contract
    MaxExecutions,  \* bound: executions of cases, in all suites together
    MaxOperations   \* bound: injections by hand

Classes == {Cases[i] : i \in DOMAIN Cases}

ASSUME LabAssumption ==
    /\ Cases \in Seq(STRING)
    /\ Suites \subseteq {"gate", "replay", "readiness"}
    /\ SampleBound \subseteq Classes
    /\ GrowthClasses \subseteq SampleBound
    /\ ResourceClasses \subseteq Classes
    /\ MaxContract \in Nat /\ MaxOperations \in Nat

Errors == {"infra", "metric", "error"}
None == "none"

VARIABLES
    flags,      \* the document flagd serves
    trial,      \* TrialJournal, per suite and case
    contract,   \* what the cache keys of all cases are computed from
    lab,        \* local variables of the command that is running
    hand,       \* the operation records of inject_live_fault, in the order they began
    disturbed,  \* history: a crash, or a restoring write that was not confirmed
    crossed     \* history: an operation was taken back while a later one was injected

labVars == <<flags, trial, contract, lab, hand, disturbed, crossed>>

AtRest == [pc |-> "idle", suite |-> None, sweep |-> FALSE, case |-> 0, prior |-> FALSE,
           original |-> {}, found |-> {}, sampled |-> FALSE, active |-> TRUE,
           primary |-> None, cleanup |-> None]

LabInit ==
    /\ flags = {}
    /\ trial = [s \in Suites |-> [i \in DOMAIN Cases |-> [NoRecord EXCEPT !.key = 0]]]
    /\ contract = 1
    /\ lab = AtRest
    /\ hand = <<>>
    /\ disturbed = FALSE
    /\ crossed = FALSE

Class == Cases[lab.case]
Current == trial[lab.suite][lab.case]
SetTrial(r) == trial' = [trial EXCEPT ![lab.suite][lab.case] = r]

\* The v3 observer keeps a sample that is not active; the v3 runner judges errors its own way.
V3 == lab.suite = "readiness"

-----------------------------------------------------------------------------
(* The loop over the cases. *)

\* A diagnostic scan (continue_on_case_failure) exists for the v3 replay only.
StartMatrix(s) ==
    /\ lab.pc = "idle"
    /\ \E sweep \in (IF s = "readiness" THEN BOOLEAN ELSE {FALSE}) :
          lab' = [AtRest EXCEPT !.pc = "loop", !.suite = s, !.sweep = sweep, !.case = 1]
    /\ UNCHANGED <<flags, trial, contract, hand, disturbed, crossed>>

Looping == lab.pc = "loop" /\ lab.case <= Len(Cases)

Registered == lab.suite = "replay" => Class \in ResourceClasses

NextCase(prior) ==
    lab' = [AtRest EXCEPT !.pc = "loop", !.suite = lab.suite, !.sweep = lab.sweep,
                          !.case = lab.case + 1, !.prior = prior]

\* The resource replay inherits every other case from the frozen artifact.
InheritCase ==
    /\ Looping
    /\ ~Registered
    /\ NextCase(FALSE)
    /\ UNCHANGED <<flags, trial, contract, hand, disturbed, crossed>>

\* A pass under the same key; its recovery is the next case's precondition.
ReuseCase ==
    /\ Looping
    /\ Registered
    /\ Current.status = "pass" /\ Current.key = contract
    /\ NextCase(TRUE)
    /\ UNCHANGED <<flags, trial, contract, hand, disturbed, crossed>>

\* metric_fail is final for the key, except in a diagnostic scan.  (Records an earlier
\* version of the v3 runner misclassified are run again; none is in the initial state.)
Final == Current.status \in {"metric_fail", "blocked"} /\ Current.key = contract /\ ~lab.sweep

StopAtCase ==
    /\ Looping
    /\ Registered
    /\ Final
    /\ lab' = AtRest
    /\ UNCHANGED <<flags, trial, contract, hand, disturbed, crossed>>

Executions ==
    MapThenSumSet(LAMBDA s : MapThenSumSet(LAMBDA i : trial[s][i].attempt, DOMAIN Cases), Suites)

BeginCase ==
    /\ Looping
    /\ Registered
    /\ ~(Current.status = "pass" /\ Current.key = contract)
    /\ ~Final
    /\ Executions < MaxExecutions
    /\ SetTrial(Begin(Current, contract))
    /\ lab' = [lab EXCEPT !.pc = "read"]
    /\ UNCHANGED <<flags, contract, hand, disturbed, crossed>>

EndMatrix ==
    /\ lab.pc = "loop"
    /\ lab.case > Len(Cases)
    /\ lab' = AtRest
    /\ UNCHANGED <<flags, trial, contract, hand, disturbed, crossed>>

-----------------------------------------------------------------------------
(* run_scenario and run_readiness_scenario_v3. *)

\* An exception before the try block is the result of the trial.
Raise(kind) == lab' = [lab EXCEPT !.pc = "verdict", !.primary = kind]

\* RemoteFlagClient.read: four attempts; malformed answers are a governance error.
ReadOriginal ==
    /\ lab.pc = "read"
    /\ \/ lab' = [lab EXCEPT !.original = flags,
                             !.pc = IF lab.suite = "gate" /\ lab.prior
                                    THEN "inject" ELSE "control"]
       \/ Raise("infra")
       \/ Raise("metric")
    /\ UNCHANGED <<flags, trial, contract, hand, disturbed, crossed>>

\* observer("control"): resets, stimuli and polls until healthy or the deadline.
Control ==
    /\ lab.pc = "control"
    /\ \/ lab' = [lab EXCEPT !.pc = IF V3 THEN "windows" ELSE "inject"]
       \/ \E kind \in Errors : Raise(kind)
    /\ UNCHANGED <<flags, trial, contract, hand, disturbed, crossed>>

HealthyWindows ==
    /\ lab.pc = "windows"
    /\ \/ lab' = [lab EXCEPT !.pc = "inject"]
       \/ \E kind \in Errors : Raise(kind)
    /\ UNCHANGED <<flags, trial, contract, hand, disturbed, crossed>>

\* Mutant: writing a variant that is already there is accepted.
RefusesAny == FALSE

\* _mutated_document: exactly the one flag must change.
Refuses == Class \in lab.original

Injected == lab.original \cup {Class}

\* Mutant: an exception in the try block goes past the restoration.
FailsUnrestored(kind) == lab' = [lab EXCEPT !.pc = "verdict", !.primary = kind]

\* An exception inside the try block: the finally block restores.
Fails(kind) == lab' = [lab EXCEPT !.pc = "restore", !.primary = kind]

(***************************************************************************)
(* RemoteFlagClient.write is sent once and reads the document back.        *)
(* Without an answer, or with a readback that is malformed or has drifted, *)
(* the document may or may not have been replaced.                         *)
(***************************************************************************)
Inject ==
    /\ lab.pc = "inject"
    /\ \/ /\ Refuses
          /\ Fails("metric")
          /\ UNCHANGED flags
       \/ /\ ~Refuses
          /\ flags' = Injected
          /\ lab' = [lab EXCEPT !.pc = "readback"]
       \/ /\ ~Refuses
          /\ flags' \in {flags, Injected}
          /\ Fails("infra") \/ Fails("metric")
    /\ UNCHANGED <<trial, contract, hand, disturbed, crossed>>

ReadbackInjected ==
    /\ lab.pc = "readback"
    /\ \/ /\ flags = Injected
          /\ lab' = [lab EXCEPT !.pc = "fault1", !.found = flags]
       \/ flags # Injected /\ Fails("metric")
       \/ Fails("infra")
    /\ UNCHANGED <<flags, trial, contract, hand, disturbed, crossed>>

(***************************************************************************)
(* observer("fault"), twice: active only where the fault is; otherwise the *)
(* last observation at the deadline, which the older observer discards     *)
(* unless it is the first of a class judged by growth.                     *)
(***************************************************************************)
ObserveFault ==
    /\ lab.pc \in {"fault1", "fault2"}
    /\ \/ \E on \in (IF Class \in flags THEN BOOLEAN ELSE {FALSE}) :
             LET active == lab.active /\ on
                 next == [lab EXCEPT !.active = active,
                                     !.sampled = @ \/ on \/ V3 \/ Class \in GrowthClasses]
             IN  lab' = IF lab.pc = "fault1" THEN [next EXCEPT !.pc = "fault2"]
                        ELSE [next EXCEPT !.pc = "restore",
                                          !.primary = IF active THEN None ELSE "metric"]
       \/ \E kind \in Errors : Fails(kind)
    /\ UNCHANGED <<flags, trial, contract, hand, disturbed, crossed>>

CleanupFails(kind) == lab' = [lab EXCEPT !.pc = "verdict", !.cleanup = kind]

\* The finally block writes the document that was read at the start.
Restore ==
    /\ lab.pc = "restore"
    /\ \/ /\ flags' = lab.original
          /\ lab' = [lab EXCEPT !.pc = "reread"]
          /\ UNCHANGED disturbed
       \/ /\ flags' \in {flags, lab.original}
          /\ CleanupFails("infra") \/ CleanupFails("metric")
          /\ disturbed' = TRUE
    /\ UNCHANGED <<trial, contract, hand, crossed>>

ReadbackRestored ==
    /\ lab.pc = "reread"
    /\ \/ flags = lab.original /\ lab' = [lab EXCEPT !.pc = "recover"]
       \/ flags # lab.original /\ CleanupFails("metric")
       \/ CleanupFails("infra")
    /\ UNCHANGED <<flags, trial, contract, hand, disturbed, crossed>>

\* observer("recovery"): the older one indexes an empty list without a fault sample.
ObserveRecovery ==
    /\ lab.pc = "recover"
    /\ IF Class \in SampleBound /\ ~lab.sampled
       THEN CleanupFails("error")
       ELSE \/ lab' = [lab EXCEPT !.pc = "verdict"]
            \/ \E kind \in Errors : CleanupFails(kind)
    /\ UNCHANGED <<flags, trial, contract, hand, disturbed, crossed>>

\* Mutant: a failed cleanup does not change the result.
OutcomeIgnoringCleanup == IF lab.primary # None THEN lab.primary ELSE "pass"

\* What is raised: the older runner lets cleanup dominate, the v3 one the primary error.
Outcome ==
    IF V3 THEN
        IF lab.primary # None
        THEN IF lab.cleanup # None /\ lab.primary # "infra" THEN "metric" ELSE lab.primary
        ELSE IF lab.cleanup = None THEN "pass"
             ELSE IF lab.cleanup = "infra" THEN "infra" ELSE "metric"
    ELSE IF lab.cleanup # None THEN "metric"
         ELSE IF lab.primary # None THEN lab.primary ELSE "pass"

\* The status that is journaled; other exceptions leave the record running.
StatusOf(outcome) ==
    CASE outcome = "pass" -> "pass"
      [] outcome = "infra" -> "infra_failed"
      [] outcome = "metric" -> "metric_fail"
      [] OTHER -> "running"

(***************************************************************************)
(* After a pass the restored digest is read once more and the packet is    *)
(* built, which may fail as well.  A failure ends the matrix unless this   *)
(* is a diagnostic scan.                                                   *)
(***************************************************************************)
Verdict ==
    /\ lab.pc = "verdict"
    /\ \E outcome \in (IF Outcome = "pass" THEN {"pass", "infra", "metric"} ELSE {Outcome}) :
          /\ SetTrial(Finish(Current, StatusOf(outcome), 0))
          /\ IF outcome = "pass" \/ (lab.sweep /\ outcome # "error")
             THEN NextCase(outcome = "pass")
             ELSE lab' = AtRest
    /\ UNCHANGED <<flags, contract, hand, disturbed, crossed>>

-----------------------------------------------------------------------------
(* Injection by hand, crashes, and changes of the measured system. *)

\* inject_live_fault: the record is written first, as prepared.  Nothing looks at the
\* records of other operations.
PrepareByHand ==
    /\ lab.pc = "idle"
    /\ Len(hand) < MaxOperations
    /\ \E f \in Classes \ flags :
          hand' = Append(hand, [status |-> "prepared", class |-> f, original |-> flags])
    /\ lab' = [AtRest EXCEPT !.pc = "hand"]
    /\ UNCHANGED <<flags, trial, contract, disturbed, crossed>>

\* A write that is not confirmed leaves the record prepared.
InjectByHand ==
    /\ lab.pc = "hand"
    /\ lab' = AtRest
    /\ LET n == Len(hand)
           mutated == hand[n].original \cup {hand[n].class}
       IN  \/ /\ flags' = mutated
              /\ hand' = [hand EXCEPT ![n].status = "injected"]
           \/ /\ flags' \in {flags, mutated}
              /\ UNCHANGED hand
    /\ UNCHANGED <<trial, contract, disturbed, crossed>>

\* restore_live_fault: any injected operation, in any order; restored once the readback
\* matches.  (A record of another producer is refused, which changes nothing.)
RestoreByHand ==
    /\ lab.pc = "idle"
    /\ \E i \in DOMAIN hand :
          /\ hand[i].status = "injected"
          /\ \/ /\ flags' = hand[i].original
                /\ hand' = [hand EXCEPT ![i].status = "restored"]
             \/ /\ flags' \in {flags, hand[i].original}
                /\ UNCHANGED hand
          /\ crossed' = (crossed \/ \E j \in DOMAIN hand : j > i /\ hand[j].status = "injected")
    /\ UNCHANGED <<trial, contract, lab, disturbed>>

Crash ==
    /\ lab.pc # "idle"
    /\ lab' = AtRest
    /\ disturbed' = TRUE
    /\ UNCHANGED <<flags, trial, contract, hand, crossed>>

\* New images or a new observer contract: every cache key changes.
ChangeContract ==
    /\ lab.pc = "idle"
    /\ contract < MaxContract
    /\ contract' = contract + 1
    /\ UNCHANGED <<flags, trial, lab, hand, disturbed, crossed>>

LabNext ==
    \/ \E s \in Suites : StartMatrix(s)
    \/ InheritCase \/ ReuseCase \/ StopAtCase \/ BeginCase \/ EndMatrix
    \/ ReadOriginal \/ Control \/ HealthyWindows \/ Inject \/ ReadbackInjected
    \/ ObserveFault \/ Restore \/ ReadbackRestored \/ ObserveRecovery \/ Verdict
    \/ PrepareByHand \/ InjectByHand \/ RestoreByHand \/ Crash \/ ChangeContract

LabSpec == LabInit /\ [][LabNext]_labVars

-----------------------------------------------------------------------------
ByHand(f) ==
    \E i \in DOMAIN hand : hand[i].class = f /\ hand[i].status \in {"prepared", "injected"}

(***************************************************************************)
(* A fault that is on has an owner: a case of its class that has not       *)
(* passed, or an operation record that is not restored.  No crash, lost    *)
(* answer, drifted readback or rerun leaves a fault behind that every      *)
(* record calls finished, as long as operations by hand that overlap are   *)
(* taken back last first (run_scenario, inject_live_fault).  In any other  *)
(* order the later restoration switches the first fault on again, which    *)
(* restore_live_fault does not notice.                                     *)
(***************************************************************************)
FaultOwned ==
    ~crossed =>
        \A f \in flags :
            \/ ByHand(f)
            \/ \E s \in Suites, i \in DOMAIN Cases :
                  Cases[i] = f /\ trial[s][i].status \notin {"absent", "pass"}

(***************************************************************************)
(* Whatever a trial runs into - a refused injection, a readback mismatch,  *)
(* a silent oracle, a lost answer to the injection - the document is the   *)
(* original one when the command ends, unless it was killed or the         *)
(* restoring write itself was not confirmed (the finally block), or        *)
(* operations by hand were taken back out of order.                        *)
(***************************************************************************)
RestoredUnlessDisturbed ==
    lab.pc = "idle" /\ ~disturbed /\ ~crossed => \A f \in flags : ByHand(f)

(***************************************************************************)
(* A case is journaled as passed only when its own fault, and nothing else *)
(* in the document, was switched on for the observations and the document  *)
(* is back to what the trial found.                                        *)
(***************************************************************************)
PassedCleanly ==
    [][\A s \in Suites, i \in DOMAIN Cases :
          trial[s][i].status # "pass" /\ trial'[s][i].status = "pass" =>
             /\ flags = lab.original
             /\ Cases[i] \notin flags
             /\ lab.found = flags \cup {Cases[i]}]_labVars

=============================================================================
