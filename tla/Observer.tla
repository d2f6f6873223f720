------------------------------ MODULE Observer ------------------------------
(***************************************************************************)
(* LiveScenarioObserver and LiveReadinessObserverV3: how one case of the   *)
(* fault lab is measured.  The runner calls the observer for the healthy   *)
(* precondition, the healthy windows (v3), twice for the fault and twice   *)
(* for the recovery; every call sends requests, samples the cluster and    *)
(* polls until it has a verdict or its deadline has passed.  Neither ssh   *)
(* nor the scripts it runs have a time limit: any remote command may hang. *)
(*                                                                         *)
(* A sample is reduced to one reading of the metric the class is judged by *)
(* (ad CPU rate, email working set, consumer lag), to whether errors were  *)
(* traced since the fault began, and to readiness.  Readings are levels;   *)
(* 0 is no reading at all, which the older collector reports as 0.0.       *)
(***************************************************************************)
EXTENDS Integers, Sequences

CONSTANTS
    ObservedClasses,    \* subset of {"ad", "email", "kafka", "product", "payment"}
    Polls,              \* bound: polls before a deadline
    Windows             \* HEALTHY_WINDOW_COUNT

ASSUME ObserverAssumption ==
    /\ ObservedClasses \subseteq {"ad", "email", "kafka", "product", "payment"}
    /\ Polls \in Nat /\ Windows \in Nat

Quiet == 1              \* V3_AD_CPU_QUIESCENT_MAX_CORES, a fresh pod, an empty topic
Residue == 3            \* an ad pod that still decays from a burn
Burn == 6               \* what the ad pod reaches under the fault
MinCores == 2           \* AD_CPU_ACTIVE_MIN_CORES
Multiplier == 5         \* AD_CPU_ACTIVE_MULTIPLIER
MinGrowth == 2          \* EMAIL_MEMORY_MIN_GROWTH_BYTES
MaxLevel == 7           \* bound: the email working set

VARIABLES
    sut,    \* the system under test, as far as the class is concerned
    obs     \* the observer and the runner's local variables

observerVars == <<sut, obs>>

Failures == {"infra", "metric", "error"}
Compared == {"ad", "email", "kafka"}    \* recovery is judged against fault_samples[-1]

\* What an earlier case can have left behind.
InitialLevels(c) ==
    CASE c = "ad" -> {Quiet, Residue, Burn}
      [] c \in {"email", "kafka"} -> {Quiet, Residue}
      [] OTHER -> {Quiet}

ObserverInit ==
    \E c \in ObservedClasses, v3, prior, e \in BOOLEAN, l \in InitialLevels("ad") :
        /\ v3 => ~prior
        /\ l \in InitialLevels(c)
        /\ sut = [on |-> FALSE, level |-> l, errors |-> e, due |-> FALSE, acted |-> FALSE]
        /\ obs = [class |-> c, v3 |-> v3, prior |-> prior, phase |-> "control", n |-> 1,
                  pc |-> IF prior THEN "inject" ELSE "call", left |-> 0, base |-> 0,
                  windows |-> <<>>, samples |-> <<>>, active |-> TRUE, healthy |-> TRUE,
                  primary |-> "none", cleanup |-> "none"]

-----------------------------------------------------------------------------
(* The system under test: requests act while the flag is on, with a delay. *)

Level(c, l) ==
    CASE c = "ad" -> Burn
      [] c = "email" -> IF l + MinGrowth > MaxLevel THEN MaxLevel ELSE l + MinGrowth
      [] c = "kafka" -> Residue
      [] OTHER -> l

Effect ==
    /\ sut.due
    /\ sut' = [sut EXCEPT !.due = FALSE, !.acted = TRUE, !.errors = TRUE,
                          !.level = Level(obs.class, @)]
    /\ UNCHANGED obs

\* The load generator of the demo.
AmbientRequest ==
    /\ sut.on
    /\ ~sut.due
    /\ sut' = [sut EXCEPT !.due = TRUE]
    /\ UNCHANGED obs

Decay ==
    /\ ~sut.on
    /\ sut.level > Quiet
    /\ obs.class \in {"ad", "kafka"}
    /\ sut' = [sut EXCEPT !.level = IF @ > Residue THEN Residue ELSE Quiet]
    /\ UNCHANGED obs

-----------------------------------------------------------------------------
(* How a call of the observer ends. *)

\* The runner: control and windows fail the trial, a fault call is followed by cleanup.
AfterFailure(kind) ==
    IF obs.phase = "recovery" THEN [obs EXCEPT !.pc = "done", !.cleanup = kind]
    ELSE IF obs.phase = "fault" THEN [obs EXCEPT !.pc = "restore", !.primary = kind]
    ELSE [obs EXCEPT !.pc = "done", !.primary = kind]

Fail(kind) == obs' = AfterFailure(kind)

CallsOf(phase) == IF phase = "window" THEN Windows ELSE IF phase = "control" THEN 1 ELSE 2

\* fault_state and recovery_state are evaluated after the second call.
Returns(o) ==
    obs' = IF o.n < CallsOf(o.phase) THEN [o EXCEPT !.n = @ + 1, !.pc = "call"]
           ELSE CASE o.phase = "control" ->
                       IF o.v3 /\ Windows > 0
                       THEN [o EXCEPT !.phase = "window", !.n = 1, !.pc = "call"]
                       ELSE [o EXCEPT !.pc = "inject"]
                  [] o.phase = "window" -> [o EXCEPT !.pc = "inject"]
                  [] o.phase = "fault" ->
                       [o EXCEPT !.pc = "restore",
                                 !.primary = IF o.active THEN "none" ELSE "metric"]
                  [] o.phase = "recovery" ->
                       [o EXCEPT !.pc = "done",
                                 !.cleanup = IF o.healthy THEN "none" ELSE "metric"]

Poll(o) == [o EXCEPT !.pc = "poll", !.left = Polls]

-----------------------------------------------------------------------------
(* Requests. *)

\* Mutant: errors are looked for in a window that opened before the fault.
FaultStartedEarlier == sut

\* fault_started: the first fault call looks for errors from now on.
FaultStarted ==
    IF obs.phase = "fault" /\ obs.n = 1 THEN [sut EXCEPT !.errors = FALSE] ELSE sut

\* What a call does before it polls.
StartCall ==
    /\ obs.pc = "call"
    /\ LET c == obs.class
           first == obs.n = 1
           pc == CASE obs.phase = "control" /\ c = "email" -> "reset"
                   [] obs.phase = "control" /\ c = "ad" ->
                        IF obs.v3 THEN "quiesce" ELSE "stimulate"
                   [] obs.phase = "fault" /\ (first \/ c \in {"ad", "email"}) -> "stimulate"
                   [] obs.phase = "recovery" /\ first /\ c \in {"ad", "email"} -> "stimulate"
                   [] OTHER -> "poll"
       IN  /\ obs' = [Poll(obs) EXCEPT !.pc = pc]
           /\ sut' = FaultStarted

\* A request that was sent may have acted whatever became of the answer.
Sent == [sut EXCEPT !.due = @ \/ sut.on]

(***************************************************************************)
(* One request, at the start of a call or (v3) on every poll.  A transport *)
(* failure is infrastructure, a refused request or a bad document is a     *)
(* governance error, output that is no JSON raises as it is.               *)
(***************************************************************************)
Stimulate ==
    /\ obs.pc \in {"stimulate", "drive"}
    /\ \/ /\ sut' = Sent
          /\ obs' = IF obs.pc = "drive" THEN [obs EXCEPT !.pc = "poll"] ELSE Poll(obs)
       \/ /\ sut' \in {sut, Sent}
          /\ \E kind \in Failures : Fail(kind)

\* _reset_email_runtime: the remote loop that waits for the new pod ends, or (Hang) does not.
ResetEmail ==
    /\ obs.pc = "reset"
    /\ \/ /\ sut' = [sut EXCEPT !.level = Quiet]
          /\ obs' = Poll(obs)
       \/ /\ \E kind \in Failures : Fail(kind)
          /\ UNCHANGED sut

-----------------------------------------------------------------------------
(* Samples. *)

\* Mutant: a missing series counts as a reading of zero.
AbsentNever(gap) == FALSE

\* The older collector turns a missing series into 0.0 and never reports it.
Absent(gap) == gap /\ obs.v3

Reading(gap) == IF gap THEN 0 ELSE sut.level

\* The marker of the v3 collector is a governance error; the older one parses unguarded.
CollectorFailures == IF obs.v3 THEN {"infra", "metric"} ELSE {"infra", "error"}

CollectorFails ==
    /\ obs.pc \in {"poll", "quiesce"}
    /\ \E kind \in CollectorFailures : Fail(kind)
    /\ UNCHANGED sut

Late == obs.left = 0

\* Mutant: the deadline is checked against a new clock on every poll.
WaitAgain(drive) == obs' = [obs EXCEPT !.pc = IF drive THEN "drive" ELSE @]

\* time.sleep; the v3 observer and the healthy windows then drive the workload.
Wait(drive) ==
    obs' = [obs EXCEPT !.left = @ - 1, !.pc = IF drive THEN "drive" ELSE @]

\* A series still absent at the deadline is a missing instrument.
WaitForSeries(drive) == IF Late THEN Fail("infra") ELSE Wait(drive)

Quiescent(r) == r <= Quiet

AwaitQuiescence ==
    /\ obs.pc = "quiesce"
    /\ \E gap \in BOOLEAN :
          IF ~Absent(gap) /\ Quiescent(Reading(gap))
          THEN obs' = [obs EXCEPT !.pc = "stimulate"]
          ELSE WaitForSeries(FALSE)
    /\ UNCHANGED sut

Controlled(r) == [obs EXCEPT !.base = r]

ControlPoll ==
    /\ obs.pc = "poll"
    /\ obs.phase = "control"
    /\ \E gap, well \in BOOLEAN :
          LET r == Reading(gap)
              signal == ~Absent(gap) /\ (obs.class \in {"ad", "email"} => r > 0)
          IN  IF well /\ signal THEN Returns(Controlled(r))
              ELSE IF Late THEN Fail("metric") ELSE Wait(FALSE)
    /\ UNCHANGED sut

WindowPoll ==
    /\ obs.pc = "poll"
    /\ obs.phase = "window"
    /\ \E gap, well \in BOOLEAN :
          IF Absent(gap) THEN WaitForSeries(TRUE)
          ELSE IF well THEN Returns([obs EXCEPT !.windows = Append(@, Reading(gap))])
          ELSE Fail("metric")
    /\ UNCHANGED sut

\* Mutant: the bar does not depend on the baseline.
BarMinimum == MinCores

\* The ad rate has to exceed the baseline by a factor.
Bar == IF Multiplier * obs.base > MinCores THEN Multiplier * obs.base ELSE MinCores

\* fault_state on this observation, with the one before it for the email class.
Active(r) ==
    CASE obs.class = "ad" -> r >= Bar
      [] obs.class = "email" ->
            r - obs.base >= MinGrowth /\ r - obs.samples[Len(obs.samples)] >= MinGrowth
      [] obs.class = "kafka" -> r > obs.base /\ sut.errors
      [] OTHER -> sut.errors

Kept(r) == [obs EXCEPT !.samples = Append(@, r)]

FaultPoll ==
    /\ obs.pc = "poll"
    /\ obs.phase = "fault"
    /\ \E gap \in BOOLEAN :
          LET r == Reading(gap)
          IN  IF Absent(gap) THEN WaitForSeries(obs.v3)
              ELSE IF obs.class = "email" /\ obs.samples = <<>> THEN Returns(Kept(r))
              ELSE IF Active(r) THEN Returns(Kept(r))
              ELSE IF Late
              THEN Returns([(IF obs.v3 THEN Kept(r) ELSE obs) EXCEPT !.active = FALSE])
              ELSE Wait(obs.v3)
    /\ UNCHANGED sut

\* Not worse than the last fault sample (or, for the ad pod, than the baseline).
NotWorse(r) ==
    LET last == obs.samples[Len(obs.samples)]
    IN  CASE obs.class = "ad" -> r <= last \/ r <= obs.base
          [] obs.class = "email" -> r - last < MinGrowth
          [] obs.class = "kafka" -> r <= last
          [] OTHER -> TRUE

RecoveryPoll ==
    /\ obs.pc = "poll"
    /\ obs.phase = "recovery"
    /\ \E gap, well \in BOOLEAN :
          IF Absent(gap) THEN WaitForSeries(obs.v3)
          ELSE IF obs.class \in Compared /\ obs.samples = <<>> THEN Fail("error")
          ELSE IF well /\ NotWorse(Reading(gap)) THEN Returns(obs)
          ELSE IF Late THEN Returns([obs EXCEPT !.healthy = FALSE])
          ELSE Wait(obs.v3)
    /\ UNCHANGED sut

-----------------------------------------------------------------------------
(* The runner switches the flag around the fault calls. *)

Switch ==
    \/ /\ obs.pc = "inject"
       /\ sut' = [sut EXCEPT !.on = TRUE]
       /\ obs' = [obs EXCEPT !.pc = "call", !.phase = "fault", !.n = 1]
    \/ /\ obs.pc = "restore"
       /\ sut' = [sut EXCEPT !.on = FALSE]
       /\ obs' = [obs EXCEPT !.pc = "call", !.phase = "recovery", !.n = 1]

(***************************************************************************)
(* run_remote_script passes no timeout to subprocess.run, and the urlopen  *)
(* and kubectl calls of the scripts have none: a remote command that does  *)
(* not answer keeps the observer, whether or not it did its work.          *)
(***************************************************************************)
Asked ==
    CASE obs.pc \in {"stimulate", "drive"} -> Sent
      [] obs.pc = "reset" -> [sut EXCEPT !.level = Quiet]
      [] obs.pc \in {"inject", "restore"} -> [sut EXCEPT !.on = obs.pc = "inject"]
      [] OTHER -> sut

Hang ==
    /\ obs.pc \notin {"call", "done", "hung"}
    /\ sut' \in {sut, Asked}
    /\ obs' = [obs EXCEPT !.pc = "hung"]

\* The steps of the program, as opposed to those of the system under test.
Program ==
    \/ StartCall \/ Stimulate \/ ResetEmail \/ CollectorFails \/ AwaitQuiescence
    \/ ControlPoll \/ WindowPoll \/ FaultPoll \/ RecoveryPoll \/ Switch \/ Hang

Measured == obs.pc \in {"done", "hung"} /\ UNCHANGED observerVars

ObserverNext == Effect \/ AmbientRequest \/ Decay \/ Program \/ Measured

\* The operating system runs the program; that a remote command answers is not assumed.
ObserverFairness == WF_observerVars(Program)

ObserverSpec == ObserverInit /\ [][ObserverNext]_observerVars /\ ObserverFairness

-----------------------------------------------------------------------------
(***************************************************************************)
(* A fault judged active has acted in this case: neither the burn an       *)
(* earlier case left behind nor errors from before the injection pass for  *)
(* it.  A case that took the recovery of the case before it for its        *)
(* precondition has no baseline and is left out (__call__, fault_state).   *)
(***************************************************************************)
ActiveIsReal ==
    obs.phase = "recovery" /\ obs.primary = "none" /\ ~obs.prior => sut.acted

(***************************************************************************)
(* What the metric-v3 observer measures can be judged.  It never measures  *)
(* with a missing instrument: no baseline, window or fault sample it keeps *)
(* is a zero that stands for a series that was not scraped, however long   *)
(* the gap.  And the ad baseline leaves the fault within reach: five times *)
(* the baseline is a rate the pod attains, whatever the case before it     *)
(* left behind (_absent_series_failure, _await_ad_cpu_quiescence).         *)
(***************************************************************************)
ReadingsReal ==
    /\ \A i \in DOMAIN obs.windows : obs.windows[i] > 0
    /\ \A i \in DOMAIN obs.samples : obs.samples[i] > 0
    /\ obs.phase # "control" => obs.base > 0

AttainableBaseline == obs.class = "ad" => Multiplier * obs.base <= Burn

MeasuresSoundly == obs.v3 => ReadingsReal /\ AttainableBaseline

(***************************************************************************)
(* Every measurement ends, through gaps, failures and unhealthy samples,   *)
(* or hangs in one remote command: no poll, retry or repeated request goes *)
(* on for ever by itself, because every loop of the observer tests a       *)
(* deadline that it does not renew (__call__, collect_healthy_window,      *)
(* _await_ad_cpu_quiescence).                                              *)
(***************************************************************************)
ObserverEnds == <>(obs.pc \in {"done", "hung"})

=============================================================================
