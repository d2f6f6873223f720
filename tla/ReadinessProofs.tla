-------------------------- MODULE ReadinessProofs ---------------------------
(***************************************************************************)
(* Proofs about the G03 readiness measurement, for every set of cases,     *)
(* profiles and trials and any number of commands, and about the diagnosis *)
(* conversation it scores, for every number of turns and cases.            *)
(***************************************************************************)
EXTENDS Readiness, Diagnosis, FiniteSetTheorems, TLAPS

-----------------------------------------------------------------------------
(***************************************************************************)
(* The readiness measurement.                                              *)
(***************************************************************************)

Places == {"idle", "inherit", "manifest", "replay", "freeze", "preflight", "live",
           "summary", "phase", "ledger"}
Verdicts == {"absent", "pass", "blocked", "incomplete", "diagnostic", "diagnostic_scan", "ready"}
Phases == {"absent", "preflight_in_progress", "preflight_completed", "r3_completed",
           "r5_completed"}
TrialRecord == [status : {"absent", "running"} \cup Terminal, key : Nat, attempt : Nat, marks : {{}}, artifact : {0, 1}]
AggregateRecord ==
    [scores : {<<>>} \cup [Trials(R3) -> {0, 1}] \cup [Trials(R5) -> {0, 1}],
     ready : BOOLEAN, extend : BOOLEAN]
DirRecord ==
    [used : BOOLEAN, invalid : BOOLEAN, phase : Phases, identity : Nat, frozen : BOOLEAN,
     cases : [CaseIds -> TrialRecord], scenarios : Verdicts, preflight : Verdicts,
     live : [Trials(R5) -> TrialRecord], r3 : AggregateRecord, r5 : AggregateRecord,
     summary : Verdicts, ledger : Nat]
CommandRecord ==
    [pc : Places, d : Dirs \cup {NoDir}, from : Dirs \cup {NoDir}, sweep : BOOLEAN,
     at : Nat, failed : BOOLEAN, reps : {0, R3, R5}, left : SUBSET Trials(R5)]

\* Every variable has its type, and every identity so far has its contract.
ReadinessTypes ==
    /\ repo \in [identity : Nat, contract : Seq(Nat), issued : Nat]
    /\ Len(repo.contract) = repo.identity
    /\ repo.identity # 0
    /\ dir \in [Dirs -> DirRecord]
    /\ cmd \in CommandRecord

\* The case has passed under contract k.
PassedUnder(r, k) == r.status = "pass" /\ r.key = k

\* What directory r holds, given the repository p.
Consistent(r, p) ==
    /\ r.frozen => /\ r.used /\ r.identity \in 1..p.identity
                   /\ \A c \in CaseIds : PassedUnder(r.cases[c], p.contract[r.identity])
    /\ \A t \in Trials(R5) : r.live[t].attempt > 0 => r.frozen /\ r.live[t].key = r.identity
    /\ r.r3 # NoAggregate =>
          /\ r.r3 = Aggregate(Scores(r.live, R3), R3)
          /\ \A t \in Trials(R3) : r.live[t].status = "pass"
    /\ r.r5 # NoAggregate =>
          \A t \in Trials(R3) : r.live[t].status = "pass" /\ r.r5.scores[t] = r.live[t].artifact
    /\ (\E t \in Trials(R5) \ Trials(R3) : r.live[t].attempt > 0) =>
          r.r3 # NoAggregate /\ ~r.r3.ready

\* What command x knows of its directory r.
Working(x, r, p) ==
    /\ x.pc \in {"inherit", "manifest", "replay", "freeze"} => ~r.frozen
    /\ x.pc \in {"replay", "freeze"} => r.used /\ r.identity = p.identity
    /\ x.pc = "replay" => x.at # 0
    /\ x.pc = "replay" /\ ~x.failed =>
          \A c \in CaseIds : c < x.at => PassedUnder(r.cases[c], p.contract[p.identity])
    /\ x.pc = "freeze" =>
          \A c \in CaseIds : PassedUnder(r.cases[c], p.contract[p.identity])
    /\ x.pc = "live" =>
          /\ r.frozen /\ r.identity = p.identity
          /\ x.reps \in {R3, R5} /\ x.left \subseteq Trials(x.reps)
          /\ x.reps = R5 => r.r3 # NoAggregate /\ r.r3.extend
          /\ ~x.failed => \A t \in Trials(x.reps) \ x.left : r.live[t].status = "pass"

ReadinessInv ==
    /\ ReadinessTypes
    /\ \A d \in Dirs : Consistent(dir[d], repo)
    /\ cmd.pc # "idle" => cmd.d \in Dirs /\ Working(cmd, Here, repo)

\* The constants: there is a case, and three repetitions are among the five.
LEMMA TrialFacts ==
    /\ R3 \in Nat /\ R5 \in Nat /\ R3 # 0 /\ R5 # 0 /\ R3 # R5 /\ Seeds \in Nat /\ NoDir \notin Dirs
    /\ Trials(R3) \subseteq Trials(R5)
    /\ \A n \in {0, R3, R5} : Trials(n) \subseteq Trials(R5) /\ IsFiniteSet(Trials(n))
    <1>1. /\ R3 \in Nat /\ R5 \in Nat /\ R3 # 0 /\ R5 # 0 /\ R3 < R5 /\ Seeds \in Nat
          /\ NoDir \notin Dirs
        BY ReadinessAssumption DEF NoDir
    <1>2. \A n \in {0, R3, R5} : 1..n \subseteq 1..R5
        BY <1>1
    <1>3. \A n \in {0, R3, R5} : Trials(n) \subseteq Trials(R5)
        BY <1>2 DEF Trials
    <1>4. ASSUME NEW n \in {0, R3, R5} PROVE IsFiniteSet(Trials(n))
        <2>1. IsFiniteSet(1..n) /\ IsFiniteSet(CaseIds)
            BY <1>1, FS_Interval DEF CaseIds
        <2>2. QED
            BY <2>1, FS_Product DEF Trials
    <1>5. QED
        BY <1>1, <1>3, <1>4

\* A directory that has not been used.
LEMMA EmptyDirFacts ==
    /\ EmptyDir \in DirRecord /\ ~EmptyDir.frozen
    /\ \A t \in Trials(R5) : EmptyDir.live[t].attempt = 0
    /\ EmptyDir.r3 = NoAggregate /\ EmptyDir.r5 = NoAggregate
    <1>1. [NoRecord EXCEPT !.key = 0] \in TrialRecord /\ [NoRecord EXCEPT !.key = 0].attempt = 0
        BY DEF NoRecord, TrialRecord, Terminal
    <1>2. PICK n \in TrialRecord : n = [NoRecord EXCEPT !.key = 0] /\ n.attempt = 0
        BY <1>1
    <1>3. NoAggregate \in AggregateRecord
        BY DEF NoAggregate, AggregateRecord
    <1>4. /\ [c \in CaseIds |-> n] \in [CaseIds -> TrialRecord]
          /\ [t \in Trials(R5) |-> n] \in [Trials(R5) -> TrialRecord]
        OBVIOUS
    <1>5. PICK A \in [CaseIds -> TrialRecord], B \in [Trials(R5) -> TrialRecord] :
            A = [c \in CaseIds |-> n] /\ B = [t \in Trials(R5) |-> n]
        BY <1>4
    <1>6. EmptyDir = [used |-> FALSE, invalid |-> FALSE, phase |-> Nothing, identity |-> 0,
             frozen |-> FALSE, cases |-> A, scenarios |-> Nothing, preflight |-> Nothing,
             live |-> B, r3 |-> NoAggregate, r5 |-> NoAggregate, summary |-> Nothing,
             ledger |-> 0]
        BY <1>2, <1>5 DEF EmptyDir
    <1>7. EmptyDir \in DirRecord
        BY <1>3, <1>6 DEF DirRecord, Nothing, Phases, Verdicts
    <1>8. QED
        BY <1>2, <1>5, <1>6, <1>7

\* A command that is not running.
LEMMA RestingFacts == Resting \in CommandRecord /\ Resting.pc = "idle"
    BY DEF Resting, CommandRecord, Places

\* The measurement directory before the first command.
LEMMA ReadinessInitInv == ReadinessInit => ReadinessInv
    <1> SUFFICES ASSUME ReadinessInit PROVE ReadinessInv
        OBVIOUS
    <1>1. /\ repo \in [identity : Nat, contract : Seq(Nat), issued : Nat]
          /\ Len(repo.contract) = repo.identity /\ repo.identity # 0
        BY DEF ReadinessInit
    <1>2. ReadinessTypes
        BY <1>1, EmptyDirFacts, RestingFacts DEF ReadinessInit, ReadinessTypes
    <1>3. \A d \in Dirs : dir[d] = EmptyDir
        BY DEF ReadinessInit
    <1>4. Consistent(EmptyDir, repo)
        BY EmptyDirFacts, TrialFacts DEF Consistent
    <1>5. QED
        BY <1>2, <1>3, <1>4, RestingFacts DEF ReadinessInit, ReadinessInv

Repository == [identity : Nat, contract : Seq(Nat), issued : Nat]

\* The step is no commit.
SameRepository ==
    /\ repo' \in Repository
    /\ repo'.identity = repo.identity /\ repo'.contract = repo.contract

\* A step of the command: one directory is written.
LEMMA WriteStep ==
    ASSUME ReadinessInv, SameRepository, NEW d \in Dirs, NEW r \in DirRecord,
           dir' = [dir EXCEPT ![d] = r], Consistent(r, repo),
           NEW x \in CommandRecord, cmd' = x,
           x.pc # "idle" => x.d = d /\ Working(x, r, repo)
    PROVE  ReadinessInv'
    <1>1. dir'[d] = r /\ \A e \in Dirs : e # d => dir'[e] = dir[e]
        BY DEF ReadinessInv, ReadinessTypes
    <1>2. ReadinessTypes'
        BY DEF ReadinessInv, ReadinessTypes, SameRepository, Repository
    <1>3. \A e \in Dirs : Consistent(dir'[e], repo)
        BY <1>1 DEF ReadinessInv
    <1>4. (\A e \in Dirs : Consistent(dir[e], repo))'
        BY <1>3 DEF Consistent, SameRepository
    <1>5. (cmd.pc # "idle" => cmd.d \in Dirs /\ Working(cmd, Here, repo))'
        BY <1>1 DEF Working, Here, SameRepository
    <1>6. QED
        BY <1>2, <1>4, <1>5 DEF ReadinessInv

\* The same for a step that writes nothing.
LEMMA CommandStep ==
    ASSUME ReadinessInv, SameRepository, UNCHANGED dir,
           NEW x \in CommandRecord, cmd' = x,
           x.pc # "idle" => x.d \in Dirs /\ Working(x, dir[x.d], repo)
    PROVE  ReadinessInv'
    <1>1. ReadinessTypes'
        BY DEF ReadinessInv, ReadinessTypes, SameRepository, Repository
    <1>2. (\A e \in Dirs : Consistent(dir[e], repo))'
        BY DEF Consistent, ReadinessInv, SameRepository
    <1>3. (cmd.pc # "idle" => cmd.d \in Dirs /\ Working(cmd, Here, repo))'
        BY DEF Working, Here, SameRepository
    <1>4. QED
        BY <1>1, <1>2, <1>3 DEF ReadinessInv

\* What the invariant says of the directory of a running command.
LEMMA HereFacts ==
    ASSUME ReadinessInv, cmd.pc # "idle"
    PROVE  /\ cmd \in CommandRecord /\ cmd.d \in Dirs /\ Here \in DirRecord
           /\ Consistent(Here, repo) /\ Working(cmd, Here, repo)
           /\ dir = [dir EXCEPT ![cmd.d] = Here]
           /\ repo.identity \in Nat /\ repo.identity # 0
           /\ repo.contract[repo.identity] \in Nat
           /\ UNCHANGED repo => SameRepository
    <1>1. /\ repo \in Repository /\ Len(repo.contract) = repo.identity /\ repo.identity # 0
        BY DEF ReadinessInv, ReadinessTypes, Repository
    <1>2. repo.contract \in Seq(Nat) /\ repo.identity \in 1..Len(repo.contract)
        BY <1>1 DEF Repository
    <1>3. repo.contract[repo.identity] \in Nat
        BY <1>2
    <1>4. UNCHANGED repo => SameRepository
        BY <1>1 DEF SameRepository
    <1>5. QED
        BY <1>1, <1>3, <1>4 DEF ReadinessInv, ReadinessTypes, Here, Repository

\* A new command is issued; nobody commits.
LEMMA IssueFacts ==
    ASSUME ReadinessInv, Issue
    PROVE  SameRepository
    BY DEF ReadinessInv, ReadinessTypes, Issue, SameRepository, Repository

\* Going on to another place of the same command.
LEMMA GoFacts ==
    ASSUME NEW x \in CommandRecord, NEW p \in Places, NEW y, y = [x EXCEPT !.pc = p]
    PROVE  /\ y \in CommandRecord /\ y.pc = p /\ y.d = x.d /\ y.from = x.from /\ y.at = x.at
           /\ y.failed = x.failed /\ y.reps = x.reps /\ y.left = x.left
    BY DEF CommandRecord

\* The two ways a command starts.
LEMMA StartInv ==
    ASSUME ReadinessInv, NEW d \in Dirs, StartPreflight(d) \/ StartResume(d)
    PROVE  ReadinessInv'
    <1>1. SameRepository /\ UNCHANGED dir
        BY IssueFacts DEF StartPreflight, StartResume
    <1>2. dir[d] \in DirRecord /\ Consistent(dir[d], repo)
        BY DEF ReadinessInv, ReadinessTypes
    <1>3. CASE StartPreflight(d)
        <2>1. PICK f \in Dirs \cup {NoDir}, w \in BOOLEAN :
                cmd' = [Resting EXCEPT !.pc = "inherit", !.d = d, !.from = f, !.sweep = w]
            BY <1>3 DEF StartPreflight
        <2>2. PICK x : x = [Resting EXCEPT !.pc = "inherit", !.d = d, !.from = f, !.sweep = w]
            OBVIOUS
        <2>3. x \in CommandRecord /\ x.pc = "inherit" /\ x.d = d
            BY <2>2, RestingFacts DEF Resting, CommandRecord, Places
        <2>4. ~dir[d].frozen
            BY <1>2, <1>3 DEF StartPreflight, Consistent
        <2>5. Working(x, dir[x.d], repo)
            BY <2>3, <2>4 DEF Working
        <2>6. QED
            BY <1>1, <2>1, <2>2, <2>3, <2>5, CommandStep
    <1>4. CASE StartResume(d)
        <2>1. PICK n \in {R3, R5} :
                /\ Authorized(d, n)
                /\ cmd' = [Resting EXCEPT !.pc = "live", !.d = d, !.reps = n,
                                          !.left = Trials(n)]
            BY <1>4 DEF StartResume
        <2>2. PICK x : x = [Resting EXCEPT !.pc = "live", !.d = d, !.reps = n,
                                           !.left = Trials(n)]
            OBVIOUS
        <2>3. /\ x \in CommandRecord /\ x.pc = "live" /\ x.d = d /\ x.reps = n
              /\ x.left = Trials(n)
            <3>1. Trials(n) \in SUBSET Trials(R5) /\ n \in {0, R3, R5}
                BY <2>1, TrialFacts
            <3>2. QED
                BY <2>2, <3>1, RestingFacts DEF Resting, CommandRecord, Places
        <2>4. dir[d].frozen /\ dir[d].identity = repo.identity
            BY <1>4 DEF StartResume, MayResume, IdentityMatches
        <2>5. Working(x, dir[x.d], repo)
            BY <2>1, <2>3, <2>4 DEF Working, Authorized
        <2>6. QED
            BY <1>1, <2>1, <2>2, <2>3, <2>5, CommandStep
    <1>5. QED
        BY <1>3, <1>4

\* Nothing has been bought in a directory whose dataset is not frozen.
LEMMA NothingBought ==
    ASSUME NEW q, NEW p, Consistent(q, p), ~q.frozen,
           NEW r, r.live = q.live, r.r3 = q.r3, r.r5 = q.r5,
           r.frozen => /\ r.used /\ r.identity \in 1..p.identity
                       /\ \A c \in CaseIds : PassedUnder(r.cases[c], p.contract[r.identity])
    PROVE  Consistent(r, p)
    BY TrialFacts DEF Consistent

\* inherit_passing_trials_v3 and the manifest.
LEMMA InheritInv ==
    ASSUME ReadinessInv, Inherit \/ WriteManifest
    PROVE  ReadinessInv'
    <1>1. /\ UNCHANGED repo /\ cmd.pc \in {"inherit", "manifest"}
        BY DEF Inherit, WriteManifest
    <1>2. /\ cmd \in CommandRecord /\ cmd.d \in Dirs /\ Here \in DirRecord
          /\ Consistent(Here, repo) /\ Working(cmd, Here, repo) /\ SameRepository
          /\ repo.identity \in Nat
        BY <1>1, HereFacts
    <1>3. ~Here.frozen
        BY <1>1, <1>2 DEF Working
    <1>4. ASSUME Go("manifest")
          PROVE  /\ cmd' \in CommandRecord /\ cmd'.pc = "manifest" /\ cmd'.d = cmd.d
        BY <1>2, <1>4, GoFacts DEF Go, Places
    <1>5. CASE Inherit /\ UNCHANGED dir /\ Go("manifest")
        <2>1. PICK x \in CommandRecord : x = cmd' /\ x.pc = "manifest" /\ x.d = cmd.d
            BY <1>4, <1>5
        <2>2. Working(x, dir[x.d], repo)
            BY <1>3, <2>1 DEF Working, Here
        <2>3. QED
            BY <1>2, <1>5, <2>1, <2>2, CommandStep
    <1>6. ASSUME NEW S \in SUBSET CaseIds, cmd.from \in Dirs,
                 Write([Here EXCEPT !.used = TRUE, !.cases =
                    [c \in CaseIds |-> IF c \in S THEN dir[cmd.from].cases[c] ELSE @[c]]]),
                 Go("manifest") \/ cmd' = Resting
          PROVE  ReadinessInv'
        <2>1. PICK C : C = [c \in CaseIds |-> IF c \in S THEN dir[cmd.from].cases[c]
                                              ELSE Here.cases[c]]
            OBVIOUS
        <2>2. C \in [CaseIds -> TrialRecord]
            <3>1. dir[cmd.from] \in DirRecord
                BY <1>6 DEF ReadinessInv, ReadinessTypes
            <3>2. /\ dir[cmd.from].cases \in [CaseIds -> TrialRecord]
                  /\ Here.cases \in [CaseIds -> TrialRecord]
                BY <1>2, <3>1 DEF DirRecord
            <3>3. QED
                BY <2>1, <3>2
        <2>3. PICK r : r = [Here EXCEPT !.used = TRUE, !.cases = C]
            OBVIOUS
        <2>4. /\ r \in DirRecord /\ r.frozen = Here.frozen /\ r.live = Here.live
              /\ r.r3 = Here.r3 /\ r.r5 = Here.r5
            BY <1>2, <2>2, <2>3 DEF DirRecord
        <2>5. dir' = [dir EXCEPT ![cmd.d] = r]
            BY <1>6, <2>1, <2>3 DEF Write
        <2>6. Consistent(r, repo)
            BY <1>2, <1>3, <2>4, NothingBought
        <2>7. PICK x \in CommandRecord :
                x = cmd' /\ x.pc \in {"manifest", "idle"} /\ (x.pc # "idle" => x.d = cmd.d)
            BY <1>4, <1>6, RestingFacts
        <2>8. Working(x, r, repo)
            BY <1>3, <2>4, <2>7 DEF Working
        <2>9. QED
            BY <1>2, <2>4, <2>5, <2>6, <2>7, <2>8, WriteStep
    <1>7. CASE Inherit
        <2>1. CASE cmd.from = NoDir
            BY <1>5, <1>7, <2>1 DEF Inherit
        <2>2. CASE cmd.from # NoDir
            <3>1. cmd.from \in Dirs
                BY <1>2, <2>2 DEF CommandRecord
            <3>2. \E S \in SUBSET CaseIds :
                     /\ Write([Here EXCEPT !.used = TRUE, !.cases =
                          [c \in CaseIds |-> IF c \in S THEN dir[cmd.from].cases[c] ELSE @[c]]])
                     /\ Go("manifest") \/ cmd' = Resting
                BY <1>7, <2>2 DEF Inherit
            <3>3. QED
                BY <1>6, <3>1, <3>2
        <2>3. QED
            BY <2>1, <2>2
    <1>8. CASE WriteManifest
        <2>1. PICK r : r = [Here EXCEPT !.used = TRUE, !.phase = "preflight_in_progress",
                                        !.identity = repo.identity]
            OBVIOUS
        <2>2. /\ r \in DirRecord /\ r.frozen = Here.frozen /\ r.live = Here.live
              /\ r.r3 = Here.r3 /\ r.r5 = Here.r5 /\ r.used /\ r.identity = repo.identity
            BY <1>2, <2>1 DEF DirRecord, Phases
        <2>3. dir' = [dir EXCEPT ![cmd.d] = r]
            BY <1>8, <2>1 DEF Write, WriteManifest
        <2>4. Consistent(r, repo)
            BY <1>2, <1>3, <2>2, NothingBought
        <2>5. PICK x : x = [cmd EXCEPT !.pc = "replay", !.at = 1]
            OBVIOUS
        <2>6. x \in CommandRecord /\ x.pc = "replay" /\ x.at = 1 /\ x.d = cmd.d /\ cmd' = x
            BY <1>2, <1>8, <2>5 DEF CommandRecord, Places, WriteManifest
        <2>7. \A c \in CaseIds : ~(c < x.at)
            BY <2>6, TrialFacts DEF CaseIds
        <2>8. Working(x, r, repo)
            BY <1>3, <2>2, <2>6, <2>7 DEF Working
        <2>9. QED
            BY <1>2, <2>2, <2>3, <2>4, <2>6, <2>8, WriteStep
    <1>9. QED
        BY <1>7, <1>8

\* A record that is begun.
LEMMA BeginTypes ==
    ASSUME NEW r \in TrialRecord, NEW k \in Nat
    PROVE  Begin(r, k) \in TrialRecord /\ Begin(r, k).key = k
    <1>1. PICK m : m = IF r.key = k THEN r.marks ELSE {}
        OBVIOUS
    <1>2. m \in {{}} /\ r.attempt + 1 \in Nat
        BY <1>1 DEF TrialRecord
    <1>3. PICK b : b = [status |-> "running", key |-> k, attempt |-> r.attempt + 1,
                        marks |-> m, artifact |-> 0]
        OBVIOUS
    <1>4. Begin(r, k) = b
        BY <1>1, <1>3 DEF Begin
    <1>5. b \in TrialRecord /\ b.key = k
        BY <1>2, <1>3 DEF TrialRecord
    <1>6. QED
        BY <1>4, <1>5

\* A record that is finished.
LEMMA FinishTypes ==
    ASSUME NEW r \in TrialRecord, NEW k \in Nat, NEW s \in Terminal, NEW a \in {0, 1}
    PROVE  /\ Finish(Begin(r, k), s, a) \in TrialRecord
           /\ Finish(Begin(r, k), s, a).key = k
           /\ Finish(Begin(r, k), s, a).status = s
    <1>1. PICK b \in TrialRecord : b = Begin(r, k) /\ b.key = k
        BY BeginTypes
    <1>2. PICK f : f = [b EXCEPT !.status = s, !.artifact = a]
        OBVIOUS
    <1>3. f \in TrialRecord /\ f.key = b.key /\ f.status = s
        BY <1>1, <1>2 DEF TrialRecord, Terminal
    <1>4. QED
        BY <1>1, <1>2, <1>3 DEF Finish

\* A case of the replay: reused, run with a verdict, or interrupted.
LEMMA ReplayInv ==
    ASSUME ReadinessInv, ReplayCase
    PROVE  ReadinessInv'
    <1>1. /\ UNCHANGED repo /\ cmd.pc = "replay" /\ cmd.at <= Seeds
        BY DEF ReplayCase
    <1>2. /\ cmd \in CommandRecord /\ cmd.d \in Dirs /\ Here \in DirRecord
          /\ Consistent(Here, repo) /\ Working(cmd, Here, repo) /\ SameRepository
          /\ repo.identity \in Nat /\ Contract \in Nat
        BY <1>1, HereFacts DEF Contract
    <1>3. ~Here.frozen /\ Here.used /\ Here.identity = repo.identity
        BY <1>1, <1>2 DEF Working
    <1>4. PICK i \in Nat, S \in Nat : i = cmd.at /\ S = Seeds
        BY <1>2, TrialFacts DEF CommandRecord
    <1>5. CASE ReusableCase(Here.cases[cmd.at]) /\ UNCHANGED dir
                 /\ cmd' = [cmd EXCEPT !.at = @ + 1]
        <2>1. PICK x : x = [cmd EXCEPT !.at = i + 1]
            OBVIOUS
        <2>2. /\ x \in CommandRecord /\ x.pc = "replay" /\ x.at = i + 1 /\ x.d = cmd.d
              /\ x.failed = cmd.failed
            BY <1>1, <1>2, <1>4, <2>1 DEF CommandRecord
        <2>3. cmd' = x
            BY <1>4, <1>5, <2>1
        <2>4. PassedUnder(Here.cases[i], repo.contract[repo.identity])
            BY <1>4, <1>5 DEF ReusableCase, PassedUnder, Contract
        <2>5. \A c \in CaseIds : c < i + 1 => c < i \/ c = i
            BY <1>4 DEF CaseIds
        <2>6. Working(x, Here, repo)
            BY <1>1, <1>2, <1>3, <1>4, <2>2, <2>4, <2>5 DEF Working
        <2>7. x.d \in Dirs /\ dir[x.d] = Here
            BY <1>2, <2>2 DEF Here
        <2>8. QED
            BY <1>2, <1>5, <2>2, <2>3, <2>6, <2>7, CommandStep
    <1>6. ASSUME NEW q \in TrialRecord, Write([Here EXCEPT !.cases[cmd.at] = q]),
                 NEW x \in CommandRecord, cmd' = x,
                 \/ x.pc = "idle"
                 \/ /\ x.pc = "replay" /\ x.d = cmd.d /\ x.at # 0
                    /\ x.failed \/ (/\ x.failed = cmd.failed /\ x.at = i + 1
                                    /\ PassedUnder(q, Contract))
          PROVE  ReadinessInv'
        <2>1. PICK C : C = [Here.cases EXCEPT ![i] = q]
            OBVIOUS
        <2>2. Here.cases \in [CaseIds -> TrialRecord]
            BY <1>2 DEF DirRecord
        <2>3. C \in [CaseIds -> TrialRecord]
            BY <1>6, <2>1, <2>2
        <2>4. PICK r : r = [Here EXCEPT !.cases = C]
            OBVIOUS
        <2>5. /\ r \in DirRecord /\ r.frozen = Here.frozen /\ r.live = Here.live
              /\ r.r3 = Here.r3 /\ r.r5 = Here.r5 /\ r.used = Here.used
              /\ r.identity = Here.identity /\ r.cases = C
            BY <1>2, <2>3, <2>4 DEF DirRecord
        <2>6. dir' = [dir EXCEPT ![cmd.d] = r]
            BY <1>2, <1>4, <1>6, <2>1, <2>4 DEF Write, DirRecord
        <2>7. Consistent(r, repo)
            BY <1>2, <1>3, <2>5, NothingBought
        <2>8. ASSUME x.pc = "replay", ~x.failed, NEW c \in CaseIds, c < x.at
              PROVE  PassedUnder(C[c], repo.contract[repo.identity])
            <3>1. x.failed = cmd.failed /\ x.at = i + 1 /\ PassedUnder(q, Contract)
                BY <1>6, <2>8
            <3>2. c < i \/ c = i
                BY <1>4, <2>8, <3>1 DEF CaseIds
            <3>3. CASE c = i
                BY <2>1, <2>2, <3>1, <3>3 DEF Contract
            <3>4. CASE c < i
                <4>1. C[c] = Here.cases[c]
                    BY <1>4, <2>1, <2>2, <3>4 DEF CaseIds
                <4>2. QED
                    BY <1>1, <1>2, <1>4, <2>8, <3>1, <3>4, <4>1 DEF Working
            <3>5. QED
                BY <3>2, <3>3, <3>4
        <2>9. x.pc # "idle" => x.d = cmd.d /\ Working(x, r, repo)
            <3>1. SUFFICES ASSUME x.pc = "replay" PROVE x.d = cmd.d /\ Working(x, r, repo)
                BY <1>6
            <3>2. x.d = cmd.d /\ x.at # 0
                BY <1>6, <3>1
            <3>3. ~x.failed => \A c \in CaseIds :
                     c < x.at => PassedUnder(r.cases[c], repo.contract[repo.identity])
                BY <2>5, <2>8, <3>1
            <3>4. QED
                BY <1>3, <2>5, <3>1, <3>2, <3>3 DEF Working
        <2>10. QED
            BY <1>2, <1>6, <2>5, <2>6, <2>7, <2>9, WriteStep
    <1>7. Here.cases[cmd.at] \in TrialRecord
        <2>1. cmd.at \in CaseIds
            BY <1>1, <1>2, <1>4 DEF Working, CaseIds
        <2>2. QED
            BY <1>2, <2>1 DEF DirRecord
    <1>8. PICK b : b = Begin(Here.cases[cmd.at], Contract)
        OBVIOUS
    <1>9. CASE /\ Write([Here EXCEPT !.cases[cmd.at] = Finish(b, "pass", 0)])
               /\ cmd' = [cmd EXCEPT !.at = @ + 1]
        <2>1. PICK q : q = Finish(b, "pass", 0)
            OBVIOUS
        <2>2. q \in TrialRecord /\ PassedUnder(q, Contract)
            <3>1. "pass" \in Terminal /\ 0 \in {0, 1}
                BY DEF Terminal
            <3>2. PICK c \in TrialRecord, k \in Nat : c = Here.cases[cmd.at] /\ k = Contract
                BY <1>2, <1>7
            <3>3. q = Finish(Begin(c, k), "pass", 0)
                BY <1>8, <2>1, <3>2
            <3>4. q \in TrialRecord /\ q.status = "pass" /\ q.key = k
                BY <3>1, <3>3, FinishTypes
            <3>5. QED
                BY <3>2, <3>4 DEF PassedUnder
        <2>3. PICK x : x = [cmd EXCEPT !.at = i + 1]
            OBVIOUS
        <2>4. /\ x \in CommandRecord /\ x.pc = "replay" /\ x.at = i + 1 /\ x.d = cmd.d
              /\ x.failed = cmd.failed /\ x.at # 0
            BY <1>1, <1>2, <1>4, <2>3 DEF CommandRecord
        <2>5. cmd' = x /\ Write([Here EXCEPT !.cases[cmd.at] = q])
            BY <1>4, <1>9, <2>1, <2>3
        <2>6. QED
            BY <1>6, <2>2, <2>4, <2>5
    <1>10. CASE /\ \E status \in {"infra_failed", "metric_fail"} :
                      Write([Here EXCEPT !.cases[cmd.at] = Finish(b, status, 0)])
                /\ cmd' = [cmd EXCEPT !.failed = TRUE,
                                      !.at = IF cmd.sweep THEN @ + 1 ELSE Seeds + 1]
        <2>1. PICK status \in {"infra_failed", "metric_fail"} :
                Write([Here EXCEPT !.cases[cmd.at] = Finish(b, status, 0)])
            BY <1>10
        <2>2. PICK q : q = Finish(b, status, 0)
            OBVIOUS
        <2>3. q \in TrialRecord
            BY <1>2, <1>7, <1>8, <2>2, BeginTypes, FinishTypes DEF Terminal
        <2>4. PICK j \in Nat \ {0} : j = IF cmd.sweep THEN cmd.at + 1 ELSE Seeds + 1
            BY <1>4
        <2>5. PICK x : x = [cmd EXCEPT !.failed = TRUE, !.at = j]
            OBVIOUS
        <2>6. /\ x \in CommandRecord /\ x.pc = "replay" /\ x.at # 0 /\ x.d = cmd.d /\ x.failed
            BY <1>1, <1>2, <2>5 DEF CommandRecord
        <2>7. cmd' = x /\ Write([Here EXCEPT !.cases[cmd.at] = q])
            BY <1>10, <2>1, <2>2, <2>4, <2>5
        <2>8. QED
            BY <1>6, <2>3, <2>6, <2>7
    <1>11. CASE Write([Here EXCEPT !.cases[cmd.at] = b]) /\ cmd' = Resting
        <2>1. b \in TrialRecord
            BY <1>2, <1>7, <1>8, BeginTypes, FinishTypes
        <2>2. QED
            BY <1>6, <1>11, <2>1, RestingFacts
    <1>12. QED
        BY <1>5, <1>8, <1>9, <1>10, <1>11 DEF ReplayCase

\* The dataset and the verdict of the preflight.
LEMMA PreflightInv ==
    ASSUME ReadinessInv, WriteScenarios \/ FreezeDataset \/ WritePreflight
    PROVE  ReadinessInv'
    <1>1. /\ UNCHANGED repo /\ cmd.pc \in {"replay", "freeze", "preflight"}
        BY DEF WriteScenarios, FreezeDataset, WritePreflight
    <1>2. /\ cmd \in CommandRecord /\ cmd.d \in Dirs /\ Here \in DirRecord
          /\ Consistent(Here, repo) /\ Working(cmd, Here, repo) /\ SameRepository
          /\ repo.identity \in Nat /\ repo.identity # 0
        BY <1>1, HereFacts
    <1>3. CASE WriteScenarios
        <2>1. PICK v \in Verdicts : v = IF ~cmd.failed THEN "pass"
                                        ELSE IF cmd.sweep THEN "diagnostic_scan" ELSE "incomplete"
            BY DEF Verdicts
        <2>2. PICK r : r = [Here EXCEPT !.scenarios = v]
            OBVIOUS
        <2>3. /\ r \in DirRecord /\ r.frozen = Here.frozen /\ r.live = Here.live
              /\ r.r3 = Here.r3 /\ r.r5 = Here.r5 /\ r.used = Here.used
              /\ r.identity = Here.identity /\ r.cases = Here.cases
            BY <1>2, <2>2 DEF DirRecord
        <2>4. dir' = [dir EXCEPT ![cmd.d] = r]
            BY <1>3, <2>1, <2>2 DEF Write, WriteScenarios
        <2>5. Consistent(r, repo)
            BY <1>2, <2>3 DEF Consistent
        <2>6. PICK p \in Places : p = IF cmd.failed THEN "preflight" ELSE "freeze"
            BY DEF Places
        <2>7. PICK x : x = [cmd EXCEPT !.pc = p]
            OBVIOUS
        <2>8. /\ x \in CommandRecord /\ x.pc = p /\ x.d = cmd.d /\ cmd' = x
            BY <1>2, <1>3, <2>6, <2>7, GoFacts DEF Go, WriteScenarios
        <2>9. cmd.pc = "replay" /\ cmd.at \in Nat /\ cmd.at > Seeds
            BY <1>2, <1>3 DEF WriteScenarios, CommandRecord
        <2>10. \A c \in CaseIds : c < cmd.at
            BY <2>9, TrialFacts DEF CaseIds
        <2>11. Working(x, r, repo)
            BY <1>2, <2>3, <2>6, <2>8, <2>9, <2>10 DEF Working
        <2>12. QED
            BY <1>2, <2>3, <2>4, <2>5, <2>8, <2>11, WriteStep
    <1>4. CASE FreezeDataset
        <2>1. PICK r : r = [Here EXCEPT !.phase = "preflight_completed", !.frozen = TRUE]
            OBVIOUS
        <2>2. /\ r \in DirRecord /\ r.live = Here.live
              /\ r.r3 = Here.r3 /\ r.r5 = Here.r5 /\ r.used = Here.used
              /\ r.identity = Here.identity /\ r.cases = Here.cases
            BY <1>2, <2>1 DEF DirRecord, Phases
        <2>3. dir' = [dir EXCEPT ![cmd.d] = r]
            BY <1>4, <2>1 DEF Write, FreezeDataset
        <2>4. /\ ~Here.frozen /\ r.used /\ r.identity = repo.identity
              /\ \A c \in CaseIds : PassedUnder(r.cases[c], repo.contract[r.identity])
            BY <1>2, <1>4, <2>2 DEF Working, FreezeDataset
        <2>5. r.identity \in 1..repo.identity
            BY <1>2, <2>4
        <2>6. Consistent(r, repo)
            BY <1>2, <2>2, <2>4, <2>5, NothingBought
        <2>7. PICK b \in BOOLEAN : cmd' = [cmd EXCEPT !.pc = "preflight", !.failed = b]
            BY <1>4 DEF FreezeDataset
        <2>8. PICK x : x = [cmd EXCEPT !.pc = "preflight", !.failed = b]
            OBVIOUS
        <2>9. x \in CommandRecord /\ x.pc = "preflight" /\ x.d = cmd.d /\ cmd' = x
            BY <1>2, <2>7, <2>8 DEF CommandRecord, Places
        <2>10. Working(x, r, repo)
            BY <2>9 DEF Working
        <2>11. QED
            BY <1>2, <2>2, <2>3, <2>6, <2>9, <2>10, WriteStep
    <1>5. CASE WritePreflight
        <2>1. PICK v \in Verdicts : v = PreflightVerdict
            BY DEF Verdicts, PreflightVerdict
        <2>2. PICK r : r = [Here EXCEPT !.preflight = v]
            OBVIOUS
        <2>3. /\ r \in DirRecord /\ r.frozen = Here.frozen /\ r.live = Here.live
              /\ r.r3 = Here.r3 /\ r.r5 = Here.r5 /\ r.used = Here.used
              /\ r.identity = Here.identity /\ r.cases = Here.cases
            BY <1>2, <2>2 DEF DirRecord
        <2>4. dir' = [dir EXCEPT ![cmd.d] = r]
            BY <1>5, <2>1, <2>2 DEF Write, WritePreflight
        <2>5. Consistent(r, repo)
            BY <1>2, <2>3 DEF Consistent
        <2>6. PICK x : x = [cmd EXCEPT !.pc = "summary"]
            OBVIOUS
        <2>7. x \in CommandRecord /\ x.pc = "summary" /\ x.d = cmd.d /\ cmd' = x
            BY <1>2, <1>5, <2>6, GoFacts DEF Go, WritePreflight, Places
        <2>8. Working(x, r, repo)
            BY <2>7 DEF Working
        <2>9. QED
            BY <1>2, <2>3, <2>4, <2>5, <2>7, <2>8, WriteStep
    <1>6. QED
        BY <1>3, <1>4, <1>5

\* The summary, the phase and the ledger, which nothing above reads.
LEMMA ClosingInv ==
    ASSUME ReadinessInv, WriteSummary \/ WritePhase \/ WriteLedger
    PROVE  ReadinessInv'
    <1>1. /\ UNCHANGED repo /\ cmd.pc \in {"summary", "phase", "ledger"}
        BY DEF WriteSummary, WritePhase, WriteLedger
    <1>2. /\ cmd \in CommandRecord /\ cmd.d \in Dirs /\ Here \in DirRecord
          /\ Consistent(Here, repo) /\ SameRepository
        BY <1>1, HereFacts
    <1>3. ASSUME NEW r \in DirRecord, dir' = [dir EXCEPT ![cmd.d] = r],
                 r.frozen = Here.frozen, r.live = Here.live,
                 r.r3 = Here.r3, r.r5 = Here.r5, r.used = Here.used,
                 r.identity = Here.identity, r.cases = Here.cases,
                 NEW x \in CommandRecord, cmd' = x,
                 x.pc = "idle" \/ (x.pc \in {"ledger", "phase"} /\ x.d = cmd.d)
          PROVE  ReadinessInv'
        <2>1. Consistent(r, repo)
            BY <1>2, <1>3 DEF Consistent
        <2>2. Working(x, r, repo)
            BY <1>3 DEF Working
        <2>3. QED
            BY <1>2, <1>3, <2>1, <2>2, WriteStep
    <1>4. CASE WriteSummary
        <2>1. PICK v \in Verdicts : v = IF cmd.reps = 0 THEN Here.preflight
                ELSE IF cmd.failed THEN "incomplete"
                ELSE IF Measured(cmd.reps).ready THEN "ready" ELSE "blocked"
            BY <1>2 DEF Verdicts, DirRecord
        <2>2. PICK r : r = [Here EXCEPT !.summary = v]
            OBVIOUS
        <2>3. /\ r \in DirRecord /\ r.frozen = Here.frozen /\ r.live = Here.live
              /\ r.r3 = Here.r3 /\ r.r5 = Here.r5 /\ r.used = Here.used
              /\ r.identity = Here.identity /\ r.cases = Here.cases
            BY <1>2, <2>2 DEF DirRecord
        <2>4. dir' = [dir EXCEPT ![cmd.d] = r]
            BY <1>4, <2>1, <2>2 DEF Write, WriteSummary
        <2>5. PICK p \in {"ledger", "phase"} :
                p = IF cmd.reps = 0 \/ cmd.failed THEN "ledger" ELSE "phase"
            OBVIOUS
        <2>6. PICK x : x = [cmd EXCEPT !.pc = p]
            OBVIOUS
        <2>7. x \in CommandRecord /\ x.pc = p /\ x.d = cmd.d /\ cmd' = x
            <3>1. p \in Places
                BY DEF Places
            <3>2. QED
                BY <1>2, <1>4, <2>5, <2>6, <3>1, GoFacts DEF Go, WriteSummary
        <2>8. QED
            BY <1>3, <2>3, <2>4, <2>7
    <1>5. CASE WritePhase
        <2>1. PICK v \in Phases : v = IF cmd.reps = R3 THEN "r3_completed" ELSE "r5_completed"
            BY DEF Phases
        <2>2. PICK r : r = [Here EXCEPT !.phase = v]
            OBVIOUS
        <2>3. /\ r \in DirRecord /\ r.frozen = Here.frozen /\ r.live = Here.live
              /\ r.r3 = Here.r3 /\ r.r5 = Here.r5 /\ r.used = Here.used
              /\ r.identity = Here.identity /\ r.cases = Here.cases
            BY <1>2, <2>2 DEF DirRecord
        <2>4. dir' = [dir EXCEPT ![cmd.d] = r]
            BY <1>5, <2>1, <2>2 DEF Write, WritePhase
        <2>5. PICK x : x = [cmd EXCEPT !.pc = "ledger"]
            OBVIOUS
        <2>6. x \in CommandRecord /\ x.pc = "ledger" /\ x.d = cmd.d /\ cmd' = x
            BY <1>2, <1>5, <2>5, GoFacts DEF Go, WritePhase, Places
        <2>7. QED
            BY <1>3, <2>3, <2>4, <2>6
    <1>6. CASE WriteLedger
        <2>1. PICK T : T = {t \in Trials(cmd.reps) : Scored(Here.live[t])}
            OBVIOUS
        <2>2. Cardinality(T) \in Nat
            <3>1. cmd.reps \in {0, R3, R5}
                BY <1>2 DEF CommandRecord
            <3>2. IsFiniteSet(Trials(cmd.reps)) /\ T \in SUBSET Trials(cmd.reps)
                BY <2>1, <3>1, TrialFacts
            <3>3. QED
                BY <3>2, FS_Subset, FS_CardinalityType
        <2>3. PICK v \in Nat : v = IF cmd.reps = 0 THEN IF Here.frozen THEN 0 ELSE Here.ledger
                                   ELSE Cardinality(T)
            BY <1>2, <2>2 DEF DirRecord
        <2>4. PICK r : r = [Here EXCEPT !.ledger = v]
            OBVIOUS
        <2>5. /\ r \in DirRecord /\ r.frozen = Here.frozen /\ r.live = Here.live
              /\ r.r3 = Here.r3 /\ r.r5 = Here.r5 /\ r.used = Here.used
              /\ r.identity = Here.identity /\ r.cases = Here.cases
            BY <1>2, <2>4 DEF DirRecord
        <2>6. dir' = [dir EXCEPT ![cmd.d] = r] /\ cmd' = Resting
            BY <1>6, <2>1, <2>3, <2>4 DEF Write, WriteLedger
        <2>7. QED
            BY <1>3, <2>5, <2>6, RestingFacts
    <1>7. QED
        BY <1>4, <1>5, <1>6

\* A set of naturals has a smallest element.
LEMMA SmallestNumber ==
    ASSUME NEW N \in SUBSET Nat, N # {}
    PROVE  \E x \in N : \A y \in N : x <= y
    <1>1. PICK R : R = OpToRel(<, Nat)
        OBVIOUS
    <1>2. IsWellFoundedOn(R, Nat)
        BY <1>1, NatLessThanWellFounded
    <1>3. PICK x \in N : \A y \in N : ~(<<y, x>> \in R)
        BY <1>2, WFMin
    <1>4. \A y \in N : ~(y < x)
        BY <1>1, <1>3 DEF OpToRel
    <1>5. QED
        BY <1>4

\* There is a next trial as long as one is left.
LEMMA NextTrialIsLeft ==
    ASSUME NEW L \in SUBSET Trials(R5), L # {}
    PROVE  NextTrial(L) \in L
    <1>1. \A z \in L : z[1] \in Nat /\ z[2] \in Nat
        BY TrialFacts DEF Trials, CaseIds
    <1>2. PICK A : A = {z[1] : z \in L}
        OBVIOUS
    <1>3. A \in SUBSET Nat /\ A # {}
        BY <1>1, <1>2
    <1>4. PICK a \in A : \A y \in A : a <= y
        BY <1>3, SmallestNumber
    <1>5. PICK B : B = {z[2] : z \in {z \in L : z[1] = a}}
        OBVIOUS
    <1>6. B \in SUBSET Nat /\ B # {}
        BY <1>1, <1>2, <1>4, <1>5
    <1>7. PICK b \in B : \A y \in B : b <= y
        BY <1>6, SmallestNumber
    <1>8. PICK x \in L : x[1] = a /\ x[2] = b
        BY <1>5, <1>7
    <1>9. ASSUME NEW y \in L PROVE x[1] < y[1] \/ (x[1] = y[1] /\ x[2] <= y[2])
        <2>1. a <= y[1] /\ a \in Nat /\ y[1] \in Nat
            BY <1>1, <1>2, <1>3, <1>4
        <2>2. y[1] = a => b <= y[2]
            BY <1>5, <1>7
        <2>3. QED
            BY <1>8, <2>1, <2>2
    <1>10. QED
        BY <1>8, <1>9 DEF NextTrial

\* A result that may be extended is not decided.
LEMMA ExtendIsUndecided ==
    ASSUME NEW s, NEW n, Aggregate(s, n).extend
    PROVE  ~Aggregate(s, n).ready
    <1>1. PICK B : B = Blockers(s)
        OBVIOUS
    <1>2. B = {"significance_not_established"}
        BY <1>1 DEF Aggregate
    <1>3. Aggregate(s, n).ready = (B = {})
        BY <1>1 DEF Aggregate
    <1>4. QED
        BY <1>2, <1>3

\* A live trial: reused, answered, failed in transport, or interrupted.
LEMMA LiveInv ==
    ASSUME ReadinessInv, LiveTrial
    PROVE  ReadinessInv'
    <1>1. /\ UNCHANGED repo /\ cmd.pc = "live" /\ cmd.left # {}
        BY DEF LiveTrial
    <1>2. /\ cmd \in CommandRecord /\ cmd.d \in Dirs /\ Here \in DirRecord
          /\ Consistent(Here, repo) /\ Working(cmd, Here, repo) /\ SameRepository
          /\ repo.identity \in Nat
        BY <1>1, HereFacts
    <1>3. /\ Here.frozen /\ Here.identity = repo.identity
          /\ cmd.reps \in {R3, R5} /\ cmd.left \subseteq Trials(cmd.reps)
          /\ cmd.reps = R5 => Here.r3 # NoAggregate /\ Here.r3.extend
          /\ ~cmd.failed => \A u \in Trials(cmd.reps) \ cmd.left : Here.live[u].status = "pass"
        BY <1>1, <1>2 DEF Working
    <1>4. cmd.left \in SUBSET Trials(R5)
        BY <1>2 DEF CommandRecord
    <1>5. PICK t \in cmd.left : t = NextTrial(cmd.left)
        BY <1>1, <1>4, NextTrialIsLeft
    <1>6. Here.live \in [Trials(R5) -> TrialRecord] /\ t \in Trials(R5)
        BY <1>2, <1>4 DEF DirRecord
    <1>7. PICK rest : rest = [cmd EXCEPT !.left = @ \ {t}]
        OBVIOUS
    <1>8. /\ rest \in CommandRecord /\ rest.pc = "live" /\ rest.d = cmd.d
          /\ rest.reps = cmd.reps /\ rest.left = cmd.left \ {t} /\ rest.failed = cmd.failed
        BY <1>1, <1>2, <1>4, <1>7 DEF CommandRecord
    <1>9. CASE Scored(Here.live[t]) /\ UNCHANGED dir /\ cmd' = rest
        <2>1. \A u \in Trials(rest.reps) \ rest.left :
                 u = t \/ u \in Trials(cmd.reps) \ cmd.left
            BY <1>8
        <2>2. Working(rest, Here, repo)
            BY <1>3, <1>8, <1>9, <2>1 DEF Working, Scored
        <2>3. rest.d \in Dirs /\ dir[rest.d] = Here
            BY <1>2, <1>8 DEF Here
        <2>4. QED
            BY <1>2, <1>8, <1>9, <2>2, <2>3, CommandStep
    <1>10. ASSUME Here.live[t].status # "pass",
                  NEW q \in TrialRecord, q.key = repo.identity,
                  Write([Here EXCEPT !.live[t] = q]),
                  NEW x \in CommandRecord, cmd' = x,
                  \/ x.pc = "idle"
                  \/ /\ x.pc = "live" /\ x.d = cmd.d /\ x.reps = cmd.reps
                     /\ x.left = cmd.left \ {t}
                     /\ x.failed \/ (x.failed = cmd.failed /\ q.status = "pass")
           PROVE  ReadinessInv'
        <2>1. PICK V : V = [Here.live EXCEPT ![t] = q]
            OBVIOUS
        <2>2. /\ V \in [Trials(R5) -> TrialRecord] /\ V[t] = q
              /\ \A u \in Trials(R5) : u # t => V[u] = Here.live[u]
            BY <1>6, <1>10, <2>1
        <2>3. PICK r : r = [Here EXCEPT !.live = V]
            OBVIOUS
        <2>4. /\ r \in DirRecord /\ r.frozen = Here.frozen /\ r.live = V
              /\ r.r3 = Here.r3 /\ r.r5 = Here.r5 /\ r.used = Here.used
              /\ r.identity = Here.identity /\ r.cases = Here.cases
            BY <1>2, <2>2, <2>3 DEF DirRecord
        <2>5. dir' = [dir EXCEPT ![cmd.d] = r]
            BY <1>2, <1>10, <2>1, <2>3 DEF Write, DirRecord
        <2>6. Here.r3 # NoAggregate \/ Here.r5 # NoAggregate => t \notin Trials(R3)
            BY <1>2, <1>10 DEF Consistent
        <2>7. t \notin Trials(R3) => \A u \in Trials(R3) : V[u] = Here.live[u]
            BY <2>2, TrialFacts
        <2>8. t \notin Trials(R3) => Scores(V, R3) = Scores(Here.live, R3)
            BY <2>7 DEF Scores
        <2>9. t \notin Trials(R3) => Here.r3 # NoAggregate /\ ~Here.r3.ready
            <3>1. SUFFICES ASSUME t \notin Trials(R3)
                           PROVE  Here.r3 # NoAggregate /\ ~Here.r3.ready
                OBVIOUS
            <3>2. cmd.reps = R5
                BY <1>3, <1>5, <3>1
            <3>3. Here.r3 # NoAggregate /\ Here.r3.extend
                BY <1>3, <3>2
            <3>4. Here.r3 = Aggregate(Scores(Here.live, R3), R3)
                BY <1>2, <3>3 DEF Consistent
            <3>5. QED
                BY <3>3, <3>4, ExtendIsUndecided
        <2>10. Consistent(r, repo)
            <3>1. r.frozen => /\ r.used /\ r.identity \in 1..repo.identity
                              /\ \A c \in CaseIds :
                                    PassedUnder(r.cases[c], repo.contract[r.identity])
                BY <1>2, <2>4 DEF Consistent
            <3>2. \A u \in Trials(R5) :
                     r.live[u].attempt > 0 => r.frozen /\ r.live[u].key = r.identity
                BY <1>2, <1>3, <1>10, <2>2, <2>4 DEF Consistent
            <3>3. r.r3 # NoAggregate =>
                     /\ r.r3 = Aggregate(Scores(r.live, R3), R3)
                     /\ \A u \in Trials(R3) : r.live[u].status = "pass"
                BY <1>2, <2>4, <2>6, <2>7, <2>8 DEF Consistent
            <3>4. r.r5 # NoAggregate =>
                     \A u \in Trials(R3) :
                        r.live[u].status = "pass" /\ r.r5.scores[u] = r.live[u].artifact
                BY <1>2, <2>4, <2>6, <2>7 DEF Consistent
            <3>5. (\E u \in Trials(R5) \ Trials(R3) : r.live[u].attempt > 0) =>
                     r.r3 # NoAggregate /\ ~r.r3.ready
                <4>1. CASE t \notin Trials(R3)
                    BY <2>4, <2>9, <4>1
                <4>2. CASE t \in Trials(R3)
                    BY <1>2, <2>2, <2>4, <4>2 DEF Consistent
                <4>3. QED
                    BY <4>1, <4>2
            <3>6. QED
                BY <3>1, <3>2, <3>3, <3>4, <3>5 DEF Consistent
        <2>11. x.pc # "idle" => x.d = cmd.d /\ Working(x, r, repo)
            <3>1. SUFFICES ASSUME x.pc = "live" PROVE x.d = cmd.d /\ Working(x, r, repo)
                BY <1>10
            <3>2. /\ x.d = cmd.d /\ x.reps = cmd.reps /\ x.left = cmd.left \ {t}
                  /\ x.failed \/ (x.failed = cmd.failed /\ q.status = "pass")
                BY <1>10, <3>1
            <3>3. ~x.failed => \A u \in Trials(x.reps) \ x.left : r.live[u].status = "pass"
                <4>1. Trials(cmd.reps) \subseteq Trials(R5)
                    BY <1>3, TrialFacts
                <4>2. \A u \in Trials(x.reps) \ x.left :
                         u = t \/ u \in Trials(cmd.reps) \ cmd.left
                    BY <3>2
                <4>3. QED
                    BY <1>3, <2>2, <2>4, <3>2, <4>1, <4>2
            <3>4. QED
                BY <1>3, <2>4, <3>1, <3>2, <3>3 DEF Working
        <2>12. QED
            BY <1>2, <1>10, <2>4, <2>5, <2>10, <2>11, WriteStep
    <1>11. PICK c \in TrialRecord, k \in Nat : c = Here.live[t] /\ k = repo.identity
        BY <1>2, <1>6
    <1>12. /\ Begin(c, k) \in TrialRecord /\ Begin(c, k).key = k
           /\ \A s \in {"pass", "infra_failed"}, a \in {0, 1} :
                 /\ Finish(Begin(c, k), s, a) \in TrialRecord
                 /\ Finish(Begin(c, k), s, a).key = k
                 /\ Finish(Begin(c, k), s, a).status = s
        <2>1. \A s \in {"pass", "infra_failed"} : s \in Terminal
            BY DEF Terminal
        <2>2. QED
            BY <2>1, BeginTypes, FinishTypes
    <1>13. CASE /\ ~Scored(Here.live[t])
                /\ \E score \in {0, 1} :
                      Write([Here EXCEPT !.live[t] = Finish(Begin(c, k), "pass", score)])
                /\ cmd' = rest
        <2>1. PICK score \in {0, 1} :
                Write([Here EXCEPT !.live[t] = Finish(Begin(c, k), "pass", score)])
            BY <1>13
        <2>2. PICK q : q = Finish(Begin(c, k), "pass", score)
            OBVIOUS
        <2>3. q \in TrialRecord /\ q.key = repo.identity /\ q.status = "pass"
            BY <1>11, <1>12, <2>2
        <2>4. Here.live[t].status # "pass" /\ cmd' = rest
            BY <1>13 DEF Scored
        <2>5. QED
            BY <1>8, <1>10, <2>1, <2>2, <2>3, <2>4
    <1>14. CASE /\ ~Scored(Here.live[t])
                /\ Write([Here EXCEPT !.live[t] = Finish(Begin(c, k), "infra_failed", 0)])
                /\ cmd' = [rest EXCEPT !.failed = TRUE]
        <2>1. PICK q : q = Finish(Begin(c, k), "infra_failed", 0)
            OBVIOUS
        <2>2. q \in TrialRecord /\ q.key = repo.identity
            BY <1>11, <1>12, <2>1
        <2>3. PICK x : x = [rest EXCEPT !.failed = TRUE]
            OBVIOUS
        <2>4. /\ x \in CommandRecord /\ x.pc = "live" /\ x.d = cmd.d /\ x.reps = cmd.reps
              /\ x.left = cmd.left \ {t} /\ x.failed
            BY <1>8, <2>3 DEF CommandRecord
        <2>5. /\ Here.live[t].status # "pass" /\ cmd' = x
              /\ Write([Here EXCEPT !.live[t] = q])
            BY <1>14, <2>1, <2>3 DEF Scored
        <2>6. QED
            BY <1>10, <2>2, <2>4, <2>5
    <1>15. CASE /\ ~Scored(Here.live[t])
                /\ Write([Here EXCEPT !.live[t] = Begin(c, k)]) /\ cmd' = Resting
        <2>1. PICK q : q = Begin(c, k)
            OBVIOUS
        <2>2. q \in TrialRecord /\ q.key = repo.identity
            BY <1>11, <1>12, <2>1
        <2>3. /\ Here.live[t].status # "pass" /\ cmd' = Resting
              /\ Write([Here EXCEPT !.live[t] = q])
            BY <1>15, <2>1 DEF Scored
        <2>4. QED
            BY <1>10, <2>2, <2>3, RestingFacts
    <1>16. QED
        BY <1>5, <1>7, <1>9, <1>11, <1>13, <1>14, <1>15 DEF LiveTrial

\* What WriteAggregate computes, when no trial is unresolved.
LEMMA MeasuredFacts ==
    ASSUME NEW V \in [Trials(R5) -> TrialRecord], NEW n \in {R3, R5}
    PROVE  /\ Aggregate(Scores(V, n), n) \in AggregateRecord
           /\ \A t \in Trials(R3) : Aggregate(Scores(V, n), n).scores[t] = V[t].artifact
    <1>1. Trials(R3) \subseteq Trials(n) /\ Trials(n) \subseteq Trials(R5)
        BY TrialFacts
    <1>2. \A t \in Trials(R5) : V[t].artifact \in {0, 1}
        BY DEF TrialRecord
    <1>3. PICK s : s = Scores(V, n)
        OBVIOUS
    <1>4. s \in [Trials(n) -> {0, 1}] /\ \A t \in Trials(n) : s[t] = V[t].artifact
        BY <1>1, <1>2, <1>3 DEF Scores
    <1>5. s \in {<<>>} \cup [Trials(R3) -> {0, 1}] \cup [Trials(R5) -> {0, 1}]
        BY <1>4
    <1>6. PICK y \in BOOLEAN, e \in BOOLEAN :
            /\ y = (Blockers(s) = {})
            /\ e = (n = R3 /\ Blockers(s) = {"significance_not_established"})
        OBVIOUS
    <1>7. Aggregate(s, n) = [scores |-> s, ready |-> y, extend |-> e]
        BY <1>6 DEF Aggregate
    <1>8. Aggregate(s, n) \in AggregateRecord /\ Aggregate(s, n).scores = s
        BY <1>5, <1>7 DEF AggregateRecord
    <1>9. QED
        BY <1>1, <1>3, <1>4, <1>8

\* The aggregate of three repetitions that a resume writes is the one that is there.
LEMMA AggregateInv ==
    ASSUME ReadinessInv, WriteAggregate
    PROVE  /\ ReadinessInv'
           /\ Here.r3 # NoAggregate => dir'[cmd.d].r3 = Here.r3
    <1>1. /\ UNCHANGED repo /\ cmd.pc = "live" /\ cmd.left = {} /\ Go("summary")
        BY DEF WriteAggregate
    <1>2. /\ cmd \in CommandRecord /\ cmd.d \in Dirs /\ Here \in DirRecord
          /\ Consistent(Here, repo) /\ Working(cmd, Here, repo) /\ SameRepository
        BY <1>1, HereFacts
    <1>3. PICK x : x = [cmd EXCEPT !.pc = "summary"]
        OBVIOUS
    <1>4. x \in CommandRecord /\ x.pc = "summary" /\ x.d = cmd.d /\ cmd' = x
        BY <1>1, <1>2, <1>3, GoFacts DEF Go, Places
    <1>5. ASSUME NEW r PROVE Working(x, r, repo)
        BY <1>4 DEF Working
    <1>6. CASE UNCHANGED dir
        BY <1>2, <1>4, <1>5, <1>6, CommandStep DEF Here
    <1>7. CASE ~cmd.failed
        <2>1. /\ cmd.reps \in {R3, R5}
              /\ \A t \in Trials(cmd.reps) : Here.live[t].status = "pass"
            BY <1>1, <1>2, <1>7 DEF Working
        <2>2. PICK V \in [Trials(R5) -> TrialRecord] : V = Here.live
            BY <1>2 DEF DirRecord
        <2>3. CASE cmd.reps = R3
            <3>1. PICK g \in AggregateRecord : g = Aggregate(Scores(V, R3), R3)
                BY MeasuredFacts
            <3>2. PICK r : r = [Here EXCEPT !.r3 = g]
                OBVIOUS
            <3>3. /\ r \in DirRecord /\ r.frozen = Here.frozen /\ r.live = Here.live
                  /\ r.r3 = g /\ r.r5 = Here.r5 /\ r.used = Here.used
                  /\ r.identity = Here.identity /\ r.cases = Here.cases
                BY <1>2, <3>2 DEF DirRecord
            <3>4. dir' = [dir EXCEPT ![cmd.d] = r]
                BY <1>7, <2>2, <2>3, <3>1, <3>2 DEF WriteAggregate, Write, Measured
            <3>5. Here.r3 # NoAggregate => Here.r3 = g
                BY <1>2, <2>2, <3>1 DEF Consistent
            <3>6. g = Aggregate(Scores(r.live, R3), R3)
                BY <2>2, <3>1, <3>3
            <3>7. \A t \in Trials(R3) : r.live[t].status = "pass"
                BY <2>1, <2>3, <3>3
            <3>8. Consistent(r, repo)
                BY <1>2, <3>3, <3>5, <3>6, <3>7 DEF Consistent
            <3>9. ReadinessInv'
                BY <1>2, <1>4, <1>5, <3>3, <3>4, <3>8, WriteStep
            <3>10. dir'[cmd.d] = r
                BY <1>2, <3>4 DEF ReadinessInv, ReadinessTypes
            <3>11. QED
                BY <3>3, <3>5, <3>9, <3>10
        <2>4. CASE cmd.reps = R5
            <3>1. PICK g \in AggregateRecord : g = Aggregate(Scores(V, R5), R5)
                BY MeasuredFacts
            <3>2. \A t \in Trials(R3) : g.scores[t] = V[t].artifact
                BY <3>1, MeasuredFacts
            <3>3. PICK r : r = [Here EXCEPT !.r5 = g]
                OBVIOUS
            <3>4. /\ r \in DirRecord /\ r.frozen = Here.frozen /\ r.live = Here.live
                  /\ r.r3 = Here.r3 /\ r.r5 = g /\ r.used = Here.used
                  /\ r.identity = Here.identity /\ r.cases = Here.cases
                BY <1>2, <3>3 DEF DirRecord
            <3>5. dir' = [dir EXCEPT ![cmd.d] = r]
                BY <1>7, <2>2, <2>4, <3>1, <3>3, TrialFacts DEF WriteAggregate, Write, Measured
            <3>6. \A t \in Trials(R3) :
                     r.live[t].status = "pass" /\ r.r5.scores[t] = r.live[t].artifact
                BY <2>1, <2>2, <2>4, <3>2, <3>4, TrialFacts
            <3>7. Consistent(r, repo)
                BY <1>2, <3>4, <3>6 DEF Consistent
            <3>8. ReadinessInv'
                BY <1>2, <1>4, <1>5, <3>4, <3>5, <3>7, WriteStep
            <3>9. dir'[cmd.d] = r
                BY <1>2, <3>5 DEF ReadinessInv, ReadinessTypes
            <3>10. QED
                BY <3>4, <3>8, <3>9
        <2>5. QED
            BY <2>1, <2>3, <2>4
    <1>8. QED
        BY <1>6, <1>7 DEF WriteAggregate

\* A command is killed, a directory is declared invalid.
LEMMA StoppedInv ==
    ASSUME ReadinessInv, Killed \/ \E d \in Dirs : Invalidate(d)
    PROVE  ReadinessInv'
    <1>1. CASE Killed
        <2>1. SameRepository /\ UNCHANGED dir /\ cmd' = Resting
            BY <1>1, HereFacts DEF Killed
        <2>2. QED
            BY <2>1, RestingFacts, CommandStep
    <1>2. ASSUME NEW d \in Dirs, Invalidate(d) PROVE ReadinessInv'
        <2>1. dir[d] \in DirRecord /\ Consistent(dir[d], repo)
            BY DEF ReadinessInv, ReadinessTypes
        <2>2. PICK r : r = [dir[d] EXCEPT !.invalid = TRUE]
            OBVIOUS
        <2>3. /\ r \in DirRecord /\ r.frozen = dir[d].frozen /\ r.live = dir[d].live
              /\ r.r3 = dir[d].r3 /\ r.r5 = dir[d].r5 /\ r.used = dir[d].used
              /\ r.identity = dir[d].identity /\ r.cases = dir[d].cases
            BY <2>1, <2>2 DEF DirRecord
        <2>4. dir' = [dir EXCEPT ![d] = r]
            BY <1>2, <2>1, <2>2 DEF Invalidate, DirRecord
        <2>5. Consistent(r, repo)
            BY <2>1, <2>3 DEF Consistent
        <2>6. SameRepository /\ cmd \in CommandRecord /\ cmd.pc = "idle" /\ cmd' = cmd
            BY <1>2, IssueFacts DEF Invalidate, ReadinessInv, ReadinessTypes
        <2>7. PICK x \in CommandRecord : x = cmd
            BY <2>6
        <2>8. QED
            BY <2>3, <2>4, <2>5, <2>6, <2>7, WriteStep
    <1>3. QED
        BY <1>1, <1>2

\* A commit adds an identity and leaves the contracts of the earlier ones.
LEMMA CommitInv ==
    ASSUME ReadinessInv, ChangeRepository
    PROVE  ReadinessInv'
    <1>1. PICK i \in Nat, C \in Seq(Nat), n \in Nat :
            /\ i = repo.identity /\ C = repo.contract /\ n = repo.issued
            /\ Len(C) = i /\ i # 0
        BY DEF ReadinessInv, ReadinessTypes
    <1>2. C[i] \in Nat /\ \A j \in 1..i : C[j] \in Nat
        BY <1>1
    <1>3. PICK k \in Nat : repo' = [repo EXCEPT !.identity = @ + 1, !.contract = Append(@, k)]
        <2>1. PICK k \in {Contract, repo.identity + 1} :
                repo' = [repo EXCEPT !.identity = @ + 1, !.contract = Append(@, k)]
            BY DEF ChangeRepository
        <2>2. k \in Nat
            BY <1>1, <1>2 DEF Contract
        <2>3. QED
            BY <2>1, <2>2
    <1>4. PICK D : D = Append(C, k)
        OBVIOUS
    <1>5. D \in Seq(Nat) /\ Len(D) = i + 1 /\ \A j \in 1..i : D[j] = C[j]
        BY <1>1, <1>4
    <1>6. repo \in [identity : Nat, contract : Seq(Nat), issued : Nat]
        BY DEF ReadinessInv, ReadinessTypes
    <1>7. repo' = [repo EXCEPT !.identity = i + 1, !.contract = D]
        BY <1>1, <1>3, <1>4
    <1>8. /\ repo' \in [identity : Nat, contract : Seq(Nat), issued : Nat]
          /\ repo'.identity = i + 1 /\ repo'.contract = D
        <2>1. PICK j \in Nat : j = i + 1
            OBVIOUS
        <2>2. repo' = [repo EXCEPT !.identity = j, !.contract = D]
            BY <1>7, <2>1
        <2>3. QED
            BY <1>5, <1>6, <2>1, <2>2
    <1>9. UNCHANGED <<dir, cmd>> /\ cmd.pc = "idle"
        BY DEF ChangeRepository
    <1>10. ReadinessTypes'
        BY <1>1, <1>5, <1>8, <1>9 DEF ReadinessInv, ReadinessTypes
    <1>11. ASSUME NEW d \in Dirs PROVE Consistent(dir[d], repo')
        <2>1. Consistent(dir[d], repo)
            BY DEF ReadinessInv
        <2>2. dir[d].identity \in 1..i =>
                 /\ dir[d].identity \in 1..(i + 1)
                 /\ D[dir[d].identity] = C[dir[d].identity]
            BY <1>5
        <2>3. dir[d].frozen =>
                 /\ dir[d].used /\ dir[d].identity \in 1..repo'.identity
                 /\ \A c \in CaseIds :
                       PassedUnder(dir[d].cases[c], repo'.contract[dir[d].identity])
            BY <1>1, <1>8, <2>1, <2>2 DEF Consistent
        <2>4. QED
            BY <2>1, <2>3 DEF Consistent
    <1>12. (\A d \in Dirs : Consistent(dir[d], repo))'
        BY <1>9, <1>11
    <1>13. QED
        BY <1>9, <1>10, <1>12 DEF ReadinessInv

\* Every step keeps the invariant.
LEMMA ReadinessNextInv == ReadinessInv /\ [ReadinessNext]_readinessVars => ReadinessInv'
    <1> SUFFICES ASSUME ReadinessInv, [ReadinessNext]_readinessVars PROVE ReadinessInv'
        OBVIOUS
    <1>1. CASE \E d \in Dirs : StartPreflight(d) \/ StartResume(d) \/ Invalidate(d)
        BY <1>1, StartInv, StoppedInv
    <1>2. CASE Inherit \/ WriteManifest
        BY <1>2, InheritInv
    <1>3. CASE ReplayCase
        BY <1>3, ReplayInv
    <1>4. CASE WriteScenarios \/ FreezeDataset \/ WritePreflight
        BY <1>4, PreflightInv
    <1>5. CASE LiveTrial
        BY <1>5, LiveInv
    <1>6. CASE WriteAggregate
        BY <1>6, AggregateInv
    <1>7. CASE WriteSummary \/ WritePhase \/ WriteLedger
        BY <1>7, ClosingInv
    <1>8. CASE Killed
        BY <1>8, StoppedInv
    <1>9. CASE ChangeRepository
        BY <1>9, CommitInv
    <1>10. CASE UNCHANGED readinessVars
        BY <1>10 DEF readinessVars, ReadinessInv, ReadinessTypes, Here
    <1>11. QED
        BY <1>1, <1>2, <1>3, <1>4, <1>5, <1>6, <1>7, <1>8, <1>9, <1>10 DEF ReadinessNext

(***************************************************************************)
(* The inductive invariant of the readiness measurement holds in every     *)
(* behaviour of run_retest_baselines_v3, kills and commits included.       *)
(***************************************************************************)
THEOREM ReadinessInvariant == ReadinessSpec => []ReadinessInv
    BY ReadinessInitInv, ReadinessNextInv, PTL DEF ReadinessSpec

\* The invariant implies that a directory fits together.
LEMMA InvariantIsConsistent == ReadinessInv => DirectoryConsistent
    <1> SUFFICES ASSUME ReadinessInv, NEW d \in Dirs
                 PROVE  /\ (\E t \in Trials(R5) : dir[d].live[t].attempt > 0) =>
                              \A c \in CaseIds :
                                 /\ dir[d].cases[c].status = "pass"
                                 /\ dir[d].cases[c].key = repo.contract[dir[d].identity]
                        /\ \A t \in Trials(R5) :
                              dir[d].live[t].attempt > 0 => dir[d].live[t].key = dir[d].identity
                        /\ (\E t \in Trials(R5) \ Trials(R3) : dir[d].live[t].attempt > 0) =>
                              /\ dir[d].r3 # NoAggregate
                              /\ ~dir[d].r3.ready
                              /\ dir[d].r5 # NoAggregate =>
                                    \A t \in Trials(R3) : dir[d].r5.scores[t] = dir[d].r3.scores[t]
        BY DEF DirectoryConsistent, DatasetCurrent, OneIdentity, ExtendsR3
    <1>1. PICK r \in DirRecord : r = dir[d]
        BY DEF ReadinessInv, ReadinessTypes
    <1>2. Consistent(r, repo)
        BY <1>1 DEF ReadinessInv
    <1>3. (\E t \in Trials(R5) : r.live[t].attempt > 0) =>
             \A c \in CaseIds :
                r.cases[c].status = "pass" /\ r.cases[c].key = repo.contract[r.identity]
        BY <1>2 DEF Consistent, PassedUnder
    <1>4. \A t \in Trials(R5) : r.live[t].attempt > 0 => r.live[t].key = r.identity
        BY <1>2 DEF Consistent
    <1>5. (\E t \in Trials(R5) \ Trials(R3) : r.live[t].attempt > 0) =>
             r.r3 # NoAggregate /\ ~r.r3.ready
        BY <1>2 DEF Consistent
    <1>6. ASSUME r.r3 # NoAggregate, r.r5 # NoAggregate, NEW t \in Trials(R3)
          PROVE  r.r5.scores[t] = r.r3.scores[t]
        <2>1. r.live \in [Trials(R5) -> TrialRecord]
            BY <1>1 DEF DirRecord
        <2>2. r.r3.scores[t] = r.live[t].artifact
            BY <1>2, <1>6, <2>1, MeasuredFacts DEF Consistent
        <2>3. r.r5.scores[t] = r.live[t].artifact
            BY <1>2, <1>6 DEF Consistent
        <2>4. QED
            BY <2>2, <2>3
    <1>7. QED
        BY <1>1, <1>3, <1>4, <1>5, <1>6

(***************************************************************************)
(* What a directory holds always fits together: its dataset was measured   *)
(* under one contract, its trials were bought by one identity, and five    *)
(* repetitions extend an undecided result of three (run_retest_baselines_v3*)
(* with _assert_resume_identity_v3 and the authorisation of r5).           *)
(***************************************************************************)
THEOREM DirectoriesAreConsistent == ReadinessSpec => []DirectoryConsistent
    BY ReadinessInvariant, InvariantIsConsistent, PTL

\* No step changes the aggregate of three repetitions.
LEMMA R3Step ==
    ASSUME ReadinessInv, [ReadinessNext]_readinessVars, NEW d \in Dirs,
           dir[d].r3 # NoAggregate
    PROVE  dir'[d].r3 = dir[d].r3
    <1>1. dir \in [Dirs -> DirRecord]
        BY DEF ReadinessInv, ReadinessTypes
    <1>2. ASSUME NEW e \in Dirs, NEW r, r.r3 = dir[e].r3, dir' = [dir EXCEPT ![e] = r]
          PROVE  dir'[d].r3 = dir[d].r3
        BY <1>1, <1>2
    <1>3. cmd.pc # "idle" => Here \in DirRecord /\ cmd.d \in Dirs
        BY HereFacts
    <1>4. CASE UNCHANGED dir
        BY <1>4
    <1>5. CASE \E e \in Dirs : Invalidate(e)
        BY <1>1, <1>5 DEF Invalidate, DirRecord
    <1>6. CASE Inherit
        <2>1. CASE UNCHANGED dir
            BY <2>1
        <2>2. CASE \E C : Write([Here EXCEPT !.used = TRUE, !.cases = C])
            <3>1. PICK C, r : r = [Here EXCEPT !.used = TRUE, !.cases = C] /\ Write(r)
                BY <2>2
            <3>2. r.r3 = Here.r3
                BY <1>3, <1>6, <3>1 DEF DirRecord, Inherit
            <3>3. QED
                BY <1>2, <1>3, <1>6, <3>1, <3>2 DEF Write, Here, Inherit
        <2>3. QED
            BY <1>6, <2>1, <2>2 DEF Inherit
    <1>7. CASE WriteManifest
        <2>1. PICK r : r = [Here EXCEPT !.used = TRUE, !.phase = "preflight_in_progress",
                                        !.identity = repo.identity] /\ Write(r)
            BY <1>7 DEF WriteManifest
        <2>2. r.r3 = Here.r3
            BY <1>3, <1>7, <2>1 DEF DirRecord, WriteManifest
        <2>3. QED
            BY <1>2, <1>3, <1>7, <2>1, <2>2 DEF Write, Here, WriteManifest
    <1>8. CASE ReplayCase
        <2>1. cmd.pc # "idle"
            BY <1>8 DEF ReplayCase
        <2>2. ASSUME NEW q, Write([Here EXCEPT !.cases[cmd.at] = q])
              PROVE  dir'[d].r3 = dir[d].r3
            <3>1. PICK r : r = [Here EXCEPT !.cases[cmd.at] = q] /\ Write(r)
                BY <2>2
            <3>2. r.r3 = Here.r3
                BY <1>3, <2>1, <3>1 DEF DirRecord
            <3>3. QED
                BY <1>2, <1>3, <2>1, <3>1, <3>2 DEF Write, Here
        <2>3. QED
            BY <1>4, <1>8, <2>2 DEF ReplayCase
    <1>9. CASE LiveTrial
        <2>1. cmd.pc # "idle"
            BY <1>9 DEF LiveTrial
        <2>2. ASSUME NEW t, NEW q, Write([Here EXCEPT !.live[t] = q])
              PROVE  dir'[d].r3 = dir[d].r3
            <3>1. PICK r : r = [Here EXCEPT !.live[t] = q] /\ Write(r)
                BY <2>2
            <3>2. r.r3 = Here.r3
                BY <1>3, <2>1, <3>1 DEF DirRecord
            <3>3. QED
                BY <1>2, <1>3, <2>1, <3>1, <3>2 DEF Write, Here
        <2>3. QED
            BY <1>4, <1>9, <2>2 DEF LiveTrial
    <1>10. CASE WriteAggregate
        <2>1. Here.r3 # NoAggregate => dir'[cmd.d].r3 = Here.r3
            BY <1>10, AggregateInv
        <2>2. cmd.d # d => dir'[d] = dir[d]
            BY <1>1, <1>10 DEF WriteAggregate, Write
        <2>3. QED
            BY <2>1, <2>2 DEF Here
    <1>11. CASE WriteScenarios \/ FreezeDataset \/ WritePreflight \/ WriteSummary
                   \/ WritePhase \/ WriteLedger
        <2>1. cmd.pc # "idle"
            BY <1>11 DEF WriteScenarios, FreezeDataset, WritePreflight, WriteSummary,
                         WritePhase, WriteLedger
        <2>2. ASSUME NEW r, Write(r), r.r3 = Here.r3 PROVE dir'[d].r3 = dir[d].r3
            BY <1>2, <1>3, <2>1, <2>2 DEF Write, Here
        <2>3. \A v : /\ [Here EXCEPT !.scenarios = v].r3 = Here.r3
                     /\ [Here EXCEPT !.preflight = v].r3 = Here.r3
                     /\ [Here EXCEPT !.summary = v].r3 = Here.r3
                     /\ [Here EXCEPT !.phase = v].r3 = Here.r3
                     /\ [Here EXCEPT !.ledger = v].r3 = Here.r3
                     /\ [Here EXCEPT !.phase = v, !.frozen = TRUE].r3 = Here.r3
            BY <1>3, <2>1 DEF DirRecord
        <2>4. \/ \E v : \/ Write([Here EXCEPT !.scenarios = v])
                        \/ Write([Here EXCEPT !.preflight = v])
                        \/ Write([Here EXCEPT !.summary = v])
                        \/ Write([Here EXCEPT !.phase = v])
                        \/ Write([Here EXCEPT !.ledger = v])
                        \/ Write([Here EXCEPT !.phase = v, !.frozen = TRUE])
            BY <1>11, Zenon DEF WriteScenarios, FreezeDataset, WritePreflight, WriteSummary,
                                WritePhase, WriteLedger
        <2>5. QED
            BY <2>2, <2>3, <2>4
    <1>12. CASE (\E e \in Dirs : StartPreflight(e) \/ StartResume(e)) \/ Killed
                   \/ ChangeRepository \/ UNCHANGED readinessVars
        BY <1>4, <1>12 DEF StartPreflight, StartResume, Killed, ChangeRepository, readinessVars
    <1>13. QED
        BY <1>5, <1>6, <1>7, <1>8, <1>9, <1>10, <1>11, <1>12 DEF ReadinessNext

(***************************************************************************)
(* The aggregate of three repetitions is final: neither a second resume    *)
(* with three, the extension to five nor a crash in either changes it      *)
(* (aggregate_reference_v3 recomputed from the journal).                   *)
(***************************************************************************)
THEOREM R3IsFrozen == ReadinessSpec => R3Frozen
    <1>1. ReadinessInv /\ [ReadinessNext]_readinessVars =>
             [\A d \in Dirs : dir[d].r3 # NoAggregate => dir'[d].r3 = dir[d].r3]_readinessVars
        BY R3Step
    <1>2. QED
        BY <1>1, ReadinessInvariant, PTL DEF ReadinessSpec, R3Frozen
-----------------------------------------------------------------------------
(***************************************************************************)
(* One live trial and its score.                                           *)
(***************************************************************************)

\* What the requests before turn t may have cost.
SpentBefore(p, t) ==
    IF t = 1 THEN 0
    ELSE IF t = 2 THEN RequestBound(p, 1)
    ELSE IF t = 3 THEN RequestBound(p, 1) + RequestBound(p, 2)
    ELSE RequestBound(p, 1) + RequestBound(p, 2) + RequestBound(p, 3)

TalkRecord ==
    [pc : {"silent", "ask", "ended"}, arm : Arms, packet : Nat, turn : 1..4, draft : Nat,
     drafts : Nat, sent : Nat, input : Nat, output : Nat,
     end : {"none", "infrastructure", "configuration", "error", "input_exhausted",
            "output_exhausted", "output_truncated", "malformed", "result"},
     stable : BOOLEAN, billed : Nat \X Nat, unread : Nat \X Nat, grown : BOOLEAN]

\* The provider's report is the charge and what was not read of it: the last turn of a
\* malformed trial.
Accounted(t) ==
    /\ t.billed = <<t.input + t.unread[1], t.output + t.unread[2]>>
    /\ t.unread # <<0, 0>> => t.end = "malformed" /\ t.unread[2] <= MaxCompletion

\* The drafts sent back, and with them the requests, are within what the preflight summed up.
Within(t) ==
    /\ t.sent <= MaxCompletion * (t.turn - 1)
    /\ t.input <= SpentBefore(t.packet, t.turn)

(***************************************************************************)
(* The conversation: every request so far stayed within the bound that the *)
(* preflight has summed up, unless a draft sent back has grown past the    *)
(* longest completion.                                                     *)
(***************************************************************************)
TalkInv ==
    /\ talk \in TalkRecord
    /\ Accounted(talk)
    /\ talk.end = "input_exhausted" => talk.grown
    /\ talk.pc = "ask" =>
          /\ talk.packet \in PacketSizes /\ PassesPreflight(talk.packet)
          /\ talk.turn <= talk.arm.max
          /\ talk.unread = <<0, 0>>
          /\ talk.grown \/ Within(talk)

\* The four requests of a packet, in units of the instance.
LEMMA RequestBounds ==
    ASSUME NEW p \in PacketSizes
    PROVE  /\ p \in Nat /\ MaxCompletion \in Nat
           /\ \A t \in 1..4 : RequestBound(p, t) \in Nat
           /\ PassesPreflight(p) =>
                 \A t \in 1..4 : SpentBefore(p, t) + RequestBound(p, t) < InputLimit
    <1>1. /\ p \in Nat /\ SystemSize \in Nat /\ CorrectionSize \in Nat /\ MaxCompletion \in Nat
          /\ Framing \in Nat /\ Template \in Nat /\ InputLimit \in Nat /\ FourTurnLimit \in Nat
          /\ FourTurnLimit < InputLimit
        BY DiagnosisAssumption
    <1>2. PICK a \in Nat, b \in Nat, c \in Nat, d \in Nat :
             /\ a = RequestBound(p, 1) /\ b = RequestBound(p, 2)
             /\ c = RequestBound(p, 3) /\ d = RequestBound(p, 4)
        BY <1>1 DEF RequestBound
    <1>3. ASSUME PassesPreflight(p) PROVE a + b + c + d < InputLimit
        BY <1>1, <1>2, <1>3 DEF PassesPreflight, FourTurnBound
    <1>4. \A t \in 1..4 : t = 1 \/ t = 2 \/ t = 3 \/ t = 4
        OBVIOUS
    <1>5. ASSUME PassesPreflight(p), NEW t \in 1..4
          PROVE  SpentBefore(p, t) + RequestBound(p, t) < InputLimit
        <2>1. a + b + c + d < InputLimit
            BY <1>3, <1>5
        <2>2. CASE t = 1
            BY <1>1, <1>2, <2>1, <2>2 DEF SpentBefore
        <2>3. CASE t = 2
            BY <1>1, <1>2, <2>1, <2>3 DEF SpentBefore
        <2>4. CASE t = 3
            BY <1>1, <1>2, <2>1, <2>4 DEF SpentBefore
        <2>5. CASE t = 4
            BY <1>1, <1>2, <2>1, <2>5 DEF SpentBefore
        <2>6. QED
            BY <1>4, <2>2, <2>3, <2>4, <2>5
    <1>6. QED
        BY <1>1, <1>2, <1>4, <1>5

\* The largest request of a turn is within its bound, and so is the sum after it.
LEMMA RequestFits ==
    ASSUME NEW p \in PacketSizes, NEW t \in 1..4, NEW s \in Nat
    PROVE  /\ s <= MaxCompletion * (t - 1) =>
                SystemSize + p + CorrectionSize * (t - 1) + s + Framing * (2 + 2 * (t - 1)) + Template
                    <= RequestBound(p, t)
           /\ SystemSize + p + CorrectionSize * (t - 1) + s + Framing * (2 + 2 * (t - 1)) + Template
                \in Nat
    <1>1. PICK S \in Nat, C \in Nat, M \in Nat, F \in Nat, T \in Nat :
             /\ S = SystemSize /\ C = CorrectionSize /\ M = MaxCompletion /\ F = Framing
             /\ T = Template /\ p \in Nat
        BY DiagnosisAssumption
    <1>2. t = 1 \/ t = 2 \/ t = 3 \/ t = 4
        OBVIOUS
    <1>3. RequestBound(p, t) = S + p + (C + M) * (t - 1) + F * (2 + 2 * (t - 1)) + T
        BY <1>1 DEF RequestBound
    <1>4. s <= MaxCompletion * (t - 1) <=> s <= M * (t - 1)
        BY <1>1
    <1>5. /\ s <= MaxCompletion * (t - 1) =>
                S + p + C * (t - 1) + s + F * (2 + 2 * (t - 1)) + T <= RequestBound(p, t)
          /\ S + p + C * (t - 1) + s + F * (2 + 2 * (t - 1)) + T \in Nat
        <2>1. CASE t = 1
            BY <1>1, <1>3, <1>4, <2>1
        <2>2. CASE t = 2
            BY <1>1, <1>3, <1>4, <2>2
        <2>3. CASE t = 3
            BY <1>1, <1>3, <1>4, <2>3
        <2>4. CASE t = 4
            BY <1>1, <1>3, <1>4, <2>4
        <2>5. QED
            BY <1>2, <2>1, <2>2, <2>3, <2>4
    <1>6. QED
        BY <1>1, <1>5

\* The sum of the next turn is the sum of this one and its request.
LEMMA NextTurn ==
    ASSUME NEW p \in PacketSizes, NEW t \in 1..4, t # 4, NEW s \in Nat, NEW o \in Nat
    PROVE  /\ t + 1 \in 1..4
           /\ s <= MaxCompletion * (t - 1) /\ o <= MaxCompletion =>
                 s + o <= MaxCompletion * ((t + 1) - 1)
           /\ SpentBefore(p, t + 1) = SpentBefore(p, t) + RequestBound(p, t)
    <1>1. PICK M \in Nat, a \in Nat, b \in Nat, c \in Nat :
             /\ M = MaxCompletion /\ a = RequestBound(p, 1) /\ b = RequestBound(p, 2)
             /\ c = RequestBound(p, 3)
        BY RequestBounds
    <1>2. CASE t = 1
        BY <1>1, <1>2 DEF SpentBefore
    <1>3. CASE t = 2
        BY <1>1, <1>3 DEF SpentBefore
    <1>4. CASE t = 3
        BY <1>1, <1>4 DEF SpentBefore
    <1>5. QED
        BY <1>2, <1>3, <1>4

\* The arms have at most four turns.
LEMMA ArmFacts == \A arm \in Arms : arm.min \in Nat /\ arm.max \in 1..4
    BY DEF Arms

\* A conversation begins with nothing spent.
LEMMA TalkInitInv ==
    ASSUME DiagnosisInit
    PROVE  TalkInv
    <1>1. [min |-> 1, max |-> 1] \in Arms
        BY DEF Arms
    <1>2. /\ Silent \in TalkRecord /\ Silent.pc = "silent" /\ Silent.end = "none"
          /\ Accounted(Silent)
        BY <1>1 DEF Silent, TalkRecord, Accounted
    <1>3. CASE talk = Silent
        BY <1>2, <1>3 DEF TalkInv
    <1>4. ASSUME NEW arm \in Arms, NEW p \in PacketSizes, PassesPreflight(p),
                 talk = [Silent EXCEPT !.pc = "ask", !.arm = arm, !.packet = p]
          PROVE  TalkInv
        <2>1. p \in Nat /\ MaxCompletion \in Nat /\ arm.max \in 1..4
            BY DiagnosisAssumption, ArmFacts
        <2>2. /\ talk \in TalkRecord /\ talk.pc = "ask" /\ talk.packet = p /\ talk.turn = 1
              /\ talk.arm = arm /\ talk.sent = 0 /\ talk.input = 0 /\ talk.output = 0
              /\ talk.billed = <<0, 0>> /\ talk.unread = <<0, 0>> /\ talk.end = "none"
            BY <1>2, <1>4, <2>1 DEF Silent, TalkRecord
        <2>3. Within(talk)
            <3>1. talk.sent <= MaxCompletion * (talk.turn - 1)
                BY <2>1, <2>2
            <3>2. talk.input <= SpentBefore(talk.packet, talk.turn)
                BY <2>2 DEF SpentBefore
            <3>3. QED
                BY <3>1, <3>2 DEF Within
        <2>4. Accounted(talk)
            BY <2>2 DEF Accounted
        <2>5. QED
            BY <1>4, <2>1, <2>2, <2>3, <2>4 DEF TalkInv
    <1>5. QED
        BY <1>3, <1>4, Zenon DEF DiagnosisInit, TalkInit

\* A trial that ends keeps its account, whatever is not read.
LEMMA EndedInv ==
    ASSUME NEW x \in TalkRecord, x.pc = "ended", Accounted(x),
           x.end = "input_exhausted" => x.grown, talk' = x
    PROVE  TalkInv'
    BY DEF TalkInv, Accounted

\* An answer without a choice ends the trial, charged for the turns before it.
LEMMA UnreadInv ==
    ASSUME TalkInv, talk.pc = "ask", NEW i \in Nat, NEW o \in Nat, o <= MaxCompletion, Unread(i, o)
    PROVE  TalkInv'
    <1>1. PICK n \in Nat, u \in Nat : n = talk.input /\ u = talk.output
        BY DEF TalkInv, TalkRecord
    <1>2. talk \in TalkRecord /\ talk.unread = <<0, 0>> /\ talk.billed = <<n, u>>
        BY <1>1 DEF TalkInv, Accounted
    <1>3. PICK m \in Nat, v \in Nat : m = n + i /\ v = u + o
        OBVIOUS
    <1>4. Billed(talk, i, o) = [talk EXCEPT !.billed = <<m, v>>]
        BY <1>2, <1>3 DEF Billed, TalkRecord
    <1>5. PICK x : x = [talk EXCEPT !.billed = <<m, v>>, !.pc = "ended", !.end = "malformed",
                                    !.unread = <<i, o>>]
        OBVIOUS
    <1>6. talk' = x
        BY <1>4, <1>5 DEF Unread
    <1>7. /\ x \in TalkRecord /\ x.pc = "ended" /\ x.end = "malformed" /\ x.unread = <<i, o>>
          /\ x.billed = <<m, v>> /\ x.input = n /\ x.output = u
        BY <1>1, <1>2, <1>5 DEF TalkRecord
    <1>8. Accounted(x)
        BY <1>3, <1>7 DEF Accounted
    <1>9. QED
        BY <1>6, <1>7, <1>8, EndedInv

\* An answer that ends the trial or leads to the next turn keeps the account.
LEMMA AnsweredInv ==
    ASSUME TalkInv, Answered
    PROVE  TalkInv'
    <1>1. PICK p \in PacketSizes, t \in 1..4, s \in Nat, n \in Nat, u \in Nat, arm \in Arms,
               k \in Nat, g \in BOOLEAN :
             /\ p = talk.packet /\ t = talk.turn /\ s = talk.sent /\ n = talk.input
             /\ u = talk.output /\ arm = talk.arm /\ k = talk.drafts /\ g = talk.grown
        BY DEF Answered, TalkInv, TalkRecord
    <1>2. /\ talk \in TalkRecord /\ talk.unread = <<0, 0>> /\ talk.pc = "ask"
          /\ PassesPreflight(p) /\ t <= arm.max
        BY <1>1 DEF Answered, TalkInv
    <1>3. talk.billed = <<n, u>>
        BY <1>1, <1>2 DEF TalkInv, Accounted
    <1>4. g \/ (s <= MaxCompletion * (t - 1) /\ n <= SpentBefore(p, t))
        BY <1>1, <1>2 DEF TalkInv, Within
    <1>5. PICK most \in Nat :
             /\ most = SystemSize + p + CorrectionSize * (t - 1) + s + Framing * (2 + 2 * (t - 1))
                          + Template
             /\ s <= MaxCompletion * (t - 1) => most <= RequestBound(p, t)
        BY RequestFits
    <1>6. RequestSizes = 1..most
        BY <1>1, <1>5 DEF RequestSizes
    <1>7. PICK i \in 1..most, o \in 1..MaxCompletion :
             \/ Unread(i, o)
             \/ \E draft \in {1, 2}, size \in 1..(Expansion * o) : Judge(i, o, draft, size)
        BY <1>6 DEF Answered
    <1>8. MaxCompletion \in Nat /\ o \in Nat /\ i \in Nat /\ o <= MaxCompletion /\ i <= most
        BY DiagnosisAssumption
    <1>9. CASE Unread(i, o)
        BY <1>2, <1>8, <1>9, UnreadInv
    <1>10. ASSUME NEW draft \in {1, 2}, NEW size \in 1..(Expansion * o), Judge(i, o, draft, size)
           PROVE  TalkInv'
        <2>1. draft \in Nat /\ size \in Nat
            OBVIOUS
        <2>2. PICK m \in Nat, v \in Nat : m = n + i /\ v = u + o
            BY <1>8
        <2>3. PICK j \in Nat, w \in Nat : j = k + 1 /\ w = s + size
            BY <2>1
        <2>4. PICK h \in BOOLEAN : h = (g \/ size > MaxCompletion)
            BY Zenon
        <2>5. PICK told : told = Told(i, o)
            OBVIOUS
        <2>6. told = [talk EXCEPT !.input = m, !.output = v, !.billed = <<m, v>>]
            <3>1. Counted(i, o) = [talk EXCEPT !.input = m, !.output = v]
                BY <1>1, <1>2, <2>2 DEF Counted, TalkRecord
            <3>2. PICK c : c = [talk EXCEPT !.input = m, !.output = v]
                OBVIOUS
            <3>3. c.billed = <<n, u>> /\ c.billed[1] + i = m /\ c.billed[2] + o = v
                BY <1>2, <1>3, <2>2, <3>2 DEF TalkRecord
            <3>4. told = [c EXCEPT !.billed = <<m, v>>]
                BY <2>5, <3>1, <3>2, <3>3 DEF Told, Billed
            <3>5. QED
                BY <3>2, <3>4
        <2>7. /\ told \in TalkRecord /\ told.pc = "ask" /\ told.input = m /\ told.output = v
              /\ told.billed = <<m, v>> /\ told.packet = p /\ told.turn = t /\ told.arm = arm
              /\ told.sent = s /\ told.drafts = k /\ told.grown = g /\ told.unread = <<0, 0>>
            BY <1>1, <1>2, <2>6 DEF TalkRecord
        <2>8. g \/ m <= SpentBefore(p, t) + RequestBound(p, t)
            <3>1. PICK b \in Nat : b = RequestBound(p, t)
                BY RequestBounds
            <3>2. PICK c \in Nat : c = SpentBefore(p, t)
                BY RequestBounds DEF SpentBefore
            <3>3. QED
                BY <1>4, <1>5, <1>8, <2>2, <3>1, <3>2
        <2>9. g \/ m < InputLimit
            <3>1. PICK b \in Nat : b = SpentBefore(p, t) + RequestBound(p, t)
                BY RequestBounds DEF SpentBefore
            <3>2. b < InputLimit /\ InputLimit \in Nat
                BY <1>2, <3>1, RequestBounds, DiagnosisAssumption
            <3>3. QED
                BY <2>8, <3>1, <3>2
        <2>10. ASSUME NEW end \in {"input_exhausted", "output_exhausted", "output_truncated",
                                  "malformed"},
                     end = "input_exhausted" => g,
                     talk' = [told EXCEPT !.pc = "ended", !.end = end]
              PROVE  TalkInv'
            <3>1. PICK x : x = [told EXCEPT !.pc = "ended", !.end = end]
                OBVIOUS
            <3>2. /\ x \in TalkRecord /\ x.pc = "ended" /\ x.end = end /\ x.grown = g
                  /\ x.billed = <<m, v>> /\ x.input = m /\ x.output = v /\ x.unread = <<0, 0>>
                BY <2>7, <2>10, <3>1 DEF TalkRecord
            <3>3. Accounted(x)
                BY <3>2 DEF Accounted
            <3>4. QED
                BY <2>10, <3>1, <3>2, <3>3, EndedInv
        <2>11. PICK kept : kept = [told EXCEPT !.draft = draft, !.drafts = j, !.sent = w,
                                               !.grown = h]
            OBVIOUS
        <2>12. kept = [told EXCEPT !.draft = draft, !.drafts = @ + 1, !.sent = @ + size,
                                   !.grown = @ \/ size > MaxCompletion]
            BY <2>3, <2>7, <2>11, <2>4
        <2>13. /\ kept \in TalkRecord /\ kept.pc = "ask" /\ kept.input = m /\ kept.output = v
               /\ kept.billed = <<m, v>> /\ kept.packet = p /\ kept.turn = t /\ kept.arm = arm
               /\ kept.sent = w /\ kept.unread = <<0, 0>> /\ kept.grown = h
            BY <2>1, <2>7, <2>11 DEF TalkRecord
        <2>14. PICK st : st = (t >= arm.min /\ kept.drafts >= 2 /\ draft = talk.draft)
            OBVIOUS
        <2>15. CASE talk' = [kept EXCEPT !.pc = "ended", !.end = "result", !.stable = st]
            <3>1. PICK x : x = [kept EXCEPT !.pc = "ended", !.end = "result", !.stable = st]
                OBVIOUS
            <3>2. st \in BOOLEAN
                BY <2>14
            <3>3. /\ x \in TalkRecord /\ x.pc = "ended" /\ x.end = "result"
                  /\ x.billed = <<m, v>> /\ x.input = m /\ x.output = v /\ x.unread = <<0, 0>>
                BY <2>13, <3>1, <3>2 DEF TalkRecord
            <3>4. Accounted(x)
                BY <3>3 DEF Accounted
            <3>5. QED
                BY <2>15, <3>1, <3>3, <3>4, EndedInv
        <2>16. ASSUME t # arm.max, talk' = [kept EXCEPT !.turn = @ + 1]
               PROVE  TalkInv'
            <3>1. arm.max \in 1..4 /\ t # 4 /\ t + 1 <= arm.max
                BY <1>2, <2>16, ArmFacts
            <3>2. /\ t + 1 \in 1..4
                  /\ SpentBefore(p, t + 1) = SpentBefore(p, t) + RequestBound(p, t)
                BY <2>1, <3>1, NextTurn
            <3>3. h \/ w <= MaxCompletion * ((t + 1) - 1)
                <4>0. ~h => ~g /\ ~(size > MaxCompletion)
                    BY <2>4, Zenon
                <4>1. ~h => size <= MaxCompletion /\ ~g
                    BY <1>8, <2>1, <4>0
                <4>2. s <= MaxCompletion * (t - 1) /\ size <= MaxCompletion =>
                         s + size <= MaxCompletion * ((t + 1) - 1)
                    BY <2>1, <3>1, NextTurn
                <4>3. QED
                    BY <1>4, <2>3, <4>1, <4>2
            <3>4. PICK x : x = [kept EXCEPT !.turn = t + 1]
                OBVIOUS
            <3>5. /\ x \in TalkRecord /\ x.pc = "ask" /\ x.turn = t + 1 /\ x.packet = p
                  /\ x.arm = arm /\ x.sent = w /\ x.input = m /\ x.output = v
                  /\ x.billed = <<m, v>> /\ x.unread = <<0, 0>> /\ x.grown = h
                  /\ x.end = kept.end
                BY <2>13, <3>2, <3>4 DEF TalkRecord
            <3>6. talk' = x
                BY <2>13, <2>16, <3>4
            <3>7. x.grown \/ Within(x)
                <4>1. ~h => ~g
                    BY <2>4, Zenon
                <4>2. QED
                    BY <2>8, <3>2, <3>3, <3>5, <4>1 DEF Within
            <3>8. Accounted(x)
                BY <3>5 DEF Accounted
            <3>9. x.end = "input_exhausted" => x.grown
                <4>1. kept.end = talk.end
                    BY <1>2, <2>6, <2>11 DEF TalkRecord
                <4>2. talk.end = "input_exhausted" => g
                    BY <1>1 DEF TalkInv
                <4>3. QED
                    BY <2>4, <3>5, <4>1, <4>2, Zenon
            <3>10. QED
                BY <1>2, <3>1, <3>5, <3>6, <3>7, <3>8, <3>9 DEF TalkInv
        <2>17. told.input >= InputLimit => g
            BY <2>7, <2>9, DiagnosisAssumption
        <2>18. \/ told.input >= InputLimit
                     /\ talk' = [told EXCEPT !.pc = "ended", !.end = "input_exhausted"]
               \/ talk' = [told EXCEPT !.pc = "ended", !.end = "output_exhausted"]
               \/ talk' = [told EXCEPT !.pc = "ended", !.end = "output_truncated"]
               \/ talk' = [told EXCEPT !.pc = "ended", !.end = "malformed"]
               \/ talk' = [kept EXCEPT !.pc = "ended", !.end = "result", !.stable = st]
               \/ t # arm.max /\ talk' = [kept EXCEPT !.turn = @ + 1]
            BY <1>1, <1>10, <2>5, <2>12, <2>14, Zenon DEF Judge
        <2>19. QED
            BY <2>10, <2>15, <2>16, <2>17, <2>18
    <1>11. QED
        BY <1>7, <1>9, <1>10

(***************************************************************************)
(* The inductive invariant of a trial's conversation holds in every        *)
(* behaviour.                                                              *)
(***************************************************************************)
THEOREM TalkInvariant == DiagnosisSpec => []TalkInv
    <1>1. TalkInv /\ [DiagnosisNext]_diagnosisVars => TalkInv'
        <2> SUFFICES ASSUME TalkInv, [DiagnosisNext]_diagnosisVars PROVE TalkInv'
            OBVIOUS
        <2>1. CASE UNCHANGED talk
            BY <2>1 DEF TalkInv
        <2>2. CASE AskFails
            <3>0. PICK end \in {"infrastructure", "configuration", "error"} :
                     talk' = [talk EXCEPT !.pc = "ended", !.end = end]
                BY <2>2 DEF AskFails
            <3>1. PICK x : talk' = x /\ x = [talk EXCEPT !.pc = "ended", !.end = end]
                BY <3>0
            <3>2. /\ x \in TalkRecord /\ x.pc = "ended" /\ x.end = end /\ x.input = talk.input
                  /\ x.output = talk.output /\ x.billed = talk.billed /\ x.unread = talk.unread
                BY <3>1 DEF TalkInv, TalkRecord
            <3>3. Accounted(x)
                BY <2>2, <3>2 DEF TalkInv, Accounted, AskFails
            <3>4. QED
                BY <3>1, <3>2, <3>3, EndedInv
        <2>3. CASE Answered
            BY <2>3, AnsweredInv
        <2>4. AskFails \/ Answered \/ UNCHANGED talk
            BY Zenon DEF DiagnosisNext, ScoreLive, ScoreRule, diagnosisVars
        <2>5. QED
            BY <2>1, <2>2, <2>3, <2>4
    <1>2. QED
        BY <1>1, TalkInitInv, PTL DEF DiagnosisSpec

(***************************************************************************)
(* Whatever the sizes of prompt, packet and corrections are, a packet that *)
(* passed the token preflight exhausts the input budget of its trial only  *)
(* through a draft that grew past a completion when it was written out     *)
(* again, and the trial is charged for every turn but a last one that      *)
(* could not be read (four_turn_input_upper_bound_v3,                      *)
(* make_bailian_adapter_v3).                                               *)
(***************************************************************************)
THEOREM BudgetsAreHeld == DiagnosisSpec => []BudgetHeld
    <1>1. TalkInv => BudgetHeld
        BY DEF TalkInv, Accounted, BudgetHeld, PreflightSuffices, UsageComplete
    <1>2. QED
        BY <1>1, TalkInvariant, PTL

\* What must be cited for a label: two kinds of the packet.
LEMMA RequiredFacts ==
    ASSUME NEW l \in Labels
    PROVE  Required(l) \subseteq Kinds /\ l # Unknown /\ SignalKind[l] # "activity"
    BY DiagnosisAssumption DEF Required, Unknown

\* The score of a diagnosis is exact, and so is its failure class.
LEMMA ScoreV3IsExact ==
    ASSUME NEW r, NEW truth \in Labels,
           NEW right, right = (/\ r.root = truth /\ r.claim = truth
                               /\ r.candidates \subseteq Labels
                               /\ r.evidence = Required(truth) /\ r.refs = r.evidence)
    PROVE  /\ right <=> ScoreResult(r, truth).core = 1
           /\ right <=> ScoreResult(r, truth).class = "none"
    <1>1. PICK Q : Q = Required(truth)
        OBVIOUS
    <1>2. Q \subseteq Kinds
        BY <1>1, RequiredFacts
    <1>3. ASSUME NEW class \in {"invalid_label", "claim_contract", "unknown_evidence"},
                 ScoreResult(r, truth) = Failure(class)
          PROVE  ScoreResult(r, truth).core # 1 /\ ScoreResult(r, truth).class # "none"
        BY <1>3 DEF Failure, ScoreRow
    <1>4. CASE ({r.root, r.claim} \cup r.candidates) \ Labels # {}
        <2>1. ScoreResult(r, truth) = Failure("invalid_label")
            BY <1>4 DEF ScoreResult
        <2>2. ~(r.root = truth /\ r.claim = truth /\ r.candidates \subseteq Labels)
            BY <1>4
        <2>3. QED
            BY <1>3, <2>1, <2>2
    <1>5. CASE /\ ({r.root, r.claim} \cup r.candidates) \ Labels = {}
               /\ r.claim # r.root \/ r.evidence # r.refs
        <2>1. ScoreResult(r, truth) = Failure("claim_contract")
            BY <1>5 DEF ScoreResult
        <2>2. QED
            BY <1>3, <1>5, <2>1
    <1>6. CASE /\ ({r.root, r.claim} \cup r.candidates) \ Labels = {}
               /\ r.claim = r.root /\ r.evidence = r.refs /\ r.evidence \ Kinds # {}
        <2>1. ScoreResult(r, truth) = Failure("unknown_evidence")
            BY <1>6 DEF ScoreResult
        <2>2. r.evidence # Q
            BY <1>2, <1>6
        <2>3. QED
            BY <1>1, <1>3, <2>1, <2>2
    <1>7. CASE /\ ({r.root, r.claim} \cup r.candidates) \ Labels = {}
               /\ r.claim = r.root /\ r.evidence = r.refs /\ r.evidence \ Kinds = {}
        <2>1. ScoreResult(r, truth) =
                 ScoreRow(IF Supported(r, truth) THEN 1 ELSE 0,
                          IF r.root = truth \/ truth \in r.candidates THEN 1 ELSE 0,
                          ClassV3(r, truth))
            BY <1>7 DEF ScoreResult
        <2>2. /\ ScoreResult(r, truth).core = IF Supported(r, truth) THEN 1 ELSE 0
              /\ ScoreResult(r, truth).class = ClassV3(r, truth)
            BY <2>1 DEF ScoreRow
        <2>3. PICK E : E = r.evidence
            OBVIOUS
        <2>4. Q \subseteq E /\ E \cap (Kinds \ Q) = {} <=> E = Q
            BY <1>2, <1>7, <2>3
        <2>5. Supported(r, truth) <=> r.root = truth /\ E = Q
            BY <1>1, <2>3, <2>4 DEF Supported
        <2>6. ClassV3(r, truth) = "none" <=> r.root = truth /\ E = Q
            BY <1>1, <2>3, <2>4 DEF ClassV3
        <2>7. right <=> r.root = truth /\ E = Q
            BY <1>1, <1>7, <2>3
        <2>8. QED
            BY <2>2, <2>5, <2>6, <2>7
    <1>8. QED
        BY <1>4, <1>5, <1>6, <1>7

(***************************************************************************)
(* Among finitely many candidates one ranks first: one that the fewest     *)
(* others outrank.                                                         *)
(***************************************************************************)
LEMMA BestQualifies ==
    ASSUME NEW f \in Features, Qualified(f) # {}
    PROVE  Best(f) \in Qualified(f)
    <1>1. PICK Q : Q = Qualified(f)
        OBVIOUS
    <1>2. /\ IsFiniteSet(Q) /\ Q # {} /\ Q \subseteq Nat
          /\ \A l \in Q : Weakest(f, l) \in Int
        <2>1. Q \in SUBSET Labels /\ Labels \subseteq Nat /\ IsFiniteSet(Labels)
            BY <1>1, DiagnosisAssumption DEF Qualified
        <2>2. \A l \in Q : f[l].activity \in Int /\ f[l].signal \in Int
            BY <2>1, DiagnosisAssumption DEF Features
        <2>3. \A l \in Q : Weakest(f, l) \in Int
            BY <2>2 DEF Weakest
        <2>4. QED
            BY <1>1, <2>1, <2>3, FS_Subset
    <1>3. PICK Above : Above = [a \in Q |-> {b \in Q : ~Ranks(f, a, b)}]
        OBVIOUS
    <1>4. \A a \in Q : Above[a] \in SUBSET Q /\ IsFiniteSet(Above[a]) /\ Cardinality(Above[a]) \in Nat
        BY <1>2, <1>3, FS_Subset, FS_CardinalityType
    <1>5. PICK N : N = {Cardinality(Above[a]) : a \in Q}
        OBVIOUS
    <1>6. N \in SUBSET Nat /\ N # {}
        BY <1>2, <1>4, <1>5
    <1>7. PICK n \in N : \A y \in N : n <= y
        BY <1>6, SmallestNumber
    <1>8. PICK a \in Q : Cardinality(Above[a]) = n
        BY <1>5, <1>7
    <1>9. \A b \in Q : Ranks(f, a, b)
        <2>1. SUFFICES ASSUME NEW b \in Q, ~Ranks(f, a, b) PROVE FALSE
            OBVIOUS
        <2>2. \A c \in Q : ~Ranks(f, b, c) => ~Ranks(f, a, c)
            BY <1>2, <2>1 DEF Ranks
        <2>3. Ranks(f, b, b)
            BY <1>2 DEF Ranks
        <2>4. Above[b] \in SUBSET Above[a] /\ b \in Above[a] /\ b \notin Above[b]
            BY <1>3, <2>1, <2>2, <2>3
        <2>5. Cardinality(Above[b]) <= Cardinality(Above[a]) /\ Cardinality(Above[b]) # Cardinality(Above[a])
            BY <1>4, <2>4, FS_Subset
        <2>6. n <= Cardinality(Above[b])
            BY <1>5, <1>7
        <2>7. QED
            BY <1>4, <1>6, <1>8, <2>5, <2>6
    <1>10. QED
        BY <1>1, <1>9 DEF Best

\* A row of the rule baseline rests on the evidence of the true cause.
LEMMA RuleRowIsUnambiguous ==
    ASSUME NEW f \in Features, NEW truth \in Labels, ~Ambiguous(f, truth),
           NEW r, r = RuleResult(f), r.root # Unknown
    PROVE  /\ r.evidence = Required(truth)
           /\ ScoreResult(r, truth).class \in {"none", "wrong_root_cause"}
    <1>1. Qualified(f) # {}
        BY DEF RuleResult
    <1>2. PICK l : l = Best(f)
        OBVIOUS
    <1>3. l \in Qualified(f) /\ l \in Labels
        BY <1>1, <1>2, BestQualifies DEF Qualified
    <1>4. /\ r.root = l /\ r.claim = l /\ r.evidence = Required(l) /\ r.refs = Required(l)
          /\ r.candidates = TopThree(f)
        BY <1>1, <1>2 DEF RuleResult
    <1>5. Required(l) = Required(truth)
        <2>1. CASE l = truth
            BY <2>1
        <2>2. CASE l # truth
            <3>1. SignalKind[l] \in Required(truth)
                BY <1>3, <2>2 DEF Ambiguous
            <3>2. SignalKind[l] = SignalKind[truth]
                BY <1>3, <3>1, RequiredFacts DEF Required
            <3>3. QED
                BY <3>2 DEF Required
        <2>3. QED
            BY <2>1, <2>2
    <1>6. TopThree(f) \subseteq Labels
        BY DEF TopThree, Qualified
    <1>7. ScoreResult(r, truth) =
             ScoreRow(IF Supported(r, truth) THEN 1 ELSE 0,
                      IF r.root = truth \/ truth \in r.candidates THEN 1 ELSE 0,
                      ClassV3(r, truth))
        <2>1. ({r.root, r.claim} \cup r.candidates) \ Labels = {}
            BY <1>3, <1>4, <1>6
        <2>2. r.claim = r.root /\ r.evidence = r.refs /\ r.evidence \ Kinds = {}
            BY <1>3, <1>4, RequiredFacts
        <2>3. QED
            BY <2>1, <2>2 DEF ScoreResult
    <1>8. ClassV3(r, truth) \in {"none", "wrong_root_cause"}
        <2>1. r.evidence \cap (Kinds \ Required(truth)) = {} /\ Required(truth) \subseteq r.evidence
            BY <1>4, <1>5
        <2>2. QED
            BY <2>1 DEF ClassV3
    <1>9. QED
        BY <1>4, <1>5, <1>7, <1>8 DEF ScoreRow

\* A case under scoring has a label, and what was scored is sound.
SheetInv ==
    /\ sheet = [pc |-> sheet.pc, truth |-> sheet.truth, result |-> sheet.result,
                score |-> sheet.score, features |-> sheet.features]
    /\ sheet.pc \in {"live", "rule"} => sheet.truth \in Labels
    /\ ScoresSound

\* Before scoring there is no row.
LEMMA SheetInitInv ==
    ASSUME DiagnosisInit
    PROVE  SheetInv
    <1>1. CASE sheet = NoSheet
        <2>1. sheet = [pc |-> "empty", truth |-> Unknown, result |-> <<>>, score |-> <<>>,
                       features |-> <<>>]
            BY <1>1 DEF NoSheet
        <2>2. QED
            BY <2>1 DEF SheetInv, ScoresSound, ScoreExact, RuleRowsUnambiguous
    <1>2. ASSUME NEW truth \in Labels, NEW pc \in {"live", "rule"},
                 sheet = [NoSheet EXCEPT !.pc = pc, !.truth = truth]
          PROVE  SheetInv
        <2>1. sheet = [pc |-> pc, truth |-> truth, result |-> <<>>, score |-> <<>>,
                       features |-> <<>>]
            BY <1>2 DEF NoSheet
        <2>2. QED
            BY <2>1 DEF SheetInv, ScoresSound, ScoreExact, RuleRowsUnambiguous
    <1>3. QED
        BY <1>1, <1>2, Zenon DEF DiagnosisInit

\* Scoring a live answer or a row of the rule.
LEMMA SheetNextInv ==
    ASSUME SheetInv, [DiagnosisNext]_diagnosisVars
    PROVE  SheetInv'
    <1>1. CASE UNCHANGED sheet
        BY <1>1 DEF SheetInv, ScoresSound, ScoreExact, RuleRowsUnambiguous
    <1>2. CASE ScoreLive
        <2>1. PICK t \in Labels : t = sheet.truth
            BY <1>2 DEF ScoreLive, SheetInv
        <2>2. PICK r \in Answers :
                sheet' = [sheet EXCEPT !.pc = "scored", !.result = r, !.score = ScoreResult(r, t)]
            BY <1>2, <2>1, Zenon DEF ScoreLive
        <2>3. PICK s : s = ScoreResult(r, t)
            OBVIOUS
        <2>4. PICK x : x = [sheet EXCEPT !.pc = "scored", !.result = r, !.score = s]
            OBVIOUS
        <2>5. /\ x.pc = "scored" /\ x.result = r /\ x.score = s /\ x.truth = t
              /\ x = [pc |-> x.pc, truth |-> x.truth, result |-> x.result, score |-> x.score,
                      features |-> x.features]
            BY <2>1, <2>4 DEF SheetInv
        <2>6. PICK right : right = (/\ r.root = t /\ r.claim = t /\ r.candidates \subseteq Labels
                                    /\ r.evidence = Required(t) /\ r.refs = r.evidence)
            OBVIOUS
        <2>7. (right <=> s.core = 1) /\ (right <=> s.class = "none")
            BY <2>3, <2>6, ScoreV3IsExact
        <2>8. sheet' = x
            BY <2>2, <2>3, <2>4
        <2>9. ScoresSound'
            BY <2>5, <2>6, <2>7, <2>8 DEF ScoresSound, ScoreExact, RuleRowsUnambiguous
        <2>10. QED
            BY <2>5, <2>8, <2>9 DEF SheetInv
    <1>3. CASE ScoreRule
        <2>1. PICK t \in Labels : t = sheet.truth
            BY <1>3 DEF ScoreRule, SheetInv
        <2>2. PICK f \in Features :
                  IF Ambiguous(f, t)
                  THEN sheet' = [sheet EXCEPT !.pc = "left_out"]
                  ELSE sheet' = [sheet EXCEPT !.pc = "row", !.features = f,
                                              !.result = RuleResult(f),
                                              !.score = ScoreResult(RuleResult(f), t)]
            BY <1>3, <2>1, Zenon DEF ScoreRule
        <2>3. CASE Ambiguous(f, t)
            <3>1. PICK x : x = [sheet EXCEPT !.pc = "left_out"]
                OBVIOUS
            <3>2. /\ x.pc = "left_out"
                  /\ x = [pc |-> x.pc, truth |-> x.truth, result |-> x.result,
                          score |-> x.score, features |-> x.features]
                BY <3>1 DEF SheetInv
            <3>3. sheet' = x
                BY <2>2, <2>3, <3>1
            <3>4. QED
                BY <3>2, <3>3 DEF SheetInv, ScoresSound, ScoreExact, RuleRowsUnambiguous
        <2>4. CASE ~Ambiguous(f, t)
            <3>1. PICK r, s : r = RuleResult(f) /\ s = ScoreResult(r, t)
                OBVIOUS
            <3>2. PICK x :
                     x = [sheet EXCEPT !.pc = "row", !.features = f, !.result = r, !.score = s]
                OBVIOUS
            <3>3. /\ x.pc = "row" /\ x.result = r /\ x.score = s /\ x.truth = t
                  /\ x = [pc |-> x.pc, truth |-> x.truth, result |-> x.result,
                          score |-> x.score, features |-> x.features]
                BY <2>1, <3>2 DEF SheetInv
            <3>4. r.root # Unknown =>
                     r.evidence = Required(t) /\ s.class \in {"none", "wrong_root_cause"}
                BY <2>4, <3>1, RuleRowIsUnambiguous
            <3>5. sheet' = x
                BY <2>2, <2>4, <3>1, <3>2
            <3>6. ScoresSound'
                BY <3>3, <3>4, <3>5 DEF ScoresSound, ScoreExact, RuleRowsUnambiguous
            <3>7. QED
                BY <3>3, <3>5, <3>6 DEF SheetInv
        <2>5. QED
            BY <2>3, <2>4
    <1>4. QED
        BY <1>1, <1>2, <1>3 DEF DiagnosisNext, AskFails, Answered, diagnosisVars

(***************************************************************************)
(* Scores are exact and the rule's rows are decided by the evidence of the *)
(* true cause, for every set of labels and kinds, every answer and every   *)
(* measurement (score_result_v3, run_deterministic_matrix_v3).             *)
(***************************************************************************)
THEOREM ScoresAreSound == DiagnosisSpec => []ScoresSound
    <1>1. SheetInv => ScoresSound
        BY DEF SheetInv
    <1>2. QED
        BY <1>1, SheetInitInv, SheetNextInv, PTL DEF DiagnosisSpec
=============================================================================
