----------------------------- MODULE LabProofs ------------------------------
(***************************************************************************)
(* Proofs about the fault lab, for every catalog of scenarios, every set   *)
(* of matrices and without a bound on executions, and about the observer   *)
(* that measures one case, for every number of polls and healthy windows.  *)
(***************************************************************************)
EXTENDS FaultLab, Observer, TLAPS

-----------------------------------------------------------------------------
(***************************************************************************)
(* The fault lab.                                                          *)
(***************************************************************************)

\* The places inside run_scenario and run_readiness_scenario_v3.
InCase == {"read", "control", "windows", "inject", "readback", "fault1", "fault2",
           "restore", "reread", "recover", "verdict"}

LabRecord == [pc : {"idle", "loop", "hand"} \cup InCase, suite : Suites \cup {None},
              sweep : BOOLEAN, case : Nat, prior : BOOLEAN, original : SUBSET Classes,
              found : SUBSET Classes, sampled : BOOLEAN, active : BOOLEAN,
              primary : Errors \cup {None}, cleanup : Errors \cup {None}]
CaseRecord == [status : {"absent", "running"} \cup Terminal, key : Nat, attempt : Nat,
               marks : {{}}, artifact : {0}]
HandRecord == [status : {"prepared", "injected", "restored"}, class : Classes,
               original : SUBSET Classes]

\* Every variable has its type.
LabTypes ==
    /\ flags \in SUBSET Classes
    /\ trial \in [Suites -> [DOMAIN Cases -> CaseRecord]]
    /\ contract \in Nat
    /\ lab \in LabRecord
    /\ hand \in Seq(HandRecord)
    /\ disturbed \in BOOLEAN
    /\ crossed \in BOOLEAN

Mutated(x) == x.original \cup {Cases[x.case]}

\* What the command with local variables x knows of the flag document F.
Knows(x, F) ==
    /\ x.pc \in {"idle", "loop", "read", "hand"} => x.original = {}
    /\ x.pc \in {"loop"} \cup InCase => x.suite \in Suites /\ x.case # 0
    /\ x.pc \in InCase => x.case \in DOMAIN Cases
    /\ x.pc \in {"control", "windows", "inject", "reread", "recover"} => F = x.original
    /\ x.pc \in {"readback", "fault1", "fault2"} =>
          F = Mutated(x) /\ Cases[x.case] \notin x.original
    /\ x.pc \in {"fault1", "fault2"} => x.found = Mutated(x)
    /\ x.pc = "restore" => F \in {x.original, Mutated(x)}
    /\ (/\ x.pc \in {"restore", "reread", "recover", "verdict"}
        /\ x.primary = None /\ x.cleanup = None)
          => x.found = Mutated(x) /\ Cases[x.case] \notin x.original
    /\ (x.pc = "verdict" /\ x.primary = None /\ x.cleanup = None) => F = x.original

Open(r) == r.status \in {"prepared", "injected"}
HeldByHand(f, h) == \E i \in DOMAIN h : h[i].class = f /\ Open(h[i])
HeldByCase(f, T) ==
    \E s \in Suites, i \in DOMAIN Cases :
        Cases[i] = f /\ T[s][i].status \notin {"absent", "pass"}
Held(f, h, T) == HeldByHand(f, h) \/ HeldByCase(f, T)

\* The operation that is being prepared is the last one, and saw the document as it is.
Pending(F, h) ==
    Len(h) # 0 /\ h[Len(h)].status = "prepared" /\ h[Len(h)].original = F

\* The faults that were on when an operation by hand began are not switched off
\* while it is injected, neither in the document F nor in what is written back.
HandKeeps(x, F, h) ==
    \A i \in DOMAIN h :
        /\ h[i].class \notin h[i].original
        /\ h[i].status = "injected" =>
              /\ h[i].original \subseteq F
              /\ x.pc \in InCase \ {"read", "verdict"} => h[i].original \subseteq x.original
              /\ \A j \in DOMAIN h :
                    j > i /\ h[j].status = "injected" => h[i].original \subseteq h[j].original

\* Until something is disturbed only operations by hand leave a fault on.
Undisturbed(x, F, h) ==
    /\ \A f \in x.original : HeldByHand(f, h)
    /\ x.pc \in {"idle", "loop", "read", "verdict", "hand"} => \A f \in F : HeldByHand(f, h)

\* Who owns the faults, as long as operations by hand are taken back last first.
Owned(x, F, h, T, d) ==
    /\ \A f \in F \cup x.original : Held(f, h, T)
    /\ HandKeeps(x, F, h)
    /\ ~d => Undisturbed(x, F, h)

LabInv ==
    /\ LabTypes
    /\ Knows(lab, flags)
    /\ lab.pc \in InCase => Current.status = "running"
    /\ lab.pc = "hand" => Pending(flags, hand)
    /\ ~crossed => Owned(lab, flags, hand, trial, disturbed)

\* Nothing is known by a command that is not running.
LEMMA AtRestFacts ==
    /\ AtRest \in LabRecord /\ AtRest.pc = "idle" /\ AtRest.original = {}
    /\ AtRest.primary = None /\ AtRest.cleanup = None
    /\ \A F : Knows(AtRest, F)
    BY DEF AtRest, LabRecord, Knows, InCase

\* The cluster before the first command.
LEMMA LabInitInv == LabInit => LabInv
    <1> SUFFICES ASSUME LabInit PROVE LabInv
        OBVIOUS
    <1>1. [NoRecord EXCEPT !.key = 0] \in CaseRecord
        BY DEF NoRecord, CaseRecord
    <1>2. LabTypes
        <2>1. <<>> \in Seq(HandRecord) /\ {} \in SUBSET Classes /\ 1 \in Nat
            OBVIOUS
        <2>2. QED
            BY <1>1, <2>1, AtRestFacts DEF LabInit, LabTypes
    <1>3. hand = <<>> /\ flags = {} /\ lab = AtRest
        BY DEF LabInit
    <1>4. Owned(lab, flags, hand, trial, disturbed)
        BY <1>3, AtRestFacts DEF Owned, HandKeeps, Undisturbed
    <1>5. QED
        BY <1>2, <1>3, <1>4, AtRestFacts DEF LabInv, InCase

\* Ownership is a matter of the values only.
LEMMA SameOwners ==
    ASSUME NEW x, NEW F, NEW h, NEW T, NEW d, Owned(x, F, h, T, d),
           lab' = x, flags' = F, hand' = h, trial' = T, disturbed' = d
    PROVE  Owned(lab, flags, hand, trial, disturbed)'
    BY DEF Owned, Held, HeldByHand, HeldByCase, Open, HandKeeps, Undisturbed

\* A step that only moves the command.
LEMMA Moves ==
    ASSUME LabInv, NEW x \in LabRecord, lab' = x,
           UNCHANGED <<flags, trial, contract, hand, disturbed, crossed>>,
           Knows(x, flags), x.original \subseteq flags \cup lab.original,
           x.pc \in InCase => trial[x.suite][x.case].status = "running",
           x.pc # "hand", ~crossed => HandKeeps(x, flags, hand),
           ~crossed /\ ~disturbed => Undisturbed(x, flags, hand)
    PROVE  LabInv'
    <1>1. LabTypes'
        BY DEF LabInv, LabTypes
    <1>2. Knows(lab, flags)'
        BY DEF Knows, Mutated
    <1>3. ~crossed => Owned(x, flags, hand, trial, disturbed)
        BY DEF LabInv, Owned
    <1>4. (~crossed => Owned(lab, flags, hand, trial, disturbed))'
        BY <1>3, SameOwners
    <1>5. (lab.pc \in InCase => Current.status = "running")' /\ (lab.pc # "hand")'
        BY DEF Current
    <1>6. QED
        BY <1>1, <1>2, <1>4, <1>5 DEF LabInv

\* The steps of the loop over the cases that execute nothing.
LEMMA LoopInv ==
    ASSUME LabInv,
           \/ \E s \in Suites : StartMatrix(s)
           \/ InheritCase \/ ReuseCase \/ StopAtCase \/ EndMatrix
    PROVE  LabInv'
    <1>1. /\ UNCHANGED <<flags, trial, contract, hand, disturbed, crossed>>
          /\ lab.pc \in {"idle", "loop"}
        BY DEF StartMatrix, InheritCase, ReuseCase, StopAtCase, EndMatrix, Looping
    <1>2. lab \in LabRecord /\ Knows(lab, flags)
        BY DEF LabInv, LabTypes
    <1>3. PICK x : x = lab'
        OBVIOUS
    <1>4. ASSUME NEW s \in Suites, NEW w \in BOOLEAN, NEW i \in Nat \ {0}, NEW q \in BOOLEAN,
                 x = [AtRest EXCEPT !.pc = "loop", !.suite = s, !.sweep = w, !.case = i,
                                    !.prior = q]
          PROVE  /\ x \in LabRecord /\ x.pc = "loop" /\ x.original = {}
                 /\ x.suite \in Suites /\ x.case # 0
        BY <1>4 DEF AtRest, LabRecord
    <1>5. /\ x \in LabRecord /\ x.pc \in {"idle", "loop"} /\ x.original = {}
          /\ x.pc = "loop" => x.suite \in Suites /\ x.case # 0
        <2>1. ASSUME NEW s \in Suites, StartMatrix(s)
              PROVE  /\ x \in LabRecord /\ x.pc = "loop" /\ x.original = {}
                     /\ x.suite \in Suites /\ x.case # 0
            <3>1. PICK w \in BOOLEAN :
                    x = [AtRest EXCEPT !.pc = "loop", !.suite = s, !.sweep = w, !.case = 1]
                BY <1>3, <2>1 DEF StartMatrix
            <3>2. PICK i \in Nat \ {0} : i = 1
                OBVIOUS
            <3>3. x = [AtRest EXCEPT !.pc = "loop", !.suite = s, !.sweep = w, !.case = i]
                BY <3>1, <3>2
            <3>4. QED
                BY <3>3 DEF AtRest, LabRecord
        <2>2. CASE InheritCase \/ ReuseCase
            <3>1. lab.pc = "loop"
                BY <2>2 DEF InheritCase, ReuseCase, Looping
            <3>2. lab.suite \in Suites /\ lab.sweep \in BOOLEAN /\ lab.case + 1 \in Nat \ {0}
                BY <1>2, <3>1 DEF Knows, LabRecord
            <3>3. PICK q \in BOOLEAN : NextCase(q)
                BY <2>2 DEF InheritCase, ReuseCase
            <3>4. QED
                BY <1>3, <1>4, <3>2, <3>3 DEF NextCase
        <2>3. CASE x = AtRest
            BY <2>3, AtRestFacts
        <2>4. QED
            BY <1>3, <2>1, <2>2, <2>3 DEF StopAtCase, EndMatrix
    <1>6. Knows(x, flags)
        BY <1>5 DEF Knows, InCase
    <1>7. ~crossed => HandKeeps(x, flags, hand)
        BY <1>5 DEF LabInv, Owned, HandKeeps, InCase
    <1>8. ~crossed /\ ~disturbed => Undisturbed(x, flags, hand)
        BY <1>1, <1>5 DEF LabInv, Owned, Undisturbed
    <1>9. x.pc \notin InCase /\ x.pc # "hand" /\ x.original \subseteq flags \cup lab.original
        BY <1>5 DEF InCase
    <1>10. QED
        BY <1>1, <1>3, <1>5, <1>6, <1>7, <1>8, <1>9, Moves

\* A step inside a case that only moves the command.
LEMMA CaseMoves ==
    ASSUME LabInv, lab.pc \in InCase, lab.pc # "verdict", NEW x \in LabRecord, lab' = x,
           UNCHANGED <<flags, trial, contract, hand, disturbed, crossed>>,
           x.pc \in InCase, x.pc # "read", x.suite = lab.suite, x.case = lab.case,
           Knows(x, flags),
           x.original = lab.original \/ (lab.pc = "read" /\ x.original = flags),
           lab.pc = "read" => x.pc = "verdict" \/ x.original = flags,
           x.pc = "verdict" => lab.pc = "read" \/ flags = lab.original
    PROVE  LabInv'
    <1>1. trial[x.suite][x.case].status = "running"
        BY DEF LabInv, Current
    <1>2. ~crossed => HandKeeps(x, flags, hand)
        BY DEF LabInv, Owned, HandKeeps
    <1>3. ~crossed /\ ~disturbed => Undisturbed(x, flags, hand)
        <2> SUFFICES ASSUME ~crossed, ~disturbed PROVE Undisturbed(x, flags, hand)
            OBVIOUS
        <2>1. Undisturbed(lab, flags, hand)
            BY DEF LabInv, Owned
        <2>2. \A f \in x.original : HeldByHand(f, hand)
            BY <2>1 DEF Undisturbed
        <2>3. x.pc = "verdict" => \A f \in flags : HeldByHand(f, hand)
            BY <2>1 DEF Undisturbed
        <2>4. QED
            BY <2>1, <2>2, <2>3 DEF Undisturbed, InCase
    <1>4. x.original \subseteq flags \cup lab.original /\ x.pc # "hand"
        BY DEF InCase
    <1>5. QED
        BY <1>1, <1>2, <1>3, <1>4, Moves

\* Before the injection: the document is read and the system is observed.
LEMMA BeforeInv ==
    ASSUME LabInv, ReadOriginal \/ Control \/ HealthyWindows
    PROVE  LabInv'
    <1>1. /\ UNCHANGED <<flags, trial, contract, hand, disturbed, crossed>>
          /\ lab.pc \in {"read", "control", "windows"}
        BY DEF ReadOriginal, Control, HealthyWindows
    <1>2. lab \in LabRecord /\ Knows(lab, flags) /\ flags \in SUBSET Classes
        BY DEF LabInv, LabTypes
    <1>3. lab.pc \in InCase
        BY <1>1 DEF InCase
    <1>4. ASSUME NEW kind \in Errors, Raise(kind) PROVE LabInv'
        <2>1. PICK x : x = [lab EXCEPT !.pc = "verdict", !.primary = kind]
            OBVIOUS
        <2>2. /\ x \in LabRecord /\ x.pc = "verdict" /\ x.primary = kind
              /\ x.suite = lab.suite /\ x.case = lab.case /\ x.original = lab.original
            BY <1>2, <2>1 DEF LabRecord, InCase
        <2>3. Knows(x, flags)
            BY <1>2, <1>3, <2>2 DEF Knows, InCase, Errors, None
        <2>4. lab.pc # "read" => flags = lab.original
            BY <1>1, <1>2 DEF Knows
        <2>5. lab' = x /\ x.pc \in InCase
            BY <1>4, <2>1, <2>2 DEF Raise, InCase
        <2>6. QED
            BY <1>1, <1>3, <2>2, <2>3, <2>4, <2>5, CaseMoves
    <1>5. CASE lab.pc = "read" /\ \E p \in {"inject", "control"} :
                  lab' = [lab EXCEPT !.original = flags, !.pc = p]
        <2>1. PICK p \in {"inject", "control"} : lab' = [lab EXCEPT !.original = flags, !.pc = p]
            BY <1>5
        <2>2. PICK x : x = [lab EXCEPT !.original = flags, !.pc = p]
            OBVIOUS
        <2>3. /\ x \in LabRecord /\ x.pc = p /\ x.suite = lab.suite /\ x.case = lab.case
              /\ x.original = flags
            BY <1>2, <2>2 DEF LabRecord, InCase
        <2>4. Knows(x, flags)
            BY <1>2, <1>3, <2>3 DEF Knows, InCase
        <2>5. lab' = x /\ x.pc \in InCase
            BY <2>1, <2>2, <2>3 DEF InCase
        <2>6. QED
            BY <1>1, <1>3, <1>5, <2>3, <2>4, <2>5, CaseMoves
    <1>6. CASE lab.pc # "read" /\ \E p \in {"windows", "inject"} : lab' = [lab EXCEPT !.pc = p]
        <2>1. PICK p \in {"windows", "inject"} : lab' = [lab EXCEPT !.pc = p]
            BY <1>6
        <2>2. PICK x : x = [lab EXCEPT !.pc = p]
            OBVIOUS
        <2>3. /\ x \in LabRecord /\ x.pc = p /\ x.suite = lab.suite /\ x.case = lab.case
              /\ x.original = lab.original
            BY <1>2, <2>2 DEF LabRecord, InCase
        <2>4. Knows(x, flags)
            BY <1>1, <1>2, <1>3, <1>6, <2>3 DEF Knows, InCase
        <2>5. lab' = x /\ x.pc \in InCase
            BY <2>1, <2>2, <2>3 DEF InCase
        <2>6. QED
            BY <1>1, <1>3, <1>6, <2>3, <2>4, <2>5, CaseMoves
    <1>7. "infra" \in Errors /\ "metric" \in Errors
        BY DEF Errors
    <1>8. CASE ReadOriginal
        <2>1. CASE lab' = [lab EXCEPT !.original = flags,
                             !.pc = IF lab.suite = "gate" /\ lab.prior
                                    THEN "inject" ELSE "control"]
            <3>1. PICK p \in {"inject", "control"} :
                    p = IF lab.suite = "gate" /\ lab.prior THEN "inject" ELSE "control"
                OBVIOUS
            <3>2. QED
                BY <1>5, <1>8, <2>1, <3>1 DEF ReadOriginal
        <2>2. QED
            BY <1>4, <1>7, <1>8, <2>1 DEF ReadOriginal
    <1>9. CASE Control
        <2>1. CASE lab' = [lab EXCEPT !.pc = IF V3 THEN "windows" ELSE "inject"]
            <3>1. PICK p \in {"windows", "inject"} : p = IF V3 THEN "windows" ELSE "inject"
                OBVIOUS
            <3>2. QED
                BY <1>6, <1>9, <2>1, <3>1 DEF Control
        <2>2. QED
            BY <1>4, <1>9, <2>1 DEF Control
    <1>10. CASE HealthyWindows
        BY <1>4, <1>6, <1>10 DEF HealthyWindows
    <1>11. QED
        BY <1>8, <1>9, <1>10

\* The steps between the injection and the verdict that leave the document alone.
LEMMA DuringInv ==
    ASSUME LabInv, ReadbackInjected \/ ObserveFault \/ ReadbackRestored \/ ObserveRecovery
    PROVE  LabInv'
    <1>1. /\ UNCHANGED <<flags, trial, contract, hand, disturbed, crossed>>
          /\ lab.pc \in {"readback", "fault1", "fault2", "reread", "recover"}
        BY DEF ReadbackInjected, ObserveFault, ReadbackRestored, ObserveRecovery
    <1>2. lab \in LabRecord /\ Knows(lab, flags) /\ flags \in SUBSET Classes
        BY DEF LabInv, LabTypes
    <1>3. lab.pc \in InCase /\ lab.pc # "verdict" /\ lab.pc # "read"
        BY <1>1 DEF InCase
    <1>4. Mutated(lab) = Injected
        BY DEF Mutated, Injected, Class
    <1>5. ASSUME NEW kind \in Errors, Fails(kind),
                 lab.pc \in {"readback", "fault1", "fault2"}
          PROVE  LabInv'
        <2>1. PICK x : x = [lab EXCEPT !.pc = "restore", !.primary = kind]
            OBVIOUS
        <2>2. /\ x \in LabRecord /\ x.pc = "restore" /\ x.primary = kind
              /\ x.suite = lab.suite /\ x.case = lab.case /\ x.original = lab.original
            BY <1>2, <2>1 DEF LabRecord, InCase
        <2>3. Mutated(x) = Mutated(lab) /\ x.primary # None
            BY <2>2 DEF Mutated, Errors, None
        <2>4. Knows(x, flags)
            BY <1>2, <1>3, <1>5, <2>2, <2>3 DEF Knows, InCase
        <2>5. lab' = x /\ x.pc \in InCase
            BY <1>5, <2>1, <2>2 DEF Fails, InCase
        <2>6. QED
            BY <1>1, <1>3, <2>2, <2>4, <2>5, CaseMoves
    <1>6. ASSUME NEW kind \in Errors, CleanupFails(kind), lab.pc \in {"reread", "recover"}
          PROVE  LabInv'
        <2>1. PICK x : x = [lab EXCEPT !.pc = "verdict", !.cleanup = kind]
            OBVIOUS
        <2>2. /\ x \in LabRecord /\ x.pc = "verdict" /\ x.cleanup = kind
              /\ x.suite = lab.suite /\ x.case = lab.case /\ x.original = lab.original
            BY <1>2, <2>1 DEF LabRecord, InCase
        <2>3. x.cleanup # None /\ flags = lab.original
            BY <1>2, <1>6, <2>2 DEF Errors, None, Knows
        <2>4. Knows(x, flags)
            BY <1>2, <1>3, <2>2, <2>3 DEF Knows, InCase
        <2>5. lab' = x /\ x.pc \in InCase
            BY <1>6, <2>1, <2>2 DEF CleanupFails, InCase
        <2>6. QED
            BY <1>1, <1>3, <2>2, <2>3, <2>4, <2>5, CaseMoves
    <1>7. CASE ReadbackInjected
        <2>1. CASE lab' = [lab EXCEPT !.pc = "fault1", !.found = flags]
            <3>1. PICK x : x = [lab EXCEPT !.pc = "fault1", !.found = flags]
                OBVIOUS
            <3>2. /\ x \in LabRecord /\ x.pc = "fault1" /\ x.found = flags
                  /\ x.suite = lab.suite /\ x.case = lab.case /\ x.original = lab.original
                BY <1>2, <3>1 DEF LabRecord, InCase
            <3>3. Mutated(x) = Mutated(lab) /\ lab.pc = "readback"
                BY <1>7, <3>2 DEF Mutated, ReadbackInjected
            <3>4. Knows(x, flags)
                BY <1>2, <1>3, <3>2, <3>3 DEF Knows, InCase
            <3>5. lab' = x /\ x.pc \in InCase /\ x.pc # "verdict" /\ x.pc # "read"
                BY <2>1, <3>1, <3>2 DEF InCase
            <3>6. QED
                BY <1>1, <1>3, <3>2, <3>4, <3>5, CaseMoves
        <2>2. QED
            BY <1>5, <1>7, <2>1 DEF ReadbackInjected, Errors
    <1>8. CASE ObserveFault
        <2>1. CASE \E kind \in Errors : Fails(kind)
            BY <1>5, <1>8, <2>1 DEF ObserveFault
        <2>2. CASE \E on \in BOOLEAN :
                     LET active == lab.active /\ on
                         next == [lab EXCEPT !.active = active,
                                     !.sampled = @ \/ on \/ V3 \/ Class \in GrowthClasses]
                     IN  lab' = IF lab.pc = "fault1" THEN [next EXCEPT !.pc = "fault2"]
                                ELSE [next EXCEPT !.pc = "restore",
                                          !.primary = IF active THEN None ELSE "metric"]
            <3>1. PICK a \in BOOLEAN, b \in BOOLEAN, e \in Errors \cup {None} :
                    lab' = IF lab.pc = "fault1"
                           THEN [lab EXCEPT !.active = a, !.sampled = b, !.pc = "fault2"]
                           ELSE [lab EXCEPT !.active = a, !.sampled = b, !.pc = "restore",
                                            !.primary = e]
                <4>1. PICK on \in BOOLEAN :
                     LET active == lab.active /\ on
                         next == [lab EXCEPT !.active = active,
                                     !.sampled = @ \/ on \/ V3 \/ Class \in GrowthClasses]
                     IN  lab' = IF lab.pc = "fault1" THEN [next EXCEPT !.pc = "fault2"]
                                ELSE [next EXCEPT !.pc = "restore",
                                          !.primary = IF active THEN None ELSE "metric"]
                    BY <2>2
                <4>2. PICK a \in BOOLEAN, b \in BOOLEAN, e \in Errors \cup {None} :
                        /\ a = (lab.active /\ on)
                        /\ b = (lab.sampled \/ on \/ V3 \/ Class \in GrowthClasses)
                        /\ e = IF a THEN None ELSE "metric"
                    <5>1. PICK a \in BOOLEAN, b \in BOOLEAN :
                            /\ a = (lab.active /\ on)
                            /\ b = (lab.sampled \/ on \/ V3 \/ Class \in GrowthClasses)
                        OBVIOUS
                    <5>2. (IF a THEN None ELSE "metric") \in Errors \cup {None}
                        BY DEF Errors
                    <5>3. QED
                        BY <5>1, <5>2
                <4>3. QED
                    BY <4>1, <4>2
            <3>2. PICK x : x = lab'
                OBVIOUS
            <3>3. /\ x \in LabRecord /\ x.suite = lab.suite /\ x.case = lab.case
                  /\ x.original = lab.original /\ x.found = lab.found
                  /\ x.pc \in {"fault2", "restore"}
                BY <1>2, <3>1, <3>2 DEF LabRecord, InCase
            <3>4. Mutated(x) = Mutated(lab) /\ lab.pc \in {"fault1", "fault2"}
                BY <1>8, <3>3 DEF Mutated, ObserveFault
            <3>5. Knows(x, flags)
                BY <1>2, <1>3, <3>3, <3>4 DEF Knows, InCase
            <3>6. lab' = x /\ x.pc \in InCase /\ x.pc # "verdict" /\ x.pc # "read"
                BY <3>2, <3>3 DEF InCase
            <3>7. QED
                BY <1>1, <1>3, <3>3, <3>5, <3>6, CaseMoves
        <2>3. QED
            BY <1>8, <2>1, <2>2 DEF ObserveFault
    <1>9. ASSUME NEW p \in {"recover", "verdict"}, lab.pc \in {"reread", "recover"},
                 lab' = [lab EXCEPT !.pc = p]
          PROVE  LabInv'
        <2>1. PICK x : x = [lab EXCEPT !.pc = p]
            OBVIOUS
        <2>2. /\ x \in LabRecord /\ x.pc = p /\ x.found = lab.found
              /\ x.primary = lab.primary /\ x.cleanup = lab.cleanup
              /\ x.suite = lab.suite /\ x.case = lab.case /\ x.original = lab.original
            BY <1>2, <2>1 DEF LabRecord, InCase
        <2>3. Mutated(x) = Mutated(lab) /\ flags = lab.original
            BY <1>2, <1>9, <2>2 DEF Mutated, Knows
        <2>4. Knows(x, flags)
            BY <1>2, <1>3, <1>9, <2>2, <2>3 DEF Knows, InCase
        <2>5. lab' = x /\ x.pc \in InCase /\ x.pc # "read"
            BY <1>9, <2>1, <2>2 DEF InCase
        <2>6. QED
            BY <1>1, <1>3, <2>2, <2>3, <2>4, <2>5, CaseMoves
    <1>10. CASE ReadbackRestored
        BY <1>6, <1>9, <1>10 DEF ReadbackRestored, Errors
    <1>11. CASE ObserveRecovery
        BY <1>6, <1>9, <1>11 DEF ObserveRecovery, Errors
    <1>12. QED
        BY <1>7, <1>8, <1>10, <1>11

\* The two writes of a case: the fault is on while the case that owns it runs,
\* and what is written back was there before.
LEMMA WriteInv ==
    ASSUME LabInv, Inject \/ Restore
    PROVE  LabInv'
    <1>1. UNCHANGED <<trial, contract, hand, crossed>> /\ lab.pc \in {"inject", "restore"}
        BY DEF Inject, Restore
    <1>2. /\ lab \in LabRecord /\ Knows(lab, flags) /\ flags \in SUBSET Classes
          /\ disturbed \in BOOLEAN
        BY DEF LabInv, LabTypes
    <1>3. lab.pc \in InCase /\ lab.case \in DOMAIN Cases /\ lab.suite \in Suites
        BY <1>1, <1>2 DEF InCase, Knows
    <1>4. Mutated(lab) = Injected /\ Class \in Classes
        BY <1>3 DEF Mutated, Injected, Class, Classes
    <1>5. flags' \in {flags, lab.original, Mutated(lab)}
        BY <1>4 DEF Inject, Restore
    <1>6. lab.original \subseteq Classes /\ Mutated(lab) \subseteq Classes
        BY <1>2, <1>4 DEF LabRecord, Injected
    <1>7. ~crossed => \A f \in Mutated(lab) \cup flags : Held(f, hand, trial)
        <2>1. HeldByCase(Class, trial)
            BY <1>3 DEF HeldByCase, LabInv, Current, Class
        <2>2. QED
            BY <1>4, <2>1 DEF LabInv, Owned, Held, Injected
    <1>8. PICK x : x = lab'
        OBVIOUS
    <1>9. /\ x \in LabRecord /\ x.suite = lab.suite /\ x.case = lab.case
          /\ x.original = lab.original /\ x.found = lab.found
          /\ x.pc \in {"readback", "restore", "reread", "verdict"}
          /\ Mutated(x) = Mutated(lab)
        <2>1. \/ \E p \in {"readback", "reread"} : lab' = [lab EXCEPT !.pc = p]
              \/ \E kind \in Errors : lab' = [lab EXCEPT !.pc = "restore", !.primary = kind]
              \/ \E kind \in Errors : lab' = [lab EXCEPT !.pc = "verdict", !.cleanup = kind]
            BY DEF Inject, Restore, Fails, CleanupFails, Errors
        <2>2. QED
            BY <1>2, <1>8, <2>1 DEF LabRecord, InCase, Mutated
    <1>10. Knows(x, flags')
        <2>1. CASE lab.pc = "inject"
            <3>1. flags = lab.original
                BY <1>2, <2>1 DEF Knows
            <3>2. CASE x.pc = "readback"
                <4>1. flags' = Mutated(lab) /\ Cases[lab.case] \notin lab.original
                    BY <1>2, <1>4, <1>8, <2>1, <3>2
                       DEF Inject, Restore, Fails, Refuses, Class, LabRecord
                <4>2. QED
                    BY <1>2, <1>3, <1>9, <3>2, <4>1 DEF Knows, InCase
            <3>3. CASE x.pc = "restore"
                <4>1. x.primary # None
                    BY <1>2, <1>8, <2>1, <3>3
                       DEF Inject, Restore, Fails, LabRecord, None
                <4>2. QED
                    BY <1>2, <1>3, <1>5, <1>9, <3>1, <3>3, <4>1 DEF Knows, InCase
            <3>4. x.pc \in {"readback", "restore"}
                BY <1>2, <1>8, <2>1 DEF Inject, Restore, Fails, LabRecord
            <3>5. QED
                BY <3>2, <3>3, <3>4
        <2>2. CASE lab.pc = "restore"
            <3>1. CASE x.pc = "reread"
                <4>1. /\ flags' = lab.original /\ x.primary = lab.primary
                      /\ x.cleanup = lab.cleanup
                    BY <1>2, <1>8, <2>2, <3>1
                       DEF Inject, Restore, CleanupFails, LabRecord
                <4>2. QED
                    BY <1>2, <1>3, <1>9, <2>2, <3>1, <4>1 DEF Knows, InCase
            <3>2. CASE x.pc = "verdict"
                <4>1. x.cleanup # None
                    BY <1>2, <1>8, <2>2, <3>2
                       DEF Inject, Restore, CleanupFails, LabRecord, None
                <4>2. QED
                    BY <1>2, <1>3, <1>9, <3>2, <4>1 DEF Knows, InCase
            <3>3. x.pc \in {"reread", "verdict"}
                BY <1>2, <1>8, <2>2 DEF Inject, Restore, CleanupFails, LabRecord
            <3>4. QED
                BY <3>1, <3>2, <3>3
        <2>3. QED
            BY <1>1, <2>1, <2>2
    <1>11. ~crossed => HandKeeps(x, flags', hand)
        <2> SUFFICES ASSUME ~crossed PROVE HandKeeps(x, flags', hand)
            OBVIOUS
        <2>1. HandKeeps(lab, flags, hand)
            BY DEF LabInv, Owned
        <2>2. \A i \in DOMAIN hand : hand[i].status = "injected" =>
                 /\ hand[i].original \subseteq lab.original
                 /\ hand[i].original \subseteq flags'
            BY <1>1, <1>3, <1>5, <2>1 DEF HandKeeps, Mutated
        <2>3. QED
            BY <1>9, <2>1, <2>2 DEF HandKeeps
    <1>12. ~disturbed' => ~disturbed /\ x.pc # "verdict"
        <2>1. CASE lab.pc = "inject"
            BY <1>2, <1>8, <2>1 DEF Inject, Restore, Fails, LabRecord
        <2>2. CASE lab.pc = "restore"
            BY <1>2, <1>8, <2>2 DEF Inject, Restore, CleanupFails, LabRecord
        <2>3. QED
            BY <1>1, <2>1, <2>2
    <1>13. ~crossed /\ ~disturbed' => Undisturbed(x, flags', hand)
        BY <1>9, <1>12 DEF LabInv, Owned, Undisturbed
    <1>14. LabTypes'
        <2>1. disturbed' \in BOOLEAN
            BY <1>2 DEF Inject, Restore
        <2>2. QED
            BY <1>1, <1>2, <1>5, <1>6, <1>8, <1>9, <2>1 DEF LabInv, LabTypes
    <1>15. ~crossed => Owned(x, flags', hand, trial, disturbed')
        BY <1>5, <1>7, <1>9, <1>11, <1>13 DEF Mutated, Owned
    <1>16. (~crossed => Owned(lab, flags, hand, trial, disturbed))'
        BY <1>1, <1>8, <1>15, SameOwners
    <1>17. (lab.pc \in InCase => Current.status = "running")' /\ (lab.pc # "hand")'
        BY <1>1, <1>3, <1>8, <1>9 DEF Current, LabInv
    <1>18. Knows(lab, flags)'
        BY <1>8, <1>10 DEF Knows, Mutated
    <1>19. QED
        BY <1>14, <1>16, <1>17, <1>18 DEF LabInv

\* A case is begun: its record is running, whatever it was.
LEMMA BeginInv ==
    ASSUME LabInv, BeginCase
    PROVE  LabInv'
    <1>1. /\ lab.pc = "loop" /\ UNCHANGED <<flags, contract, hand, disturbed, crossed>>
          /\ lab' = [lab EXCEPT !.pc = "read"]
          /\ trial' = [trial EXCEPT ![lab.suite][lab.case] = Begin(Current, contract)]
        BY DEF BeginCase, Looping, SetTrial
    <1>2. lab \in LabRecord /\ Knows(lab, flags) /\ contract \in Nat
        BY DEF LabInv, LabTypes
    <1>3. lab.suite \in Suites /\ lab.case \in DOMAIN Cases
        <2>1. lab.suite \in Suites /\ lab.case \in Nat \ {0} /\ lab.case <= Len(Cases)
            BY <1>1, <1>2 DEF Knows, LabRecord, BeginCase, Looping
        <2>2. QED
            BY <2>1, LabAssumption
    <1>4. PICK x : x = lab'
        OBVIOUS
    <1>5. /\ x \in LabRecord /\ x.pc = "read" /\ x.suite = lab.suite /\ x.case = lab.case
          /\ x.original = lab.original /\ x.original = {}
        BY <1>1, <1>2, <1>4 DEF LabRecord, InCase, Knows
    <1>6. PICK r \in CaseRecord : r = Begin(Current, contract) /\ r.status = "running"
        <2>1. Current \in CaseRecord
            BY <1>3 DEF LabInv, LabTypes, Current
        <2>2. PICK r : r = Begin(Current, contract)
            OBVIOUS
        <2>3. PICK m : m = IF Current.key = contract THEN Current.marks ELSE {}
            OBVIOUS
        <2>4. m \in {{}} /\ Current.attempt + 1 \in Nat
            BY <2>1, <2>3 DEF CaseRecord
        <2>5. r = [status |-> "running", key |-> contract, attempt |-> Current.attempt + 1,
                   marks |-> m, artifact |-> 0]
            BY <2>2, <2>3 DEF Begin
        <2>6. QED
            BY <1>2, <2>2, <2>4, <2>5 DEF CaseRecord
    <1>7. /\ trial' \in [Suites -> [DOMAIN Cases -> CaseRecord]]
          /\ trial'[lab.suite][lab.case] = r
          /\ \A s \in Suites, i \in DOMAIN Cases :
                ~(s = lab.suite /\ i = lab.case) => trial'[s][i] = trial[s][i]
        BY <1>1, <1>3, <1>6 DEF LabInv, LabTypes
    <1>8. LabTypes'
        BY <1>1, <1>4, <1>5, <1>7 DEF LabInv, LabTypes
    <1>9. \A f : HeldByCase(f, trial) => HeldByCase(f, trial')
        BY <1>3, <1>6, <1>7 DEF HeldByCase
    <1>10. ~crossed => Owned(x, flags, hand, trial', disturbed)
        <2> SUFFICES ASSUME ~crossed PROVE Owned(x, flags, hand, trial', disturbed)
            OBVIOUS
        <2>1. \A f \in flags \cup x.original : Held(f, hand, trial')
            BY <1>5, <1>9 DEF LabInv, Owned, Held
        <2>2. HandKeeps(x, flags, hand)
            BY <1>5 DEF LabInv, Owned, HandKeeps
        <2>3. ~disturbed => Undisturbed(x, flags, hand)
            BY <1>1, <1>5 DEF LabInv, Owned, Undisturbed
        <2>4. QED
            BY <2>1, <2>2, <2>3 DEF Owned
    <1>11. (~crossed => Owned(lab, flags, hand, trial, disturbed))'
        BY <1>1, <1>4, <1>10, SameOwners
    <1>12. Knows(x, flags)
        BY <1>1, <1>2, <1>3, <1>5 DEF Knows, InCase
    <1>13. Knows(lab, flags)'
        BY <1>1, <1>4, <1>12 DEF Knows, Mutated
    <1>14. (lab.pc \in InCase => Current.status = "running")' /\ (lab.pc # "hand")'
        BY <1>4, <1>5, <1>6, <1>7 DEF Current
    <1>15. QED
        BY <1>8, <1>11, <1>13, <1>14 DEF LabInv

\* A pass is what is left when neither the case nor the cleanup failed.
LEMMA PassOutcome ==
    ASSUME lab \in LabRecord, Outcome = "pass"
    PROVE  lab.primary = None /\ lab.cleanup = None
    <1>1. lab.primary \in Errors \cup {None} /\ lab.cleanup \in Errors \cup {None}
        BY DEF LabRecord
    <1>2. "pass" \notin Errors \cup {None} /\ "pass" # "metric"
        BY DEF Errors, None
    <1>3. QED
        BY <1>1, <1>2 DEF Outcome

\* Every outcome has a status, and only a pass is journaled as one.
LEMMA Statuses ==
    ASSUME NEW o \in {"pass", "infra", "metric", "error"}
    PROVE  /\ StatusOf(o) \in {"running"} \cup Terminal
           /\ StatusOf(o) = "pass" => o = "pass"
    <1>1. CASE o = "pass"
        BY <1>1 DEF StatusOf, Terminal
    <1>2. CASE o = "infra"
        BY <1>2 DEF StatusOf, Terminal
    <1>3. CASE o = "metric"
        BY <1>3 DEF StatusOf, Terminal
    <1>4. CASE o = "error"
        BY <1>4 DEF StatusOf, Terminal
    <1>5. QED
        BY <1>1, <1>2, <1>3, <1>4

\* What the verdict of a case writes, and what is known when it is a pass.
LEMMA VerdictFacts ==
    ASSUME LabInv, Verdict
    PROVE  /\ lab.pc = "verdict" /\ UNCHANGED <<flags, contract, hand, disturbed, crossed>>
           /\ lab.suite \in Suites /\ lab.case \in DOMAIN Cases
           /\ \E r \in CaseRecord :
                 /\ trial' = [trial EXCEPT ![lab.suite][lab.case] = r]
                 /\ r.status # "absent"
                 /\ r.status = "pass" => /\ flags = lab.original
                                         /\ Cases[lab.case] \notin flags
                                         /\ lab.found = flags \cup {Cases[lab.case]}
           /\ \/ lab' = AtRest
              \/ \E p \in BOOLEAN : NextCase(p)
    <1>1. /\ lab.pc = "verdict" /\ UNCHANGED <<flags, contract, hand, disturbed, crossed>>
        BY DEF Verdict
    <1>2. lab \in LabRecord /\ Knows(lab, flags)
        BY DEF LabInv, LabTypes
    <1>3. lab.suite \in Suites /\ lab.case \in DOMAIN Cases
        BY <1>1, <1>2 DEF Knows, InCase
    <1>4. PICK o \in (IF Outcome = "pass" THEN {"pass", "infra", "metric"} ELSE {Outcome}) :
            /\ SetTrial(Finish(Current, StatusOf(o), 0))
            /\ IF o = "pass" \/ (lab.sweep /\ o # "error")
               THEN NextCase(o = "pass")
               ELSE lab' = AtRest
        BY DEF Verdict
    <1>5. o \in {"pass", "infra", "metric", "error"} /\ (o = "pass" => Outcome = "pass")
        BY <1>2, <1>4 DEF Outcome, LabRecord, Errors
    <1>6. PICK t : t = StatusOf(o)
        OBVIOUS
    <1>7. t \in {"running"} \cup Terminal /\ (t = "pass" => o = "pass")
        BY <1>5, <1>6, Statuses
    <1>8. Current \in CaseRecord
        BY <1>3 DEF LabInv, LabTypes, Current
    <1>9. PICK r : r = [Current EXCEPT !.status = t, !.artifact = 0]
        OBVIOUS
    <1>10. r \in CaseRecord /\ r.status = t /\ t # "absent"
        BY <1>7, <1>8, <1>9 DEF CaseRecord, Terminal
    <1>11. trial' = [trial EXCEPT ![lab.suite][lab.case] = r]
        BY <1>4, <1>6, <1>9 DEF SetTrial, Finish
    <1>12. r.status = "pass" => /\ flags = lab.original
                                /\ Cases[lab.case] \notin flags
                                /\ lab.found = flags \cup {Cases[lab.case]}
        BY <1>1, <1>2, <1>5, <1>7, <1>10, PassOutcome DEF Knows, Mutated
    <1>13. lab' = AtRest \/ \E p \in BOOLEAN : NextCase(p)
        BY <1>4
    <1>14. QED
        BY <1>1, <1>3, <1>10, <1>11, <1>12, <1>13

\* The verdict: a case that passes no longer owns its fault, which is off.
LEMMA VerdictInv ==
    ASSUME LabInv, Verdict
    PROVE  LabInv'
    <1>1. /\ lab.pc = "verdict" /\ UNCHANGED <<flags, contract, hand, disturbed, crossed>>
          /\ lab.suite \in Suites /\ lab.case \in DOMAIN Cases
        BY VerdictFacts
    <1>2. PICK r \in CaseRecord :
            /\ trial' = [trial EXCEPT ![lab.suite][lab.case] = r]
            /\ r.status # "absent"
            /\ r.status = "pass" => Cases[lab.case] \notin flags
        BY VerdictFacts
    <1>3. lab \in LabRecord
        BY DEF LabInv, LabTypes
    <1>4. PICK x : x = lab'
        OBVIOUS
    <1>5. /\ x \in LabRecord /\ x.pc \in {"idle", "loop"} /\ x.original = {}
          /\ x.pc = "loop" => x.suite \in Suites /\ x.case # 0
        <2>1. CASE x = AtRest
            BY <2>1, AtRestFacts
        <2>2. CASE \E p \in BOOLEAN : NextCase(p)
            <3>1. PICK p \in BOOLEAN : NextCase(p)
                BY <2>2
            <3>2. PICK i \in Nat \ {0} : i = lab.case + 1
                BY <1>3 DEF LabRecord
            <3>3. lab.sweep \in BOOLEAN
                BY <1>3 DEF LabRecord
            <3>4. x = [AtRest EXCEPT !.pc = "loop", !.suite = lab.suite, !.sweep = lab.sweep,
                                     !.case = i, !.prior = p]
                BY <1>4, <3>1, <3>2 DEF NextCase
            <3>5. QED
                BY <1>1, <3>3, <3>4 DEF AtRest, LabRecord
        <2>3. QED
            BY <1>4, <2>1, <2>2, VerdictFacts
    <1>6. /\ trial' \in [Suites -> [DOMAIN Cases -> CaseRecord]]
          /\ trial'[lab.suite][lab.case] = r
          /\ \A s \in Suites, i \in DOMAIN Cases :
                ~(s = lab.suite /\ i = lab.case) => trial'[s][i] = trial[s][i]
        BY <1>1, <1>2 DEF LabInv, LabTypes
    <1>7. LabTypes'
        BY <1>1, <1>4, <1>5, <1>6 DEF LabInv, LabTypes
    <1>8. \A f \in flags : HeldByCase(f, trial) => HeldByCase(f, trial')
        <2> SUFFICES ASSUME NEW f \in flags, HeldByCase(f, trial) PROVE HeldByCase(f, trial')
            OBVIOUS
        <2>1. PICK s \in Suites, i \in DOMAIN Cases :
                Cases[i] = f /\ trial[s][i].status \notin {"absent", "pass"}
            BY DEF HeldByCase
        <2>2. trial'[s][i].status \notin {"absent", "pass"}
            BY <1>2, <1>6, <2>1
        <2>3. QED
            BY <2>1, <2>2 DEF HeldByCase
    <1>9. ~crossed => Owned(x, flags, hand, trial', disturbed)
        <2> SUFFICES ASSUME ~crossed PROVE Owned(x, flags, hand, trial', disturbed)
            OBVIOUS
        <2>1. \A f \in flags \cup x.original : Held(f, hand, trial')
            BY <1>5, <1>8 DEF LabInv, Owned, Held
        <2>2. HandKeeps(x, flags, hand)
            BY <1>5 DEF LabInv, Owned, HandKeeps, InCase
        <2>3. ~disturbed => Undisturbed(x, flags, hand)
            BY <1>1, <1>5 DEF LabInv, Owned, Undisturbed
        <2>4. QED
            BY <2>1, <2>2, <2>3 DEF Owned
    <1>10. (~crossed => Owned(lab, flags, hand, trial, disturbed))'
        BY <1>1, <1>4, <1>9, SameOwners
    <1>11. Knows(x, flags)
        BY <1>5 DEF Knows, InCase
    <1>12. Knows(lab, flags)'
        BY <1>1, <1>4, <1>11 DEF Knows, Mutated
    <1>13. (lab.pc \notin InCase)' /\ (lab.pc # "hand")'
        BY <1>4, <1>5 DEF InCase
    <1>14. QED
        BY <1>7, <1>10, <1>12, <1>13 DEF LabInv

\* The records are a finite sequence.
LEMMA HandFacts ==
    ASSUME NEW h \in Seq(HandRecord)
    PROVE  /\ \A i \in DOMAIN h : i \in Nat /\ i <= Len(h) /\ h[i] \in HandRecord
           /\ Len(h) \in Nat /\ (Len(h) # 0 => Len(h) \in DOMAIN h)
    OBVIOUS

\* A record is appended.
LEMMA NewRecord ==
    ASSUME NEW h \in Seq(HandRecord), NEW r \in HandRecord
    PROVE  /\ Append(h, r) \in Seq(HandRecord) /\ Len(Append(h, r)) = Len(h) + 1
           /\ DOMAIN Append(h, r) = DOMAIN h \cup {Len(h) + 1}
           /\ Append(h, r)[Len(h) + 1] = r
           /\ \A i \in DOMAIN h : Append(h, r)[i] = h[i]
    OBVIOUS

\* The status of a record changes.
LEMMA NewStatus ==
    ASSUME NEW h \in Seq(HandRecord), NEW i \in DOMAIN h,
           NEW t \in {"prepared", "injected", "restored"},
           NEW g, g = [h EXCEPT ![i].status = t]
    PROVE  /\ g \in Seq(HandRecord) /\ DOMAIN g = DOMAIN h /\ g[i].status = t
           /\ g[i].class = h[i].class /\ g[i].original = h[i].original
           /\ \A j \in DOMAIN h : j # i => g[j] = h[j]
    <1>1. h[i] \in HandRecord
        OBVIOUS
    <1>2. PICK q : q = [h[i] EXCEPT !.status = t]
        OBVIOUS
    <1>3. /\ q \in HandRecord /\ q.status = t /\ q.class = h[i].class
          /\ q.original = h[i].original
        BY <1>1, <1>2 DEF HandRecord
    <1>4. g = [h EXCEPT ![i] = q]
        BY <1>2
    <1>5. g \in Seq(HandRecord) /\ DOMAIN g = DOMAIN h /\ g[i] = q
        BY <1>3, <1>4
    <1>6. \A j \in DOMAIN h : j # i => g[j] = h[j]
        BY <1>4
    <1>7. QED
        BY <1>3, <1>5, <1>6

\* What an operation by hand leaves: x is the command after it, F the document, h the
\* records.
HandLeaves(x, F, h) ==
    /\ h \in Seq(HandRecord) /\ F \in SUBSET Classes
    /\ x.pc = "hand" => Pending(F, h)
    /\ ~crossed' => /\ \A f \in F : Held(f, h, trial)
                    /\ HandKeeps(x, F, h)
                    /\ ~disturbed => \A f \in F : HeldByHand(f, h)

\* A new record sees the document as it is and switches nothing.
LEMMA PrepareLeaves ==
    ASSUME LabInv, PrepareByHand, NEW x, x = lab', x.pc = "hand"
    PROVE  HandLeaves(x, flags', hand')
    <1>1. hand \in Seq(HandRecord) /\ flags \in SUBSET Classes
        BY DEF LabInv, LabTypes
    <1>2. PICK g \in Classes \ flags :
            hand' = Append(hand, [status |-> "prepared", class |-> g, original |-> flags])
        BY DEF PrepareByHand
    <1>3. PICK r \in HandRecord : r = [status |-> "prepared", class |-> g, original |-> flags]
        BY <1>1 DEF HandRecord
    <1>4. PICK h : h = Append(hand, r)
        OBVIOUS
    <1>5. /\ h \in Seq(HandRecord) /\ Len(h) = Len(hand) + 1 /\ h[Len(h)] = r
          /\ DOMAIN h = DOMAIN hand \cup {Len(h)}
          /\ \A i \in DOMAIN hand : h[i] = hand[i]
        BY <1>1, <1>4, NewRecord
    <1>6. hand' = h /\ flags' = flags /\ crossed' = crossed /\ Len(h) # 0
        BY <1>1, <1>2, <1>3, <1>4, <1>5, HandFacts DEF PrepareByHand
    <1>7. Pending(flags, h)
        BY <1>3, <1>5, <1>6 DEF Pending
    <1>8. \A f : HeldByHand(f, hand) => HeldByHand(f, h)
        BY <1>5 DEF HeldByHand
    <1>9. ASSUME ~crossed
          PROVE  /\ \A f \in flags : Held(f, h, trial)
                 /\ HandKeeps(x, flags, h)
                 /\ ~disturbed => \A f \in flags : HeldByHand(f, h)
        <2>1. Owned(lab, flags, hand, trial, disturbed) /\ lab.pc = "idle"
            BY <1>9 DEF LabInv, PrepareByHand
        <2>2. \A f \in flags : Held(f, h, trial)
            BY <1>8, <2>1 DEF Owned, Held
        <2>3. ~disturbed => \A f \in flags : HeldByHand(f, h)
            BY <1>8, <2>1 DEF Owned, Undisturbed
        <2>4. HandKeeps(x, flags, h)
            <3>1. \A i \in DOMAIN h : i \in DOMAIN hand \/ h[i] = r
                BY <1>5
            <3>2. r.status # "injected" /\ r.class \notin r.original
                BY <1>3
            <3>3. x.pc \notin InCase
                BY DEF InCase
            <3>4. QED
                BY <1>5, <2>1, <3>1, <3>2, <3>3 DEF Owned, HandKeeps
        <2>5. QED
            BY <2>2, <2>3, <2>4
    <1>10. QED
        BY <1>1, <1>5, <1>6, <1>7, <1>9 DEF HandLeaves

\* The write of the injection, confirmed or not.
LEMMA InjectLeaves ==
    ASSUME LabInv, InjectByHand, NEW x, x = lab', x.pc = "idle"
    PROVE  HandLeaves(x, flags', hand')
    <1>1. /\ hand \in Seq(HandRecord) /\ flags \in SUBSET Classes
          /\ Pending(flags, hand) /\ lab.pc = "hand" /\ UNCHANGED <<crossed, disturbed>>
        BY DEF LabInv, LabTypes, InjectByHand
    <1>2. PICK n \in DOMAIN hand : n = Len(hand)
        BY <1>1, HandFacts DEF Pending
    <1>3. /\ hand[n] \in HandRecord /\ hand[n].status = "prepared" /\ hand[n].original = flags
          /\ \A i \in DOMAIN hand : ~(i > n)
        BY <1>1, <1>2, HandFacts DEF Pending
    <1>4. PICK g \in Classes : g = hand[n].class
        BY <1>3 DEF HandRecord
    <1>5. PICK F, h : F = flags' /\ h = hand'
        OBVIOUS
    <1>6. F \in {flags, flags \cup {g}} /\ F \in SUBSET Classes /\ flags \subseteq F
        BY <1>1, <1>2, <1>3, <1>4, <1>5 DEF InjectByHand
    <1>7. h = hand \/ h = [hand EXCEPT ![n].status = "injected"]
        BY <1>2, <1>5 DEF InjectByHand
    <1>8. /\ h \in Seq(HandRecord) /\ DOMAIN h = DOMAIN hand
          /\ h[n].class = g /\ h[n].original = flags /\ Open(h[n])
          /\ \A i \in DOMAIN hand : i # n => h[i] = hand[i]
        <2>1. CASE h = hand
            BY <1>1, <1>3, <1>4, <2>1 DEF Open
        <2>2. CASE h = [hand EXCEPT ![n].status = "injected"]
            BY <1>1, <1>3, <1>4, <2>2, NewStatus DEF Open
        <2>3. QED
            BY <1>7, <2>1, <2>2
    <1>9. \A f : HeldByHand(f, hand) => HeldByHand(f, h)
        BY <1>4, <1>8 DEF HeldByHand
    <1>10. HeldByHand(g, h)
        BY <1>8 DEF HeldByHand
    <1>11. ASSUME ~crossed
           PROVE  /\ \A f \in F : Held(f, h, trial)
                  /\ HandKeeps(x, F, h)
                  /\ ~disturbed => \A f \in F : HeldByHand(f, h)
        <2>1. Owned(lab, flags, hand, trial, disturbed)
            BY <1>11 DEF LabInv
        <2>2. \A f \in F : Held(f, h, trial)
            BY <1>6, <1>9, <1>10, <2>1 DEF Owned, Held
        <2>3. ~disturbed => \A f \in F : HeldByHand(f, h)
            BY <1>1, <1>6, <1>9, <1>10, <2>1 DEF Owned, Undisturbed
        <2>4. HandKeeps(x, F, h)
            <3>1. \A i \in DOMAIN hand :
                     /\ hand[i].class \notin hand[i].original
                     /\ hand[i].status = "injected" =>
                           /\ hand[i].original \subseteq flags
                           /\ \A j \in DOMAIN hand : j > i /\ hand[j].status = "injected" =>
                                 hand[i].original \subseteq hand[j].original
                BY <2>1 DEF Owned, HandKeeps
            <3>2. \A i \in DOMAIN h : /\ h[i].class = hand[i].class
                                       /\ h[i].original = hand[i].original
                BY <1>3, <1>4, <1>8
            <3>3. \A i \in DOMAIN h : i # n => h[i].status = hand[i].status
                BY <1>8
            <3>4. \A i \in DOMAIN h : h[i].original \subseteq flags \/ h[i].status # "injected"
                BY <1>3, <1>8, <3>1, <3>2, <3>3
            <3>5. \A i, j \in DOMAIN h :
                     j > i /\ h[i].status = "injected" /\ h[j].status = "injected" =>
                        h[i].original \subseteq h[j].original
                BY <1>3, <1>8, <3>1, <3>2, <3>3, <3>4
            <3>6. x.pc \notin InCase
                BY DEF InCase
            <3>7. QED
                BY <1>6, <1>8, <3>1, <3>2, <3>4, <3>5, <3>6 DEF HandKeeps
        <2>5. QED
            BY <2>2, <2>3, <2>4
    <1>12. QED
        BY <1>1, <1>5, <1>6, <1>8, <1>11 DEF HandLeaves

\* The write of the restoration, confirmed or not, of the last operation that is injected.
LEMMA RestoreLeaves ==
    ASSUME LabInv, RestoreByHand, NEW x, x = lab', x.pc = "idle"
    PROVE  HandLeaves(x, flags', hand')
    <1>1. /\ hand \in Seq(HandRecord) /\ flags \in SUBSET Classes
          /\ lab.pc = "idle" /\ UNCHANGED disturbed
        BY DEF LabInv, LabTypes, RestoreByHand
    <1>2. PICK n \in DOMAIN hand :
            /\ hand[n].status = "injected"
            /\ \/ /\ flags' = hand[n].original
                  /\ hand' = [hand EXCEPT ![n].status = "restored"]
               \/ /\ flags' \in {flags, hand[n].original}
                  /\ UNCHANGED hand
            /\ crossed' = (crossed \/ \E j \in DOMAIN hand : j > n /\ hand[j].status = "injected")
        BY DEF RestoreByHand
    <1>3. hand[n] \in HandRecord /\ n \in Nat /\ \A i \in DOMAIN hand : i \in Nat
        BY <1>1, HandFacts
    <1>4. PICK F, h : F = flags' /\ h = hand'
        OBVIOUS
    <1>5. F \in {flags, hand[n].original} /\ F \in SUBSET Classes
        BY <1>1, <1>2, <1>3, <1>4 DEF HandRecord
    <1>6. \/ h = hand
          \/ F = hand[n].original /\ h = [hand EXCEPT ![n].status = "restored"]
        BY <1>2, <1>4
    <1>7. /\ h \in Seq(HandRecord) /\ DOMAIN h = DOMAIN hand
          /\ h[n].class = hand[n].class /\ h[n].original = hand[n].original
          /\ h = hand \/ (h[n].status = "restored" /\ F = hand[n].original)
          /\ \A i \in DOMAIN hand : i # n => h[i] = hand[i]
        <2>1. CASE h = hand
            BY <1>1, <2>1
        <2>2. CASE F = hand[n].original /\ h = [hand EXCEPT ![n].status = "restored"]
            BY <1>1, <2>2, NewStatus
        <2>3. QED
            BY <1>6, <2>1, <2>2
    <1>8. ASSUME ~crossed'
          PROVE  /\ \A f \in F : Held(f, h, trial)
                 /\ HandKeeps(x, F, h)
                 /\ ~disturbed => \A f \in F : HeldByHand(f, h)
        <2>1. /\ Owned(lab, flags, hand, trial, disturbed)
              /\ \A j \in DOMAIN hand : j > n => hand[j].status # "injected"
            BY <1>2, <1>8 DEF LabInv
        <2>2. /\ hand[n].original \subseteq flags /\ hand[n].class \notin hand[n].original
              /\ F \subseteq flags
            BY <1>2, <1>5, <2>1 DEF Owned, HandKeeps
        <2>3. \A f \in F : HeldByHand(f, hand) => HeldByHand(f, h)
            <3>1. CASE h = hand
                BY <3>1
            <3>2. CASE F = hand[n].original
                BY <1>7, <2>2, <3>2 DEF HeldByHand
            <3>3. QED
                BY <1>7, <3>1, <3>2
        <2>4. \A f \in F : Held(f, h, trial)
            BY <2>1, <2>2, <2>3 DEF Owned, Held
        <2>5. ~disturbed => \A f \in F : HeldByHand(f, h)
            BY <1>1, <2>1, <2>2, <2>3 DEF Owned, Undisturbed
        <2>6. HandKeeps(x, F, h)
            <3>1. \A i \in DOMAIN hand :
                     /\ hand[i].class \notin hand[i].original
                     /\ hand[i].status = "injected" =>
                           /\ hand[i].original \subseteq flags
                           /\ \A j \in DOMAIN hand : j > i /\ hand[j].status = "injected" =>
                                 hand[i].original \subseteq hand[j].original
                BY <2>1 DEF Owned, HandKeeps
            <3>2. \A i \in DOMAIN h :
                     /\ h[i].class = hand[i].class /\ h[i].original = hand[i].original
                     /\ h[i].status = "injected" => hand[i].status = "injected"
                BY <1>7
            <3>3. \A i \in DOMAIN hand : hand[i].status = "injected" =>
                     hand[i].original \subseteq hand[n].original
                BY <1>2, <1>3, <2>1, <3>1
            <3>4. \A i \in DOMAIN h : h[i].status = "injected" => h[i].original \subseteq F
                BY <1>5, <1>7, <3>1, <3>2, <3>3
            <3>5. x.pc \notin InCase
                BY DEF InCase
            <3>6. QED
                BY <1>7, <3>1, <3>2, <3>4, <3>5 DEF HandKeeps
        <2>7. QED
            BY <2>4, <2>5, <2>6
    <1>9. QED
        BY <1>4, <1>5, <1>7, <1>8 DEF HandLeaves

\* Injection by hand: the faults that were on stay on, and stay owned.
LEMMA HandInv ==
    ASSUME LabInv, PrepareByHand \/ InjectByHand \/ RestoreByHand
    PROVE  LabInv'
    <1>1. /\ UNCHANGED <<trial, contract, disturbed>>
          /\ lab.pc \in {"idle", "hand"}
        BY DEF PrepareByHand, InjectByHand, RestoreByHand
    <1>2. lab \in LabRecord /\ Knows(lab, flags) /\ crossed \in BOOLEAN
        BY DEF LabInv, LabTypes
    <1>3. lab.original = {}
        BY <1>1, <1>2 DEF Knows
    <1>4. PICK x, F, h : x = lab' /\ F = flags' /\ h = hand'
        OBVIOUS
    <1>5. x \in LabRecord /\ x.pc \in {"idle", "hand"} /\ x.original = {} /\ HandLeaves(x, F, h)
        <2>1. [AtRest EXCEPT !.pc = "hand"] \in LabRecord
            BY AtRestFacts DEF LabRecord, InCase
        <2>2. PrepareByHand => x.pc = "hand" /\ x.original = {}
            BY <1>4 DEF PrepareByHand, AtRest
        <2>3. CASE PrepareByHand
            BY <1>4, <2>1, <2>2, <2>3, PrepareLeaves DEF PrepareByHand
        <2>4. CASE InjectByHand
            BY <1>4, <2>4, AtRestFacts, InjectLeaves DEF InjectByHand
        <2>5. CASE RestoreByHand
            BY <1>2, <1>3, <1>4, <2>5, RestoreLeaves DEF RestoreByHand
        <2>6. QED
            BY <2>3, <2>4, <2>5
    <1>6. crossed' \in BOOLEAN
        BY <1>2 DEF PrepareByHand, InjectByHand, RestoreByHand
    <1>7. LabTypes'
        BY <1>1, <1>4, <1>5, <1>6 DEF LabInv, LabTypes, HandLeaves
    <1>8. Knows(x, F)
        BY <1>5 DEF Knows, InCase
    <1>9. Knows(lab, flags)'
        BY <1>4, <1>8 DEF Knows, Mutated
    <1>10. ~crossed' => Owned(x, F, h, trial, disturbed)
        BY <1>5 DEF Owned, Undisturbed, HandLeaves
    <1>11. (~crossed => Owned(lab, flags, hand, trial, disturbed))'
        BY <1>1, <1>4, <1>10, SameOwners
    <1>12. (lab.pc \notin InCase)' /\ (lab.pc = "hand" => Pending(flags, hand))'
        BY <1>4, <1>5 DEF InCase, HandLeaves, Pending
    <1>13. QED
        BY <1>7, <1>9, <1>11, <1>12 DEF LabInv

\* A crash forgets the command and nothing else; a new contract is only compared.
LEMMA CrashInv ==
    ASSUME LabInv, Crash \/ ChangeContract
    PROVE  LabInv'
    <1>1. UNCHANGED <<flags, trial, hand, crossed>>
        BY DEF Crash, ChangeContract
    <1>2. CASE Crash
        <2>1. lab' = AtRest /\ disturbed' = TRUE /\ UNCHANGED contract
            BY <1>2 DEF Crash
        <2>2. LabTypes'
            BY <1>1, <2>1, AtRestFacts DEF LabInv, LabTypes
        <2>3. Knows(lab, flags)'
            BY <1>1, <2>1, AtRestFacts DEF Knows, Mutated
        <2>4. lab'.pc = "idle" /\ lab'.original = {}
            BY <2>1, AtRestFacts
        <2>5. ~crossed => HandKeeps(AtRest, flags, hand)
            BY AtRestFacts DEF LabInv, Owned, HandKeeps, InCase
        <2>6. ~crossed => Owned(AtRest, flags, hand, trial, TRUE)
            BY <2>5, AtRestFacts DEF LabInv, Owned
        <2>7. (~crossed => Owned(lab, flags, hand, trial, disturbed))'
            BY <1>1, <2>1, <2>6, SameOwners
        <2>8. QED
            BY <2>1, <2>2, <2>3, <2>4, <2>7 DEF LabInv, InCase
    <1>3. CASE ChangeContract
        <2>1. UNCHANGED <<lab, disturbed>> /\ contract' = contract + 1
            BY <1>3 DEF ChangeContract
        <2>2. LabTypes'
            BY <1>1, <2>1 DEF LabInv, LabTypes
        <2>3. (~crossed => Owned(lab, flags, hand, trial, disturbed))'
            BY <1>1, <2>1, SameOwners DEF LabInv
        <2>4. QED
            BY <1>1, <2>1, <2>2, <2>3 DEF LabInv, Knows, Mutated, Current, Pending
    <1>4. QED
        BY <1>2, <1>3

\* The invariant holds in every reachable state of the lab.
THEOREM LabInvariant == LabSpec => []LabInv
    <1>1. LabInv /\ [LabNext]_labVars => LabInv'
        <2> SUFFICES ASSUME LabInv, [LabNext]_labVars PROVE LabInv'
            OBVIOUS
        <2>1. CASE UNCHANGED labVars
            <3>1. (~crossed => Owned(lab, flags, hand, trial, disturbed))'
                BY <2>1, SameOwners DEF LabInv, labVars
            <3>2. QED
                BY <2>1, <3>1 DEF labVars, LabInv, LabTypes, Knows, Mutated, Current, Pending
        <2>2. CASE \/ \E s \in Suites : StartMatrix(s)
                   \/ InheritCase \/ ReuseCase \/ StopAtCase \/ EndMatrix
            BY <2>2, LoopInv
        <2>3. CASE ReadOriginal \/ Control \/ HealthyWindows
            BY <2>3, BeforeInv
        <2>4. CASE ReadbackInjected \/ ObserveFault \/ ReadbackRestored \/ ObserveRecovery
            BY <2>4, DuringInv
        <2>5. CASE Inject \/ Restore
            BY <2>5, WriteInv
        <2>6. CASE PrepareByHand \/ InjectByHand \/ RestoreByHand
            BY <2>6, HandInv
        <2>7. CASE Crash \/ ChangeContract
            BY <2>7, CrashInv
        <2>8. QED
            BY <2>1, <2>2, <2>3, <2>4, <2>5, <2>6, <2>7, BeginInv, VerdictInv DEF LabNext
    <1>2. QED
        BY <1>1, LabInitInv, PTL DEF LabSpec

(***************************************************************************)
(* A fault that is on has an owner that does not call itself finished, for *)
(* every catalog, any number of operations by hand and however commands    *)
(* crash, lose answers and are rerun, unless operations that overlap were  *)
(* taken back out of order (run_scenario, inject_live_fault).              *)
(***************************************************************************)
THEOREM FaultsAreOwned == LabSpec => []FaultOwned
    <1>1. LabInv => FaultOwned
        BY DEF LabInv, Owned, FaultOwned, ByHand, Held, HeldByHand, HeldByCase, Open
    <1>2. QED
        BY <1>1, LabInvariant, PTL

(***************************************************************************)
(* The finally block puts the document back: between commands only a fault *)
(* injected by hand is on, unless a command was killed, a restoring write  *)
(* was not confirmed or operations by hand were taken back out of order.   *)
(***************************************************************************)
THEOREM DocumentIsRestored == LabSpec => []RestoredUnlessDisturbed
    <1>1. LabInv => RestoredUnlessDisturbed
        BY DEF LabInv, Owned, RestoredUnlessDisturbed, Undisturbed, ByHand, HeldByHand, Open
    <1>2. QED
        BY <1>1, LabInvariant, PTL

(***************************************************************************)
(* Every step that journals a pass does so with the document restored and  *)
(* with exactly the case's own fault having been on (run_scenario).        *)
(***************************************************************************)
THEOREM PassesAreClean == LabSpec => PassedCleanly
    <1>1. LabInv /\ [LabNext]_labVars =>
            [\A s \in Suites, i \in DOMAIN Cases :
                trial[s][i].status # "pass" /\ trial'[s][i].status = "pass" =>
                   /\ flags = lab.original
                   /\ Cases[i] \notin flags
                   /\ lab.found = flags \cup {Cases[i]}]_labVars
        <2> SUFFICES ASSUME LabInv, LabNext, NEW s \in Suites, NEW i \in DOMAIN Cases,
                            trial[s][i].status # "pass", trial'[s][i].status = "pass"
                     PROVE  /\ flags = lab.original
                            /\ Cases[i] \notin flags
                            /\ lab.found = flags \cup {Cases[i]}
            BY DEF labVars
        <2>1. CASE Verdict
            <3>1. PICK r \in CaseRecord :
                    /\ trial' = [trial EXCEPT ![lab.suite][lab.case] = r]
                    /\ r.status = "pass" => /\ flags = lab.original
                                            /\ Cases[lab.case] \notin flags
                                            /\ lab.found = flags \cup {Cases[lab.case]}
                BY <2>1, VerdictFacts
            <3>2. lab.suite \in Suites /\ lab.case \in DOMAIN Cases
                BY <2>1, VerdictFacts
            <3>3. s = lab.suite /\ i = lab.case /\ r.status = "pass"
                BY <3>1, <3>2 DEF LabInv, LabTypes
            <3>4. QED
                BY <3>1, <3>3
        <2>2. CASE BeginCase
            <3>1. trial' = [trial EXCEPT ![lab.suite][lab.case] = Begin(Current, contract)]
                BY <2>2 DEF BeginCase, SetTrial
            <3>2. Begin(Current, contract).status = "running"
                BY DEF Begin
            <3>3. FALSE
                BY <3>1, <3>2 DEF LabInv, LabTypes
            <3>4. QED
                BY <3>3
        <2>3. CASE UNCHANGED trial
            BY <2>3
        <2>4. QED
            BY <2>1, <2>2, <2>3 DEF LabNext, StartMatrix, InheritCase, ReuseCase, StopAtCase,
               EndMatrix, ReadOriginal, Control, HealthyWindows, Inject, ReadbackInjected,
               ObserveFault, Restore, ReadbackRestored, ObserveRecovery, PrepareByHand,
               InjectByHand, RestoreByHand, Crash, ChangeContract
    <1>2. QED
        BY <1>1, LabInvariant, PTL DEF LabSpec, PassedCleanly

-----------------------------------------------------------------------------
(***************************************************************************)
(* The observer.                                                           *)
(***************************************************************************)

ObsRecord ==
    [class : ObservedClasses, v3 : BOOLEAN, prior : BOOLEAN,
     phase : {"control", "window", "fault", "recovery"}, n : Nat \ {0},
     pc : {"call", "reset", "quiesce", "stimulate", "drive", "poll", "inject", "restore", "done",
           "hung"},
     left : Nat, base : Nat, windows : Seq(Nat), samples : Seq(Nat), active : BOOLEAN,
     healthy : BOOLEAN, primary : {"none"} \cup Failures, cleanup : {"none"} \cup Failures]

SutRecord == [on : BOOLEAN, level : Nat \ {0}, errors : BOOLEAN, due : BOOLEAN, acted : BOOLEAN]

(***************************************************************************)
(* The baseline: of the classes that are compared with it, a case with its *)
(* own precondition has one, and the level has not risen above it unless   *)
(* the fault has acted; in version 3 it is a real and attainable reading.  *)
(***************************************************************************)
Baseline(o, s) ==
    /\ ~o.prior /\ o.class \in {"ad", "email"} => o.base > 0 /\ (~s.acted => s.level <= o.base)
    /\ o.v3 => o.base > 0 /\ (o.class = "ad" => o.base <= Quiet)

\* No zero among the readings that were kept.
RealReadings(o) ==
    o.v3 => /\ \A i \in DOMAIN o.windows : o.windows[i] > 0
            /\ \A i \in DOMAIN o.samples : o.samples[i] > 0

\* The flag is off until the fault is injected; once its first call has begun the
\* errors that are looked for are the fault's.
QuietUntilInjected(o, s) ==
    /\ o.v3 => ~o.prior
    /\ o.phase = "fault" /\ ~(o.n = 1 /\ o.pc = "call") => (s.errors => s.acted)
    /\ o.phase = "control" => ~s.on /\ ~s.due

\* A place of the observer belongs to a phase.
Placed(o) ==
    /\ o.pc \in {"reset", "quiesce"} => o.phase = "control"
    /\ o.pc = "inject" => o.phase \in {"control", "window"}
    /\ o.pc = "restore" => o.phase = "fault"
    /\ o.phase = "fault" => o.n <= 2

ObsInv(o, s) ==
    /\ o \in ObsRecord /\ s \in SutRecord
    /\ QuietUntilInjected(o, s) /\ Placed(o) /\ RealReadings(o)
    /\ o.phase # "control" \/ o.pc = "inject" => o.prior \/ Baseline(o, s)
    /\ o.v3 /\ o.class = "ad" => o.base <= Quiet
    /\ o.v3 /\ o.class = "ad" /\ o.phase = "control" /\ o.pc \in {"stimulate", "drive", "poll"} =>
          s.level <= Quiet
    /\ o.phase = "fault" /\ o.n = 2 /\ o.class = "email" => o.samples # <<>>
    /\ (o.pc = "restore" \/ o.phase = "recovery") /\ o.primary = "none" /\ ~o.prior => s.acted

ObserverInv == ObsInv(obs, sut)

\* A measurement starts without a baseline, readings or effects.
LEMMA ObserverInitInv ==
    ASSUME ObserverInit
    PROVE  ObserverInv
    <1>1. PICK c \in ObservedClasses, v3 \in BOOLEAN, prior \in BOOLEAN, e \in BOOLEAN,
               l \in InitialLevels("ad") :
             /\ v3 => ~prior
             /\ sut = [on |-> FALSE, level |-> l, errors |-> e, due |-> FALSE, acted |-> FALSE]
             /\ obs = [class |-> c, v3 |-> v3, prior |-> prior, phase |-> "control", n |-> 1,
                       pc |-> IF prior THEN "inject" ELSE "call", left |-> 0, base |-> 0,
                       windows |-> <<>>, samples |-> <<>>, active |-> TRUE, healthy |-> TRUE,
                       primary |-> "none", cleanup |-> "none"]
        BY Zenon DEF ObserverInit
    <1>2. l \in Nat \ {0}
        BY DEF InitialLevels, Quiet, Residue, Burn
    <1>3. <<>> \in Seq(Nat)
        OBVIOUS
    <1>4. PICK pc \in {"inject", "call"} : pc = IF prior THEN "inject" ELSE "call"
        OBVIOUS
    <1>5. sut \in SutRecord
        BY <1>1, <1>2 DEF SutRecord
    <1>6. obs \in ObsRecord
        BY <1>1, <1>3, <1>4 DEF ObsRecord
    <1>7. /\ obs.class = c /\ obs.v3 = v3 /\ obs.prior = prior /\ obs.phase = "control"
          /\ obs.pc = pc /\ obs.base = 0 /\ obs.windows = <<>> /\ obs.samples = <<>>
          /\ obs.n = 1
        BY <1>1, <1>4
    <1>8. pc = "inject" => prior
        BY <1>4
    <1>9. QuietUntilInjected(obs, sut) /\ Placed(obs)
        BY <1>1, <1>4, <1>7 DEF QuietUntilInjected, Placed
    <1>10. RealReadings(obs)
        BY <1>7 DEF RealReadings
    <1>11. QED
        BY <1>4, <1>5, <1>6, <1>7, <1>8, <1>9, <1>10 DEF ObserverInv, ObsInv, Quiet

\* The level of the system under test stays a level.
LEMMA LevelFacts ==
    ASSUME NEW c, NEW l \in Nat \ {0}
    PROVE  Level(c, l) \in Nat \ {0}
    BY DEF Level, Burn, MinGrowth, MaxLevel, Residue

\* The environment: requests take effect, arrive, and what they left decays.
LEMMA EnvironmentInv ==
    ASSUME ObserverInv, Effect \/ AmbientRequest \/ Decay
    PROVE  ObserverInv'
    <1>1. sut \in SutRecord /\ obs \in ObsRecord /\ UNCHANGED obs
        BY DEF ObserverInv, ObsInv, Effect, AmbientRequest, Decay
    <1>2. PICK l \in Nat \ {0} : l = sut.level
        BY <1>1 DEF SutRecord
    <1>3. CASE Effect
        <2>1. PICK h \in Nat \ {0} : h = Level(obs.class, l)
            BY LevelFacts
        <2>2. PICK y : y = [sut EXCEPT !.due = FALSE, !.acted = TRUE, !.errors = TRUE, !.level = h]
            OBVIOUS
        <2>3. y \in SutRecord /\ y.acted = TRUE /\ y.on = sut.on /\ y.due = FALSE
            BY <1>1, <2>2 DEF SutRecord
        <2>4. sut' = y
            BY <1>2, <1>3, <2>1, <2>2 DEF Effect
        <2>5. obs.phase # "control"
            BY <1>3 DEF Effect, ObserverInv, ObsInv, QuietUntilInjected
        <2>6. QuietUntilInjected(obs, y) /\ (Baseline(obs, sut) => Baseline(obs, y))
            BY <2>3, <2>5 DEF QuietUntilInjected, Baseline, ObserverInv, ObsInv
        <2>7. QED
            BY <1>1, <2>3, <2>4, <2>5, <2>6 DEF ObserverInv, ObsInv
    <1>4. CASE AmbientRequest
        <2>1. PICK y : y = [sut EXCEPT !.due = TRUE]
            OBVIOUS
        <2>2. /\ y \in SutRecord /\ y.on = sut.on /\ y.level = sut.level /\ y.errors = sut.errors
              /\ y.acted = sut.acted
            BY <1>1, <2>1 DEF SutRecord
        <2>3. obs.phase # "control"
            BY <1>4 DEF AmbientRequest, ObserverInv, ObsInv, QuietUntilInjected
        <2>4. QuietUntilInjected(obs, y) /\ (Baseline(obs, sut) => Baseline(obs, y))
            BY <2>2, <2>3 DEF QuietUntilInjected, Baseline, ObserverInv, ObsInv
        <2>5. sut' = y
            BY <1>4, <2>1 DEF AmbientRequest
        <2>6. QED
            BY <1>1, <2>2, <2>3, <2>4, <2>5 DEF ObserverInv, ObsInv
    <1>5. CASE Decay
        <2>1. PICK h \in Nat \ {0} : h <= l /\ h = IF l > Residue THEN Residue ELSE Quiet
            BY <1>2, <1>5 DEF Decay, Residue, Quiet
        <2>2. PICK y : y = [sut EXCEPT !.level = h]
            OBVIOUS
        <2>3. /\ y \in SutRecord /\ y.on = sut.on /\ y.level = h /\ y.errors = sut.errors
              /\ y.acted = sut.acted /\ y.due = sut.due
            BY <1>1, <2>2 DEF SutRecord
        <2>4. sut' = y
            BY <1>2, <1>5, <2>1, <2>2 DEF Decay
        <2>5. PICK b \in Nat : b = obs.base
            BY <1>1 DEF ObsRecord
        <2>6. l <= b => h <= b
            BY <2>1
        <2>7. l <= Quiet => h <= Quiet
            BY <2>1 DEF Quiet
        <2>8. QuietUntilInjected(obs, y) /\ (Baseline(obs, sut) => Baseline(obs, y))
            BY <1>2, <2>3, <2>5, <2>6 DEF QuietUntilInjected, Baseline, ObserverInv, ObsInv
        <2>9. QED
            BY <1>1, <1>2, <2>3, <2>4, <2>7, <2>8 DEF ObserverInv, ObsInv
    <1>6. QED
        BY <1>3, <1>4, <1>5

\* Steps of a call that leave the measurements alone.
LEMMA CallStep ==
    ASSUME ObserverInv, NEW x \in ObsRecord, NEW y \in SutRecord,
           /\ x.class = obs.class /\ x.v3 = obs.v3 /\ x.prior = obs.prior /\ x.phase = obs.phase
           /\ x.n = obs.n /\ x.base = obs.base /\ x.windows = obs.windows
           /\ x.samples = obs.samples /\ x.primary = obs.primary,
           x.pc \in {"reset", "quiesce", "stimulate", "poll", "drive", "done"},
           x.pc \in {"reset", "quiesce"} => x.phase = "control",
           x.v3 /\ x.class = "ad" /\ x.phase = "control" /\ x.pc \in {"stimulate", "drive", "poll"} =>
              y.level <= Quiet,
           y.level = sut.level \/ (y.level = Quiet /\ x.phase = "control"),
           y.acted = sut.acted, y.on = sut.on,
           y.due => sut.due \/ sut.on, y.errors => sut.errors,
           obs.phase = "fault" /\ obs.n = 1 /\ obs.pc = "call" => ~y.errors,
           obs.pc \notin {"inject", "restore"},
           obs' = x, sut' = y
    PROVE  ObserverInv'
    <1>1. QuietUntilInjected(x, y) /\ Placed(x) /\ RealReadings(x)
        BY DEF ObserverInv, ObsInv, QuietUntilInjected, Placed, RealReadings
    <1>2. x.phase # "control" => x.prior \/ Baseline(x, y)
        BY DEF ObserverInv, ObsInv, Baseline
    <1>3. QED
        BY <1>1, <1>2 DEF ObserverInv, ObsInv

\* A failed call ends the trial or, during the fault, leads to the cleanup.
LEMMA FailedInv ==
    ASSUME ObserverInv, NEW y \in SutRecord, NEW kind \in Failures, Fail(kind), sut' = y,
           y.level = sut.level, y.acted = sut.acted, y.on = sut.on,
           y.due => sut.due \/ sut.on, y.errors => sut.errors,
           obs.pc \notin {"inject", "restore", "call"}
    PROVE  ObserverInv'
    <1>1. obs \in ObsRecord /\ kind # "none"
        BY DEF ObserverInv, ObsInv, Failures
    <1>2. CASE obs.phase = "recovery"
        <2>1. PICK x : x = [obs EXCEPT !.pc = "done", !.cleanup = kind]
            OBVIOUS
        <2>2. /\ x \in ObsRecord /\ x.pc = "done"
              /\ x.class = obs.class /\ x.v3 = obs.v3 /\ x.prior = obs.prior /\ x.phase = obs.phase
              /\ x.n = obs.n /\ x.base = obs.base /\ x.windows = obs.windows
              /\ x.samples = obs.samples /\ x.primary = obs.primary
            BY <1>1, <2>1 DEF ObsRecord
        <2>3. obs' = x
            BY <1>2, <2>1 DEF Fail, AfterFailure
        <2>4. QED
            BY <2>2, <2>3, CallStep
    <1>3. CASE obs.phase # "recovery"
        <2>1. PICK pc \in {"restore", "done"} : pc = IF obs.phase = "fault" THEN "restore" ELSE "done"
            OBVIOUS
        <2>2. PICK x : x = [obs EXCEPT !.pc = pc, !.primary = kind]
            OBVIOUS
        <2>3. /\ x \in ObsRecord /\ x.pc = pc /\ x.primary = kind
              /\ x.class = obs.class /\ x.v3 = obs.v3 /\ x.prior = obs.prior /\ x.phase = obs.phase
              /\ x.n = obs.n /\ x.base = obs.base /\ x.windows = obs.windows
              /\ x.samples = obs.samples
            BY <1>1, <2>2 DEF ObsRecord
        <2>4. obs' = x
            BY <1>3, <2>1, <2>2 DEF Fail, AfterFailure
        <2>5. QuietUntilInjected(x, y) /\ Placed(x) /\ RealReadings(x)
            BY <2>1, <2>3 DEF ObserverInv, ObsInv, QuietUntilInjected, Placed, RealReadings
        <2>6. x.phase # "control" => x.prior \/ Baseline(x, y)
            BY <2>3 DEF ObserverInv, ObsInv, Baseline
        <2>7. QED
            BY <1>1, <1>3, <2>1, <2>3, <2>4, <2>5, <2>6 DEF ObserverInv, ObsInv
    <1>4. QED
        BY <1>2, <1>3

\* What holds of an observation o on which a call returns.
Returning(o, s) ==
    /\ o \in ObsRecord /\ s \in SutRecord
    /\ QuietUntilInjected(o, s) /\ RealReadings(o)
    /\ o.prior \/ Baseline(o, s)
    /\ o.phase = "fault" =>
          /\ s.errors => s.acted
          /\ o.n <= 2
          /\ o.class = "email" => o.samples # <<>>
          /\ o.n = 2 /\ o.active /\ ~o.prior => s.acted
    /\ o.phase = "recovery" /\ o.primary = "none" /\ ~o.prior => s.acted

\* A call that returns: the next call, the next phase or the verdict.
LEMMA ReturnsInv ==
    ASSUME NEW o, Returning(o, sut), Returns(o), UNCHANGED sut
    PROVE  ObserverInv'
    <1>1. o \in ObsRecord /\ sut \in SutRecord /\ (o.v3 => ~o.prior)
        BY DEF Returning, QuietUntilInjected
    <1>2. o.v3 /\ o.class = "ad" => o.base <= Quiet
        BY <1>1 DEF Returning, Baseline
    <1>3. ASSUME NEW x \in ObsRecord, obs' = x,
                 /\ x.class = o.class /\ x.v3 = o.v3 /\ x.prior = o.prior
                 /\ x.base = o.base /\ x.windows = o.windows /\ x.samples = o.samples,
                 x.phase \in {"control", "fault"} => o.phase = x.phase,
                 x.pc \in {"call", "inject", "restore", "done"}, Placed(x),
                 x.phase = "fault" /\ x.n = 2 /\ x.class = "email" => x.samples # <<>>,
                 (x.pc = "restore" \/ x.phase = "recovery") /\ x.primary = "none" /\ ~x.prior =>
                    sut.acted
          PROVE  ObserverInv'
        <2>1. QuietUntilInjected(x, sut) /\ RealReadings(x)
            BY <1>3 DEF Returning, QuietUntilInjected, RealReadings
        <2>2. x.prior \/ Baseline(x, sut)
            BY <1>3 DEF Returning, Baseline
        <2>3. QED
            BY <1>1, <1>2, <1>3, <2>1, <2>2 DEF ObserverInv, ObsInv
    <1>4. PICK n \in Nat \ {0}, w \in Nat : n = o.n /\ w = CallsOf(o.phase)
        BY <1>1, ObserverAssumption DEF ObsRecord, CallsOf
    <1>5. CASE n < w
        <2>1. PICK x : x = [o EXCEPT !.n = n + 1, !.pc = "call"]
            OBVIOUS
        <2>2. n + 1 \in Nat \ {0}
            BY <1>4
        <2>3. /\ x \in ObsRecord /\ x.class = o.class /\ x.v3 = o.v3 /\ x.prior = o.prior
              /\ x.phase = o.phase /\ x.n = n + 1 /\ x.pc = "call" /\ x.primary = o.primary
              /\ x.base = o.base /\ x.windows = o.windows /\ x.samples = o.samples
            BY <1>1, <2>1, <2>2 DEF ObsRecord
        <2>4. obs' = x
            BY <1>4, <1>5, <2>1 DEF Returns
        <2>5. Placed(x)
            BY <1>4, <1>5, <2>3 DEF Placed, CallsOf
        <2>6. QED
            BY <1>3, <2>3, <2>4, <2>5 DEF Returning
    <1>6. CASE ~(n < w) /\ o.phase = "control" /\ o.v3 /\ Windows > 0
        <2>1. PICK x : x = [o EXCEPT !.phase = "window", !.n = 1, !.pc = "call"]
            OBVIOUS
        <2>2. /\ x \in ObsRecord /\ x.class = o.class /\ x.v3 = o.v3 /\ x.prior = o.prior
              /\ x.phase = "window" /\ x.n = 1 /\ x.pc = "call"
              /\ x.base = o.base /\ x.windows = o.windows /\ x.samples = o.samples
            <3>1. PICK one \in Nat \ {0} : one = 1
                OBVIOUS
            <3>2. x = [o EXCEPT !.phase = "window", !.n = one, !.pc = "call"]
                BY <2>1, <3>1
            <3>3. QED
                BY <1>1, <3>1, <3>2 DEF ObsRecord
        <2>3. obs' = x
            BY <1>4, <1>6, <2>1 DEF Returns
        <2>4. QED
            BY <1>3, <2>2, <2>3 DEF Placed
    <1>7. CASE /\ ~(n < w) /\ o.phase \in {"control", "window"}
               /\ ~(o.phase = "control" /\ o.v3 /\ Windows > 0)
        <2>1. PICK x : x = [o EXCEPT !.pc = "inject"]
            OBVIOUS
        <2>2. /\ x \in ObsRecord /\ x.class = o.class /\ x.v3 = o.v3 /\ x.prior = o.prior
              /\ x.phase = o.phase /\ x.pc = "inject"
              /\ x.base = o.base /\ x.windows = o.windows /\ x.samples = o.samples
            BY <1>1, <2>1 DEF ObsRecord
        <2>3. obs' = x
            BY <1>4, <1>7, <2>1 DEF Returns
        <2>4. QED
            BY <1>3, <1>7, <2>2, <2>3 DEF Placed
    <1>8. CASE ~(n < w) /\ o.phase = "fault"
        <2>1. PICK p \in {"none", "metric"} : p = IF o.active THEN "none" ELSE "metric"
            OBVIOUS
        <2>2. PICK x : x = [o EXCEPT !.pc = "restore", !.primary = p]
            OBVIOUS
        <2>3. /\ x \in ObsRecord /\ x.class = o.class /\ x.v3 = o.v3 /\ x.prior = o.prior
              /\ x.phase = "fault" /\ x.n = n /\ x.pc = "restore" /\ x.primary = p
              /\ x.base = o.base /\ x.windows = o.windows /\ x.samples = o.samples
            BY <1>1, <1>4, <1>8, <2>1, <2>2 DEF ObsRecord, Failures
        <2>4. obs' = x
            BY <1>4, <1>8, <2>1, <2>2 DEF Returns
        <2>5. n = 2
            BY <1>4, <1>8 DEF Returning, CallsOf
        <2>6. p = "none" /\ ~o.prior => sut.acted
            BY <1>4, <1>8, <2>1, <2>5 DEF Returning
        <2>7. QED
            BY <1>3, <1>8, <2>3, <2>4, <2>5, <2>6 DEF Placed, Returning
    <1>9. CASE ~(n < w) /\ o.phase = "recovery"
        <2>1. PICK p \in {"none", "metric"} : p = IF o.healthy THEN "none" ELSE "metric"
            OBVIOUS
        <2>2. PICK x : x = [o EXCEPT !.pc = "done", !.cleanup = p]
            OBVIOUS
        <2>3. /\ x \in ObsRecord /\ x.class = o.class /\ x.v3 = o.v3 /\ x.prior = o.prior
              /\ x.phase = "recovery" /\ x.pc = "done" /\ x.primary = o.primary
              /\ x.base = o.base /\ x.windows = o.windows /\ x.samples = o.samples
            BY <1>1, <1>9, <2>1, <2>2 DEF ObsRecord, Failures
        <2>4. obs' = x
            BY <1>4, <1>9, <2>1, <2>2 DEF Returns
        <2>5. QED
            BY <1>3, <1>9, <2>3, <2>4 DEF Placed, Returning
    <1>10. o.phase \in {"control", "window", "fault", "recovery"}
        BY <1>1 DEF ObsRecord
    <1>11. QED
        BY <1>5, <1>6, <1>7, <1>8, <1>9, <1>10

\* The start of a call, its requests, and the reset of the email pod.
LEMMA RequestInv ==
    ASSUME ObserverInv, StartCall \/ Stimulate \/ ResetEmail
    PROVE  ObserverInv'
    <1>1. obs \in ObsRecord /\ sut \in SutRecord
        BY DEF ObserverInv, ObsInv
    <1>2. CASE StartCall
        <2>1. PICK pc \in {"reset", "quiesce", "stimulate", "poll"} :
                 /\ pc = CASE obs.phase = "control" /\ obs.class = "email" -> "reset"
                           [] obs.phase = "control" /\ obs.class = "ad" ->
                                IF obs.v3 THEN "quiesce" ELSE "stimulate"
                           [] obs.phase = "fault" /\ (obs.n = 1 \/ obs.class \in {"ad", "email"}) ->
                                "stimulate"
                           [] obs.phase = "recovery" /\ obs.n = 1 /\ obs.class \in {"ad", "email"} ->
                                "stimulate"
                           [] OTHER -> "poll"
                 /\ pc \in {"reset", "quiesce"} => obs.phase = "control"
                 /\ obs.v3 /\ obs.class = "ad" /\ obs.phase = "control" => pc = "quiesce"
            OBVIOUS
        <2>2. PICK x : x = [obs EXCEPT !.pc = pc, !.left = Polls]
            OBVIOUS
        <2>3. obs' = x
            BY <1>1, <1>2, <2>1, <2>2 DEF StartCall, Poll, ObsRecord
        <2>4. PICK y \in SutRecord :
                 /\ sut' = y /\ y.level = sut.level /\ y.acted = sut.acted /\ y.on = sut.on
                 /\ y.due = sut.due /\ (y.errors => sut.errors)
                 /\ obs.phase = "fault" /\ obs.n = 1 => ~y.errors
            <3>1. PICK z : z = [sut EXCEPT !.errors = FALSE]
                OBVIOUS
            <3>2. /\ z \in SutRecord /\ z.level = sut.level /\ z.acted = sut.acted /\ z.on = sut.on
                  /\ z.due = sut.due /\ z.errors = FALSE
                BY <1>1, <3>1 DEF SutRecord
            <3>3. sut' = IF obs.phase = "fault" /\ obs.n = 1 THEN z ELSE sut
                BY <1>2, <3>1 DEF StartCall, FaultStarted
            <3>4. QED
                BY <1>1, <3>2, <3>3
        <2>5. obs.pc \notin {"inject", "restore"}
            BY <1>2 DEF StartCall
        <2>6. /\ x \in ObsRecord /\ x.pc = pc
              /\ x.class = obs.class /\ x.v3 = obs.v3 /\ x.prior = obs.prior
              /\ x.phase = obs.phase /\ x.n = obs.n /\ x.base = obs.base
              /\ x.windows = obs.windows /\ x.samples = obs.samples /\ x.primary = obs.primary
            BY <1>1, <2>1, <2>2, ObserverAssumption DEF ObsRecord
        <2>7. QED
            BY <2>1, <2>3, <2>4, <2>5, <2>6, CallStep
    <1>3. PICK s \in SutRecord :
             /\ s = Sent /\ s.level = sut.level /\ s.acted = sut.acted /\ s.on = sut.on
             /\ s.errors = sut.errors /\ (s.due => sut.due \/ sut.on)
        <2>1. PICK d \in BOOLEAN : d = (sut.due \/ sut.on)
            OBVIOUS
        <2>2. Sent = [sut EXCEPT !.due = d]
            BY <1>1, <2>1 DEF Sent, SutRecord
        <2>3. QED
            BY <1>1, <2>1, <2>2 DEF SutRecord
    <1>4. CASE Stimulate
        <2>1. obs.pc \in {"stimulate", "drive"}
            BY <1>4 DEF Stimulate
        <2>2. CASE \E kind \in Failures : Fail(kind) /\ sut' \in {sut, s}
            <3>1. PICK kind \in Failures : Fail(kind) /\ sut' \in {sut, s}
                BY <2>2
            <3>2. PICK y \in SutRecord :
                     /\ sut' = y /\ y.level = sut.level /\ y.acted = sut.acted /\ y.on = sut.on
                     /\ (y.due => sut.due \/ sut.on) /\ (y.errors => sut.errors)
                BY <1>1, <1>3, <3>1
            <3>3. QED
                BY <2>1, <3>1, <3>2, FailedInv
        <2>3. CASE sut' = s /\ obs' = IF obs.pc = "drive" THEN [obs EXCEPT !.pc = "poll"] ELSE Poll(obs)
            <3>1. PICK left \in Nat : left = IF obs.pc = "drive" THEN obs.left ELSE Polls
                BY <1>1, ObserverAssumption DEF ObsRecord
            <3>2. PICK x : x = [obs EXCEPT !.pc = "poll", !.left = left]
                OBVIOUS
            <3>3. obs' = x
                BY <1>1, <2>3, <3>1, <3>2 DEF Poll, ObsRecord
            <3>4. obs.v3 /\ obs.class = "ad" /\ obs.phase = "control" => sut.level <= Quiet
                BY <2>1 DEF ObserverInv, ObsInv
            <3>5. /\ x \in ObsRecord /\ x.pc = "poll"
                  /\ x.class = obs.class /\ x.v3 = obs.v3 /\ x.prior = obs.prior
                  /\ x.phase = obs.phase /\ x.n = obs.n /\ x.base = obs.base
                  /\ x.windows = obs.windows /\ x.samples = obs.samples
                  /\ x.primary = obs.primary
                BY <1>1, <3>2 DEF ObsRecord
            <3>6. QED
                BY <1>3, <2>1, <2>3, <3>3, <3>4, <3>5, CallStep
        <2>4. QED
            BY <1>3, <1>4, <2>2, <2>3 DEF Stimulate
    <1>5. CASE ResetEmail
        <2>1. obs.pc = "reset" /\ obs.phase = "control"
            BY <1>5 DEF ResetEmail, ObserverInv, ObsInv, Placed
        <2>2. CASE \E kind \in Failures : Fail(kind) /\ UNCHANGED sut
            <3>1. PICK kind \in Failures : Fail(kind) /\ UNCHANGED sut
                BY <2>2
            <3>2. QED
                BY <1>1, <2>1, <3>1, FailedInv
        <2>3. CASE sut' = [sut EXCEPT !.level = Quiet] /\ obs' = Poll(obs)
            <3>1. PICK y : y = [sut EXCEPT !.level = Quiet]
                OBVIOUS
            <3>2. /\ y \in SutRecord /\ y.level = Quiet /\ y.acted = sut.acted /\ y.on = sut.on
                  /\ y.due = sut.due /\ y.errors = sut.errors
                BY <1>1, <3>1 DEF SutRecord, Quiet
            <3>3. PICK x : x = [obs EXCEPT !.pc = "poll", !.left = Polls]
                OBVIOUS
            <3>4. obs' = x /\ sut' = y
                BY <2>3, <3>1, <3>3 DEF Poll
            <3>5. /\ x \in ObsRecord /\ x.pc = "poll"
                  /\ x.class = obs.class /\ x.v3 = obs.v3 /\ x.prior = obs.prior
                  /\ x.phase = obs.phase /\ x.n = obs.n /\ x.base = obs.base
                  /\ x.windows = obs.windows /\ x.samples = obs.samples
                  /\ x.primary = obs.primary
                BY <1>1, <3>3, ObserverAssumption DEF ObsRecord
            <3>6. y.level <= Quiet
                BY <3>2 DEF Quiet
            <3>7. QED
                BY <2>1, <3>2, <3>4, <3>5, <3>6, CallStep
        <2>4. QED
            BY <1>5, <2>2, <2>3 DEF ResetEmail
    <1>6. QED
        BY <1>2, <1>4, <1>5

\* A poll that fails, waits or ends the wait for a series.
LEMMA PollGoesOn ==
    ASSUME ObserverInv, obs.pc \in {"poll", "quiesce"}, UNCHANGED sut,
           \/ \E kind \in Failures : Fail(kind)
           \/ \E drive \in BOOLEAN : ~Late /\ Wait(drive) /\ (drive => obs.pc = "poll")
    PROVE  ObserverInv'
    <1>1. obs \in ObsRecord /\ sut \in SutRecord
        BY DEF ObserverInv, ObsInv
    <1>2. CASE \E kind \in Failures : Fail(kind)
        <2>1. PICK kind \in Failures : Fail(kind)
            BY <1>2
        <2>2. QED
            BY <1>1, <2>1, FailedInv
    <1>3. CASE \E drive \in BOOLEAN : ~Late /\ Wait(drive) /\ (drive => obs.pc = "poll")
        <2>1. PICK drive \in BOOLEAN : ~Late /\ Wait(drive) /\ (drive => obs.pc = "poll")
            BY <1>3
        <2>2. PICK left \in Nat : left = obs.left - 1
            BY <1>1, <2>1 DEF Late, ObsRecord
        <2>3. PICK pc \in {"poll", "quiesce", "drive"} :
                 /\ pc = IF drive THEN "drive" ELSE obs.pc
                 /\ pc = "quiesce" => obs.pc = "quiesce"
                 /\ pc # "quiesce" => obs.pc = "poll"
            BY <1>1, <2>1
        <2>4. PICK x : x = [obs EXCEPT !.pc = pc, !.left = left]
            OBVIOUS
        <2>5. /\ x \in ObsRecord /\ x.pc = pc
              /\ x.class = obs.class /\ x.v3 = obs.v3 /\ x.prior = obs.prior
              /\ x.phase = obs.phase /\ x.n = obs.n /\ x.base = obs.base
              /\ x.windows = obs.windows /\ x.samples = obs.samples /\ x.primary = obs.primary
            BY <1>1, <2>3, <2>4 DEF ObsRecord
        <2>6. obs' = x
            <3>1. PICK q, k : q = (IF drive THEN "drive" ELSE obs.pc) /\ k = obs.left - 1
                OBVIOUS
            <3>2. obs' = [obs EXCEPT !.left = k, !.pc = q]
                BY ONLY <2>1, <3>1 DEF Wait
            <3>3. q = pc /\ k = left
                BY <2>2, <2>3, <3>1
            <3>4. QED
                BY <1>1, <2>4, <3>2, <3>3 DEF ObsRecord
        <2>7. /\ pc = "quiesce" => obs.phase = "control"
              /\ obs.v3 /\ obs.class = "ad" /\ obs.phase = "control" /\ pc # "quiesce" =>
                    sut.level <= Quiet
            BY <2>3 DEF ObserverInv, ObsInv, Placed
        <2>8. QED
            BY <1>1, <2>3, <2>5, <2>6, <2>7, CallStep
    <1>4. QED
        BY <1>2, <1>3

\* A reading is the level, or 0 where a series is missing.
LEMMA ReadingFacts ==
    ASSUME ObserverInv, NEW gap \in BOOLEAN
    PROVE  /\ Reading(gap) \in Nat /\ Reading(gap) <= sut.level
           /\ ~gap => Reading(gap) = sut.level /\ Reading(gap) > 0
           /\ gap => Reading(gap) = 0
           /\ obs.v3 /\ ~Absent(gap) => ~gap
    BY DEF ObserverInv, ObsInv, SutRecord, Reading, Absent

\* The wait of the ad class for a quiescent pod.
LEMMA QuiescenceInv ==
    ASSUME ObserverInv, AwaitQuiescence
    PROVE  ObserverInv'
    <1>1. obs \in ObsRecord /\ sut \in SutRecord /\ obs.pc = "quiesce" /\ UNCHANGED sut
        BY DEF ObserverInv, ObsInv, AwaitQuiescence
    <1>2. PICK gap \in BOOLEAN : IF ~Absent(gap) /\ Quiescent(Reading(gap))
                                 THEN obs' = [obs EXCEPT !.pc = "stimulate"]
                                 ELSE WaitForSeries(FALSE)
        BY DEF AwaitQuiescence
    <1>3. CASE ~Absent(gap) /\ Quiescent(Reading(gap))
        <2>1. PICK x : x = [obs EXCEPT !.pc = "stimulate"]
            OBVIOUS
        <2>2. /\ x \in ObsRecord /\ x.pc = "stimulate"
              /\ x.class = obs.class /\ x.v3 = obs.v3 /\ x.prior = obs.prior
              /\ x.phase = obs.phase /\ x.n = obs.n /\ x.base = obs.base
              /\ x.windows = obs.windows /\ x.samples = obs.samples /\ x.primary = obs.primary
            BY <1>1, <2>1 DEF ObsRecord
        <2>3. obs.v3 => sut.level <= Quiet
            BY <1>3, ReadingFacts DEF Quiescent
        <2>4. obs' = x
            BY <1>2, <1>3, <2>1
        <2>5. QED
            BY <1>1, <2>2, <2>3, <2>4, CallStep
    <1>4. CASE ~(~Absent(gap) /\ Quiescent(Reading(gap)))
        <2>1. WaitForSeries(FALSE)
            BY <1>2, <1>4
        <2>2. "infra" \in Failures
            BY DEF Failures
        <2>3. QED
            BY <1>1, <2>1, <2>2, PollGoesOn DEF WaitForSeries
    <1>5. QED
        BY <1>3, <1>4

\* The poll for the precondition: the reading becomes the baseline.
LEMMA ControlPollInv ==
    ASSUME ObserverInv, ControlPoll
    PROVE  ObserverInv'
    <1>1. /\ obs \in ObsRecord /\ sut \in SutRecord /\ obs.pc = "poll" /\ obs.phase = "control"
          /\ UNCHANGED sut
        BY DEF ObserverInv, ObsInv, ControlPoll
    <1>2. PICK gap \in BOOLEAN, well \in BOOLEAN :
             IF well /\ ~Absent(gap) /\ (obs.class \in {"ad", "email"} => Reading(gap) > 0)
             THEN Returns(Controlled(Reading(gap)))
             ELSE IF Late THEN Fail("metric") ELSE Wait(FALSE)
        BY Zenon DEF ControlPoll
    <1>3. PICK r \in Nat : r = Reading(gap)
        BY ReadingFacts
    <1>4. CASE well /\ ~Absent(gap) /\ (obs.class \in {"ad", "email"} => r > 0)
        <2>1. PICK o : o = [obs EXCEPT !.base = r]
            OBVIOUS
        <2>2. /\ o \in ObsRecord /\ o.pc = "poll" /\ o.base = r
              /\ o.class = obs.class /\ o.v3 = obs.v3 /\ o.prior = obs.prior
              /\ o.phase = "control" /\ o.n = obs.n
              /\ o.windows = obs.windows /\ o.samples = obs.samples /\ o.primary = obs.primary
            BY <1>1, <2>1 DEF ObsRecord
        <2>3. Returns(o)
            BY <1>2, <1>3, <1>4, <2>1 DEF Controlled
        <2>4. QuietUntilInjected(o, sut) /\ RealReadings(o)
            BY <1>1, <2>2 DEF ObserverInv, ObsInv, QuietUntilInjected, RealReadings
        <2>5. obs.v3 => r > 0 /\ r = sut.level
            BY <1>3, <1>4, ReadingFacts
        <2>6. obs.class \in {"ad", "email"} => r > 0 /\ r = sut.level
            BY <1>3, <1>4, ReadingFacts
        <2>7. obs.v3 /\ obs.class = "ad" => sut.level <= Quiet
            BY <1>1 DEF ObserverInv, ObsInv
        <2>8. sut.level \in Nat
            BY <1>1 DEF SutRecord
        <2>9. Baseline(o, sut)
            BY <2>2, <2>5, <2>6, <2>7, <2>8 DEF Baseline
        <2>10. Returning(o, sut)
            BY <1>1, <2>2, <2>4, <2>9 DEF Returning
        <2>11. QED
            BY <1>1, <2>3, <2>10, ReturnsInv
    <1>5. CASE ~(well /\ ~Absent(gap) /\ (obs.class \in {"ad", "email"} => r > 0))
        <2>1. IF Late THEN Fail("metric") ELSE Wait(FALSE)
            BY <1>2, <1>3, <1>5
        <2>2. "metric" \in Failures
            BY DEF Failures
        <2>3. QED
            BY <1>1, <2>1, <2>2, PollGoesOn
    <1>6. QED
        BY <1>4, <1>5

\* A reading appended to readings that are all real.
LEMMA AppendedReading ==
    ASSUME NEW q \in Seq(Nat), NEW r \in Nat
    PROVE  /\ Append(q, r) \in Seq(Nat) /\ Append(q, r) # <<>>
           /\ (\A i \in DOMAIN q : q[i] > 0) /\ r > 0 =>
                 \A i \in DOMAIN Append(q, r) : Append(q, r)[i] > 0
    OBVIOUS

\* The poll for a healthy window.
LEMMA WindowPollInv ==
    ASSUME ObserverInv, WindowPoll
    PROVE  ObserverInv'
    <1>1. /\ obs \in ObsRecord /\ sut \in SutRecord /\ obs.pc = "poll" /\ obs.phase = "window"
          /\ UNCHANGED sut
        BY DEF ObserverInv, ObsInv, WindowPoll
    <1>2. PICK gap \in BOOLEAN, well \in BOOLEAN :
             IF Absent(gap) THEN WaitForSeries(TRUE)
             ELSE IF well THEN Returns([obs EXCEPT !.windows = Append(@, Reading(gap))])
             ELSE Fail("metric")
        BY Zenon DEF WindowPoll
    <1>3. "metric" \in Failures /\ "infra" \in Failures
        BY DEF Failures
    <1>4. CASE ~Absent(gap) /\ well
        <2>1. PICK r \in Nat : r = Reading(gap) /\ (obs.v3 => r > 0)
            BY <1>4, ReadingFacts
        <2>2. PICK q \in Seq(Nat) : q = obs.windows
            BY <1>1 DEF ObsRecord
        <2>3. PICK w \in Seq(Nat) : w = Append(q, r)
            BY AppendedReading
        <2>4. PICK o : o = [obs EXCEPT !.windows = w]
            OBVIOUS
        <2>5. /\ o \in ObsRecord /\ o.windows = w
              /\ o.class = obs.class /\ o.v3 = obs.v3 /\ o.prior = obs.prior
              /\ o.phase = "window" /\ o.base = obs.base /\ o.samples = obs.samples
            BY <1>1, <2>4 DEF ObsRecord
        <2>6. Returns(o)
            BY <1>2, <1>4, <2>1, <2>2, <2>3, <2>4
        <2>7. RealReadings(o)
            <3>1. obs.v3 => (\A i \in DOMAIN q : q[i] > 0) /\ r > 0
                BY <2>1, <2>2 DEF ObserverInv, ObsInv, RealReadings
            <3>2. obs.v3 => \A i \in DOMAIN w : w[i] > 0
                BY <2>3, <3>1, AppendedReading
            <3>3. QED
                BY <2>5, <3>2 DEF ObserverInv, ObsInv, RealReadings
        <2>8. QuietUntilInjected(o, sut) /\ (o.prior \/ Baseline(o, sut))
            BY <1>1, <2>5 DEF ObserverInv, ObsInv, QuietUntilInjected, Baseline
        <2>9. QED
            BY <1>1, <2>5, <2>6, <2>7, <2>8, ReturnsInv DEF Returning
    <1>5. CASE Absent(gap)
        <2>1. WaitForSeries(TRUE)
            BY <1>2, <1>5
        <2>2. QED
            BY <1>1, <1>3, <2>1, PollGoesOn DEF WaitForSeries
    <1>6. CASE ~Absent(gap) /\ ~well
        <2>1. Fail("metric")
            BY <1>2, <1>6
        <2>2. QED
            BY <1>1, <1>3, <2>1, PollGoesOn
    <1>7. QED
        BY <1>4, <1>5, <1>6

\* What passes for active has acted in this case.
LEMMA ActiveHasActed ==
    ASSUME ObserverInv, obs.phase = "fault", obs.pc = "poll", ~obs.prior, NEW gap \in BOOLEAN,
           Active(Reading(gap))
    PROVE  sut.acted
    <1>1. obs \in ObsRecord /\ sut \in SutRecord /\ Baseline(obs, sut) /\ (sut.errors => sut.acted)
        BY DEF ObserverInv, ObsInv, QuietUntilInjected
    <1>2. PICK r \in Nat, l \in Nat, b \in Nat :
             r = Reading(gap) /\ l = sut.level /\ b = obs.base /\ r <= l
        BY <1>1, ReadingFacts DEF SutRecord, ObsRecord
    <1>3. CASE obs.class = "ad"
        <2>1. r >= Bar
            BY <1>2, <1>3 DEF Active
        <2>2. b > 0 /\ (~sut.acted => l <= b)
            BY <1>1, <1>2, <1>3 DEF Baseline
        <2>3. r > b
            BY <1>2, <2>1, <2>2 DEF Bar, Multiplier, MinCores
        <2>4. QED
            BY <1>2, <2>2, <2>3
    <1>4. CASE obs.class = "email"
        <2>1. r - b >= MinGrowth
            BY <1>2, <1>4 DEF Active
        <2>2. ~sut.acted => l <= b
            BY <1>1, <1>2, <1>4 DEF Baseline
        <2>3. QED
            BY <1>2, <2>1, <2>2 DEF MinGrowth
    <1>5. CASE obs.class \notin {"ad", "email"}
        <2>1. sut.errors
            BY <1>5 DEF Active
        <2>2. QED
            BY <1>1, <2>1
    <1>6. QED
        BY <1>3, <1>4, <1>5

\* The poll for an active fault.
LEMMA FaultPollInv ==
    ASSUME ObserverInv, FaultPoll
    PROVE  ObserverInv'
    <1>1. /\ obs \in ObsRecord /\ sut \in SutRecord /\ obs.pc = "poll" /\ obs.phase = "fault"
          /\ UNCHANGED sut
        BY DEF ObserverInv, ObsInv, FaultPoll
    <1>2. PICK gap \in BOOLEAN :
             IF Absent(gap) THEN WaitForSeries(obs.v3)
             ELSE IF obs.class = "email" /\ obs.samples = <<>> THEN Returns(Kept(Reading(gap)))
             ELSE IF Active(Reading(gap)) THEN Returns(Kept(Reading(gap)))
             ELSE IF Late
             THEN Returns([(IF obs.v3 THEN Kept(Reading(gap)) ELSE obs) EXCEPT !.active = FALSE])
             ELSE Wait(obs.v3)
        BY Zenon DEF FaultPoll
    <1>3. "infra" \in Failures /\ obs.v3 \in BOOLEAN
        BY <1>1 DEF Failures, ObsRecord
    <1>4. CASE Absent(gap)
        <2>1. WaitForSeries(obs.v3)
            BY <1>2, <1>4
        <2>2. QED
            BY <1>1, <1>3, <2>1, PollGoesOn DEF WaitForSeries
    <1>5. ASSUME ~Absent(gap), NEW o, NEW q, Returns(o), o \in ObsRecord, o.samples = q,
                 /\ o.class = obs.class /\ o.v3 = obs.v3 /\ o.prior = obs.prior
                 /\ o.phase = "fault" /\ o.n = obs.n /\ o.base = obs.base
                 /\ o.windows = obs.windows,
                 q = obs.samples \/ q = Append(obs.samples, Reading(gap)),
                 obs.class = "email" => q # <<>>,
                 obs.n = 2 /\ o.active /\ ~obs.prior => sut.acted
          PROVE  ObserverInv'
        <2>1. RealReadings(o)
            <3>1. PICK r \in Nat : r = Reading(gap) /\ (obs.v3 => r > 0)
                BY <1>5, ReadingFacts
            <3>2. PICK z \in Seq(Nat) : z = obs.samples
                BY <1>1 DEF ObsRecord
            <3>3. obs.v3 => (\A i \in DOMAIN z : z[i] > 0) /\ r > 0
                BY <3>1, <3>2 DEF ObserverInv, ObsInv, RealReadings
            <3>4. obs.v3 => \A i \in DOMAIN q : q[i] > 0
                <4>1. CASE q = z
                    BY <3>3, <4>1
                <4>2. CASE q = Append(z, r)
                    BY <3>3, <4>2, AppendedReading
                <4>3. QED
                    BY <1>5, <3>1, <3>2, <4>1, <4>2
            <3>5. QED
                BY <1>5, <3>4 DEF ObserverInv, ObsInv, RealReadings
        <2>2. sut.errors => sut.acted
            BY <1>1 DEF ObserverInv, ObsInv, QuietUntilInjected
        <2>3. QuietUntilInjected(o, sut) /\ (o.prior \/ Baseline(o, sut)) /\ o.n <= 2
            BY <1>1, <1>5, <2>2 DEF ObserverInv, ObsInv, QuietUntilInjected, Baseline, Placed
        <2>4. Returning(o, sut)
            BY <1>1, <1>5, <2>1, <2>2, <2>3 DEF Returning
        <2>5. QED
            BY <1>1, <1>5, <2>4, ReturnsInv
    <1>6. PICK z \in Seq(Nat), r \in Nat, h \in {obs.active} :
            z = obs.samples /\ r = Reading(gap) /\ h = obs.active
        BY <1>1, ReadingFacts DEF ObsRecord
    <1>7. PICK q \in Seq(Nat) : q = Append(z, r) /\ q # <<>>
        BY AppendedReading
    <1>8. h \in BOOLEAN /\ [obs EXCEPT !.samples = q] = [obs EXCEPT !.samples = q, !.active = h]
        BY <1>1, <1>6 DEF ObsRecord
    <1>9. Kept(r) = [obs EXCEPT !.samples = q]
        BY <1>6, <1>7 DEF Kept
    <1>10. CASE ~Absent(gap) /\ obs.class = "email" /\ z = <<>>
        <2>1. obs.n # 2
            BY <1>1, <1>6, <1>10 DEF ObserverInv, ObsInv
        <2>2. Returns(Kept(r))
            BY <1>2, <1>6, <1>10
        <2>3. PICK o : o = [obs EXCEPT !.samples = q, !.active = h]
            OBVIOUS
        <2>4. Returns(o)
            BY <1>8, <1>9, <2>2, <2>3
        <2>5. /\ o \in ObsRecord /\ o.samples = q
              /\ o.class = obs.class /\ o.v3 = obs.v3 /\ o.prior = obs.prior
              /\ o.phase = "fault" /\ o.n = obs.n /\ o.base = obs.base
              /\ o.windows = obs.windows
            BY <1>1, <1>8, <2>3 DEF ObsRecord
        <2>6. QED
            BY <1>5, <1>6, <1>7, <1>10, <2>1, <2>4, <2>5
    <1>11. CASE ~Absent(gap) /\ ~(obs.class = "email" /\ z = <<>>) /\ Active(r)
        <2>1. ~obs.prior => sut.acted
            BY <1>1, <1>6, <1>11, ActiveHasActed
        <2>2. Returns(Kept(r))
            BY <1>2, <1>6, <1>11
        <2>3. PICK o : o = [obs EXCEPT !.samples = q, !.active = h]
            OBVIOUS
        <2>4. Returns(o)
            BY <1>8, <1>9, <2>2, <2>3
        <2>5. /\ o \in ObsRecord /\ o.samples = q
              /\ o.class = obs.class /\ o.v3 = obs.v3 /\ o.prior = obs.prior
              /\ o.phase = "fault" /\ o.n = obs.n /\ o.base = obs.base
              /\ o.windows = obs.windows
            BY <1>1, <1>8, <2>3 DEF ObsRecord
        <2>6. QED
            BY <1>5, <1>6, <1>7, <1>11, <2>1, <2>4, <2>5
    <1>12. CASE ~Absent(gap) /\ ~(obs.class = "email" /\ z = <<>>) /\ ~Active(r) /\ Late
        <2>1. Returns([(IF obs.v3 THEN Kept(r) ELSE obs) EXCEPT !.active = FALSE])
            BY <1>2, <1>6, <1>12
        <2>2. PICK y \in Seq(Nat) : y = IF obs.v3 THEN q ELSE z
            OBVIOUS
        <2>3. PICK o : o = [obs EXCEPT !.samples = y, !.active = FALSE]
            OBVIOUS
        <2>4. o = [(IF obs.v3 THEN Kept(r) ELSE obs) EXCEPT !.active = FALSE]
            BY <1>1, <1>6, <1>9, <2>2, <2>3 DEF ObsRecord
        <2>5. Returns(o)
            BY <2>1, <2>4
        <2>6. obs.class = "email" => y # <<>>
            BY <1>7, <1>12, <2>2
        <2>7. y = obs.samples \/ y = Append(obs.samples, Reading(gap))
            BY <1>6, <1>7, <2>2
        <2>8. /\ o \in ObsRecord /\ o.samples = y /\ ~o.active
              /\ o.class = obs.class /\ o.v3 = obs.v3 /\ o.prior = obs.prior
              /\ o.phase = "fault" /\ o.n = obs.n /\ o.base = obs.base
              /\ o.windows = obs.windows
            BY <1>1, <2>2, <2>3 DEF ObsRecord
        <2>9. QED
            BY <1>5, <1>12, <2>5, <2>6, <2>7, <2>8
    <1>13. CASE ~Absent(gap) /\ ~(obs.class = "email" /\ z = <<>>) /\ ~Active(r) /\ ~Late
        <2>1. Wait(obs.v3)
            BY <1>2, <1>6, <1>13
        <2>2. QED
            BY <1>1, <1>3, <1>13, <2>1, PollGoesOn
    <1>14. QED
        BY <1>4, <1>10, <1>11, <1>12, <1>13

\* The poll for the recovery.
LEMMA RecoveryPollInv ==
    ASSUME ObserverInv, RecoveryPoll
    PROVE  ObserverInv'
    <1>1. /\ obs \in ObsRecord /\ sut \in SutRecord /\ obs.pc = "poll" /\ obs.phase = "recovery"
          /\ UNCHANGED sut
        BY DEF ObserverInv, ObsInv, RecoveryPoll
    <1>2. PICK gap \in BOOLEAN, well \in BOOLEAN :
             IF Absent(gap) THEN WaitForSeries(obs.v3)
             ELSE IF obs.class \in Compared /\ obs.samples = <<>> THEN Fail("error")
             ELSE IF well /\ NotWorse(Reading(gap)) THEN Returns(obs)
             ELSE IF Late THEN Returns([obs EXCEPT !.healthy = FALSE])
             ELSE Wait(obs.v3)
        BY Zenon DEF RecoveryPoll
    <1>3. "infra" \in Failures /\ "error" \in Failures /\ obs.v3 \in BOOLEAN
        BY <1>1 DEF Failures, ObsRecord
    <1>4. PICK x : x = [obs EXCEPT !.healthy = FALSE]
        OBVIOUS
    <1>5. /\ x \in ObsRecord /\ x.class = obs.class /\ x.v3 = obs.v3 /\ x.prior = obs.prior
          /\ x.phase = obs.phase /\ x.base = obs.base /\ x.windows = obs.windows
          /\ x.samples = obs.samples /\ x.primary = obs.primary
        BY <1>1, <1>4 DEF ObsRecord
    <1>6. Returning(obs, sut)
        BY <1>1 DEF ObserverInv, ObsInv, Returning
    <1>7. Returning(x, sut)
        BY <1>1, <1>5, <1>6 DEF Returning, QuietUntilInjected, RealReadings, Baseline
    <1>8. CASE WaitForSeries(obs.v3)
        BY <1>1, <1>3, <1>8, PollGoesOn DEF WaitForSeries
    <1>9. CASE Fail("error")
        BY <1>1, <1>3, <1>9, PollGoesOn
    <1>10. CASE Returns(obs)
        BY <1>1, <1>6, <1>10, ReturnsInv
    <1>11. CASE Returns(x)
        BY <1>1, <1>7, <1>11, ReturnsInv
    <1>12. CASE ~Late /\ Wait(obs.v3)
        BY <1>1, <1>3, <1>12, PollGoesOn
    <1>13. QED
        BY <1>2, <1>4, <1>8, <1>9, <1>10, <1>11, <1>12

\* The runner switches the flag on and off again.
LEMMA SwitchInv ==
    ASSUME ObserverInv, Switch
    PROVE  ObserverInv'
    <1>1. obs \in ObsRecord /\ sut \in SutRecord /\ 1 \in Nat \ {0}
        BY DEF ObserverInv, ObsInv
    <1>2. CASE /\ obs.pc = "inject" /\ sut' = [sut EXCEPT !.on = TRUE]
               /\ obs' = [obs EXCEPT !.pc = "call", !.phase = "fault", !.n = 1]
        <2>1. PICK y : y = [sut EXCEPT !.on = TRUE]
            OBVIOUS
        <2>2. /\ y \in SutRecord /\ y.level = sut.level /\ y.errors = sut.errors
              /\ y.acted = sut.acted
            BY <1>1, <2>1 DEF SutRecord
        <2>3. PICK one \in Nat \ {0} : one = 1
            OBVIOUS
        <2>4. PICK x : x = [obs EXCEPT !.pc = "call", !.phase = "fault", !.n = one]
            OBVIOUS
        <2>5. /\ x \in ObsRecord /\ x.pc = "call" /\ x.phase = "fault" /\ x.n = 1
              /\ x.class = obs.class /\ x.v3 = obs.v3 /\ x.prior = obs.prior
              /\ x.base = obs.base /\ x.windows = obs.windows /\ x.samples = obs.samples
            BY <1>1, <2>3, <2>4 DEF ObsRecord
        <2>6. obs' = x /\ sut' = y
            BY <1>2, <2>1, <2>3, <2>4
        <2>7. QuietUntilInjected(x, y) /\ Placed(x) /\ RealReadings(x)
            BY <2>2, <2>5 DEF ObserverInv, ObsInv, QuietUntilInjected, Placed, RealReadings
        <2>8. x.prior \/ Baseline(x, y)
            BY <1>2, <2>2, <2>5 DEF ObserverInv, ObsInv, Baseline
        <2>9. QED
            BY <2>2, <2>5, <2>6, <2>7, <2>8 DEF ObserverInv, ObsInv
    <1>3. CASE /\ obs.pc = "restore" /\ sut' = [sut EXCEPT !.on = FALSE]
               /\ obs' = [obs EXCEPT !.pc = "call", !.phase = "recovery", !.n = 1]
        <2>1. PICK y : y = [sut EXCEPT !.on = FALSE]
            OBVIOUS
        <2>2. /\ y \in SutRecord /\ y.level = sut.level /\ y.errors = sut.errors
              /\ y.acted = sut.acted
            BY <1>1, <2>1 DEF SutRecord
        <2>3. PICK one \in Nat \ {0} : one = 1
            OBVIOUS
        <2>4. PICK x : x = [obs EXCEPT !.pc = "call", !.phase = "recovery", !.n = one]
            OBVIOUS
        <2>5. /\ x \in ObsRecord /\ x.pc = "call" /\ x.phase = "recovery" /\ x.primary = obs.primary
              /\ x.class = obs.class /\ x.v3 = obs.v3 /\ x.prior = obs.prior
              /\ x.base = obs.base /\ x.windows = obs.windows /\ x.samples = obs.samples
            BY <1>1, <2>3, <2>4 DEF ObsRecord
        <2>6. obs' = x /\ sut' = y
            BY <1>3, <2>1, <2>3, <2>4
        <2>7. QuietUntilInjected(x, y) /\ Placed(x) /\ RealReadings(x)
            BY <2>2, <2>5 DEF ObserverInv, ObsInv, QuietUntilInjected, Placed, RealReadings
        <2>8. x.prior \/ Baseline(x, y)
            BY <1>3, <2>2, <2>5 DEF ObserverInv, ObsInv, Baseline, Placed
        <2>9. x.primary = "none" /\ ~x.prior => y.acted
            BY <1>3, <2>2, <2>5 DEF ObserverInv, ObsInv
        <2>10. x.v3 /\ x.class = "ad" => x.base <= Quiet
            BY <2>5 DEF ObserverInv, ObsInv
        <2>11. ObsInv(x, y)
            BY <2>2, <2>5, <2>7, <2>8, <2>9, <2>10 DEF ObsInv
        <2>12. QED
            BY <2>6, <2>11 DEF ObserverInv
    <1>4. QED
        BY <1>2, <1>3 DEF Switch

\* A remote command that never returns keeps the observer with what it has measured.
HungSoundly ==
    /\ obs.pc = "hung" /\ sut \in SutRecord
    /\ ActiveIsReal
    /\ MeasuresSoundly

MeasureInv == ObserverInv \/ HungSoundly

\* The inductive invariant gives both properties.
LEMMA InvIsSound == ObserverInv => ActiveIsReal /\ MeasuresSoundly
    <1> SUFFICES ASSUME ObserverInv PROVE ActiveIsReal /\ MeasuresSoundly
        OBVIOUS
    <1>1. ActiveIsReal
        BY DEF ObserverInv, ObsInv, ActiveIsReal
    <1>2. obs \in ObsRecord
        BY DEF ObserverInv, ObsInv
    <1>3. obs.v3 => ReadingsReal
        BY DEF ObserverInv, ObsInv, RealReadings, ReadingsReal, Baseline, QuietUntilInjected
    <1>4. obs.v3 /\ obs.class = "ad" => obs.base <= Quiet
        BY DEF ObserverInv, ObsInv
    <1>5. obs.v3 => AttainableBaseline
        BY <1>2, <1>4 DEF AttainableBaseline, ObsRecord, Quiet, Multiplier, Burn
    <1>6. QED
        BY <1>1, <1>3, <1>5 DEF MeasuresSoundly

\* A command that hangs may have done its work, but nothing is judged any more.
LEMMA HangInv ==
    ASSUME ObserverInv, Hang
    PROVE  HungSoundly'
    <1>1. obs \in ObsRecord /\ sut \in SutRecord
        BY DEF ObserverInv, ObsInv
    <1>2. ActiveIsReal /\ MeasuresSoundly
        BY InvIsSound
    <1>3. PICK x : x = [obs EXCEPT !.pc = "hung"]
        OBVIOUS
    <1>4. /\ obs' = x /\ x.pc = "hung"
          /\ x.class = obs.class /\ x.v3 = obs.v3 /\ x.prior = obs.prior /\ x.phase = obs.phase
          /\ x.base = obs.base /\ x.windows = obs.windows /\ x.samples = obs.samples
          /\ x.primary = obs.primary
        BY <1>1, <1>3 DEF Hang, ObsRecord
    <1>5. sut' \in SutRecord /\ sut'.acted = sut.acted
        <2>1. Sent \in SutRecord /\ Sent.acted = sut.acted
            BY <1>1 DEF Sent, SutRecord
        <2>2. /\ [sut EXCEPT !.level = Quiet] \in SutRecord
              /\ [sut EXCEPT !.level = Quiet].acted = sut.acted
            BY <1>1 DEF SutRecord, Quiet
        <2>3. \A b \in BOOLEAN : /\ [sut EXCEPT !.on = b] \in SutRecord
                                  /\ [sut EXCEPT !.on = b].acted = sut.acted
            BY <1>1 DEF SutRecord
        <2>4. PICK b \in BOOLEAN : b = (obs.pc = "inject")
            OBVIOUS
        <2>5. Asked \in SutRecord /\ Asked.acted = sut.acted
            BY <1>1, <2>1, <2>2, <2>3, <2>4 DEF Asked
        <2>6. QED
            BY <1>1, <2>5 DEF Hang
    <1>6. ActiveIsReal'
        BY <1>2, <1>4, <1>5 DEF ActiveIsReal
    <1>7. MeasuresSoundly'
        BY <1>2, <1>4 DEF MeasuresSoundly, ReadingsReal, AttainableBaseline
    <1>8. QED
        BY <1>4, <1>5, <1>6, <1>7 DEF HungSoundly

\* The system under test goes on; the observer does not.
LEMMA HungInv ==
    ASSUME HungSoundly, ObserverNext
    PROVE  HungSoundly'
    <1>1. obs.pc = "hung" /\ ActiveIsReal /\ MeasuresSoundly
        BY DEF HungSoundly
    <1>2. ~Program
        BY <1>1 DEF Program, StartCall, Stimulate, ResetEmail, CollectorFails, AwaitQuiescence,
           ControlPoll, WindowPoll, FaultPoll, RecoveryPoll, Switch, Hang
    <1>3. UNCHANGED obs
        BY <1>2 DEF ObserverNext, Effect, AmbientRequest, Decay, Measured, observerVars
    <1>4. sut' \in SutRecord /\ (sut.acted => sut'.acted)
        <2>1. PICK l \in Nat \ {0}, h \in Nat \ {0} : l = sut.level /\ h = Level(obs.class, l)
            BY LevelFacts DEF HungSoundly, SutRecord
        <2>2. CASE Effect
            <3>1. sut' = [sut EXCEPT !.due = FALSE, !.acted = TRUE, !.errors = TRUE, !.level = h]
                BY <2>1, <2>2 DEF Effect
            <3>2. QED
                BY <3>1 DEF HungSoundly, SutRecord
        <2>3. CASE AmbientRequest
            BY <2>3 DEF AmbientRequest, HungSoundly, SutRecord
        <2>4. CASE Decay
            <3>1. PICK k \in Nat \ {0} : k = IF l > Residue THEN Residue ELSE Quiet
                BY DEF Residue, Quiet
            <3>2. sut' = [sut EXCEPT !.level = k]
                BY <2>1, <2>4, <3>1 DEF Decay
            <3>3. QED
                BY <3>2 DEF HungSoundly, SutRecord
        <2>5. CASE UNCHANGED sut
            BY <2>5 DEF HungSoundly
        <2>6. QED
            BY <1>2, <2>2, <2>3, <2>4, <2>5 DEF ObserverNext, Measured, observerVars
    <1>5. QED
        BY <1>1, <1>3, <1>4 DEF HungSoundly, ActiveIsReal, MeasuresSoundly, ReadingsReal,
           AttainableBaseline

(***************************************************************************)
(* The inductive invariant of the observer holds in every behaviour, with  *)
(* requests taking effect late, gaps in the series and failures anywhere;  *)
(* a remote command that hangs leaves it with sound measurements.          *)
(***************************************************************************)
THEOREM ObserverInvariant == ObserverSpec => []MeasureInv
    <1>1. MeasureInv /\ [ObserverNext]_observerVars => MeasureInv'
        <2> SUFFICES ASSUME ObserverInv, ObserverNext PROVE MeasureInv'
            <3>1. UNCHANGED observerVars /\ MeasureInv => MeasureInv'
                BY DEF observerVars, MeasureInv, ObserverInv, HungSoundly, ActiveIsReal,
                   MeasuresSoundly, ReadingsReal, AttainableBaseline
            <3>2. HungSoundly /\ ObserverNext => MeasureInv'
                BY HungInv DEF MeasureInv
            <3>3. QED
                BY <3>1, <3>2 DEF MeasureInv
        <2>1. CASE UNCHANGED observerVars
            BY <2>1 DEF observerVars, ObserverInv, MeasureInv
        <2>2. CASE CollectorFails
            <3>1. PICK kind \in CollectorFailures : Fail(kind)
                BY <2>2 DEF CollectorFails
            <3>2. kind \in Failures
                BY DEF CollectorFailures, Failures
            <3>3. QED
                BY <2>2, <3>1, <3>2, PollGoesOn DEF CollectorFails, MeasureInv
        <2>3. CASE StartCall \/ Stimulate \/ ResetEmail
            BY <2>3, RequestInv DEF MeasureInv
        <2>4. CASE Effect \/ AmbientRequest \/ Decay
            BY <2>4, EnvironmentInv DEF MeasureInv
        <2>5. CASE AwaitQuiescence \/ ControlPoll
            BY <2>5, QuiescenceInv, ControlPollInv DEF MeasureInv
        <2>6. CASE WindowPoll \/ FaultPoll
            BY <2>6, WindowPollInv, FaultPollInv DEF MeasureInv
        <2>7. CASE RecoveryPoll \/ Switch
            BY <2>7, RecoveryPollInv, SwitchInv DEF MeasureInv
        <2>8. CASE Hang
            BY <2>8, HangInv DEF MeasureInv
        <2>9. QED
            BY <2>1, <2>2, <2>3, <2>4, <2>5, <2>6, <2>7, <2>8 DEF ObserverNext, Program, Measured
    <1>2. ObserverInit => MeasureInv
        BY ObserverInitInv DEF MeasureInv
    <1>3. QED
        BY <1>1, <1>2, PTL DEF ObserverSpec

(***************************************************************************)
(* A fault that was judged active has acted in this case, whatever an      *)
(* earlier case left behind (fault_state, __call__).                       *)
(***************************************************************************)
THEOREM ActiveFaultsAreReal == ObserverSpec => []ActiveIsReal
    <1>1. MeasureInv => ActiveIsReal
        BY InvIsSound DEF MeasureInv, HungSoundly
    <1>2. QED
        BY <1>1, ObserverInvariant, PTL

(***************************************************************************)
(* What the metric-v3 observer keeps are real readings, and the baseline   *)
(* of the ad class leaves the fault within reach                           *)
(* (_absent_series_failure, _await_ad_cpu_quiescence).                     *)
(***************************************************************************)
THEOREM MeasurementsAreSound == ObserverSpec => []MeasuresSoundly
    <1>1. MeasureInv => MeasuresSoundly
        BY InvIsSound DEF MeasureInv, HungSoundly
    <1>2. QED
        BY <1>1, ObserverInvariant, PTL
=============================================================================
