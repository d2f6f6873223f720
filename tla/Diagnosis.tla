----------------------------- MODULE Diagnosis ------------------------------
(***************************************************************************)
(* One live trial of the readiness reference and its score: the turns of   *)
(* make_bailian_adapter_v3 with their token budgets, the input bound of    *)
(* the preflight, the rule baseline, and score_result_v3.  Token counts    *)
(* are in units of the instance; a packet, a draft or a request is reduced *)
(* to its size, a diagnosis to its labels and evidence kinds.              *)
(***************************************************************************)
EXTENDS Integers, Sequences, FiniteSetsExt

CONSTANTS
    PacketSizes,        \* sizes of a serialised packet
    SystemSize, CorrectionSize, MaxCompletion, Framing, Template,
    Expansion,          \* tokens of a draft that is written out again per token of its completion
    InputLimit,         \* MAX_CUMULATIVE_INPUT_TOKENS
    OutputLimit,        \* MAX_CUMULATIVE_OUTPUT_TOKENS
    FourTurnLimit,      \* FOUR_TURN_INPUT_LIMIT
    Labels,             \* ROOT_CAUSE_LABELS, as 1..n in lexical order
    Kinds,              \* EVIDENCE_KINDS; "activity" is every label's second kind
    SignalKind,         \* ROOT_SIGNAL_FEATURES: the kind of each label's own signal
    Excesses            \* incident excess over the healthy median, in quanta

ASSUME DiagnosisAssumption ==
    /\ PacketSizes \cup {SystemSize, CorrectionSize, MaxCompletion, Framing, Template} \subseteq Nat
    /\ Expansion \in Nat \ {0}
    /\ SystemSize > 0
    /\ {InputLimit, OutputLimit, FourTurnLimit} \subseteq Nat
    /\ FourTurnLimit < InputLimit
    /\ Labels \subseteq Nat \ {0} /\ IsFiniteSet(Labels)
    /\ Excesses \subseteq Int
    /\ "activity" \in Kinds
    /\ SignalKind \in [Labels -> Kinds \ {"activity"}]

VARIABLES
    talk,   \* the conversation: local variables of invoke
    sheet   \* a diagnosis, the sealed truth of its case, and its score

diagnosisVars == <<talk, sheet>>

-----------------------------------------------------------------------------
(* The score. *)

Unknown == 0

\* ground_truth_v3: what has to be cited is fixed by the label.
Required(label) == {"activity", SignalKind[label]}

ScoreRow(core, top3, class) == [core |-> core, top3 |-> top3, class |-> class]
Failure(class) == ScoreRow(0, 0, class)

\* Mutant: citing more than is required is no mistake.
SupportedLoosely(r, truth) == r.root = truth /\ Required(truth) \subseteq r.evidence

Supported(r, truth) ==
    /\ r.root = truth
    /\ Required(truth) \subseteq r.evidence
    /\ r.evidence \cap (Kinds \ Required(truth)) = {}

ClassV3(r, truth) ==
    IF r.evidence \cap (Kinds \ Required(truth)) # {} THEN "distractor_evidence"
    ELSE IF r.root # truth THEN "wrong_root_cause"
    ELSE IF ~(Required(truth) \subseteq r.evidence) THEN "missing_required_evidence"
    ELSE "none"

\* score_result_v3, in the order of its checks.
ScoreResult(r, truth) ==
    IF ({r.root, r.claim} \cup r.candidates) \ Labels # {} THEN Failure("invalid_label")
    ELSE IF r.claim # r.root \/ r.evidence # r.refs THEN Failure("claim_contract")
    ELSE IF r.evidence \ Kinds # {} THEN Failure("unknown_evidence")
    ELSE ScoreRow(IF Supported(r, truth) THEN 1 ELSE 0,
                IF r.root = truth \/ truth \in r.candidates THEN 1 ELSE 0,
                ClassV3(r, truth))

\* What a model may answer, the schema permitting: any label, any evidence identifiers.
Answers ==
    [root : Labels \cup {Unknown}, claim : Labels \cup {Unknown},
     candidates : SUBSET (Labels \cup {Unknown}),
     evidence : SUBSET (Kinds \cup {"foreign"}), refs : SUBSET (Kinds \cup {"foreign"})]

(***************************************************************************)
(* deterministic_candidates_v3: a label qualifies when the activity of its *)
(* service and its own signal both reach the threshold, which is the p99   *)
(* of the healthy drift plus one quantum.  The weakest excess ranks, then  *)
(* the label.  Thresholds are taken as 1; margins keep their order.        *)
(***************************************************************************)
Qualified(f) == {l \in Labels : f[l].activity >= 1 /\ f[l].signal >= 1}

Weakest(f, l) == IF f[l].activity < f[l].signal THEN f[l].activity ELSE f[l].signal

Ranks(f, a, b) ==
    Weakest(f, a) > Weakest(f, b) \/ (Weakest(f, a) = Weakest(f, b) /\ a <= b)

Best(f) == CHOOSE a \in Qualified(f) : \A b \in Qualified(f) : Ranks(f, a, b)

\* candidates[:3], by rank.
TopThree(f) ==
    {a \in Qualified(f) : Cardinality({b \in Qualified(f) : Ranks(f, b, a)}) <= 3}

\* deterministic_baseline_v3: no candidate is answered with all the evidence there is.
RuleResult(f) ==
    LET root == IF Qualified(f) = {} THEN Unknown ELSE Best(f)
        cited == IF root = Unknown THEN Kinds ELSE Required(root)
    IN  [root |-> root, claim |-> root, evidence |-> cited, refs |-> cited,
         candidates |-> IF root = Unknown THEN {Unknown} ELSE TopThree(f)]

\* Mutant: every case enters the matrix.
AmbiguousNever(f, truth) == FALSE

\* run_deterministic_matrix_v3 leaves a case out when a distractor qualifies a wrong label.
Ambiguous(f, truth) ==
    \E l \in Qualified(f) \ {truth} : SignalKind[l] \notin Required(truth)

NoSheet == [pc |-> "empty", truth |-> Unknown, result |-> <<>>, score |-> <<>>, features |-> <<>>]

Features == [Labels -> [activity : Excesses, signal : Excesses]]

ScoreLive ==
    /\ sheet.pc = "live"
    /\ \E r \in Answers :
          sheet' = [sheet EXCEPT !.pc = "scored", !.result = r,
                                 !.score = ScoreResult(r, sheet.truth)]
    /\ UNCHANGED talk

ScoreRule ==
    /\ sheet.pc = "rule"
    /\ \E f \in Features :
          IF Ambiguous(f, sheet.truth)
          THEN sheet' = [sheet EXCEPT !.pc = "left_out"]
          ELSE sheet' = [sheet EXCEPT !.pc = "row", !.features = f, !.result = RuleResult(f),
                                      !.score = ScoreResult(RuleResult(f), sheet.truth)]
    /\ UNCHANGED talk

-----------------------------------------------------------------------------
(* The conversation. *)

\* Mutant: the drafts that are sent back are not counted.
RequestBoundWithoutDrafts(p, turn) ==
    SystemSize + p + CorrectionSize * (turn - 1) + Framing * (2 + 2 * (turn - 1)) + Template

\* four_turn_input_upper_bound_v3, one request.
RequestBound(p, turn) ==
    SystemSize + p + (CorrectionSize + MaxCompletion) * (turn - 1)
        + Framing * (2 + 2 * (turn - 1)) + Template

FourTurnBound(p) ==
    RequestBound(p, 1) + RequestBound(p, 2) + RequestBound(p, 3) + RequestBound(p, 4)

\* token_preflight_v3 blocks the run when a packet has not enough headroom.
PassesPreflight(p) == FourTurnBound(p) <= FourTurnLimit

Arms == {[min |-> 1, max |-> 1], [min |-> 2, max |-> 4]}

Silent == [pc |-> "silent", arm |-> [min |-> 1, max |-> 1], packet |-> 0, turn |-> 1, draft |-> 0,
           drafts |-> 0, sent |-> 0, input |-> 0, output |-> 0,
           end |-> "none", stable |-> FALSE,
           \* history: what the provider reported, what of it was not read, and whether a draft
           \* that is sent back is longer than a completion may be
           billed |-> <<0, 0>>, unread |-> <<0, 0>>, grown |-> FALSE]

TalkInit ==
    \E arm \in Arms, p \in PacketSizes :
        /\ PassesPreflight(p)
        /\ talk = [Silent EXCEPT !.pc = "ask", !.arm = arm, !.packet = p]

\* A request carries the packet, all drafts so far as they are written out again, and a
\* correction for each; a token is a byte or more.
RequestSizes ==
    LET most == SystemSize + talk.packet + CorrectionSize * (talk.turn - 1) + talk.sent
                    + Framing * (2 + 2 * (talk.turn - 1)) + Template
    IN  1..most

\* Transport errors, 429 and 5xx; other 4xx, another model or no usage; a body or a choice
\* that is no object, which no handler expects.
AskFails ==
    /\ talk.pc = "ask"
    /\ \E end \in {"infrastructure", "configuration", "error"} :
          talk' = [talk EXCEPT !.pc = "ended", !.end = end]
    /\ UNCHANGED sheet

\* Mutant: the usage of the last turn replaces the sum.
CountedLast(i, o) == [talk EXCEPT !.input = i, !.output = o]

Counted(i, o) == [talk EXCEPT !.input = @ + i, !.output = @ + o]

Billed(t, i, o) == [t EXCEPT !.billed = <<@[1] + i, @[2] + o>>]

Told(i, o) == Billed(Counted(i, o), i, o)

\* No choice to read, or a count that is no number: the choice is read before the usage, and
\* the trial ends without the tokens of this turn.
Unread(i, o) ==
    talk' = [Billed(talk, i, o) EXCEPT !.pc = "ended", !.end = "malformed", !.unread = <<i, o>>]

(***************************************************************************)
(* An answer with its usage: the budgets first, then truncation, then the  *)
(* structure; a draft equal to the one before it ends the trial once the   *)
(* arm has had its minimum of turns.  A draft that goes on is written out  *)
(* again with every character outside ASCII escaped: its size in the next  *)
(* request is not that of the completion it came in.                       *)
(***************************************************************************)
Judge(i, o, draft, size) ==
    LET told == Told(i, o)
        End(end) == [told EXCEPT !.pc = "ended", !.end = end]
        kept == [told EXCEPT !.draft = draft, !.drafts = @ + 1, !.sent = @ + size,
                              !.grown = @ \/ size > MaxCompletion]
        stable == talk.turn >= talk.arm.min /\ kept.drafts >= 2 /\ draft = talk.draft
    IN  \/ /\ told.input >= InputLimit \/ told.output >= OutputLimit
           /\ talk' = End(IF told.input >= InputLimit THEN "input_exhausted"
                          ELSE "output_exhausted")
        \/ /\ told.input < InputLimit /\ told.output < OutputLimit
           /\ \/ o = MaxCompletion /\ talk' = End("output_truncated")
              \/ talk' = End("malformed")
              \/ talk' = IF stable \/ talk.turn = talk.arm.max
                         THEN [kept EXCEPT !.pc = "ended", !.end = "result", !.stable = stable]
                         ELSE [kept EXCEPT !.turn = @ + 1]

Answered ==
    /\ talk.pc = "ask"
    /\ \E i \in RequestSizes, o \in 1..MaxCompletion :
          \/ Unread(i, o)
          \/ \E draft \in {1, 2}, size \in 1..(Expansion * o) : Judge(i, o, draft, size)
    /\ UNCHANGED sheet

DiagnosisInit ==
    \/ /\ TalkInit
       /\ sheet = NoSheet
    \/ /\ talk = Silent
       /\ \E truth \in Labels, pc \in {"live", "rule"} :
             sheet = [NoSheet EXCEPT !.pc = pc, !.truth = truth]

DiagnosisNext == AskFails \/ Answered \/ ScoreLive \/ ScoreRule

DiagnosisSpec == DiagnosisInit /\ [][DiagnosisNext]_diagnosisVars

-----------------------------------------------------------------------------
(***************************************************************************)
(* A packet that passed the token preflight never runs a trial into the    *)
(* input budget, over all four turns, unless a draft that was sent back    *)
(* had grown past the longest completion when it was written out again:    *)
(* the bound covers every draft sent back at that length and no more       *)
(* (four_turn_input_upper_bound_v3, build_baseline_prompt_v3).             *)
(***************************************************************************)
PreflightSuffices == talk.end = "input_exhausted" => talk.grown

(***************************************************************************)
(* Whatever ends a trial that is scored - a result, truncation, malformed  *)
(* output, an exhausted budget - it is charged all tokens the provider     *)
(* reported over its turns.  One turn only may be missing: the last of a   *)
(* malformed trial whose body held no choice or no readable count.         *)
(***************************************************************************)
UsageComplete ==
    talk.end \notin {"none", "infrastructure", "configuration", "error"} =>
        /\ talk.billed = <<talk.input + talk.unread[1], talk.output + talk.unread[2]>>
        /\ talk.unread # <<0, 0>> => talk.end = "malformed" /\ talk.unread[2] <= MaxCompletion

(***************************************************************************)
(* core_e2e is 1 exactly for the diagnosis that names the sealed cause in  *)
(* answer and claim and cites exactly the required evidence, over every    *)
(* answer the schema admits; a failure class is given exactly otherwise.   *)
(***************************************************************************)
ScoreExact ==
    sheet.pc = "scored" =>
        LET r == sheet.result
            right == /\ r.root = sheet.truth /\ r.claim = sheet.truth
                     /\ r.candidates \subseteq Labels
                     /\ r.evidence = Required(sheet.truth) /\ r.refs = r.evidence
        IN  /\ right <=> sheet.score.core = 1
            /\ right <=> sheet.score.class = "none"

(***************************************************************************)
(* In the rule baseline's matrix a wrong answer is never the work of a     *)
(* distractor: a row that names another cause does so from evidence of the *)
(* same kinds as the true one (run_deterministic_matrix_v3).               *)
(***************************************************************************)
RuleRowsUnambiguous ==
    sheet.pc = "row" /\ sheet.result.root # Unknown =>
        /\ sheet.result.evidence = Required(sheet.truth)
        /\ sheet.score.class \in {"none", "wrong_root_cause"}

(***************************************************************************)
(* A trial stays within what it was admitted and is charged for: the token *)
(* bound of the preflight holds over all turns while no draft sent back    *)
(* has grown past a completion, and no turn is forgotten in the bill but a *)
(* last one that could not be read (make_bailian_adapter_v3).              *)
(***************************************************************************)
BudgetHeld == PreflightSuffices /\ UsageComplete

(***************************************************************************)
(* The scores of live answers are exact and the rows of the rule baseline  *)
(* are decided by the evidence of the true cause (score_result_v3,         *)
(* run_deterministic_matrix_v3).                                           *)
(***************************************************************************)
ScoresSound == ScoreExact /\ RuleRowsUnambiguous

=============================================================================
