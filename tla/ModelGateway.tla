---------------------------- MODULE ModelGateway ----------------------------
(***************************************************************************)
(* ModelGateway.complete and ModelGateway.stream over                      *)
(* OpenAICompatibleChannel: a call walks the candidate profiles of its     *)
(* family, retries transient failures, has one structured answer repaired  *)
(* and must not mix the output of two attempts.                            *)
(***************************************************************************)
EXTENDS Naturals, Sequences

CONSTANTS
    Calls,                 \* calls of one model family
    Candidates,            \* CapabilityCatalog.candidates: the channel of each profile
    Channels,              \* the channels that are configured
    MaxTransientRetries,   \* RoutePolicy.max_transient_retries
    MaxRepairs,            \* RoutePolicy.max_repairs
    ChannelFaults          \* failure codes a channel may raise in this instance

Transient == {"timeout", "rate_limited", "upstream_unavailable"}
Raised == {"authentication", "configuration", "invalid_tool_arguments", "policy_rejected"}
Codes == Transient \cup Raised \cup
         {"invalid_response", "invalid_structured_output", "interrupted_stream"}

Kinds == {"complete", "structured", "tool", "stream"}
NoError == "none"

ASSUME RouteAssumption ==
    /\ Candidates \in Seq(STRING)
    /\ MaxTransientRetries \in 0..1
    /\ MaxRepairs \in 0..1
    /\ ChannelFaults \subseteq Codes \ {"policy_rejected", "invalid_structured_output"}

VARIABLES
    call,     \* local variables of complete and stream, per call
    sent,     \* the kinds of chunks the caller of stream received, and from which attempt
    observed  \* events recorded with GatewayObserver, per call

gatewayVars == <<call, sent, observed>>

GatewayInit ==
    /\ call \in [Calls -> {[kind |-> k, pc |-> "idle", profile |-> 1, attempt |-> 0,
                            retries |-> MaxTransientRetries, repairs |-> 0,
                            error |-> NoError] : k \in Kinds}]
    /\ sent = [c \in Calls |-> {}]
    /\ observed = [c \in Calls |-> [started |-> 0, completed |-> 0, failed |-> 0]]

Ended(c) == call[c].pc \in {"returned", "raised", "partial", "escaped"}
Streams(c) == call[c].kind = "stream"

Raise(c, code) == call' = [call EXCEPT ![c].pc = "raised", ![c].error = code]

Observe(c, event) == observed' = [observed EXCEPT ![c][event] = @ + 1]

(***************************************************************************)
(* Secrets in the request and a family without candidates are refused      *)
(* before any channel is called.                                           *)
(***************************************************************************)
Invoke(c) ==
    /\ call[c].pc = "idle"
    /\ \/ Raise(c, "policy_rejected")
       \/ /\ Candidates = <<>>
          /\ Raise(c, "configuration")
       \/ /\ Candidates # <<>>
          /\ call' = [call EXCEPT ![c].pc = "routing"]
    /\ UNCHANGED <<sent, observed>>

\* The for loop over the profiles has ended: the last error is raised.
Exhausted(c) ==
    /\ call[c].pc = "routing"
    /\ call[c].profile > Len(Candidates)
    /\ Raise(c, IF call[c].error = NoError THEN "configuration" ELSE call[c].error)
    /\ UNCHANGED <<sent, observed>>

\* A profile whose channel is absent is passed over; only complete records why.
SkipProfile(c) ==
    /\ call[c].pc = "routing"
    /\ call[c].profile <= Len(Candidates)
    /\ Candidates[call[c].profile] \notin Channels
    /\ call' = [call EXCEPT ![c].profile = @ + 1,
                            ![c].error = IF Streams(c) THEN @ ELSE "configuration"]
    /\ UNCHANGED <<sent, observed>>

\* The next attempt on the current profile; stream records no events.
Attempt(c) ==
    /\ call[c].pc = "routing"
    /\ call[c].profile <= Len(Candidates)
    /\ Candidates[call[c].profile] \in Channels
    /\ call' = [call EXCEPT ![c].pc = IF Streams(c) THEN "streaming" ELSE "awaiting",
                            ![c].attempt = @ + 1]
    /\ IF Streams(c) THEN UNCHANGED observed ELSE Observe(c, "started")
    /\ UNCHANGED sent

\* Mutant: the retry is not counted.
TryAgainUncounted(c, code) == call' = [call EXCEPT ![c].pc = "routing", ![c].error = code]

\* The same profile again, with one transient retry less.
TryAgain(c, code) ==
    call' = [call EXCEPT ![c].pc = "routing", ![c].error = code, ![c].retries = @ - 1]

\* The next profile, with its own transient retry.
Fallback(c, code) ==
    call' = [call EXCEPT ![c].pc = "routing", ![c].error = code,
                         ![c].profile = @ + 1, ![c].retries = MaxTransientRetries]

MayRetry(c, code) == code \in Transient /\ call[c].retries > 0

\* complete: except ModelFailure.
Failed(c, code) ==
    /\ Observe(c, "failed")
    /\ \/ MayRetry(c, code) /\ TryAgain(c, code)
       \/ ~MayRetry(c, code) /\ code \in Raised /\ Raise(c, code)
       \/ ~MayRetry(c, code) /\ code \notin Raised /\ Fallback(c, code)

\* channel.complete raises: transport, status, malformed answer, tool arguments.
ChannelFails(c) ==
    /\ call[c].pc = "awaiting"
    /\ \E code \in ChannelFaults \ {"interrupted_stream"} : Failed(c, code)
    /\ UNCHANGED sent

(***************************************************************************)
(* The answer arrived and does not satisfy the schema: while a repair is   *)
(* left the attempt is repeated with the repair instruction and without an *)
(* event, otherwise it is a failure.                                       *)
(***************************************************************************)
InvalidAnswer(c) ==
    /\ call[c].pc = "awaiting"
    /\ \/ /\ call[c].kind = "tool"
          /\ Failed(c, "invalid_tool_arguments")
       \/ /\ call[c].kind = "structured"
          /\ call[c].repairs < MaxRepairs
          /\ call' = [call EXCEPT ![c].pc = "routing", ![c].repairs = @ + 1]
          /\ UNCHANGED observed
       \/ /\ call[c].kind = "structured"
          /\ call[c].repairs >= MaxRepairs
          /\ Failed(c, "invalid_structured_output")
    /\ UNCHANGED sent

Return(c) ==
    /\ call[c].pc = "awaiting"
    /\ call' = [call EXCEPT ![c].pc = "returned"]
    /\ Observe(c, "completed")
    /\ UNCHANGED sent

(***************************************************************************)
(* An exception that is no ModelFailure ends the call, and neither event   *)
(* of the attempt in flight is recorded: a null message or delta           *)
(* (AttributeError), content that is no string (TypeError of json.loads,   *)
(* ValidationError of GatewayResponse), the cancellation of the request.   *)
(***************************************************************************)
Escapes(c) ==
    /\ call[c].pc \in {"awaiting", "streaming"}
    /\ call' = [call EXCEPT ![c].pc = "escaped"]
    /\ UNCHANGED <<sent, observed>>

Visible(c) == [attempt |-> call[c].attempt, visible |-> TRUE] \in sent[c]

\* A chunk: usage and role chunks carry no delta and are not visible.
Chunk(c) ==
    /\ call[c].pc = "streaming"
    /\ \E v \in BOOLEAN :
          sent' = [sent EXCEPT ![c] = @ \cup {[attempt |-> call[c].attempt, visible |-> v]}]
    /\ UNCHANGED <<call, observed>>

\* [DONE], or the end of the body without it.
StreamEnds(c) ==
    /\ call[c].pc = "streaming"
    /\ call' = [call EXCEPT ![c].pc = "returned"]
    /\ UNCHANGED <<sent, observed>>

\* Mutant: what the caller has seen is not looked at.
StreamFailsUnseen(c) ==
    /\ call[c].pc = "streaming"
    /\ \E code \in ChannelFaults \ {"interrupted_stream"} :
          \/ MayRetry(c, code) /\ TryAgain(c, code)
          \/ code \notin Transient /\ Raise(c, code)
          \/ ~MayRetry(c, code) /\ code \in Transient /\ Fallback(c, code)
    /\ UNCHANGED <<sent, observed>>

(***************************************************************************)
(* The channel fails in a stream.  After visible output this is a partial  *)
(* failure; before it a transient code is retried and then falls back,     *)
(* and any other code is raised.                                           *)
(***************************************************************************)
StreamFails(c) ==
    /\ call[c].pc = "streaming"
    /\ \E code \in ChannelFaults \ {"interrupted_stream"} :
          \/ /\ Visible(c)
             /\ call' = [call EXCEPT ![c].pc = "partial",
                           ![c].error = IF code \in {"timeout", "upstream_unavailable",
                                                     "invalid_response"}
                                        THEN "interrupted_stream" ELSE code]
          \/ ~Visible(c) /\ MayRetry(c, code) /\ TryAgain(c, code)
          \/ ~Visible(c) /\ code \notin Transient /\ Raise(c, code)
          \/ ~Visible(c) /\ ~MayRetry(c, code) /\ code \in Transient /\ Fallback(c, code)
    /\ UNCHANGED <<sent, observed>>

GatewayStep(c) ==
    \/ Exhausted(c) \/ SkipProfile(c) \/ Attempt(c)
    \/ ChannelFails(c) \/ InvalidAnswer(c) \/ Return(c)
    \/ Chunk(c) \/ StreamEnds(c) \/ StreamFails(c)
    \/ Escapes(c)

(***************************************************************************)
(* Visible output of two attempts never reaches one caller: a stream that  *)
(* failed after its first visible delta is neither retried nor continued   *)
(* by another model (ModelGateway.stream, PartialModelFailure).            *)
(***************************************************************************)
NeverStitched ==
    \A c \in Calls : \A x, y \in sent[c] :
        x.visible /\ y.visible => x.attempt = y.attempt

\* The attempts of a call that were started and have no closing event.
Unclosed(c) ==
    observed[c].started - (observed[c].completed + observed[c].failed + call[c].repairs)

(***************************************************************************)
(* A call is charged for a bounded number of attempts - each profile once  *)
(* and once more after a transient failure, and one repair in all - and    *)
(* the observer can account for each attempt of complete: it started, and  *)
(* it completed, failed or was the one that was repaired.  The one attempt *)
(* left open is the one in flight, or the last one of a call that an       *)
(* exception other than ModelFailure ended.                                *)
(***************************************************************************)
AttemptsAccounted ==
    \A c \in Calls :
        /\ call[c].attempt <= Len(Candidates) * (1 + MaxTransientRetries) + MaxRepairs
        /\ ~Streams(c) =>
             /\ observed[c].started = call[c].attempt
             /\ Unclosed(c) = IF call[c].pc \in {"awaiting", "escaped"} THEN 1 ELSE 0
             /\ observed[c].completed = IF call[c].pc = "returned" THEN 1 ELSE 0

=============================================================================
