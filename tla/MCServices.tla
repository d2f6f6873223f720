----------------------------- MODULE MCServices -----------------------------
(***************************************************************************)
(* Three parts that have to come to an end, side by side in one run: the   *)
(* trace drain, the Model Gateway process and the observer of the fault    *)
(* lab.  They share no state, so a behaviour is one of one of them and the *)
(* other two have ended: the drain loop is dead, the requests are answered *)
(* and the measurement is done.  The gateway has three profiles, of which  *)
(* the second is on a channel that is not configured.                      *)
(***************************************************************************)
EXTENDS TraceBuffer, ModelService, Observer

VARIABLE part   \* the part that runs

MCSinks == <<"otlp", "archive">>
MCCandidates == <<"bailian", "newapi", "bailian">>
MCChannels == {"bailian"}
MCFaults == {"timeout", "authentication", "invalid_response"}

-----------------------------------------------------------------------------
(* One state of each part in which it has nothing left to do. *)

TraceEnded ==
    /\ payload = [t \in Traces |-> None]
    /\ delivery = [t \in Traces |-> [k \in Sinks |-> Fresh]]
    /\ ingest = [h \in Ingests |-> IdleIngest]
    /\ worker = [w \in Workers |-> IF w = Loop THEN [IdleWorker EXCEPT !.pc = "dead"]
                                   ELSE IdleWorker]
    /\ received = [k \in Sinks |-> {}]
    /\ failures = 0 /\ storeErrors = 1 /\ crashes = 0

GatewayEnded ==
    /\ published = Keys /\ retired = [k \in Keys |-> 0]
    /\ cache = [keys |-> {}, age |-> CacheTicks]
    /\ auth = [b \in Bearers |-> [(CHOOSE t \in NewTokens : TRUE) EXCEPT !.pc = "refused"]]
    /\ call = [c \in Calls |-> [kind |-> "complete", pc |-> "idle", profile |-> 1, attempt |-> 0,
                                retries |-> MaxTransientRetries, repairs |-> 0,
                                error |-> NoError]]
    /\ sent = [c \in Calls |-> {}]
    /\ observed = [c \in Calls |-> [started |-> 0, completed |-> 0, failed |-> 0]]

ObserverEnded ==
    /\ sut = [on |-> FALSE, level |-> Quiet, errors |-> FALSE, due |-> FALSE, acted |-> FALSE]
    /\ obs = [class |-> "payment", v3 |-> FALSE, prior |-> FALSE, phase |-> "control", n |-> 1,
              pc |-> "done", left |-> 0, base |-> 0, windows |-> <<>>, samples |-> <<>>,
              active |-> TRUE, healthy |-> TRUE, primary |-> "infra", cleanup |-> "none"]

ServicesInit ==
    \/ part = "trace" /\ TraceInit /\ GatewayEnded /\ ObserverEnded
    \/ part = "gateway" /\ TraceEnded /\ ServiceInit /\ ObserverEnded
    \/ part = "observer" /\ TraceEnded /\ GatewayEnded /\ ObserverInit

ServicesNext ==
    /\ UNCHANGED part
    /\ \/ part = "trace" /\ TraceNext /\ UNCHANGED <<serviceVars, observerVars>>
       \/ part = "gateway" /\ ServiceNext /\ UNCHANGED <<traceVars, observerVars>>
       \/ part = "observer" /\ ObserverNext /\ UNCHANGED <<traceVars, serviceVars>>

ServicesSpec ==
    /\ ServicesInit
    /\ [][ServicesNext]_<<part, traceVars, serviceVars, observerVars>>
    /\ TraceFairness
    /\ ServiceFairness
    /\ ObserverFairness

=============================================================================
