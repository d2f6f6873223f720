---------------------------- MODULE ModelService ----------------------------
(***************************************************************************)
(* The Model Gateway process: requests authenticate against the shared key *)
(* cache and then run the gateway.                                         *)
(***************************************************************************)
EXTENDS KeyCache, ModelGateway

\* A bearer without the operator role is turned away with 403 once authenticated.
ASSUME EveryCallAuthenticates == Calls \subseteq Bearers

serviceVars == <<keyVars, gatewayVars>>

ServiceInit == KeyInit /\ GatewayInit

\* complete runs behind the principal dependency, which answers 401 to anybody it
\* refused; stream has no endpoint and is called from within the process.
Serve(c) ==
    /\ Streams(c) \/ auth[c].pc = "accepted"
    /\ Invoke(c)
    /\ UNCHANGED keyVars

ServiceNext ==
    \/ \E b \in Bearers : KeyStep(b) /\ UNCHANGED gatewayVars
    \/ \E c \in Calls : Serve(c) \/ (GatewayStep(c) /\ UNCHANGED keyVars)
    \/ (RotateKeys \/ Tick) /\ UNCHANGED gatewayVars

ServiceSpec == ServiceInit /\ [][ServiceNext]_serviceVars

(***************************************************************************)
(* The event loop runs every handler, downloads end by their timeout and   *)
(* so do channel requests.  A chunk of a stream is no obligation: it is    *)
(* the end of the stream that has to come.                                 *)
(***************************************************************************)
ServiceFairness ==
    /\ \A b \in Bearers :
          /\ WF_serviceVars((Authenticate(b) \/ ProviderAnswers(b) \/ Loaded(b))
                               /\ UNCHANGED gatewayVars)
          /\ SF_serviceVars(EnterLock(b) /\ UNCHANGED gatewayVars)
    /\ \A c \in Calls :
          /\ WF_serviceVars(Serve(c))
          /\ WF_serviceVars(GatewayStep(c) /\ UNCHANGED keyVars)

ServiceFairSpec == ServiceSpec /\ ServiceFairness

(***************************************************************************)
(* Every request is answered: nobody waits for ever for the key download   *)
(* of another request, and retry, repair and fallback come to an end.      *)
(***************************************************************************)
EveryCallEnds ==
    /\ \A b \in Bearers : <>(auth[b].pc \in {"accepted", "refused"})
    /\ \A c \in Calls : <>((auth[c].pc = "refused" /\ ~Streams(c)) \/ Ended(c))

=============================================================================
