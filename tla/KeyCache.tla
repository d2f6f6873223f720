------------------------------ MODULE KeyCache ------------------------------
(***************************************************************************)
(* OIDCAuthenticator: the signing keys of the identity provider, cached    *)
(* for cache_seconds and reloaded under an asyncio.Lock.  Time is counted  *)
(* in ticks; CacheTicks stands for cache_seconds and FetchTicks for the    *)
(* timeout of one download.  A token is the key id in its header: the      *)
(* signature check and the claims are PyJWT's.                             *)
(***************************************************************************)
EXTENDS Naturals

CONSTANTS
    Bearers,      \* requests that present a bearer token
    Keys,         \* key ids
    CacheTicks,   \* OIDCSettings.cache_seconds
    FetchTicks    \* OIDCSettings.timeout_seconds

ASSUME WindowAssumption ==
    /\ CacheTicks \in Nat
    /\ FetchTicks \in Nat
    /\ FetchTicks < CacheTicks

VARIABLES
    published,    \* the signing keys the provider serves now
    retired,      \* history: ticks since the provider last served a key
    cache,        \* _keys and the age of _loaded_at
    auth          \* where each request is in authenticate

keyVars == <<published, retired, cache, auth>>

AuthPc == {"new", "queued", "fetching", "answered", "accepted", "refused"}

Token == [pc : AuthPc, kid : Keys, keys : SUBSET Keys,
          age : 0..FetchTicks, seen : 0..CacheTicks]

(***************************************************************************)
(* _keys is empty and _loaded_at is zero.  The key id of a request is the  *)
(* one its token names.                                                    *)
(***************************************************************************)
NewTokens == {t \in Token : t.pc = "new" /\ t.keys = {} /\ t.age = 0 /\ t.seen = 0}

KeyInit ==
    /\ published = Keys
    /\ retired = [k \in Keys |-> 0]
    /\ cache = [keys |-> {}, age |-> CacheTicks]
    /\ auth \in [Bearers -> NewTokens]

Usable(k) == cache.age < CacheTicks /\ k \in cache.keys

Downloading == \E c \in Bearers : auth[c].pc \in {"fetching", "answered"}

Accept(c) ==
    auth' = [auth EXCEPT ![c] = [@ EXCEPT !.pc = "accepted", !.keys = {}, !.age = 0,
                                          !.seen = retired[auth[c].kid]]]

Refuse(c) == auth' = [auth EXCEPT ![c] = [@ EXCEPT !.pc = "refused", !.keys = {}, !.age = 0]]

\* authenticate: a fresh cached key is used at once, without the lock.
Authenticate(c) ==
    /\ auth[c].pc = "new"
    /\ IF Usable(auth[c].kid)
       THEN Accept(c)
       ELSE auth' = [auth EXCEPT ![c].pc = "queued"]
    /\ UNCHANGED <<published, retired, cache>>

\* _key: inside the lock the condition is looked at again before downloading.
EnterLock(c) ==
    /\ auth[c].pc = "queued"
    /\ ~Downloading
    /\ IF Usable(auth[c].kid)
       THEN Accept(c)
       ELSE auth' = [auth EXCEPT ![c].pc = "fetching", ![c].age = 0]
    /\ UNCHANGED <<published, retired, cache>>

\* The provider answers with the keys it serves at that moment.
ProviderAnswers(c) ==
    /\ auth[c].pc = "fetching"
    /\ auth' = [auth EXCEPT ![c].pc = "answered", ![c].keys = published]
    /\ UNCHANGED <<published, retired, cache>>

\* Mutant: the age counts from the end of the download.
LoadedAgeAtEnd(c) == 0

\* _loaded_at is the time read before the download.
LoadedAge(c) == auth[c].age

\* Mutant: a key the provider does not serve is asked for again.
LoadedOrAgain(c) ==
    /\ auth[c].pc = "answered"
    /\ IF auth[c].kid \in auth[c].keys
       THEN /\ cache' = [keys |-> auth[c].keys, age |-> LoadedAge(c)]
            /\ Accept(c)
       ELSE /\ auth' = [auth EXCEPT ![c].pc = "queued", ![c].keys = {}, ![c].age = 0]
            /\ UNCHANGED cache
    /\ UNCHANGED <<published, retired>>

(***************************************************************************)
(* A document without a usable key leaves the cache alone; any other one   *)
(* replaces it, and the key is looked up in what was loaded.               *)
(***************************************************************************)
Loaded(c) ==
    /\ auth[c].pc = "answered"
    /\ IF auth[c].keys = {}
       THEN Refuse(c) /\ UNCHANGED cache
       ELSE /\ cache' = [keys |-> auth[c].keys, age |-> LoadedAge(c)]
            /\ IF auth[c].kid \in auth[c].keys THEN Accept(c) ELSE Refuse(c)
    /\ UNCHANGED <<published, retired>>

\* Timeout, error status or malformed document: the request fails closed.
DownloadFails(c) ==
    /\ auth[c].pc \in {"fetching", "answered"}
    /\ Refuse(c)
    /\ UNCHANGED <<published, retired, cache>>

\* Nothing reads the clock or the provider's keys once every request is decided.
Authenticating == \E c \in Bearers : auth[c].pc \notin {"accepted", "refused"}

\* The provider changes the keys it serves.
RotateKeys ==
    /\ Authenticating
    /\ \E K \in SUBSET Keys :
          /\ K # published
          /\ published' = K
          /\ retired' = [k \in Keys |-> IF k \in K \cup published THEN 0 ELSE retired[k]]
    /\ UNCHANGED <<cache, auth>>

Older(n) == IF n = CacheTicks THEN n ELSE n + 1

\* The client's timeout ends a download before it outlasts FetchTicks.
Tick ==
    /\ Authenticating
    /\ \A c \in Bearers :
          auth[c].pc \in {"fetching", "answered"} => auth[c].age < FetchTicks
    /\ retired' = [k \in Keys |-> IF k \in published THEN 0 ELSE Older(retired[k])]
    /\ cache' = [cache EXCEPT !.age = Older(@)]
    /\ auth' = [c \in Bearers |->
                  IF auth[c].pc \in {"fetching", "answered"}
                  THEN [auth[c] EXCEPT !.age = @ + 1] ELSE auth[c]]
    /\ UNCHANGED published

KeyStep(c) ==
    Authenticate(c) \/ EnterLock(c) \/ ProviderAnswers(c) \/ Loaded(c) \/ DownloadFails(c)

(***************************************************************************)
(* A request is accepted only on a key the provider served less than       *)
(* cache_seconds ago: rotation takes effect within the window, however the *)
(* download, the lock and the rotation interleave (OIDCAuthenticator._key).*)
(***************************************************************************)
AcceptedKeyFresh ==
    \A c \in Bearers : auth[c].pc = "accepted" => auth[c].seen < CacheTicks

=============================================================================
