------------------------- MODULE ModelServiceProofs -------------------------
(***************************************************************************)
(* Proofs about the Model Gateway process for every number of requests,    *)
(* keys, profiles and channels and every cache window.                     *)
(***************************************************************************)
EXTENDS ModelService, TLAPS

-----------------------------------------------------------------------------
(***************************************************************************)
(* The gateway.                                                            *)
(***************************************************************************)

Record == [kind : Kinds, error : Codes \cup {NoError},
           pc : {"idle", "routing", "awaiting", "streaming",
                 "returned", "raised", "partial", "escaped"},
           profile : 1..Len(Candidates) + 1, attempt : Nat,
           retries : 0..MaxTransientRetries, repairs : 0..MaxRepairs]
Counts == [started : Nat, completed : Nat, failed : Nat]

\* Every local variable and counter has its type.
GatewayTypes ==
    /\ call \in [Calls -> Record]
    /\ sent \in [Calls -> SUBSET [attempt : Nat, visible : BOOLEAN]]
    /\ observed \in [Calls -> Counts]

\* The attempts a call may have made when it is on profile x.profile.
Spent(x) == (x.profile - 1) * (1 + MaxTransientRetries)
              + (MaxTransientRetries - x.retries) + x.repairs
Allowed == Len(Candidates) * (1 + MaxTransientRetries) + MaxRepairs
OnChannel(x) == /\ x.profile <= Len(Candidates)
                /\ Candidates[x.profile] \in Channels

\* Retries are spent on a configured channel, each attempt is paid for by a
\* profile, a retry or a repair, and an attempt in flight is not paid for yet.
Budgeted(x) ==
    /\ x.retries # MaxTransientRetries => OnChannel(x)
    /\ x.pc \in {"idle", "routing"} => x.attempt <= Spent(x)
    /\ x.pc \in {"awaiting", "streaming"} => OnChannel(x) /\ x.attempt <= Spent(x) + 1
    /\ x.attempt <= Allowed

\* complete counts each attempt when it starts and again when it ends.
Accounted(x, o) ==
    /\ x.pc = "awaiting" => x.kind # "stream"
    /\ x.pc = "streaming" => x.kind = "stream"
    /\ x.kind # "stream" =>
         /\ o.started = x.attempt
         /\ o.completed = IF x.pc = "returned" THEN 1 ELSE 0
         /\ o.started = o.completed + o.failed + x.repairs
                          + (IF x.pc \in {"awaiting", "escaped"} THEN 1 ELSE 0)

\* Visible output comes from the current attempt, and the call is not asked to
\* make another one.
Unmixed(x, s) ==
    \A m \in s : m.visible =>
        m.attempt = x.attempt /\ x.pc \notin {"idle", "routing", "awaiting"}

GatewayInv ==
    /\ GatewayTypes
    /\ \A c \in Calls : /\ Budgeted(call[c])
                        /\ Accounted(call[c], observed[c])
                        /\ Unmixed(call[c], sent[c])

\* The arithmetic of the budget: a profile has at most two attempts.
LEMMA BudgetArithmetic ==
    ASSUME NEW x \in Record, x.retries # MaxTransientRetries => OnChannel(x)
    PROVE  /\ Spent(x) \in Nat
           /\ Spent(x) <= Allowed
           /\ OnChannel(x) => Spent(x) + 1 <= Allowed
           /\ Allowed \in Nat
    <1>1. /\ Len(Candidates) \in Nat /\ x.profile \in 1..Len(Candidates) + 1
          /\ x.retries \in 0..MaxTransientRetries /\ x.repairs \in 0..MaxRepairs
          /\ MaxRepairs \in 0..1
        BY RouteAssumption DEF Record
    <1>2. CASE MaxTransientRetries = 0
        <2>1. /\ Spent(x) = (x.profile - 1) - x.retries + x.repairs
              /\ Allowed = Len(Candidates) + MaxRepairs
            BY <1>1, <1>2 DEF Spent, Allowed
        <2>2. QED
            BY <1>1, <1>2, <2>1 DEF OnChannel
    <1>3. CASE MaxTransientRetries = 1
        <2>1. /\ Spent(x) = (x.profile - 1) * 2 + (1 - x.retries) + x.repairs
              /\ Allowed = Len(Candidates) * 2 + MaxRepairs
            <3>1. 1 + MaxTransientRetries = 2
                BY <1>3
            <3>2. QED
                BY <1>3, <3>1 DEF Spent, Allowed
        <2>2. PICK p \in Nat, l \in Nat, r \in Nat, q \in Nat, m \in Nat :
                /\ p = x.profile /\ l = Len(Candidates) /\ r = x.retries
                /\ q = x.repairs /\ m = MaxRepairs
            BY <1>1, <1>3
        <2>3. /\ 1 <= p /\ p <= l + 1 /\ 0 <= r /\ r <= 1 /\ 0 <= q /\ q <= m
              /\ m <= 1 /\ 0 <= l
            BY <1>1, <1>3, <2>2
        <2>4. Spent(x) = (p - 1) * 2 + (1 - r) + q /\ Allowed = l * 2 + m
            BY <2>1, <2>2
        <2>5. OnChannel(x) => p <= l
            BY <2>2 DEF OnChannel
        <2>6. r = 1 \/ p <= l
            BY <1>3, <2>2, <2>3, <2>5
        <2>7. Spent(x) \in Nat /\ Allowed \in Nat
            BY <2>3, <2>4
        <2>8. Spent(x) <= Allowed
            BY <2>3, <2>4, <2>6
        <2>9. OnChannel(x) => Spent(x) + 1 <= Allowed
            BY <2>3, <2>4, <2>5
        <2>10. QED
            BY <2>7, <2>8, <2>9
    <1>4. QED
        BY <1>2, <1>3, RouteAssumption

\* The gateway starts with nothing attempted.
LEMMA GatewayInitInv == GatewayInit => GatewayInv
    <1> SUFFICES ASSUME GatewayInit PROVE GatewayInv
        OBVIOUS
    <1>0. Len(Candidates) \in Nat /\ MaxTransientRetries \in 0..1 /\ MaxRepairs \in 0..1
        BY RouteAssumption
    <1>1. ASSUME NEW c \in Calls
          PROVE  /\ call[c] \in Record /\ call[c].pc = "idle" /\ call[c].attempt = 0
                 /\ call[c].retries = MaxTransientRetries /\ call[c].repairs = 0
        <2>1. PICK k \in Kinds :
                call[c] = [kind |-> k, pc |-> "idle", profile |-> 1, attempt |-> 0,
                           retries |-> MaxTransientRetries, repairs |-> 0,
                           error |-> NoError]
            BY DEF GatewayInit
        <2>2. /\ 1 \in 1..Len(Candidates) + 1 /\ 0 \in 0..MaxRepairs
              /\ MaxTransientRetries \in 0..MaxTransientRetries
            BY <1>0
        <2>3. QED
            BY <2>1, <2>2 DEF Record
    <1>2. \A c \in Calls : call[c] \in Record
        BY <1>1
    <1>3. GatewayTypes
        BY <1>2 DEF GatewayInit, GatewayTypes, Counts
    <1>4. ASSUME NEW c \in Calls PROVE Budgeted(call[c])
        <2>1. /\ call[c].pc = "idle" /\ call[c].attempt = 0
              /\ call[c].retries = MaxTransientRetries
            BY <1>1
        <2>2. QED
            BY <1>2, <2>1, BudgetArithmetic DEF Budgeted
    <1>5. ASSUME NEW c \in Calls PROVE Accounted(call[c], observed[c])
        <2>1. /\ call[c].pc = "idle" /\ call[c].attempt = 0 /\ call[c].repairs = 0
            BY <1>1
        <2>2. observed[c] = [started |-> 0, completed |-> 0, failed |-> 0]
            BY DEF GatewayInit
        <2>3. QED
            BY <2>1, <2>2 DEF Accounted
    <1>6. \A c \in Calls : Unmixed(call[c], sent[c])
        BY DEF GatewayInit, Unmixed
    <1>7. QED
        BY <1>3, <1>4, <1>5, <1>6 DEF GatewayInv

\* A step of call c keeps the invariant when its new record fits.
LEMMA CallStep ==
    ASSUME GatewayInv, NEW c \in Calls, NEW x \in Record,
           call' = [call EXCEPT ![c] = x],
           NEW o \in Counts, observed' = [observed EXCEPT ![c] = o],
           NEW s \in SUBSET [attempt : Nat, visible : BOOLEAN],
           sent' = [sent EXCEPT ![c] = s],
           Budgeted(x), Accounted(x, o), Unmixed(x, s)
    PROVE  GatewayInv'
    <1>1. /\ call'[c] = x /\ observed'[c] = o /\ sent'[c] = s
          /\ \A d \in Calls : d # c => /\ call'[d] = call[d]
                                       /\ observed'[d] = observed[d]
                                       /\ sent'[d] = sent[d]
        BY DEF GatewayInv, GatewayTypes
    <1>2. GatewayTypes'
        BY DEF GatewayInv, GatewayTypes
    <1>3. ASSUME NEW d \in Calls
          PROVE  /\ Budgeted(call'[d]) /\ Accounted(call'[d], observed'[d])
                 /\ Unmixed(call'[d], sent'[d])
        BY <1>1 DEF GatewayInv
    <1>4. QED
        BY <1>2, <1>3 DEF GatewayInv, Budgeted, Spent, Accounted, Unmixed

\* The books of a call whose attempt is over.
Closed(x, o) ==
    x.kind # "stream" =>
        /\ o.started = x.attempt
        /\ o.completed = 0
        /\ o.started = o.failed + x.repairs

\* What the invariant says of one call, and that sent may stay as it is.
LEMMA CallFacts ==
    ASSUME GatewayInv, NEW c \in Calls
    PROVE  /\ call[c] \in Record /\ observed[c] \in Counts
           /\ sent[c] \in SUBSET [attempt : Nat, visible : BOOLEAN]
           /\ Budgeted(call[c]) /\ Accounted(call[c], observed[c])
           /\ Unmixed(call[c], sent[c])
           /\ sent = [sent EXCEPT ![c] = sent[c]]
           /\ observed = [observed EXCEPT ![c] = observed[c]]
           /\ call = [call EXCEPT ![c] = call[c]]
    BY DEF GatewayInv, GatewayTypes

\* Raising ends a call whose books are closed.
LEMMA RaiseStep ==
    ASSUME GatewayInv, NEW c \in Calls, NEW code \in Codes \cup {NoError}, Raise(c, code),
           NEW o \in Counts, observed' = [observed EXCEPT ![c] = o],
           Closed(call[c], o), UNCHANGED sent,
           \A m \in sent[c] : m.visible => m.attempt = call[c].attempt
    PROVE  GatewayInv'
    <1>1. PICK x : x = [call[c] EXCEPT !.pc = "raised", !.error = code]
        OBVIOUS
    <1>2. /\ call[c] \in Record /\ Budgeted(call[c])
          /\ sent' = [sent EXCEPT ![c] = sent[c]]
          /\ sent[c] \in SUBSET [attempt : Nat, visible : BOOLEAN]
        BY CallFacts
    <1>3. /\ x \in Record /\ x.pc = "raised" /\ x.kind = call[c].kind
          /\ x.profile = call[c].profile /\ x.attempt = call[c].attempt
          /\ x.retries = call[c].retries /\ x.repairs = call[c].repairs
        BY <1>1, <1>2 DEF Record
    <1>4. call' = [call EXCEPT ![c] = x]
        BY <1>1 DEF Raise, GatewayInv, GatewayTypes
    <1>5. Budgeted(x)
        BY <1>2, <1>3 DEF Budgeted, OnChannel
    <1>6. Accounted(x, o)
        BY <1>3 DEF Accounted, Closed, Counts
    <1>7. Unmixed(x, sent[c])
        BY <1>3 DEF Unmixed
    <1>8. QED
        BY <1>2, <1>3, <1>4, <1>5, <1>6, <1>7, CallStep

\* Another attempt on the same profile is paid for by a transient retry.
LEMMA TryAgainStep ==
    ASSUME GatewayInv, NEW c \in Calls, NEW code \in Codes, TryAgain(c, code),
           call[c].pc \in {"awaiting", "streaming"}, call[c].retries > 0,
           NEW o \in Counts, observed' = [observed EXCEPT ![c] = o],
           Closed(call[c], o), UNCHANGED sent,
           \A m \in sent[c] : ~m.visible
    PROVE  GatewayInv'
    <1>1. PICK x : x = [call[c] EXCEPT !.pc = "routing", !.error = code,
                                       !.retries = call[c].retries - 1]
        OBVIOUS
    <1>2. /\ call[c] \in Record /\ Budgeted(call[c])
          /\ sent' = [sent EXCEPT ![c] = sent[c]]
          /\ sent[c] \in SUBSET [attempt : Nat, visible : BOOLEAN]
        BY CallFacts
    <1>3. call[c].retries - 1 \in 0..MaxTransientRetries
        BY <1>2, RouteAssumption DEF Record
    <1>4. /\ x \in Record /\ x.pc = "routing" /\ x.kind = call[c].kind
          /\ x.profile = call[c].profile /\ x.attempt = call[c].attempt
          /\ x.retries = call[c].retries - 1 /\ x.repairs = call[c].repairs
        BY <1>1, <1>2, <1>3 DEF Record
    <1>5. call' = [call EXCEPT ![c] = x]
        BY <1>1 DEF TryAgain, GatewayInv, GatewayTypes
    <1>6. OnChannel(call[c]) /\ call[c].attempt <= Spent(call[c]) + 1
        BY <1>2 DEF Budgeted
    <1>7. OnChannel(x)
        BY <1>4, <1>6 DEF OnChannel
    <1>8. PICK s \in Nat, b \in Nat, r \in Nat, q \in Nat :
            /\ s = (x.profile - 1) * (1 + MaxTransientRetries)
            /\ b = MaxTransientRetries /\ r = call[c].retries /\ q = x.repairs
        <2>1. /\ MaxTransientRetries \in Nat /\ call[c].retries \in Nat /\ x.repairs \in Nat
              /\ x.profile \in Nat /\ x.profile >= 1
            BY <1>2, <1>4, RouteAssumption DEF Record
        <2>2. (x.profile - 1) \in Nat /\ (1 + MaxTransientRetries) \in Nat
            BY <2>1
        <2>3. (x.profile - 1) * (1 + MaxTransientRetries) \in Nat
            BY <2>2
        <2>4. QED
            BY <2>1, <2>3
    <1>9. Spent(call[c]) = s + (b - r) + q /\ Spent(x) = s + (b - (r - 1)) + q
        BY <1>4, <1>8 DEF Spent
    <1>10. x.attempt <= Spent(x)
        <2>1. PICK a \in Nat : a = x.attempt
            BY <1>4 DEF Record
        <2>2. a <= s + (b - r) + q + 1
            BY <1>4, <1>6, <1>9, <2>1
        <2>3. a <= s + (b - (r - 1)) + q
            BY <2>2
        <2>4. QED
            BY <1>9, <2>1, <2>3
    <1>11. Budgeted(x)
        <2>1. Spent(x) \in Nat /\ Spent(x) <= Allowed /\ Allowed \in Nat
            BY <1>4, <1>7, BudgetArithmetic
        <2>2. x.attempt \in Nat
            BY <1>4 DEF Record
        <2>3. QED
            BY <1>4, <1>7, <1>10, <2>1, <2>2 DEF Budgeted
    <1>12. Accounted(x, o)
        BY <1>4 DEF Accounted, Closed, Counts
    <1>13. Unmixed(x, sent[c])
        BY DEF Unmixed
    <1>14. QED
        BY <1>2, <1>4, <1>5, <1>11, <1>12, <1>13, CallStep

\* The next profile brings an attempt and its retry of its own.
LEMMA NextProfile ==
    ASSUME NEW p \in Nat, NEW q \in Nat, p >= 1
    PROVE  /\ ((p + 1) - 1) * (1 + MaxTransientRetries) + (MaxTransientRetries - MaxTransientRetries) + q
                = (p - 1) * (1 + MaxTransientRetries) + (1 + MaxTransientRetries) + q
           /\ (p - 1) * (1 + MaxTransientRetries) \in Nat
    <1>1. CASE MaxTransientRetries = 0
        BY <1>1
    <1>2. CASE MaxTransientRetries = 1
        <2>1. 1 + MaxTransientRetries = 2
            BY <1>2
        <2>2. QED
            BY <1>2, <2>1
    <1>3. QED
        BY <1>1, <1>2, RouteAssumption

\* The next profile is tried: the attempt is paid for by the profile left behind.
LEMMA FallbackStep ==
    ASSUME GatewayInv, NEW c \in Calls, NEW code \in Codes, Fallback(c, code),
           call[c].pc \in {"awaiting", "streaming"},
           NEW o \in Counts, observed' = [observed EXCEPT ![c] = o],
           Closed(call[c], o), UNCHANGED sent,
           \A m \in sent[c] : ~m.visible
    PROVE  GatewayInv'
    <1>1. PICK x : x = [call[c] EXCEPT !.pc = "routing", !.error = code,
                                       !.profile = call[c].profile + 1,
                                       !.retries = MaxTransientRetries]
        OBVIOUS
    <1>2. /\ call[c] \in Record /\ Budgeted(call[c])
          /\ sent' = [sent EXCEPT ![c] = sent[c]]
          /\ sent[c] \in SUBSET [attempt : Nat, visible : BOOLEAN]
        BY CallFacts
    <1>3. OnChannel(call[c]) /\ call[c].attempt <= Spent(call[c]) + 1
        BY <1>2 DEF Budgeted
    <1>4. /\ call[c].profile + 1 \in 1..Len(Candidates) + 1
          /\ MaxTransientRetries \in 0..MaxTransientRetries
        BY <1>2, <1>3, RouteAssumption DEF Record, OnChannel
    <1>5. /\ x \in Record /\ x.pc = "routing" /\ x.kind = call[c].kind
          /\ x.profile = call[c].profile + 1 /\ x.attempt = call[c].attempt
          /\ x.retries = MaxTransientRetries /\ x.repairs = call[c].repairs
        BY <1>1, <1>2, <1>4 DEF Record
    <1>6. call' = [call EXCEPT ![c] = x]
        BY <1>1 DEF Fallback, GatewayInv, GatewayTypes
    <1>7. x.attempt <= Spent(x)
        <2>1. PICK p \in Nat, q \in Nat, r \in Nat, b \in Nat, a \in Nat :
                /\ p = call[c].profile /\ q = call[c].repairs /\ r = call[c].retries
                /\ b = MaxTransientRetries /\ a = call[c].attempt /\ p >= 1
            BY <1>2, RouteAssumption DEF Record
        <2>2. PICK s \in Nat : s = (p - 1) * (1 + MaxTransientRetries)
            BY <2>1, NextProfile
        <2>3. Spent(x) = s + (1 + b) + q
            <3>1. Spent(x) = ((p + 1) - 1) * (1 + MaxTransientRetries)
                               + (MaxTransientRetries - MaxTransientRetries) + q
                BY <1>5, <2>1 DEF Spent
            <3>2. ((p + 1) - 1) * (1 + MaxTransientRetries)
                     + (MaxTransientRetries - MaxTransientRetries) + q
                    = (p - 1) * (1 + MaxTransientRetries) + (1 + MaxTransientRetries) + q
                BY <2>1, NextProfile
            <3>3. QED
                BY <2>1, <2>2, <3>1, <3>2
        <2>4. Spent(call[c]) = s + (b - r) + q
            BY <2>1, <2>2 DEF Spent
        <2>5. a <= s + (b - r) + q + 1
            BY <1>3, <2>1, <2>4
        <2>6. a <= s + (1 + b) + q
            BY <2>5
        <2>7. QED
            BY <1>5, <2>1, <2>3, <2>6
    <1>8. Budgeted(x)
        <2>1. Spent(x) \in Nat /\ Spent(x) <= Allowed /\ Allowed \in Nat
            BY <1>5, BudgetArithmetic
        <2>2. x.attempt \in Nat
            BY <1>5 DEF Record
        <2>3. QED
            BY <1>5, <1>7, <2>1, <2>2 DEF Budgeted
    <1>9. Accounted(x, o)
        BY <1>5 DEF Accounted, Closed, Counts
    <1>10. Unmixed(x, sent[c])
        BY DEF Unmixed
    <1>11. QED
        BY <1>2, <1>5, <1>6, <1>8, <1>9, <1>10, CallStep

\* invoke: refused before a channel is called, or handed to the route.
LEMMA InvokeInv ==
    ASSUME GatewayInv, NEW c \in Calls, Invoke(c)
    PROVE  GatewayInv'
    <1>1. /\ call[c].pc = "idle" /\ UNCHANGED sent
          /\ observed' = [observed EXCEPT ![c] = observed[c]]
        BY CallFacts DEF Invoke
    <1>2. /\ call[c] \in Record /\ observed[c] \in Counts
          /\ Budgeted(call[c]) /\ Accounted(call[c], observed[c])
          /\ Unmixed(call[c], sent[c])
        BY CallFacts
    <1>3. Closed(call[c], observed[c])
        BY <1>1, <1>2 DEF Closed, Accounted, Counts, Record
    <1>4. \A m \in sent[c] : m.visible => m.attempt = call[c].attempt
        BY <1>2 DEF Unmixed
    <1>5. CASE \E code \in {"policy_rejected", "configuration"} : Raise(c, code)
        <2>1. PICK code \in Codes : Raise(c, code)
            BY <1>5 DEF Codes, Raised
        <2>2. QED
            BY <1>1, <1>2, <1>3, <1>4, <2>1, RaiseStep
    <1>6. CASE call' = [call EXCEPT ![c].pc = "routing"]
        <2>1. PICK x : x = [call[c] EXCEPT !.pc = "routing"]
            OBVIOUS
        <2>2. /\ x \in Record /\ x.pc = "routing" /\ x.kind = call[c].kind
              /\ x.profile = call[c].profile /\ x.attempt = call[c].attempt
              /\ x.retries = call[c].retries /\ x.repairs = call[c].repairs
            BY <1>2, <2>1 DEF Record
        <2>3. call' = [call EXCEPT ![c] = x]
            BY <1>6, <2>1 DEF GatewayInv, GatewayTypes
        <2>4. Budgeted(x)
            BY <1>1, <1>2, <2>2 DEF Budgeted, OnChannel, Spent
        <2>5. Accounted(x, observed[c])
            BY <1>1, <1>2, <2>2 DEF Accounted
        <2>6. Unmixed(x, sent[c])
            BY <1>1, <1>2, <2>2 DEF Unmixed
        <2>7. QED
            BY <1>1, <1>2, <2>2, <2>3, <2>4, <2>5, <2>6, CallStep, CallFacts
    <1>7. QED
        BY <1>5, <1>6 DEF Invoke

\* The end of the loop over the profiles, and a profile that is passed over.
LEMMA RouteInv ==
    ASSUME GatewayInv, NEW c \in Calls, Exhausted(c) \/ SkipProfile(c)
    PROVE  GatewayInv'
    <1>1. /\ call[c].pc = "routing" /\ UNCHANGED sent
          /\ observed' = [observed EXCEPT ![c] = observed[c]]
        BY CallFacts DEF Exhausted, SkipProfile
    <1>2. /\ call[c] \in Record /\ observed[c] \in Counts
          /\ Budgeted(call[c]) /\ Accounted(call[c], observed[c])
          /\ Unmixed(call[c], sent[c])
        BY CallFacts
    <1>3. Closed(call[c], observed[c])
        BY <1>1, <1>2 DEF Closed, Accounted, Counts, Record
    <1>4. \A m \in sent[c] : ~m.visible
        BY <1>1, <1>2 DEF Unmixed
    <1>5. CASE Exhausted(c)
        <2>1. PICK code \in Codes \cup {NoError} : Raise(c, code)
            <3>1. call[c].error \in Codes \cup {NoError} /\ "configuration" \in Codes
                BY <1>2 DEF Record, Codes, Raised
            <3>2. QED
                BY <1>5, <3>1 DEF Exhausted
        <2>2. QED
            BY <1>1, <1>2, <1>3, <1>4, <2>1, RaiseStep
    <1>6. CASE SkipProfile(c)
        <2>1. PICK e \in Codes \cup {NoError} :
                e = IF Streams(c) THEN call[c].error ELSE "configuration"
            BY <1>2 DEF Record, Codes, Raised
        <2>2. PICK x : x = [call[c] EXCEPT !.profile = call[c].profile + 1, !.error = e]
            OBVIOUS
        <2>3. call[c].profile + 1 \in 1..Len(Candidates) + 1
            BY <1>2, <1>6, RouteAssumption DEF SkipProfile, Record
        <2>4. /\ x \in Record /\ x.pc = "routing" /\ x.kind = call[c].kind
              /\ x.profile = call[c].profile + 1 /\ x.attempt = call[c].attempt
              /\ x.retries = call[c].retries /\ x.repairs = call[c].repairs
            BY <1>1, <1>2, <2>2, <2>3 DEF Record
        <2>5. call' = [call EXCEPT ![c] = x]
            BY <1>6, <2>1, <2>2 DEF SkipProfile, GatewayInv, GatewayTypes
        <2>6. call[c].retries = MaxTransientRetries
            BY <1>2, <1>6 DEF SkipProfile, Budgeted, OnChannel
        <2>7. x.attempt <= Spent(x)
            <3>1. PICK p \in Nat, q \in Nat, b \in Nat, a \in Nat :
                    /\ p = call[c].profile /\ q = call[c].repairs
                    /\ b = MaxTransientRetries /\ a = call[c].attempt /\ p >= 1
                BY <1>2, RouteAssumption DEF Record
            <3>2. PICK s \in Nat : s = (p - 1) * (1 + MaxTransientRetries)
                BY <3>1, NextProfile
            <3>3. Spent(x) = s + (1 + b) + q
                <4>1. Spent(x) = ((p + 1) - 1) * (1 + MaxTransientRetries)
                                   + (MaxTransientRetries - MaxTransientRetries) + q
                    BY <2>4, <2>6, <3>1 DEF Spent
                <4>2. ((p + 1) - 1) * (1 + MaxTransientRetries)
                         + (MaxTransientRetries - MaxTransientRetries) + q
                        = (p - 1) * (1 + MaxTransientRetries)
                            + (1 + MaxTransientRetries) + q
                    BY <3>1, NextProfile
                <4>3. QED
                    BY <3>1, <3>2, <4>1, <4>2
            <3>4. Spent(call[c]) = s + (b - b) + q
                BY <2>6, <3>1, <3>2 DEF Spent
            <3>5. a <= s + (b - b) + q
                BY <1>1, <1>2, <3>1, <3>4 DEF Budgeted
            <3>6. a <= s + (1 + b) + q
                BY <3>5
            <3>7. QED
                BY <2>4, <3>1, <3>3, <3>6
        <2>8. Budgeted(x)
            <3>1. x.retries = MaxTransientRetries
                BY <2>4, <2>6
            <3>2. Spent(x) \in Nat /\ Spent(x) <= Allowed /\ Allowed \in Nat
                BY <2>4, <3>1, BudgetArithmetic
            <3>3. x.attempt \in Nat
                BY <2>4 DEF Record
            <3>4. QED
                BY <2>4, <2>7, <3>1, <3>2, <3>3 DEF Budgeted
        <2>9. Accounted(x, observed[c])
            BY <1>1, <1>2, <2>4 DEF Accounted
        <2>10. Unmixed(x, sent[c])
            BY <1>4 DEF Unmixed
        <2>11. QED
            BY <1>1, <1>2, <2>4, <2>5, <2>8, <2>9, <2>10, CallStep, CallFacts
    <1>7. QED
        BY <1>5, <1>6

\* An attempt starts: until it ends it is one more than the call has paid for.
LEMMA AttemptInv ==
    ASSUME GatewayInv, NEW c \in Calls, Attempt(c)
    PROVE  GatewayInv'
    <1>1. /\ call[c].pc = "routing" /\ UNCHANGED sent /\ OnChannel(call[c])
        BY DEF Attempt, OnChannel
    <1>2. /\ call[c] \in Record /\ observed[c] \in Counts
          /\ Budgeted(call[c]) /\ Accounted(call[c], observed[c])
          /\ Unmixed(call[c], sent[c])
        BY CallFacts
    <1>3. \A m \in sent[c] : ~m.visible
        BY <1>1, <1>2 DEF Unmixed
    <1>4. PICK p \in {"streaming", "awaiting"} :
            p = IF Streams(c) THEN "streaming" ELSE "awaiting"
        OBVIOUS
    <1>5. PICK x : x = [call[c] EXCEPT !.pc = p, !.attempt = call[c].attempt + 1]
        OBVIOUS
    <1>6. /\ x \in Record /\ x.pc = p /\ x.kind = call[c].kind
          /\ x.profile = call[c].profile /\ x.attempt = call[c].attempt + 1
          /\ x.retries = call[c].retries /\ x.repairs = call[c].repairs
        <2>1. call[c].attempt + 1 \in Nat
            BY <1>2 DEF Record
        <2>2. QED
            BY <1>2, <1>4, <1>5, <2>1 DEF Record
    <1>7. call' = [call EXCEPT ![c] = x]
        BY <1>4, <1>5 DEF Attempt, GatewayInv, GatewayTypes
    <1>8. OnChannel(x) /\ Spent(x) = Spent(call[c])
        BY <1>1, <1>6 DEF OnChannel, Spent
    <1>9. Budgeted(x)
        <2>1. PICK t \in Nat, w \in Nat : t = Spent(x) /\ w = Allowed /\ t + 1 <= w
            BY <1>6, <1>8, BudgetArithmetic
        <2>2. PICK a \in Nat : a = call[c].attempt /\ a <= t
            BY <1>1, <1>2, <1>8, <2>1 DEF Budgeted, Record
        <2>3. x.attempt <= t + 1 /\ x.attempt <= w
            BY <1>6, <2>1, <2>2
        <2>4. QED
            BY <1>4, <1>6, <1>8, <2>1, <2>3 DEF Budgeted
    <1>10. Unmixed(x, sent[c])
        BY <1>3 DEF Unmixed
    <1>11. CASE Streams(c)
        <2>1. observed' = [observed EXCEPT ![c] = observed[c]]
            BY <1>11, CallFacts DEF Attempt
        <2>2. Accounted(x, observed[c])
            BY <1>4, <1>6, <1>11 DEF Accounted, Streams
        <2>3. QED
            BY <1>1, <1>2, <1>6, <1>7, <1>9, <1>10, <2>1, <2>2, CallStep, CallFacts
    <1>12. CASE ~Streams(c)
        <2>1. PICK o : o = [observed[c] EXCEPT !.started = observed[c].started + 1]
            OBVIOUS
        <2>2. /\ o \in Counts /\ o.started = observed[c].started + 1
              /\ o.completed = observed[c].completed /\ o.failed = observed[c].failed
            BY <1>2, <2>1 DEF Counts
        <2>3. observed' = [observed EXCEPT ![c] = o]
            BY <1>12, <2>1 DEF Attempt, Observe, GatewayInv, GatewayTypes
        <2>4. Accounted(x, o)
            BY <1>1, <1>2, <1>4, <1>6, <1>12, <2>2 DEF Accounted, Streams, Counts, Record
        <2>5. QED
            BY <1>1, <1>2, <1>6, <1>7, <1>9, <1>10, <2>2, <2>3, <2>4, CallStep, CallFacts
    <1>13. QED
        BY <1>11, <1>12

\* A failed attempt of complete: recorded, then retried, raised or passed on.
LEMMA FailedInv ==
    ASSUME GatewayInv, NEW c \in Calls, NEW code \in Codes, Failed(c, code),
           call[c].pc = "awaiting", UNCHANGED sent
    PROVE  GatewayInv'
    <1>1. /\ call[c] \in Record /\ observed[c] \in Counts
          /\ Budgeted(call[c]) /\ Accounted(call[c], observed[c])
          /\ Unmixed(call[c], sent[c])
        BY CallFacts
    <1>2. PICK o : o = [observed[c] EXCEPT !.failed = observed[c].failed + 1]
        OBVIOUS
    <1>3. /\ o \in Counts /\ o.failed = observed[c].failed + 1
          /\ o.completed = observed[c].completed /\ o.started = observed[c].started
        BY <1>1, <1>2 DEF Counts
    <1>4. observed' = [observed EXCEPT ![c] = o]
        BY <1>2 DEF Failed, Observe, GatewayInv, GatewayTypes
    <1>5. Closed(call[c], o)
        BY <1>1, <1>3 DEF Closed, Accounted, Counts, Record
    <1>6. \A m \in sent[c] : ~m.visible
        BY <1>1 DEF Unmixed
    <1>7. CASE MayRetry(c, code) /\ TryAgain(c, code)
        BY <1>3, <1>4, <1>5, <1>6, <1>7, TryAgainStep DEF MayRetry
    <1>8. CASE Raise(c, code)
        BY <1>3, <1>4, <1>5, <1>6, <1>8, RaiseStep
    <1>9. CASE Fallback(c, code)
        BY <1>3, <1>4, <1>5, <1>6, <1>9, FallbackStep
    <1>10. QED
        BY <1>7, <1>8, <1>9 DEF Failed

\* The answer of complete: a failure, a repair that pays for the next attempt,
\* or the result.
LEMMA AnswerInv ==
    ASSUME GatewayInv, NEW c \in Calls,
           ChannelFails(c) \/ InvalidAnswer(c) \/ Return(c)
    PROVE  GatewayInv'
    <1>1. /\ call[c].pc = "awaiting" /\ UNCHANGED sent
        BY DEF ChannelFails, InvalidAnswer, Return
    <1>2. /\ call[c] \in Record /\ observed[c] \in Counts
          /\ Budgeted(call[c]) /\ Accounted(call[c], observed[c])
          /\ Unmixed(call[c], sent[c])
        BY CallFacts
    <1>3. \A m \in sent[c] : ~m.visible
        BY <1>1, <1>2 DEF Unmixed
    <1>4. CASE \E code \in Codes : Failed(c, code)
        BY <1>1, <1>4, FailedInv
    <1>5. CASE /\ call[c].kind = "structured" /\ call[c].repairs < MaxRepairs
               /\ call' = [call EXCEPT ![c].pc = "routing", ![c].repairs = @ + 1]
               /\ UNCHANGED observed
        <2>1. PICK x : x = [call[c] EXCEPT !.pc = "routing",
                                           !.repairs = call[c].repairs + 1]
            OBVIOUS
        <2>2. call[c].repairs + 1 \in 0..MaxRepairs
            BY <1>2, <1>5, RouteAssumption DEF Record
        <2>3. /\ x \in Record /\ x.pc = "routing" /\ x.kind = call[c].kind
              /\ x.profile = call[c].profile /\ x.attempt = call[c].attempt
              /\ x.retries = call[c].retries /\ x.repairs = call[c].repairs + 1
            BY <1>2, <2>1, <2>2 DEF Record
        <2>4. call' = [call EXCEPT ![c] = x]
            BY <1>5, <2>1 DEF GatewayInv, GatewayTypes
        <2>5. OnChannel(x) /\ OnChannel(call[c])
            BY <1>1, <1>2, <2>3 DEF OnChannel, Budgeted
        <2>6. x.attempt <= Spent(x)
            <3>1. PICK s \in Nat, b \in Nat, r \in Nat, q \in Nat, a \in Nat :
                    /\ s = (x.profile - 1) * (1 + MaxTransientRetries)
                    /\ b = MaxTransientRetries /\ r = call[c].retries
                    /\ q = call[c].repairs /\ a = call[c].attempt
                <4>1. /\ x.profile \in Nat /\ x.profile >= 1
                      /\ call[c].repairs \in Nat /\ call[c].retries \in Nat
                      /\ call[c].attempt \in Nat /\ MaxTransientRetries \in Nat
                    BY <1>2, <2>3, RouteAssumption DEF Record
                <4>2. (x.profile - 1) * (1 + MaxTransientRetries) \in Nat
                    BY <4>1, NextProfile
                <4>3. QED
                    BY <4>1, <4>2
            <3>2. Spent(call[c]) = s + (b - r) + q /\ Spent(x) = s + (b - r) + (q + 1)
                BY <2>3, <3>1 DEF Spent
            <3>3. a <= s + (b - r) + q + 1
                BY <1>1, <1>2, <3>1, <3>2 DEF Budgeted
            <3>4. a <= s + (b - r) + (q + 1)
                BY <3>3
            <3>5. QED
                BY <2>3, <3>1, <3>2, <3>4
        <2>7. Budgeted(x)
            <3>1. Spent(x) \in Nat /\ Spent(x) <= Allowed /\ Allowed \in Nat
                BY <2>3, <2>5, BudgetArithmetic
            <3>2. x.attempt \in Nat
                BY <2>3 DEF Record
            <3>3. QED
                BY <2>3, <2>5, <2>6, <3>1, <3>2 DEF Budgeted
        <2>8. Accounted(x, observed[c])
            BY <1>1, <1>2, <2>3 DEF Accounted, Counts, Record
        <2>9. Unmixed(x, sent[c])
            BY <1>3 DEF Unmixed
        <2>10. QED
            BY <1>1, <1>2, <1>5, <2>3, <2>4, <2>7, <2>8, <2>9, CallStep, CallFacts
    <1>6. CASE Return(c)
        <2>1. PICK x, o : /\ x = [call[c] EXCEPT !.pc = "returned"]
                          /\ o = [observed[c] EXCEPT !.completed = observed[c].completed + 1]
            OBVIOUS
        <2>2. /\ x \in Record /\ x.pc = "returned" /\ x.kind = call[c].kind
              /\ x.profile = call[c].profile /\ x.attempt = call[c].attempt
              /\ x.retries = call[c].retries /\ x.repairs = call[c].repairs
            BY <1>2, <2>1 DEF Record
        <2>3. /\ o \in Counts /\ o.completed = observed[c].completed + 1
              /\ o.started = observed[c].started /\ o.failed = observed[c].failed
            BY <1>2, <2>1 DEF Counts
        <2>4. call' = [call EXCEPT ![c] = x] /\ observed' = [observed EXCEPT ![c] = o]
            BY <1>6, <2>1 DEF Return, Observe, GatewayInv, GatewayTypes
        <2>5. Budgeted(x)
            BY <1>2, <2>2 DEF Budgeted, OnChannel
        <2>6. Accounted(x, o)
            BY <1>1, <1>2, <2>2, <2>3 DEF Accounted, Counts, Record
        <2>7. Unmixed(x, sent[c])
            BY <1>3 DEF Unmixed
        <2>8. QED
            BY <1>1, <1>2, <2>2, <2>3, <2>4, <2>5, <2>6, <2>7, CallStep, CallFacts
    <1>7. ChannelFails(c) => \E code \in Codes : Failed(c, code)
        BY RouteAssumption DEF ChannelFails
    <1>8. "invalid_tool_arguments" \in Codes /\ "invalid_structured_output" \in Codes
        BY DEF Codes, Raised
    <1>9. QED
        BY <1>4, <1>5, <1>6, <1>7, <1>8 DEF InvalidAnswer

\* A stream: chunks come from the attempt in flight, and only one that has shown
\* nothing is tried again.
LEMMA StreamInv ==
    ASSUME GatewayInv, NEW c \in Calls,
           Chunk(c) \/ StreamEnds(c) \/ StreamFails(c)
    PROVE  GatewayInv'
    <1>1. /\ call[c].pc = "streaming"
          /\ observed' = [observed EXCEPT ![c] = observed[c]]
        BY CallFacts DEF Chunk, StreamEnds, StreamFails
    <1>2. /\ call[c] \in Record /\ observed[c] \in Counts
          /\ sent[c] \in SUBSET [attempt : Nat, visible : BOOLEAN]
          /\ Budgeted(call[c]) /\ Accounted(call[c], observed[c])
          /\ Unmixed(call[c], sent[c])
        BY CallFacts
    <1>3. Closed(call[c], observed[c]) /\ call[c].kind = "stream"
        BY <1>1, <1>2 DEF Closed, Accounted
    <1>4. \A m \in sent[c] : m.visible => m.attempt = call[c].attempt
        BY <1>2 DEF Unmixed
    <1>5. CASE Chunk(c)
        <2>1. PICK v \in BOOLEAN :
                sent' = [sent EXCEPT ![c] = @ \cup {[attempt |-> call[c].attempt,
                                                     visible |-> v]}]
            BY <1>5 DEF Chunk
        <2>2. PICK s : s = sent[c] \cup {[attempt |-> call[c].attempt, visible |-> v]}
            OBVIOUS
        <2>3. s \in SUBSET [attempt : Nat, visible : BOOLEAN]
            BY <1>2, <2>2 DEF Record
        <2>4. sent' = [sent EXCEPT ![c] = s]
            BY <2>1, <2>2 DEF GatewayInv, GatewayTypes
        <2>5. Unmixed(call[c], s)
            BY <1>1, <1>4, <2>2 DEF Unmixed
        <2>6. call' = [call EXCEPT ![c] = call[c]]
            BY <1>5, CallFacts DEF Chunk
        <2>7. QED
            BY <1>1, <1>2, <2>3, <2>4, <2>5, <2>6, CallStep
    <1>6. ASSUME NEW p \in {"returned", "partial"}, NEW e \in Codes \cup {NoError},
                 call' = [call EXCEPT ![c].pc = p, ![c].error = e], UNCHANGED sent
          PROVE  GatewayInv'
        <2>1. PICK x : x = [call[c] EXCEPT !.pc = p, !.error = e]
            OBVIOUS
        <2>2. /\ x \in Record /\ x.pc = p /\ x.kind = call[c].kind
              /\ x.profile = call[c].profile /\ x.attempt = call[c].attempt
              /\ x.retries = call[c].retries /\ x.repairs = call[c].repairs
            BY <1>2, <2>1 DEF Record
        <2>3. call' = [call EXCEPT ![c] = x]
            BY <1>6, <2>1 DEF GatewayInv, GatewayTypes
        <2>4. Budgeted(x)
            BY <1>2, <2>2 DEF Budgeted, OnChannel
        <2>5. Accounted(x, observed[c])
            BY <1>3, <2>2 DEF Accounted
        <2>6. Unmixed(x, sent[c])
            BY <1>4, <2>2 DEF Unmixed
        <2>7. QED
            BY <1>1, <1>2, <1>6, <2>2, <2>3, <2>4, <2>5, <2>6, CallStep, CallFacts
    <1>7. CASE StreamEnds(c)
        <2>1. call' = [call EXCEPT ![c].pc = "returned", ![c].error = call[c].error]
            BY <1>2, <1>7 DEF StreamEnds, GatewayInv, GatewayTypes, Record
        <2>2. call[c].error \in Codes \cup {NoError}
            BY <1>2 DEF Record
        <2>3. PICK e \in Codes \cup {NoError} : e = call[c].error
            BY <2>2
        <2>4. QED
            BY <1>6, <1>7, <2>1, <2>3 DEF StreamEnds
    <1>8. CASE StreamFails(c)
        <2>0. UNCHANGED sent
            BY <1>8 DEF StreamFails
        <2>1. PICK code \in Codes :
                \/ /\ Visible(c)
                   /\ call' = [call EXCEPT ![c].pc = "partial",
                           ![c].error = IF code \in {"timeout", "upstream_unavailable",
                                                     "invalid_response"}
                                        THEN "interrupted_stream" ELSE code]
                \/ ~Visible(c) /\ MayRetry(c, code) /\ TryAgain(c, code)
                \/ ~Visible(c) /\ code \notin Transient /\ Raise(c, code)
                \/ ~Visible(c) /\ ~MayRetry(c, code) /\ code \in Transient
                     /\ Fallback(c, code)
            BY <1>8, RouteAssumption DEF StreamFails
        <2>2. ~Visible(c) => \A m \in sent[c] : ~m.visible
            <3>1. ASSUME NEW m \in sent[c], m.visible PROVE Visible(c)
                <4>1. m \in [attempt : Nat, visible : BOOLEAN]
                    BY <1>2
                <4>2. m.attempt = call[c].attempt /\ m.visible = TRUE
                    BY <1>4, <3>1, <4>1
                <4>3. m = [attempt |-> call[c].attempt, visible |-> TRUE]
                    BY <4>1, <4>2
                <4>4. QED
                    BY <4>3 DEF Visible
            <3>2. QED
                BY <3>1
        <2>3. CASE Visible(c)
            <3>1. PICK e \in Codes : e = IF code \in {"timeout", "upstream_unavailable",
                                                     "invalid_response"}
                                        THEN "interrupted_stream" ELSE code
                BY DEF Codes
            <3>2. call' = [call EXCEPT ![c].pc = "partial", ![c].error = e]
                BY <2>1, <2>3, <3>1
            <3>3. QED
                BY <1>6, <2>0, <3>2
        <2>4. CASE ~Visible(c) /\ MayRetry(c, code) /\ TryAgain(c, code)
            BY <1>1, <1>2, <1>3, <2>0, <2>2, <2>4, TryAgainStep DEF MayRetry
        <2>5. CASE ~Visible(c) /\ Raise(c, code)
            BY <1>1, <1>2, <1>3, <1>4, <2>0, <2>5, RaiseStep
        <2>6. CASE ~Visible(c) /\ Fallback(c, code)
            BY <1>1, <1>2, <1>3, <2>0, <2>2, <2>6, FallbackStep
        <2>7. QED
            BY <2>1, <2>3, <2>4, <2>5, <2>6
    <1>9. QED
        BY <1>5, <1>7, <1>8

\* An exception that is no ModelFailure leaves the attempt open.
LEMMA EscapeInv ==
    ASSUME GatewayInv, NEW c \in Calls, Escapes(c)
    PROVE  GatewayInv'
    <1>1. /\ call[c].pc \in {"awaiting", "streaming"} /\ UNCHANGED <<sent, observed>>
          /\ call' = [call EXCEPT ![c].pc = "escaped"]
        BY DEF Escapes
    <1>2. /\ call[c] \in Record /\ observed[c] \in Counts
          /\ sent[c] \in SUBSET [attempt : Nat, visible : BOOLEAN]
          /\ Budgeted(call[c]) /\ Accounted(call[c], observed[c])
          /\ Unmixed(call[c], sent[c])
        BY CallFacts
    <1>3. PICK x : x = [call[c] EXCEPT !.pc = "escaped"]
        OBVIOUS
    <1>4. /\ x \in Record /\ x.pc = "escaped" /\ x.kind = call[c].kind
          /\ x.profile = call[c].profile /\ x.attempt = call[c].attempt
          /\ x.retries = call[c].retries /\ x.repairs = call[c].repairs
        BY <1>2, <1>3 DEF Record
    <1>5. call' = [call EXCEPT ![c] = x]
        BY <1>1, <1>3 DEF GatewayInv, GatewayTypes
    <1>6. Budgeted(x)
        BY <1>2, <1>4 DEF Budgeted, OnChannel
    <1>7. Accounted(x, observed[c])
        BY <1>1, <1>2, <1>4 DEF Accounted
    <1>8. Unmixed(x, sent[c])
        BY <1>2, <1>4 DEF Unmixed
    <1>9. QED
        BY <1>1, <1>2, <1>4, <1>5, <1>6, <1>7, <1>8, CallStep, CallFacts
-----------------------------------------------------------------------------
(***************************************************************************)
(* The key cache.                                                          *)
(***************************************************************************)

KeyTypes ==
    /\ published \subseteq Keys
    /\ retired \in [Keys -> 0..CacheTicks]
    /\ cache \in [keys : SUBSET Keys, age : 0..CacheTicks]
    /\ auth \in [Bearers -> Token]

\* The age of a set of keys bounds the time since each of them was served: for
\* the cache while it may be used, and for an answer that is being read.
AgesBound ==
    /\ \A k \in published : retired[k] = 0
    /\ cache.age < CacheTicks => \A k \in cache.keys : retired[k] <= cache.age
    /\ \A c \in Bearers : auth[c].pc = "answered" =>
          \A k \in auth[c].keys : retired[k] <= auth[c].age

KeyInv == KeyTypes /\ AgesBound /\ AcceptedKeyFresh

\* The cache starts empty and too old to be used.
LEMMA KeyInitInv == KeyInit => KeyInv
    <1> SUFFICES ASSUME KeyInit PROVE KeyInv
        OBVIOUS
    <1>1. KeyTypes
        <2>1. cache \in [keys : SUBSET Keys, age : 0..CacheTicks]
            BY WindowAssumption DEF KeyInit
        <2>2. retired \in [Keys -> 0..CacheTicks]
            BY WindowAssumption DEF KeyInit
        <2>3. NewTokens \subseteq Token
            BY DEF NewTokens
        <2>4. QED
            BY <2>1, <2>2, <2>3 DEF KeyTypes, KeyInit
    <1>2. \A c \in Bearers : auth[c].pc = "new"
        BY DEF KeyInit, NewTokens
    <1>3. cache.age = CacheTicks
        BY DEF KeyInit
    <1>4. AgesBound
        BY <1>2, <1>3, WindowAssumption DEF AgesBound, KeyInit
    <1>5. AcceptedKeyFresh
        BY <1>2 DEF AcceptedKeyFresh
    <1>6. QED
        BY <1>1, <1>4, <1>5 DEF KeyInv

\* A step of request c that leaves the cache alone keeps the invariant when its
\* new token fits.
LEMMA TokenStep ==
    ASSUME KeyInv, NEW c \in Bearers, NEW t \in Token,
           auth' = [auth EXCEPT ![c] = t], UNCHANGED <<published, retired>>,
           NEW K \in SUBSET Keys, NEW a \in 0..CacheTicks,
           cache' = [keys |-> K, age |-> a],
           a < CacheTicks => \A k \in K : retired[k] <= a,
           t.pc = "answered" => \A k \in t.keys : retired[k] <= t.age,
           t.pc = "accepted" => t.seen < CacheTicks
    PROVE  KeyInv'
    <1>1. /\ auth'[c] = t /\ \A d \in Bearers : d # c => auth'[d] = auth[d]
        BY DEF KeyInv, KeyTypes
    <1>2. KeyTypes'
        BY DEF KeyInv, KeyTypes
    <1>3. cache'.keys = K /\ cache'.age = a
        OBVIOUS
    <1>4. AgesBound'
        BY <1>1, <1>3 DEF KeyInv, AgesBound
    <1>5. AcceptedKeyFresh'
        BY <1>1 DEF KeyInv, AcceptedKeyFresh
    <1>6. QED
        BY <1>2, <1>4, <1>5 DEF KeyInv

\* The steps of one request through authenticate and _key.
LEMMA KeyStepInv ==
    ASSUME KeyInv, NEW c \in Bearers, KeyStep(c)
    PROVE  KeyInv'
    <1>1. /\ auth[c] \in Token /\ published \in SUBSET Keys
          /\ auth \in [Bearers -> Token] /\ retired \in [Keys -> 0..CacheTicks]
          /\ cache \in [keys : SUBSET Keys, age : 0..CacheTicks]
        BY DEF KeyInv, KeyTypes
    <1>2. PICK K \in SUBSET Keys, a \in 0..CacheTicks :
            K = cache.keys /\ a = cache.age
        BY <1>1
    <1>3. /\ cache = [keys |-> K, age |-> a]
          /\ a < CacheTicks => \A k \in K : retired[k] <= a
        BY <1>1, <1>2 DEF KeyInv, AgesBound
    <1>4. 0 \in 0..FetchTicks
        BY WindowAssumption
    <1>5. UNCHANGED <<published, retired>>
        BY DEF KeyStep, Authenticate, EnterLock, ProviderAnswers, Loaded, DownloadFails
    <1>6. ASSUME Accept(c), retired[auth[c].kid] < CacheTicks,
                 NEW L \in SUBSET Keys, NEW b \in 0..CacheTicks,
                 cache' = [keys |-> L, age |-> b],
                 b < CacheTicks => \A k \in L : retired[k] <= b
          PROVE  KeyInv'
        <2>1. PICK t : t = [auth[c] EXCEPT !.pc = "accepted", !.keys = {}, !.age = 0,
                                           !.seen = retired[auth[c].kid]]
            OBVIOUS
        <2>2. retired[auth[c].kid] \in 0..CacheTicks
            BY <1>1 DEF Token
        <2>3. t \in Token /\ t.pc = "accepted" /\ t.seen = retired[auth[c].kid]
            BY <1>1, <1>4, <2>1, <2>2 DEF Token, AuthPc
        <2>4. auth' = [auth EXCEPT ![c] = t]
            BY <1>1, <1>6, <2>1 DEF Accept
        <2>5. t.seen < CacheTicks /\ t.pc # "answered"
            BY <1>6, <2>3
        <2>6. QED
            BY <1>5, <1>6, <2>3, <2>4, <2>5, TokenStep
    <1>7. ASSUME Refuse(c),
                 NEW L \in SUBSET Keys, NEW b \in 0..CacheTicks,
                 cache' = [keys |-> L, age |-> b],
                 b < CacheTicks => \A k \in L : retired[k] <= b
          PROVE  KeyInv'
        <2>1. PICK t : t = [auth[c] EXCEPT !.pc = "refused", !.keys = {}, !.age = 0]
            OBVIOUS
        <2>2. t \in Token /\ t.pc = "refused"
            BY <1>1, <1>4, <2>1 DEF Token, AuthPc
        <2>3. auth' = [auth EXCEPT ![c] = t]
            BY <1>1, <1>7, <2>1 DEF Refuse
        <2>4. QED
            BY <1>5, <1>7, <2>2, <2>3, TokenStep
    <1>8. Usable(auth[c].kid) => retired[auth[c].kid] < CacheTicks
        <2>1. ASSUME Usable(auth[c].kid) PROVE retired[auth[c].kid] < CacheTicks
            <3>1. auth[c].kid \in K /\ a < CacheTicks
                BY <1>2, <2>1 DEF Usable
            <3>2. retired[auth[c].kid] <= a /\ retired[auth[c].kid] \in 0..CacheTicks
                BY <1>1, <1>3, <3>1
            <3>3. QED
                BY <3>1, <3>2, WindowAssumption
        <2>2. QED
            BY <2>1
    <1>9. CASE UNCHANGED cache /\ Usable(auth[c].kid) /\ Accept(c)
        BY <1>3, <1>6, <1>8, <1>9
    <1>10. CASE UNCHANGED cache /\ Refuse(c)
        BY <1>3, <1>7, <1>10
    <1>11. CASE UNCHANGED cache /\ auth' = [auth EXCEPT ![c].pc = "queued"]
        <2>1. PICK t : t = [auth[c] EXCEPT !.pc = "queued"]
            OBVIOUS
        <2>2. t \in Token /\ t.pc = "queued"
            BY <1>1, <2>1 DEF Token, AuthPc
        <2>3. auth' = [auth EXCEPT ![c] = t]
            BY <1>1, <1>11, <2>1
        <2>4. /\ cache' = [keys |-> K, age |-> a]
              /\ t.pc # "answered" /\ t.pc # "accepted"
            BY <1>3, <1>11, <2>2
        <2>5. QED
            BY <1>3, <1>5, <2>2, <2>3, <2>4, TokenStep
    <1>12. CASE /\ UNCHANGED cache
                /\ auth' = [auth EXCEPT ![c].pc = "fetching", ![c].age = 0]
        <2>1. PICK t : t = [auth[c] EXCEPT !.pc = "fetching", !.age = 0]
            OBVIOUS
        <2>2. t \in Token /\ t.pc = "fetching"
            BY <1>1, <1>4, <2>1 DEF Token, AuthPc
        <2>3. auth' = [auth EXCEPT ![c] = t]
            BY <1>1, <1>12, <2>1
        <2>4. /\ cache' = [keys |-> K, age |-> a]
              /\ t.pc # "answered" /\ t.pc # "accepted"
            BY <1>3, <1>12, <2>2
        <2>5. QED
            BY <1>3, <1>5, <2>2, <2>3, <2>4, TokenStep
    <1>13. CASE ProviderAnswers(c)
        <2>1. PICK t : t = [auth[c] EXCEPT !.pc = "answered", !.keys = published]
            OBVIOUS
        <2>2. t \in Token /\ t.pc = "answered" /\ t.keys = published /\ t.age = auth[c].age
            BY <1>1, <2>1 DEF Token, AuthPc
        <2>3. auth' = [auth EXCEPT ![c] = t] /\ UNCHANGED cache
            BY <1>1, <1>13, <2>1 DEF ProviderAnswers
        <2>4. \A k \in t.keys : retired[k] <= t.age
            BY <1>1, <2>2, WindowAssumption DEF KeyInv, AgesBound, Token
        <2>5. QED
            BY <1>3, <1>5, <2>2, <2>3, <2>4, TokenStep
    <1>14. CASE Loaded(c) /\ auth[c].keys # {}
        <2>1. PICK L \in SUBSET Keys, b \in 0..FetchTicks :
                L = auth[c].keys /\ b = auth[c].age
            BY <1>1 DEF Token
        <2>2. /\ cache' = [keys |-> L, age |-> b] /\ b \in 0..CacheTicks /\ b < CacheTicks
            BY <1>14, <2>1, WindowAssumption DEF Loaded, LoadedAge
        <2>3. \A k \in L : retired[k] <= b
            BY <1>14, <2>1 DEF Loaded, KeyInv, AgesBound
        <2>4. CASE auth[c].kid \in L /\ Accept(c)
            <3>1. retired[auth[c].kid] <= b /\ retired[auth[c].kid] \in 0..CacheTicks
                BY <1>1, <2>3, <2>4
            <3>2. retired[auth[c].kid] < CacheTicks
                BY <2>2, <3>1, WindowAssumption
            <3>3. QED
                BY <1>6, <2>2, <2>3, <2>4, <3>2
        <2>5. CASE Refuse(c)
            BY <1>7, <2>2, <2>3, <2>5
        <2>6. QED
            BY <1>14, <2>1, <2>4, <2>5 DEF Loaded
    <1>15. QED
        BY <1>9, <1>10, <1>11, <1>12, <1>13, <1>14
           DEF KeyStep, Authenticate, EnterLock, Loaded, DownloadFails

\* The clock and the rotation: what is being read and what is cached ages at
\* least as fast as the keys in it.
LEMMA ClockInv ==
    ASSUME KeyInv, RotateKeys \/ Tick
    PROVE  KeyInv'
    <1>1. /\ published \subseteq Keys /\ auth \in [Bearers -> Token]
          /\ retired \in [Keys -> 0..CacheTicks]
          /\ cache \in [keys : SUBSET Keys, age : 0..CacheTicks]
        BY DEF KeyInv, KeyTypes
    <1>2. CASE RotateKeys
        <2>1. PICK K \in SUBSET Keys :
                /\ published' = K
                /\ retired' = [k \in Keys |-> IF k \in K \cup published THEN 0
                                              ELSE retired[k]]
            BY <1>2 DEF RotateKeys
        <2>2. UNCHANGED <<cache, auth>>
            BY <1>2 DEF RotateKeys
        <2>3. \A k \in Keys : retired'[k] <= retired[k] /\ retired'[k] \in 0..CacheTicks
            BY <1>1, <2>1, WindowAssumption
        <2>4. KeyTypes'
            BY <1>1, <2>1, <2>2, <2>3 DEF KeyTypes
        <2>5. \A k \in published' : retired'[k] = 0
            BY <1>1, <2>1
        <2>6. ASSUME cache.age < CacheTicks, NEW k \in cache.keys
              PROVE  retired'[k] <= cache.age
            <3>1. /\ retired[k] <= cache.age /\ k \in Keys /\ cache.age \in 0..CacheTicks
                  /\ retired[k] \in 0..CacheTicks
                BY <1>1, <2>6 DEF KeyInv, AgesBound
            <3>2. QED
                BY <2>3, <3>1, WindowAssumption
        <2>7. ASSUME NEW c \in Bearers, auth[c].pc = "answered", NEW k \in auth[c].keys
              PROVE  retired'[k] <= auth[c].age
            <3>1. /\ auth[c] \in Token /\ retired[k] <= auth[c].age
                BY <1>1, <2>7 DEF KeyInv, AgesBound
            <3>2. k \in Keys /\ auth[c].age \in 0..FetchTicks
                BY <2>7, <3>1 DEF Token
            <3>3. QED
                BY <1>1, <2>3, <3>1, <3>2, WindowAssumption
        <2>8. AgesBound'
            BY <2>2, <2>5, <2>6, <2>7 DEF AgesBound
        <2>9. AcceptedKeyFresh'
            BY <2>2 DEF KeyInv, AcceptedKeyFresh
        <2>10. QED
            BY <2>4, <2>8, <2>9 DEF KeyInv
    <1>3. CASE Tick
        <2>1. /\ UNCHANGED published
              /\ retired' = [k \in Keys |-> IF k \in published THEN 0 ELSE Older(retired[k])]
              /\ cache' = [cache EXCEPT !.age = Older(cache.age)]
              /\ \A c \in Bearers : auth'[c] =
                    IF auth[c].pc \in {"fetching", "answered"}
                    THEN [auth[c] EXCEPT !.age = auth[c].age + 1] ELSE auth[c]
              /\ auth' = [c \in Bearers |-> auth'[c]]
            BY <1>3 DEF Tick
        <2>2. \A n \in 0..CacheTicks : /\ Older(n) \in 0..CacheTicks /\ Older(n) <= n + 1
                                       /\ Older(n) < CacheTicks => n < CacheTicks
                                       /\ n < CacheTicks => Older(n) = n + 1
            BY WindowAssumption DEF Older
        <2>3. \A k \in Keys : retired'[k] <= retired[k] + 1 /\ retired'[k] \in 0..CacheTicks
            BY <1>1, <2>1, <2>2, WindowAssumption
        <2>4. cache'.age = Older(cache.age) /\ cache'.keys = cache.keys
            BY <1>1, <2>1
        <2>5. cache' \in [keys : SUBSET Keys, age : 0..CacheTicks]
            <3>1. Older(cache.age) \in 0..CacheTicks
                BY <1>1, <2>2
            <3>2. QED
                BY <1>1, <2>1, <3>1
        <2>6. ASSUME NEW c \in Bearers
              PROVE  /\ auth'[c] \in Token /\ auth'[c].pc = auth[c].pc
                     /\ auth'[c].keys = auth[c].keys /\ auth'[c].seen = auth[c].seen
                     /\ auth[c].pc = "answered" => auth'[c].age = auth[c].age + 1
            <3>1. auth[c] \in Token
                BY <1>1
            <3>2. CASE auth[c].pc \in {"fetching", "answered"}
                <4>1. auth[c].age < FetchTicks
                    BY <1>3, <3>2 DEF Tick
                <4>2. auth[c].age + 1 \in 0..FetchTicks
                    BY <3>1, <4>1, WindowAssumption DEF Token
                <4>3. auth'[c] = [auth[c] EXCEPT !.age = auth[c].age + 1]
                    BY <2>1, <3>2
                <4>4. QED
                    BY <3>1, <4>2, <4>3 DEF Token
            <3>3. CASE auth[c].pc \notin {"fetching", "answered"}
                BY <2>1, <3>1, <3>3
            <3>4. QED
                BY <3>2, <3>3
        <2>7. auth' \in [Bearers -> Token]
            BY <2>1, <2>6
        <2>8. KeyTypes'
            BY <1>1, <2>1, <2>3, <2>5, <2>7 DEF KeyTypes
        <2>9. \A k \in published' : retired'[k] = 0
            BY <1>1, <2>1
        <2>10. ASSUME cache'.age < CacheTicks, NEW k \in cache'.keys
               PROVE  retired'[k] <= cache'.age
            <3>1. k \in Keys /\ k \in cache.keys /\ cache.age \in 0..CacheTicks
                BY <1>1, <2>4, <2>10
            <3>2. cache.age < CacheTicks /\ cache'.age = cache.age + 1
                BY <2>2, <2>4, <2>10, <3>1
            <3>3. retired[k] <= cache.age
                BY <3>1, <3>2 DEF KeyInv, AgesBound
            <3>4. retired[k] \in 0..CacheTicks
                BY <1>1, <3>1
            <3>5. QED
                BY <2>3, <3>1, <3>2, <3>3, <3>4, WindowAssumption
        <2>11. ASSUME NEW c \in Bearers, auth'[c].pc = "answered", NEW k \in auth'[c].keys
               PROVE  retired'[k] <= auth'[c].age
            <3>1. /\ auth[c].pc = "answered" /\ k \in auth[c].keys
                  /\ auth'[c].age = auth[c].age + 1
                BY <2>6, <2>11
            <3>2. /\ auth[c] \in Token /\ retired[k] <= auth[c].age
                BY <1>1, <3>1 DEF KeyInv, AgesBound
            <3>3. k \in Keys /\ auth[c].age \in 0..FetchTicks
                BY <3>1, <3>2 DEF Token
            <3>4. retired[k] \in 0..CacheTicks
                BY <1>1, <3>3
            <3>5. QED
                BY <2>3, <3>1, <3>2, <3>3, <3>4, WindowAssumption
        <2>12. AgesBound'
            BY <2>9, <2>10, <2>11 DEF AgesBound
        <2>13. AcceptedKeyFresh'
            BY <2>6 DEF KeyInv, AcceptedKeyFresh
        <2>14. QED
            BY <2>8, <2>12, <2>13 DEF KeyInv
    <1>4. QED
        BY <1>2, <1>3

-----------------------------------------------------------------------------
(***************************************************************************)
(* The service.                                                            *)
(***************************************************************************)

\* Both invariants hold in every reachable state of the process.
THEOREM ServiceInvariant == ServiceSpec => [](KeyInv /\ GatewayInv)
    <1>1. ServiceInit => KeyInv /\ GatewayInv
        BY KeyInitInv, GatewayInitInv DEF ServiceInit
    <1>2. KeyInv /\ GatewayInv /\ [ServiceNext]_serviceVars => (KeyInv /\ GatewayInv)'
        <2> SUFFICES ASSUME KeyInv, GatewayInv, [ServiceNext]_serviceVars
                     PROVE  KeyInv' /\ GatewayInv'
            OBVIOUS
        <2>1. UNCHANGED keyVars => KeyInv'
            BY DEF keyVars, KeyInv, KeyTypes, AgesBound, AcceptedKeyFresh
        <2>2. UNCHANGED gatewayVars => GatewayInv'
            BY DEF gatewayVars, GatewayInv, GatewayTypes, Budgeted, Spent, OnChannel,
                   Accounted, Unmixed
        <2>3. ASSUME NEW b \in Bearers, KeyStep(b), UNCHANGED gatewayVars
              PROVE  KeyInv' /\ GatewayInv'
            BY <2>2, <2>3, KeyStepInv
        <2>4. ASSUME NEW c \in Calls, Serve(c) PROVE KeyInv' /\ GatewayInv'
            BY <2>1, <2>4, InvokeInv DEF Serve
        <2>5. ASSUME NEW c \in Calls, GatewayStep(c), UNCHANGED keyVars
              PROVE  KeyInv' /\ GatewayInv'
            BY <2>1, <2>5, RouteInv, AttemptInv, AnswerInv, StreamInv, EscapeInv
            DEF GatewayStep
        <2>6. CASE (RotateKeys \/ Tick) /\ UNCHANGED gatewayVars
            BY <2>2, <2>6, ClockInv
        <2>7. CASE UNCHANGED serviceVars
            BY <2>1, <2>2, <2>7 DEF serviceVars
        <2>8. QED
            BY <2>3, <2>4, <2>5, <2>6, <2>7 DEF ServiceNext
    <1>3. QED
        BY <1>1, <1>2, PTL DEF ServiceSpec

(***************************************************************************)
(* A request is accepted only on a key the provider served less than       *)
(* cache_seconds ago (OIDCAuthenticator._key), for every window longer     *)
(* than the download timeout.                                              *)
(***************************************************************************)
THEOREM AcceptedKeysAreFresh == ServiceSpec => []AcceptedKeyFresh
    BY ServiceInvariant, PTL DEF KeyInv

\* The caller of ModelGateway.stream sees visible output of one attempt only.
THEOREM StreamsAreNeverStitched == ServiceSpec => []NeverStitched
    <1>1. GatewayInv => NeverStitched
        BY DEF GatewayInv, Unmixed, NeverStitched
    <1>2. QED
        BY <1>1, ServiceInvariant, PTL

(***************************************************************************)
(* Every attempt of ModelGateway.complete is accounted for, and no call    *)
(* makes more attempts than its profiles, retries and repairs allow.       *)
(***************************************************************************)
THEOREM AttemptsAreAccounted == ServiceSpec => []AttemptsAccounted
    <1>1. GatewayInv => AttemptsAccounted
        <2> SUFFICES ASSUME GatewayInv, NEW c \in Calls
                     PROVE  /\ call[c].attempt <= Allowed
                            /\ ~Streams(c) =>
                                 /\ observed[c].started = call[c].attempt
                                 /\ Unclosed(c) = IF call[c].pc \in {"awaiting", "escaped"}
                                                  THEN 1 ELSE 0
                                 /\ observed[c].completed =
                                      IF call[c].pc = "returned" THEN 1 ELSE 0
            BY DEF AttemptsAccounted, Allowed
        <2>1. /\ call[c] \in Record /\ observed[c] \in Counts
              /\ Budgeted(call[c]) /\ Accounted(call[c], observed[c])
            BY CallFacts
        <2>2. QED
            BY <2>1 DEF Budgeted, Accounted, Unclosed, Streams, Record, Counts
    <1>2. QED
        BY <1>1, ServiceInvariant, PTL
=============================================================================
