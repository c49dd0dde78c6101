----------------------------- MODULE SourceHttp -----------------------------
(***************************************************************************)
(* Requests to the scholarly sources: SourceHttpClient.request              *)
(* (core/http.py) behind the token bucket of its source                     *)
(* (core/ratelimit.py), which the callers of one process share.             *)
(*                                                                         *)
(* Time is counted in ticks and kept relative: how long ago a bucket was    *)
(* refilled (negative while a penalty lies ahead), how long a caller still  *)
(* sleeps.  A token is Cost units and a tick refills Rate of them.          *)
(***************************************************************************)
EXTENDS Integers, Sequences

CONSTANTS Callers,       \* threads that call request()
          Servers,       \* one bucket each
          SourceOf,      \* the source each caller is bound to
          Rate, Cost,    \* SOURCE_LIMITS: Rate/Cost requests per tick
          Burst,         \* SOURCE_LIMITS: requests that may come at once
          MaxAttempts,   \* http_max_attempts
          RetryAfters,   \* Retry-After values a 429 carries
          DefaultPenalty, \* the 60 seconds of a 429 without one
          MaxBackoff,    \* the 30 seconds cap of _backoff
          Null

ASSUME LimitsArePositive == {Rate, Cost, Burst, MaxAttempts} \subseteq Nat \ {0}
ASSUME DelaysAreNatural  == RetryAfters \subseteq Nat /\ {DefaultPenalty, MaxBackoff} \subseteq Nat
ASSUME CallersAreBound   == SourceOf \in [Callers -> Servers]
ASSUME NullIsNoDelay     == Null \notin Nat

VARIABLES bucket,   \* per source: tokens, and the ticks since _updated
          caller,   \* per caller: where it is, its attempt, how long it sleeps
          grants,   \* history: ages of the source's last Burst + 1 tokens taken
          barred    \* history: ticks left of the source's latest 429

httpVars == <<bucket, caller, grants, barred>>

Least(a, b)    == IF a < b THEN a ELSE b
Greatest(a, b) == IF a > b THEN a ELSE b
CeilDiv(a, b)  == (a + b - 1) \div b

Capacity == Burst * Cost
\* After so many ticks a bucket is full whatever it held.
Full     == CeilDiv(Capacity, Rate)
Spacing  == CeilDiv(Cost, Rate)

Penalty(retryAfter) == IF retryAfter \in {Null, 0} THEN DefaultPenalty ELSE retryAfter
Penalties == {Penalty(r) : r \in RetryAfters \cup {Null}}

HttpTypeOK ==
    /\ \A s \in Servers : /\ bucket[s].tokens \in 0..Capacity
                          /\ bucket[s].age \in Int /\ bucket[s].age <= Full
                          /\ Len(grants[s]) <= Burst + 1
                          /\ barred[s] \in Nat
    /\ \A c \in Callers : /\ caller[c].pc \in {"idle", "acquire", "send", "backoff"}
                          /\ caller[c].attempt \in 1..MaxAttempts
                          /\ caller[c].sleep \in Nat

Resting == [pc |-> "idle", attempt |-> 1, sleep |-> 0]

HttpInit ==
    /\ bucket = [s \in Servers |-> [tokens |-> Capacity, age |-> 0]]
    /\ caller = [c \in Callers |-> Resting]
    /\ grants = [s \in Servers |-> << >>]
    /\ barred = [s \in Servers |-> 0]

-----------------------------------------------------------------------------
(***************************************************************************)
(* TokenBucket; each operation holds the bucket's lock.                     *)
(***************************************************************************)
\* Mutant: refilling ignores a penalty that is in force.
RefilledAnyway(b) == [tokens |-> Least(Capacity, b.tokens + Greatest(b.age, 0) * Rate), age |-> 0]

\* Mutant: the burst is not a ceiling.
RefilledBeyondBurst(b) ==
    IF b.age < 0 THEN b
    ELSE [tokens |-> b.tokens + b.age * Rate, age |-> 0]

Refilled(b) ==
    IF b.age < 0 THEN b
    ELSE [tokens |-> Least(Capacity, b.tokens + b.age * Rate), age |-> 0]

\* 0: a token can be taken now.
Wait(b) ==
    IF b.age < 0 THEN -b.age
    ELSE IF Refilled(b).tokens >= Cost THEN 0
    ELSE CeilDiv(Cost - Refilled(b).tokens, Rate)

Remember(log) == SubSeq(<<0>> \o log, 1, Least(Len(log) + 1, Burst + 1))

Acquire(c) ==
    LET s == SourceOf[c] b == bucket[s] IN
    /\ caller[c].pc = "acquire" /\ caller[c].sleep = 0
    /\ IF Wait(b) = 0
       THEN /\ bucket' = [bucket EXCEPT ![s] = [Refilled(b) EXCEPT !.tokens = @ - Cost]]
            /\ caller' = [caller EXCEPT ![c].pc = "send"]
            /\ grants' = [grants EXCEPT ![s] = Remember(grants[s])]
       ELSE /\ bucket' = [bucket EXCEPT ![s] = Refilled(b)]
            /\ caller' = [caller EXCEPT ![c].sleep = Wait(b)]
            /\ UNCHANGED grants
    /\ UNCHANGED barred

\* The bucket is drained and its next refill is put `seconds` ahead, also when
\* an earlier penalty was to end later.
Penalised(b, seconds) == [tokens |-> 0, age |-> -seconds]

-----------------------------------------------------------------------------
(***************************************************************************)
(* SourceHttpClient.request.                                                *)
(***************************************************************************)
Perform(c) ==
    /\ caller[c].pc = "idle"
    /\ caller' = [caller EXCEPT ![c] = [Resting EXCEPT !.pc = "acquire"]]
    /\ UNCHANGED <<bucket, grants, barred>>

\* Anything below 400 is returned, any other 4xx raises PermanentSourceError.
Answer(c) ==
    /\ caller[c].pc = "send"
    /\ caller' = [caller EXCEPT ![c] = Resting]
    /\ UNCHANGED <<bucket, grants, barred>>

Backoffs(attempt) == 0..Least(MaxBackoff, 2 ^ attempt)

\* After the last attempt the error is raised, else the caller sleeps.
Retry(c, delays) ==
    IF caller[c].attempt < MaxAttempts
    THEN \E d \in delays :
           caller' = [caller EXCEPT ![c].pc = "backoff", ![c].sleep = d]
    ELSE caller' = [caller EXCEPT ![c] = Resting]

\* A timeout, a broken connection or a retryable status other than 429.
Transient(c) ==
    /\ caller[c].pc = "send"
    /\ Retry(c, Backoffs(caller[c].attempt))
    /\ UNCHANGED <<bucket, grants, barred>>

\* A Retry-After of 0 counts as none, for the penalty and for the sleep.
TooManyRequests(c) ==
    LET s == SourceOf[c] IN
    /\ caller[c].pc = "send"
    /\ \E r \in RetryAfters \cup {Null} :
         /\ bucket' = [bucket EXCEPT ![s] = Penalised(Refilled(bucket[s]), Penalty(r))]
         /\ barred' = [barred EXCEPT ![s] = Penalty(r)]
         /\ Retry(c, IF r \in {Null, 0} THEN Backoffs(caller[c].attempt) ELSE {r})
    /\ UNCHANGED grants

NextAttempt(c) ==
    /\ caller[c].pc = "backoff" /\ caller[c].sleep = 0
    /\ caller' = [caller EXCEPT ![c].pc = "acquire", ![c].attempt = @ + 1]
    /\ UNCHANGED <<bucket, grants, barred>>

-----------------------------------------------------------------------------
\* Ages above Full tell nothing more.
Elapse ==
    /\ bucket' = [s \in Servers |-> [bucket[s] EXCEPT !.age = Least(Full, @ + 1)]]
    /\ caller' = [c \in Callers |-> [caller[c] EXCEPT !.sleep = Greatest(0, @ - 1)]]
    /\ grants' = [s \in Servers |-> [i \in DOMAIN grants[s] |-> Least(Full, grants[s][i] + 1)]]
    /\ barred' = [s \in Servers |-> Greatest(0, barred[s] - 1)]

HttpNext ==
    \/ \E c \in Callers : \/ Perform(c) \/ Acquire(c) \/ Answer(c) \/ Transient(c)
                          \/ TooManyRequests(c) \/ NextAttempt(c)
    \/ Elapse

HttpSpec == HttpInit /\ [][HttpNext]_httpVars

-----------------------------------------------------------------------------
(***************************************************************************)
(* Properties.                                                              *)
(***************************************************************************)
\* The contractual limit: whatever the interleaving of the callers, Burst + 1
\* tokens of a source are never taken within less than the time in which one
\* token is refilled (TokenBucket.acquire).
RateHonoured ==
    \A s \in Servers :
        Len(grants[s]) = Burst + 1 /\ grants[s][1] = 0 => grants[s][Burst + 1] >= Spacing

\* After a 429 no caller of the source gets a token before the Retry-After of
\* the latest one is over (TokenBucket.penalise).
RetryAfterHonoured ==
    [][\A s \in Servers :
          grants'[s] # grants[s] /\ grants'[s][1] = 0 => barred[s] = 0]_httpVars
=============================================================================
