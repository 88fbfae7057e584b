------------------------------ MODULE RateLimit ------------------------------
(***************************************************************************)
(* The fixed windows of server/lib/rateLimit.js: for each key (the name of *)
(* the limiter and the client's address) a bucket with the time its window *)
(* began and a count, kept in memory.                                      *)
(***************************************************************************)
EXTENDS Naturals, Sequences, FiniteSets

CONSTANTS
    LimitKeys,     \* keys
    NoKey,         \* no request
    WindowMs,      \* length of a window, in ticks
    Limit,         \* requests that a window takes
    LastTick       \* bound: the clock stops here

ASSUME RateAssumption ==
    /\ WindowMs \in Nat \ {0} /\ Limit \in Nat \ {0} /\ LastTick \in Nat /\ NoKey \notin LimitKeys

Ticks == 0..LastTick

VARIABLES
    now,          \* Date.now()
    buckets,      \* [count, windowStart] of each key; a count of 0 is no bucket
    admitted,     \* history: when the requests of each key were let in, one by one
    answer429     \* history: the key whose request was refused last, or NoKey

rateVars == <<now, buckets, admitted, answer429>>

NoBucket == [count |-> 0, windowStart |-> 0]

RateInit ==
    /\ now = 0
    /\ buckets = [k \in LimitKeys |-> NoBucket]
    /\ admitted = [k \in LimitKeys |-> <<>>]
    /\ answer429 = NoKey

Expired(k) == buckets[k].count = 0 \/ now - buckets[k].windowStart >= WindowMs

\* (mutant: one too many)
FullLater(k) == buckets[k].count > Limit

Full(k) == buckets[k].count >= Limit

LetIn(k) ==
    /\ admitted' = [admitted EXCEPT ![k] = Append(@, now)]
    /\ answer429' = NoKey
    /\ UNCHANGED now

newWindow(k) ==
    /\ Expired(k)
    /\ buckets' = [buckets EXCEPT ![k] = [count |-> 1, windowStart |-> now]]
    /\ LetIn(k)

sameWindow(k) ==
    /\ ~Expired(k) /\ ~Full(k)
    /\ buckets' = [buckets EXCEPT ![k].count = @ + 1]
    /\ LetIn(k)

tooManyRequests(k) ==
    /\ ~Expired(k) /\ Full(k)
    /\ answer429' = k
    /\ UNCHANGED <<now, buckets, admitted>>

enforce(k) == newWindow(k) \/ sameWindow(k) \/ tooManyRequests(k)

tick ==
    /\ now < LastTick
    /\ now' = now + 1
    /\ answer429' = NoKey
    /\ UNCHANGED <<buckets, admitted>>

\* The process starts again: the counters are gone (and the history begins anew).
restart ==
    /\ buckets' = [k \in LimitKeys |-> NoBucket]
    /\ admitted' = [k \in LimitKeys |-> <<>>]
    /\ answer429' = NoKey
    /\ UNCHANGED now

RateNext == tick \/ restart \/ \E k \in LimitKeys : enforce(k)

RateSpec == RateInit /\ [][RateNext]_rateVars

-----------------------------------------------------------------------------
\* Properties

\* Requests of k let in during the ticks of T.
During(k, T) == Cardinality({i \in DOMAIN admitted[k] : admitted[k][i] \in T})

\* Wherever one looks, not only at the limiter's own windows, a stretch of
\* windowMs takes at most the end of one window and the beginning of the next:
\* twice the limit.
AtMostTwice ==
    \A k \in LimitKeys, t \in Ticks : During(k, t..(t + WindowMs - 1)) <= 2 * Limit

\* A client is turned away only if its own requests of the last windowMs reached
\* the limit: what came before, and what others send, does not count.
TurnedAwayWhenBusy ==
    \A k \in LimitKeys :
        answer429 = k => During(k, {t \in Ticks : now - t < WindowMs}) >= Limit

\* The limiter lets in what it should, and no more than that.
LimitsFair == AtMostTwice /\ TurnedAwayWhenBusy
=============================================================================
