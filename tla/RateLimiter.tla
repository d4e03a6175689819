---------------------------- MODULE RateLimiter ----------------------------
(***************************************************************************)
(* The token buckets in front of POST /api/ingest (middleware/rateLimit.ts).*)
(*                                                                          *)
(* Tokens are counted in units of 1/(Window * Grain) of a token, so that a  *)
(* refill of elapsed / WINDOW_MS * capacity is a whole number.  The code    *)
(* computes it, and the seconds of Retry-After, in floating point: either   *)
(* result is here any number up to Slip units away from the exact one, at   *)
(* every request anew.  (tokens -= 1, the cap and the comparison with 1     *)
(* round nothing.)  Date.now() is a clock that the operator (or NTP) may    *)
(* set back.                                                                *)
(*                                                                          *)
(* granted, born, used, promised and steady are history: what a bucket has  *)
(* allowed since it was made, when that was, which request used the key     *)
(* last, the time by which Retry-After said a request would be allowed, and *)
(* whether the clock was never set back.                                    *)
(***************************************************************************)
EXTENDS Integers, FiniteSets

CONSTANTS
  Key,          \* client addresses
  Capacity,     \* INGEST_RATE_LIMIT_PER_MIN
  Window,       \* WINDOW_MS
  Second,       \* clock units in a second
  Grain,        \* units in 1/Window of a token
  Slip,         \* how far a computed number of units may be off
  MaxBuckets,   \* MAX_BUCKETS
  MaxClock,     \* bound: the clock
  MaxRequests   \* bound: requests

ASSUME LimiterAssumption ==
  /\ IsFiniteSet(Key)
  /\ Capacity \in Nat \ {0}
  /\ Window \in Nat \ {0}
  /\ Second \in Nat \ {0}
  /\ Grain \in Nat \ {0}
  /\ Slip \in Nat
  /\ MaxBuckets \in Nat \ {0}
  /\ MaxClock \in Nat
  /\ MaxRequests \in Nat

\* Rounding is finer than the clock: what a refill per millisecond can lose
\* until the longest Retry-After is up is less than one millisecond adds.
\* Doubles are finer by many orders of magnitude (60000, 1000 and 2^-53).
ASSUME RoundingAssumption == Slip * (Window + Second + 3) <= Capacity * Grain

VARIABLES
  clock,        \* Date.now()
  live,         \* keys of the buckets Map
  tokens,       \* Bucket.tokens
  last,         \* Bucket.lastRefill
  inserted,     \* place in the Map's insertion order: the request that put it there
  requests,     \* requests so far
  granted, born, used, promised, steady

vars == <<clock, live, tokens, last, inserted, requests, granted, born, used,
          promised, steady>>

One  == Window * Grain
Full == Capacity * One
Rate == Capacity * Grain   \* what a clock unit adds

Never == -1

TypeOK ==
  /\ clock \in 0 .. MaxClock
  /\ live \subseteq Key
  /\ tokens \in [Key -> 0 .. Full]
  /\ last \in [Key -> 0 .. MaxClock]
  /\ inserted \in [Key -> 0 .. MaxRequests]
  /\ requests \in 0 .. MaxRequests
  /\ granted \in [Key -> Nat]
  /\ born \in [Key -> 0 .. MaxClock]
  /\ used \in [Key -> 0 .. MaxRequests]
  /\ promised \in [Key -> Nat \cup {Never}]
  /\ steady \in BOOLEAN

Init ==
  /\ clock = 0
  /\ live = {}
  /\ tokens = [k \in Key |-> 0]
  /\ last = [k \in Key |-> 0]
  /\ inserted = [k \in Key |-> 0]
  /\ requests = 0
  /\ granted = [k \in Key |-> 0]
  /\ born = [k \in Key |-> 0]
  /\ used = [k \in Key |-> 0]
  /\ promised = [k \in Key |-> Never]
  /\ steady = TRUE

----------------------------------------------------------------------------

\* refill(): the tokens bucket k may have at time t; never fewer than before,
\* and never more than capacity
Refills(k, t) ==
  LET exact == tokens[k] + (t - last[k]) * Rate
  IN  IF t <= last[k] THEN {tokens[k]}
      ELSE {u \in tokens[k] .. Full : /\ u <= exact + Slip
                                      /\ u >= exact - Slip \/ u = Full}

\* Mutant of RefilledAt: the refill does not move lastRefill
RefilledAtStays(k, t) == last[k]

\* refill(): its lastRefill
RefilledAt(k, t) == IF t <= last[k] THEN last[k] ELSE t

\* Mutant of RetryAfter: Math.floor instead of Math.ceil
RetryAfterFloor(u) ==
  {n \in 1 .. One + Slip :
     \E d \in One - u - Slip .. One - u + Slip :
       n = IF d < 2 * Rate * Second THEN 1 ELSE d \div (Rate * Second)}

\* Math.max(1, Math.ceil(deficit * WINDOW_MS / capacity / 1000)), in seconds,
\* for a bucket that has u units: what the deficit, up to Slip, rounds up to
RetryAfter(u) ==
  {n \in 1 .. One + Slip : /\ n * (Rate * Second) >= One - u - Slip
                           /\ (n - 1) * (Rate * Second) < One - u + Slip}

Drop == IF MaxBuckets \div 10 > 1 THEN MaxBuckets \div 10 ELSE 1

\* Mutant of Evicted: off by one at MAX_BUCKETS
EvictedLate ==
  IF Cardinality(live) <= MaxBuckets THEN {}
  ELSE {k \in live : Cardinality({j \in live : inserted[j] < inserted[k]}) < Drop}

\* the buckets a new key pushes out: the oldest of the Map when it is full
Evicted ==
  IF Cardinality(live) < MaxBuckets THEN {}
  ELSE {k \in live : Cardinality({j \in live : inserted[j] < inserted[k]}) < Drop}

\* Mutant of Inserted: a key that is used keeps its place in the Map
InsertedOnce(k) == IF k \in live THEN inserted[k] ELSE requests + 1

\* where the request leaves k in the Map: last, also when it was there before
Inserted(k) == requests + 1

\* what the request of key k may find after the lookup: a refilled or a new
\* bucket
Units(k)      == IF k \in live THEN Refills(k, clock) ELSE {Full}
LastRefill(k) == IF k \in live THEN RefilledAt(k, clock) ELSE clock

\* tryConsume(k)
TryConsume(k) ==
  /\ requests < MaxRequests
  /\ requests' = requests + 1
  /\ live' = (IF k \in live THEN live ELSE live \ Evicted) \cup {k}
  /\ last' = [last EXCEPT ![k] = LastRefill(k)]
  /\ inserted' = [inserted EXCEPT ![k] = Inserted(k)]
  /\ used' = [used EXCEPT ![k] = requests + 1]
  /\ born' = [born EXCEPT ![k] = IF k \in live THEN @ ELSE clock]
  /\ \E u \in Units(k) :
       \/ /\ u >= One
          /\ tokens' = [tokens EXCEPT ![k] = u - One]
          /\ granted' = [granted EXCEPT ![k] = (IF k \in live THEN @ ELSE 0) + 1]
          /\ promised' = [promised EXCEPT ![k] = Never]
       \/ /\ u < One
          /\ tokens' = [tokens EXCEPT ![k] = u]
          /\ granted' = [granted EXCEPT ![k] = IF k \in live THEN @ ELSE 0]
          /\ \E n \in RetryAfter(u) :
               promised' = [promised EXCEPT ![k] =
                              IF @ # Never THEN @ ELSE clock + n * Second]
  /\ UNCHANGED <<clock, steady>>

Tick ==
  /\ clock < MaxClock
  /\ clock' = clock + 1
  /\ UNCHANGED <<live, tokens, last, inserted, requests, granted, born, used,
                 promised, steady>>

SetBack ==
  /\ \E t \in 0 .. clock - 1 : clock' = t
  /\ steady' = FALSE
  /\ UNCHANGED <<live, tokens, last, inserted, requests, granted, born, used, promised>>

Next == (\E k \in Key : TryConsume(k)) \/ Tick \/ SetBack

Spec == Init /\ [][Next]_vars

----------------------------------------------------------------------------

\* What a bucket has allowed since it was made is a full bucket and the refill
\* of the time its clock has seen, less what is left, up to one rounding error
\* a millisecond, however often it is asked: no order of requests and no clock
\* set back yields a token twice (rateLimit.ts 36-42, 66-69).
RateBound ==
  \A k \in live :
    granted[k] * One + tokens[k] <= Full + (Rate + Slip) * (last[k] - born[k])

\* The Map never has more than MAX_BUCKETS entries, whoever comes.
MemoryBounded == Cardinality(live) <= MaxBuckets

\* rateLimit.ts 61: "Refresh insertion order so active keys are not evicted
\* first": a bucket that is evicted was used before all that stay.
EvictsLeastRecentlyUsed ==
  [][\A j \in live \ live', k \in live \cap live' : used[j] < used[k]]_vars

\* Retry-After is right to the millisecond as long as the clock is not set
\* back: a request made one clock unit after the time is up is allowed, however
\* many refused ones came in between and however their refills were rounded
\* (for a client that was refused more than once: the time of the first
\* refusal).  At the very moment it may be refused: ten refills of 0.1 are
\* 0.9999999999999999 (rateLimit.ts 39-40, 66).
RetryAfterHonest ==
  steady => \A k \in live : promised[k] # Never
                => \A u \in Refills(k, promised[k] + 1) : u >= One
============================================================================
