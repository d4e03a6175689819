---------------------------- MODULE IngestProofs ----------------------------
(***************************************************************************)
(* What the ingest route does before it stores a prompt: the rate limiter   *)
(* for every capacity, window, number of clients and size of the Map (the   *)
(* bounds MaxClock and MaxRequests only name how far a run goes; nothing    *)
(* below depends on their values), and the redaction of every text.         *)
(***************************************************************************)
EXTENDS RateLimiter, Redact, FunctionTheorems, FiniteSetTheorems, NaturalsInduction, TLAPS

\* A non-empty set of naturals has a least element.
LEMMA LeastElement ==
  ASSUME NEW S \in SUBSET Nat, S # {}
  PROVE  \E m \in S : \A x \in S : m <= x
<1>1. PICK m \in S : \A x \in S : ~(<<x, m>> \in OpToRel(<, Nat))
  BY NatLessThanWellFounded, WFMin
<1>2. \A x \in S : ~(x < m)
  BY <1>1 DEF OpToRel
<1> QED BY <1>2

LEMMA Products ==
  ASSUME NEW a \in Nat, NEW b \in Nat
  PROVE  a * b \in Nat
  OBVIOUS

\* A full bucket holds at least one token, and a clock unit adds something.
LEMMA FullHoldsOne ==
  Full \in Nat /\ One \in Nat \ {0} /\ One <= Full /\ Rate \in Nat \ {0} /\ One <= Window * Rate
<1>1. PICK c \in Nat : Capacity = c + 1
  <2>1. Capacity - 1 \in Nat /\ Capacity = (Capacity - 1) + 1
    BY LimiterAssumption
  <2> QED BY <2>1
<1>2. PICK g \in Nat : Grain = g + 1
  <2>1. Grain - 1 \in Nat /\ Grain = (Grain - 1) + 1
    BY LimiterAssumption
  <2> QED BY <2>1
<1>3. Window * Grain = Window * g + Window /\ Window * g \in Nat
  BY <1>2, LimiterAssumption
<1>4. One \in Nat \ {0}
  BY <1>3, LimiterAssumption DEF One
<1>5. Full = c * One + One /\ c * One \in Nat
  BY <1>1, <1>4 DEF Full
<1>6. Rate = c * Grain + Grain /\ c * Grain \in Nat
  BY <1>1, LimiterAssumption DEF Rate
<1>7. Window * Rate = Window * (c * Grain) + One /\ Window * (c * Grain) \in Nat
  BY <1>6, LimiterAssumption DEF One
<1> QED BY <1>4, <1>5, <1>6, <1>7, LimiterAssumption

\* One refill per millisecond slips by less than a millisecond adds.
LEMMA SlipFacts ==
  /\ Slip \in Nat /\ Slip <= Rate
  /\ Slip * (Window + Second + 2) + Slip <= Rate
<1> DEFINE p == Window + Second + 2
<1>1. Slip \in Nat /\ p \in Nat
  BY LimiterAssumption
<1>2. Slip * (Window + Second + 3) = Slip * p + Slip /\ Slip * p \in Nat
  BY LimiterAssumption
<1>3. Slip * p + Slip <= Rate
  BY <1>2, RoundingAssumption DEF Rate
<1> HIDE DEF p
<1>4. Slip <= Rate
  BY <1>1, <1>2, <1>3, FullHoldsOne
<1> QED BY <1>1, <1>3, <1>4 DEF p

\* Refilling never takes tokens away, and never adds more than the time it
\* accounts for and one slip a clock unit.
LEMMA RefillFacts ==
  ASSUME TypeOK, NEW k \in Key, NEW t \in Nat, NEW u \in Refills(k, t)
  PROVE  /\ u \in 0 .. Full
         /\ tokens[k] <= u
         /\ RefilledAt(k, t) \in Nat
         /\ u + (Rate + Slip) * last[k] <= tokens[k] + (Rate + Slip) * RefilledAt(k, t)
<1> DEFINE q == Rate + Slip
<1>1. /\ tokens[k] \in 0 .. Full /\ last[k] \in Nat /\ Rate \in Nat /\ Slip \in Nat
      /\ Full \in Nat /\ tokens[k] \in Nat /\ q \in Nat
  BY FullHoldsOne, SlipFacts, LimiterAssumption DEF TypeOK
<1>2. CASE t <= last[k]
  BY <1>1, <1>2 DEF Refills, RefilledAt
<1>3. CASE ~(t <= last[k])
  <2>1. PICK e \in Nat : t = last[k] + (e + 1)
    <3>1. t - last[k] - 1 \in Nat /\ t = last[k] + ((t - last[k] - 1) + 1)
      BY <1>1, <1>3
    <3> QED BY <3>1
  <2>2. u \in tokens[k] .. Full /\ u <= tokens[k] + (t - last[k]) * Rate + Slip
    BY <1>3 DEF Refills
  <2>3. t - last[k] = e + 1
    BY <1>1, <2>1
  <2>4. u <= tokens[k] + (e + 1) * Rate + Slip
    BY <2>2, <2>3
  <2>5. (e + 1) * q = (e + 1) * Rate + (e * Slip + Slip) /\ e * Slip \in Nat /\ (e + 1) * Rate \in Nat
    BY <1>1
  <2>6. q * t = q * last[k] + (e + 1) * q /\ q * last[k] \in Nat
    BY <1>1, <2>1
  <2>7. RefilledAt(k, t) = t
    BY <1>3 DEF RefilledAt
  <2> HIDE DEF q
  <2>8. u + q * last[k] <= tokens[k] + q * t
    BY <1>1, <2>2, <2>4, <2>5, <2>6
  <2> QED BY <1>1, <2>2, <2>7, <2>8 DEF q
<1> QED BY <1>1, <1>2, <1>3

\* It adds at least what the time is worth, less a slip, or fills the bucket.
LEMMA RefillEnough ==
  ASSUME TypeOK, NEW k \in Key, NEW t \in Nat, t > last[k], NEW u \in Refills(k, t)
  PROVE  u >= (tokens[k] + (t - last[k]) * Rate) - Slip \/ u = Full
<1>1. last[k] \in Nat
  BY DEF TypeOK
<1>2. ~(t <= last[k])
  BY <1>1
<1> QED BY <1>2 DEF Refills

\* The header's seconds are enough, up to a slip, and not much more than the
\* time to fill an empty bucket with one token.
LEMMA RetryAfterEnough ==
  ASSUME NEW u \in Nat, u < One, NEW n \in RetryAfter(u)
  PROVE  /\ n \in Nat \ {0}
         /\ u + (n * Second) * Rate + Slip >= One
         /\ n * Second \in Nat
         /\ n * Second <= Window + Second + 1
<1>1. /\ One \in Nat \ {0} /\ Rate \in Nat \ {0} /\ Slip \in Nat /\ Second \in Nat \ {0}
      /\ Window \in Nat
  BY FullHoldsOne, SlipFacts, LimiterAssumption
<1>2. /\ n \in 1 .. One + Slip
      /\ n * (Rate * Second) >= One - u - Slip
      /\ (n - 1) * (Rate * Second) < One - u + Slip
  BY DEF RetryAfter
<1>3. PICK m \in Nat : n = m + 1
  <2>1. n - 1 \in Nat /\ n = (n - 1) + 1
    BY <1>1, <1>2
  <2> QED BY <2>1
<1>4. n \in Nat \ {0} /\ n * Second = m * Second + Second /\ m * Second \in Nat
  BY <1>1, <1>3
<1>5. u + (n * Second) * Rate + Slip >= One
  <2>1. (n * Second) * Rate = n * (Rate * Second)
    BY <1>1, <1>4
  <2>2. n * (Rate * Second) \in Nat
    BY <1>1, <1>4, Products
  <2> QED BY <2>1, <2>2, <1>1, <1>2
<1>6. m * Second <= Window + 1
  <2> DEFINE x == m * Second
             y == Window + 1
  <2> SUFFICES ASSUME y < x PROVE FALSE
    BY <1>1, <1>4
  <2>1. x \in Nat /\ y \in Nat
    BY <1>1, <1>4
  <2>2. x * Rate < One + Slip
    <3>1. (n - 1) * (Rate * Second) = x * Rate /\ n - 1 = m
      BY <1>1, <1>3
    <3>2. x * Rate \in Nat
      BY <2>1, <1>1, Products
    <3> HIDE DEF x
    <3> QED BY <3>1, <3>2, <1>1, <1>2
  <2>3. y * Rate = Window * Rate + Rate /\ Window * Rate \in Nat
    BY <1>1
  <2>4. One + Slip <= y * Rate
    <3> HIDE DEF y
    <3> QED BY <2>3, <1>1, FullHoldsOne, SlipFacts
  <2> HIDE DEF x, y
  <2>5. PICK d \in Nat : x = y + d
    <3>1. x - y \in Nat /\ x = y + (x - y)
      BY <2>1
    <3> QED BY <3>1
  <2>6. x * Rate = y * Rate + d * Rate /\ d * Rate \in Nat /\ y * Rate \in Nat
    BY <2>1, <2>5, <1>1
  <2> QED BY <2>2, <2>4, <2>6, <1>1
<1> QED BY <1>1, <1>4, <1>5, <1>6

\* A full Map loses at least one of its buckets to a new key.
LEMMA EvictedFacts ==
  ASSUME TypeOK, MemoryBounded
  PROVE  /\ Evicted \subseteq live
         /\ IsFiniteSet(live)
         /\ Cardinality(live) = MaxBuckets => Evicted # {}
<1>1. IsFiniteSet(live)
  BY LimiterAssumption, FS_Subset DEF TypeOK
<1>2. ASSUME Cardinality(live) = MaxBuckets
      PROVE  Evicted # {}
  <2> DEFINE S == {inserted[k] : k \in live}
  <2>1. live # {}
    BY <1>2, FS_EmptySet, LimiterAssumption
  <2>2. S \in SUBSET Nat /\ S # {}
    BY <2>1 DEF TypeOK
  <2>3. PICK m \in S : \A x \in S : m <= x
    BY <2>2, LeastElement
  <2>4. PICK k \in live : m = inserted[k]
    OBVIOUS
  <2>5. \A j \in live : inserted[j] \in Nat /\ ~(inserted[j] < inserted[k])
    BY <2>2, <2>3, <2>4
  <2>6. {j \in live : inserted[j] < inserted[k]} = {}
    BY <2>5
  <2>7. Drop > 0
    BY LimiterAssumption DEF Drop
  <2>8. k \in Evicted
    BY <1>2, <2>6, <2>7, FS_EmptySet, LimiterAssumption DEF Evicted
  <2> QED BY <2>8
<1> QED BY <1>1, <1>2 DEF Evicted

----------------------------------------------------------------------------

LimiterInv == TypeOK /\ RateBound /\ MemoryBounded

LEMMA LimiterInit == Init => LimiterInv
<1> SUFFICES ASSUME Init PROVE LimiterInv
  OBVIOUS
<1>1. TypeOK
  BY FullHoldsOne, LimiterAssumption DEF Init, TypeOK
<1>2. RateBound
  BY DEF Init, RateBound
<1>3. MemoryBounded
  BY FS_EmptySet, LimiterAssumption DEF Init, MemoryBounded
<1> QED BY <1>1, <1>2, <1>3 DEF LimiterInv

\* What the lookup finds.
LEMMA UnitsFacts ==
  ASSUME LimiterInv, NEW k \in Key
  PROVE  /\ \A u \in Units(k) : u \in 0 .. Full /\ (k \notin live => u = Full)
         /\ LastRefill(k) \in 0 .. MaxClock
         /\ k \notin live => LastRefill(k) = clock
<1>1. TypeOK /\ clock \in Nat
  BY DEF LimiterInv, TypeOK
<1>2. \A u \in Units(k) : u \in 0 .. Full
  BY <1>1, RefillFacts, FullHoldsOne DEF Units
<1>3. LastRefill(k) \in 0 .. MaxClock
  BY <1>1 DEF LastRefill, RefilledAt, TypeOK
<1> QED BY <1>2, <1>3 DEF Units, LastRefill

LEMMA TryConsumeStep ==
  ASSUME LimiterInv, NEW k \in Key, TryConsume(k)
  PROVE  LimiterInv'
<1>1. TypeOK /\ RateBound /\ MemoryBounded
  BY DEF LimiterInv
<1>2. /\ LastRefill(k) \in 0 .. MaxClock
      /\ k \notin live => LastRefill(k) = clock
  BY UnitsFacts
<1>3. /\ requests' = requests + 1 /\ requests < MaxRequests /\ clock' = clock
      /\ live' = (IF k \in live THEN live ELSE live \ Evicted) \cup {k}
      /\ last' = [last EXCEPT ![k] = LastRefill(k)]
      /\ inserted' = [inserted EXCEPT ![k] = requests + 1]
      /\ used' = [used EXCEPT ![k] = requests + 1]
      /\ born' = [born EXCEPT ![k] = IF k \in live THEN born[k] ELSE clock]
  BY DEF TryConsume, Inserted
<1>4. PICK u \in Units(k) :
        \/ /\ u >= One
           /\ tokens' = [tokens EXCEPT ![k] = u - One]
           /\ granted' = [granted EXCEPT ![k] = (IF k \in live THEN granted[k] ELSE 0) + 1]
           /\ promised' = [promised EXCEPT ![k] = Never]
        \/ /\ u < One
           /\ tokens' = [tokens EXCEPT ![k] = u]
           /\ granted' = [granted EXCEPT ![k] = IF k \in live THEN granted[k] ELSE 0]
           /\ \E n \in RetryAfter(u) :
                promised' = [promised EXCEPT ![k] =
                               IF promised[k] # Never THEN promised[k]
                               ELSE clock + n * Second]
  BY DEF TryConsume
<1>u. u \in 0 .. Full /\ (k \notin live => u = Full)
  BY UnitsFacts
<1>5. TypeOK'
  <2>1. tokens' \in [Key -> 0 .. Full]
    <3>1. u \in Nat /\ u <= Full /\ One \in Nat \ {0} /\ Full \in Nat
      BY <1>u, FullHoldsOne
    <3>2. tokens \in [Key -> 0 .. Full]
      BY <1>1 DEF TypeOK
    <3>3. u >= One => u - One \in 0 .. Full
      BY <3>1
    <3> QED BY <3>1, <3>2, <3>3, <1>u, <1>4
  <2>2. granted' \in [Key -> Nat]
    <3>1. granted \in [Key -> Nat]
      BY <1>1 DEF TypeOK
    <3>2. \/ granted' = [granted EXCEPT ![k] = (IF k \in live THEN granted[k] ELSE 0) + 1]
          \/ granted' = [granted EXCEPT ![k] = IF k \in live THEN granted[k] ELSE 0]
      BY <1>4
    <3> QED BY <3>1, <3>2
  <2>3. promised' \in [Key -> Nat \cup {Never}]
    <3>1. promised \in [Key -> Nat \cup {Never}] /\ clock \in Nat
      BY <1>1 DEF TypeOK
    <3>2. CASE u >= One
      BY <3>1, <3>2, <1>u, <1>4, FullHoldsOne
    <3>3. CASE u < One
      <4>1. PICK n \in RetryAfter(u) :
              promised' = [promised EXCEPT ![k] =
                             IF promised[k] # Never THEN promised[k] ELSE clock + n * Second]
        BY <3>3, <1>u, <1>4, FullHoldsOne
      <4>2. n * Second \in Nat
        BY <3>3, <1>u, RetryAfterEnough, FullHoldsOne
      <4>3. clock + n * Second \in Nat
        BY <3>1, <4>2
      <4> QED BY <3>1, <4>1, <4>3
    <3> QED BY <3>2, <3>3, <1>u, FullHoldsOne
  <2>4. live' \subseteq Key
    BY <1>1, <1>3 DEF TypeOK
  <2>5. requests + 1 \in 0 .. MaxRequests /\ requests' \in 0 .. MaxRequests
    BY <1>1, <1>3, LimiterAssumption DEF TypeOK
  <2>6. /\ last' \in [Key -> 0 .. MaxClock]
        /\ inserted' \in [Key -> 0 .. MaxRequests] /\ used' \in [Key -> 0 .. MaxRequests]
        /\ born' \in [Key -> 0 .. MaxClock]
    BY <1>1, <1>2, <1>3, <2>5 DEF TypeOK
  <2>7. steady' \in BOOLEAN
    BY <1>1 DEF TryConsume, TypeOK
  <2> QED BY <2>1, <2>2, <2>3, <2>4, <2>5, <2>6, <2>7, <1>1, <1>3 DEF TypeOK
<1>6. RateBound'
  <2> SUFFICES ASSUME NEW j \in live'
               PROVE  granted'[j] * One + tokens'[j] <= Full + (Rate + Slip) * (last'[j] - born'[j])
    BY DEF RateBound, One, Full, Rate
  <2>1. CASE j # k
    <3>1. j \in live /\ j \in Key
      BY <2>1, <1>1, <1>3 DEF TypeOK
    <3>2. granted'[j] = granted[j] /\ tokens'[j] = tokens[j]
      BY <2>1, <3>1, <1>1, <1>4 DEF TypeOK
    <3>3. last'[j] = last[j] /\ born'[j] = born[j]
      BY <2>1, <3>1, <1>1, <1>3 DEF TypeOK
    <3> QED BY <3>1, <3>2, <3>3, <1>1 DEF RateBound
  <2>2. CASE j = k
    <3> DEFINE g == IF k \in live THEN granted[k] ELSE 0
               b == IF k \in live THEN born[k] ELSE clock
               l == LastRefill(k)
               q == Rate + Slip
    <3>1. /\ g \in Nat /\ b \in Nat /\ u \in Nat /\ l \in Nat
          /\ One \in Nat /\ Full \in Nat /\ q \in Nat
      BY <1>1, <1>2, <1>u, FullHoldsOne, SlipFacts, LimiterAssumption DEF TypeOK
    <3>2. g * One + u <= Full + q * (l - b)
      <4>1. CASE k \in live
        <5>1. /\ granted[k] * One + tokens[k] <= Full + q * (last[k] - born[k])
              /\ granted[k] \in Nat /\ tokens[k] \in Nat /\ last[k] \in Nat
          BY <4>1, <1>1 DEF RateBound, TypeOK
        <5>2. u + q * last[k] <= tokens[k] + q * l
          <6>1. u \in Refills(k, clock) /\ clock \in Nat
            BY <4>1, <1>1 DEF Units, TypeOK
          <6> QED BY <4>1, <6>1, <1>1, RefillFacts DEF LastRefill
        <5>3. g = granted[k] /\ b = born[k]
          BY <4>1
        <5> HIDE DEF g, b, l, q
        <5>4. granted[k] * One \in Nat
          BY <5>1, <3>1, Products
        <5>5. /\ q * (last[k] - b) = q * last[k] - q * b
              /\ q * (l - b) = q * l - q * b
          BY <5>1, <3>1
        <5>6. q * last[k] \in Int /\ q * l \in Int /\ q * b \in Int
          BY <5>1, <3>1
        <5> QED BY <5>1, <5>2, <5>3, <5>4, <5>5, <5>6, <3>1
      <4>2. CASE k \notin live
        <5>1. g = 0 /\ u = Full /\ l = b
          BY <4>2, <1>2, <1>u
        <5> HIDE DEF g, b, l, q
        <5> QED BY <5>1, <3>1
      <4> QED BY <4>1, <4>2
    <3>3. last'[k] = l /\ born'[k] = b
      BY <1>1, <1>3 DEF TypeOK
    <3>4. \/ granted'[k] = g + 1 /\ tokens'[k] = u - One
          \/ granted'[k] = g /\ tokens'[k] = u
      BY <1>1, <1>4 DEF TypeOK
    <3> HIDE DEF g, b, l, q
    <3>5. (g + 1) * One = g * One + One /\ g * One \in Nat
      BY <3>1
    <3>6. q * (l - b) \in Int
      BY <3>1
    <3>7. granted'[k] * One + tokens'[k] = g * One + u
      BY <3>1, <3>4, <3>5
    <3> QED BY <2>2, <3>2, <3>3, <3>7 DEF q
  <2> QED BY <2>1, <2>2
<1>7. MemoryBounded'
  <2>1. /\ Evicted \subseteq live /\ IsFiniteSet(live)
        /\ Cardinality(live) = MaxBuckets => Evicted # {}
    BY <1>1, EvictedFacts
  <2>2. Cardinality(live) \in Nat /\ Cardinality(live) <= MaxBuckets /\ MaxBuckets \in Nat
    BY <1>1, <2>1, FS_CardinalityType, LimiterAssumption DEF MemoryBounded
  <2>3. CASE k \in live
    <3>1. live' = live
      BY <2>3, <1>3
    <3> QED BY <3>1, <1>1 DEF MemoryBounded
  <2>4. CASE k \notin live
    <3> DEFINE kept == live \ Evicted
    <3>1. IsFiniteSet(kept) /\ k \notin kept /\ live' = kept \cup {k}
      BY <2>1, <2>4, <1>3, FS_Subset
    <3>2. Cardinality(live') = Cardinality(kept) + 1
      BY <3>1, FS_AddElement
    <3>3. Cardinality(kept) \in Nat /\ Cardinality(kept) <= Cardinality(live)
      BY <2>1, <3>1, FS_Subset, FS_CardinalityType
    <3>4. Cardinality(live) = MaxBuckets => Cardinality(kept) < Cardinality(live)
      <4>1. ASSUME Cardinality(live) = MaxBuckets PROVE kept # live
        BY <4>1, <2>1
      <4>2. kept # live => Cardinality(kept) # Cardinality(live)
        BY <2>1, FS_Subset
      <4> QED BY <4>1, <4>2, <3>3, <2>2
    <3> QED BY <2>2, <3>2, <3>3, <3>4 DEF MemoryBounded
  <2> QED BY <2>3, <2>4
<1> QED BY <1>5, <1>6, <1>7 DEF LimiterInv

LEMMA ClockStep ==
  ASSUME LimiterInv, Tick \/ SetBack \/ UNCHANGED vars
  PROVE  LimiterInv'
<1>1. /\ UNCHANGED <<live, tokens, last, inserted, requests, granted, born, used, promised>>
      /\ clock' \in 0 .. MaxClock /\ steady' \in BOOLEAN
  <2>1. clock \in 0 .. MaxClock /\ steady \in BOOLEAN /\ MaxClock \in Nat
    BY LimiterAssumption DEF LimiterInv, TypeOK
  <2>2. CASE Tick
    BY <2>1, <2>2 DEF Tick
  <2>3. CASE SetBack
    <3>1. PICK t \in 0 .. clock - 1 : clock' = t
      BY <2>3 DEF SetBack
    <3>2. clock' \in 0 .. MaxClock
      BY <2>1, <3>1
    <3>3. steady' \in BOOLEAN
      BY <2>3 DEF SetBack
    <3> QED BY <2>3, <3>2, <3>3 DEF SetBack
  <2>4. CASE UNCHANGED vars
    BY <2>1, <2>4 DEF vars
  <2> QED BY <2>2, <2>3, <2>4
<1> QED BY <1>1 DEF LimiterInv, TypeOK, RateBound, MemoryBounded

THEOREM LimiterInvariant == Spec => []LimiterInv
<1>1. LimiterInv /\ [Next]_vars => LimiterInv'
  BY TryConsumeStep, ClockStep DEF Next
<1> QED BY <1>1, LimiterInit, PTL DEF Spec

\* What a bucket has allowed never exceeds a full bucket and its refill, also
\* when the clock is set back (rateLimit.ts 36-42, 66-69).
THEOREM RateLimited == Spec => []RateBound
<1>1. LimiterInv => RateBound
  BY DEF LimiterInv
<1> QED BY <1>1, LimiterInvariant, PTL

\* The Map never outgrows MAX_BUCKETS (rateLimit.ts 48-58).
THEOREM MemoryIsBounded == Spec => []MemoryBounded
<1>1. LimiterInv => MemoryBounded
  BY DEF LimiterInv
<1> QED BY <1>1, LimiterInvariant, PTL

----------------------------------------------------------------------------
(* Retry-After, as long as the clock is not set back *)

\* How long the longest Retry-After is, and a little more.
Patience == Window + Second + 2

\* A bucket with u units that is up to date r units before its promise is on
\* the way to a token, whatever one slip a clock unit takes from it.
OnTheWay(u, r) == u + r * Rate + Slip * (Patience - r) >= One

LEMMA PatienceFacts ==
  /\ Patience \in Nat /\ Slip \in Nat /\ Rate \in Nat \ {0} /\ One \in Nat \ {0}
  /\ Slip * Patience \in Nat /\ Slip * Patience + Slip <= Rate
BY SlipFacts, FullHoldsOne, LimiterAssumption, Products DEF Patience

\* A refill e clock units later stays on the way.
LEMMA StaysOnTheWay ==
  ASSUME NEW v \in Nat, NEW u \in Nat, NEW r \in Int, NEW e \in Nat \ {0},
         OnTheWay(v, r), u >= (v + e * Rate) - Slip
  PROVE  OnTheWay(u, r - e)
<1>1. Slip \in Nat /\ Rate \in Nat /\ Patience \in Nat /\ One \in Nat
  BY PatienceFacts
<1>2. (r - e) * Rate = r * Rate - e * Rate /\ r * Rate \in Int /\ e * Rate \in Int
  BY <1>1
<1>3. Slip * (Patience - (r - e)) = Slip * (Patience - r) + Slip * e
  BY <1>1
<1>4. Slip * e >= Slip /\ Slip * e \in Nat
  <2>1. PICK f \in Nat : e = f + 1
    <3>1. e - 1 \in Nat /\ e = (e - 1) + 1
      OBVIOUS
    <3> QED BY <3>1
  <2>2. Slip * e = Slip * f + Slip /\ Slip * f \in Nat
    BY <2>1, <1>1
  <2> QED BY <2>2, <1>1
<1>5. Slip * (Patience - r) \in Int
  BY <1>1
<1>6. v + r * Rate + Slip * (Patience - r) >= One
  BY DEF OnTheWay
<1>7. u + (r * Rate - e * Rate) + (Slip * (Patience - r) + Slip * e) >= One
  BY <1>1, <1>2, <1>4, <1>5, <1>6
<1> QED BY <1>2, <1>3, <1>7 DEF OnTheWay

\* Once the promise is over, the way has led to a token.
LEMMA ArrivesAtOne ==
  ASSUME NEW u \in Nat, NEW r \in Int, r < 0, OnTheWay(u, r)
  PROVE  u >= One
<1>1. /\ Slip \in Nat /\ Rate \in Nat /\ Patience \in Nat /\ One \in Nat
      /\ Slip * Patience \in Nat /\ Slip * Patience + Slip <= Rate
  BY PatienceFacts
<1>2. PICK f \in Nat : r = -(f + 1)
  <2>1. -r - 1 \in Nat /\ r = -((-r - 1) + 1)
    OBVIOUS
  <2> QED BY <2>1
<1>3. /\ r * Rate = -(f * Rate) - Rate /\ f * Rate \in Nat
      /\ Slip * (Patience - r) = Slip * Patience + Slip * f + Slip /\ Slip * f \in Nat
  BY <1>1, <1>2
<1>4. Slip * f <= f * Rate
  <2>1. PICK d \in Nat : Rate = Slip + d
    <3>1. Rate - Slip \in Nat /\ Rate = Slip + (Rate - Slip)
      BY <1>1
    <3> QED BY <3>1
  <2>2. f * Rate = Slip * f + f * d /\ f * d \in Nat
    BY <2>1, <1>1
  <2> QED BY <2>2, <1>3
<1>5. u + (-(f * Rate) - Rate) + (Slip * Patience + Slip * f + Slip) >= One
  BY <1>3 DEF OnTheWay
<1> QED BY <1>1, <1>3, <1>4, <1>5

HonestInv ==
  /\ LimiterInv
  /\ steady => \A k \in live : last[k] <= clock
  /\ steady => \A k \in live :
       promised[k] # Never => OnTheWay(tokens[k], promised[k] - last[k])

\* Who is on the way is allowed when the promise is over.
LEMMA HonestThen == HonestInv => RetryAfterHonest
<1> SUFFICES ASSUME HonestInv, steady, NEW k \in live, promised[k] # Never,
                    NEW u \in Refills(k, promised[k] + 1)
             PROVE  u >= One
  BY DEF RetryAfterHonest
<1> DEFINE p == promised[k]
           r == p - last[k]
<1>1. TypeOK /\ k \in Key
  BY DEF HonestInv, LimiterInv, TypeOK
<1>2. p \in Nat /\ last[k] \in Nat /\ tokens[k] \in Nat /\ r \in Int /\ One <= Full
  BY <1>1, FullHoldsOne DEF TypeOK, Never
<1>3. OnTheWay(tokens[k], r)
  BY DEF HonestInv
<1>4. CASE p + 1 <= last[k]
  <2>1. u = tokens[k]
    BY <1>4 DEF Refills
  <2>2. r < 0
    BY <1>2, <1>4
  <2> HIDE DEF r
  <2> QED BY <2>1, <2>2, <1>2, <1>3, ArrivesAtOne
<1>5. CASE ~(p + 1 <= last[k])
  <2> DEFINE e == r + 1
  <2>1. e \in Nat \ {0} /\ e = (p + 1) - last[k] /\ r - e = -1
    BY <1>2, <1>5
  <2>2. /\ u \in tokens[k] .. Full
        /\ u >= (tokens[k] + e * Rate) - Slip \/ u = Full
    <3>1. u \in tokens[k] .. Full
      BY <1>5 DEF Refills
    <3>2. p + 1 \in Nat /\ p + 1 > last[k]
      BY <1>2, <1>5
    <3>3. u >= (tokens[k] + ((p + 1) - last[k]) * Rate) - Slip \/ u = Full
      BY <1>1, <3>2, RefillEnough
    <3> HIDE DEF e
    <3> QED BY <3>1, <3>3, <2>1
  <2>3. u \in Nat
    BY <2>2, <1>2
  <2>4. CASE u = Full
    BY <2>4, <1>2
  <2>5. CASE u >= (tokens[k] + e * Rate) - Slip
    <3> HIDE DEF r, e
    <3>1. OnTheWay(u, r - e)
      BY <2>1, <2>3, <2>5, <1>2, <1>3, StaysOnTheWay
    <3>2. OnTheWay(u, -1)
      BY <3>1, <2>1
    <3> QED BY <3>2, <2>3, ArrivesAtOne
  <2> QED BY <2>2, <2>4, <2>5
<1> QED BY <1>4, <1>5

LEMMA HonestTryConsume ==
  ASSUME HonestInv, steady, NEW k \in Key, TryConsume(k)
  PROVE  HonestInv'
<1>1. LimiterInv /\ TypeOK /\ (\A j \in live : last[j] <= clock)
  BY DEF HonestInv, LimiterInv
<1>2. LimiterInv'
  BY <1>1, TryConsumeStep
<1>3. /\ clock \in Nat /\ clock' = clock /\ Full \in Nat /\ One \in Nat \ {0} /\ One <= Full
  BY <1>1, FullHoldsOne DEF TypeOK, TryConsume
<1>4. ASSUME NEW j \in live', j # k
      PROVE  /\ j \in live /\ j \in Key /\ last'[j] = last[j] /\ tokens'[j] = tokens[j]
             /\ promised'[j] = promised[j]
  BY <1>1, <1>4 DEF TryConsume, TypeOK
<1>5. LastRefill(k) = clock /\ last'[k] = clock
  <2>1. LastRefill(k) = clock
    BY <1>1, <1>3 DEF LastRefill, RefilledAt, TypeOK
  <2> QED BY <2>1, <1>1 DEF TryConsume, TypeOK
<1>6. \A j \in live' : last'[j] <= clock'
  BY <1>1, <1>3, <1>4, <1>5
<1>7. ASSUME promised'[k] # Never
      PROVE  OnTheWay(tokens'[k], promised'[k] - last'[k])
  <2>1. promised \in [Key -> Nat \cup {Never}] /\ tokens \in [Key -> 0 .. Full]
    BY <1>1 DEF TypeOK
  <2>2. PICK u \in Units(k) :
          /\ u < One
          /\ tokens' = [tokens EXCEPT ![k] = u]
          /\ \E n \in RetryAfter(u) :
               promised' = [promised EXCEPT ![k] =
                              IF promised[k] # Never THEN promised[k] ELSE clock + n * Second]
    <3>1. ~(promised' = [promised EXCEPT ![k] = Never])
      BY <1>7, <2>1
    <3> QED BY <3>1 DEF TryConsume
  <2>3. PICK n \in RetryAfter(u) :
          promised' = [promised EXCEPT ![k] =
                         IF promised[k] # Never THEN promised[k] ELSE clock + n * Second]
    BY <2>2
  <2>4. /\ tokens'[k] = u
        /\ promised'[k] = IF promised[k] # Never THEN promised[k] ELSE clock + n * Second
    BY <2>1, <2>2, <2>3
  <2>5. u \in 0 .. Full /\ k \in live /\ u \in Refills(k, clock)
    <3>1. u \in 0 .. Full /\ (k \notin live => u = Full)
      BY <1>1, UnitsFacts
    <3>2. k \in live
      BY <3>1, <2>2, <1>3
    <3> QED BY <3>1, <3>2 DEF Units
  <2>6. u \in Nat
    BY <2>5, <1>3
  <2>7. CASE promised[k] = Never
    <3> DEFINE w == n * Second
    <3>1. w \in Nat /\ u + w * Rate + Slip >= One /\ w <= Window + Second + 1
      BY <2>2, <2>6, RetryAfterEnough
    <3>2. promised'[k] - last'[k] = w
      BY <2>4, <2>7, <3>1, <1>3, <1>5
    <3> HIDE DEF w
    <3>3. PICK d \in Nat : Patience - w = d + 1
      <4>1. Patience - w - 1 \in Nat
        BY <3>1, LimiterAssumption DEF Patience
      <4>2. Patience - w = (Patience - w - 1) + 1
        BY <3>1, PatienceFacts
      <4> QED BY <4>1, <4>2
    <3>4. Slip * (Patience - w) = Slip * d + Slip /\ Slip * d \in Nat
      BY <3>3, PatienceFacts
    <3>5. w * Rate \in Nat
      BY <3>1, PatienceFacts, Products
    <3>6. OnTheWay(u, w)
      BY <3>1, <3>4, <3>5, <2>6, PatienceFacts DEF OnTheWay
    <3> QED BY <3>2, <3>6, <2>4
  <2>8. CASE promised[k] # Never
    <3> DEFINE r == promised[k] - last[k]
               e == clock - last[k]
    <3>1. /\ promised[k] \in Nat /\ last[k] \in Nat /\ tokens[k] \in Nat /\ last[k] <= clock
          /\ promised'[k] = promised[k]
      BY <2>1, <2>4, <2>5, <2>8, <1>1, <1>3 DEF TypeOK
    <3>2. OnTheWay(tokens[k], r)
      BY <2>5, <2>8 DEF HonestInv
    <3>3. r \in Int /\ e \in Nat /\ promised'[k] - last'[k] = r - e
      <4>1. last'[k] = clock /\ promised'[k] = promised[k] /\ clock \in Nat
        BY <3>1, <1>3, <1>5
      <4>2. promised[k] - clock = (promised[k] - last[k]) - (clock - last[k])
        BY <3>1, <4>1
      <4> QED BY <3>1, <4>1, <4>2
    <3>4. CASE clock <= last[k]
      <4>1. u = tokens[k] /\ e = 0 /\ r - e = r
        BY <3>1, <3>4, <2>5, <1>3 DEF Refills
      <4> QED BY <4>1, <3>2, <3>3, <2>4
    <3>5. CASE ~(clock <= last[k])
      <4>1. e \in Nat \ {0}
        BY <3>1, <3>5, <1>3
      <4>2. u >= (tokens[k] + (clock - last[k]) * Rate) - Slip
        <5>1. u >= (tokens[k] + (clock - last[k]) * Rate) - Slip \/ u = Full
          BY <3>1, <3>5, <2>5, <1>1, <1>3, RefillEnough
        <5> QED BY <5>1, <2>2, <2>6, <1>3
      <4> HIDE DEF r, e
      <4>3. OnTheWay(u, r - e)
        BY <4>1, <4>2, <3>1, <3>2, <3>3, <2>6, StaysOnTheWay DEF e
      <4> QED BY <4>3, <3>3, <2>4
    <3> QED BY <3>4, <3>5
  <2> QED BY <2>7, <2>8
<1>8. ASSUME NEW j \in live', promised'[j] # Never
      PROVE  OnTheWay(tokens'[j], promised'[j] - last'[j])
  <2>1. CASE j # k
    <3>1. /\ j \in live /\ last'[j] = last[j] /\ tokens'[j] = tokens[j]
          /\ promised'[j] = promised[j]
      BY <2>1, <1>4
    <3> QED BY <3>1, <1>8 DEF HonestInv
  <2>2. CASE j = k
    BY <2>2, <1>7, <1>8
  <2> QED BY <2>1, <2>2
<1> QED BY <1>2, <1>6, <1>8 DEF HonestInv, OnTheWay, Patience, One, Rate, Never

\* Retry-After is right to the millisecond as long as the clock is not set
\* back, whatever the refills in between lost by rounding (rateLimit.ts 39-40
\* and 66-72).
THEOREM RetryAfterIsHonest == Spec => []RetryAfterHonest
<1>1. Init => HonestInv
  BY LimiterInit DEF Init, HonestInv
<1>2. HonestInv /\ [Next]_vars => HonestInv'
  <2> SUFFICES ASSUME HonestInv, [Next]_vars PROVE HonestInv'
    OBVIOUS
  <2>0. LimiterInv'
    BY TryConsumeStep, ClockStep DEF HonestInv, Next
  <2>1. CASE ~steady \/ SetBack
    <3>1. ~steady'
      BY <2>1 DEF Next, TryConsume, Tick, SetBack, vars
    <3> QED BY <2>0, <3>1 DEF HonestInv
  <2>2. CASE steady /\ \E k \in Key : TryConsume(k)
    BY <2>2, HonestTryConsume
  <2>3. CASE steady /\ (Tick \/ UNCHANGED vars)
    <3>1. /\ UNCHANGED <<live, tokens, last, promised, steady>>
          /\ clock' \in Nat /\ clock <= clock'
      <4>1. clock \in Nat
        BY DEF HonestInv, LimiterInv, TypeOK
      <4>2. CASE Tick
        BY <4>1, <4>2 DEF Tick
      <4>3. CASE UNCHANGED vars
        BY <4>1, <4>3 DEF vars
      <4> QED BY <2>3, <4>2, <4>3
    <3>2. \A k \in live : last[k] \in Nat /\ clock \in Nat
      BY DEF HonestInv, LimiterInv, TypeOK
    <3>3. \A k \in live' : last'[k] <= clock'
      BY <2>3, <3>1, <3>2 DEF HonestInv
    <3>4. \A k \in live' : promised'[k] # Never => OnTheWay(tokens'[k], promised'[k] - last'[k])
      BY <2>3, <3>1 DEF HonestInv
    <3> QED BY <2>0, <3>3, <3>4 DEF HonestInv, OnTheWay, Patience, One, Rate, Never
  <2> QED BY <2>1, <2>2, <2>3 DEF Next
<1> QED BY <1>1, <1>2, HonestThen, PTL DEF Spec

----------------------------------------------------------------------------
(* Who is evicted *)

\* A key's place in the Map is that of the last request that used it: the
\* bucket is deleted and set again at every use.
PlaceInv ==
  /\ LimiterInv
  /\ \A k \in live : inserted[k] = used[k]

\* What is evicted stands before what stays.
LEMMA EvictedStandsBefore ==
  ASSUME TypeOK, NEW j \in Evicted, NEW k \in live \ Evicted
  PROVE  inserted[j] < inserted[k]
<1> DEFINE Older(i) == {x \in live : inserted[x] < inserted[i]}
<1>1. j \in live /\ inserted[j] \in Nat /\ inserted[k] \in Nat /\ \A x \in live : inserted[x] \in Nat
  BY DEF TypeOK, Evicted
<1>2. Cardinality(Older(j)) < Drop /\ ~(Cardinality(Older(k)) < Drop)
  BY DEF Evicted
<1>3. \A i : IsFiniteSet(Older(i)) /\ Cardinality(Older(i)) \in Nat
  BY LimiterAssumption, FS_Subset, FS_CardinalityType DEF TypeOK
<1>4. Drop \in Nat
  BY LimiterAssumption DEF Drop
<1>5. ASSUME inserted[k] <= inserted[j] PROVE FALSE
  <2>1. Older(k) \subseteq Older(j)
    BY <1>1, <1>5
  <2>2. Cardinality(Older(k)) <= Cardinality(Older(j))
    BY <2>1, <1>3, FS_Subset
  <2> HIDE DEF Older
  <2> QED BY <2>2, <1>2, <1>3, <1>4
<1> QED BY <1>1, <1>5

\* A new key never pushes out a bucket that was used after one that stays
\* (rateLimit.ts 48-63).
THEOREM TheIdleGoFirst == Spec => EvictsLeastRecentlyUsed
<1>1. Init => PlaceInv
  BY LimiterInit DEF Init, PlaceInv
<1>2. PlaceInv /\ [Next]_vars => PlaceInv'
  <2> SUFFICES ASSUME PlaceInv, [Next]_vars PROVE PlaceInv'
    OBVIOUS
  <2>1. LimiterInv'
    BY TryConsumeStep, ClockStep DEF PlaceInv, Next
  <2>2. ASSUME NEW k \in Key, TryConsume(k)
        PROVE  \A j \in live' : inserted'[j] = used'[j]
    BY <2>2 DEF PlaceInv, LimiterInv, TypeOK, TryConsume, Inserted
  <2>3. CASE Tick \/ SetBack \/ UNCHANGED vars
    BY <2>1, <2>3 DEF PlaceInv, Tick, SetBack, vars
  <2> QED BY <2>1, <2>2, <2>3 DEF PlaceInv, Next
<1>3. ASSUME PlaceInv, [Next]_vars
      PROVE  [\A j \in live \ live', k \in live \cap live' : used[j] < used[k]]_vars
  <2> SUFFICES ASSUME Next, NEW j \in live \ live', NEW k \in live \cap live'
               PROVE  used[j] < used[k]
    BY <1>3
  <2>1. PICK n \in Key : TryConsume(n)
    BY DEF Next, Tick, SetBack
  <2>2. n \notin live /\ live' = (live \ Evicted) \cup {n}
    BY <2>1 DEF TryConsume
  <2>3. j \in Evicted /\ k \in live \ Evicted
    BY <2>2
  <2>4. inserted[j] < inserted[k]
    BY <2>3, <1>3, EvictedStandsBefore DEF PlaceInv, LimiterInv
  <2> QED BY <2>4, <1>3 DEF PlaceInv
<1> QED BY <1>1, <1>2, <1>3, PTL DEF Spec, EvictsLeastRecentlyUsed

----------------------------------------------------------------------------
(***************************************************************************)
(* What Replace computes: the kept positions are numbered in their order.   *)
(***************************************************************************)

\* The rank of a position in a set of positions counts up from 1 without gaps.
LEMMA NthFacts ==
  ASSUME NEW n \in Nat, NEW S \in SUBSET (1 .. n)
  PROVE  /\ Cardinality(S) \in Nat
         /\ \A k \in 1 .. Cardinality(S) : Nth(S, k) \in S
         /\ \A k, l \in 1 .. Cardinality(S) : k < l => Nth(S, k) < Nth(S, l)
         /\ \A i \in S : \E k \in 1 .. Cardinality(S) : Nth(S, k) = i
<1> DEFINE Upto(i) == {j \in S : j <= i}
           C == Cardinality(S)
           rank == [i \in S |-> Cardinality(Upto(i))]
<1>0. \A i \in S : i \in Nat
  OBVIOUS
<1>1. IsFiniteSet(S) /\ C \in Nat
  <2>1. IsFiniteSet(1 .. n)
    BY FS_Interval
  <2>2. IsFiniteSet(S)
    BY <2>1, FS_Subset
  <2> QED BY <2>2, FS_CardinalityType
<1>2. \A i \in S : Cardinality(Upto(i)) \in 1 .. C
  <2> TAKE i \in S
  <2>1. Upto(i) \in SUBSET S
    OBVIOUS
  <2>2. IsFiniteSet(Upto(i)) /\ Cardinality(Upto(i)) <= C
    BY <1>1, <2>1, FS_Subset
  <2>3. Cardinality(Upto(i)) \in Nat
    BY <2>2, FS_CardinalityType
  <2>4. i \in Upto(i)
    OBVIOUS
  <2>5. Cardinality(Upto(i)) # 0
    BY <2>2, <2>4, FS_EmptySet
  <2> QED BY <1>1, <2>2, <2>3, <2>5
<1>3. ASSUME NEW i \in S, NEW j \in S, i < j
      PROVE  Cardinality(Upto(i)) < Cardinality(Upto(j))
  <2>0. \A x \in S : x <= i => x <= j
    BY <1>0, <1>3
  <2>1. Upto(i) \in SUBSET Upto(j)
    BY <2>0
  <2>2. Upto(j) \in SUBSET S
    OBVIOUS
  <2>3. IsFiniteSet(Upto(j))
    BY <1>1, <2>2, FS_Subset
  <2>4. Cardinality(Upto(i)) <= Cardinality(Upto(j))
    BY <2>1, <2>3, FS_Subset
  <2>5. j \in Upto(j) /\ j \notin Upto(i)
    BY <1>3
  <2>6. Cardinality(Upto(j)) # Cardinality(Upto(i))
    BY <2>1, <2>3, <2>5, FS_Subset
  <2>7. Cardinality(Upto(i)) \in Nat /\ Cardinality(Upto(j)) \in Nat
    BY <1>1, <1>2
  <2> QED BY <2>4, <2>6, <2>7
<1>4. rank \in [S -> 1 .. C]
  BY <1>2
<1>5. \A i, j \in S : rank[i] = rank[j] => i = j
  <2> TAKE i, j \in S
  <2> HAVE rank[i] = rank[j]
  <2>1. CASE i < j
    BY <1>1, <1>2, <1>3, <2>1
  <2>2. CASE j < i
    BY <1>1, <1>2, <1>3, <2>2
  <2> QED BY <2>1, <2>2
<1>6. rank \in Injection(S, 1 .. C)
  BY <1>4, <1>5 DEF Injection, IsInjective
<1>7. rank \in Surjection(S, 1 .. C)
  <2>1. IsFiniteSet(1 .. C) /\ Cardinality(1 .. C) = C
    BY <1>1, FS_Interval
  <2> QED BY <1>6, <2>1, FS_Injection
<1>8. \A k \in 1 .. C : \E i \in S : Cardinality(Upto(i)) = k
  BY <1>7 DEF Surjection
<1>9. \A k \in 1 .. C : Nth(S, k) \in S /\ Cardinality(Upto(Nth(S, k))) = k
  BY <1>8 DEF Nth
<1>10. ASSUME NEW k \in 1 .. C, NEW l \in 1 .. C, k < l
       PROVE  Nth(S, k) < Nth(S, l)
  <2>1. CASE Nth(S, l) < Nth(S, k)
    <3>1. Cardinality(Upto(Nth(S, l))) < Cardinality(Upto(Nth(S, k)))
      BY <1>3, <1>9, <2>1
    <3> QED BY <1>1, <1>9, <1>10, <3>1
  <2>2. CASE Nth(S, l) = Nth(S, k)
    <3>1. rank[Nth(S, l)] = l /\ rank[Nth(S, k)] = k
      BY <1>9
    <3> HIDE DEF rank
    <3> QED BY <1>1, <1>10, <2>2, <3>1
  <2>3. Nth(S, k) \in Nat /\ Nth(S, l) \in Nat
    BY <1>0, <1>9
  <2> QED BY <2>1, <2>2, <2>3
<1>11. ASSUME NEW i \in S
       PROVE  \E k \in 1 .. C : Nth(S, k) = i
  <2> DEFINE k == rank[i]
  <2>1. k \in 1 .. C /\ k = Cardinality(Upto(i))
    BY <1>4
  <2>2. Nth(S, k) \in S /\ Cardinality(Upto(Nth(S, k))) = k
    BY <1>9, <2>1
  <2>3. rank[Nth(S, k)] = rank[i]
    BY <2>1, <2>2
  <2> QED BY <1>5, <2>1, <2>2, <2>3
<1> HIDE DEF Upto, rank
<1> QED BY <1>1, <1>9, <1>10, <1>11

\* What has been made of a text so far, and the hits on the way.
Acc == [content : Seq(Token), hits : [HitType -> Nat]]

\* pos says where the tokens of a text came from
Origins(text, out, pos, at, gone, type) ==
  /\ pos \in [DOMAIN out -> DOMAIN text \ gone]
  /\ \A k, l \in DOMAIN out : k < l => pos[k] < pos[l]
  /\ \A i \in DOMAIN text \ gone : \E k \in DOMAIN out : pos[k] = i
  /\ \A k \in DOMAIN out : out[k] = IF pos[k] \in at THEN Mark(type) ELSE text[pos[k]]

\* A mark is a token of the text it is put in.
LEMMA MarkIsToken == \A t \in HitType : Mark(t) \in Token
  BY DEF Token

\* A function on 1 .. n is a sequence.
LEMMA IsSeq ==
  ASSUME NEW n \in Nat, NEW S, NEW f \in [1 .. n -> S]
  PROVE  f \in Seq(S)
  OBVIOUS

\* Replace makes a text of the tokens it keeps, in their order.
LEMMA ReplaceFacts ==
  ASSUME NEW acc \in Acc, NEW at \in SUBSET DOMAIN acc.content,
         NEW gone \in SUBSET DOMAIN acc.content, NEW type \in HitType
  PROVE  LET r == Replace(acc, at, gone, type)
         IN  /\ r \in Acc
             /\ r.hits = [acc.hits EXCEPT ![type] = @ + Cardinality(at)]
             /\ \E pos : Origins(acc.content, r.content, pos, at, gone, type)
<1> DEFINE text == acc.content
           n == Len(text)
           kept == DOMAIN text \ gone
           C == Cardinality(kept)
           pos == [k \in 1 .. C |-> Nth(kept, k)]
           out == [k \in 1 .. C |-> IF Nth(kept, k) \in at THEN Mark(type)
                                    ELSE text[Nth(kept, k)]]
           hits == [acc.hits EXCEPT ![type] = @ + Cardinality(at)]
           r == Replace(acc, at, gone, type)
<1>1. text \in Seq(Token) /\ n \in Nat /\ DOMAIN text = 1 .. n /\ kept \in SUBSET (1 .. n)
  BY DEF Acc
<1>2. /\ C \in Nat
      /\ \A k \in 1 .. C : Nth(kept, k) \in kept
      /\ \A k, l \in 1 .. C : k < l => Nth(kept, k) < Nth(kept, l)
      /\ \A i \in kept : \E k \in 1 .. C : Nth(kept, k) = i
  BY <1>1, NthFacts
<1>3. r.content = out /\ r.hits = hits /\ r = [content |-> out, hits |-> hits]
  BY DEF Replace, CountMatches
<1>4. \A k \in 1 .. C : text[Nth(kept, k)] \in Token
  <2>1. \A i \in DOMAIN text : text[i] \in Token
    BY <1>1
  <2>2. \A i \in kept : i \in DOMAIN text
    OBVIOUS
  <2> QED BY <1>2, <2>1, <2>2
<1>5. out \in Seq(Token)
  <2>1. out \in [1 .. C -> Token]
    BY <1>4, MarkIsToken
  <2> QED BY <1>2, <2>1, IsSeq
<1>6. hits \in [HitType -> Nat]
  <2>1. IsFiniteSet(at)
    <3>1. IsFiniteSet(1 .. n) /\ at \in SUBSET (1 .. n)
      BY <1>1, FS_Interval
    <3> QED BY <3>1, FS_Subset
  <2>2. Cardinality(at) \in Nat
    BY <2>1, FS_CardinalityType
  <2>3. acc.hits \in [HitType -> Nat]
    BY DEF Acc
  <2> QED BY <2>2, <2>3
<1>7. DOMAIN out = 1 .. C
  OBVIOUS
<1>8. Origins(text, out, pos, at, gone, type)
  <2>1. pos \in [DOMAIN out -> kept]
    BY <1>2, <1>7
  <2>2. \A k, l \in DOMAIN out : k < l => pos[k] < pos[l]
    BY <1>2, <1>7
  <2>3. \A i \in kept : \E k \in DOMAIN out : pos[k] = i
    BY <1>2, <1>7
  <2>4. \A k \in DOMAIN out : out[k] = IF pos[k] \in at THEN Mark(type) ELSE text[pos[k]]
    OBVIOUS
  <2> QED BY <2>1, <2>2, <2>3, <2>4 DEF Origins
<1>9. r \in Acc
  BY <1>3, <1>5, <1>6 DEF Acc
<1>10. r.hits = [acc.hits EXCEPT ![type] = @ + Cardinality(at)]
  BY <1>3
<1>11. r.content = out
  BY <1>3
<1> HIDE DEF out, pos, r
<1>12. \E p : Origins(text, r.content, p, at, gone, type)
  BY <1>8, <1>11
<1> QED BY <1>9, <1>10, <1>12 DEF r

\* Where every position is kept, each keeps its place.
LEMMA NthAll ==
  ASSUME NEW n \in Nat, NEW k \in 1 .. n
  PROVE  Nth(1 .. n, k) = k
<1>1. \A i \in 1 .. n : {j \in 1 .. n : j <= i} = 1 .. i
  OBVIOUS
<1>2. \A i \in 1 .. n : Cardinality(1 .. i) = i
  BY FS_Interval
<1>3. \A i \in 1 .. n : Cardinality({j \in 1 .. n : j <= i}) = i
  BY <1>1, <1>2
<1> QED BY <1>3 DEF Nth

\* A stage that takes nothing away changes tokens where they stand.
LEMMA PointwiseFacts ==
  ASSUME NEW acc \in Acc, NEW at \in SUBSET DOMAIN acc.content, NEW type \in HitType
  PROVE  LET text == acc.content
             out  == Replace(acc, at, {}, type).content
         IN  /\ DOMAIN out = DOMAIN text
             /\ \A i \in DOMAIN text : out[i] = IF i \in at THEN Mark(type) ELSE text[i]
             /\ (\A i \in at : text[i] = Mark(type)) => out = text
<1> DEFINE text == acc.content
           n == Len(text)
           kept == DOMAIN text \ {}
           r == Replace(acc, at, {}, type)
<1>1. text \in Seq(Token) /\ n \in Nat /\ DOMAIN text = 1 .. n /\ kept = 1 .. n
  BY DEF Acc
<1>2. Cardinality(kept) = n
  BY <1>1, FS_Interval
<1>3. \A k \in 1 .. n : Nth(kept, k) = k
  BY <1>1, NthAll
<1>4. r.content = [k \in 1 .. Cardinality(kept) |->
                     IF Nth(kept, k) \in at THEN Mark(type) ELSE text[Nth(kept, k)]]
  BY DEF Replace
<1>5. r.content = [k \in 1 .. n |-> IF k \in at THEN Mark(type) ELSE text[k]]
  BY <1>2, <1>3, <1>4
<1>6. text = [k \in 1 .. n |-> text[k]]
  BY <1>1
<1>7. ASSUME \A i \in at : text[i] = Mark(type)
      PROVE  r.content = text
  BY <1>5, <1>6, <1>7
<1> HIDE DEF r
<1>8. DOMAIN r.content = DOMAIN text
  BY <1>1, <1>5
<1>9. \A i \in DOMAIN text : r.content[i] = IF i \in at THEN Mark(type) ELSE text[i]
  BY <1>1, <1>5
<1> QED BY <1>7, <1>8, <1>9 DEF r

\* A pattern that matches one token.
LEMMA PatternFacts ==
  ASSUME NEW acc \in Acc, NEW token, NEW type \in HitType
  PROVE  LET text == acc.content
             r    == ApplyPattern(acc, token, type)
         IN  /\ r \in Acc
             /\ DOMAIN r.content = DOMAIN text
             /\ \A i \in DOMAIN text :
                  r.content[i] = IF text[i] = token THEN Mark(type) ELSE text[i]
             /\ (\A i \in DOMAIN text : text[i] # token) => r.content = text
<1> DEFINE at == {i \in DOMAIN acc.content : acc.content[i] = token}
           r == Replace(acc, at, {}, type)
<1>1. at \in SUBSET DOMAIN acc.content /\ {} \in SUBSET DOMAIN acc.content
  OBVIOUS
<1>2. r \in Acc
  BY <1>1, ReplaceFacts
<1>3. /\ DOMAIN r.content = DOMAIN acc.content
      /\ \A i \in DOMAIN acc.content :
           r.content[i] = IF i \in at THEN Mark(type) ELSE acc.content[i]
      /\ (\A i \in at : acc.content[i] = Mark(type)) => r.content = acc.content
  BY <1>1, PointwiseFacts
<1>4. ApplyPattern(acc, token, type) = r
  BY DEF ApplyPattern
<1> HIDE DEF r
<1>5. ASSUME \A i \in DOMAIN acc.content : acc.content[i] # token
      PROVE  r.content = acc.content
  BY <1>3, <1>5
<1> QED BY <1>2, <1>3, <1>4, <1>5

\* Key blocks do not go without a mark: the first of them opens.
LEMMA FirstKeyBlock ==
  ASSUME NEW text \in Seq(Token), NEW i \in DOMAIN text, InKeyBlock(text, i)
  PROVE  \E b \in DOMAIN text : OpensKeyBlock(text, b)
<1> DEFINE opening == {b \in DOMAIN text : text[b] = Begin
                         /\ \E e \in DOMAIN text : e >= b /\ text[e] = End}
<1>1. PICK n \in Nat : DOMAIN text = 1 .. n
  <2>1. Len(text) \in Nat /\ DOMAIN text = 1 .. Len(text)
    OBVIOUS
  <2> QED BY <2>1
<1>2. PICK b0 \in DOMAIN text : Encloses(text, b0, i)
  BY DEF InKeyBlock
<1>3. b0 \in opening
  BY <1>1, <1>2 DEF Encloses
<1>4. opening \in SUBSET Nat
  BY <1>1
<1>5. PICK b \in opening : \A x \in opening : b <= x
  BY <1>3, <1>4, LeastElement
<1>6. Encloses(text, b, b)
  BY <1>1, <1>5 DEF Encloses
<1>7. ASSUME NEW c \in DOMAIN text, Encloses(text, c, b)
      PROVE  c = b
  <2>1. c <= b /\ c \in opening
    BY <1>1, <1>7 DEF Encloses
  <2> QED BY <1>1, <1>5, <2>1
<1> QED BY <1>5, <1>6, <1>7 DEF OpensKeyBlock

----------------------------------------------------------------------------
(***************************************************************************)
(* The hits account for the marks.                                          *)
(***************************************************************************)

\* From one text to another every new mark is a hit more, and without a hit
\* more nothing has changed.
Accounted(acc, r) ==
  /\ r \in Acc
  /\ \A t \in HitType :
       /\ acc.hits[t] <= r.hits[t]
       /\ Marks(r.content, t) + acc.hits[t] <= Marks(acc.content, t) + r.hits[t]
  /\ r.hits = acc.hits => r.content = acc.content

\* The marks of a text can be counted.
LEMMA MarksType ==
  ASSUME NEW text \in Seq(Token), NEW t
  PROVE  /\ IsFiniteSet({i \in DOMAIN text : text[i] = Mark(t)})
         /\ Marks(text, t) \in Nat
<1>1. Len(text) \in Nat /\ DOMAIN text = 1 .. Len(text)
  OBVIOUS
<1>2. IsFiniteSet(DOMAIN text)
  BY <1>1, FS_Interval
<1>3. {i \in DOMAIN text : text[i] = Mark(t)} \in SUBSET DOMAIN text
  OBVIOUS
<1>4. IsFiniteSet({i \in DOMAIN text : text[i] = Mark(t)})
  BY <1>2, <1>3, FS_Subset
<1> QED BY <1>4, FS_CardinalityType DEF Marks

\* Stages one after another account for their marks together.
LEMMA AccountedTransitive ==
  ASSUME NEW a \in Acc, NEW b, NEW c, Accounted(a, b), Accounted(b, c)
  PROVE  Accounted(a, c)
<1>1. b \in Acc /\ c \in Acc
  BY DEF Accounted
<1>2. \A t \in HitType : a.hits[t] \in Nat /\ b.hits[t] \in Nat /\ c.hits[t] \in Nat
  BY <1>1 DEF Acc
<1>3. \A t \in HitType : /\ Marks(a.content, t) \in Nat
                         /\ Marks(b.content, t) \in Nat
                         /\ Marks(c.content, t) \in Nat
  BY <1>1, MarksType DEF Acc
<1>4. ASSUME NEW t \in HitType
      PROVE  /\ a.hits[t] <= c.hits[t]
             /\ Marks(c.content, t) + a.hits[t] <= Marks(a.content, t) + c.hits[t]
  BY <1>2, <1>3 DEF Accounted
<1>5. ASSUME c.hits = a.hits
      PROVE  c.content = a.content
  <2>1. \A t \in HitType : b.hits[t] = a.hits[t]
    BY <1>2, <1>5 DEF Accounted
  <2>2. b.hits = a.hits
    <3>1. a.hits \in [HitType -> Nat] /\ b.hits \in [HitType -> Nat]
      BY <1>1 DEF Acc
    <3> QED BY <2>1, <3>1
  <2> QED BY <1>5, <2>2 DEF Accounted
<1> QED BY <1>1, <1>4, <1>5 DEF Accounted

\* A mark tells its type.
LEMMA MarkTypes == \A t, u : Mark(t) = Mark(u) => t = u
  BY DEF Mark

\* A stage that takes nothing away unless it puts a mark accounts for its marks.
LEMMA ReplaceAccounted ==
  ASSUME NEW acc \in Acc, NEW at \in SUBSET DOMAIN acc.content,
         NEW gone \in SUBSET DOMAIN acc.content, NEW type \in HitType,
         at = {} => gone = {}
  PROVE  Accounted(acc, Replace(acc, at, gone, type))
<1> DEFINE text == acc.content
           r == Replace(acc, at, gone, type)
           marked(s, t) == {i \in DOMAIN s : s[i] = Mark(t)}
<1>1. /\ r \in Acc
      /\ r.hits = [acc.hits EXCEPT ![type] = @ + Cardinality(at)]
      /\ \E pos : Origins(text, r.content, pos, at, gone, type)
  BY ReplaceFacts
<1>2. text \in Seq(Token) /\ r.content \in Seq(Token) /\ acc.hits \in [HitType -> Nat]
  BY <1>1 DEF Acc
<1>3. IsFiniteSet(at) /\ Cardinality(at) \in Nat
  <2>1. Len(text) \in Nat /\ DOMAIN text = 1 .. Len(text)
    BY <1>2
  <2>2. IsFiniteSet(DOMAIN text)
    BY <2>1, FS_Interval
  <2>3. IsFiniteSet(at)
    BY <2>2, FS_Subset
  <2> QED BY <2>3, FS_CardinalityType
<1>4. PICK pos : Origins(text, r.content, pos, at, gone, type)
  BY <1>1
<1> HIDE DEF r
<1>5. \A k \in DOMAIN r.content : pos[k] \in DOMAIN text
  BY <1>4 DEF Origins
<1>6. \A k, l \in DOMAIN r.content : pos[k] = pos[l] => k = l
  <2>1. \A k \in DOMAIN r.content : k \in Nat /\ pos[k] \in Nat
    BY <1>2, <1>5
  <2>2. \A k, l \in DOMAIN r.content : k < l => pos[k] < pos[l]
    BY <1>4 DEF Origins
  <2> TAKE k, l \in DOMAIN r.content
  <2> HAVE pos[k] = pos[l]
  <2>3. CASE k < l
    BY <2>1, <2>2, <2>3
  <2>4. CASE l < k
    BY <2>1, <2>2, <2>4
  <2> QED BY <2>1, <2>3, <2>4
<1>7. ASSUME NEW t \in HitType, NEW T, IsFiniteSet(T),
             \A k \in marked(r.content, t) : pos[k] \in T
      PROVE  Marks(r.content, t) <= Cardinality(T)
  <2> DEFINE S == marked(r.content, t)
             f == [k \in S |-> pos[k]]
  <2>1. f \in [S -> T]
    BY <1>7
  <2>2. \A k, l \in S : f[k] = f[l] => k = l
    BY <1>6
  <2>3. f \in Injection(S, T)
    BY <2>1, <2>2 DEF Injection, IsInjective
  <2>4. Cardinality(S) <= Cardinality(T)
    BY <1>7, <2>3, FS_Injection
  <2> QED BY <2>4 DEF Marks
<1>8. ASSUME NEW t \in HitType, t # type
      PROVE  Marks(r.content, t) <= Marks(text, t)
  <2>1. \A k \in marked(r.content, t) : pos[k] \in marked(text, t)
    BY <1>4, <1>5, <1>8, MarkTypes DEF Origins
  <2>2. IsFiniteSet(marked(text, t))
    BY <1>2, MarksType
  <2>3. Marks(r.content, t) <= Cardinality(marked(text, t))
    BY <1>7, <2>1, <2>2
  <2> QED BY <2>3 DEF Marks
<1>9. Marks(r.content, type) <= Marks(text, type) + Cardinality(at)
  <2> DEFINE T == marked(text, type) \cup at
  <2>1. \A k \in marked(r.content, type) : pos[k] \in T
    BY <1>4, <1>5 DEF Origins
  <2>2. IsFiniteSet(marked(text, type)) /\ Cardinality(marked(text, type)) \in Nat
    BY <1>2, MarksType DEF Marks
  <2>3. /\ IsFiniteSet(T)
        /\ Cardinality(T) = Cardinality(marked(text, type)) + Cardinality(at)
                              - Cardinality(marked(text, type) \cap at)
    BY <1>3, <2>2, FS_Union
  <2>4. Cardinality(marked(text, type) \cap at) \in Nat
    BY <2>2, FS_Intersection, FS_CardinalityType
  <2>5. Marks(r.content, type) <= Cardinality(T)
    BY <1>7, <2>1, <2>3
  <2>6. Marks(r.content, type) \in Nat
    BY <1>2, MarksType
  <2> HIDE DEF T
  <2> QED BY <1>3, <2>2, <2>3, <2>4, <2>5, <2>6 DEF Marks
<1>10. ASSUME NEW t \in HitType
       PROVE  /\ acc.hits[t] <= r.hits[t]
              /\ Marks(r.content, t) + acc.hits[t] <= Marks(text, t) + r.hits[t]
  <2>1. /\ acc.hits[t] \in Nat
        /\ Marks(r.content, t) \in Nat /\ Marks(text, t) \in Nat
    BY <1>2, MarksType
  <2>2. CASE t = type
    <3>1. r.hits[t] = acc.hits[t] + Cardinality(at)
      BY <1>1, <1>2, <2>2
    <3>2. Marks(r.content, t) <= Marks(text, t) + Cardinality(at)
      BY <1>9, <2>2
    <3> QED BY <1>3, <2>1, <3>1, <3>2
  <2>3. CASE t # type
    <3>1. r.hits[t] = acc.hits[t]
      BY <1>1, <1>2, <2>3
    <3> QED BY <1>8, <2>1, <2>3, <3>1
  <2> QED BY <2>2, <2>3
<1>11. ASSUME r.hits = acc.hits
       PROVE  r.content = text
  <2>1. acc.hits[type] + Cardinality(at) = acc.hits[type] /\ acc.hits[type] \in Nat
    BY <1>1, <1>2, <1>11
  <2>2. Cardinality(at) = 0
    BY <1>3, <2>1
  <2>3. at = {} /\ gone = {}
    BY <1>3, <2>2, FS_EmptySet
  <2>4. r = Replace(acc, {}, {}, type)
    BY <2>3 DEF r
  <2> QED BY <2>4, PointwiseFacts
<1> QED BY <1>1, <1>10, <1>11 DEF Accounted, r

\* So does a pattern that matches one token,
LEMMA PatternAccounted ==
  ASSUME NEW acc \in Acc, NEW token, NEW type \in HitType
  PROVE  Accounted(acc, ApplyPattern(acc, token, type))
<1> DEFINE at == {i \in DOMAIN acc.content : acc.content[i] = token}
<1>1. at \in SUBSET DOMAIN acc.content /\ {} \in SUBSET DOMAIN acc.content
  OBVIOUS
<1>2. ApplyPattern(acc, token, type) = Replace(acc, at, {}, type)
  BY DEF ApplyPattern
<1> HIDE DEF at
<1> QED BY <1>1, <1>2, ReplaceAccounted

\* The positions the key blocks and the .env runs give to Replace.
KeyOpens(text) == {i \in DOMAIN text : OpensKeyBlock(text, i)}
KeyGone(text)  == {i \in DOMAIN text : InKeyBlock(text, i)} \ KeyOpens(text)
EnvLines(text) == {i \in DOMAIN text : InBlock(text, i)}
EnvAt(text)    == {i + 1 : i \in EnvLines(text)}
EnvGone(text)  == {j \in DOMAIN text :
                     \E i \in EnvLines(text) : i + 1 < j /\ SameLine(text, i, j)}

\* The key blocks and the .env runs are such stages,
LEMMA KeyStage ==
  ASSUME NEW acc
  PROVE  ApplyKeyBlocks(acc)
           = Replace(acc, KeyOpens(acc.content), KeyGone(acc.content), "private-key")
  BY DEF ApplyKeyBlocks, KeyOpens, KeyGone

LEMMA EnvStage ==
  ASSUME NEW acc
  PROVE  RedactEnvBlocks(acc)
           = Replace(acc, EnvAt(acc.content), EnvGone(acc.content), "env-var")
  BY DEF RedactEnvBlocks, EnvLines, EnvAt, EnvGone

\* at positions of the text.
LEMMA StagePositions ==
  ASSUME NEW text
  PROVE  /\ KeyOpens(text) \in SUBSET DOMAIN text /\ KeyGone(text) \in SUBSET DOMAIN text
         /\ EnvAt(text) \in SUBSET DOMAIN text /\ EnvGone(text) \in SUBSET DOMAIN text
         /\ \A i \in EnvLines(text) : i \in DOMAIN text /\ EnvLine(text, i)
<1>1. \A i \in EnvLines(text) : i \in DOMAIN text /\ EnvLine(text, i)
  BY DEF EnvLines, InBlock
<1>2. \A i \in EnvLines(text) : i + 1 \in DOMAIN text
  BY <1>1 DEF EnvLine
<1>3. EnvAt(text) \in SUBSET DOMAIN text
  BY <1>2 DEF EnvAt
<1>4. /\ KeyOpens(text) \in SUBSET DOMAIN text /\ KeyGone(text) \in SUBSET DOMAIN text
      /\ EnvGone(text) \in SUBSET DOMAIN text
  BY DEF KeyOpens, KeyGone, EnvGone
<1> QED BY <1>1, <1>3, <1>4

\* The types the stages count their hits under.
LEMMA Types == /\ "private-key" \in HitType /\ "env-var" \in HitType
               /\ "custom" \in HitType /\ "email" \in HitType
               /\ \A t \in SecretType : t \in HitType
  BY DEF HitType

\* the stage for the key blocks,
LEMMA KeyAccounted ==
  ASSUME NEW acc \in Acc
  PROVE  Accounted(acc, ApplyKeyBlocks(acc))
<1> DEFINE text == acc.content
<1>1. text \in Seq(Token)
  BY DEF Acc
<1>2. KeyOpens(text) = {} => KeyGone(text) = {}
  BY <1>1, FirstKeyBlock DEF KeyOpens, KeyGone
<1> QED BY <1>2, KeyStage, StagePositions, Types, ReplaceAccounted

\* the stage for the .env runs,
LEMMA EnvAccounted ==
  ASSUME NEW acc \in Acc
  PROVE  Accounted(acc, RedactEnvBlocks(acc))
<1> DEFINE text == acc.content
<1>1. EnvAt(text) = {} => EnvGone(text) = {}
  BY DEF EnvAt, EnvGone
<1> QED BY <1>1, EnvStage, StagePositions, Types, ReplaceAccounted

\* the built-in stages together,
LEMMA BuiltinAccounted ==
  ASSUME NEW acc \in Acc
  PROVE  Accounted(acc, Builtin(acc))
<1> DEFINE keys   == ApplyKeyBlocks(acc)
           ai     == ApplyPattern(keys, Secret("ai-key"), "ai-key")
           github == ApplyPattern(ai, Secret("github-token"), "github-token")
           aws    == ApplyPattern(github, Secret("aws-key"), "aws-key")
           slack  == ApplyPattern(aws, Secret("slack-token"), "slack-token")
           jwt    == ApplyPattern(slack, Secret("jwt"), "jwt")
<1>1. Builtin(acc) = jwt
  BY DEF Builtin, ApplySecret
<1>2. \A a : \A b : Accounted(a, b) => b \in Acc
  BY DEF Accounted
<1>3. \A t \in SecretType : \A a \in Acc : Accounted(a, ApplyPattern(a, Secret(t), t))
  BY PatternAccounted, Types
<1>4. \A b, c : Accounted(acc, b) /\ Accounted(b, c) => Accounted(acc, c)
  BY AccountedTransitive
<1>5. /\ "ai-key" \in SecretType /\ "github-token" \in SecretType /\ "aws-key" \in SecretType
      /\ "slack-token" \in SecretType /\ "jwt" \in SecretType
  BY DEF SecretType
<1>6. Accounted(acc, keys) /\ keys \in Acc
  BY <1>2, KeyAccounted
<1> HIDE DEF keys
<1>7. Accounted(acc, ai) /\ ai \in Acc
  BY <1>2, <1>3, <1>4, <1>5, <1>6
<1> HIDE DEF ai
<1>8. Accounted(acc, github) /\ github \in Acc
  BY <1>2, <1>3, <1>4, <1>5, <1>7
<1> HIDE DEF github
<1>9. Accounted(acc, aws) /\ aws \in Acc
  BY <1>2, <1>3, <1>4, <1>5, <1>8
<1> HIDE DEF aws
<1>10. Accounted(acc, slack) /\ slack \in Acc
  BY <1>2, <1>3, <1>4, <1>5, <1>9
<1> HIDE DEF slack
<1>11. Accounted(acc, jwt)
  BY <1>2, <1>3, <1>4, <1>5, <1>10
<1> QED BY <1>1, <1>11

\* and the whole of redact().
LEMMA RedactedAccounted ==
  ASSUME NEW text \in Seq(Token), NEW opts \in Options
  PROVE  Accounted([content |-> text, hits |-> NoHits], Redacted(text, opts))
<1> DEFINE start  == [content |-> text, hits |-> NoHits]
           built  == Builtin(start)
           blocks == RedactEnvBlocks(built)
           custom == ApplyPattern(blocks, Word("other"), "custom")
           extra  == IF opts.extra THEN custom ELSE blocks
           mail   == ApplyPattern(extra, Word("mail"), "email")
<1>1. Redacted(text, opts) = IF text = <<>> THEN start
                             ELSE IF opts.emails THEN mail ELSE extra
  BY DEF Redacted
<1>2. \A a : \A b : Accounted(a, b) => b \in Acc
  BY DEF Accounted
<1>3. start \in Acc
  BY DEF Acc, NoHits
<1>4. \A b, c : Accounted(start, b) /\ Accounted(b, c) => Accounted(start, c)
  BY <1>3, AccountedTransitive
<1>5. Accounted(start, start)
  <2>1. \A t \in HitType : NoHits[t] = 0
    BY DEF NoHits
  <2>2. \A t \in HitType : Marks(text, t) \in Nat
    BY MarksType
  <2> QED BY <1>3, <2>1, <2>2 DEF Accounted
<1> HIDE DEF start
<1>6. Accounted(start, built) /\ built \in Acc
  BY <1>2, <1>3, BuiltinAccounted
<1> HIDE DEF built
<1>7. Accounted(start, blocks) /\ blocks \in Acc
  BY <1>2, <1>4, <1>6, EnvAccounted
<1> HIDE DEF blocks
<1>8. Accounted(start, custom) /\ custom \in Acc
  BY <1>2, <1>4, <1>7, PatternAccounted, Types
<1> HIDE DEF custom
<1>9. Accounted(start, extra) /\ extra \in Acc
  BY <1>7, <1>8
<1> HIDE DEF extra
<1>10. Accounted(start, mail)
  BY <1>4, <1>9, PatternAccounted, Types
<1> HIDE DEF mail
<1>11. Accounted(start, Redacted(text, opts))
  BY <1>1, <1>5, <1>9, <1>10
<1> QED BY <1>11 DEF start

\* Whatever arrives is a text.
THEOREM RedactTypes == RedactSpec => []RedactTypeOK
<1>1. RedactInit => RedactTypeOK
  BY DEF RedactInit, RedactTypeOK
<1>2. RedactTypeOK /\ [Arrives]_redactVars => RedactTypeOK'
  BY DEF RedactTypeOK, Arrives, redactVars
<1> QED BY <1>1, <1>2, PTL DEF RedactSpec

\* Every mark in a stored prompt is counted among its hits or was typed by
\* the user, and a prompt without hits is stored as it was sent.
THEOREM MarksAreCounted == RedactSpec => []HitsAccountForMarks
<1>1. RedactTypeOK => HitsAccountForMarks
  <2> SUFFICES ASSUME RedactTypeOK PROVE HitsAccountForMarks
    OBVIOUS
  <2> DEFINE start == [content |-> input, hits |-> NoHits]
             r == Redacted(input, options)
  <2>1. Accounted(start, r)
    BY RedactedAccounted DEF RedactTypeOK
  <2>2. start.hits = NoHits /\ start.content = input /\ \A t \in HitType : NoHits[t] = 0
    BY DEF NoHits
  <2>3. \A t \in HitType : Marks(r.content, t) \in Nat /\ r.hits[t] \in Nat
    <3>1. r \in Acc
      BY <2>1 DEF Accounted
    <3> QED BY <3>1, MarksType DEF Acc
  <2> HIDE DEF r, start
  <2>4. \A t \in HitType : Marks(r.content, t) <= Marks(input, t) + r.hits[t]
    BY <2>1, <2>2, <2>3 DEF Accounted
  <2>5. r.hits = NoHits => r.content = input
    BY <2>1, <2>2 DEF Accounted
  <2> QED BY <2>4, <2>5 DEF HitsAccountForMarks, r
<1> QED BY <1>1, RedactTypes, PTL

----------------------------------------------------------------------------
(***************************************************************************)
(* One pass is enough.                                                      *)
(***************************************************************************)

\* No token of a text is this one.
Without(text, token) == \A i \in DOMAIN text : text[i] # token

\* No END comes behind a BEGIN.
NoKeyBlock(text) ==
  \A i, j \in DOMAIN text : ~(i < j /\ text[i] = Begin /\ text[j] = End)

\* Lines that stand in a run are names with nothing but the mark behind them.
EnvDone(text) ==
  \A i \in DOMAIN text : InBlock(text, i) =>
    /\ text[i + 1] = Mark("env-var")
    /\ i + 2 \in DOMAIN text => text[i + 2] = Newline

\* What the stages leave behind, each its part.
Clean(text, opts) ==
  /\ \A t \in SecretType : Without(text, Secret(t))
  /\ NoKeyBlock(text)
  /\ EnvDone(text)
  /\ opts.extra => Without(text, Word("other"))
  /\ opts.emails => Without(text, Word("mail"))

\* Marks, secrets, newlines, names and the armour lines of key blocks are
\* never each other.
LEMMA TokenKinds ==
  /\ \A t : /\ Mark(t).kind = "mark" /\ Secret(t).kind = "secret"
            /\ \A w : Mark(t) # Word(w) \/ w = "mark"
            /\ Mark(t) # Newline /\ Mark(t) # Begin /\ Mark(t) # End /\ Mark(t) # Name
            /\ Secret(t) # Newline /\ Secret(t) # Name
            /\ \A u : Mark(t) # Secret(u)
  /\ \A w : w \notin {"newline", "name"} => Word(w) # Newline /\ Word(w) # Name
  /\ Newline # Name /\ Begin # End
<1>1. \A t : /\ Mark(t).kind = "mark" /\ Secret(t).kind = "secret"
  BY DEF Mark, Secret
<1>2. \A w : Word(w).kind = w
  BY DEF Word
<1>3. /\ Newline.kind = "newline" /\ Begin.kind = "begin" /\ End.kind = "end"
      /\ Name.kind = "name"
  BY <1>2 DEF Newline, Begin, End, Name
<1>4. \A t : \A w : Mark(t) = Word(w) => w = "mark"
  BY <1>1, <1>2
<1>5. \A t : /\ Mark(t) # Newline /\ Mark(t) # Begin /\ Mark(t) # End /\ Mark(t) # Name
             /\ Secret(t) # Newline /\ Secret(t) # Name
             /\ \A u : Mark(t) # Secret(u)
  BY <1>1, <1>3
<1>6. \A w : w \notin {"newline", "name"} => Word(w) # Newline /\ Word(w) # Name
  BY <1>2, <1>3
<1>7. Newline # Name /\ Begin # End
  BY <1>3
<1> QED BY <1>1, <1>4, <1>5, <1>6, <1>7

\* No stage brings a token that is not a mark of its own.
LEMMA OriginsWithout ==
  ASSUME NEW text, NEW out, NEW pos, NEW at, NEW gone, NEW type, NEW token,
         Origins(text, out, pos, at, gone, type),
         Mark(type) # token, Without(text, token)
  PROVE  Without(out, token)
  BY DEF Origins, Without

\* Nor does a stage bring about a key block.
LEMMA OriginsNoKeyBlock ==
  ASSUME NEW text, NEW out, NEW pos, NEW at, NEW gone, NEW type,
         Origins(text, out, pos, at, gone, type), NoKeyBlock(text)
  PROVE  NoKeyBlock(out)
<1> SUFFICES ASSUME NEW k \in DOMAIN out, NEW l \in DOMAIN out, k < l,
                    out[k] = Begin, out[l] = End
             PROVE  FALSE
  BY DEF NoKeyBlock
<1>1. pos[k] \in DOMAIN text /\ pos[l] \in DOMAIN text /\ pos[k] < pos[l]
  BY DEF Origins
<1>2. text[pos[k]] = Begin /\ text[pos[l]] = End
  BY TokenKinds DEF Origins
<1> QED BY <1>1, <1>2 DEF NoKeyBlock

\* The first stage leaves no key block, not even one whose ends it brings
\* together.
LEMMA KeyBlocksGo ==
  ASSUME NEW acc \in Acc
  PROVE  NoKeyBlock(ApplyKeyBlocks(acc).content)
<1> DEFINE text == acc.content
           out == ApplyKeyBlocks(acc).content
<1>1. text \in Seq(Token)
  BY DEF Acc
<1>2. PICK pos : Origins(text, out, pos, KeyOpens(text), KeyGone(text), "private-key")
  BY KeyStage, StagePositions, Types, ReplaceFacts
<1> HIDE DEF out
<1> SUFFICES ASSUME NEW k \in DOMAIN out, NEW l \in DOMAIN out, k < l,
                    out[k] = Begin, out[l] = End
             PROVE  FALSE
  BY DEF NoKeyBlock, out
<1> DEFINE b == pos[k]
           e == pos[l]
<1>3. /\ b \in DOMAIN text /\ e \in DOMAIN text /\ b < e
      /\ b \notin KeyGone(text)
  BY <1>2 DEF Origins
<1>4. b \notin KeyOpens(text) /\ text[b] = Begin /\ text[e] = End
  BY <1>2, TokenKinds DEF Origins
<1> HIDE DEF b, e
<1>5. b \in Nat /\ e \in Nat
  BY <1>1, <1>3
<1>6. Encloses(text, b, b)
  BY <1>3, <1>4, <1>5 DEF Encloses
<1>7. InKeyBlock(text, b)
  BY <1>3, <1>6 DEF InKeyBlock
<1> QED BY <1>3, <1>4, <1>7 DEF KeyGone

\* The stage for the .env runs leaves the lines of a run as names with the
\* mark behind them, and makes no new run.
LEMMA EnvRunsGo ==
  ASSUME NEW acc \in Acc
  PROVE  EnvDone(RedactEnvBlocks(acc).content)
<1> DEFINE text == acc.content
           out == RedactEnvBlocks(acc).content
           at == EnvAt(text)
           gone == EnvGone(text)
<1>1. PICK n \in Nat : text \in Seq(Token) /\ DOMAIN text = 1 .. n
  <2>1. text \in Seq(Token) /\ Len(text) \in Nat /\ DOMAIN text = 1 .. Len(text)
    BY DEF Acc
  <2> QED BY <2>1
<1>2. PICK pos : Origins(text, out, pos, at, gone, "env-var")
  BY EnvStage, StagePositions, Types, ReplaceFacts
<1>3. PICK m \in Nat : DOMAIN out = 1 .. m
  <2>1. RedactEnvBlocks(acc) \in Acc
    BY EnvStage, StagePositions, Types, ReplaceFacts
  <2>2. out \in Seq(Token)
    BY <2>1 DEF Acc
  <2>3. Len(out) \in Nat /\ DOMAIN out = 1 .. Len(out)
    BY <2>2
  <2> QED BY <2>3
<1> HIDE DEF text, out
<1>4. \A k \in 1 .. m : pos[k] \in 1 .. n /\ pos[k] \notin gone
  BY <1>1, <1>2, <1>3 DEF Origins
<1>5. \A k, l \in 1 .. m : k < l => pos[k] < pos[l]
  BY <1>3, <1>2 DEF Origins
<1>6. \A i \in 1 .. n : i \notin gone => \E k \in 1 .. m : pos[k] = i
  BY <1>1, <1>3, <1>2 DEF Origins
<1>7. \A k \in 1 .. m : out[k] = IF pos[k] \in at THEN Mark("env-var") ELSE text[pos[k]]
  BY <1>2, <1>3 DEF Origins
\* newlines stay
<1>8. \A i \in 1 .. n : text[i] = Newline => i \notin gone /\ i \notin at
  <2> TAKE i \in 1 .. n
  <2> HAVE text[i] = Newline
  <2>1. i \notin gone
    <3> SUFFICES ASSUME NEW j \in EnvLines(text), j + 1 < i, SameLine(text, j, i)
                 PROVE  FALSE
      BY DEF EnvGone
    <3>1. j <= i /\ \A k \in j .. i : text[k] # Newline
      BY DEF SameLine
    <3>2. j \in Nat
      BY <1>1, StagePositions
    <3> QED BY <3>1, <3>2
  <2>2. i \notin at
    BY StagePositions DEF EnvAt, EnvLine
  <2> QED BY <2>1, <2>2
<1>9. \A k \in 1 .. m : out[k] = Newline <=> text[pos[k]] = Newline
  BY <1>4, <1>7, <1>8, TokenKinds
\* what is kept behind a kept position comes next
<1>10. ASSUME NEW k \in 1 .. m, pos[k] + 1 \in 1 .. n, pos[k] + 1 \notin gone
       PROVE  k + 1 \in 1 .. m /\ pos[k + 1] = pos[k] + 1
  <2>1. PICK l \in 1 .. m : pos[l] = pos[k] + 1
    BY <1>6, <1>10
  <2>2. pos[k] \in Nat
    BY <1>4
  <2>3. k < l
    <3>1. CASE l < k
      BY <1>5, <2>1, <2>2, <3>1
    <3>2. CASE l = k
      BY <2>1, <2>2, <3>2
    <3> QED BY <3>1, <3>2
  <2>4. k + 1 \in 1 .. m
    BY <2>3
  <2>5. CASE k + 1 < l
    <3>1. pos[k] < pos[k + 1] /\ pos[k + 1] < pos[l] /\ pos[k + 1] \in Nat
      BY <1>4, <1>5, <2>4, <2>5
    <3> QED BY <2>1, <2>2, <3>1
  <2>6. CASE ~(k + 1 < l)
    <3>1. l = k + 1
      BY <2>3, <2>6
    <3> QED BY <2>1, <2>4, <3>1
  <2> QED BY <2>5, <2>6
\* a line starts where one started
<1>11. ASSUME NEW k \in 1 .. m, LineStart(out, k)
       PROVE  LineStart(text, pos[k])
  <2>1. CASE k = 1
    <3>1. 1 \in 1 .. n
      BY <1>4
    <3>2. 1 \notin gone
      <4> SUFFICES ASSUME NEW j \in EnvLines(text), j + 1 < 1 PROVE FALSE
        BY DEF EnvGone
      <4>1. j \in Nat
        BY <1>1, StagePositions
      <4> QED BY <4>1
    <3>3. PICK l \in 1 .. m : pos[l] = 1
      BY <1>6, <3>1, <3>2
    <3>4. l = 1
      <4>1. CASE l > 1
        BY <1>4, <1>5, <2>1, <3>3, <4>1
      <4> QED BY <4>1
    <3> QED BY <2>1, <3>3, <3>4 DEF LineStart
  <2>2. CASE k # 1
    <3>1. k - 1 \in 1 .. m /\ out[k - 1] = Newline /\ (k - 1) + 1 = k
      BY <1>11, <2>2 DEF LineStart
    <3>2. text[pos[k - 1]] = Newline
      BY <1>9, <3>1
    <3>3. pos[k - 1] < pos[k] /\ pos[k - 1] \in 1 .. n /\ pos[k] \in 1 .. n
      BY <1>4, <1>5, <3>1
    <3> DEFINE q == pos[k - 1]
    <3>4. q + 1 \in 1 .. n
      BY <3>3
    <3>5. q + 1 \notin gone
      <4> SUFFICES ASSUME NEW j \in EnvLines(text), j + 1 < q + 1, SameLine(text, j, q + 1)
                   PROVE  FALSE
        BY DEF EnvGone
      <4>1. j \in Nat /\ q \in Nat
        BY <1>1, <3>3, StagePositions
      <4>2. q \in j .. q + 1
        BY <4>1
      <4> QED BY <3>2, <4>2 DEF SameLine
    <3>6. pos[(k - 1) + 1] = q + 1
      BY <1>10, <3>1, <3>4, <3>5
    <3>7. pos[k] - 1 = q
      BY <3>1, <3>3, <3>6
    <3> QED BY <3>2, <3>7 DEF LineStart
  <2> QED BY <2>1, <2>2
\* a line of the .env shape was one
<1>12. ASSUME NEW k \in 1 .. m, EnvLine(out, k)
       PROVE  EnvLine(text, pos[k])
  <2>1. LineStart(text, pos[k])
    BY <1>11, <1>12 DEF EnvLine
  <2>2. text[pos[k]] = Name
    BY <1>7, <1>12, TokenKinds DEF EnvLine
  <2>3. k + 1 \in 1 .. m /\ out[k + 1] # Newline
    BY <1>3, <1>12 DEF EnvLine
  <2>4. pos[k] + 1 \in 1 .. n
    <3>1. pos[k] < pos[k + 1] /\ pos[k] \in 1 .. n /\ pos[k + 1] \in 1 .. n
      BY <1>4, <1>5, <2>3
    <3> QED BY <3>1
  <2>5. ASSUME text[pos[k] + 1] = Newline PROVE FALSE
    <3>1. pos[k] + 1 \notin gone
      BY <1>8, <2>4, <2>5
    <3>2. pos[k + 1] = pos[k] + 1
      BY <1>10, <2>4, <3>1
    <3>3. out[k + 1] = Newline
      BY <1>9, <2>3, <2>5, <3>2
    <3> QED BY <2>3, <3>3
  <2> QED BY <1>1, <2>1, <2>2, <2>4, <2>5 DEF EnvLine
\* and lines next to each other were
<1>13. ASSUME NEW k \in 1 .. m, NEW l \in 1 .. m, NextLine(out, k, l), EnvLine(out, l)
       PROVE  NextLine(text, pos[k], pos[l])
  <2>1. k < l /\ \A x \in k .. l - 2 : out[x] # Newline
    BY <1>13 DEF NextLine
  <2>2. pos[k] < pos[l] /\ pos[k] \in 1 .. n /\ pos[l] \in 1 .. n
    BY <1>4, <1>5, <2>1
  <2>3. ASSUME NEW y \in pos[k] .. pos[l] - 2, text[y] = Newline
        PROVE  FALSE
    <3>1. y \in 1 .. n /\ pos[k] <= y /\ y <= pos[l] - 2
      BY <2>2
    <3>2. y \notin gone
      BY <1>8, <2>3, <3>1
    <3>3. PICK x \in 1 .. m : pos[x] = y
      BY <1>6, <3>1, <3>2
    <3>4. out[x] = Newline
      BY <1>9, <2>3, <3>3
    <3>5. k <= x
      <4>1. CASE x < k
        <5>1. y < pos[k]
          BY <1>5, <3>3, <4>1
        <5> QED BY <2>2, <3>1, <5>1
      <4> QED BY <4>1
    <3>6. x < l
      <4>1. CASE l < x
        <5>1. pos[l] < y
          BY <1>5, <3>3, <4>1
        <5> QED BY <2>2, <3>1, <5>1
      <4>2. CASE l = x
        BY <2>2, <3>1, <3>3, <4>2
      <4> QED BY <4>1, <4>2
    <3>7. x = l - 1
      <4>1. x \notin k .. l - 2
        BY <2>1, <3>4
      <4> QED BY <3>5, <3>6, <4>1
    <3>8. text[pos[l]] # Newline
      <4>1. EnvLine(text, pos[l])
        BY <1>12, <1>13
      <4> QED BY <4>1, TokenKinds DEF EnvLine
    <3>9. y + 1 \in 1 .. n /\ y + 1 < pos[l]
      BY <2>2, <3>1
    <3>10. y + 1 \notin gone
      <4> SUFFICES ASSUME NEW j \in EnvLines(text), j + 1 < y + 1, SameLine(text, j, y + 1)
                   PROVE  FALSE
        BY DEF EnvGone
      <4>1. j \in Nat
        BY <1>1, StagePositions
      <4>2. y \in j .. y + 1
        BY <3>1, <4>1
      <4> QED BY <2>3, <4>2 DEF SameLine
    <3>11. pos[x + 1] = y + 1
      BY <1>10, <3>3, <3>9, <3>10
    <3>12. x + 1 = l
      BY <3>7
    <3> QED BY <3>9, <3>11, <3>12
  <2> QED BY <2>2, <2>3 DEF NextLine
\* so a line that stands in a run stood in one
<1>14. ASSUME NEW k \in 1 .. m, InBlock(out, k)
       PROVE  pos[k] \in EnvLines(text)
  <2>1. PICK l \in 1 .. m : EnvLine(out, l) /\ (NextLine(out, k, l) \/ NextLine(out, l, k))
    BY <1>3, <1>14 DEF InBlock
  <2>2. EnvLine(out, k)
    BY <1>14 DEF InBlock
  <2>3. EnvLine(text, pos[k]) /\ EnvLine(text, pos[l])
    BY <1>12, <2>1, <2>2
  <2>4. NextLine(text, pos[k], pos[l]) \/ NextLine(text, pos[l], pos[k])
    BY <1>13, <2>1, <2>2
  <2>5. pos[k] \in DOMAIN text /\ pos[l] \in DOMAIN text
    BY <1>1, <1>4
  <2> QED BY <2>3, <2>4, <2>5 DEF InBlock, EnvLines
<1>15. ASSUME NEW k \in 1 .. m, InBlock(out, k)
       PROVE  /\ out[k + 1] = Mark("env-var")
              /\ k + 2 \in 1 .. m => out[k + 2] = Newline
  <2> DEFINE p == pos[k]
  <2>1. p \in EnvLines(text) /\ p \in 1 .. n
    BY <1>4, <1>14, <1>15
  <2>2. EnvLine(text, p)
    BY <2>1, StagePositions
  <2>3. p + 1 \in 1 .. n /\ text[p + 1] # Newline /\ text[p] # Newline
    BY <1>1, <2>2, TokenKinds DEF EnvLine
  <2>4. p + 1 \in at
    BY <2>1 DEF EnvAt
  <2>5. p + 1 \notin gone
    <3> SUFFICES ASSUME NEW j \in EnvLines(text), j + 1 < p + 1, SameLine(text, j, p + 1)
                 PROVE  FALSE
      BY DEF EnvGone
    <3>1. j \in 1 .. n /\ j < p
      BY <1>1, <2>1, StagePositions
    <3>2. text[p - 1] = Newline
      BY <2>2, <3>1, <2>1 DEF EnvLine, LineStart
    <3>3. p - 1 \in j .. p + 1
      BY <2>1, <3>1
    <3> QED BY <3>2, <3>3 DEF SameLine
  <2>6. k + 1 \in 1 .. m /\ pos[k + 1] = p + 1
    BY <1>10, <2>3, <2>5
  <2>7. out[k + 1] = Mark("env-var")
    BY <1>7, <2>4, <2>6
  <2>8. ASSUME k + 2 \in 1 .. m
        PROVE  out[k + 2] = Newline
    <3> DEFINE r == pos[k + 2]
    <3>1. r \in 1 .. n /\ r \notin gone /\ p + 1 < r
      <4>1. k + 1 < k + 2
        OBVIOUS
      <4> QED BY <1>4, <1>5, <2>6, <2>8, <4>1
    <3>2. ~SameLine(text, p, r)
      BY <1>1, <2>1, <3>1 DEF EnvGone
    <3>3. PICK y \in p .. r : text[y] = Newline
      BY <2>1, <3>1, <3>2 DEF SameLine
    <3>4. y # p /\ y # p + 1 /\ y \in 1 .. n /\ p + 1 < y /\ y <= r
      BY <2>1, <2>3, <3>1, <3>3
    <3>5. PICK x \in 1 .. m : pos[x] = y
      BY <1>6, <1>8, <3>3, <3>4
    <3>6. k + 1 < x
      <4>1. CASE x < k + 1
        <5>1. y < p + 1
          BY <1>5, <2>6, <3>5, <4>1
        <5> QED BY <2>1, <3>4, <5>1
      <4>2. CASE x = k + 1
        BY <2>1, <2>6, <3>4, <3>5, <4>2
      <4> QED BY <2>6, <4>1, <4>2
    <3>7. x <= k + 2
      <4>1. CASE k + 2 < x
        <5>1. r < y
          BY <1>5, <2>8, <3>5, <4>1
        <5> QED BY <3>1, <3>4, <5>1
      <4> QED BY <4>1
    <3>8. x = k + 2
      BY <3>6, <3>7
    <3> QED BY <1>9, <2>8, <3>3, <3>5, <3>8
  <2> QED BY <2>7, <2>8
<1>16. EnvDone(out)
  BY <1>3, <1>15 DEF EnvDone
<1> QED BY <1>16 DEF out

\* What every stage leaves as it is: tokens that are not marks do not come
\* back, and no key block comes about.
Kept(text, out) ==
  /\ out \in Seq(Token)
  /\ \A token : (\A t : Mark(t) # token) /\ Without(text, token) => Without(out, token)
  /\ NoKeyBlock(text) => NoKeyBlock(out)

\* So it is with every stage that goes through Replace,
LEMMA ReplaceKept ==
  ASSUME NEW acc \in Acc, NEW at \in SUBSET DOMAIN acc.content,
         NEW gone \in SUBSET DOMAIN acc.content, NEW type \in HitType
  PROVE  Replace(acc, at, gone, type) \in Acc
           /\ Kept(acc.content, Replace(acc, at, gone, type).content)
<1> DEFINE r == Replace(acc, at, gone, type)
<1>1. r \in Acc /\ \E pos : Origins(acc.content, r.content, pos, at, gone, type)
  BY ReplaceFacts
<1> HIDE DEF r
<1>2. r.content \in Seq(Token)
  BY <1>1 DEF Acc
<1>3. NoKeyBlock(acc.content) => NoKeyBlock(r.content)
  BY <1>1, OriginsNoKeyBlock
<1>4. ASSUME NEW token, \A t : Mark(t) # token, Without(acc.content, token)
      PROVE  Without(r.content, token)
  BY <1>1, <1>4, OriginsWithout
<1> QED BY <1>1, <1>2, <1>3, <1>4 DEF Kept, r

\* and a pattern leaves nothing it matches.
LEMMA PatternKept ==
  ASSUME NEW acc \in Acc, NEW token, NEW type \in HitType
  PROVE  /\ ApplyPattern(acc, token, type) \in Acc
         /\ Kept(acc.content, ApplyPattern(acc, token, type).content)
         /\ (\A t : Mark(t) # token) => Without(ApplyPattern(acc, token, type).content, token)
<1> DEFINE at == {i \in DOMAIN acc.content : acc.content[i] = token}
           r == ApplyPattern(acc, token, type)
<1>1. at \in SUBSET DOMAIN acc.content /\ {} \in SUBSET DOMAIN acc.content
  OBVIOUS
<1>2. r = Replace(acc, at, {}, type)
  BY DEF ApplyPattern
<1>3. ASSUME \A t : Mark(t) # token
      PROVE  Without(r.content, token)
  <2>1. /\ DOMAIN r.content = DOMAIN acc.content
        /\ \A i \in DOMAIN acc.content :
             r.content[i] = IF acc.content[i] = token THEN Mark(type) ELSE acc.content[i]
    BY PatternFacts
  <2> HIDE DEF r
  <2> QED BY <1>3, <2>1 DEF Without
<1> HIDE DEF at, r
<1>4. r \in Acc /\ Kept(acc.content, r.content)
  BY <1>1, <1>2, ReplaceKept
<1> QED BY <1>3, <1>4 DEF r

\* A pattern for anything but names, newlines and the mark itself keeps the
\* lines of the runs as they are.
LEMMA PatternKeepsRuns ==
  ASSUME NEW acc \in Acc, NEW token, NEW type \in HitType, EnvDone(acc.content),
         token # Newline, token # Name, \A t : Mark(t) # token
  PROVE  EnvDone(ApplyPattern(acc, token, type).content)
<1> DEFINE text == acc.content
           out == ApplyPattern(acc, token, type).content
<1>1. /\ DOMAIN out = DOMAIN text
      /\ \A i \in DOMAIN text : out[i] = IF text[i] = token THEN Mark(type) ELSE text[i]
  BY PatternFacts
<1>2. PICK n \in Nat : DOMAIN text = 1 .. n
  <2>1. text \in Seq(Token)
    BY DEF Acc
  <2>2. Len(text) \in Nat /\ DOMAIN text = 1 .. Len(text)
    BY <2>1
  <2> QED BY <2>2
<1> HIDE DEF text, out
<1>3. \A i \in DOMAIN text : /\ out[i] = Newline <=> text[i] = Newline
                             /\ out[i] = Name <=> text[i] = Name
  BY <1>1, TokenKinds
<1>4. ASSUME NEW i \in DOMAIN text
      PROVE  EnvLine(out, i) <=> EnvLine(text, i)
  <2>1. LineStart(out, i) <=> LineStart(text, i)
    <3>1. CASE i = 1
      BY <3>1 DEF LineStart
    <3>2. CASE i # 1
      <4>1. i - 1 \in DOMAIN text
        BY <1>2, <3>2
      <4> QED BY <1>3, <3>2, <4>1 DEF LineStart
    <3> QED BY <3>1, <3>2
  <2>2. i + 1 \in DOMAIN text => (out[i + 1] = Newline <=> text[i + 1] = Newline)
    BY <1>3
  <2> QED BY <1>1, <1>3, <2>1, <2>2 DEF EnvLine
<1>5. ASSUME NEW i \in DOMAIN text, NEW j \in DOMAIN text
      PROVE  NextLine(out, i, j) <=> NextLine(text, i, j)
  <2>1. \A k \in i .. j - 2 : k \in DOMAIN text
    BY <1>2
  <2> QED BY <1>3, <2>1 DEF NextLine
<1>6. ASSUME NEW i \in DOMAIN out, InBlock(out, i)
      PROVE  /\ out[i + 1] = Mark("env-var")
             /\ i + 2 \in DOMAIN out => out[i + 2] = Newline
  <2>1. InBlock(text, i)
    BY <1>1, <1>4, <1>5, <1>6 DEF InBlock
  <2>2. /\ text[i + 1] = Mark("env-var")
        /\ i + 2 \in DOMAIN text => text[i + 2] = Newline
    BY <1>1, <2>1 DEF EnvDone, text
  <2>3. i + 1 \in DOMAIN text
    BY <2>1 DEF InBlock, EnvLine
  <2> QED BY <1>1, <1>3, <2>2, <2>3
<1>7. EnvDone(out)
  BY <1>6 DEF EnvDone
<1> QED BY <1>7 DEF out

\* What two stages leave as it is, both together do.
LEMMA KeptTransitive ==
  ASSUME NEW a, NEW b, NEW c, Kept(a, b), Kept(b, c)
  PROVE  Kept(a, c)
  BY DEF Kept

\* Nothing a pattern was there to remove is left behind the built-in stages.
LEMMA BuiltinClean ==
  ASSUME NEW acc \in Acc
  PROVE  /\ Builtin(acc) \in Acc
         /\ NoKeyBlock(Builtin(acc).content)
         /\ \A t \in SecretType : Without(Builtin(acc).content, Secret(t))
<1> DEFINE stage(a, t) == ApplyPattern(a, Secret(t), t)
           keys   == ApplyKeyBlocks(acc)
           ai     == stage(keys, "ai-key")
           github == stage(ai, "github-token")
           aws    == stage(github, "aws-key")
           slack  == stage(aws, "slack-token")
           jwt    == stage(slack, "jwt")
<1>1. Builtin(acc) = jwt
  BY DEF Builtin, ApplySecret
<1>2. ASSUME NEW a \in Acc, NEW t \in SecretType
      PROVE  /\ stage(a, t) \in Acc
             /\ NoKeyBlock(a.content) => NoKeyBlock(stage(a, t).content)
             /\ Without(stage(a, t).content, Secret(t))
             /\ \A u : Without(a.content, Secret(u)) => Without(stage(a, t).content, Secret(u))
  <2>1. t \in HitType /\ \A u, v : Mark(u) # Secret(v)
    BY Types, TokenKinds
  <2>2. /\ stage(a, t) \in Acc /\ Kept(a.content, stage(a, t).content)
        /\ Without(stage(a, t).content, Secret(t))
    BY <2>1, PatternKept
  <2> QED BY <2>1, <2>2 DEF Kept
<1>3. /\ "ai-key" \in SecretType /\ "github-token" \in SecretType /\ "aws-key" \in SecretType
      /\ "slack-token" \in SecretType /\ "jwt" \in SecretType
  BY DEF SecretType
<1>4. keys \in Acc /\ NoKeyBlock(keys.content)
  <2>1. keys \in Acc
    BY KeyStage, StagePositions, Types, ReplaceKept
  <2> QED BY <2>1, KeyBlocksGo
<1> HIDE DEF stage, keys
<1>5. ai \in Acc /\ NoKeyBlock(ai.content) /\ Without(ai.content, Secret("ai-key"))
  BY <1>2, <1>3, <1>4
<1> HIDE DEF ai
<1>6. /\ github \in Acc /\ NoKeyBlock(github.content)
      /\ Without(github.content, Secret("ai-key"))
      /\ Without(github.content, Secret("github-token"))
  BY <1>2, <1>3, <1>5
<1> HIDE DEF github
<1>7. /\ aws \in Acc /\ NoKeyBlock(aws.content)
      /\ Without(aws.content, Secret("ai-key"))
      /\ Without(aws.content, Secret("github-token"))
      /\ Without(aws.content, Secret("aws-key"))
  BY <1>2, <1>3, <1>6
<1> HIDE DEF aws
<1>8. /\ slack \in Acc /\ NoKeyBlock(slack.content)
      /\ Without(slack.content, Secret("ai-key"))
      /\ Without(slack.content, Secret("github-token"))
      /\ Without(slack.content, Secret("aws-key"))
      /\ Without(slack.content, Secret("slack-token"))
  BY <1>2, <1>3, <1>7
<1> HIDE DEF slack
<1>9. /\ jwt \in Acc /\ NoKeyBlock(jwt.content)
      /\ Without(jwt.content, Secret("ai-key"))
      /\ Without(jwt.content, Secret("github-token"))
      /\ Without(jwt.content, Secret("aws-key"))
      /\ Without(jwt.content, Secret("slack-token"))
      /\ Without(jwt.content, Secret("jwt"))
  BY <1>2, <1>3, <1>8
<1> HIDE DEF jwt
<1> QED BY <1>1, <1>9 DEF SecretType

\* Behind the last stage every pattern in force is out of work.
LEMMA RedactedClean ==
  ASSUME NEW text \in Seq(Token), NEW opts \in Options
  PROVE  /\ Redacted(text, opts).content \in Seq(Token)
         /\ Clean(Redacted(text, opts).content, opts)
<1> DEFINE start  == [content |-> text, hits |-> NoHits]
           built  == Builtin(start)
           blocks == RedactEnvBlocks(built)
           custom == ApplyPattern(blocks, Word("other"), "custom")
           extra  == IF opts.extra THEN custom ELSE blocks
           mail   == ApplyPattern(extra, Word("mail"), "email")
           NoSecret(a) == \A t \in SecretType : Without(a.content, Secret(t))
           Others(a) == opts.extra => Without(a.content, Word("other"))
<1>1. Redacted(text, opts) = IF text = <<>> THEN start
                             ELSE IF opts.emails THEN mail ELSE extra
  BY DEF Redacted
<1>2. start \in Acc
  BY DEF Acc, NoHits
<1>3. \A a, b : Kept(a.content, b.content) /\ NoSecret(a) => NoSecret(b)
  BY TokenKinds DEF Kept
<1>4. CASE text = <<>>
  <2>1. start.content = <<>> /\ DOMAIN <<>> = {} /\ <<>> \in Seq(Token)
    BY <1>4
  <2>2. Clean(<<>>, opts)
    BY <2>1 DEF Clean, Without, NoKeyBlock, EnvDone
  <2> QED BY <1>1, <1>4, <2>1, <2>2
<1>5. built \in Acc /\ NoKeyBlock(built.content) /\ NoSecret(built)
  BY <1>2, BuiltinClean
<1> HIDE DEF built
<1>6. blocks \in Acc /\ NoKeyBlock(blocks.content) /\ NoSecret(blocks) /\ EnvDone(blocks.content)
  <2>1. blocks \in Acc /\ Kept(built.content, blocks.content)
    BY <1>5, EnvStage, StagePositions, Types, ReplaceKept
  <2>2. EnvDone(blocks.content)
    BY <1>5, EnvRunsGo
  <2>3. NoKeyBlock(blocks.content)
    BY <1>5, <2>1 DEF Kept
  <2> QED BY <1>3, <1>5, <2>1, <2>2, <2>3
<1>7. /\ \A t : Mark(t) # Word("other") /\ Mark(t) # Word("mail")
      /\ Word("other") # Newline /\ Word("other") # Name
      /\ Word("mail") # Newline /\ Word("mail") # Name
  BY TokenKinds
<1> HIDE DEF blocks
<1>8. /\ custom \in Acc /\ NoKeyBlock(custom.content) /\ NoSecret(custom)
      /\ EnvDone(custom.content) /\ Without(custom.content, Word("other"))
  <2>1. /\ custom \in Acc /\ Kept(blocks.content, custom.content)
        /\ Without(custom.content, Word("other"))
    BY <1>6, <1>7, Types, PatternKept
  <2>2. EnvDone(custom.content)
    BY <1>6, <1>7, Types, PatternKeepsRuns
  <2>3. NoKeyBlock(custom.content)
    BY <1>6, <2>1 DEF Kept
  <2> QED BY <1>3, <1>6, <2>1, <2>2, <2>3
<1> HIDE DEF custom
<1>9. /\ extra \in Acc /\ NoKeyBlock(extra.content) /\ NoSecret(extra)
      /\ EnvDone(extra.content) /\ Others(extra)
  BY <1>6, <1>8
<1> HIDE DEF extra
<1>10. /\ mail \in Acc /\ NoKeyBlock(mail.content) /\ NoSecret(mail)
       /\ EnvDone(mail.content) /\ Others(mail) /\ Without(mail.content, Word("mail"))
  <2>1. /\ mail \in Acc /\ Kept(extra.content, mail.content)
        /\ Without(mail.content, Word("mail"))
    BY <1>7, <1>9, Types, PatternKept
  <2>2. EnvDone(mail.content)
    BY <1>7, <1>9, Types, PatternKeepsRuns
  <2>3. NoKeyBlock(mail.content) /\ Others(mail)
    BY <1>7, <1>9, <2>1 DEF Kept
  <2> QED BY <1>3, <1>9, <2>1, <2>2, <2>3
<1> HIDE DEF mail
<1>11. CASE text # <<>> /\ opts.emails
  BY <1>1, <1>10, <1>11 DEF Clean, Acc
<1>12. CASE text # <<>> /\ ~opts.emails
  BY <1>1, <1>9, <1>12 DEF Clean, Acc
<1> QED BY <1>4, <1>11, <1>12

\* What is clean, the patterns find nothing in,
LEMMA CleanIsNotFound ==
  ASSUME NEW text \in Seq(Token), NEW opts \in Options, Clean(text, opts)
  PROVE  ~Found(text, opts)
<1>1. \A i \in DOMAIN text : text[i].kind # "secret"
  <2>1. \A i \in DOMAIN text : text[i] \in Token
    OBVIOUS
  <2>2. \A i \in DOMAIN text : \A t \in SecretType : text[i] # Secret(t)
    BY DEF Clean, Without
  <2>3. \A x \in Token : x.kind = "secret" => \E t \in SecretType : x = Secret(t)
    <3>1. \A w : w \in {"newline", "begin", "end", "name", "mail", "other"}
                   => Word(w).kind # "secret"
      BY DEF Word
    <3>2. \A t : Mark(t).kind # "secret"
      BY DEF Mark
    <3> QED BY <3>1, <3>2 DEF Token
  <2> QED BY <2>1, <2>2, <2>3
<1>2. ~\E i, j \in DOMAIN text : i < j /\ text[i] = Begin /\ text[j] = End
  BY DEF Clean, NoKeyBlock
<1>3. ~(opts.emails /\ \E i \in DOMAIN text : text[i] = Word("mail"))
  BY DEF Clean, Without
<1>4. ASSUME NEW i \in DOMAIN text, NEW j \in DOMAIN text, EnvLine(text, i), EnvLine(text, j),
             NextLine(text, i, j) \/ NextLine(text, j, i)
      PROVE  /\ text[i + 1] = Mark("env-var")
             /\ i + 2 \in DOMAIN text => text[i + 2] = Newline
  <2>1. InBlock(text, i)
    BY <1>4 DEF InBlock
  <2> QED BY <2>1 DEF Clean, EnvDone
<1> QED BY <1>1, <1>2, <1>3, <1>4 DEF Found

\* A mark in the place of the same mark changes nothing.
LEMMA SameMarks ==
  ASSUME NEW acc \in Acc, NEW at \in SUBSET DOMAIN acc.content, NEW type \in HitType,
         \A i \in at : acc.content[i] = Mark(type)
  PROVE  Replace(acc, at, {}, type).content = acc.content
  BY PointwiseFacts

\* A pattern that matches nothing changes nothing.
LEMMA SecretStays ==
  ASSUME NEW acc \in Acc, NEW t \in SecretType, Without(acc.content, Secret(t))
  PROVE  LET r == ApplySecret(acc, t) IN r \in Acc /\ r.content = acc.content
  BY PatternFacts, Types DEF ApplySecret, Without

\* and the stages leave as it is.
LEMMA CleanStays ==
  ASSUME NEW text \in Seq(Token), NEW opts \in Options, Clean(text, opts)
  PROVE  Redacted(text, opts).content = text
<1> DEFINE start  == [content |-> text, hits |-> NoHits]
           keys   == ApplyKeyBlocks(start)
           ai     == ApplySecret(keys, "ai-key")
           github == ApplySecret(ai, "github-token")
           aws    == ApplySecret(github, "aws-key")
           slack  == ApplySecret(aws, "slack-token")
           jwt    == ApplySecret(slack, "jwt")
           blocks == RedactEnvBlocks(jwt)
           custom == ApplyPattern(blocks, Word("other"), "custom")
           extra  == IF opts.extra THEN custom ELSE blocks
           mail   == ApplyPattern(extra, Word("mail"), "email")
<1>1. Builtin(start) = jwt
  BY DEF Builtin
<1>2. Redacted(text, opts) = IF text = <<>> THEN start
                             ELSE IF opts.emails THEN mail ELSE extra
  BY <1>1 DEF Redacted
<1>3. start \in Acc /\ start.content = text
  BY DEF Acc, NoHits
<1> HIDE DEF start
<1>4. keys \in Acc /\ keys.content = text
  <2>1. \A i \in DOMAIN text : ~InKeyBlock(text, i)
    <3> SUFFICES ASSUME NEW i \in DOMAIN text, NEW b \in DOMAIN text, Encloses(text, b, i)
                 PROVE  FALSE
      BY DEF InKeyBlock
    <3>1. PICK e \in DOMAIN text : b <= i /\ text[b] = Begin /\ e >= i /\ text[e] = End
      BY DEF Encloses
    <3>2. b < e
      BY <3>1, TokenKinds
    <3> QED BY <3>1, <3>2 DEF Clean, NoKeyBlock
  <2>2. KeyOpens(text) = {} /\ KeyGone(text) = {}
    BY <2>1 DEF KeyOpens, KeyGone, OpensKeyBlock, InKeyBlock
  <2>3. keys = Replace(start, {}, {}, "private-key")
    BY <1>3, <2>2, KeyStage
  <2>4. {} \in SUBSET DOMAIN start.content
    OBVIOUS
  <2> HIDE DEF keys
  <2>5. keys \in Acc
    BY <1>3, <2>3, <2>4, Types, ReplaceKept
  <2>6. \A i \in {} : start.content[i] = Mark("private-key")
    OBVIOUS
  <2>7. Replace(start, {}, {}, "private-key").content = start.content
    BY <1>3, <2>4, <2>6, Types, SameMarks
  <2> QED BY <1>3, <2>3, <2>5, <2>7
<1>5. \A t \in SecretType : Without(text, Secret(t))
  BY DEF Clean
<1>6. \A a \in Acc : \A t \in SecretType :
        a.content = text => ApplySecret(a, t) \in Acc /\ ApplySecret(a, t).content = text
  BY <1>5, SecretStays
<1>7. /\ "ai-key" \in SecretType /\ "github-token" \in SecretType /\ "aws-key" \in SecretType
      /\ "slack-token" \in SecretType /\ "jwt" \in SecretType
  BY DEF SecretType
<1> HIDE DEF keys
<1>8. ai \in Acc /\ ai.content = text
  BY <1>4, <1>6, <1>7
<1> HIDE DEF ai
<1>9. github \in Acc /\ github.content = text
  BY <1>6, <1>7, <1>8
<1> HIDE DEF github
<1>10. aws \in Acc /\ aws.content = text
  BY <1>6, <1>7, <1>9
<1> HIDE DEF aws
<1>11. slack \in Acc /\ slack.content = text
  BY <1>6, <1>7, <1>10
<1> HIDE DEF slack
<1>12. jwt \in Acc /\ jwt.content = text
  BY <1>6, <1>7, <1>11
<1> HIDE DEF jwt
<1>13. blocks \in Acc /\ blocks.content = text
  <2>1. \A i \in EnvLines(text) : /\ text[i + 1] = Mark("env-var")
                                  /\ i + 2 \in DOMAIN text => text[i + 2] = Newline
    BY DEF Clean, EnvDone, EnvLines
  <2>2. \A i \in EnvAt(text) : text[i] = Mark("env-var")
    BY <2>1 DEF EnvAt
  <2>3. EnvGone(text) = {}
    <3> SUFFICES ASSUME NEW j \in DOMAIN text, NEW i \in EnvLines(text), i + 1 < j,
                        SameLine(text, i, j)
                 PROVE  FALSE
      BY DEF EnvGone
    <3>1. Len(text) \in Nat /\ DOMAIN text = 1 .. Len(text)
      OBVIOUS
    <3>2. i \in 1 .. Len(text) /\ j \in 1 .. Len(text)
      BY <3>1, StagePositions
    <3>3. i + 2 \in DOMAIN text /\ i + 2 \in i .. j
      BY <3>1, <3>2
    <3> QED BY <2>1, <3>3 DEF SameLine
  <2>4. blocks = Replace(jwt, EnvAt(text), {}, "env-var")
    BY <1>12, <2>3, EnvStage
  <2>5. EnvAt(text) \in SUBSET DOMAIN jwt.content /\ {} \in SUBSET DOMAIN jwt.content
    BY <1>12, StagePositions
  <2> HIDE DEF blocks
  <2>6. blocks \in Acc
    BY <1>12, <2>4, <2>5, Types, ReplaceKept
  <2>7. blocks.content = jwt.content
    <3>1. \A i \in EnvAt(text) : jwt.content[i] = Mark("env-var")
      BY <1>12, <2>2
    <3> QED BY <1>12, <2>4, <2>5, <3>1, Types, SameMarks
  <2> QED BY <1>12, <2>6, <2>7
<1> HIDE DEF blocks
<1>14. extra \in Acc /\ extra.content = text
  <2>1. CASE opts.extra
    <3>1. \A i \in DOMAIN blocks.content : blocks.content[i] # Word("other")
      BY <1>13, <2>1 DEF Clean, Without
    <3> QED BY <1>13, <2>1, <3>1, Types, PatternFacts
  <2>2. CASE ~opts.extra
    BY <1>13, <2>2
  <2> QED BY <2>1, <2>2
<1> HIDE DEF extra
<1>15. opts.emails => mail.content = text
  <2> HAVE opts.emails
  <2>1. \A i \in DOMAIN extra.content : extra.content[i] # Word("mail")
    BY <1>14 DEF Clean, Without
  <2> QED BY <1>14, <2>1, Types, PatternFacts
<1> HIDE DEF mail
<1> QED BY <1>2, <1>3, <1>14, <1>15

\* No stage brings back, uncovers or joins together something an earlier one
\* was there to remove, and redacting what is redacted changes nothing.
THEOREM RedactingOnceIsEnough == RedactSpec => []OnePassIsEnough
<1>1. RedactTypeOK => OnePassIsEnough
  <2> SUFFICES ASSUME RedactTypeOK PROVE OnePassIsEnough
    OBVIOUS
  <2> DEFINE out == Redacted(input, options).content
  <2>1. input \in Seq(Token) /\ options \in Options
    BY DEF RedactTypeOK
  <2>2. out \in Seq(Token) /\ Clean(out, options)
    BY <2>1, RedactedClean
  <2> HIDE DEF out
  <2>3. ~Found(out, options) /\ Redacted(out, options).content = out
    BY <2>1, <2>2, CleanIsNotFound, CleanStays
  <2> QED BY <2>3 DEF OnePassIsEnough, out
<1> QED BY <1>1, RedactTypes, PTL
=============================================================================
