----------------------------- MODULE WiresProofs -----------------------------
(***************************************************************************)
(* The wires for every number of senders, connections, events and seconds: *)
(* the rate the bunker asks of each sender (Bucket), then what the relay   *)
(* takes in, what it charges for it and what it replays (Relay).           *)
(***************************************************************************)
EXTENDS WiresMC, TLAPS, FiniteSetTheorems, FunctionTheorems, SequenceTheorems, WellFoundedInduction

-----------------------------------------------------------------------------
(* The bunker's buckets.  A bucket's tokens and what its sender was let    *)
(* through with since any earlier request never exceed what the stretch    *)
(* earned; a sender without a bucket has earned its burst back.            *)

\* The constants' ranges, without what relates them.
LEMMA Numbers ==
    Token \in Nat /\ Refill \in Nat /\ Burst \in Nat /\ Token <= Burst /\ Stale \in Nat
BY BucketAssumption

\* A stretch's refill is that of its two parts.
LEMMA Spread ==
    ASSUME NEW a \in Int, NEW b \in Int, NEW c \in Int, NEW r \in Int
    PROVE  (a - c) * r = (a - b) * r + (b - c) * r
BY SMT

\* More instants refill more.
LEMMA Monotone ==
    ASSUME NEW a \in Int, NEW b \in Int, NEW r \in Nat, a <= b
    PROVE  a * r <= b * r
BY SMT

\* One more token.
LEMMA OneMore == ASSUME NEW a \in Int, NEW t \in Int PROVE (a + 1) * t = a * t + t
BY SMT

\* A product of naturals is one.
LEMMA Products == ASSUME NEW a \in Nat, NEW r \in Nat PROVE a * r \in Nat
BY SMT

BucketRanges ==
    /\ instant \in Nat
    /\ DOMAIN rate \subseteq Pubkey
    /\ rate \in [DOMAIN rate -> [tokens : Nat, seen : Nat]]
    /\ \A s \in DOMAIN rate : rate[s].tokens <= Burst /\ rate[s].seen <= instant
    /\ served \in [Pubkey -> Seq(Nat)]
    /\ \A s \in Pubkey : \A i \in DOMAIN served[s] : served[s][i] <= instant

Remembered ==
    \A s \in DOMAIN rate : \A i \in DOMAIN served[s] :
        /\ served[s][i] <= rate[s].seen
        /\ since(s, i) + rate[s].tokens <= Burst + (rate[s].seen - served[s][i]) * Refill

Forgotten ==
    \A s \in Pubkey \ DOMAIN rate : \A i \in DOMAIN served[s] :
        since(s, i) <= (instant - served[s][i]) * Refill

BucketInv == BucketRanges /\ Remembered /\ Forgotten

-----------------------------------------------------------------------------
LEMMA Sinces ==
    ASSUME BucketRanges, NEW s \in Pubkey, NEW i \in DOMAIN served[s]
    PROVE  since(s, i) \in Nat /\ served[s][i] \in Nat /\ i \in 1..Len(served[s])
<1>1. served[s] \in Seq(Nat) BY DEF BucketRanges
<1>2. Len(served[s]) - i + 1 \in Nat /\ served[s][i] \in Nat /\ i \in 1..Len(served[s]) BY <1>1
<1>3. QED BY <1>2, Products, Numbers DEF since

\* A sender that has no bucket, or an idle one, has earned its burst back.
LEMMA EarnedBack ==
    ASSUME BucketInv, NEW s \in Pubkey, NEW i \in DOMAIN served[s],
           s \in DOMAIN rate => idle(s)
    PROVE  since(s, i) <= (instant - served[s][i]) * Refill
<1> USE DEF BucketInv
<1>0. instant \in Nat BY DEF BucketRanges
<1>1. CASE s \notin DOMAIN rate BY <1>1 DEF Forgotten
<1>2. CASE s \in DOMAIN rate
    <2>1. rate[s].tokens \in Nat /\ rate[s].seen \in Nat /\ rate[s].seen <= instant
        BY <1>2 DEF BucketRanges
    <2>2. since(s, i) \in Nat /\ served[s][i] \in Nat BY Sinces
    <2>3. since(s, i) + rate[s].tokens <= Burst + (rate[s].seen - served[s][i]) * Refill
          /\ served[s][i] <= rate[s].seen
        BY <1>2 DEF Remembered
    <2>4. (instant - served[s][i]) * Refill
             = (instant - rate[s].seen) * Refill + (rate[s].seen - served[s][i]) * Refill
        BY <1>0, <2>1, <2>2, Spread, Numbers
    <2>5. Stale <= instant - rate[s].seen BY <1>2 DEF idle
    <2>6. Stale * Refill <= (instant - rate[s].seen) * Refill
        BY <1>0, <2>1, <2>5, Monotone, Numbers
    <2>7. Burst <= Stale * Refill /\ Burst \in Nat /\ Stale * Refill \in Nat
        BY Products, BucketAssumption
    <2>8. (rate[s].seen - served[s][i]) * Refill \in Nat
        BY <2>1, <2>2, <2>3, Products, Numbers
    <2>9. (instant - rate[s].seen) * Refill \in Nat
        BY <1>0, <2>1, Products, Numbers
    <2>10. QED BY <2>1, <2>2, <2>3, <2>4, <2>6, <2>7, <2>8, <2>9
<1>3. QED BY <1>1, <1>2

\* The bucket a request finds, refilled, holds no more than what remains of the
\* sender's earnings.
LEMMA Refills ==
    ASSUME BucketInv, NEW s \in Pubkey
    PROVE  /\ refilled(found(s)) \in Nat
           /\ refilled(found(s)) <= Burst
           /\ \A i \in DOMAIN served[s] :
                 (s \in DOMAIN rate => s \in bucket_room \/ idle(s)) =>
                    since(s, i) + refilled(found(s)) <= Burst + (instant - served[s][i]) * Refill
<1>0. bucket_room \subseteq DOMAIN rate BY DEF bucket_room
<1> USE DEF BucketInv
<1>1. CASE s \in bucket_room
    <2>1. s \in DOMAIN rate BY <1>0, <1>1
    <2>2. rate[s].tokens \in Nat /\ rate[s].seen \in Nat /\ rate[s].seen <= instant
          /\ rate[s].tokens <= Burst /\ instant \in Nat
        BY <2>1 DEF BucketRanges
    <2>3. (instant - rate[s].seen) * Refill \in Nat
        BY <2>2, Products, Numbers
    <2>4. refilled(found(s)) \in Nat /\ refilled(found(s)) <= Burst
          /\ refilled(found(s)) <= rate[s].tokens + (instant - rate[s].seen) * Refill
        BY <1>1, <2>2, <2>3, BucketAssumption DEF refilled, found
    <2>5. ASSUME NEW i \in DOMAIN served[s]
          PROVE  since(s, i) + refilled(found(s)) <= Burst + (instant - served[s][i]) * Refill
        <3>1. since(s, i) \in Nat /\ served[s][i] \in Nat BY Sinces
        <3>2. since(s, i) + rate[s].tokens <= Burst + (rate[s].seen - served[s][i]) * Refill
              /\ served[s][i] <= rate[s].seen
            BY <2>1, <2>5 DEF Remembered
        <3>3. (instant - served[s][i]) * Refill
                 = (instant - rate[s].seen) * Refill + (rate[s].seen - served[s][i]) * Refill
            BY <2>2, <3>1, Spread, Numbers
        <3>4. (rate[s].seen - served[s][i]) * Refill \in Nat
            BY <2>2, <3>1, <3>2, Products, Numbers
        <3>5. (instant - served[s][i]) * Refill \in Nat
            BY <2>3, <3>3, <3>4
        <3> HIDE DEF since, refilled, found
        <3>6. QED BY <2>2, <2>3, <2>4, <3>1, <3>2, <3>3, <3>4, <3>5, BucketAssumption
    <2>6. QED BY <2>4, <2>5
<1>2. CASE s \notin bucket_room
    <2>1. instant \in Nat BY DEF BucketRanges
    <2>2. refilled(found(s)) = Burst
        <3>1. found(s) = [tokens |-> Burst, seen |-> instant] BY <1>2 DEF found
        <3>2. (instant - instant) * Refill = 0 BY <2>1, BucketAssumption
        <3>3. QED BY <3>1, <3>2, BucketAssumption DEF refilled
    <2>4. ASSUME NEW i \in DOMAIN served[s], s \in DOMAIN rate => idle(s)
          PROVE  since(s, i) + Burst <= Burst + (instant - served[s][i]) * Refill
        <3>1. since(s, i) \in Nat /\ served[s][i] \in Nat BY Sinces
        <3>2. served[s][i] <= instant BY <2>4 DEF BucketRanges
        <3>3. (instant - served[s][i]) * Refill \in Nat
            BY <2>1, <3>1, <3>2, Products, Numbers
        <3>4. since(s, i) <= (instant - served[s][i]) * Refill BY <2>4, EarnedBack
        <3> HIDE DEF since
        <3>5. QED BY <3>1, <3>3, <3>4, BucketAssumption
    <2>5. QED BY <1>2, <2>2, <2>4, BucketAssumption
<1>3. QED BY <1>1, <1>2

-----------------------------------------------------------------------------
LEMMA BucketInitInv == BucketInit => BucketInv
<1> SUFFICES ASSUME BucketInit PROVE BucketInv
    OBVIOUS
<1>1. DOMAIN rate = {} /\ \A s \in Pubkey : served[s] = <<>>
    BY DEF BucketInit
<1>2. BucketRanges BY <1>1 DEF BucketInit, BucketRanges
<1>3. Remembered BY <1>1 DEF Remembered
<1>4. Forgotten BY <1>1 DEF Forgotten
<1>5. QED BY <1>2, <1>3, <1>4 DEF BucketInv

\* The clock moves: a sender without a bucket earns, the others' books stand.
LEMMA TickKeeps == BucketInv /\ InstantPasses => BucketInv'
<1> SUFFICES ASSUME BucketInv, InstantPasses PROVE BucketInv'
    OBVIOUS
<1>1. instant \in Nat /\ instant' = instant + 1 /\ rate' = rate /\ served' = served
    BY DEF InstantPasses, BucketInv, BucketRanges
<1>2. BucketRanges' BY <1>1 DEF BucketInv, BucketRanges
<1>3. Remembered' BY <1>1 DEF BucketInv, Remembered, since
<1>4. ASSUME NEW s \in Pubkey \ DOMAIN rate, NEW i \in DOMAIN served[s]
      PROVE  since(s, i) <= (instant' - served[s][i]) * Refill
    <2>1. since(s, i) \in Nat /\ served[s][i] \in Nat BY Sinces DEF BucketInv
    <2>2. since(s, i) <= (instant - served[s][i]) * Refill BY DEF BucketInv, Forgotten
    <2>3. served[s][i] <= instant BY DEF BucketInv, BucketRanges
    <2>4. (instant - served[s][i]) * Refill <= (instant' - served[s][i]) * Refill
        BY <1>1, <2>1, <2>3, Monotone, Numbers
    <2>5. (instant - served[s][i]) * Refill \in Nat /\ (instant' - served[s][i]) * Refill \in Nat
        BY <1>1, <2>1, <2>3, Products, Numbers
    <2> HIDE DEF since
    <2>6. QED BY <2>1, <2>2, <2>4, <2>5
<1>5. Forgotten' BY <1>1, <1>4 DEF Forgotten, since
<1>6. QED BY <1>2, <1>3, <1>5 DEF BucketInv

\* A request spends of its sender's bucket; a sender shed while busy starts anew,
\* one shed while idle has earned its burst back.
LEMMA AdmitKeeps ==
    ASSUME BucketInv, NEW s \in Pubkey, admit_rate(s)
    PROVE  BucketInv'
<1> DEFINE parts == refilled(found(s))
           passes == parts >= Token
           forgotten == {x \in DOMAIN rate : ~idle(x) /\ x \notin bucket_room}
           before == [x \in Pubkey |-> IF x \in forgotten THEN <<>> ELSE served[x]]
           bucket == [tokens |-> IF passes THEN parts - Token ELSE parts, seen |-> instant]
<1> USE DEF BucketInv
<1>0. bucket_room \subseteq DOMAIN rate BY DEF bucket_room
<1>1. parts \in Nat /\ parts <= Burst BY Refills
<1>2. /\ instant' = instant /\ instant \in Nat
      /\ rate' = [x \in bucket_room \cup {s} |-> IF x # s THEN rate[x] ELSE bucket]
      /\ served' = IF passes THEN [before EXCEPT ![s] = Append(@, instant)] ELSE before
    BY DEF admit_rate, BucketRanges
<1>3. bucket \in [tokens : Nat, seen : Nat] /\ bucket.tokens <= Burst
    BY <1>1, <1>2, BucketAssumption
<1>4. /\ before \in [Pubkey -> Seq(Nat)]
      /\ \A x \in Pubkey : x \in forgotten => before[x] = <<>>
      /\ \A x \in Pubkey : x \notin forgotten => before[x] = served[x]
    BY DEF BucketRanges
<1> HIDE DEF parts, forgotten, before
<1>5. /\ served' \in [Pubkey -> Seq(Nat)]
      /\ \A x \in Pubkey : x # s => served'[x] = before[x]
      /\ passes => served'[s] = Append(before[s], instant)
      /\ ~passes => served'[s] = before[s]
    BY <1>2, <1>4
<1>6. DOMAIN rate' = bucket_room \cup {s} /\ rate'[s] = bucket
      /\ \A x \in bucket_room : x # s => rate'[x] = rate[x]
    BY <1>2
<1> HIDE DEF bucket
<1>7. ASSUME NEW i \in DOMAIN before[s]
      PROVE  /\ before[s][i] \in Nat /\ before[s][i] <= instant
             /\ (Len(before[s]) - i + 1) * Token \in Nat
             /\ (Len(before[s]) - i + 1) * Token + parts
                   <= Burst + (instant - before[s][i]) * Refill
    <2>1. s \notin forgotten /\ before[s] = served[s] BY <1>4, <1>7
    <2>2. s \in DOMAIN rate => s \in bucket_room \/ idle(s)
        BY <2>1 DEF forgotten
    <2>3. since(s, i) + parts <= Burst + (instant - served[s][i]) * Refill
        BY <1>7, <2>1, <2>2, Refills DEF parts
    <2>4. since(s, i) \in Nat /\ served[s][i] \in Nat BY <1>7, <2>1, Sinces
    <2>5. served[s][i] <= instant BY <1>7, <2>1 DEF BucketRanges
    <2>6. QED BY <2>1, <2>3, <2>4, <2>5 DEF since
<1>8. BucketRanges'
    <2>1. \A x \in Pubkey : \A i \in DOMAIN served'[x] : served'[x][i] <= instant'
        <3>1. ASSUME NEW x \in Pubkey, x # s, NEW i \in DOMAIN served'[x]
              PROVE  served'[x][i] <= instant'
            BY <1>2, <1>4, <1>5, <3>1 DEF BucketRanges
        <3>2. ASSUME NEW i \in DOMAIN served'[s] PROVE served'[s][i] <= instant'
            <4>1. before[s] \in Seq(Nat) BY <1>4
            <4>2. CASE ~passes BY <1>2, <1>5, <1>7, <3>2, <4>2
            <4>3. CASE passes
                <5>1. served'[s] = Append(before[s], instant) BY <1>5, <4>3
                <5>2. \/ i \in DOMAIN before[s] /\ served'[s][i] = before[s][i]
                      \/ served'[s][i] = instant
                    BY <5>1, <4>1, <1>2, <3>2
                <5>3. QED BY <5>2, <1>2, <1>7
            <4>4. QED BY <4>2, <4>3
        <3>3. QED BY <3>1, <3>2
    <2>2. DOMAIN rate' \subseteq Pubkey BY <1>0, <1>6 DEF BucketRanges
    <2>3. rate' \in [DOMAIN rate' -> [tokens : Nat, seen : Nat]]
        BY <1>0, <1>2, <1>3 DEF BucketRanges
    <2>4. \A x \in DOMAIN rate' : rate'[x].tokens <= Burst /\ rate'[x].seen <= instant'
        <3>1. bucket.seen = instant BY DEF bucket
        <3>2. QED BY <1>0, <1>2, <1>3, <1>6, <3>1 DEF BucketRanges
    <2>5. QED BY <1>2, <1>5, <2>1, <2>2, <2>3, <2>4 DEF BucketRanges
<1>9. Remembered'
    <2>1. ASSUME NEW x \in bucket_room, x # s, NEW i \in DOMAIN served'[x]
          PROVE  /\ served'[x][i] <= rate'[x].seen
                 /\ since(x, i)' + rate'[x].tokens
                       <= Burst + (rate'[x].seen - served'[x][i]) * Refill
        <3>1. x \in Pubkey /\ x \in DOMAIN rate BY <1>0, <2>1 DEF BucketRanges
        <3>2. x \notin forgotten BY <2>1 DEF forgotten
        <3>3. served'[x] = served[x] /\ rate'[x] = rate[x]
            BY <1>4, <1>5, <1>6, <2>1, <3>1, <3>2
        <3>4. QED BY <3>1, <3>3, <2>1 DEF Remembered, since
    <2>2. ASSUME NEW i \in DOMAIN served'[s]
          PROVE  /\ served'[s][i] <= rate'[s].seen
                 /\ since(s, i)' + rate'[s].tokens
                       <= Burst + (rate'[s].seen - served'[s][i]) * Refill
        <3>1. bucket.seen = instant /\ bucket.tokens = IF passes THEN parts - Token ELSE parts
            BY DEF bucket
        <3>2. before[s] \in Seq(Nat) BY <1>4
        <3>3. CASE ~passes
            <4>1. served'[s] = before[s] BY <1>5, <3>3
            <4>2. since(s, i)' = (Len(before[s]) - i + 1) * Token BY <4>1 DEF since
            <4>3. QED BY <1>6, <1>7, <2>2, <3>1, <3>3, <4>1, <4>2
        <3>4. CASE passes
            <4>1. served'[s] = Append(before[s], instant) BY <1>5, <3>4
            <4>2. since(s, i)' = (Len(before[s]) + 1 - i + 1) * Token
                BY <4>1, <3>2, <1>2 DEF since
            <4>3. CASE i \in DOMAIN before[s]
                <5>1. served'[s][i] = before[s][i] BY <4>1, <4>3, <3>2, <1>2
                <5>2. (Len(before[s]) + 1 - i + 1) * Token
                         = (Len(before[s]) - i + 1) * Token + Token
                    <6>1. Len(before[s]) \in Nat /\ i \in Nat BY <3>2, <4>3
                    <6> DEFINE n == Len(before[s]) - i + 1
                    <6>2. n \in Int BY <6>1
                    <6>3. Len(before[s]) + 1 - i + 1 = n + 1 BY <6>1
                    <6>4. (n + 1) * Token = n * Token + Token
                        <7> HIDE DEF n
                        <7>1. QED BY <6>2, OneMore, Numbers
                    <6>5. QED BY <6>3, <6>4
                <5>3. QED
                    BY <1>1, <1>6, <1>7, <3>1, <3>4, <4>2, <4>3, <5>1, <5>2, Numbers
            <4>4. CASE i \notin DOMAIN before[s]
                <5>1. i = Len(before[s]) + 1 /\ served'[s][i] = instant
                    BY <4>1, <4>4, <3>2, <2>2, <1>2
                <5>2. since(s, i)' = Token
                    <6>1. Len(before[s]) \in Nat BY <3>2
                    <6>2. QED BY <4>2, <5>1, <6>1, Numbers
                <5>3. (instant - instant) * Refill = 0 BY <1>2, Numbers
                <5>4. QED BY <1>1, <1>2, <1>6, <3>1, <3>4, <5>1, <5>2, <5>3, Numbers
            <4>5. QED BY <4>3, <4>4
        <3>5. QED BY <3>3, <3>4
    <2>3. QED BY <1>6, <2>1, <2>2 DEF Remembered
<1>10. Forgotten'
    <2>1. ASSUME NEW x \in Pubkey, x \notin bucket_room, x # s, NEW i \in DOMAIN served'[x]
          PROVE  since(x, i)' <= (instant' - served'[x][i]) * Refill
        <3>1. x \notin forgotten /\ served'[x] = served[x]
            BY <1>4, <1>5, <2>1
        <3>2. x \in DOMAIN rate => idle(x) BY <2>1, <3>1 DEF forgotten
        <3>3. since(x, i) <= (instant - served[x][i]) * Refill
            BY <2>1, <3>1, <3>2, EarnedBack
        <3>4. since(x, i)' = since(x, i) BY <3>1 DEF since
        <3>5. QED BY <1>2, <3>1, <3>3, <3>4
    <2>2. QED BY <1>6, <2>1 DEF Forgotten
<1>11. QED BY <1>8, <1>9, <1>10

-----------------------------------------------------------------------------
\* The books of the rate, inductive.
THEOREM BooksHold == BucketSpec => []BucketInv
<1>1. BucketInv /\ [BucketNext]_bucketVars => BucketInv'
    <2> SUFFICES ASSUME BucketInv, [BucketNext]_bucketVars PROVE BucketInv'
        OBVIOUS
    <2>1. CASE InstantPasses BY <2>1, TickKeeps
    <2>2. CASE \E s \in Pubkey : admit_rate(s) BY <2>2, AdmitKeeps
    <2>3. CASE UNCHANGED bucketVars
        BY <2>3 DEF bucketVars, BucketInv, BucketRanges, Remembered, Forgotten, since
    <2>4. QED BY <2>1, <2>2, <2>3 DEF BucketNext
<1>2. QED BY BucketInitInv, <1>1, PTL DEF BucketSpec

\* For every number of senders and of buckets, and every burst and refill: no
\* stretch of time gives a sender more than the burst and its refill.
THEOREM RateKept == BucketSpec => []RateHolds
<1>1. BucketInv => RateHolds
    <2> SUFFICES ASSUME BucketInv, NEW s \in Pubkey, NEW i \in DOMAIN served[s]
                 PROVE  since(s, i) <= earned(s, i)
        BY DEF RateHolds
    <2> USE DEF BucketInv
    <2>1. since(s, i) \in Nat /\ served[s][i] \in Nat /\ instant \in Nat /\ served[s][i] <= instant
        BY Sinces DEF BucketRanges
    <2>2. (instant - served[s][i]) * Refill \in Nat BY <2>1, Products, Numbers
    <2>3. CASE s \notin DOMAIN rate
        <3>1. since(s, i) <= (instant - served[s][i]) * Refill BY <2>3 DEF Forgotten
        <3> HIDE DEF since
        <3>2. QED BY <2>1, <2>2, <3>1, Numbers DEF earned
    <2>4. CASE s \in DOMAIN rate
        <3>1. rate[s].tokens \in Nat /\ rate[s].seen \in Nat /\ rate[s].seen <= instant
            BY <2>4 DEF BucketRanges
        <3>2. since(s, i) + rate[s].tokens <= Burst + (rate[s].seen - served[s][i]) * Refill
              /\ served[s][i] <= rate[s].seen
            BY <2>4 DEF Remembered
        <3>3. (rate[s].seen - served[s][i]) * Refill <= (instant - served[s][i]) * Refill
            BY <2>1, <3>1, Monotone, Numbers
        <3>4. (rate[s].seen - served[s][i]) * Refill \in Nat
            BY <2>1, <3>1, <3>2, Products, Numbers
        <3> HIDE DEF since
        <3>5. QED BY <2>1, <2>2, <3>1, <3>2, <3>3, <3>4, BucketAssumption DEF earned
    <2>5. QED BY <2>3, <2>4
<1>2. QED BY BooksHold, <1>1, PTL

\* The other way round: since it was last full, a bucket lost nothing but what
\* its sender spent.
Spent ==
    \A s \in DOMAIN rate : \E i \in DOMAIN served[s] :
        since(s, i) + rate[s].tokens >= Burst + (rate[s].seen - served[s][i]) * Refill

LEMMA AdmitSpent ==
    ASSUME BucketInv, Spent, NEW s \in Pubkey, admit_rate(s)
    PROVE  Spent'
<1> DEFINE parts == refilled(found(s))
           passes == parts >= Token
           forgotten == {x \in DOMAIN rate : ~idle(x) /\ x \notin bucket_room}
           before == [x \in Pubkey |-> IF x \in forgotten THEN <<>> ELSE served[x]]
           bucket == [tokens |-> IF passes THEN parts - Token ELSE parts, seen |-> instant]
<1> USE DEF BucketInv
<1>0. bucket_room \subseteq DOMAIN rate BY DEF bucket_room
<1>1. parts \in Nat /\ parts <= Burst BY Refills
<1>2. /\ instant' = instant /\ instant \in Nat
      /\ rate' = [x \in bucket_room \cup {s} |-> IF x # s THEN rate[x] ELSE bucket]
      /\ served' = IF passes THEN [before EXCEPT ![s] = Append(@, instant)] ELSE before
    BY DEF admit_rate, BucketRanges
<1>3. /\ before \in [Pubkey -> Seq(Nat)]
      /\ \A x \in Pubkey : x \notin forgotten => before[x] = served[x]
    BY DEF BucketRanges
<1>4. bucket.seen = instant /\ bucket.tokens = IF passes THEN parts - Token ELSE parts
    OBVIOUS
<1>5. forgotten \cap bucket_room = {} OBVIOUS
<1> HIDE DEF parts, forgotten, before, bucket
<1>6. /\ \A x \in Pubkey : x # s => served'[x] = before[x]
      /\ passes => served'[s] = Append(before[s], instant)
      /\ ~passes => served'[s] = before[s]
    BY <1>2, <1>3
<1>7. DOMAIN rate' = bucket_room \cup {s} /\ rate'[s] = bucket
      /\ \A x \in bucket_room : x # s => rate'[x] = rate[x]
    BY <1>2
<1>8. ASSUME NEW x \in bucket_room, x # s
      PROVE  \E i \in DOMAIN served'[x] :
                since(x, i)' + rate'[x].tokens >= Burst + (rate'[x].seen - served'[x][i]) * Refill
    <2>1. x \in Pubkey /\ x \in DOMAIN rate /\ x \notin forgotten
        BY <1>0, <1>5, <1>8 DEF BucketRanges
    <2>2. served'[x] = served[x] /\ rate'[x] = rate[x] BY <1>3, <1>6, <1>7, <1>8, <2>1
    <2>3. QED BY <2>1, <2>2 DEF Spent, since
<1>9. ASSUME passes, parts = Burst
      PROVE  \E i \in DOMAIN served'[s] :
                since(s, i)' + rate'[s].tokens >= Burst + (rate'[s].seen - served'[s][i]) * Refill
    <2>1. before[s] \in Seq(Nat) /\ served'[s] = Append(before[s], instant) BY <1>3, <1>6, <1>9
    <2>2. PICK i \in Nat :
             i \in DOMAIN served'[s] /\ served'[s][i] = instant /\ Len(served'[s]) = i
        <3>1. LET n == Len(before[s]) + 1
              IN  n \in Nat /\ n \in DOMAIN served'[s] /\ served'[s][n] = instant /\ Len(served'[s]) = n
            BY <2>1, <1>2
        <3>2. QED BY <3>1
    <2>3. since(s, i)' = Token
        BY <2>2, BucketAssumption DEF since
    <2>4. (instant - instant) * Refill = 0 BY <1>2, Numbers
    <2>5. since(s, i)' + rate'[s].tokens >= Burst + (rate'[s].seen - served'[s][i]) * Refill
        BY <1>4, <1>7, <1>9, <2>2, <2>3, <2>4, BucketAssumption
    <2>6. QED BY <2>2, <2>5
<1>10. ASSUME parts # Burst
       PROVE  \E i \in DOMAIN served'[s] :
                since(s, i)' + rate'[s].tokens >= Burst + (rate'[s].seen - served'[s][i]) * Refill
    <2>1. s \in bucket_room
        <3> SUFFICES ASSUME s \notin bucket_room PROVE parts = Burst
            BY <1>10
        <3>1. found(s) = [tokens |-> Burst, seen |-> instant] BY DEF found
        <3>2. (instant - instant) * Refill = 0 BY <1>2, Numbers
        <3>3. QED BY <3>1, <3>2, BucketAssumption DEF refilled, parts
    <2>2. s \in DOMAIN rate /\ found(s) = rate[s] /\ before[s] = served[s]
        BY <1>0, <1>3, <1>5, <2>1 DEF found
    <2>3. rate[s].tokens \in Nat /\ rate[s].seen \in Nat /\ rate[s].seen <= instant
        BY <2>2 DEF BucketRanges
    <2>4. (instant - rate[s].seen) * Refill \in Nat BY <1>2, <2>3, Products, Numbers
    <2>5. parts = rate[s].tokens + (instant - rate[s].seen) * Refill
        BY <1>10, <2>2 DEF refilled, parts
    <2>6. PICK i \in DOMAIN served[s] :
             since(s, i) + rate[s].tokens >= Burst + (rate[s].seen - served[s][i]) * Refill
        BY <2>2 DEF Spent
    <2>7. since(s, i) \in Nat /\ served[s][i] \in Nat
        BY Sinces
    <2>16. i \in 1..Len(served[s]) /\ served[s] \in Seq(Nat)
        BY Sinces DEF BucketRanges
    <2>8. served[s][i] <= rate[s].seen BY <2>2 DEF Remembered
    <2>9. (instant - served[s][i]) * Refill
             = (instant - rate[s].seen) * Refill + (rate[s].seen - served[s][i]) * Refill
        BY <1>2, <2>3, <2>7, Spread, Numbers
    <2>10. (rate[s].seen - served[s][i]) * Refill \in Nat
        BY <2>3, <2>7, <2>8, Products, Numbers
    <2>11. since(s, i) + parts >= Burst + (instant - served[s][i]) * Refill
        <3> HIDE DEF since
        <3>1. QED BY <2>3, <2>4, <2>5, <2>6, <2>7, <2>9, <2>10, Numbers
    <2>12. i \in DOMAIN served'[s] /\ served'[s][i] = served[s][i]
        BY <1>2, <1>6, <2>2, <2>16
    <2>13. since(s, i)' = IF passes THEN since(s, i) + Token ELSE since(s, i)
        <3>1. Len(served'[s]) = IF passes THEN Len(served[s]) + 1 ELSE Len(served[s])
            BY <1>2, <1>6, <2>2, <2>16
        <3>2. Len(served[s]) \in Nat /\ i \in Nat /\ Len(served[s]) - i + 1 \in Int BY <2>16
        <3>3. Len(served[s]) + 1 - i + 1 = (Len(served[s]) - i + 1) + 1 BY <3>2
        <3>4. (Len(served[s]) + 1 - i + 1) * Token = (Len(served[s]) - i + 1) * Token + Token
            BY <3>2, <3>3, OneMore, Numbers
        <3>5. QED BY <3>1, <3>4 DEF since
    <2>14. since(s, i)' + rate'[s].tokens >= Burst + (rate'[s].seen - served'[s][i]) * Refill
        <3>1. (instant - served[s][i]) * Refill \in Int BY <1>2, <2>7, <2>9, <2>4, <2>10
        <3> HIDE DEF since
        <3>2. QED BY <1>1, <1>4, <1>7, <2>7, <2>11, <2>12, <2>13, <3>1, Numbers
    <2>15. QED BY <2>12, <2>14
<1>11. parts = Burst => passes BY BucketAssumption
<1>12. QED BY <1>7, <1>8, <1>9, <1>10, <1>11 DEF Spent

\* What empties a sender's bucket is its own: whoever else sends, however many
\* pubkeys the bunker forgets, a sender is refused only after a stretch over
\* which it used up its burst and the refill to within a token.
THEOREM RefusalIsItsOwn == BucketSpec => []RefusedForItsOwn
<1>1. BucketInit => Spent
    BY DEF BucketInit, Spent
<1>2. BucketInv /\ Spent /\ [BucketNext]_bucketVars => Spent'
    <2> SUFFICES ASSUME BucketInv, Spent, [BucketNext]_bucketVars PROVE Spent'
        OBVIOUS
    <2>1. CASE InstantPasses BY <2>1 DEF InstantPasses, Spent, since
    <2>2. CASE \E s \in Pubkey : admit_rate(s) BY <2>2, AdmitSpent
    <2>3. CASE UNCHANGED bucketVars BY <2>3 DEF bucketVars, Spent, since
    <2>4. QED BY <2>1, <2>2, <2>3 DEF BucketNext
<1>3. BucketInv /\ Spent => RefusedForItsOwn
    <2> SUFFICES ASSUME BucketInv, Spent, NEW s \in DOMAIN rate, refilled(rate[s]) < Token
                 PROVE  \E i \in DOMAIN served[s] : since(s, i) + Token > earned(s, i)
        BY DEF RefusedForItsOwn
    <2> USE DEF BucketInv
    <2>1. s \in Pubkey /\ rate[s].tokens \in Nat /\ rate[s].seen \in Nat /\ rate[s].seen <= instant
          /\ instant \in Nat
        BY DEF BucketRanges
    <2>2. (instant - rate[s].seen) * Refill \in Nat
        <3>1. instant - rate[s].seen \in Nat BY <2>1
        <3>2. QED BY <3>1, Products, Numbers
    <2>3. rate[s].tokens + (instant - rate[s].seen) * Refill < Token
        BY <2>1, <2>2, BucketAssumption DEF refilled
    <2>4. PICK i \in DOMAIN served[s] :
             since(s, i) + rate[s].tokens >= Burst + (rate[s].seen - served[s][i]) * Refill
        BY DEF Spent
    <2>5. since(s, i) \in Nat /\ served[s][i] \in Nat BY <2>1, Sinces
    <2>6. served[s][i] <= rate[s].seen BY DEF Remembered
    <2>7. (instant - served[s][i]) * Refill
             = (instant - rate[s].seen) * Refill + (rate[s].seen - served[s][i]) * Refill
        BY <2>1, <2>5, Spread, Numbers
    <2>8. (rate[s].seen - served[s][i]) * Refill \in Nat
        BY <2>1, <2>5, <2>6, Products, Numbers
    <2>9. since(s, i) + Token > Burst + (instant - served[s][i]) * Refill
        <3> HIDE DEF since
        <3>1. QED BY <2>1, <2>2, <2>3, <2>4, <2>5, <2>7, <2>8, Numbers
    <2>10. QED BY <2>9 DEF earned
<1>4. QED BY <1>1, <1>2, <1>3, BooksHold, PTL DEF BucketSpec

-----------------------------------------------------------------------------
(* How many senders the bunker remembers.                                  *)

\* A set of numbers has a least one, and one with a bound a greatest.
LEMMA Least ==
    ASSUME NEW S \in SUBSET Nat, S # {}
    PROVE  \E m \in S : \A n \in S : m <= n
<1> DEFINE R == {p \in Nat \X Nat : p[1] < p[2]}
<1>1. R = OpToRel(<, Nat)
    BY DEF OpToRel
<1>2. IsWellFoundedOn(R, Nat)
    BY <1>1, NatLessThanWellFounded
<1> HIDE DEF R
<1>3. PICK m \in S : \A n \in S : <<n, m>> \notin R
    BY <1>2, WFMin
<1>4. \A n \in S : ~(n < m)
    BY <1>3 DEF R
<1>5. QED BY <1>3, <1>4

LEMMA Greatest ==
    ASSUME NEW S \in SUBSET Nat, S # {}, NEW b \in Nat, \A n \in S : n <= b
    PROVE  \E m \in S : \A n \in S : n <= m
<1> DEFINE B == {m \in Nat : \A n \in S : n <= m}
<1>1. PICK m \in B : \A n \in B : m <= n
    <2>1. b \in B OBVIOUS
    <2>2. B \in SUBSET Nat /\ B # {} BY <2>1
    <2> HIDE DEF B
    <2>3. QED BY <2>2, Least
<1>2. m \in Nat /\ \A n \in S : n <= m OBVIOUS
<1>3. m \in S
    <2> SUFFICES ASSUME m \notin S PROVE FALSE
        OBVIOUS
    <2>1. \A n \in S : n \in Nat /\ n < m BY <1>2
    <2>5. PICK n \in S : TRUE OBVIOUS
    <2>6. m # 0 /\ m - 1 \in Nat BY <1>2, <2>1, <2>5
    <2>2. \A k \in S : k <= m - 1 BY <1>2, <2>1
    <2>3. m - 1 \in B BY <2>2, <2>6
    <2>4. QED BY <1>1, <1>2, <2>3
<1>4. QED BY <1>2, <1>3

\* The end of the oldest eighth is where some sender was last seen.
LEMMA OldestSeen ==
    ASSUME BucketRanges, NEW set \in SUBSET DOMAIN rate, IsFiniteSet(set), set # {}
    PROVE  \E s \in set : rate[s].seen = oldest(set)
<1> DEFINE seens == {rate[s].seen : s \in set}
           upTo(t) == {s \in set : rate[s].seen <= t}
           below(t) == {s \in set : rate[s].seen < t}
           eighth == Cardinality(set) \div 8
           past == {t \in seens : Cardinality(upTo(t)) > eighth}
<1>1. instant \in Nat /\ seens \subseteq Nat /\ seens # {} /\ \A t \in seens : t <= instant
    BY DEF BucketRanges
<1>2. Cardinality(set) \in Nat \ {0}
    BY FS_CardinalityType, FS_EmptySet
<1>3. eighth \in Nat /\ eighth < Cardinality(set)
    BY <1>2
<1>4. past # {}
    <2>1. PICK t \in seens : \A u \in seens : u <= t BY <1>1, Greatest
    <2>2. upTo(t) = set BY <2>1
    <2>3. QED BY <1>3, <2>2
<1>5. PICK t \in past : \A u \in past : t <= u
    <2>1. past \in SUBSET Nat BY <1>1
    <2> HIDE DEF past
    <2>2. QED BY <1>4, <2>1, Least
<1>6. t \in seens /\ t \in Nat /\ Cardinality(upTo(t)) > eighth BY <1>1
<1>7. Cardinality(below(t)) <= eighth
    <2> SUFFICES ASSUME ~(Cardinality(below(t)) <= eighth) PROVE FALSE
        OBVIOUS
    <2>1. below(t) \in SUBSET set OBVIOUS
    <2>2. IsFiniteSet(below(t)) /\ Cardinality(below(t)) \in Nat
        BY <2>1, FS_Subset, FS_CardinalityType
    <2>3. below(t) # {} BY <2>2, <1>3, FS_EmptySet
    <2> DEFINE earlier == {rate[s].seen : s \in below(t)}
    <2>4. earlier \in SUBSET Nat /\ earlier # {} /\ \A u \in earlier : u <= instant
        BY <1>1, <2>1, <2>3
    <2>5. PICK u \in earlier : \A v \in earlier : v <= u
        <3> HIDE DEF earlier
        <3>1. QED BY <1>1, <2>4, Greatest
    <2>6. u \in seens /\ u < t /\ u \in Nat BY <1>1, <2>1
    <2>7. upTo(u) = below(t)
        <3>1. \A s \in set : rate[s].seen \in Nat BY <1>1
        <3>2. QED BY <1>6, <2>5, <2>6, <3>1
    <2>8. u \in past
        <3>1. Cardinality(upTo(u)) > eighth
            <4> HIDE DEF upTo, below, eighth
            <4>1. QED BY <1>3, <2>2, <2>7
        <3> HIDE DEF upTo, seens, eighth
        <3>2. QED BY <2>6, <3>1
    <2>9. QED BY <1>5, <1>6, <2>6, <2>8
<1>8. \E x \in seens : Cardinality(below(x)) <= eighth /\ Cardinality(upTo(x)) > eighth
    BY <1>6, <1>7
<1>9. oldest(set) \in seens
    <2>1. oldest(set) = CHOOSE x \in seens :
                           Cardinality(below(x)) <= eighth /\ Cardinality(upTo(x)) > eighth
        BY DEF oldest
    <2> HIDE DEF seens, upTo, below, eighth
    <2>2. QED BY <1>8, <2>1
<1>10. QED BY <1>9

Remembers ==
    /\ IsFiniteSet(DOMAIN rate) /\ Cardinality(DOMAIN rate) <= BucketsMax
    /\ instant \in 1..MaxInstant
    /\ \A s \in DOMAIN rate : rate[s].seen \in 1..instant
    /\ \A s \in Pubkey : \A i \in DOMAIN served[s] : served[s][i] \in 1..instant

\* Room is made for one.
LEMMA RoomForOne ==
    ASSUME BucketRanges, Remembers
    PROVE  /\ bucket_room \subseteq DOMAIN rate /\ IsFiniteSet(bucket_room)
           /\ \A s : Cardinality(bucket_room \cup {s}) <= BucketsMax
<1> DEFINE busy == {s \in DOMAIN rate : ~idle(s)}
           kept == {s \in busy : rate[s].seen > oldest(busy)}
<1>0. bucket_room \subseteq DOMAIN rate BY DEF bucket_room
<1>1. IsFiniteSet(DOMAIN rate) /\ Cardinality(DOMAIN rate) \in Nat
      /\ Cardinality(DOMAIN rate) <= BucketsMax /\ BucketsMax \in Nat \ {0}
    BY FS_CardinalityType, BucketAssumption DEF Remembers
<1>2. busy \in SUBSET DOMAIN rate OBVIOUS
<1>3. IsFiniteSet(busy) /\ Cardinality(busy) \in Nat /\ Cardinality(busy) <= Cardinality(DOMAIN rate)
    <2> HIDE DEF busy
    <2>1. QED BY <1>1, <1>2, FS_Subset, FS_CardinalityType
<1>4. IsFiniteSet(bucket_room) /\ Cardinality(bucket_room) \in Nat
    BY <1>0, <1>1, FS_Subset, FS_CardinalityType
<1>5. Cardinality(bucket_room) < BucketsMax
    <2>1. CASE Cardinality(DOMAIN rate) < BucketsMax BY <2>1 DEF bucket_room
    <2>2. CASE ~(Cardinality(DOMAIN rate) < BucketsMax) /\ Cardinality(busy) < BucketsMax
        BY <2>2 DEF bucket_room
    <2>3. CASE ~(Cardinality(DOMAIN rate) < BucketsMax) /\ ~(Cardinality(busy) < BucketsMax)
        <3>1. bucket_room = kept BY <2>3 DEF bucket_room
        <3>2. busy # {}
            <4> HIDE DEF busy
            <4>1. QED BY <1>1, <2>3, FS_EmptySet
        <3>3. PICK s \in busy : rate[s].seen = oldest(busy)
            <4> HIDE DEF busy
            <4>1. QED BY <1>2, <1>3, <3>2, OldestSeen
        <3>4. rate[s].seen \in Nat BY <1>2 DEF BucketRanges
        <3>5. kept \in SUBSET busy /\ s \notin kept BY <3>3, <3>4
        <3> HIDE DEF kept, busy
        <3>6. Cardinality(kept) <= Cardinality(busy) /\ Cardinality(kept) # Cardinality(busy)
            BY <1>3, <3>3, <3>5, FS_Subset
        <3>7. Cardinality(kept) \in Nat BY <1>3, <3>5, FS_Subset, FS_CardinalityType
        <3>8. QED BY <1>1, <1>3, <3>1, <3>6, <3>7
    <2>4. QED BY <2>1, <2>2, <2>3
<1>6. QED BY <1>0, <1>1, <1>4, <1>5, FS_AddElement

\* A sequence is one over any set that has its elements.
LEMMA Retyped ==
    ASSUME NEW S, NEW T, NEW q \in Seq(S), \A i \in 1..Len(q) : q[i] \in T
    PROVE  q \in Seq(T)
<1>1. Len(q) \in Nat /\ q \in [1..Len(q) -> S] BY LenProperties
<1>2. q \in [1..Len(q) -> T] BY <1>1
<1>3. QED BY <1>1, <1>2, SeqDef

LEMMA RemembersStep ==
    ASSUME BucketInv, Remembers, [BucketNext]_bucketVars
    PROVE  Remembers'
<1> USE DEF BucketInv
<1>0. instant \in 1..MaxInstant /\ MaxInstant \in Nat BY BucketAssumption DEF Remembers
<1>1. CASE InstantPasses
    <2>1. UNCHANGED <<rate, served>> /\ instant' \in 1..MaxInstant /\ instant' = instant + 1
        BY <1>0, <1>1 DEF InstantPasses
    <2>2. 1..instant \subseteq 1..instant' BY <1>0, <2>1
    <2>3. QED BY <2>1, <2>2 DEF Remembers
<1>2. ASSUME NEW s \in Pubkey, admit_rate(s) PROVE Remembers'
    <2> DEFINE passes == refilled(found(s)) >= Token
               forgotten == {x \in DOMAIN rate : ~idle(x) /\ x \notin bucket_room}
               before == [x \in Pubkey |-> IF x \in forgotten THEN <<>> ELSE served[x]]
               parts == refilled(found(s))
    <2>1. /\ instant' = instant
          /\ rate' = [x \in bucket_room \cup {s} |->
                        IF x # s THEN rate[x]
                        ELSE [tokens |-> IF passes THEN parts - Token ELSE parts, seen |-> instant]]
          /\ served' = IF passes THEN [before EXCEPT ![s] = Append(@, instant)] ELSE before
        BY <1>2 DEF admit_rate
    <2>2. bucket_room \subseteq DOMAIN rate /\ IsFiniteSet(bucket_room)
          /\ Cardinality(bucket_room \cup {s}) <= BucketsMax
        BY RoomForOne
    <2>3. IsFiniteSet(bucket_room \cup {s}) BY <2>2, FS_AddElement
    <2>4. DOMAIN rate' = bucket_room \cup {s} BY <2>1
    <2>5. \A x \in DOMAIN rate' : rate'[x].seen \in 1..instant'
        BY <1>0, <2>1, <2>2 DEF Remembers
    <2>6. /\ before \in [Pubkey -> Seq(Nat)]
          /\ \A x \in Pubkey : \A i \in DOMAIN before[x] : before[x][i] \in 1..instant
        <3>1. served \in [Pubkey -> Seq(Nat)] BY DEF BucketRanges
        <3>2. ASSUME NEW x \in Pubkey, NEW i \in DOMAIN before[x]
              PROVE  before[x][i] \in 1..instant
            <4>1. before[x] = <<>> \/ before[x] = served[x] OBVIOUS
            <4>2. before[x] # <<>> BY <3>2
            <4>3. QED BY <3>2, <4>1, <4>2 DEF Remembers
        <3>3. QED BY <3>1, <3>2
    <2> HIDE DEF before
    <2>7. ASSUME NEW x \in Pubkey, NEW i \in DOMAIN served'[x]
          PROVE  served'[x][i] \in 1..instant'
        <3>1. before[x] \in Seq(Nat) /\ instant \in Nat BY <1>0, <2>6
        <3>2. CASE x = s /\ passes
            <4>1. served'[x] = Append(before[x], instant) BY <2>1, <2>6, <3>2
            <4>2. \/ i \in DOMAIN before[x] /\ served'[x][i] = before[x][i]
                  \/ served'[x][i] = instant
                BY <3>1, <4>1, <2>7
            <4>3. QED BY <1>0, <2>1, <2>6, <4>2
        <3>3. CASE ~(x = s /\ passes)
            <4>1. served'[x] = before[x] BY <2>1, <2>6, <3>3
            <4>2. QED BY <2>1, <2>6, <2>7, <4>1
        <3>4. QED BY <3>2, <3>3
    <2>8. QED BY <1>0, <2>1, <2>2, <2>3, <2>4, <2>5, <2>7 DEF Remembers
<1>3. CASE UNCHANGED bucketVars BY <1>3 DEF bucketVars, Remembers
<1>4. QED BY <1>1, <1>2, <1>3 DEF BucketNext

\* No bucket is fuller than the burst, and no flood of pubkeys makes the bunker
\* remember more of them than RATE_BUCKETS_MAX, however bucket_room sheds.
THEOREM BucketTypeHolds == BucketSpec => []BucketTypeOK
<1>0. BucketInit => Remembers
    <2> SUFFICES ASSUME BucketInit PROVE Remembers
        OBVIOUS
    <2>1. DOMAIN rate = {} /\ \A s \in Pubkey : served[s] = <<>> BY DEF BucketInit
    <2>2. instant = 1 /\ 1 \in 1..MaxInstant BY BucketAssumption DEF BucketInit
    <2>3. QED BY <2>1, <2>2, FS_EmptySet, BucketAssumption DEF Remembers
<1>1. BucketInv /\ Remembers => BucketTypeOK
    <2> SUFFICES ASSUME BucketInv, Remembers PROVE BucketTypeOK
        OBVIOUS
    <2>1. ASSUME NEW s \in Pubkey PROVE served[s] \in Seq(1..instant)
        <3>1. served[s] \in Seq(Nat) BY DEF BucketInv, BucketRanges
        <3>2. \A i \in 1..Len(served[s]) : served[s][i] \in 1..instant
            BY <3>1 DEF Remembers
        <3>3. QED BY <3>1, <3>2, Retyped
    <2>2. QED BY <2>1, BucketAssumption DEF BucketInv, BucketRanges, Remembers, BucketTypeOK
<1>2. QED BY <1>0, <1>1, RemembersStep, BooksHold, PTL DEF BucketSpec

-----------------------------------------------------------------------------
(* The relay: ranges.                                                      *)

Seconds == 0..MaxSecond
Places == {"gone", "loop", "read", "admitted", "held", "cast", "asked"}
EventWork == [event : Notes, at : Seconds]
AskWork == [sub : SubIds \X Filters, replay : SUBSET Notes]

RelayRanges ==
    /\ relayNow \in Seconds
    /\ thread \in [Conns -> Places] /\ work \in [Conns -> {NoWork} \cup EventWork \cup AskWork]
    /\ held \subseteq EventWork /\ accepted \subseteq Notes \X Seconds
    /\ budget \in [Pubkeys -> Seq(Seconds)]
    /\ subs \in [Conns -> SUBSET (SubIds \X Filters)]
    /\ queue \in [Conns -> SUBSET Frames] /\ got \in [Conns -> SUBSET Frames]
Budgets == \A k \in Pubkeys : Len(budget[k]) <= Rate

\* What a thread has in hand fits where it is; the clock it read is not far.
InHand ==
    \A c \in Conns :
        /\ thread[c] \in {"admitted", "held", "cast"} => work[c] \in EventWork
        /\ thread[c] = "asked" => work[c] \in AskWork
        /\ thread[c] = "admitted" => /\ work[c].at <= relayNow /\ relayNow - work[c].at <= Stall
                                     /\ admission(work[c].event, work[c].at)
\* Nobody subscribes for a connection that ended.
GoneIsGone == \A c \in Conns : thread[c] = "gone" => subs[c] = {} /\ queue[c] = {}

RelayShape == RelayRanges /\ Budgets /\ InHand /\ GoneIsGone

\* What is left of a budget: the times from the first one recent enough on.
LEMMA Popped ==
    ASSUME NEW b \in Seq(Seconds), NEW t \in Seconds
    PROVE  \E i \in 1..Len(b) + 1 :
              /\ popped(b, t) = SubSeq(b, i, Len(b)) /\ popped(b, t) \in Seq(Seconds)
              /\ Len(popped(b, t)) = Len(b) - i + 1
              /\ \A j \in 1..Len(b) - i + 1 : popped(b, t)[j] = b[i + j - 1]
              /\ \A j \in 1..i - 1 : b[j] < t - Minute
<1> DEFINE F == front(b, t)
           i == CHOOSE x \in F : \A j \in F : x <= j
<1>1. Len(b) \in Nat /\ \A j \in 1..Len(b) : b[j] \in Seconds BY LenProperties
<1>2. F \in SUBSET Nat /\ F # {} /\ F \subseteq 1..Len(b) + 1
    <2>1. Len(b) + 1 \in F BY <1>1 DEF front
    <2>2. F \subseteq 1..Len(b) + 1 BY DEF front
    <2> HIDE DEF F
    <2>3. QED BY <1>1, <2>1, <2>2
<1>3. i \in F /\ \A j \in F : i <= j
    <2> HIDE DEF F
    <2>1. \E x \in F : \A j \in F : x <= j BY <1>2, Least
    <2>2. QED BY <2>1
<1>4. popped(b, t) = SubSeq(b, i, Len(b)) BY DEF popped
<1>5. i \in 1..Len(b) + 1 BY <1>2, <1>3
<1> HIDE DEF i
<1>6. \A j \in i..Len(b) : b[j] \in Seconds BY <1>1, <1>5
<1>7. /\ SubSeq(b, i, Len(b)) \in Seq(Seconds)
      /\ Len(SubSeq(b, i, Len(b))) = IF i <= Len(b) THEN Len(b) - i + 1 ELSE 0
      /\ \A j \in 1..Len(b) - i + 1 : SubSeq(b, i, Len(b))[j] = b[i + j - 1]
    BY <1>1, <1>5, <1>6, SubSeqProperties
<1>8. Len(SubSeq(b, i, Len(b))) = Len(b) - i + 1 BY <1>1, <1>5, <1>7
<1>9. ASSUME NEW j \in 1..i - 1 PROVE b[j] < t - Minute
    <2>1. j \in 1..Len(b) /\ ~(i <= j) /\ j \in 1..Len(b) + 1 BY <1>1, <1>5
    <2>2. j \notin F BY <1>3, <2>1
    <2>3. ~(b[j] >= t - Minute) BY <2>1, <2>2 DEF front
    <2>4. b[j] \in Int /\ t - Minute \in Int BY <1>1, <2>1, RelayAssumption DEF Seconds
    <2>5. QED BY <2>3, <2>4
<1>10. QED BY <1>4, <1>5, <1>7, <1>8, <1>9

LEMMA Shorter ==
    ASSUME NEW b \in Seq(Seconds), NEW t \in Seconds
    PROVE  /\ popped(b, t) \in Seq(Seconds)
           /\ Len(popped(b, t)) \in Nat /\ Len(popped(b, t)) <= Len(b)
<1>1. PICK i \in 1..Len(b) + 1 :
         popped(b, t) \in Seq(Seconds) /\ Len(popped(b, t)) = Len(b) - i + 1
    BY Popped
<1>2. Len(b) \in Nat BY LenProperties
<1>3. QED BY <1>1, <1>2

\* What a thread's step does to its place and its work, and to nobody else's.
LEMMA Goes ==
    ASSUME RelayRanges, NEW c \in Conns, NEW to, NEW doing, goes(c, to, doing)
    PROVE  /\ thread'[c] = to /\ work'[c] = doing
           /\ \A d \in Conns \ {c} : thread'[d] = thread[d] /\ work'[d] = work[d]
           /\ to \in Places => thread' \in [Conns -> Places]
           /\ doing \in {NoWork} \cup EventWork \cup AskWork
                => work' \in [Conns -> {NoWork} \cup EventWork \cup AskWork]
BY DEF RelayRanges, goes

\* A step that leaves the store and the clock, and takes c where nothing is in hand.
LEMMA Onward ==
    ASSUME RelayShape, NEW c \in Conns, NEW to \in {"loop", "read"}, goes(c, to, NoWork),
           UNCHANGED <<relayNow, store_state>>,
           subs' \in [Conns -> SUBSET (SubIds \X Filters)],
           queue' \in [Conns -> SUBSET Frames], got' \in [Conns -> SUBSET Frames],
           \A d \in Conns : thread'[d] = "gone" => subs'[d] = {} /\ queue'[d] = {}
    PROVE  RelayShape'
<1>1. /\ thread'[c] = to /\ work'[c] = NoWork
      /\ \A d \in Conns \ {c} : thread'[d] = thread[d] /\ work'[d] = work[d]
      /\ thread' \in [Conns -> Places] /\ work' \in [Conns -> {NoWork} \cup EventWork \cup AskWork]
    BY Goes DEF RelayShape, Places
<1>2. InHand'
    BY <1>1 DEF RelayShape, InHand, admission
<1>3. QED BY <1>1, <1>2 DEF RelayShape, RelayRanges, Budgets, GoneIsGone, store_state

LEMMA RelayShapeStep ==
    ASSUME RelayShape, RelayNext
    PROVE  RelayShape'
<1> USE DEF store_state, paths
<1>0. /\ subs \in [Conns -> SUBSET (SubIds \X Filters)]
      /\ queue \in [Conns -> SUBSET Frames] /\ got \in [Conns -> SUBSET Frames]
      /\ thread \in [Conns -> Places] /\ relayNow \in Seconds
      /\ held \subseteq EventWork
    BY DEF RelayShape, RelayRanges
<1>1. ASSUME NEW c \in Conns, Accept(c) PROVE RelayShape'
    <2>1. \A d \in Conns : thread'[d] = "gone" => subs'[d] = {} /\ queue'[d] = {}
        BY <1>1, Goes DEF Accept, RelayShape, GoneIsGone
    <2>2. QED BY <1>0, <1>1, <2>1, Onward DEF Accept
<1>2. ASSUME NEW c \in Conns, Drain(c) PROVE RelayShape'
    <2>1. \A d \in Conns : thread'[d] = "gone" => subs'[d] = {} /\ queue'[d] = {}
        BY <1>0, <1>2, Goes DEF Drain, RelayShape, GoneIsGone
    <2>2. queue' \in [Conns -> SUBSET Frames] /\ got' \in [Conns -> SUBSET Frames]
        BY <1>0, <1>2 DEF Drain
    <2>3. QED BY <1>0, <1>2, <2>1, <2>2, Onward DEF Drain
<1>3. ASSUME NEW c \in Conns, ReadTimeout(c) PROVE RelayShape'
    <2>1. \A d \in Conns : thread'[d] = "gone" => subs'[d] = {} /\ queue'[d] = {}
        BY <1>3, Goes DEF ReadTimeout, RelayShape, GoneIsGone
    <2>2. QED BY <1>0, <1>3, <2>1, Onward DEF ReadTimeout
<1>4. ASSUME NEW c \in Conns, ReadEvent(c) PROVE RelayShape'
    <2>1. PICK e \in Notes :
             IF admission(e, relayNow) THEN goes(c, "admitted", [event |-> e, at |-> relayNow])
                                       ELSE goes(c, "loop", NoWork)
        BY <1>4 DEF ReadEvent
    <2>2. UNCHANGED <<relayNow, store_state, paths>> /\ thread[c] = "read" BY <1>4 DEF ReadEvent
    <2>3. CASE ~admission(e, relayNow)
        <3>1. goes(c, "loop", NoWork) BY <2>1, <2>3
        <3>2. \A d \in Conns : thread'[d] = "gone" => subs'[d] = {} /\ queue'[d] = {}
            BY <2>2, <3>1, Goes DEF RelayShape, GoneIsGone
        <3>3. QED BY <1>0, <2>2, <3>1, <3>2, Onward
    <2>4. CASE admission(e, relayNow)
        <3> DEFINE w == [event |-> e, at |-> relayNow]
        <3>1. goes(c, "admitted", w) BY <2>1, <2>4
        <3>2. w \in EventWork /\ w.event = e /\ w.at = relayNow BY <1>0 DEF EventWork
        <3> HIDE DEF w
        <3>3. /\ thread'[c] = "admitted" /\ work'[c] = w
              /\ \A d \in Conns \ {c} : thread'[d] = thread[d] /\ work'[d] = work[d]
              /\ thread' \in [Conns -> Places]
              /\ work' \in [Conns -> {NoWork} \cup EventWork \cup AskWork]
            BY <3>1, <3>2, Goes DEF RelayShape, Places
        <3>4. relayNow - relayNow <= Stall /\ relayNow <= relayNow
            BY <1>0, RelayAssumption DEF Seconds
        <3>5. InHand'
            <4>1. ASSUME NEW d \in Conns \ {c}
                  PROVE  /\ thread'[d] \in {"admitted", "held", "cast"} => work'[d] \in EventWork
                         /\ thread'[d] = "asked" => work'[d] \in AskWork
                         /\ thread'[d] = "admitted" =>
                               /\ work'[d].at <= relayNow /\ relayNow - work'[d].at <= Stall
                               /\ admission(work'[d].event, work'[d].at)
                BY <3>3 DEF RelayShape, InHand
            <4>2. /\ work'[c] \in EventWork /\ thread'[c] = "admitted"
                  /\ work'[c].at <= relayNow /\ relayNow - work'[c].at <= Stall
                  /\ admission(work'[c].event, work'[c].at)
                BY <2>4, <3>2, <3>3, <3>4
            <4>3. QED BY <2>2, <4>1, <4>2 DEF InHand, admission
        <3>6. QED BY <2>2, <3>3, <3>5 DEF RelayShape, RelayRanges, Budgets, GoneIsGone
    <2>5. QED BY <2>3, <2>4
<1>5. ASSUME NEW c \in Conns, SendOk(c) PROVE RelayShape'
    <2>1. thread[c] = "held" /\ goes(c, "cast", work[c]) /\ UNCHANGED <<relayNow, store_state, paths>>
        BY <1>5 DEF SendOk
    <2>2. work[c] \in EventWork BY <2>1 DEF RelayShape, InHand
    <2>3. /\ thread'[c] = "cast" /\ work'[c] = work[c]
          /\ \A d \in Conns \ {c} : thread'[d] = thread[d] /\ work'[d] = work[d]
          /\ thread' \in [Conns -> Places] /\ work' \in [Conns -> {NoWork} \cup EventWork \cup AskWork]
        BY <2>1, <2>2, Goes DEF RelayShape, Places
    <2>4. InHand' BY <2>1, <2>2, <2>3 DEF RelayShape, InHand, admission
    <2>5. QED BY <2>1, <2>3, <2>4 DEF RelayShape, RelayRanges, Budgets, GoneIsGone
<1>6. ASSUME NEW c \in Conns, broadcast(c) PROVE RelayShape'
    <2>1. thread[c] = "cast" /\ goes(c, "loop", NoWork) /\ UNCHANGED <<relayNow, store_state, subs, got>>
        BY <1>6 DEF broadcast
    <2>2. work[c] \in EventWork /\ work[c].event \in Notes
        BY <2>1 DEF RelayShape, InHand, EventWork
    <2> DEFINE sent(d) == {<<s[1], work[c].event>> : s \in {s \in subs[d] : matches(s[2], work[c].event)}}
    <2>3. \A d \in Conns : sent(d) \subseteq Frames /\ (subs[d] = {} => sent(d) = {})
        BY <1>0, <2>2 DEF Frames
    <2>4. queue' = [d \in Conns |-> queue[d] \cup sent(d)] BY <1>6 DEF broadcast
    <2> HIDE DEF sent
    <2>5. queue' \in [Conns -> SUBSET Frames] BY <1>0, <2>3, <2>4
    <2>6. \A d \in Conns : thread'[d] = "gone" => subs'[d] = {} /\ queue'[d] = {}
        BY <2>1, <2>3, <2>4, Goes DEF RelayShape, GoneIsGone
    <2>7. QED BY <1>0, <2>1, <2>5, <2>6, Onward
<1>7. ASSUME NEW c \in Conns, Subscribe(c) PROVE RelayShape'
    <2>1. thread[c] = "asked" /\ goes(c, "loop", NoWork) /\ UNCHANGED <<relayNow, store_state, queue>>
        BY <1>7 DEF Subscribe
    <2>2. work[c].sub \in SubIds \X Filters /\ work[c].replay \subseteq Notes
        BY <2>1 DEF RelayShape, InHand, AskWork
    <2>3. {<<work[c].sub[1], e>> : e \in work[c].replay} \subseteq Frames BY <2>2 DEF Frames
    <2>4. got' \in [Conns -> SUBSET Frames] BY <1>0, <1>7, <2>3 DEF Subscribe
    <2>5. subs' \in [Conns -> SUBSET (SubIds \X Filters)] BY <1>0, <1>7, <2>2 DEF Subscribe
    <2>6. \A d \in Conns : thread'[d] = "gone" => subs'[d] = {} /\ queue'[d] = {}
        BY <1>0, <1>7, <2>1, Goes DEF RelayShape, GoneIsGone, Subscribe
    <2>7. QED BY <1>0, <2>1, <2>4, <2>5, <2>6, Onward
<1>8. ASSUME NEW c \in Conns, ReadReq(c) PROVE RelayShape'
    <2>1. UNCHANGED <<relayNow, budget, accepted, paths>> /\ thread[c] = "read" BY <1>8 DEF ReadReq
    <2>2. CASE goes(c, "loop", NoWork) /\ UNCHANGED held
        <3>1. \A d \in Conns : thread'[d] = "gone" => subs'[d] = {} /\ queue'[d] = {}
            BY <2>1, <2>2, Goes DEF RelayShape, GoneIsGone
        <3>2. QED BY <1>0, <2>1, <2>2, <3>1, Onward
    <2>3. ASSUME NEW i \in SubIds, NEW f \in Filters, NEW out \in SUBSET Notes, held' = swept,
                 goes(c, "asked", [sub |-> <<i, f>>, replay |-> out])
          PROVE  RelayShape'
        <3> DEFINE w == [sub |-> <<i, f>>, replay |-> out]
        <3>1. w \in AskWork BY DEF AskWork
        <3>2. goes(c, "asked", w) BY <2>3
        <3> HIDE DEF w
        <3>3. /\ thread'[c] = "asked" /\ work'[c] = w
              /\ \A d \in Conns \ {c} : thread'[d] = thread[d] /\ work'[d] = work[d]
              /\ thread' \in [Conns -> Places]
              /\ work' \in [Conns -> {NoWork} \cup EventWork \cup AskWork]
            BY <3>1, <3>2, Goes DEF RelayShape, Places
        <3>4. held' \subseteq EventWork BY <1>0, <2>3 DEF swept, unexpired
        <3>5. InHand' BY <2>1, <3>1, <3>3 DEF RelayShape, InHand, admission
        <3>6. QED BY <2>1, <3>3, <3>4, <3>5 DEF RelayShape, RelayRanges, Budgets, GoneIsGone
    <2>4. QED BY <1>8, <2>2, <2>3 DEF ReadReq
<1>9. ASSUME NEW c \in Conns, ReadClose(c) PROVE RelayShape'
    <2>1. thread[c] = "read" /\ goes(c, "loop", NoWork) /\ UNCHANGED <<relayNow, store_state, queue, got>>
        BY <1>9 DEF ReadClose
    <2>2. PICK i \in SubIds : subs' = [subs EXCEPT ![c] = {s \in @ : s[1] # i}] BY <1>9 DEF ReadClose
    <2>3. subs' \in [Conns -> SUBSET (SubIds \X Filters)] BY <1>0, <2>2
    <2>4. \A d \in Conns : thread'[d] = "gone" => subs'[d] = {} /\ queue'[d] = {}
        BY <1>0, <2>1, <2>2, Goes DEF RelayShape, GoneIsGone
    <2>5. QED BY <1>0, <2>1, <2>3, <2>4, Onward
<1>10. ASSUME NEW c \in Conns, Leave(c) PROVE RelayShape'
    <2>1. /\ goes(c, "gone", NoWork) /\ UNCHANGED <<relayNow, store_state>>
          /\ subs' = [subs EXCEPT ![c] = {}] /\ queue' = [queue EXCEPT ![c] = {}]
          /\ got' = [got EXCEPT ![c] = {}]
        BY <1>10 DEF Leave
    <2>2. /\ thread'[c] = "gone" /\ work'[c] = NoWork
          /\ \A d \in Conns \ {c} : thread'[d] = thread[d] /\ work'[d] = work[d]
          /\ thread' \in [Conns -> Places] /\ work' \in [Conns -> {NoWork} \cup EventWork \cup AskWork]
        BY <2>1, Goes DEF RelayShape, Places
    <2>3. InHand' BY <2>1, <2>2 DEF RelayShape, InHand, admission
    <2>4. GoneIsGone' BY <1>0, <2>1, <2>2 DEF RelayShape, GoneIsGone
    <2>5. /\ subs' \in [Conns -> SUBSET (SubIds \X Filters)]
          /\ queue' \in [Conns -> SUBSET Frames] /\ got' \in [Conns -> SUBSET Frames]
        BY <1>0, <2>1
    <2>6. QED BY <2>1, <2>2, <2>3, <2>4, <2>5 DEF RelayShape, RelayRanges, Budgets
<1>11. CASE Evict
    <2>1. UNCHANGED <<relayNow, thread, work, budget, accepted, paths>> /\ held' \subseteq EventWork
        BY <1>0, <1>11 DEF Evict, unexpired
    <2>2. QED BY <2>1 DEF RelayShape, RelayRanges, Budgets, InHand, GoneIsGone, admission
<1>12. CASE RelayTick
    <2>1. UNCHANGED <<thread, work, store_state, paths>> BY <1>12 DEF RelayTick
    <2>2. relayNow' \in Seconds /\ relayNow' = relayNow + 1
        BY <1>0, <1>12, RelayAssumption DEF RelayTick, Seconds
    <2>3. \A c \in Conns : thread[c] = "admitted" =>
             work[c].at \in Seconds /\ work[c].at <= relayNow' /\ relayNow' - work[c].at <= Stall
        BY <1>0, <1>12, <2>2, RelayAssumption DEF RelayTick, RelayShape, InHand, EventWork, Seconds
    <2>4. InHand' BY <2>1, <2>3 DEF RelayShape, InHand, admission
    <2>5. QED BY <2>1, <2>2, <2>4 DEF RelayShape, RelayRanges, Budgets, GoneIsGone
<1>13. ASSUME NEW c \in Conns, Budgeted(c) PROVE RelayShape'
    <2> DEFINE e == work[c].event
               t == work[c].at
               left == popped(budget[e.by], t)
               full == Len(left) >= Rate
               known == \E h \in held : h.event = e
    <2>1. /\ thread[c] = "admitted"
          /\ budget' = [budget EXCEPT ![e.by] = IF full THEN left ELSE Append(left, t)]
          /\ IF full \/ known THEN goes(c, "loop", NoWork) /\ UNCHANGED <<held, accepted>>
             ELSE /\ goes(c, "held", work[c])
                  /\ held' = held \cup {[event |-> e, at |-> t]}
                  /\ accepted' = accepted \cup {<<e, t>>}
          /\ UNCHANGED <<relayNow, paths>>
        BY <1>13 DEF Budgeted
    <2>2. work[c] \in EventWork /\ e \in Notes /\ t \in Seconds
        BY <2>1 DEF RelayShape, InHand, EventWork
    <2>3. e.by \in Pubkeys BY <2>2 DEF Pubkeys
    <2>4. budget \in [Pubkeys -> Seq(Seconds)] /\ accepted \subseteq Notes \X Seconds
        BY DEF RelayShape, RelayRanges
    <2>5. left \in Seq(Seconds) /\ Len(left) <= Rate /\ Len(left) \in Nat
        <3>1. budget[e.by] \in Seq(Seconds) /\ Len(budget[e.by]) <= Rate
            BY <2>3, <2>4 DEF RelayShape, Budgets
        <3>2. left \in Seq(Seconds) /\ Len(left) \in Nat /\ Len(left) <= Len(budget[e.by])
            BY <2>2, <3>1, Shorter
        <3>3. Len(budget[e.by]) \in Nat /\ Rate \in Nat BY <3>1, LenProperties, RelayAssumption
        <3> HIDE DEF left
        <3>4. QED BY <3>1, <3>2, <3>3
    <2> HIDE DEF e, t, left
    <2>6. LET b == IF full THEN left ELSE Append(left, t)
          IN  b \in Seq(Seconds) /\ Len(b) <= Rate
        BY <2>2, <2>5, RelayAssumption
    <2>7. budget' \in [Pubkeys -> Seq(Seconds)] /\ Budgets'
        BY <2>1, <2>3, <2>4, <2>6 DEF RelayShape, Budgets
    <2>8. held' \subseteq EventWork /\ accepted' \subseteq Notes \X Seconds
        <3>1. [event |-> e, at |-> t] \in EventWork BY <2>2 DEF EventWork
        <3>2. QED BY <1>0, <2>1, <2>2, <2>4, <3>1
    <2>9. PICK to \in {"loop", "held"}, doing \in {NoWork, work[c]} :
             goes(c, to, doing) /\ (to = "held" => doing = work[c])
        BY <2>1
    <2>10. /\ thread'[c] = to /\ work'[c] = doing
           /\ \A d \in Conns \ {c} : thread'[d] = thread[d] /\ work'[d] = work[d]
           /\ thread' \in [Conns -> Places]
           /\ work' \in [Conns -> {NoWork} \cup EventWork \cup AskWork]
        BY <2>2, <2>9, Goes DEF RelayShape, Places
    <2>11. InHand' BY <2>1, <2>2, <2>9, <2>10 DEF RelayShape, InHand, admission
    <2>12. GoneIsGone' BY <2>1, <2>9, <2>10 DEF RelayShape, GoneIsGone
    <2>13. QED BY <1>0, <2>1, <2>7, <2>8, <2>10, <2>11, <2>12 DEF RelayShape, RelayRanges
<1>14. QED BY <1>1, <1>2, <1>3, <1>4, <1>5, <1>6, <1>7, <1>8, <1>9, <1>10, <1>11, <1>12, <1>13
           DEF RelayNext, Serves

LEMMA RelayShapeInit == RelayInit => RelayShape
<1> SUFFICES ASSUME RelayInit PROVE RelayShape
    OBVIOUS
<1>1. relayNow \in Seconds BY RelayAssumption DEF RelayInit, Seconds
<1>2. /\ thread \in [Conns -> Places] /\ work \in [Conns -> {NoWork} \cup EventWork \cup AskWork]
      /\ \A c \in Conns : thread[c] = "gone"
    BY DEF RelayInit, Places
<1>3. /\ subs \in [Conns -> SUBSET (SubIds \X Filters)]
      /\ queue \in [Conns -> SUBSET Frames] /\ got \in [Conns -> SUBSET Frames]
      /\ \A c \in Conns : subs[c] = {} /\ queue[c] = {}
    BY DEF RelayInit
<1>4. budget \in [Pubkeys -> Seq(Seconds)] /\ \A k \in Pubkeys : Len(budget[k]) <= Rate
    BY EmptySeq, RelayAssumption DEF RelayInit
<1>5. held = {} /\ accepted = {} BY DEF RelayInit
<1>6. QED BY <1>1, <1>2, <1>3, <1>4, <1>5
          DEF RelayShape, RelayRanges, Budgets, InHand, GoneIsGone

\* The relay's state keeps its ranges; no budget holds more times than the
\* rate, what a thread has in hand fits the place it is at and was admitted by
\* a clock it read less than a stall ago, and nobody subscribes for a
\* connection that ended.
THEOREM RelayShapeHolds == RelaySpec => []RelayShape
<1>1. RelayShape /\ [RelayNext]_relayVars => RelayShape'
    <2> SUFFICES ASSUME RelayShape, [RelayNext]_relayVars PROVE RelayShape'
        OBVIOUS
    <2>1. CASE UNCHANGED relayVars
        BY <2>1 DEF relayVars, RelayShape, RelayRanges, Budgets, InHand, GoneIsGone, admission
    <2>2. QED BY <2>1, RelayShapeStep
<1>2. QED BY <1>1, RelayShapeInit, PTL DEF RelaySpec

-----------------------------------------------------------------------------
(* What is taken in once, and what a query meets.                          *)

\* Memory outlives the window: what was accepted is held, or came in longer
\* ago than any timestamp may still be in the window of a thread.
MemoryOutlives ==
    /\ \A a \in accepted : a[2] <= relayNow /\ admission(a[1], a[2])
    /\ \A h \in held : <<h.event, h.at>> \in accepted
    /\ \A a \in accepted : [event |-> a[1], at |-> a[2]] \in held \/ relayNow - a[2] >= HeldFor

\* A step that accepts nothing and lets go of nothing but what expired.
LEMMA MemoryKept ==
    ASSUME RelayShape, MemoryOutlives, relayNow' = relayNow, accepted' = accepted,
           held' \in {held, unexpired(relayNow)}
    PROVE  MemoryOutlives'
<1>1. \A a \in accepted : a[2] \in Seconds /\ relayNow \in Seconds /\ HeldFor \in Nat
    BY RelayAssumption DEF RelayShape, RelayRanges
<1>2. ASSUME NEW a \in accepted, [event |-> a[1], at |-> a[2]] \in held
      PROVE  [event |-> a[1], at |-> a[2]] \in held' \/ relayNow - a[2] >= HeldFor
    <2>1. CASE held' = held BY <1>2, <2>1
    <2>2. CASE held' = unexpired(relayNow)
        <3>1. CASE relayNow - a[2] < HeldFor BY <1>2, <2>2, <3>1 DEF unexpired
        <3>2. CASE ~(relayNow - a[2] < HeldFor) BY <1>1, <3>2 DEF Seconds
        <3>3. QED BY <3>1, <3>2
    <2>3. QED BY <2>1, <2>2
<1>3. held' \subseteq held BY DEF unexpired
<1>4. QED BY <1>2, <1>3 DEF MemoryOutlives, admission

\* The two outcomes of a thread that comes with an admitted event.
LEMMA Admitted ==
    ASSUME RelayShape, NEW c \in Conns, Budgeted(c)
    PROVE  \E e \in Notes, t \in Seconds :
              /\ t <= relayNow /\ relayNow - t <= Stall /\ admission(e, t)
              /\ relayNow' = relayNow
              /\ LET left == popped(budget[e.by], t)
                 IN  budget' = [budget EXCEPT ![e.by] =
                                  IF Len(left) >= Rate THEN left ELSE Append(left, t)]
              /\ \/ UNCHANGED <<held, accepted>>
                 \/ /\ Len(popped(budget[e.by], t)) < Rate
                    /\ \A h \in held : h.event # e
                    /\ held' = held \cup {[event |-> e, at |-> t]}
                    /\ accepted' = accepted \cup {<<e, t>>}
<1> DEFINE e == work[c].event
           t == work[c].at
           left == popped(budget[e.by], t)
<1>1. thread[c] = "admitted" /\ relayNow' = relayNow BY DEF Budgeted
<1>2. e \in Notes /\ t \in Seconds /\ t <= relayNow /\ relayNow - t <= Stall /\ admission(e, t)
    BY <1>1 DEF RelayShape, InHand, EventWork
<1>3. budget' = [budget EXCEPT ![e.by] = IF Len(left) >= Rate THEN left ELSE Append(left, t)]
    BY DEF Budgeted
<1>4. \/ UNCHANGED <<held, accepted>>
      \/ /\ ~(Len(left) >= Rate)
         /\ \A h \in held : h.event # e
         /\ held' = held \cup {[event |-> e, at |-> t]}
         /\ accepted' = accepted \cup {<<e, t>>}
    BY DEF Budgeted
<1>5. Len(left) \in Nat /\ Rate \in Nat
    <2>1. e.by \in Pubkeys BY <1>2 DEF Pubkeys
    <2>2. budget[e.by] \in Seq(Seconds) BY <2>1 DEF RelayShape, RelayRanges
    <2>3. QED BY <1>2, <2>2, Shorter, RelayAssumption
<1> HIDE DEF e, t
<1>6. ~(Len(left) >= Rate) => Len(left) < Rate
    <2> HIDE DEF left
    <2>1. QED BY <1>5
<1>7. QED BY <1>1, <1>2, <1>3, <1>4, <1>6

\* Every other step leaves the books of the store alone, or sweeps them.
LEMMA OrElse ==
    ASSUME RelayNext, \A c \in Conns : ~Budgeted(c), ~RelayTick
    PROVE  /\ relayNow' = relayNow /\ accepted' = accepted /\ budget' = budget
           /\ held' \in {held, unexpired(relayNow)}
<1> USE DEF store_state, paths
<1>1. ASSUME NEW c \in Conns,
             Accept(c) \/ Drain(c) \/ ReadTimeout(c) \/ ReadEvent(c) \/ SendOk(c) \/ broadcast(c)
               \/ Subscribe(c) \/ ReadClose(c) \/ Leave(c)
      PROVE  relayNow' = relayNow /\ accepted' = accepted /\ budget' = budget /\ held' = held
    BY <1>1 DEF Accept, Drain, ReadTimeout, ReadEvent, SendOk, broadcast, Subscribe, ReadClose, Leave
<1>2. ASSUME NEW c \in Conns, ReadReq(c)
      PROVE  /\ relayNow' = relayNow /\ accepted' = accepted /\ budget' = budget
             /\ held' \in {held, unexpired(relayNow)}
    BY <1>2 DEF ReadReq, swept
<1>3. CASE Evict BY <1>3 DEF Evict
<1>4. QED BY <1>1, <1>2, <1>3 DEF RelayNext, Serves

\* An event a thread is about to take in was not taken in before: its two
\* arrivals would be less than two windows apart, and it would be held.
LEMMA NotBefore ==
    ASSUME RelayShape, MemoryOutlives, NEW e \in Notes, NEW t \in Seconds,
           t <= relayNow, relayNow - t <= Stall, admission(e, t), \A h \in held : h.event # e
    PROVE  \A a \in accepted : a[1] # e
<1> SUFFICES ASSUME NEW a \in accepted, a[1] = e PROVE FALSE
    OBVIOUS
<1>1. a[2] \in Seconds /\ relayNow \in Seconds BY DEF RelayShape, RelayRanges
<1>2. admission(e, a[2]) /\ relayNow - a[2] >= HeldFor BY DEF MemoryOutlives
<1>3. e.created \in Int /\ Window \in Nat /\ Stall \in Nat /\ HeldFor \in Nat
      /\ HeldFor >= 2 * Window + Stall
    BY RelayAssumption
<1>4. QED BY <1>1, <1>2, <1>3 DEF admission, Seconds

TakenInv == MemoryOutlives /\ TakenOnce

LEMMA TakenStep ==
    ASSUME RelayShape, TakenInv, RelayNext
    PROVE  TakenInv'
<1> USE DEF TakenInv
<1>1. ASSUME NEW c \in Conns, Budgeted(c) PROVE TakenInv'
    <2>1. PICK e \in Notes, t \in Seconds :
             /\ t <= relayNow /\ relayNow - t <= Stall /\ admission(e, t)
             /\ relayNow' = relayNow
             /\ \/ UNCHANGED <<held, accepted>>
                \/ /\ \A h \in held : h.event # e
                   /\ held' = held \cup {[event |-> e, at |-> t]}
                   /\ accepted' = accepted \cup {<<e, t>>}
        BY <1>1, Admitted
    <2>2. CASE UNCHANGED <<held, accepted>>
        BY <2>1, <2>2 DEF MemoryOutlives, TakenOnce, admission
    <2>3. CASE /\ \A h \in held : h.event # e
               /\ held' = held \cup {[event |-> e, at |-> t]}
               /\ accepted' = accepted \cup {<<e, t>>}
        <3>1. \A a \in accepted : a[1] # e BY <2>1, <2>3, NotBefore
        <3>2. TakenOnce' BY <2>3, <3>1 DEF TakenOnce
        <3>3. MemoryOutlives'
            <4>1. \A a \in accepted' : a[2] <= relayNow /\ admission(a[1], a[2])
                BY <2>1, <2>3 DEF MemoryOutlives
            <4>2. \A h \in held' : <<h.event, h.at>> \in accepted'
                <5>1. \A h \in held : <<h.event, h.at>> \in accepted BY DEF MemoryOutlives
                <5>2. ASSUME NEW h \in held PROVE <<h.event, h.at>> \in accepted'
                    BY <2>3, <5>1
                <5>3. ASSUME NEW h, h = [event |-> e, at |-> t]
                      PROVE  <<h.event, h.at>> \in accepted'
                    <6>1. h.event = e /\ h.at = t BY <5>3
                    <6>2. QED BY <2>3, <6>1
                <5>4. QED BY <2>3, <5>2, <5>3
            <4>3. \A a \in accepted' :
                     [event |-> a[1], at |-> a[2]] \in held' \/ relayNow - a[2] >= HeldFor
                <5>1. \A a \in accepted :
                         [event |-> a[1], at |-> a[2]] \in held \/ relayNow - a[2] >= HeldFor
                    BY DEF MemoryOutlives
                <5>2. ASSUME NEW a \in accepted
                      PROVE  [event |-> a[1], at |-> a[2]] \in held' \/ relayNow - a[2] >= HeldFor
                    BY <2>3, <5>1
                <5>3. ASSUME NEW a, a = <<e, t>>
                      PROVE  [event |-> a[1], at |-> a[2]] \in held'
                    <6>1. a[1] = e /\ a[2] = t BY <5>3
                    <6>2. QED BY <2>3, <6>1
                <5>4. QED BY <2>3, <5>2, <5>3
            <4>4. QED BY <2>1, <4>1, <4>2, <4>3 DEF MemoryOutlives, admission
        <3>4. QED BY <3>2, <3>3
    <2>4. QED BY <2>1, <2>2, <2>3
<1>2. CASE RelayTick
    <2>1. UNCHANGED <<held, accepted>> /\ relayNow' = relayNow + 1
        BY <1>2 DEF RelayTick, store_state
    <2>2. \A a \in accepted : a[2] \in Seconds /\ relayNow \in Seconds /\ HeldFor \in Nat
        BY RelayAssumption DEF RelayShape, RelayRanges
    <2>3. MemoryOutlives' BY <2>1, <2>2 DEF MemoryOutlives, admission, Seconds
    <2>4. QED BY <2>1, <2>3 DEF TakenOnce
<1>3. CASE (\A c \in Conns : ~Budgeted(c)) /\ ~RelayTick
    <2>1. /\ relayNow' = relayNow /\ accepted' = accepted
          /\ held' \in {held, unexpired(relayNow)}
        BY <1>3, OrElse
    <2>2. QED BY <2>1, MemoryKept DEF TakenOnce
<1>4. QED BY <1>1, <1>2, <1>3

LEMMA TakenHolds == RelaySpec => [](RelayShape /\ TakenInv)
<1>1. RelayInit => TakenInv BY DEF RelayInit, TakenInv, MemoryOutlives, TakenOnce
<1>2. RelayShape /\ TakenInv /\ [RelayNext]_relayVars => TakenInv'
    <2> SUFFICES ASSUME RelayShape, TakenInv, [RelayNext]_relayVars PROVE TakenInv'
        OBVIOUS
    <2>1. CASE UNCHANGED relayVars
        BY <2>1 DEF relayVars, TakenInv, MemoryOutlives, TakenOnce, admission
    <2>2. QED BY <2>1, TakenStep
<1>3. QED BY <1>1, <1>2, RelayShapeHolds, PTL DEF RelaySpec

\* TakenOnce: for any number of connections that send an event any number of
\* times, with the clock, the evictor and the ends of connections between any
\* two steps of a thread, the relay takes it in once.
THEOREM EventsTakenOnce == RelaySpec => []TakenOnce
BY TakenHolds, PTL DEF TakenInv

\* ReplayIsFresh: what a REQ is about to replay came in less than a TTL ago,
\* whatever the evictor has not come to.
THEOREM ReplaysAreFresh == RelaySpec => ReplayIsFresh
<1> DEFINE Fresh == \A c \in Conns : (thread[c] = "read" /\ thread'[c] = "asked") =>
              \A e \in work'[c].replay : \E a \in accepted : a[1] = e /\ relayNow - a[2] < HeldFor
<1>1. ASSUME RelayShape, MemoryOutlives, RelayNext PROVE Fresh
    <2> SUFFICES ASSUME NEW c \in Conns, thread[c] = "read", thread'[c] = "asked",
                        NEW e \in work'[c].replay
                 PROVE  \E a \in accepted : a[1] = e /\ relayNow - a[2] < HeldFor
        OBVIOUS
    <2>1. RelayRanges BY <1>1 DEF RelayShape
    <2>2. ASSUME NEW d \in Conns, d # c, NEW to, NEW doing, goes(d, to, doing) PROVE FALSE
        BY <2>1, <2>2, Goes
    <2>3. ASSUME NEW to, to # "asked", NEW doing, goes(c, to, doing) PROVE FALSE
        BY <2>1, <2>3, Goes
    <2>4. ReadReq(c)
        <3>1. ~Evict /\ ~RelayTick BY DEF Evict, RelayTick
        <3>2. ASSUME NEW d \in Conns,
                     Accept(d) \/ Drain(d) \/ ReadTimeout(d) \/ ReadEvent(d) \/ SendOk(d) \/ broadcast(d)
                       \/ Subscribe(d) \/ ReadClose(d) \/ Leave(d) \/ Budgeted(d)
              PROVE  \E to, doing : to # "asked" /\ goes(d, to, doing)
            BY <3>2 DEF Accept, Drain, ReadTimeout, ReadEvent, SendOk, broadcast, Subscribe, ReadClose,
                        Leave, Budgeted
        <3>3. ASSUME NEW d \in Conns, d # c, ReadReq(d) PROVE FALSE
            <4>1. \E to, doing : goes(d, to, doing) BY <3>3 DEF ReadReq
            <4>2. QED BY <2>2, <3>3, <4>1
        <3>4. ASSUME NEW d \in Conns, NEW to, NEW doing, to # "asked", goes(d, to, doing) PROVE FALSE
            BY <2>2, <2>3, <3>4
        <3>5. QED BY <1>1, <3>1, <3>2, <3>3, <3>4 DEF RelayNext, Serves
    <2>5. PICK i \in SubIds, f \in Filters, out \in SUBSET Notes :
             query(swept, f, out) /\ goes(c, "asked", [sub |-> <<i, f>>, replay |-> out])
        <3>1. ~goes(c, "loop", NoWork) BY <2>3
        <3>2. QED BY <2>4, <3>1 DEF ReadReq
    <2>6. work'[c].replay = out
        <3>1. work'[c] = [sub |-> <<i, f>>, replay |-> out] BY <2>1, <2>5, Goes
        <3>2. QED BY <3>1
    <2>7. PICK h \in unexpired(relayNow) : h.event = e BY <2>5, <2>6 DEF query, swept
    <2>8. <<h.event, h.at>> \in accepted /\ relayNow - h.at < HeldFor
        BY <1>1 DEF unexpired, MemoryOutlives
    <2>9. QED BY <2>7, <2>8
<1>2. RelayShape /\ TakenInv /\ [RelayNext]_relayVars => [Fresh]_relayVars
    BY <1>1 DEF TakenInv
<1> HIDE DEF Fresh
<1>3. RelaySpec => [][Fresh]_relayVars
    BY <1>2, TakenHolds, PTL DEF RelaySpec
<1>4. QED BY <1>3 DEF ReplayIsFresh, Fresh
-----------------------------------------------------------------------------
(* The sliding minute of a pubkey.  Of what was accepted since a moment no *)
(* thread can pop any more, the budget still has a time for each.          *)

\* The places of a budget that hold a time from s on.
stamped(b, s) == {i \in 1..Len(b) : b[i] >= s}
\* What was accepted of k from s on.
takenFrom(k, s) == {a \in accepted : a[1].by = k /\ a[2] >= s}

Charged ==
    /\ IsFiniteSet(accepted)
    /\ \A k \in Pubkeys : \A s \in Int :
          s >= relayNow - Minute => Cardinality(takenFrom(k, s)) <= Cardinality(stamped(budget[k], s))

LEMMA StampedFits ==
    ASSUME NEW b \in Seq(Seconds), NEW s
    PROVE  /\ IsFiniteSet(stamped(b, s)) /\ Cardinality(stamped(b, s)) \in Nat
           /\ Cardinality(stamped(b, s)) <= Len(b)
<1>1. Len(b) \in Nat BY LenProperties
<1>2. IsFiniteSet(1..Len(b)) /\ Cardinality(1..Len(b)) = Len(b) BY <1>1, FS_Interval
<1>3. stamped(b, s) \in SUBSET (1..Len(b)) BY DEF stamped
<1>4. IsFiniteSet(stamped(b, s)) /\ Cardinality(stamped(b, s)) <= Len(b)
    BY <1>2, <1>3, FS_Subset
<1>5. QED BY <1>4, FS_CardinalityType

\* Popping at t takes no time of the minute before t.
LEMMA StampedPopped ==
    ASSUME NEW b \in Seq(Seconds), NEW t \in Seconds, NEW s \in Int, s >= t - Minute
    PROVE  Cardinality(stamped(b, s)) <= Cardinality(stamped(popped(b, t), s))
<1> DEFINE q == popped(b, t)
<1>1. PICK i \in 1..Len(b) + 1 :
         /\ q \in Seq(Seconds) /\ Len(q) = Len(b) - i + 1
         /\ \A j \in 1..Len(b) - i + 1 : q[j] = b[i + j - 1]
         /\ \A j \in 1..i - 1 : b[j] < t - Minute
    BY Popped
<1>2. Len(b) \in Nat /\ t \in Int /\ Minute \in Nat /\ \A j \in 1..Len(b) : b[j] \in Int
    BY LenProperties, RelayAssumption DEF Seconds
<1> HIDE DEF q
<1> DEFINE S == stamped(b, s)
           T == stamped(q, s)
           f == [x \in S |-> x - i + 1]
<1>3. ASSUME NEW x \in S PROVE x \in Int /\ x - i + 1 \in T
    <2>1. x \in 1..Len(b) /\ b[x] >= s BY DEF stamped
    <2>2. x \notin 1..i - 1 BY <1>1, <1>2, <2>1
    <2>3. x - i + 1 \in 1..Len(b) - i + 1 BY <1>1, <1>2, <2>1, <2>2
    <2>4. i + (x - i + 1) - 1 = x BY <1>1, <2>1
    <2>5. q[x - i + 1] = b[x] BY <1>1, <2>3, <2>4
    <2>6. QED BY <1>1, <2>1, <2>3, <2>5 DEF stamped
<1>4. i \in Int BY <1>1
<1> HIDE DEF S, T
<1>5. f \in [S -> T] BY <1>3
<1>6. ASSUME NEW x \in S, NEW y \in S, f[x] = f[y] PROVE x = y
    <2>1. x - i + 1 = y - i + 1 BY <1>6
    <2>2. x \in Int /\ y \in Int BY <1>3
    <2>3. QED BY <1>4, <2>1, <2>2
<1> HIDE DEF f
<1>7. f \in Injection(S, T) BY <1>5, <1>6, Fun_IsInj
<1>8. IsFiniteSet(T) BY <1>1, StampedFits DEF T
<1>9. Cardinality(S) <= Cardinality(T) BY <1>7, <1>8, FS_Injection
<1>10. QED BY <1>9 DEF S, T, q

\* A time appended is one more from any moment before it on.
LEMMA StampedAppended ==
    ASSUME NEW b \in Seq(Seconds), NEW t \in Seconds, NEW s \in Int
    PROVE  /\ Cardinality(stamped(b, s)) <= Cardinality(stamped(Append(b, t), s))
           /\ t >= s => Cardinality(stamped(Append(b, t), s)) = Cardinality(stamped(b, s)) + 1
<1> DEFINE n == Len(b)
           S == stamped(b, s)
           T == stamped(Append(b, t), s)
<1>1. /\ n \in Nat /\ Append(b, t) \in Seq(Seconds) /\ Len(Append(b, t)) = n + 1
      /\ \A i \in 1..n : Append(b, t)[i] = b[i]
      /\ Append(b, t)[n + 1] = t
    BY LenProperties, AppendProperties
<1>2. \A i \in 1..n + 1 : i \in 1..n \/ i = n + 1 BY <1>1
<1>3. S \subseteq T BY <1>1 DEF stamped
<1>4. IsFiniteSet(S) /\ IsFiniteSet(T) /\ Cardinality(S) \in Nat BY <1>1, StampedFits
<1>5. n + 1 \notin S BY <1>1 DEF stamped
<1>6. t >= s => T = S \cup {n + 1}
    <2> SUFFICES ASSUME t >= s PROVE T = S \cup {n + 1}
        OBVIOUS
    <2>1. n + 1 \in 1..n + 1 BY <1>1
    <2>2. n + 1 \in T BY <1>1, <2>1 DEF stamped
    <2>3. ASSUME NEW i \in T, i # n + 1 PROVE i \in S BY <1>1, <1>2, <2>3 DEF stamped
    <2>4. QED BY <1>3, <2>2, <2>3
<1> HIDE DEF S, T
<1>7. Cardinality(S) <= Cardinality(T) BY <1>3, <1>4, FS_Subset
<1>8. t >= s => Cardinality(T) = Cardinality(S) + 1
    BY <1>4, <1>5, <1>6, FS_AddElement
<1>9. QED BY <1>7, <1>8 DEF S, T

\* A thread charges its sender for what the store takes in.
LEMMA ChargedStep ==
    ASSUME RelayShape, Charged, NEW c \in Conns, Budgeted(c)
    PROVE  Charged'
<1>1. PICK e \in Notes, t \in Seconds :
         /\ t <= relayNow /\ relayNow' = relayNow
         /\ budget' = [budget EXCEPT ![e.by] = IF Len(popped(budget[e.by], t)) >= Rate
                                               THEN popped(budget[e.by], t)
                                               ELSE Append(popped(budget[e.by], t), t)]
         /\ \/ accepted' = accepted
            \/ /\ Len(popped(budget[e.by], t)) < Rate
               /\ accepted' = accepted \cup {<<e, t>>}
    BY Admitted
<1>2. e.by \in Pubkeys /\ relayNow \in Int /\ t \in Int /\ Minute \in Nat /\ Rate \in Nat
    BY RelayAssumption DEF Pubkeys, RelayShape, RelayRanges, Seconds
<1>3. budget \in [Pubkeys -> Seq(Seconds)] BY DEF RelayShape, RelayRanges
<1>4. IsFiniteSet(accepted) /\ IsFiniteSet(accepted')
    BY <1>1, FS_AddElement DEF Charged
<1>5. ASSUME NEW k \in Pubkeys, NEW s \in Int, s >= relayNow - Minute
      PROVE  Cardinality({a \in accepted' : a[1].by = k /\ a[2] >= s})
                <= Cardinality(stamped(budget'[k], s))
    <2> DEFINE A == {a \in accepted : a[1].by = k /\ a[2] >= s}
               B == {a \in accepted' : a[1].by = k /\ a[2] >= s}
               b == budget[k]
               left == popped(b, t)
    <2>1. IsFiniteSet(A) /\ Cardinality(A) \in Nat
        BY <1>4, FS_Subset, FS_CardinalityType
    <2>2. b \in Seq(Seconds) BY <1>3
    <2>3. Cardinality(A) <= Cardinality(stamped(b, s)) /\ Cardinality(stamped(b, s)) \in Nat
        BY <1>5, <2>2, StampedFits DEF Charged, takenFrom
    <2>4. CASE k # e.by
        <3>1. budget'[k] = b BY <1>1, <1>3, <2>4
        <3>2. B = A BY <1>1, <2>4
        <3>3. QED BY <2>3, <3>1, <3>2
    <2>5. CASE k = e.by
        <3>1. budget'[k] = IF Len(left) >= Rate THEN left ELSE Append(left, t)
            BY <1>1, <1>3, <2>5
        <3>2. s >= t - Minute BY <1>1, <1>2, <1>5
        <3>3. left \in Seq(Seconds) /\ Len(left) \in Nat BY <2>2, Shorter
        <3>4. Cardinality(stamped(b, s)) <= Cardinality(stamped(left, s))
              /\ Cardinality(stamped(left, s)) \in Nat
            BY <2>2, <3>2, <3>3, StampedPopped, StampedFits
        <3>5. /\ Cardinality(stamped(left, s)) <= Cardinality(stamped(Append(left, t), s))
              /\ t >= s => Cardinality(stamped(Append(left, t), s)) = Cardinality(stamped(left, s)) + 1
            BY <3>3, StampedAppended
        <3>6. Cardinality(stamped(Append(left, t), s)) \in Nat
            BY <3>3, StampedFits, AppendProperties
        <3>7. CASE accepted' = accepted
            <4>1. B = A BY <3>7
            <4>2. Cardinality(stamped(left, s)) <= Cardinality(stamped(budget'[k], s))
                <5> HIDE DEF left
                <5>1. QED BY <3>1, <3>4, <3>5
            <4>3. Cardinality(stamped(budget'[k], s)) \in Nat
                <5> HIDE DEF left
                <5>1. QED BY <3>1, <3>4, <3>6
            <4> HIDE DEF A, B, b, left
            <4>4. Cardinality(B) <= Cardinality(stamped(budget'[k], s))
                BY <2>1, <2>3, <3>4, <4>1, <4>2, <4>3
            <4>5. QED BY <4>4 DEF B
        <3>8. CASE Len(left) < Rate /\ accepted' = accepted \cup {<<e, t>>}
            <4>1. ~(Len(left) >= Rate) BY <1>2, <3>3, <3>8
            <4>2. budget'[k] = Append(left, t) BY <3>1, <4>1
            <4>3. CASE t >= s
                <5>1. B = A \cup {<<e, t>>} BY <2>5, <3>8, <4>3
                <5> HIDE DEF A, B
                <5>2. Cardinality(B) <= Cardinality(A) + 1
                    <6>1. Cardinality(A \cup {<<e, t>>}) =
                            IF <<e, t>> \in A THEN Cardinality(A) ELSE Cardinality(A) + 1
                        BY <2>1, FS_AddElement
                    <6>2. QED BY <2>1, <5>1, <6>1
                <5>3. Cardinality(B) \in Nat BY <2>1, <5>1, FS_AddElement, FS_CardinalityType
                <5> HIDE DEF b, left
                <5>4. Cardinality(B) <= Cardinality(stamped(budget'[k], s))
                    BY <2>1, <2>3, <3>4, <3>5, <4>2, <4>3, <5>2, <5>3
                <5>5. QED BY <5>4 DEF B
            <4>4. CASE ~(t >= s)
                <5>1. B = A BY <3>8, <4>4
                <5> HIDE DEF A, B, b, left
                <5>2. Cardinality(B) <= Cardinality(stamped(budget'[k], s))
                    BY <2>1, <2>3, <3>4, <3>5, <3>6, <4>2, <5>1
                <5>3. QED BY <5>2 DEF B
            <4>5. QED BY <4>3, <4>4
        <3>9. QED BY <1>1, <2>5, <3>7, <3>8
    <2>6. QED BY <2>4, <2>5
<1>6. QED BY <1>1, <1>4, <1>5 DEF Charged, takenFrom, stamped

\* What a thread brings into a window, the budget still counts: a moment the
\* window reaches back to is less than a minute ago.
LEMMA WindowStep ==
    ASSUME RelayShape, RelayShape', Charged', BudgetHolds, NEW c \in Conns, Budgeted(c)
    PROVE  BudgetHolds'
<1>1. PICK e \in Notes, t \in Seconds :
         /\ relayNow - t <= Stall /\ relayNow' = relayNow
         /\ accepted' = accepted \/ accepted' = accepted \cup {<<e, t>>}
    BY Admitted
<1>2. relayNow \in Int /\ t \in Int /\ Minute \in Nat /\ Rate \in Nat /\ Stall \in Nat
    BY RelayAssumption DEF RelayShape, RelayRanges, Seconds
<1>3. ASSUME NEW k \in Pubkeys, NEW s \in 0..MaxSecond
      PROVE  Cardinality({a \in accepted' : a[1].by = k /\ a[2] >= s /\ a[2] <= s + Minute - Stall}) <= Rate
    <2> DEFINE A == {a \in accepted : a[1].by = k /\ a[2] >= s /\ a[2] <= s + Minute - Stall}
               B == {a \in accepted' : a[1].by = k /\ a[2] >= s /\ a[2] <= s + Minute - Stall}
               C == {a \in accepted' : a[1].by = k /\ a[2] >= s}
    <2>1. Cardinality(A) <= Rate BY DEF BudgetHolds
    <2>2. CASE B = A BY <2>1, <2>2
    <2>3. CASE B # A
        <3>1. accepted' = accepted \cup {<<e, t>>} /\ t >= s /\ t <= s + Minute - Stall
            <4>1. accepted' # accepted BY <2>3
            <4>2. accepted' = accepted \cup {<<e, t>>} BY <1>1, <4>1
            <4>3. QED BY <2>3, <4>2
        <3>2. s \in Int /\ s >= relayNow - Minute BY <1>1, <1>2, <3>1
        <3>3. IsFiniteSet(C) /\ Cardinality(C) <= Cardinality(stamped(budget'[k], s))
            <4>1. IsFiniteSet(accepted') BY DEF Charged
            <4>2. IsFiniteSet(C) BY <4>1, FS_Subset
            <4>3. QED BY <1>1, <3>2, <4>2 DEF Charged, takenFrom, stamped
        <3>4. budget'[k] \in Seq(Seconds) /\ Len(budget'[k]) <= Rate
            BY DEF RelayShape, RelayRanges, Budgets
        <3>5. Len(budget'[k]) \in Nat BY <3>4, LenProperties
        <3>6. Cardinality(stamped(budget'[k], s)) <= Len(budget'[k])
              /\ Cardinality(stamped(budget'[k], s)) \in Nat
            BY <3>4, StampedFits
        <3>7. B \subseteq C OBVIOUS
        <3> HIDE DEF A, B, C
        <3>8. Cardinality(B) <= Cardinality(C) /\ Cardinality(C) \in Nat
            BY <3>3, <3>7, FS_Subset, FS_CardinalityType
        <3>9. Cardinality(B) \in Nat BY <3>3, <3>7, FS_Subset, FS_CardinalityType
        <3>10. Cardinality(B) <= Rate BY <1>2, <3>3, <3>4, <3>5, <3>6, <3>8, <3>9
        <3>11. QED BY <3>10 DEF B
    <2>4. QED BY <2>2, <2>3
<1>4. QED BY <1>3 DEF BudgetHolds

LEMMA ChargedHolds == RelaySpec => []BudgetHolds
<1>1. RelayInit => Charged /\ BudgetHolds
    <2> SUFFICES ASSUME RelayInit PROVE Charged /\ BudgetHolds
        OBVIOUS
    <2>1. accepted = {} /\ budget = [k \in Pubkeys |-> <<>>] /\ Rate \in Nat
        BY RelayAssumption DEF RelayInit
    <2>2. IsFiniteSet({}) /\ Cardinality({}) = 0 BY FS_EmptySet
    <2>3. ASSUME NEW k \in Pubkeys, NEW s
          PROVE  Cardinality(takenFrom(k, s)) <= Cardinality(stamped(budget[k], s))
        <3>1. takenFrom(k, s) = {} BY <2>1 DEF takenFrom
        <3>2. budget[k] \in Seq(Seconds) BY <2>1
        <3>3. Cardinality(stamped(budget[k], s)) \in Nat BY <3>2, StampedFits
        <3>4. QED BY <2>2, <3>1, <3>3
    <2>4. ASSUME NEW k \in Pubkeys, NEW t
          PROVE  {a \in accepted : a[1].by = k /\ a[2] >= t /\ a[2] <= t + Minute - Stall} = {}
        BY <2>1
    <2>5. QED BY <2>1, <2>2, <2>3, <2>4 DEF Charged, BudgetHolds
<1>2. ASSUME RelayShape, Charged, BudgetHolds, [RelayNext]_relayVars
      PROVE  Charged' /\ BudgetHolds'
    <2>1. ASSUME NEW c \in Conns, Budgeted(c) PROVE Charged' /\ BudgetHolds'
        <3>1. Charged' BY <1>2, <2>1, ChargedStep
        <3>2. RelayNext BY <2>1 DEF RelayNext, Serves
        <3>3. RelayShape' BY <1>2, <3>2, RelayShapeStep
        <3>4. QED BY <1>2, <2>1, <3>1, <3>3, WindowStep
    <2>2. CASE RelayTick
        <3>1. accepted' = accepted /\ budget' = budget /\ relayNow' = relayNow + 1
            BY <2>2 DEF RelayTick, store_state
        <3>2. relayNow \in Int /\ Minute \in Nat
            BY <1>2, RelayAssumption DEF RelayShape, RelayRanges, Seconds
        <3>3. \A s \in Int : s >= relayNow' - Minute => s >= relayNow - Minute BY <3>1, <3>2
        <3>4. QED BY <1>2, <3>1, <3>3 DEF Charged, BudgetHolds, takenFrom, stamped
    <2>3. CASE (\A c \in Conns : ~Budgeted(c)) /\ ~RelayTick /\ RelayNext
        <3>1. accepted' = accepted /\ budget' = budget /\ relayNow' = relayNow
            BY <2>3, OrElse
        <3>2. QED BY <1>2, <3>1 DEF Charged, BudgetHolds, takenFrom, stamped
    <2>4. CASE UNCHANGED relayVars
        BY <1>2, <2>4 DEF relayVars, Charged, BudgetHolds, takenFrom, stamped
    <2>5. QED BY <1>2, <2>1, <2>2, <2>3, <2>4
<1>3. QED BY <1>1, <1>2, RelayShapeHolds, PTL DEF RelaySpec

-----------------------------------------------------------------------------
(* The instance's own specification: each part behaves as it does alone.   *)

LEMMA WiresAreEach == WiresFairSpec => RelaySpec /\ BucketSpec
<1>1. WiresInit => RelayInit /\ BucketInit BY DEF WiresInit
<1>2. [WiresNext]_wiresVars => [RelayNext]_relayVars /\ [BucketNext]_bucketVars
    BY DEF WiresNext, wiresVars
<1>3. QED BY <1>1, <1>2, PTL DEF WiresFairSpec, RelaySpec, BucketSpec

\* WiresTypeOK: whatever the connections and the senders do, the clocks, the
\* places of the threads, what they hold, the budgets and the buckets stay
\* within their ranges and their bounds, and a connection that ended is
\* subscribed to nothing.
THEOREM WiresTypeHolds == WiresFairSpec => []WiresTypeOK
<1>1. RelayShape => RelayTypeOK
    BY DEF RelayShape, RelayRanges, Budgets, GoneIsGone, RelayTypeOK, Seconds, Places, EventWork
<1>2. QED BY <1>1, WiresAreEach, RelayShapeHolds, BucketTypeHolds, PTL DEF WiresTypeOK

\* BudgetsHold: no stretch of a minute, less what a thread may stall, sees
\* more of a pubkey's events accepted by the relay than its rate, and no
\* stretch of time sees more of a sender's requests let through by the bunker
\* than its bucket holds and earns; a sender refused there spent it itself.
THEOREM BudgetsAreKept == WiresFairSpec => []BudgetsHold
BY WiresAreEach, ChargedHolds, RateKept, RefusalIsItsOwn, PTL DEF BudgetsHold
=============================================================================
