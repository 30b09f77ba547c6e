------------------------------- MODULE Bucket -------------------------------
(***************************************************************************)
(* The bunker's rate per sender (src/src/nostr/bunker.rs, admit_rate and   *)
(* bucket_room): a token bucket for each pubkey the bunker remembers, and  *)
(* a bound on how many it remembers.  A token is Token parts, so that the  *)
(* refill of an instant may be a fraction of one.                          *)
(***************************************************************************)
EXTENDS Naturals, FiniteSets, Sequences

CONSTANTS
    Pubkey,       \* senders, throwaway ones with them
    Token,        \* parts of a token
    Refill,       \* parts an instant brings: RATE_REFILL_PER_SEC
    Burst,        \* parts of a full bucket: RATE_BURST
    BucketsMax,   \* RATE_BUCKETS_MAX
    Stale,        \* RATE_BUCKET_STALE
    MaxInstant    \* bound on the clock

ASSUME BucketAssumption ==
    /\ Token \in Nat \ {0} /\ Refill \in Nat \ {0} /\ Burst \in Nat /\ Token <= Burst
    /\ BucketsMax \in Nat \ {0} /\ Stale \in Nat /\ MaxInstant \in Nat \ {0}
    /\ Stale * Refill >= Burst

VARIABLES
    instant,      \* Instant::now(), which never steps back
    rate,         \* the buckets: [tokens, seen], for the senders remembered
    served        \* history: when each sender was let through, since its bucket was shed alive

bucketVars == <<instant, rate, served>>

BucketInit == instant = 1 /\ rate = <<>> /\ served = [s \in Pubkey |-> <<>>]

idle(s) == instant - rate[s].seen >= Stale

\* Where the oldest eighth of the set ends.
oldest(set) == CHOOSE t \in {rate[s].seen : s \in set} :
    LET eighth == Cardinality(set) \div 8 IN
    /\ Cardinality({s \in set : rate[s].seen < t}) <= eighth
    /\ Cardinality({s \in set : rate[s].seen <= t}) > eighth

\* Below the bound nobody goes; else the idle; else the oldest too, and whoever
\* was seen at the same instant.
bucket_room ==
    LET known == DOMAIN rate
        busy == {s \in known : ~idle(s)}
    IN  IF Cardinality(known) < BucketsMax THEN known
        ELSE IF Cardinality(busy) < BucketsMax THEN busy
        ELSE {s \in busy : rate[s].seen > oldest(busy)}

refilled_uncapped(b) == b.tokens + (instant - b.seen) * Refill       \* mutant: no burst
refilled(b) ==
    LET parts == b.tokens + (instant - b.seen) * Refill IN IF parts > Burst THEN Burst ELSE parts

\* Room is made before the sender's own bucket is looked up, so a sender may
\* find its bucket gone, and full again.
found(s) == IF s \in bucket_room THEN rate[s] ELSE [tokens |-> Burst, seen |-> instant]

admit_rate(s) ==
    LET parts == refilled(found(s))
        passes == parts >= Token
        forgotten == {x \in DOMAIN rate : ~idle(x) /\ x \notin bucket_room}
        before == [x \in Pubkey |-> IF x \in forgotten THEN <<>> ELSE served[x]]
    IN  /\ rate' = [x \in bucket_room \cup {s} |->
              IF x # s THEN rate[x]
              ELSE [tokens |-> IF passes THEN parts - Token ELSE parts, seen |-> instant]]
        /\ served' = IF passes THEN [before EXCEPT ![s] = Append(@, instant)] ELSE before
        /\ UNCHANGED instant

InstantPasses == instant < MaxInstant /\ instant' = instant + 1 /\ UNCHANGED <<rate, served>>

BucketNext == InstantPasses \/ \E s \in Pubkey : admit_rate(s)
BucketSpec == BucketInit /\ [][BucketNext]_bucketVars

-----------------------------------------------------------------------------
\* No bucket is ever fuller than the burst, and no flood of pubkeys makes the
\* bunker remember more of them than its bound.
BucketTypeOK ==
    /\ instant \in 1..MaxInstant
    /\ DOMAIN rate \subseteq Pubkey /\ Cardinality(DOMAIN rate) <= BucketsMax
    /\ \A s \in DOMAIN rate : rate[s].tokens \in 0..Burst /\ rate[s].seen \in 1..instant
    /\ \A s \in Pubkey : served[s] \in Seq(1..instant)

\* What a sender was let through with from its i-th request on.
since(s, i) == (Len(served[s]) - i + 1) * Token
earned(s, i) == Burst + (instant - served[s][i]) * Refill

\* Over no stretch of time is a sender let through with more than the burst and
\* what the stretch refills, even when its bucket was dropped as idle and made
\* anew: only a bucket shed while busy gives it a fresh one.
RateHolds == \A s \in Pubkey : \A i \in DOMAIN served[s] : since(s, i) <= earned(s, i)

\* A sender is refused for what it spent itself, whatever the others send: there
\* is a stretch up to now over which it used up all but a part of a token.
RefusedForItsOwn ==
    \A s \in DOMAIN rate : refilled(rate[s]) < Token =>
        \E i \in DOMAIN served[s] : since(s, i) + Token > earned(s, i)
=============================================================================
