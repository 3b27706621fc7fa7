----------------------------- MODULE TokenBucket -----------------------------
(***************************************************************************)
(* The token bucket of one process (internal/ratelimit/tokenbucket.go).    *)
(* Time goes in ticks.  Tokens are counted in parts, Cost of them to the   *)
(* token, so that a tick may bring a fraction of a token as the code's     *)
(* floating point does.                                                    *)
(***************************************************************************)
EXTENDS Integers

CONSTANTS
    Rate,    \* parts of a token a tick brings; 0 switches the limit off
    Burst,   \* the setting RATE_LIMIT_BURST in parts; 0 is "not set"
    Second,  \* ticks in a second
    Cost     \* parts in one token

ASSUME BucketAssumption ==
    /\ Rate \in Nat /\ Burst \in Nat
    /\ Second \in Nat \ {0} /\ Cost \in Nat \ {0}

VARIABLES
    tokens,  \* parts in the bucket at the last Allow
    since,   \* ticks since then; no more are counted than fill the bucket
    ahead    \* for the properties: by how much the tokens given out are ahead
             \* of the rate, at worst over all the spans of time that end now

bucketVars == <<tokens, since, ahead>>

Least(a, b) == IF a <= b THEN a ELSE b
Most(a, b) == IF a >= b THEN a ELSE b

(* New: without a burst of its own the bucket holds a second's worth. *)
Capacity == IF Burst = 0 THEN Rate * Second ELSE Burst

BucketInit ==
    /\ tokens = Capacity
    /\ since = 0
    /\ ahead = 0

Refilled == Least(Capacity, tokens + Rate * since)

SlipAllowForgetsLast(granted) ==
    IF Rate = 0
    THEN granted /\ UNCHANGED bucketVars
    ELSE /\ granted = (Refilled >= Cost)
         /\ tokens' = IF granted THEN Refilled - Cost ELSE Refilled
         /\ since' = IF granted THEN 0 ELSE since
         /\ ahead' = IF granted THEN ahead + Cost ELSE ahead

(* One call of Allow, under the bucket's mutex, and its answer. *)
Allow(granted) ==
    IF Rate = 0
    THEN granted /\ UNCHANGED bucketVars
    ELSE /\ granted = (Refilled >= Cost)
         /\ tokens' = IF granted THEN Refilled - Cost ELSE Refilled
         /\ since' = 0
         /\ ahead' = IF granted THEN ahead + Cost ELSE ahead

(* A tick passes.  Capacity ticks fill the bucket, whatever the rate. *)
BucketTick ==
    /\ since' = Least(since + 1, Capacity)
    /\ ahead' = Most(ahead - Rate, 0)
    /\ UNCHANGED tokens

BucketTypeOK ==
    /\ tokens \in 0 .. Capacity
    /\ since \in 0 .. Capacity
    /\ ahead \in Nat

(* tokenbucket.go:3-4: a short burst is let through and the mean rate is   *)
(* kept.  In every span of time, whenever it begins and ends, no more is   *)
(* given out than the bucket holds and the rate brings.                    *)
WithinRate == Rate > 0 => ahead <= Capacity
=============================================================================
