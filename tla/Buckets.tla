------------------------------ MODULE Buckets ------------------------------
(***************************************************************************)
(* What the two stores' token buckets have in common: a rule               *)
(* (RateLimitRule; of a bucket's rule the Window is its own), lazy         *)
(* refilling, and callers who pass the time by their own clock, read       *)
(* before the call (RateLimiter.Allow), which may be behind by up to Skew  *)
(* when the call is carried out.  The unit of time is the one retry times  *)
(* are rounded to.                                                         *)
(***************************************************************************)
EXTENDS Integers, FiniteSets

CONSTANTS
  Bucket,     \* keys of buckets
  Rate,       \* tokens per unit of time
  Burst,
  Cost,       \* what calls cost, which may be more than Burst
  Window,     \* Window[b]: TTL of the bucket b when it is not used
  Skew,
  MaxBuckets  \* MaxEntries of the memory store

\* What Validate asks of a rule.
ASSUME BucketsAssumption ==
  /\ IsFiniteSet(Bucket)
  /\ MaxBuckets \in Nat \ {0}
  /\ Rate \in Nat \ {0} /\ Burst \in Nat \ {0} /\ Skew \in Nat
  /\ Cost \subseteq Nat \ {0}
  /\ Window \in [Bucket -> Nat \ {0}]

Lag == 0 .. Skew
MaxAge(b) == Window[b] + Skew

Least(a, b) == IF a < b THEN a ELSE b

\* min(burst, tokens + elapsed*rate)
Refilled(t, elapsed) == Least(Burst, t + elapsed * Rate)

\* Mutant: the wait is rounded down.
MutRetryAfter(missing) == missing \div Rate

\* ceil(missing / rate)
RetryAfter(missing) == (missing + Rate - 1) \div Rate

\* The most that can be due to callers at one moment.
Cap == Burst + Rate * Skew

\* A bucket that lapses would have been full by then.  Validate does not ask for it.
RefillsInWindow(b) == Rate * (Window[b] - 2 * Skew) >= Burst

\* The meter of b when a call finds it lapsed, or it is removed as lapsed: a bucket that
\* lapses before it could be full again has its budget back, and no other.
Metered(b, lapsed, m) == IF lapsed /\ ~RefillsInWindow(b) THEN Cap ELSE m

NoPromise == [wait |-> 0, cost |-> 0]
Promise == [wait : Nat, cost : {0} \cup Cost]
=============================================================================
