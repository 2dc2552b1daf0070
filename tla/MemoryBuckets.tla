--------------------------- MODULE MemoryBuckets ---------------------------
(***************************************************************************)
(* The token buckets of MemoryStore (store/memory.go): a bounded map,      *)
(* beside that of the entries, of buckets that are refilled when they are  *)
(* used.                                                                   *)
(***************************************************************************)
EXTENDS Buckets

VARIABLES
  stored,     \* buckets in the map, lapsed ones included
  tokens,
  age,        \* time since updatedAt
  left,       \* time to expiresAt, which a late caller may still find ahead
  meter,      \* history: what calls may still get by the rule, kept up at every Tick
  promise,    \* history: the wait the last caller was given, and what it came for
  last        \* the last call: had its promise come due, and was it granted?

vars == <<stored, tokens, age, left, meter, promise, last>>

BucketsTypeOK ==
  /\ stored \in SUBSET Bucket
  /\ tokens \in [Bucket -> 0 .. Burst]
  /\ age \in [Bucket -> Nat]
  /\ left \in [Bucket -> Int]
  /\ \A b \in Bucket : age[b] <= MaxAge(b) /\ left[b] \in -Skew .. Window[b]
  /\ meter \in [Bucket -> Int]
  /\ promise \in [Bucket -> Promise]
  /\ last \in [due : BOOLEAN, granted : BOOLEAN]

Init ==
  /\ stored = {}
  /\ tokens = [b \in Bucket |-> 0]
  /\ age = [b \in Bucket |-> 0]
  /\ left = [b \in Bucket |-> 0]
  /\ meter = [b \in Bucket |-> Cap]
  /\ promise = [b \in Bucket |-> NoPromise]
  /\ last = [due |-> FALSE, granted |-> FALSE]

\* expireLocked, by the caller's time.
Unexpired(lag) == {b \in stored : left[b] > -lag}

\* evictOldestBucketLocked
EvictedFrom(keys) == {keys \ {o} : o \in {o \in keys : \A p \in keys : age[o] >= age[p]}}

\* The buckets that stay when b is used.
Room(b, lag) ==
  IF b \in stored \/ Cardinality(stored) < MaxBuckets THEN {stored}
  ELSE IF Cardinality(Unexpired(lag)) >= MaxBuckets THEN EvictedFrom(Unexpired(lag))
  ELSE {Unexpired(lag)}

Fresh(b, lag) == b \notin stored \/ left[b] <= -lag

Available(b, lag) ==
  IF Fresh(b, lag) THEN Burst
  ELSE IF age[b] > lag THEN Refilled(tokens[b], age[b] - lag) ELSE tokens[b]

\* Mutant: what was refilled is refilled again.
MutUpdatedAge(b, lag) == IF Fresh(b, lag) THEN lag ELSE age[b]

\* A caller who is behind the bucket does not set it back.
UpdatedAge(b, lag) == IF Fresh(b, lag) \/ age[b] > lag THEN lag ELSE age[b]

\* The wait that b's last caller was told is over, for a call that Burst can pay for: one
\* that costs more is told a wait as well, and is never granted.
Due(b, cost, lag) ==
  /\ promise[b] # NoPromise /\ cost <= promise[b].cost /\ cost <= Burst
  /\ age[b] - lag >= promise[b].wait

ConsumeToken(b, cost, lag) ==
  LET t == Available(b, lag)
      granted == t >= cost
      budget == Metered(b, Fresh(b, lag), meter[b])
  IN  \E kept \in Room(b, lag) :
        LET evicted == Unexpired(lag) \ (kept \cup {b})
        IN
        /\ stored' = kept \cup {b}
        /\ tokens' = [j \in Bucket |-> IF j = b THEN (IF granted THEN t - cost ELSE t)
                                       ELSE IF j \in kept THEN tokens[j] ELSE 0]
        /\ age' = [j \in Bucket |-> IF j = b THEN UpdatedAge(b, lag) ELSE IF j \in kept THEN age[j] ELSE 0]
        /\ left' = [j \in Bucket |-> IF j = b THEN Window[b] - lag ELSE IF j \in kept THEN left[j] ELSE 0]
        /\ meter' = [j \in Bucket |-> IF j = b THEN (IF granted THEN budget - cost ELSE budget)
                                      ELSE IF j \in evicted THEN Cap ELSE Metered(j, j \notin kept, meter[j])]
        /\ promise' = [j \in Bucket |->
              IF j = b THEN (IF granted THEN NoPromise ELSE [wait |-> RetryAfter(cost - t), cost |-> cost])
              ELSE IF j \in kept THEN promise[j] ELSE NoPromise]
        /\ last' = [due |-> Due(b, cost, lag), granted |-> granted]

\* The janitor's expireLocked, by the store's time.
janitor ==
  LET kept == Unexpired(0)
  IN  /\ stored' = kept
      /\ tokens' = [b \in Bucket |-> IF b \in kept THEN tokens[b] ELSE 0]
      /\ age' = [b \in Bucket |-> IF b \in kept THEN age[b] ELSE 0]
      /\ left' = [b \in Bucket |-> IF b \in kept THEN left[b] ELSE 0]
      /\ meter' = [b \in Bucket |-> Metered(b, b \notin kept, meter[b])]
      /\ promise' = [b \in Bucket |-> IF b \in kept THEN promise[b] ELSE NoPromise]
      /\ UNCHANGED last

Tick ==
  /\ age' = [b \in Bucket |-> IF b \in stored THEN Least(age[b] + 1, MaxAge(b)) ELSE 0]
  /\ left' = [b \in Bucket |-> IF b \in stored /\ left[b] > -Skew THEN left[b] - 1 ELSE left[b]]
  /\ meter' = [b \in Bucket |-> Least(meter[b] + Rate, Cap)]
  /\ last' = [due |-> FALSE, granted |-> FALSE]
  /\ UNCHANGED <<stored, tokens, promise>>

Next ==
  \/ \E b \in Bucket, cost \in Cost, lag \in Lag : ConsumeToken(b, cost, lag)
  \/ janitor
  \/ Tick

Spec == Init /\ [][Next]_vars

-----------------------------------------------------------------------------

\* The map of buckets stays within MaxEntries, whichever calls make room (ConsumeToken).
Bounded == Cardinality(stored) <= MaxBuckets

\* In any stretch of time a bucket that is not evicted grants no more than Burst and
\* Rate for every unit of it, and of the callers' lag: lazy refills, denied calls in
\* between and late callers included (ConsumeToken).  The stretch may go over any number
\* of lapses where a bucket that lapses would have been full (RefillsInWindow); where it
\* would not, which Validate lets pass, the stretch ends when the bucket lapses.
WithinBudget == \A b \in Bucket : meter[b] >= 0

\* A caller who was turned away and comes back when the wait it was given is over, by
\* the bucket's time, gets what it came for unless another call came in between
\* (ConsumeToken: the wait is rounded up, the refill is not lost), as long as it came for
\* no more than Burst.
RetryHonest == last.due => last.granted
=============================================================================
