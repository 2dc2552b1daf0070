---------------------------- MODULE RedisBuckets ----------------------------
(***************************************************************************)
(* The token buckets of RedisStore (store/redis.go), a script that runs    *)
(* atomically in the server.  The bucket's time is that of whichever       *)
(* caller came last; its TTL is counted by the server.  Buckets do not     *)
(* touch one another.                                                      *)
(***************************************************************************)
EXTENDS Buckets

VARIABLES
  tokens,
  age,        \* time since the stamp in the value, 0 for an absent key
  pttl,       \* 0 for an absent key
  meter,      \* history: see MemoryBuckets
  promise,
  last

vars == <<tokens, age, pttl, meter, promise, last>>

RedisBucketsTypeOK ==
  /\ tokens \in [Bucket -> 0 .. Burst]
  /\ age \in [Bucket -> Nat]
  /\ pttl \in [Bucket -> Nat]
  /\ \A b \in Bucket : age[b] <= MaxAge(b) /\ pttl[b] <= Window[b]
  /\ meter \in [Bucket -> Int]
  /\ promise \in [Bucket -> Promise]
  /\ last \in [due : BOOLEAN, granted : BOOLEAN]

Init ==
  /\ tokens = [b \in Bucket |-> 0]
  /\ age = [b \in Bucket |-> 0]
  /\ pttl = [b \in Bucket |-> 0]
  /\ meter = [b \in Bucket |-> Cap]
  /\ promise = [b \in Bucket |-> NoPromise]
  /\ last = [due |-> FALSE, granted |-> FALSE]

Elapsed(b, lag) == IF age[b] > lag THEN age[b] - lag ELSE 0

Available(b, lag) == IF pttl[b] = 0 THEN Burst ELSE Refilled(tokens[b], Elapsed(b, lag))

\* Mutant: a denied call refills the bucket but leaves its time.
MutUpdatedAge(b, lag, granted) == IF granted \/ pttl[b] = 0 THEN lag ELSE age[b]

\* The caller's time is stored, whether or not the bucket was ahead of it.
UpdatedAge(b, lag, granted) == lag

\* What a caller who sets the bucket back lets others have once more.
Regained(b, lag) == IF pttl[b] > 0 /\ lag > age[b] THEN Rate * (lag - age[b]) ELSE 0

\* See MemoryBuckets.
Due(b, cost, lag) ==
  /\ promise[b] # NoPromise /\ cost <= promise[b].cost /\ cost <= Burst
  /\ age[b] - lag >= promise[b].wait

luaConsumeToken(b, cost, lag) ==
  LET t == Available(b, lag)
      granted == t >= cost
  IN  /\ tokens' = [tokens EXCEPT ![b] = IF granted THEN t - cost ELSE t]
      /\ age' = [age EXCEPT ![b] = UpdatedAge(b, lag, granted)]
      /\ pttl' = [pttl EXCEPT ![b] = Window[b]]
      /\ meter' = [meter EXCEPT ![b] = Least(@ + Regained(b, lag), Cap) - IF granted THEN cost ELSE 0]
      /\ promise' = [promise EXCEPT ![b] =
           IF granted THEN NoPromise ELSE [wait |-> RetryAfter(cost - t), cost |-> cost]]
      /\ last' = [due |-> Due(b, cost, lag), granted |-> granted]

Tick ==
  LET kept == {b \in Bucket : pttl[b] > 1}
  IN  /\ tokens' = [b \in Bucket |-> IF b \in kept THEN tokens[b] ELSE 0]
      /\ age' = [b \in Bucket |-> IF b \in kept THEN Least(age[b] + 1, MaxAge(b)) ELSE 0]
      /\ pttl' = [b \in Bucket |-> IF b \in kept THEN pttl[b] - 1 ELSE 0]
      /\ meter' = [b \in Bucket |-> Metered(b, b \notin kept, Least(meter[b] + Rate, Cap))]
      /\ promise' = [b \in Bucket |-> IF b \in kept THEN promise[b] ELSE NoPromise]
      /\ last' = [due |-> FALSE, granted |-> FALSE]

Next ==
  \/ \E b \in Bucket, cost \in Cost, lag \in Lag : luaConsumeToken(b, cost, lag)
  \/ Tick

Spec == Init /\ [][Next]_vars

-----------------------------------------------------------------------------

\* In any stretch of time a bucket grants no more than Burst and Rate for every unit of
\* it, and beyond that only what callers whose clocks are behind have set it back by: with
\* clocks in step, nothing (luaConsumeToken).  Lapses are as in MemoryBuckets: the stretch
\* ends with one only where the bucket would not have been full by then.
WithinBudget == \A b \in Bucket : meter[b] >= 0

\* A caller who was turned away and comes back when the wait it was given is over gets
\* what it came for unless another call came in between (luaConsumeToken), as long as it
\* came for no more than Burst.
RetryHonest == last.due => last.granted
=============================================================================
