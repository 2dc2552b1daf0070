-------------------------- MODULE RedisReservations --------------------------
(***************************************************************************)
(* The reservations of one namespace of RedisStore (store/redis.go): a     *)
(* sorted set scored by expiry.  Scripts run atomically in the server, and *)
(* the script that reserves drops what has lapsed by the server's own      *)
(* clock before it looks.  The caller's clock, by which the score was      *)
(* computed, may be off: any score may turn up for the time the caller     *)
(* meant.  A score is kept as the server's time left to it.                *)
(***************************************************************************)
EXTENDS Reservations

VARIABLES
  zset,      \* members of the sorted set
  left,      \* left[s]: server time to the score of s, 0 once it has lapsed
  answer

vars == <<zset, left, answer>>

Live == {s \in zset : left[s] > 0}

TypeOK ==
  /\ zset \in SUBSET SID
  /\ left \in [SID -> 0 .. MaxTTL]
  /\ answer \in {"none", "granted", "refused"}

Init == zset = {} /\ left = [s \in SID |-> 0] /\ answer = "none"

\* ZREMRANGEBYSCORE '-inf' now.
Purged == Live

\* Mutant: one member too many.
MutFits(s) == s \in Purged \/ Cardinality(Purged) <= Limit

Fits(s) == s \in Purged \/ Cardinality(Purged) < Limit

luaReserveSession(s, ttl) ==
  /\ Fits(s)
  /\ zset' = Purged \cup {s}
  /\ left' = [left EXCEPT ![s] = ttl]
  /\ answer' = "granted"

luaReserveRefused(s) ==
  /\ ~Fits(s)
  /\ zset' = Purged
  /\ answer' = "refused"
  /\ UNCHANGED left

ReleaseSession(s) ==
  /\ s \in zset
  /\ zset' = zset \ {s}
  /\ answer' = "none"
  /\ UNCHANGED left

\* ZREM first; a session that is not there is not moved.  Nothing is purged.
luaMoveSessionReservation(old, new, ttl) ==
  /\ old \in zset
  /\ zset' = (zset \ {old}) \cup {new}
  /\ left' = [left EXCEPT ![new] = ttl]
  /\ answer' = "none"

Tick ==
  /\ left' = [s \in SID |-> IF left[s] > 0 THEN left[s] - 1 ELSE 0]
  /\ answer' = "none"
  /\ UNCHANGED zset

Next ==
  \/ \E s \in SID, ttl \in 0 .. MaxTTL : luaReserveSession(s, ttl)
  \/ \E s \in SID : luaReserveRefused(s) \/ ReleaseSession(s)
  \/ \E old, new \in SID, ttl \in 0 .. MaxTTL : luaMoveSessionReservation(old, new, ttl)
  \/ Tick

Spec == Init /\ [][Next]_vars

-----------------------------------------------------------------------------

\* The sorted set never grows past the limit, lapsed members included: a move
\* cannot bring a lapsed slot back to life beyond it (luaMoveSessionReservation).
SetWithinLimit == Cardinality(zset) <= Limit

\* The scripts implement the pool, by the server's clock.
Pool == INSTANCE ReservationPool WITH held <- Live
RefinesPool == Pool!Spec
=============================================================================
