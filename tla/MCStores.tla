------------------------------ MODULE MCStores ------------------------------
(***************************************************************************)
(* Both stores for TLC.  Reservations, entries and token buckets of a      *)
(* store have nothing to do with one another, and an engine is built on    *)
(* one store (StoreConfig.Type); the end of a memory store is a part of    *)
(* its own.  A behaviour is about one part, and the parts have             *)
(* variables of their own, but for the two kinds of reservations.          *)
(***************************************************************************)
EXTENDS MemoryReservations, Entries, Buckets

CONSTANTS
  User, Closer,
  RedisKey, RedisTTL,                \* keys and longest TTL of the Redis entries
  Lasting, LongWindow, ShortWindow   \* the buckets with the long window, and both

\* The windows of the buckets: a full bucket is not lost by lapsing for one kind of them,
\* and is for the other.
Windows == [b \in Bucket |-> IF b \in Lasting THEN LongWindow ELSE ShortWindow]

\* A goroutine is one thing, and none is a name of a state of the mutex or of closeOnce.
ASSUME GoroutinesAssumption ==
  /\ User \cap Closer = {}
  /\ {"nobody", "janitor", "free", "over"} \cap (User \cup Closer) = {}

\* EXPIRE keeps a TTL of a second at least.
ASSUME RedisAssumption ==
  /\ RedisKey \in SUBSET Key
  /\ RedisTTL \in Nat /\ Second <= RedisTTL

VARIABLES
  part,
  entries, eleft, rereads, closed, eanswer,                 \* MemoryEntries
  keys, kpttl, kanswer,                                     \* RedisEntries
  stored, tokens, age, bleft, meter, promise, last,         \* MemoryBuckets
  rtokens, rage, rpttl, rmeter, rpromise, rlast,            \* RedisBuckets
  mu, user, janitor, once, close, marked, stopped           \* MemoryClose

RR == INSTANCE RedisReservations WITH zset <- reservations
ME == INSTANCE MemoryEntries WITH left <- eleft, answer <- eanswer
RE == INSTANCE RedisEntries WITH Key <- RedisKey, LongestTTL <- RedisTTL, pttl <- kpttl, answer <- kanswer
MB == INSTANCE MemoryBuckets WITH left <- bleft
RB == INSTANCE RedisBuckets
  WITH tokens <- rtokens, age <- rage, pttl <- rpttl, meter <- rmeter, promise <- rpromise, last <- rlast
MC == INSTANCE MemoryClose WITH closed <- marked

eVars == <<entries, eleft, rereads, closed, eanswer>>
kVars == <<keys, kpttl, kanswer>>
bVars == <<stored, tokens, age, bleft, meter, promise, last>>
rVars == <<rtokens, rage, rpttl, rmeter, rpromise, rlast>>
cVars == <<mu, user, janitor, once, close, marked, stopped>>
storesVars == <<part, vars, eVars, kVars, bVars, rVars, cVars>>

StoresInit ==
  /\ Init /\ RR!Init /\ ME!Init /\ RE!Init /\ MB!Init /\ RB!Init /\ MC!Init
  /\ part \in {"memory reservations", "redis reservations", "memory entries", "redis entries",
               "memory buckets", "redis buckets", "memory close"}

StoresNext ==
  /\ UNCHANGED part
  /\ \/ part = "memory reservations" /\ Next /\ UNCHANGED <<eVars, kVars, bVars, rVars, cVars>>
     \/ part = "redis reservations" /\ RR!Next /\ UNCHANGED <<count, eVars, kVars, bVars, rVars, cVars>>
     \/ part = "memory entries" /\ ME!Next /\ UNCHANGED <<vars, kVars, bVars, rVars, cVars>>
     \/ part = "redis entries" /\ RE!Next /\ UNCHANGED <<vars, eVars, bVars, rVars, cVars>>
     \/ part = "memory buckets" /\ MB!Next /\ UNCHANGED <<vars, eVars, kVars, rVars, cVars>>
     \/ part = "redis buckets" /\ RB!Next /\ UNCHANGED <<vars, eVars, kVars, bVars, cVars>>
     \/ part = "memory close" /\ MC!Next /\ UNCHANGED <<vars, eVars, kVars, bVars, rVars>>

\* Fairness is that of MemoryClose, and asks nothing of a store nobody closes.
StoresSpec == StoresInit /\ [][StoresNext]_storesVars /\ MC!Fairness

\* Everything in either store is well typed.
TypesOK ==
  /\ TypeOK /\ RR!TypeOK /\ ME!EntriesTypeOK /\ RE!RedisTypeOK
  /\ MB!BucketsTypeOK /\ RB!RedisBucketsTypeOK /\ MC!CloseTypeOK

\* See CountCovers: the counter of the memory store.
CounterNotBehind == part = "memory reservations" => CountCovers

\* See SetWithinLimit: the sorted set of the Redis store.
SetBounded == part = "redis reservations" => RR!SetWithinLimit

\* See Bounded of MemoryEntries and of MemoryBuckets: the two maps of the memory store.
MapBounded == ME!Bounded /\ MB!Bounded

\* See RefinesStore of MemoryEntries and of RedisEntries: both implement TTLStore.
RefinesStores ==
  /\ ME!Abstract!Init /\ [][part = "memory entries" => ME!Abstract!Next]_(ME!Abstract!vars)
  /\ RE!Abstract!Init /\ [][part = "redis entries" => RE!Abstract!Next]_(RE!Abstract!vars)

\* See WithinBudget of MemoryBuckets and of RedisBuckets.
WithinBudgets == MB!WithinBudget /\ RB!WithinBudget

\* See RetryHonest of MemoryBuckets and of RedisBuckets.
RetriesHonest == MB!RetryHonest /\ RB!RetryHonest

\* See CloseEnds of MemoryClose.
CloseEnds == MC!CloseEnds
=============================================================================
