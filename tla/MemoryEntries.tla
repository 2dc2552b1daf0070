--------------------------- MODULE MemoryEntries ---------------------------
(***************************************************************************)
(* The entries of MemoryStore (store/memory.go): a bounded map from which  *)
(* lapsed entries are removed when somebody comes across them.  An         *)
(* operation is one critical section of mu, except Get, which gives its    *)
(* read lock up before it removes a lapsed entry.  How the janitor and     *)
(* Close get along is the subject of MemoryClose.                          *)
(***************************************************************************)
EXTENDS Entries

VARIABLES
  entries,    \* entries[k]: the value in the map, lapsed or not, or Absent
  left,       \* time to expiresAt, 0 once it has passed
  rereads,    \* keys that some Get found lapsed and has not come back to yet
  closed,
  answer

vars == <<entries, left, rereads, closed, answer>>
lifeVars == <<rereads, closed>>

Stored == {k \in Key : entries[k] # Absent}
Live == {k \in Stored : left[k] > 0}

EntriesTypeOK ==
  /\ entries \in [Key -> Value \cup {Absent}]
  /\ left \in [Key -> 0 .. LongestTTL]
  /\ rereads \in SUBSET Key
  /\ closed \in BOOLEAN
  /\ answer \in Answer

Init ==
  /\ entries = [k \in Key |-> Absent]
  /\ left = [k \in Key |-> 0]
  /\ rereads = {} /\ closed = FALSE
  /\ answer = Idle

Tells(op, res) == answer' = [op |-> op, res |-> res]

\* What remains of the map: the keys of kept.
Keep(kept) ==
  /\ entries' = [k \in Key |-> IF k \in kept THEN entries[k] ELSE Absent]
  /\ left' = [k \in Key |-> IF k \in kept THEN left[k] ELSE 0]

Same == UNCHANGED <<entries, left>>

-----------------------------------------------------------------------------

\* expireLocked
Unexpired == Live

\* evictOldestEntryLocked: what is left of these keys, the order of a map being random.
EvictedFrom(keys) ==
  {keys \ {o} : o \in {o \in keys : \A p \in keys : left[o] <= left[p]}}

\* Mutant: the map may hold one entry too many.
MutIsFull(k) == k \notin Stored /\ Cardinality(Stored) > MaxEntries

IsFull(k) == k \notin Stored /\ Cardinality(Stored) >= MaxEntries

\* The keys that stay when k is stored.
Room(k) ==
  IF ~IsFull(k) THEN {Stored}
  ELSE IF Cardinality(Unexpired) >= MaxEntries THEN EvictedFrom(Unexpired)
  ELSE {Unexpired}

Store(k, v, ttl) ==
  \E kept \in Room(k) :
    /\ entries' = [j \in Key |-> IF j = k THEN v ELSE IF j \in kept THEN entries[j] ELSE Absent]
    /\ left' = [j \in Key |-> IF j = k THEN ttl ELSE IF j \in kept THEN left[j] ELSE 0]

\* Under the read lock.  A lapsed entry is remembered for later.
Get(k) ==
  /\ ~closed
  /\ rereads' = IF k \in Stored \ Live THEN rereads \cup {k} ELSE rereads
  /\ Tells("Get", IF k \in Live THEN entries[k] ELSE Absent)
  /\ Same /\ UNCHANGED closed

\* Mutant: Get trusts what it saw under the read lock.
MutStillLapsed(k) == k \in Stored

StillLapsed(k) == k \in Stored \ Live

\* Get again, under the write lock, if the store is still open.  Another Get may be
\* coming back for the same key.
GetRemoves(k) ==
  /\ k \in rereads
  /\ Keep(IF ~closed /\ StillLapsed(k) THEN Stored \ {k} ELSE Stored)
  /\ rereads' \in {rereads, rereads \ {k}}
  /\ UNCHANGED <<closed, answer>>

Set(k, v, ttl) ==
  /\ ~closed
  /\ Store(k, v, ttl)
  /\ Tells("Set", Yes) /\ UNCHANGED lifeVars

Delete(k) ==
  /\ ~closed
  /\ Keep(Stored \ {k})
  /\ Tells("Delete", Yes) /\ UNCHANGED lifeVars

GetDel(k) ==
  /\ ~closed
  /\ Keep(Stored \ {k})
  /\ Tells("GetDel", IF k \in Live THEN entries[k] ELSE Absent) /\ UNCHANGED lifeVars

SetNX(k, v, ttl) ==
  /\ ~closed
  /\ \/ k \in Live /\ Same /\ Tells("SetNX", No)
     \/ k \notin Live /\ Store(k, v, ttl) /\ Tells("SetNX", Yes)
  /\ UNCHANGED lifeVars

CompareAndDelete(k, expected) ==
  /\ ~closed
  /\ LET equal == k \in Live /\ entries[k] = expected
     IN  /\ Keep(IF equal \/ k \notin Live THEN Stored \ {k} ELSE Stored)
         /\ Tells("CompareAndDelete", IF equal THEN Yes ELSE No)
  /\ UNCHANGED lifeVars

\* A lapsed entry is left where it is.
CompareAndTouch(k, expected, ttl) ==
  /\ ~closed
  /\ LET equal == k \in Live /\ entries[k] = expected
     IN  /\ left' = IF equal THEN [left EXCEPT ![k] = ttl] ELSE left
         /\ Tells("CompareAndTouch", IF equal THEN Yes ELSE No)
  /\ UNCHANGED <<entries, lifeVars>>

Touch(k, ttl) ==
  /\ ~closed
  /\ \/ /\ k \in Live
        /\ left' = [left EXCEPT ![k] = ttl] /\ UNCHANGED entries
        /\ Tells("Touch", Yes)
     \/ k \notin Live /\ Keep(Stored \ {k}) /\ Tells("Touch", Absent)
  /\ UNCHANGED lifeVars

\* Every increment gives the counter a new life.  A sum that is negative, or became so
\* past the largest int64, is refused.
IncrementWithTTL(k, delta, ttl) ==
  /\ ~closed
  /\ LET current == IF k \in Live THEN entries[k] ELSE 0
     IN  \/ /\ Countable(current, delta, 0)
            /\ Store(k, current + delta, ttl)
            /\ Tells("IncrementWithTTL", current + delta)
         \/ /\ ~Countable(current, delta, 0)
            /\ Keep(IF k \in Live THEN Stored ELSE Stored \ {k})
            /\ Tells("IncrementWithTTL", Failed)
  /\ UNCHANGED lifeVars

\* validate, a TTL that is not positive, or a closed store.
Refuse == Same /\ answer' = [op |-> "none", res |-> Failed] /\ UNCHANGED lifeVars

-----------------------------------------------------------------------------
\* The janitor's expireLocked.
janitor == ~closed /\ Keep(Unexpired) /\ UNCHANGED <<lifeVars, answer>>

Close == ~closed /\ closed' = TRUE /\ answer' = Idle /\ Same /\ UNCHANGED rereads

Tick ==
  /\ left' = [k \in Key |-> IF left[k] = 0 THEN 0 ELSE left[k] - 1]
  /\ answer' = Idle
  /\ UNCHANGED <<entries, lifeVars>>

Next ==
  \/ \E k \in Key : Get(k) \/ GetRemoves(k) \/ Delete(k) \/ GetDel(k)
  \/ \E k \in Key, v \in Value, ttl \in TTL : Set(k, v, ttl) \/ SetNX(k, v, ttl) \/ CompareAndTouch(k, v, ttl)
  \/ \E k \in Key, v \in Value : CompareAndDelete(k, v)
  \/ \E k \in Key, ttl \in TTL : Touch(k, ttl)
  \/ \E k \in Key, delta \in Delta, ttl \in TTL : IncrementWithTTL(k, delta, ttl)
  \/ Refuse
  \/ janitor
  \/ Close
  \/ Tick

Spec == Init /\ [][Next]_vars

-----------------------------------------------------------------------------

\* The map never outgrows MaxEntries, whichever operation inserts (Set, SetNX,
\* IncrementWithTTL).
Bounded == Cardinality(Stored) <= MaxEntries

\* The lazily cleaned map implements the store of keys that vanish by themselves: a
\* lapsed entry is never seen, the removal of one never hits a value stored since
\* (Get), and a live key is given up only when the store is full of live ones.
Abstract == INSTANCE TTLStore
  WITH Capacity <- MaxEntries, Sliding <- TRUE, Least <- 0, Unit <- 1, Lossy <- FALSE,
       db <- [k \in Key |-> IF k \in Live THEN entries[k] ELSE Absent],
       left <- [k \in Key |-> IF k \in Live THEN left[k] ELSE 0]
RefinesStore == Abstract!Spec
=============================================================================
