---------------------------- MODULE RedisEntries ----------------------------
(***************************************************************************)
(* The entries of RedisStore (store/redis.go).  Commands and scripts run   *)
(* one at a time in the server, which keeps the time.  A command may be    *)
(* carried out and its answer lost; mapErr makes ErrStoreUnavailable of    *)
(* that.  The client library may send such a command again (MaxRetries),   *)
(* which is a command like any other to the server.                        *)
(***************************************************************************)
EXTENDS Entries

VARIABLES
  keys,     \* keys[k]: the value in the server, or Absent
  pttl,     \* pttl[k]: what PTTL would say, 0 for an absent key
  answer

vars == <<keys, pttl, answer>>

RedisTypeOK ==
  /\ keys \in [Key -> Held \cup {Absent}]
  /\ pttl \in [Key -> 0 .. LongestTTL]
  /\ answer \in Answer

Init == /\ keys = [k \in Key |-> Absent]
        /\ pttl = [k \in Key |-> 0]
        /\ answer = Idle

\* The answer, or mapErr of what went wrong with it.
Tells(op, res) == \E r \in {res, Failed} : answer' = [op |-> op, res |-> r]

SET(k, v, ttl) == keys' = [keys EXCEPT ![k] = v] /\ pttl' = [pttl EXCEPT ![k] = ttl]
DEL(k) == keys' = [keys EXCEPT ![k] = Absent] /\ pttl' = [pttl EXCEPT ![k] = 0]
PEXPIRE(k, ttl) == pttl' = [pttl EXCEPT ![k] = ttl] /\ UNCHANGED keys

Get(k) == UNCHANGED <<keys, pttl>> /\ Tells("Get", keys[k])

Set(k, v, ttl) == SET(k, v, ttl) /\ Tells("Set", Yes)

Delete(k) == DEL(k) /\ Tells("Delete", Yes)

\* Mutant: the value is handed out and stays.
MutGetDel(k) == UNCHANGED <<keys, pttl>> /\ Tells("GetDel", keys[k])

GetDel(k) == DEL(k) /\ Tells("GetDel", keys[k])

SetNX(k, v, ttl) ==
  IF keys[k] = Absent THEN SET(k, v, ttl) /\ Tells("SetNX", Yes)
                      ELSE UNCHANGED <<keys, pttl>> /\ Tells("SetNX", No)

\* INCRBY, which counts below zero, then a TTL if the key has none: the counter was not there before.
IncrementWithTTL(k, delta, ttl) ==
  LET value == Number(keys[k]) + delta
  IN  IF Countable(Number(keys[k]), delta, Lowest)
      THEN SET(k, value, IF pttl[k] = 0 THEN ttl ELSE pttl[k]) /\ Tells("IncrementWithTTL", value)
      ELSE UNCHANGED <<keys, pttl>> /\ Tells("IncrementWithTTL", Failed)

CompareAndDelete(k, expected) ==
  IF keys[k] = expected THEN DEL(k) /\ Tells("CompareAndDelete", Yes)
                        ELSE UNCHANGED <<keys, pttl>> /\ Tells("CompareAndDelete", No)

CompareAndTouch(k, expected, ttl) ==
  IF keys[k] = expected THEN PEXPIRE(k, ttl) /\ Tells("CompareAndTouch", Yes)
                        ELSE UNCHANGED <<keys, pttl>> /\ Tells("CompareAndTouch", No)

\* EXPIRE, to which the client library gives whole seconds.
Touch(k, ttl) ==
  IF keys[k] # Absent THEN PEXPIRE(k, InUnits(ttl, Second)) /\ Tells("Touch", Yes)
                      ELSE UNCHANGED <<keys, pttl>> /\ Tells("Touch", Absent)

\* A bad argument, a closed client, or a server out of reach.
Refuse == UNCHANGED <<keys, pttl>> /\ answer' = [op |-> "none", res |-> Failed]

Tick ==
  /\ keys' = [k \in Key |-> IF pttl[k] > 1 THEN keys[k] ELSE Absent]
  /\ pttl' = [k \in Key |-> IF pttl[k] > 1 THEN pttl[k] - 1 ELSE 0]
  /\ answer' = Idle

Next ==
  \/ \E k \in Key : Get(k) \/ Delete(k) \/ GetDel(k)
  \/ \E k \in Key, v \in Value, ttl \in TTL : Set(k, v, ttl) \/ SetNX(k, v, ttl) \/ CompareAndTouch(k, v, ttl)
  \/ \E k \in Key, v \in Value : CompareAndDelete(k, v)
  \/ \E k \in Key, ttl \in TTL : Touch(k, ttl)
  \/ \E k \in Key, delta \in Delta, ttl \in TTL : IncrementWithTTL(k, delta, ttl)
  \/ Refuse
  \/ Tick

Spec == Init /\ [][Next]_vars

-----------------------------------------------------------------------------

\* Commands and scripts implement the store the memory store implements, with room
\* for every key, counters that may be negative and end a TTL after their first
\* increment, Touch in whole seconds, and answers that may be lost.
Abstract == INSTANCE TTLStore
  WITH Capacity <- Cardinality(Key), Sliding <- FALSE, Least <- Lowest, Unit <- Second, Lossy <- TRUE,
       db <- keys, left <- pttl
RefinesStore == Abstract!Spec
=============================================================================
