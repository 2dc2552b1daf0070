------------------------------ MODULE TTLStore ------------------------------
(***************************************************************************)
(* What the engine takes the key-value part of a store to be: keys that    *)
(* vanish when their time is up, and operations that take effect at one    *)
(* instant.  Stores may differ in five ways: a bounded one gives up the    *)
(* key nearest its end for a new one; IncrementWithTTL renews a counter's  *)
(* life or leaves it, and counts below zero or does not; Touch keeps whole *)
(* units of time; and an answer may get lost on its way.                   *)
(***************************************************************************)
EXTENDS Entries

CONSTANTS Capacity, Sliding, Least, Unit, Lossy

VARIABLES
  db,       \* db[k]: the value of k, or Absent
  left,     \* left[k]: time to the end of k
  answer    \* what the last operation told its caller

vars == <<db, left, answer>>

Live == {k \in Key : db[k] # Absent}

Init == /\ db = [k \in Key |-> Absent]
        /\ left = [k \in Key |-> 0]
        /\ answer = Idle

Tells(op, res) ==
  /\ answer'.op = op
  /\ answer'.res = res \/ (Lossy /\ answer'.res = Failed)

\* What may be lost when k is stored: nothing, unless the store is full of live keys.
Losses(k) ==
  IF k \in Live \/ Cardinality(Live) < Capacity THEN {{}}
  ELSE {{o} : o \in {o \in Live : \A p \in Live : left[o] <= left[p]}}

Put(k, v, ttl) ==
  \E gone \in Losses(k) :
    /\ db' = [j \in Key |-> IF j = k THEN v ELSE IF j \in gone THEN Absent ELSE db[j]]
    /\ left' = [j \in Key |-> IF j = k THEN ttl ELSE IF j \in gone THEN 0 ELSE left[j]]

Remove(k) == db' = [db EXCEPT ![k] = Absent] /\ left' = [left EXCEPT ![k] = 0]
Extend(k, ttl) == left' = [left EXCEPT ![k] = ttl] /\ UNCHANGED db
Nothing == UNCHANGED <<db, left>>

-----------------------------------------------------------------------------

Get(k) == Tells("Get", db[k]) /\ Nothing

Set(k, v, ttl) == Tells("Set", Yes) /\ Put(k, v, ttl)

Delete(k) == Tells("Delete", Yes) /\ Remove(k)

GetDel(k) == Tells("GetDel", db[k]) /\ Remove(k)

SetNX(k, v, ttl) ==
  \/ Tells("SetNX", Yes) /\ db[k] = Absent /\ Put(k, v, ttl)
  \/ Tells("SetNX", No) /\ db[k] # Absent /\ Nothing

Touch(k, ttl) ==
  \/ Tells("Touch", Yes) /\ db[k] # Absent /\ Extend(k, InUnits(ttl, Unit))
  \/ Tells("Touch", Absent) /\ db[k] = Absent /\ Nothing

CompareAndDelete(k, expected) ==
  \/ Tells("CompareAndDelete", Yes) /\ db[k] = expected /\ Remove(k)
  \/ Tells("CompareAndDelete", No) /\ db[k] # expected /\ Nothing

CompareAndTouch(k, expected, ttl) ==
  \/ Tells("CompareAndTouch", Yes) /\ db[k] = expected /\ Extend(k, ttl)
  \/ Tells("CompareAndTouch", No) /\ db[k] # expected /\ Nothing

IncrementWithTTL(k, delta, ttl) ==
  \/ /\ Countable(Number(db[k]), delta, Least)
     /\ Tells("IncrementWithTTL", Number(db[k]) + delta)
     /\ Put(k, Number(db[k]) + delta, IF db[k] = Absent \/ Sliding THEN ttl ELSE left[k])
  \/ ~Countable(Number(db[k]), delta, Least) /\ Tells("IncrementWithTTL", Failed) /\ Nothing

\* A call that never reaches the data (a bad argument, a closed or unreachable store),
\* or one that does not concern it.
Refuse == answer' \in {Idle, [op |-> "none", res |-> Failed]} /\ Nothing

Tick ==
  /\ answer' = Idle
  /\ db' = [k \in Key |-> IF left[k] <= 1 THEN Absent ELSE db[k]]
  /\ left' = [k \in Key |-> IF left[k] = 0 THEN 0 ELSE left[k] - 1]

Next ==
  \/ \E k \in Key : Get(k) \/ Delete(k) \/ GetDel(k)
  \/ \E k \in Key, v \in Value, ttl \in TTL : Set(k, v, ttl) \/ SetNX(k, v, ttl) \/ CompareAndTouch(k, v, ttl)
  \/ \E k \in Key, v \in Value : CompareAndDelete(k, v)
  \/ \E k \in Key, ttl \in TTL : Touch(k, ttl)
  \/ \E k \in Key, delta \in Delta, ttl \in TTL : IncrementWithTTL(k, delta, ttl)
  \/ Refuse
  \/ Tick

Spec == Init /\ [][Next]_vars
=============================================================================
