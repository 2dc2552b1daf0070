------------------------------ MODULE Entries ------------------------------
(***************************************************************************)
(* Keys, values and answers of the store interface (store/store.go).       *)
(* Values are byte strings; IncrementWithTTL tells the decimal numbers     *)
(* among them from the rest, and int64 has a largest and a least one.      *)
(***************************************************************************)
EXTENDS Integers, FiniteSets

CONSTANTS
  Key,
  Top,          \* the largest number an int64 holds
  LongestTTL,
  Second,       \* the length of a second
  MaxEntries    \* of the memory store

ASSUME EntriesAssumption ==
  /\ IsFiniteSet(Key) /\ Key # {}
  /\ Top \in Nat
  /\ LongestTTL \in Nat \ {0}
  /\ Second \in Nat \ {0}
  /\ MaxEntries \in Nat \ {0}

Lowest == -Top - 1          \* the least number an int64 holds
Text == Top + 1             \* a value that is no number
Value == 0 .. Text          \* what callers store: nobody stores a negative number,
Held == Lowest .. Text      \* though a counter may become one
TTL == 1 .. LongestTTL
Delta == Lowest .. Top

Absent == Top + 2           \* no such key; ErrNotFound
Failed == Top + 3           \* any other error
No == 0
Yes == 1

Answer == [op : {"none", "Get", "Set", "Delete", "GetDel", "SetNX", "Touch",
                 "CompareAndDelete", "CompareAndTouch", "IncrementWithTTL"},
           res : Lowest .. Failed]

Idle == [op |-> "none", res |-> No]

\* Is current + delta a counter, where least is the least one the store takes?
Countable(current, delta, least) == current # Text /\ current + delta \in least .. Top

\* A TTL in whole units, and one at least.
InUnits(ttl, unit) == IF ttl < unit THEN unit ELSE ttl - (ttl % unit)

Number(current) == IF current = Absent THEN 0 ELSE current
=============================================================================
