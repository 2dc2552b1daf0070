------------------------- MODULE MemoryReservations -------------------------
(***************************************************************************)
(* The reservations of one namespace of MemoryStore (store/memory.go).     *)
(* Lapsed reservations stay in the map until the janitor, or a recount of  *)
(* a namespace that looks full, removes them; a counter per namespace      *)
(* saves counting the map on every call.  Each call runs under the store's *)
(* mutex, hence in one step.  An expiry is kept as the time left to it.    *)
(***************************************************************************)
EXTENDS Reservations

VARIABLES
  reservations,   \* sessions in the map, lapsed ones included
  left,           \* left[s]: time to the expiry of s, 0 once it has lapsed
  count,          \* counts[namespace]
  answer          \* what the last call returned

vars == <<reservations, left, count, answer>>

Live == {s \in reservations : left[s] > 0}

TypeOK ==
  /\ reservations \in SUBSET SID
  /\ left \in [SID -> 0 .. MaxTTL]
  /\ count \in Nat
  /\ answer \in {"none", "granted", "refused"}

Init == /\ reservations = {}
        /\ left = [s \in SID |-> 0]
        /\ count = 0
        /\ answer = "none"

-----------------------------------------------------------------------------

\* Mutant: the new lifetime is added to the old one.
MutRenew(s, ttl) ==
  /\ s \in reservations
  /\ left' = [left EXCEPT ![s] = @ + ttl]
  /\ answer' = "granted"
  /\ UNCHANGED <<reservations, count>>

\* A known session is only re-dated.
Renew(s, ttl) ==
  /\ s \in reservations
  /\ left' = [left EXCEPT ![s] = ttl]
  /\ answer' = "granted"
  /\ UNCHANGED <<reservations, count>>

\* Mutant: the limit itself is let pass.
MutLooksFull == count > Limit

LooksFull == count >= Limit

\* Room by the counter alone: the map is not looked at.
Add(s, ttl) ==
  /\ s \notin reservations
  /\ ~LooksFull
  /\ reservations' = reservations \cup {s}
  /\ left' = [left EXCEPT ![s] = ttl]
  /\ count' = count + 1
  /\ answer' = "granted"

\* Mutant: the namespace is not recounted, and what looks full is full.
MutRecount == reservations

\* countReservationsInNamespaceLocked: what is left after the lapsed ones are dropped.
Recount == Live

AddAfterRecount(s, ttl) ==
  /\ s \notin reservations
  /\ LooksFull
  /\ Cardinality(Recount) < Limit
  /\ reservations' = Recount \cup {s}
  /\ left' = [left EXCEPT ![s] = ttl]
  /\ count' = Cardinality(Recount) + 1
  /\ answer' = "granted"

Refuse(s) ==
  /\ s \notin reservations
  /\ LooksFull
  /\ Cardinality(Recount) >= Limit
  /\ reservations' = Recount
  /\ count' = Cardinality(Recount)
  /\ answer' = "refused"
  /\ UNCHANGED left

ReserveSession(s, ttl) == Renew(s, ttl) \/ Add(s, ttl) \/ AddAfterRecount(s, ttl) \/ Refuse(s)

\* Mutant: a release that finds nothing still counts down.
MutReleaseSession(s) ==
  /\ reservations' = reservations \ {s}
  /\ count' = IF count > 0 THEN count - 1 ELSE 0
  /\ answer' = "none"
  /\ UNCHANGED left

ReleaseSession(s) ==
  /\ s \in reservations
  /\ reservations' = reservations \ {s}
  /\ count' = IF count > 0 THEN count - 1 ELSE 0
  /\ answer' = "none"
  /\ UNCHANGED left

\* The counter is left alone, although the new id may have been in the map already.
MoveSessionReservation(old, new, ttl) ==
  /\ old \in reservations
  /\ reservations' = (reservations \ {old}) \cup {new}
  /\ left' = [left EXCEPT ![new] = ttl]
  /\ answer' = "none"
  /\ UNCHANGED count

\* The janitor: one count down for every entry dropped, never below zero.
purgeReservationsLocked ==
  LET gone == Cardinality(reservations \ Live)
  IN  /\ reservations' = Live
      /\ count' = IF count > gone THEN count - gone ELSE 0
      /\ answer' = "none"
      /\ UNCHANGED left

Tick ==
  /\ left' = [s \in SID |-> IF left[s] > 0 THEN left[s] - 1 ELSE 0]
  /\ answer' = "none"
  /\ UNCHANGED <<reservations, count>>

Next ==
  \/ \E s \in SID, ttl \in 0 .. MaxTTL : ReserveSession(s, ttl)
  \/ \E s \in SID : ReleaseSession(s)
  \/ \E old, new \in SID, ttl \in 0 .. MaxTTL : MoveSessionReservation(old, new, ttl)
  \/ purgeReservationsLocked
  \/ Tick

Spec == Init /\ [][Next]_vars

-----------------------------------------------------------------------------

\* The counter may run ahead of the map (a move onto a known id) but never behind
\* it, so "not full" by the counter is never wrong (ReserveSession).
CountCovers == Cardinality(reservations) <= count

\* At most Limit sessions hold an unexpired reservation (ReserveSession).
WithinLimit == Cardinality(Live) <= Limit

\* The lazily purged map and its counter implement the pool: in particular no
\* session is refused while an unexpired slot is to be had.
Pool == INSTANCE ReservationPool WITH held <- Live
RefinesPool == Pool!Spec
=============================================================================
