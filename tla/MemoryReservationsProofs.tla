---------------------- MODULE MemoryReservationsProofs ----------------------
(***************************************************************************)
(* The capacity bound of MemoryStore's reservations, and that they         *)
(* implement ReservationPool, for every limit and every finite set of      *)
(* session ids.                                                            *)
(***************************************************************************)
EXTENDS MemoryReservations, FiniteSetTheorems, TLAPS

\* The counter lies between the size of the map and the limit.
Inv == TypeOK /\ CountCovers /\ count <= Limit

\* Sets of session ids are finite, and a smaller set counts for less.
LEMMA Counting ==
  ASSUME NEW S \in SUBSET SID, NEW T \in SUBSET S
  PROVE  /\ IsFiniteSet(S) /\ IsFiniteSet(T)
         /\ Cardinality(S) \in Nat /\ Cardinality(T) \in Nat
         /\ Cardinality(T) <= Cardinality(S)
<1>1. IsFiniteSet(S)
  BY PoolAssumption, FS_Subset
<1>2. IsFiniteSet(T) /\ Cardinality(T) <= Cardinality(S)
  BY <1>1, FS_Subset
<1> QED BY <1>1, <1>2, FS_CardinalityType

\* Replacing a member by another id does not enlarge the set.
LEMMA Replacing ==
  ASSUME NEW S \in SUBSET SID, NEW x \in S, NEW y \in SID
  PROVE  Cardinality((S \ {x}) \cup {y}) <= Cardinality(S)
<1>1. /\ IsFiniteSet(S) /\ Cardinality(S) \in Nat
      /\ IsFiniteSet(S \ {x}) /\ Cardinality(S \ {x}) \in Nat
  BY Counting
<1>2. Cardinality(S \ {x}) = Cardinality(S) - 1
  BY <1>1, FS_RemoveElement
<1>3. \/ Cardinality((S \ {x}) \cup {y}) = Cardinality(S \ {x})
      \/ Cardinality((S \ {x}) \cup {y}) = Cardinality(S \ {x}) + 1
  BY <1>1, FS_AddElement
<1> QED BY <1>1, <1>2, <1>3

\* What is counted as dropped by a purge is what the map loses.
LEMMA Dropping ==
  ASSUME NEW S \in SUBSET SID, NEW T \in SUBSET S
  PROVE  Cardinality(S \ T) = Cardinality(S) - Cardinality(T)
<1>1. IsFiniteSet(S) /\ IsFiniteSet(T)
  BY Counting
<1>2. S \cap T = T
  OBVIOUS
<1> QED BY <1>1, <1>2, FS_Difference

\* An empty map is counted rightly (NewMemoryStore).
LEMMA InitInv == Init => Inv
  BY PoolAssumption, FS_EmptySet DEF Init, Inv, TypeOK, CountCovers

\* Every call on the reservations, the janitor and the passing of time keep Inv.
LEMMA NextInv == Inv /\ [Next]_vars => Inv'
<1> SUFFICES ASSUME Inv, [Next]_vars PROVE Inv'
  OBVIOUS
<1> USE PoolAssumption DEF Inv, TypeOK, CountCovers
<1>a. Live \in SUBSET reservations /\ Live \in SUBSET SID
  BY DEF Live
<1>b. /\ Cardinality(reservations) \in Nat /\ IsFiniteSet(reservations)
      /\ Cardinality(Live) \in Nat /\ IsFiniteSet(Live)
      /\ Cardinality(Live) <= Cardinality(reservations)
  BY <1>a, Counting
<1>1. ASSUME NEW s \in SID, NEW ttl \in 0 .. MaxTTL, Renew(s, ttl) PROVE Inv'
  BY <1>1 DEF Renew
<1>2. ASSUME NEW s \in SID, NEW ttl \in 0 .. MaxTTL, Add(s, ttl) PROVE Inv'
  <2>1. Cardinality(reservations \cup {s}) = Cardinality(reservations) + 1
    BY <1>2, <1>b, FS_AddElement DEF Add
  <2> QED BY <1>2, <1>b, <2>1 DEF Add, LooksFull
<1>3. ASSUME NEW s \in SID, NEW ttl \in 0 .. MaxTTL, AddAfterRecount(s, ttl) PROVE Inv'
  <2>1. Cardinality(Live \cup {s}) = Cardinality(Live) + 1
    BY <1>3, <1>a, <1>b, FS_AddElement DEF AddAfterRecount
  <2> QED BY <1>3, <1>a, <1>b, <2>1 DEF AddAfterRecount, Recount
<1>4. ASSUME NEW s \in SID, Refuse(s) PROVE Inv'
  BY <1>4, <1>a, <1>b DEF Refuse, Recount
<1>5. ASSUME NEW s \in SID, ReleaseSession(s) PROVE Inv'
  <2>1. Cardinality(reservations \ {s}) = Cardinality(reservations) - 1
    BY <1>5, <1>b, FS_RemoveElement DEF ReleaseSession
  <2>2. Cardinality(reservations \ {s}) \in Nat
    BY Counting
  <2> QED BY <1>5, <1>b, <2>1, <2>2 DEF ReleaseSession
<1>6. ASSUME NEW old \in SID, NEW new \in SID, NEW ttl \in 0 .. MaxTTL,
             MoveSessionReservation(old, new, ttl)
      PROVE  Inv'
  <2>1. Cardinality(reservations') <= Cardinality(reservations)
    BY <1>6, Replacing DEF MoveSessionReservation
  <2>2. reservations' \in SUBSET SID
    BY <1>6 DEF MoveSessionReservation
  <2>3. Cardinality(reservations') \in Nat
    BY <2>2, Counting
  <2> QED BY <1>6, <1>b, <2>1, <2>2, <2>3 DEF MoveSessionReservation
<1>7. CASE purgeReservationsLocked
  <2>1. Cardinality(reservations \ Live) = Cardinality(reservations) - Cardinality(Live)
    BY <1>a, Dropping
  <2> QED BY <1>7, <1>a, <1>b, <2>1 DEF purgeReservationsLocked
<1>8. CASE Tick
  BY <1>8 DEF Tick
<1>9. CASE UNCHANGED vars
  BY <1>9 DEF vars
<1> QED
  BY <1>1, <1>2, <1>3, <1>4, <1>5, <1>6, <1>7, <1>8, <1>9 DEF Next, ReserveSession

\* The counter of a namespace covers its map and stays within the limit, in every
\* reachable state.
THEOREM InvAlways == Spec => []Inv
  BY InitInv, NextInv, PTL DEF Spec

\* The counter never falls behind the map: Add may trust it.
THEOREM CounterCovers == Spec => []CountCovers
  BY InvAlways, PTL DEF Inv

\* At most Limit sessions hold an unexpired reservation, although lapsed ones stay
\* in the map, may be re-dated, and may be moved.
THEOREM CapacityKept == Spec => []WithinLimit
<1>1. Inv => WithinLimit
  <2> SUFFICES ASSUME Inv PROVE Cardinality(Live) <= Limit
    BY DEF WithinLimit
  <2>1. Live \in SUBSET reservations /\ reservations \in SUBSET SID
    BY DEF Live, Inv, TypeOK
  <2>2. /\ Cardinality(Live) \in Nat /\ Cardinality(reservations) \in Nat
        /\ Cardinality(Live) <= Cardinality(reservations)
    BY <2>1, Counting
  <2> QED BY <2>2, PoolAssumption DEF Inv, TypeOK, CountCovers
<1> QED
  BY <1>1, InvAlways, PTL

-----------------------------------------------------------------------------

\* A member that has lapsed proves that there is room.
LEMMA Room ==
  ASSUME Inv, NEW s \in reservations PROVE s \in Live \/ Cardinality(Live) < Limit
<1> SUFFICES ASSUME s \notin Live PROVE Cardinality(Live) < Limit
  OBVIOUS
<1>1. reservations \in SUBSET SID /\ Live \in SUBSET (reservations \ {s})
  BY DEF Live, Inv, TypeOK
<1>2. /\ IsFiniteSet(reservations) /\ Cardinality(reservations) \in Nat
      /\ Cardinality(reservations \ {s}) \in Nat
  BY <1>1, Counting
<1>3. Cardinality(Live) \in Nat /\ Cardinality(Live) <= Cardinality(reservations \ {s})
  BY <1>1, Counting
<1>4. Cardinality(reservations \ {s}) = Cardinality(reservations) - 1
  BY <1>2, FS_RemoveElement
<1> QED BY <1>2, <1>3, <1>4, PoolAssumption DEF Inv, TypeOK, CountCovers

\* Every step is a step of the pool on the unexpired reservations, or none.
LEMMA StepImplements ==
  ASSUME Inv, Inv', [Next]_vars PROVE [Pool!Next]_<<Live, answer>>
<1> USE PoolAssumption DEF Inv, TypeOK
<1>a. /\ Live \in SUBSET reservations
      /\ Cardinality(Live) \in Nat /\ Cardinality(reservations) \in Nat
      /\ Cardinality(Live) <= Cardinality(reservations)
  BY Counting DEF Live
<1>1. ASSUME NEW s \in SID, NEW ttl \in 0 .. MaxTTL, Renew(s, ttl) PROVE Pool!Grant(s)
  <2>1. s \in Live \/ Cardinality(Live) < Limit
    BY <1>1, Room DEF Renew
  <2>2. Live' = IF ttl > 0 THEN Live \cup {s} ELSE Live \ {s}
    BY <1>1 DEF Renew, Live
  <2> QED BY <1>1, <2>1, <2>2 DEF Renew, Pool!Grant, Pool!Cardinality, Cardinality
<1>2. ASSUME NEW s \in SID, NEW ttl \in 0 .. MaxTTL, Add(s, ttl) PROVE Pool!Grant(s)
  <2>1. Cardinality(Live) < Limit
    BY <1>2, <1>a DEF Add, LooksFull, CountCovers
  <2>2. Live' = IF ttl > 0 THEN Live \cup {s} ELSE Live \ {s}
    BY <1>2 DEF Add, Live
  <2> QED BY <1>2, <2>1, <2>2 DEF Add, Pool!Grant, Pool!Cardinality, Cardinality
<1>3. ASSUME NEW s \in SID, NEW ttl \in 0 .. MaxTTL, AddAfterRecount(s, ttl)
      PROVE  Pool!Grant(s)
  <2>1. Live' = IF ttl > 0 THEN Live \cup {s} ELSE Live \ {s}
    BY <1>3 DEF AddAfterRecount, Recount, Live
  <2> QED BY <1>3, <2>1 DEF AddAfterRecount, Recount, Pool!Grant, Pool!Cardinality, Cardinality
<1>4. ASSUME NEW s \in SID, Refuse(s) PROVE Pool!Refuse(s)
  <2>1. Live' = Live
    BY <1>4 DEF Refuse, Recount, Live
  <2>2. s \notin Live
    BY <1>4 DEF Refuse, Live
  <2> QED BY <1>4, <2>1, <2>2 DEF Refuse, Recount, Pool!Refuse, Pool!Cardinality, Cardinality
<1>5. ASSUME NEW s \in SID, ReleaseSession(s) PROVE Pool!Shrink
  BY <1>5 DEF ReleaseSession, Live, Pool!Shrink
<1>6. ASSUME NEW old \in SID, NEW new \in SID, NEW ttl \in 0 .. MaxTTL,
             MoveSessionReservation(old, new, ttl)
      PROVE  Pool!Move(old, new)
  <2>1. Live' = IF ttl > 0 THEN (Live \ {old}) \cup {new} ELSE Live \ {old, new}
    BY <1>6 DEF MoveSessionReservation, Live
  <2>2. Live' \in SUBSET reservations' /\ reservations' \in SUBSET SID
    BY DEF Live
  <2>3. /\ Cardinality(Live') \in Nat /\ Cardinality(reservations') \in Nat
        /\ Cardinality(Live') <= Cardinality(reservations')
    BY <2>2, Counting
  <2>4. Cardinality(Live') <= Limit
    BY <2>3 DEF CountCovers
  <2> QED BY <1>6, <2>1, <2>4 DEF MoveSessionReservation, Pool!Move, Pool!Cardinality, Cardinality
<1>7. ASSUME purgeReservationsLocked PROVE Pool!Shrink
  BY <1>7 DEF purgeReservationsLocked, Live, Pool!Shrink
<1>8. ASSUME Tick PROVE Pool!Shrink
  BY <1>8 DEF Tick, Live, Pool!Shrink
<1>9. CASE UNCHANGED vars
  BY <1>9 DEF vars, Live
<1> QED
  BY <1>1, <1>2, <1>3, <1>4, <1>5, <1>6, <1>7, <1>8, <1>9
  DEF Next, ReserveSession, Pool!Next

\* The lazily purged map and its counter implement the pool; in particular a session
\* is refused only while Limit others hold an unexpired reservation.
THEOREM ImplementsPool == Spec => RefinesPool
<1>1. Init => Pool!Init
  BY DEF Init, Pool!Init, Live
<1>2. Inv /\ Inv' /\ [Next]_vars => [Pool!Next]_<<Live, answer>>
  BY StepImplements
<1> QED
  BY <1>1, <1>2, InvAlways, PTL DEF Spec, RefinesPool, Pool!Spec
=============================================================================
