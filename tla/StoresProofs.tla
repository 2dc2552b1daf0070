---------------------------- MODULE StoresProofs ----------------------------
(***************************************************************************)
(* Safety of both stores for every set of sessions, keys and buckets,      *)
(* every limit and every lifetime: the Redis reservations (those of the    *)
(* memory store are in MemoryReservationsProofs), the entries of both      *)
(* stores and that they implement TTLStore, the end of the memory store,   *)
(* and the token buckets.                                                  *)
(***************************************************************************)
EXTENDS MCStores, MemoryReservationsProofs

-----------------------------------------------------------------------------
(* The entries of the memory store.                                        *)

USE DEF ME!Absent, ME!Abstract!Absent, ME!Idle, ME!Abstract!Idle, ME!No, ME!Yes, ME!Failed,
        ME!Abstract!No, ME!Abstract!Yes, ME!Abstract!Failed,
        ME!Value, ME!Text, ME!Lowest, ME!TTL, ME!Delta, ME!Abstract!Value, ME!Abstract!Text,
        ME!Abstract!Lowest, ME!Abstract!TTL, ME!Abstract!Delta

\* The operators of FiniteSets are the same in every instance.
LEMMA SameCardinality ==
  \A S : ME!Cardinality(S) = Cardinality(S) /\ ME!Abstract!Cardinality(S) = Cardinality(S)
  BY Zenon DEF ME!Cardinality, ME!Abstract!Cardinality, Cardinality

\* The inductive invariant.
MEInv == ME!EntriesTypeOK /\ ME!Bounded

LEMMA MEInit == ME!Init => MEInv
<1> SUFFICES ASSUME ME!Init PROVE MEInv
  OBVIOUS
<1>1. ME!Stored = {}
  BY DEF ME!Init, ME!Stored
<1>2. ME!Bounded
  BY <1>1, FS_EmptySet, EntriesAssumption, SameCardinality DEF ME!Bounded
<1>3. closed \in BOOLEAN
  BY Zenon DEF ME!Init
<1>4. eanswer \in ME!Answer
  BY EntriesAssumption DEF ME!Init, ME!Answer
<1> QED BY <1>2, <1>3, <1>4, EntriesAssumption DEF MEInv, ME!Init, ME!EntriesTypeOK

LEMMA SetCounting ==
  ASSUME NEW U, IsFiniteSet(U), NEW S \in SUBSET U, NEW T \in SUBSET S
  PROVE  /\ IsFiniteSet(S) /\ IsFiniteSet(T)
         /\ Cardinality(S) \in Nat /\ Cardinality(T) \in Nat
         /\ Cardinality(T) <= Cardinality(S)
         /\ \A k \in S \ T : Cardinality(T) < Cardinality(S)
         /\ \A k \in S : Cardinality(S \ {k}) = Cardinality(S) - 1
         /\ \A k \in U : Cardinality(S \cup {k}) <= Cardinality(S) + 1
<1>1. IsFiniteSet(S) /\ IsFiniteSet(T)
  BY FS_Subset
<1>2. Cardinality(S) \in Nat /\ Cardinality(T) \in Nat /\ Cardinality(T) <= Cardinality(S)
  BY <1>1, FS_CardinalityType, FS_Subset
<1>3. \A k \in S : Cardinality(S \ {k}) = Cardinality(S) - 1 /\ IsFiniteSet(S \ {k})
  BY <1>1, FS_RemoveElement
<1>4. ASSUME NEW k \in S \ T PROVE Cardinality(T) < Cardinality(S)
  <2>1. T \subseteq S \ {k}
    OBVIOUS
  <2>2. Cardinality(T) <= Cardinality(S \ {k})
    BY <1>3, <2>1, FS_Subset
  <2> QED BY <1>2, <1>3, <2>2
<1>5. ASSUME NEW k \in U PROVE Cardinality(S \cup {k}) <= Cardinality(S) + 1
  <2>1. CASE k \in S
    <3>1. S \cup {k} = S
      BY <2>1
    <3> QED BY <1>2, <3>1
  <2>2. CASE k \notin S
    <3>1. Cardinality(S \cup {k}) = Cardinality(S) + 1
      BY <1>1, <2>2, FS_AddElement
    <3> QED BY <1>2, <3>1
  <2> QED BY <2>1, <2>2
<1> QED BY <1>1, <1>2, <1>3, <1>4, <1>5

LEMMA KeyCounting ==
  ASSUME NEW S \in SUBSET Key, NEW T \in SUBSET S
  PROVE  /\ IsFiniteSet(S) /\ IsFiniteSet(T)
         /\ Cardinality(S) \in Nat /\ Cardinality(T) \in Nat
         /\ Cardinality(T) <= Cardinality(S)
         /\ \A k \in S \ T : Cardinality(T) < Cardinality(S)
         /\ \A k \in S : Cardinality(S \ {k}) = Cardinality(S) - 1
         /\ \A k \in Key : Cardinality(S \cup {k}) <= Cardinality(S) + 1
  BY SetCounting, EntriesAssumption

LEMMA MESets ==
  ASSUME ME!EntriesTypeOK
  PROVE  ME!Stored \in SUBSET Key /\ ME!Live \in SUBSET ME!Stored /\ ME!Live \in SUBSET Key
  BY DEF ME!Stored, ME!Live

\* Dropping entries keeps the map typed and within its bound.
LEMMA MEKeep ==
  ASSUME MEInv, NEW kept, ME!Keep(kept) \/ (ME!Same /\ kept = ME!Stored)
  PROVE  /\ entries' \in [Key -> ME!Value \cup {ME!Absent}] /\ eleft' \in [Key -> 0 .. LongestTTL]
         /\ ME!Stored' \subseteq ME!Stored
         /\ ME!Bounded'
<1>1. entries' \in [Key -> ME!Value \cup {ME!Absent}] /\ eleft' \in [Key -> 0 .. LongestTTL]
  BY EntriesAssumption DEF MEInv, ME!EntriesTypeOK, ME!Keep, ME!Same
<1>2. ME!Stored' \subseteq ME!Stored
  BY DEF ME!Keep, ME!Same, ME!Stored
<1>3. ME!Stored \in SUBSET Key
  BY DEF ME!Stored
<1>4. /\ Cardinality(ME!Stored) \in Nat /\ Cardinality(ME!Stored') \in Nat
      /\ Cardinality(ME!Stored') <= Cardinality(ME!Stored)
  BY <1>2, <1>3, KeyCounting
<1> QED BY <1>1, <1>2, <1>4, EntriesAssumption, SameCardinality DEF MEInv, ME!Bounded

\* Whoever inserts makes room first.
LEMMA MERoom ==
  ASSUME MEInv, NEW k \in Key, NEW kept \in ME!Room(k)
  PROVE  kept \in SUBSET ME!Stored /\ Cardinality(kept \cup {k}) <= MaxEntries
<1> USE EntriesAssumption
<1>0. /\ ME!Stored \in SUBSET Key /\ ME!Live \in SUBSET ME!Stored
      /\ Cardinality(ME!Stored) \in Nat /\ Cardinality(ME!Stored) <= MaxEntries
      /\ Cardinality(ME!Live) \in Nat /\ Cardinality(ME!Live) <= Cardinality(ME!Stored)
  BY MESets, KeyCounting, SameCardinality DEF MEInv, ME!Bounded
<1>1. CASE ~ME!IsFull(k)
  <2>1. kept = ME!Stored
    BY <1>1 DEF ME!Room
  <2>2. CASE k \in ME!Stored
    <3>1. kept \cup {k} = ME!Stored
      BY <2>1, <2>2
    <3> QED BY <1>0, <2>1, <3>1
  <2>3. CASE k \notin ME!Stored
    <3>1. Cardinality(ME!Stored) < MaxEntries
      BY <1>0, <1>1, <2>3, SameCardinality DEF ME!IsFull
    <3>2. Cardinality(kept \cup {k}) <= Cardinality(kept) + 1 /\ Cardinality(kept \cup {k}) \in Nat
      <4>1. kept \cup {k} \in SUBSET Key
        BY <1>0, <2>1
      <4> QED BY <1>0, <2>1, <4>1, KeyCounting
    <3> QED BY <1>0, <2>1, <3>1, <3>2
  <2> QED BY <2>2, <2>3
<1>2. CASE ME!IsFull(k)
  <2>1. kept \in SUBSET ME!Live /\ Cardinality(kept) \in Nat /\ Cardinality(kept) < MaxEntries
    <3>1. CASE ME!Cardinality(ME!Unexpired) >= MaxEntries
      <4>1. PICK o \in ME!Live : kept = ME!Live \ {o}
        BY <1>2, <3>1 DEF ME!Room, ME!EvictedFrom, ME!Unexpired
      <4>2. Cardinality(kept) = Cardinality(ME!Live) - 1 /\ Cardinality(kept) \in Nat
        BY <1>0, <4>1, KeyCounting, MESets
      <4> QED BY <1>0, <4>1, <4>2
    <3>2. CASE ~(ME!Cardinality(ME!Unexpired) >= MaxEntries)
      <4>1. kept = ME!Live
        BY <1>2, <3>2 DEF ME!Room, ME!Unexpired
      <4> QED BY <1>0, <3>2, <4>1, SameCardinality DEF ME!Unexpired
    <3> QED BY <3>1, <3>2
  <2>2. kept \in SUBSET Key /\ kept \cup {k} \in SUBSET Key
    BY <1>0, <2>1
  <2>3. Cardinality(kept \cup {k}) <= Cardinality(kept) + 1 /\ Cardinality(kept \cup {k}) \in Nat
    BY <2>2, KeyCounting
  <2> QED BY <1>0, <2>1, <2>3
<1> QED BY <1>1, <1>2

LEMMA MEStore ==
  ASSUME MEInv, NEW k \in Key, NEW v \in ME!Value, NEW ttl \in ME!TTL, ME!Store(k, v, ttl)
  PROVE  /\ entries' \in [Key -> ME!Value \cup {ME!Absent}] /\ eleft' \in [Key -> 0 .. LongestTTL]
         /\ ME!Bounded'
<1> USE EntriesAssumption
<1>1. PICK kept \in ME!Room(k) :
        /\ entries' = [j \in Key |-> IF j = k THEN v ELSE IF j \in kept THEN entries[j] ELSE ME!Absent]
        /\ eleft' = [j \in Key |-> IF j = k THEN ttl ELSE IF j \in kept THEN eleft[j] ELSE 0]
  BY DEF ME!Store
<1>2. kept \in SUBSET ME!Stored /\ Cardinality(kept \cup {k}) <= MaxEntries
  BY MERoom
<1>3. ME!Stored' = kept \cup {k}
  BY <1>1, <1>2 DEF ME!Stored
<1>4. entries' \in [Key -> ME!Value \cup {ME!Absent}] /\ eleft' \in [Key -> 0 .. LongestTTL]
  BY <1>1 DEF MEInv, ME!EntriesTypeOK
<1> QED BY <1>2, <1>3, <1>4, SameCardinality DEF ME!Bounded

\* Every operation answers within the interface.
LEMMA MEAnswers ==
  ASSUME NEW op \in {"Get", "Set", "Delete", "GetDel", "SetNX", "Touch",
                     "CompareAndDelete", "CompareAndTouch", "IncrementWithTTL"},
         NEW res \in ME!Value \cup {ME!Absent, ME!Failed, ME!No, ME!Yes}, ME!Tells(op, res)
  PROVE  eanswer' \in ME!Answer
  BY EntriesAssumption DEF ME!Tells, ME!Answer

\* Each operation, the janitor, Close and the passing of time keep MEInv.
LEMMA MENext == MEInv /\ [ME!Next]_eVars => MEInv'
<1> SUFFICES ASSUME MEInv, [ME!Next]_eVars PROVE MEInv'
  OBVIOUS
<1> USE EntriesAssumption DEF MEInv
<1>a. /\ entries \in [Key -> ME!Value \cup {ME!Absent}] /\ eleft \in [Key -> 0 .. LongestTTL]
      /\ rereads \in SUBSET Key /\ closed \in BOOLEAN /\ eanswer \in ME!Answer
      /\ ME!Stored \in SUBSET Key /\ ME!Live \in SUBSET ME!Stored
  BY MESets DEF ME!EntriesTypeOK
<1>b. ASSUME NEW kept, ME!Keep(kept) \/ (ME!Same /\ kept = ME!Stored),
             rereads' \in SUBSET Key, closed' \in BOOLEAN, eanswer' \in ME!Answer
      PROVE  MEInv'
  BY <1>b, MEKeep DEF ME!EntriesTypeOK
<1>c. ASSUME NEW k \in Key, NEW v \in ME!Value, NEW ttl \in ME!TTL, ME!Store(k, v, ttl),
             UNCHANGED ME!lifeVars, eanswer' \in ME!Answer
      PROVE  MEInv'
  BY <1>a, <1>c, MEStore DEF ME!EntriesTypeOK, ME!lifeVars
<1>d. ASSUME NEW k \in Key, NEW ttl \in ME!TTL, entries' = entries,
             eleft' = [eleft EXCEPT ![k] = ttl] \/ eleft' = eleft,
             UNCHANGED ME!lifeVars, eanswer' \in ME!Answer
      PROVE  MEInv'
  <2>1. eleft' \in [Key -> 0 .. LongestTTL] /\ ME!Stored' = ME!Stored
    BY <1>a, <1>d DEF ME!Stored
  <2> QED BY <1>a, <1>d, <2>1 DEF ME!EntriesTypeOK, ME!Bounded, ME!lifeVars
<1>1. ASSUME NEW k \in Key, ME!Get(k) PROVE MEInv'
  <2>1. eanswer' \in ME!Answer
    BY <1>a, <1>1, MEAnswers DEF ME!Get
  <2>2. ME!Same /\ rereads' \in SUBSET Key /\ closed' = closed
    BY <1>a, <1>1 DEF ME!Get
  <2> QED BY <1>a, <1>b, <2>1, <2>2
<1>2. ASSUME NEW k \in Key, ME!GetRemoves(k) PROVE MEInv'
  BY <1>a, <1>b, <1>2 DEF ME!GetRemoves
<1>3. ASSUME NEW k \in Key, ME!Delete(k) \/ ME!GetDel(k) PROVE MEInv'
  <2>1. eanswer' \in ME!Answer
    BY <1>a, <1>3, MEAnswers DEF ME!Delete, ME!GetDel
  <2> QED BY <1>a, <1>b, <1>3, <2>1 DEF ME!Delete, ME!GetDel, ME!lifeVars
<1>4. ASSUME NEW k \in Key, NEW v \in ME!Value, NEW ttl \in ME!TTL,
             ME!Set(k, v, ttl) \/ ME!SetNX(k, v, ttl)
      PROVE  MEInv'
  <2>1. eanswer' \in ME!Answer
    BY <1>4, MEAnswers DEF ME!Set, ME!SetNX
  <2>2. UNCHANGED ME!lifeVars /\ (ME!Store(k, v, ttl) \/ ME!Same)
    BY <1>4 DEF ME!Set, ME!SetNX
  <2> QED BY <1>a, <1>b, <1>c, <2>1, <2>2 DEF ME!lifeVars
<1>5. ASSUME NEW k \in Key, NEW v \in ME!Value, NEW ttl \in ME!TTL, ME!CompareAndTouch(k, v, ttl)
      PROVE  MEInv'
  <2>1. eanswer' \in ME!Answer
    BY <1>5, MEAnswers DEF ME!CompareAndTouch
  <2> QED BY <1>d, <1>5, <2>1 DEF ME!CompareAndTouch
<1>6. ASSUME NEW k \in Key, NEW v \in ME!Value, ME!CompareAndDelete(k, v) PROVE MEInv'
  <2>1. eanswer' \in ME!Answer
    BY <1>6, MEAnswers DEF ME!CompareAndDelete
  <2> QED BY <1>a, <1>b, <1>6, <2>1 DEF ME!CompareAndDelete, ME!lifeVars
<1>7. ASSUME NEW k \in Key, NEW ttl \in ME!TTL, ME!Touch(k, ttl) PROVE MEInv'
  <2>1. eanswer' \in ME!Answer /\ UNCHANGED ME!lifeVars
    BY <1>7, MEAnswers DEF ME!Touch
  <2>2. \/ entries' = entries /\ eleft' = [eleft EXCEPT ![k] = ttl]
        \/ ME!Keep(ME!Stored \ {k})
    BY <1>7 DEF ME!Touch
  <2> QED BY <1>a, <1>b, <1>d, <2>1, <2>2 DEF ME!lifeVars
<1>8. ASSUME NEW k \in Key, NEW delta \in ME!Delta, NEW ttl \in ME!TTL, ME!IncrementWithTTL(k, delta, ttl)
      PROVE  MEInv'
  <2> DEFINE current == IF k \in ME!Live THEN entries[k] ELSE 0
  <2>1. current \in ME!Value
    BY <1>a DEF ME!Live, ME!Stored
  <2>2. CASE ME!Countable(current, delta, 0)
    <3>1. current + delta \in ME!Value
      BY <2>1, <2>2 DEF ME!Countable
    <3>2. /\ ME!Store(k, current + delta, ttl) /\ UNCHANGED ME!lifeVars
          /\ ME!Tells("IncrementWithTTL", current + delta)
      BY <1>8, <2>2 DEF ME!IncrementWithTTL
    <3> HIDE DEF current
    <3> QED BY <1>c, <3>1, <3>2, MEAnswers
  <2>3. CASE ~ME!Countable(current, delta, 0)
    <3>1. /\ ME!Keep(IF k \in ME!Live THEN ME!Stored ELSE ME!Stored \ {k}) /\ UNCHANGED ME!lifeVars
          /\ ME!Tells("IncrementWithTTL", ME!Failed)
      BY <1>8, <2>3 DEF ME!IncrementWithTTL
    <3>2. eanswer' \in ME!Answer
      BY <3>1, MEAnswers
    <3> QED BY <1>a, <1>b, <3>1, <3>2 DEF ME!lifeVars
  <2> QED BY <2>2, <2>3
<1>9. CASE ME!Refuse
  <2>1. eanswer' \in ME!Answer
    BY <1>9 DEF ME!Refuse, ME!Answer
  <2> QED BY <1>a, <1>b, <1>9, <2>1 DEF ME!Refuse, ME!lifeVars
<1>10. CASE ME!janitor
  BY <1>a, <1>b, <1>10 DEF ME!janitor, ME!lifeVars
<1>11. CASE ME!Close
  <2>1. closed' \in BOOLEAN
    BY <1>11, Zenon DEF ME!Close
  <2>2. eanswer' \in ME!Answer
    BY <1>11 DEF ME!Close, ME!Answer
  <2> QED BY <1>a, <1>b, <1>11, <2>1, <2>2 DEF ME!Close
<1>12. CASE ME!Tick
  <2>1. eanswer' \in ME!Answer
    BY <1>12 DEF ME!Tick, ME!Answer
  <2>2. eleft' \in [Key -> 0 .. LongestTTL] /\ ME!Stored' = ME!Stored
    BY <1>a, <1>12 DEF ME!Tick, ME!Stored
  <2> QED BY <1>a, <1>12, <2>1, <2>2 DEF ME!Tick, ME!EntriesTypeOK, ME!Bounded, ME!lifeVars
<1>13. CASE UNCHANGED eVars
  BY <1>13 DEF eVars, ME!EntriesTypeOK, ME!Bounded, ME!Stored
<1> QED
  BY <1>1, <1>2, <1>3, <1>4, <1>5, <1>6, <1>7, <1>8, <1>9, <1>10, <1>11, <1>12, <1>13 DEF ME!Next

(* That they implement TTLStore.                                           *)

\* The store the map stands for: the live keys, their values and times.
MEdb == [k \in Key |-> IF k \in ME!Live THEN entries[k] ELSE ME!Absent]
MEleft == [k \in Key |-> IF k \in ME!Live THEN eleft[k] ELSE 0]

LEMMA MEView ==
  ASSUME ME!EntriesTypeOK
  PROVE  /\ ME!Abstract!Live = ME!Live
         /\ \A k \in ME!Live : MEdb[k] = entries[k] /\ MEdb[k] \in ME!Value /\ MEleft[k] = eleft[k]
         /\ \A k \in Key \ ME!Live : MEdb[k] = ME!Absent /\ MEleft[k] = 0
         /\ \A k \in ME!Live : eleft[k] \in 1 .. LongestTTL
         /\ \A k \in Key : MEdb[k] # ME!Absent <=> k \in ME!Live
<1>1. \A k \in ME!Live : k \in Key /\ entries[k] \in ME!Value /\ eleft[k] \in 1 .. LongestTTL
  BY EntriesAssumption DEF ME!EntriesTypeOK, ME!Live, ME!Stored
<1>2. \A k \in ME!Live : MEdb[k] = entries[k] /\ MEleft[k] = eleft[k]
  BY <1>1 DEF MEdb, MEleft
<1>3. \A k \in Key \ ME!Live : MEdb[k] = ME!Absent /\ MEleft[k] = 0
  BY DEF MEdb, MEleft
<1>4. \A k \in Key : MEdb[k] # ME!Absent <=> k \in ME!Live
  BY <1>1, <1>2, <1>3, EntriesAssumption
<1>5. ME!Abstract!Live = ME!Live
  BY <1>1, <1>4 DEF ME!Abstract!Live, MEdb
<1> QED BY <1>1, <1>2, <1>3, <1>4, <1>5

\* Forgetting lapsed entries is nothing to the store.
LEMMA MEKeepsLive ==
  ASSUME ME!EntriesTypeOK, NEW kept \in SUBSET ME!Stored, ME!Live \subseteq kept, ME!Keep(kept)
  PROVE  MEdb' = MEdb /\ MEleft' = MEleft
<1>1. ME!Live' = ME!Live
  BY DEF ME!Keep, ME!Live, ME!Stored
<1>2. \A k \in ME!Live : entries'[k] = entries[k] /\ eleft'[k] = eleft[k]
  BY DEF ME!Keep, ME!Live, ME!Stored
<1> QED BY <1>1, <1>2 DEF MEdb, MEleft

\* Removing an entry removes its key.
LEMMA MERemoves ==
  ASSUME ME!EntriesTypeOK, NEW k \in Key, ME!Keep(ME!Stored \ {k})
  PROVE  MEdb' = [MEdb EXCEPT ![k] = ME!Absent] /\ MEleft' = [MEleft EXCEPT ![k] = 0]
<1>1. ME!Live' = ME!Live \ {k}
  BY DEF ME!Keep, ME!Live, ME!Stored
<1>2. \A j \in ME!Live \ {k} : entries'[j] = entries[j] /\ eleft'[j] = eleft[j]
  BY DEF ME!Keep, ME!Live, ME!Stored
<1> QED BY <1>1, <1>2 DEF MEdb, MEleft

\* Extending the life of a live entry extends that of its key.
LEMMA MEExtends ==
  ASSUME ME!EntriesTypeOK, NEW k \in ME!Live, NEW ttl \in ME!TTL,
         entries' = entries, eleft' = [eleft EXCEPT ![k] = ttl]
  PROVE  MEdb' = MEdb /\ MEleft' = [MEleft EXCEPT ![k] = ttl]
<1>1. k \in Key /\ ttl > 0
  BY EntriesAssumption DEF ME!Live, ME!Stored
<1>2. ME!Live' = ME!Live
  BY <1>1 DEF ME!EntriesTypeOK, ME!Live, ME!Stored
<1> QED BY <1>1, <1>2 DEF ME!EntriesTypeOK, MEdb, MEleft

\* Storing gives up a live key only when the store is full of live ones, and then the
\* one nearest its end.
LEMMA MEPuts ==
  ASSUME MEInv, NEW k \in Key, NEW v \in ME!Value, NEW ttl \in ME!TTL, ME!Store(k, v, ttl)
  PROVE  ME!Abstract!Put(k, v, ttl)
<1> USE EntriesAssumption
<1>a. /\ ME!EntriesTypeOK /\ ME!Stored \in SUBSET Key /\ ME!Live \in SUBSET ME!Stored
      /\ Cardinality(ME!Stored) \in Nat /\ Cardinality(ME!Stored) <= MaxEntries
      /\ Cardinality(ME!Live) \in Nat /\ Cardinality(ME!Live) <= Cardinality(ME!Stored)
      /\ k \in ME!Stored \ ME!Live => Cardinality(ME!Live) < Cardinality(ME!Stored)
  BY MESets, KeyCounting, SameCardinality DEF MEInv, ME!Bounded
<1>1. PICK kept \in ME!Room(k) :
        /\ entries' = [j \in Key |-> IF j = k THEN v ELSE IF j \in kept THEN entries[j] ELSE ME!Absent]
        /\ eleft' = [j \in Key |-> IF j = k THEN ttl ELSE IF j \in kept THEN eleft[j] ELSE 0]
  BY DEF ME!Store
<1>2. ASSUME NEW gone \in SUBSET ME!Live, (ME!Live \cap kept) \ {k} = (ME!Live \ gone) \ {k}
      PROVE  /\ MEdb' = [j \in Key |-> IF j = k THEN v ELSE IF j \in gone THEN ME!Absent ELSE MEdb[j]]
             /\ MEleft' = [j \in Key |-> IF j = k THEN ttl ELSE IF j \in gone THEN 0 ELSE MEleft[j]]
  <2>1. ME!Live' = (ME!Live \cap kept) \cup {k}
    BY <1>1 DEF ME!Live, ME!Stored
  <2>2. \A j \in Key : j # k => (j \in ME!Live' <=> j \in ME!Live /\ j \notin gone)
    BY <1>2, <2>1
  <2>3. k \in ME!Live' /\ entries'[k] = v /\ eleft'[k] = ttl
    BY <1>1, <2>1
  <2>4. \A j \in ME!Live' : j # k => entries'[j] = entries[j] /\ eleft'[j] = eleft[j]
    BY <1>1, <1>a, <2>1
  <2> QED BY <2>2, <2>3, <2>4 DEF MEdb, MEleft
<1>3. ASSUME NEW gone \in ME!Abstract!Losses(k), gone \in SUBSET ME!Live,
             (ME!Live \cap kept) \ {k} = (ME!Live \ gone) \ {k}
      PROVE  ME!Abstract!Put(k, v, ttl)
  BY <1>2, <1>3 DEF ME!Abstract!Put, MEdb, MEleft
<1>4. CASE kept = ME!Stored \/ kept = ME!Live
  <2>1. k \in ME!Live \/ Cardinality(ME!Live) < MaxEntries
    <3>1. CASE ~ME!IsFull(k)
      BY <1>a, <3>1, SameCardinality DEF ME!IsFull
    <3>2. CASE ME!IsFull(k) /\ ~(ME!Cardinality(ME!Unexpired) >= MaxEntries)
      BY <1>a, <3>2, SameCardinality DEF ME!Unexpired
    <3>3. CASE ME!IsFull(k) /\ ME!Cardinality(ME!Unexpired) >= MaxEntries
      <4>1. PICK o \in ME!Live : kept = ME!Live \ {o}
        BY <3>3 DEF ME!Room, ME!EvictedFrom, ME!Unexpired
      <4> QED BY <1>4, <1>a, <4>1
    <3> QED BY <3>1, <3>2, <3>3
  <2>2. {} \in ME!Abstract!Losses(k)
    BY <1>a, <2>1, MEView, SameCardinality DEF ME!Abstract!Losses
  <2> QED BY <1>3, <1>4, <1>a, <2>2
<1>5. CASE ~(kept = ME!Stored \/ kept = ME!Live)
  <2>1. ME!IsFull(k) /\ ME!Cardinality(ME!Live) >= MaxEntries /\ kept \in ME!EvictedFrom(ME!Live)
    BY <1>5 DEF ME!Room, ME!Unexpired
  <2>2. PICK o \in ME!Live : kept = ME!Live \ {o} /\ \A p \in ME!Live : eleft[o] <= eleft[p]
    BY <2>1 DEF ME!EvictedFrom
  <2>3. k \notin ME!Live
    BY <1>a, <2>1 DEF ME!IsFull
  <2>4. \A p \in ME!Live : MEleft[o] <= MEleft[p]
    BY <1>a, <2>2, MEView
  <2>5. {o} \in ME!Abstract!Losses(k)
    BY <1>a, <2>1, <2>2, <2>3, <2>4, MEView, SameCardinality DEF ME!Abstract!Losses, MEleft
  <2> QED BY <1>3, <2>2, <2>5
<1> QED BY <1>4, <1>5

LEMMA METells ==
  ASSUME NEW op, NEW res, ME!Tells(op, res) PROVE ME!Abstract!Tells(op, res)
  BY DEF ME!Tells, ME!Abstract!Tells

LEMMA MENothing ==
  ASSUME MEdb' = MEdb, MEleft' = MEleft PROVE ME!Abstract!Nothing
  BY DEF MEdb, MEleft, ME!Abstract!Nothing

LEMMA MERemove ==
  ASSUME ME!EntriesTypeOK, NEW k \in Key, ME!Keep(ME!Stored \ {k}) PROVE ME!Abstract!Remove(k)
  BY MERemoves DEF MEdb, MEleft, ME!Abstract!Remove

LEMMA MEExtend ==
  ASSUME ME!EntriesTypeOK, NEW k \in ME!Live, NEW ttl \in ME!TTL,
         entries' = entries, eleft' = [eleft EXCEPT ![k] = ttl]
  PROVE  ME!Abstract!Extend(k, ttl)
  BY MEExtends DEF MEdb, MEleft, ME!Abstract!Extend

\* Every operation of the map is that of the store, at the instant of its critical
\* section; a Get that comes back for a lapsed entry and the janitor are nothing to it.
LEMMA MEStepImplements ==
  ASSUME MEInv, [ME!Next]_eVars PROVE [ME!Abstract!Next]_(ME!Abstract!vars)
<1> USE EntriesAssumption
<1>a. ME!EntriesTypeOK /\ ME!Stored \in SUBSET Key /\ ME!Live \in SUBSET ME!Stored
  BY MESets DEF MEInv
<1>b. /\ \A k \in ME!Live : MEdb[k] = entries[k] /\ MEdb[k] \in ME!Value
      /\ \A k \in Key \ ME!Live : MEdb[k] = ME!Absent
  BY <1>a, MEView
<1>c. ME!Same => ME!Abstract!Nothing
  BY MENothing DEF ME!Same, MEdb, MEleft, ME!Live, ME!Stored
<1>d. ASSUME NEW kept \in SUBSET ME!Stored, ME!Live \subseteq kept, ME!Keep(kept)
      PROVE  ME!Abstract!Nothing
  BY <1>a, <1>d, MEKeepsLive, MENothing
<1>e. ASSUME ME!Abstract!Nothing, eanswer' = eanswer PROVE UNCHANGED ME!Abstract!vars
  BY <1>e DEF ME!Abstract!Nothing, ME!Abstract!vars
<1>1. ASSUME NEW k \in Key, ME!Get(k) PROVE ME!Abstract!Get(k)
  <2>1. ME!Tells("Get", MEdb[k])
    BY <1>b, <1>1 DEF ME!Get
  <2> QED BY <1>c, <1>1, <2>1, METells DEF ME!Get, ME!Abstract!Get, MEdb
<1>2. ASSUME NEW k \in Key, ME!GetRemoves(k) PROVE UNCHANGED ME!Abstract!vars
  <2>1. PICK kept \in SUBSET ME!Stored : ME!Live \subseteq kept /\ ME!Keep(kept)
    BY <1>a, <1>2 DEF ME!GetRemoves, ME!StillLapsed
  <2> QED BY <1>d, <1>e, <1>2, <2>1 DEF ME!GetRemoves
<1>3. ASSUME NEW k \in Key, ME!Delete(k) PROVE ME!Abstract!Delete(k)
  BY <1>a, <1>3, MERemove, METells DEF ME!Delete, ME!Abstract!Delete
<1>4. ASSUME NEW k \in Key, ME!GetDel(k) PROVE ME!Abstract!GetDel(k)
  <2>1. ME!Tells("GetDel", MEdb[k])
    BY <1>b, <1>4 DEF ME!GetDel
  <2> QED BY <1>a, <1>4, <2>1, MERemove, METells DEF ME!GetDel, ME!Abstract!GetDel, MEdb
<1>5. ASSUME NEW k \in Key, NEW v \in ME!Value, NEW ttl \in ME!TTL, ME!Set(k, v, ttl)
      PROVE  ME!Abstract!Set(k, v, ttl)
  BY <1>5, MEPuts, METells DEF ME!Set, ME!Abstract!Set
<1>6. ASSUME NEW k \in Key, NEW v \in ME!Value, NEW ttl \in ME!TTL, ME!SetNX(k, v, ttl)
      PROVE  ME!Abstract!SetNX(k, v, ttl)
  <2>1. CASE k \in ME!Live
    <3>1. ME!Same /\ ME!Tells("SetNX", ME!No) /\ MEdb[k] # ME!Absent
      BY <1>b, <1>6, <2>1 DEF ME!SetNX
    <3> QED BY <1>c, <3>1, METells DEF ME!Abstract!SetNX, MEdb
  <2>2. CASE k \notin ME!Live
    <3>1. ME!Store(k, v, ttl) /\ ME!Tells("SetNX", ME!Yes) /\ MEdb[k] = ME!Absent
      BY <1>b, <1>6, <2>2 DEF ME!SetNX
    <3> QED BY <3>1, MEPuts, METells DEF ME!Abstract!SetNX, MEdb
  <2> QED BY <2>1, <2>2
<1>7. ASSUME NEW k \in Key, NEW v \in ME!Value, NEW ttl \in ME!TTL, ME!CompareAndTouch(k, v, ttl)
      PROVE  ME!Abstract!CompareAndTouch(k, v, ttl)
  <2>1. CASE k \in ME!Live /\ entries[k] = v
    <3>1. /\ entries' = entries /\ eleft' = [eleft EXCEPT ![k] = ttl] /\ MEdb[k] = v
          /\ ME!Tells("CompareAndTouch", ME!Yes)
      BY <1>b, <1>7, <2>1 DEF ME!CompareAndTouch
    <3> QED BY <1>a, <2>1, <3>1, MEExtend, METells DEF ME!Abstract!CompareAndTouch, MEdb
  <2>2. CASE ~(k \in ME!Live /\ entries[k] = v)
    <3>1. ME!Same /\ ME!Tells("CompareAndTouch", ME!No) /\ MEdb[k] # v
      BY <1>b, <1>7, <2>2 DEF ME!CompareAndTouch, ME!Same
    <3> QED BY <1>c, <3>1, METells DEF ME!Abstract!CompareAndTouch, MEdb
  <2> QED BY <2>1, <2>2
<1>8. ASSUME NEW k \in Key, NEW v \in ME!Value, ME!CompareAndDelete(k, v)
      PROVE  ME!Abstract!CompareAndDelete(k, v)
  <2>1. CASE k \in ME!Live /\ entries[k] = v
    <3>1. ME!Keep(ME!Stored \ {k}) /\ ME!Tells("CompareAndDelete", ME!Yes) /\ MEdb[k] = v
      BY <1>b, <1>8, <2>1 DEF ME!CompareAndDelete
    <3> QED BY <1>a, <3>1, MERemove, METells DEF ME!Abstract!CompareAndDelete, MEdb
  <2>2. CASE ~(k \in ME!Live /\ entries[k] = v)
    <3>1. /\ ME!Keep(IF k \notin ME!Live THEN ME!Stored \ {k} ELSE ME!Stored)
          /\ ME!Tells("CompareAndDelete", ME!No) /\ MEdb[k] # v
      BY <1>b, <1>8, <2>2 DEF ME!CompareAndDelete
    <3>2. ME!Abstract!Nothing
      BY <1>a, <1>d, <3>1
    <3> QED BY <3>1, <3>2, METells DEF ME!Abstract!CompareAndDelete, MEdb
  <2> QED BY <2>1, <2>2
<1>9. ASSUME NEW k \in Key, NEW ttl \in ME!TTL, ME!Touch(k, ttl) PROVE ME!Abstract!Touch(k, ttl)
  <2>1. CASE k \in ME!Live
    <3>1. /\ entries' = entries /\ eleft' = [eleft EXCEPT ![k] = ttl] /\ MEdb[k] # ME!Absent
          /\ ME!Tells("Touch", ME!Yes)
      BY <1>b, <1>9, <2>1 DEF ME!Touch
    <3>2. ME!Abstract!InUnits(ttl, 1) = ttl
      BY DEF ME!Abstract!InUnits
    <3>3. ME!Abstract!Extend(k, ME!Abstract!InUnits(ttl, 1))
      BY <1>a, <2>1, <3>1, <3>2, MEExtend
    <3> QED BY <3>1, <3>3, METells DEF ME!Abstract!Touch, MEdb
  <2>2. CASE k \notin ME!Live
    <3>1. ME!Keep(ME!Stored \ {k}) /\ ME!Tells("Touch", ME!Absent) /\ MEdb[k] = ME!Absent
      BY <1>b, <1>9, <2>2 DEF ME!Touch
    <3>2. ME!Abstract!Nothing
      BY <1>a, <1>d, <2>2, <3>1
    <3> QED BY <3>1, <3>2, METells DEF ME!Abstract!Touch, MEdb
  <2> QED BY <2>1, <2>2
<1>10. ASSUME NEW k \in Key, NEW delta \in ME!Delta, NEW ttl \in ME!TTL, ME!IncrementWithTTL(k, delta, ttl)
       PROVE  ME!Abstract!IncrementWithTTL(k, delta, ttl)
  <2> DEFINE current == IF k \in ME!Live THEN entries[k] ELSE 0
  <2>1. current = ME!Abstract!Number(MEdb[k]) /\ current \in ME!Value
    BY <1>b DEF ME!Abstract!Number
  <2>2. ME!Countable(current, delta, 0) <=> ME!Abstract!Countable(current, delta, 0)
    BY DEF ME!Countable, ME!Abstract!Countable
  <2>3. CASE ME!Countable(current, delta, 0)
    <3>1. /\ ME!Store(k, current + delta, ttl) /\ ME!Tells("IncrementWithTTL", current + delta)
          /\ current + delta \in ME!Value
      BY <1>10, <2>1, <2>3 DEF ME!IncrementWithTTL, ME!Countable
    <3> HIDE DEF current
    <3>2. ME!Abstract!Put(k, current + delta, ttl) /\ ME!Abstract!Tells("IncrementWithTTL", current + delta)
      BY <3>1, MEPuts, METells
    <3> DEFINE life == IF MEdb[k] = ME!Abstract!Absent \/ TRUE THEN ttl ELSE MEleft[k]
               number == ME!Abstract!Number(MEdb[k])
    <3>3. life = ttl /\ number = current
      BY <2>1
    <3> HIDE DEF life, number
    <3>4. /\ ME!Abstract!Countable(number, delta, 0)
          /\ ME!Abstract!Tells("IncrementWithTTL", number + delta)
          /\ ME!Abstract!Put(k, number + delta, life)
      BY <2>2, <2>3, <3>2, <3>3
         DEF ME!Abstract!Put, ME!Abstract!Tells, ME!Abstract!Countable
    <3> QED BY <3>4, Zenon DEF ME!Abstract!IncrementWithTTL, MEdb, MEleft, life, number
  <2>4. CASE ~ME!Countable(current, delta, 0)
    <3>1. /\ ME!Keep(IF k \in ME!Live THEN ME!Stored ELSE ME!Stored \ {k})
          /\ ME!Tells("IncrementWithTTL", ME!Failed)
      BY <1>10, <2>4 DEF ME!IncrementWithTTL
    <3>2. ME!Abstract!Nothing
      BY <1>a, <1>d, <3>1
    <3> HIDE DEF current
    <3> QED BY <2>1, <2>2, <2>4, <3>1, <3>2, METells DEF ME!Abstract!IncrementWithTTL, MEdb
  <2> QED BY <2>3, <2>4
<1>11. ASSUME ME!Refuse \/ ME!Close PROVE ME!Abstract!Refuse
  BY <1>c, <1>11 DEF ME!Refuse, ME!Close, ME!Abstract!Refuse
<1>12. CASE ME!janitor
  BY <1>a, <1>d, <1>e, <1>12 DEF ME!janitor, ME!Unexpired
<1>13. ASSUME ME!Tick PROVE ME!Abstract!Tick
  <2>1. ME!Live' = {k \in ME!Live : eleft[k] > 1}
    BY <1>a, <1>13 DEF ME!Tick, ME!Live, ME!Stored, ME!EntriesTypeOK
  <2>2. entries' = entries /\ \A k \in ME!Live : eleft'[k] = eleft[k] - 1 /\ eleft[k] \in 1 .. LongestTTL
    BY <1>a, <1>13 DEF ME!Tick, ME!Live, ME!Stored, ME!EntriesTypeOK
  <2>3. MEdb' = [k \in Key |-> IF MEleft[k] <= 1 THEN ME!Absent ELSE MEdb[k]]
    BY <1>a, <2>1, <2>2 DEF MEdb, MEleft
  <2>4. MEleft' = [k \in Key |-> IF MEleft[k] = 0 THEN 0 ELSE MEleft[k] - 1]
    BY <1>a, <2>1, <2>2 DEF MEleft
  <2> QED BY <1>13, <2>3, <2>4 DEF ME!Tick, ME!Abstract!Tick, MEdb, MEleft
<1>14. CASE UNCHANGED eVars
  BY <1>c, <1>e, <1>14 DEF eVars, ME!Same
<1> QED
  BY <1>1, <1>2, <1>3, <1>4, <1>5, <1>6, <1>7, <1>8, <1>9, <1>10, <1>11, <1>12, <1>13, <1>14
     DEF ME!Next, ME!Abstract!Next

-----------------------------------------------------------------------------
(* The entries of the Redis store.                                         *)

USE DEF RE!Absent, RE!Abstract!Absent, RE!Idle, RE!Abstract!Idle, RE!No, RE!Yes, RE!Failed,
        RE!Abstract!No, RE!Abstract!Yes, RE!Abstract!Failed,
        RE!Value, RE!Held, RE!Text, RE!Lowest, RE!TTL, RE!Delta, RE!Abstract!Value, RE!Abstract!Text,
        RE!Abstract!Lowest, RE!Abstract!TTL, RE!Abstract!Delta

\* A key is in the server exactly as long as it has a time to live: INCRBY followed by
\* PEXPIRE when PTTL is negative leaves no counter without one.
REInv ==
  /\ RE!RedisTypeOK
  /\ \A k \in RedisKey : keys[k] = RE!Absent <=> kpttl[k] = 0

LEMMA REInit == RE!Init => REInv
<1> SUFFICES ASSUME RE!Init PROVE REInv
  OBVIOUS
<1>1. kanswer \in RE!Answer
  BY EntriesAssumption, RedisAssumption DEF RE!Init, RE!Answer
<1> QED BY <1>1, EntriesAssumption, RedisAssumption DEF RE!Init, REInv, RE!RedisTypeOK

LEMMA REAnswers ==
  ASSUME NEW op \in {"Get", "Set", "Delete", "GetDel", "SetNX", "Touch",
                     "CompareAndDelete", "CompareAndTouch", "IncrementWithTTL"},
         NEW res \in RE!Held \cup {RE!Absent, RE!Failed, RE!No, RE!Yes}, RE!Tells(op, res)
  PROVE  kanswer' \in RE!Answer /\ RE!Abstract!Tells(op, res)
  BY EntriesAssumption, RedisAssumption DEF RE!Tells, RE!Answer, RE!Abstract!Tells

\* The three ways a command changes a key keep REInv, and are those of TTLStore.
LEMMA RECommands ==
  ASSUME REInv, NEW k \in RedisKey, kanswer' \in RE!Answer
  PROVE  /\ \A v \in RE!Held, ttl \in RE!TTL : RE!SET(k, v, ttl) => REInv' /\ RE!Abstract!Put(k, v, ttl)
         /\ RE!DEL(k) => REInv' /\ RE!Abstract!Remove(k)
         /\ keys[k] # RE!Absent =>
              \A ttl \in RE!TTL : RE!PEXPIRE(k, ttl) => REInv' /\ RE!Abstract!Extend(k, ttl)
         /\ UNCHANGED <<keys, kpttl>> => REInv' /\ RE!Abstract!Nothing
<1> USE EntriesAssumption, RedisAssumption
<1>1. ASSUME NEW v \in RE!Held, NEW ttl \in RE!TTL, RE!SET(k, v, ttl)
      PROVE  REInv' /\ RE!Abstract!Put(k, v, ttl)
  <2>1. RE!Abstract!Live \in SUBSET RedisKey
    BY DEF RE!Abstract!Live
  <2>2. k \in RE!Abstract!Live \/ Cardinality(RE!Abstract!Live) < Cardinality(RedisKey)
    BY <2>1, KeyCounting
  <2>3. RE!Abstract!Cardinality(RE!Abstract!Live) = Cardinality(RE!Abstract!Live)
        /\ RE!Cardinality(RedisKey) = Cardinality(RedisKey)
    BY Zenon DEF RE!Cardinality, RE!Abstract!Cardinality, Cardinality
  <2>4. {} \in RE!Abstract!Losses(k)
    BY <2>2, <2>3 DEF RE!Abstract!Losses
  <2>5. RE!Abstract!Put(k, v, ttl)
    BY <1>1, <2>4 DEF REInv, RE!RedisTypeOK, RE!SET, RE!Abstract!Put
  <2>6. REInv'
    BY <1>1 DEF REInv, RE!RedisTypeOK, RE!SET
  <2> QED BY <2>5, <2>6
<1>2. RE!DEL(k) => REInv' /\ RE!Abstract!Remove(k)
  BY DEF REInv, RE!RedisTypeOK, RE!DEL, RE!Abstract!Remove
<1>3. ASSUME keys[k] # RE!Absent, NEW ttl \in RE!TTL, RE!PEXPIRE(k, ttl)
      PROVE  REInv' /\ RE!Abstract!Extend(k, ttl)
  BY <1>3 DEF REInv, RE!RedisTypeOK, RE!PEXPIRE, RE!Abstract!Extend
<1>4. UNCHANGED <<keys, kpttl>> => REInv' /\ RE!Abstract!Nothing
  BY DEF REInv, RE!RedisTypeOK, RE!Abstract!Nothing
<1> QED BY <1>1, <1>2, <1>3, <1>4

\* A TTL in whole units is no longer than it was, but for a unit at least.
LEMMA WholeUnits ==
  ASSUME NEW longest \in Nat, NEW ttl \in 1 .. longest, NEW unit \in Nat \ {0}, unit <= longest
  PROVE  InUnits(ttl, unit) \in 1 .. longest
<1>1. ttl % unit \in 0 .. unit - 1
  OBVIOUS
<1> QED BY <1>1 DEF InUnits

\* Every command and script keeps REInv, and is an operation of TTLStore whose answer
\* may be lost.
LEMMA REStep ==
  ASSUME REInv, [RE!Next]_kVars PROVE REInv' /\ [RE!Abstract!Next]_(RE!Abstract!vars)
<1> USE EntriesAssumption, RedisAssumption
<1>a. \A k \in RedisKey : /\ keys[k] \in RE!Held \cup {RE!Absent} /\ kpttl[k] \in 0 .. RedisTTL
                          /\ keys[k] = RE!Absent <=> kpttl[k] = 0
  BY DEF REInv, RE!RedisTypeOK
<1>1. ASSUME NEW k \in RedisKey, RE!Get(k) PROVE REInv' /\ RE!Abstract!Get(k)
  <2>1. RE!Tells("Get", keys[k]) /\ UNCHANGED <<keys, kpttl>>
    BY <1>1 DEF RE!Get
  <2>2. kanswer' \in RE!Answer /\ RE!Abstract!Tells("Get", keys[k])
    BY <1>a, <2>1, REAnswers
  <2> QED BY <2>1, <2>2, RECommands DEF RE!Abstract!Get
<1>2. ASSUME NEW k \in RedisKey, NEW v \in RE!Value, NEW ttl \in RE!TTL, RE!Set(k, v, ttl)
      PROVE  REInv' /\ RE!Abstract!Set(k, v, ttl)
  BY <1>2, REAnswers, RECommands DEF RE!Set, RE!Abstract!Set
<1>3. ASSUME NEW k \in RedisKey, RE!Delete(k) PROVE REInv' /\ RE!Abstract!Delete(k)
  BY <1>3, REAnswers, RECommands DEF RE!Delete, RE!Abstract!Delete
<1>4. ASSUME NEW k \in RedisKey, RE!GetDel(k) PROVE REInv' /\ RE!Abstract!GetDel(k)
  <2>1. RE!Tells("GetDel", keys[k]) /\ RE!DEL(k)
    BY <1>4 DEF RE!GetDel
  <2>2. kanswer' \in RE!Answer /\ RE!Abstract!Tells("GetDel", keys[k])
    BY <1>a, <2>1, REAnswers
  <2> QED BY <2>1, <2>2, RECommands DEF RE!Abstract!GetDel
<1>5. ASSUME NEW k \in RedisKey, NEW v \in RE!Value, NEW ttl \in RE!TTL, RE!SetNX(k, v, ttl)
      PROVE  REInv' /\ RE!Abstract!SetNX(k, v, ttl)
  BY <1>5, REAnswers, RECommands DEF RE!SetNX, RE!Abstract!SetNX
<1>6. ASSUME NEW k \in RedisKey, NEW v \in RE!Value, NEW ttl \in RE!TTL, RE!CompareAndTouch(k, v, ttl)
      PROVE  REInv' /\ RE!Abstract!CompareAndTouch(k, v, ttl)
  BY <1>6, REAnswers, RECommands DEF RE!CompareAndTouch, RE!Abstract!CompareAndTouch
<1>7. ASSUME NEW k \in RedisKey, NEW v \in RE!Value, RE!CompareAndDelete(k, v)
      PROVE  REInv' /\ RE!Abstract!CompareAndDelete(k, v)
  BY <1>7, REAnswers, RECommands DEF RE!CompareAndDelete, RE!Abstract!CompareAndDelete
<1>8. ASSUME NEW k \in RedisKey, NEW ttl \in RE!TTL, RE!Touch(k, ttl) PROVE REInv' /\ RE!Abstract!Touch(k, ttl)
  <2>1. RE!InUnits(ttl, Second) = RE!Abstract!InUnits(ttl, Second) /\ RE!InUnits(ttl, Second) \in RE!TTL
    BY WholeUnits DEF RE!InUnits, RE!Abstract!InUnits, InUnits
  <2> QED BY <1>8, <2>1, REAnswers, RECommands DEF RE!Touch, RE!Abstract!Touch
<1>9. ASSUME NEW k \in RedisKey, NEW delta \in RE!Delta, NEW ttl \in RE!TTL, RE!IncrementWithTTL(k, delta, ttl)
      PROVE  REInv' /\ RE!Abstract!IncrementWithTTL(k, delta, ttl)
  <2> DEFINE value == RE!Number(keys[k]) + delta
             life == IF kpttl[k] = 0 THEN ttl ELSE kpttl[k]
  <2>1. /\ RE!Abstract!Number(keys[k]) = RE!Number(keys[k]) /\ RE!Number(keys[k]) \in RE!Held
        /\ life \in RE!TTL
    BY <1>a DEF RE!Number, RE!Abstract!Number
  <2>2. RE!Countable(RE!Number(keys[k]), delta, RE!Lowest) <=> RE!Abstract!Countable(RE!Abstract!Number(keys[k]), delta, RE!Lowest)
    BY <2>1 DEF RE!Countable, RE!Abstract!Countable
  <2>3. CASE RE!Countable(RE!Number(keys[k]), delta, RE!Lowest)
    <3>1. RE!SET(k, value, life) /\ RE!Tells("IncrementWithTTL", value)
      BY <1>9, <2>3 DEF RE!IncrementWithTTL
    <3>2. value \in RE!Held
      BY <2>1, <2>3 DEF RE!Countable
    <3>3. life = IF keys[k] = RE!Abstract!Absent \/ FALSE THEN ttl ELSE kpttl[k]
      BY <1>a
    <3>4. value = RE!Abstract!Number(keys[k]) + delta
      BY <2>1
    <3> HIDE DEF value, life
    <3>5. kanswer' \in RE!Answer /\ RE!Abstract!Tells("IncrementWithTTL", value)
      BY <3>1, <3>2, REAnswers
    <3>6. REInv' /\ RE!Abstract!Put(k, value, life)
      BY <2>1, <3>1, <3>2, <3>5, RECommands
    <3> QED BY <2>2, <2>3, <3>3, <3>4, <3>5, <3>6
            DEF RE!Abstract!IncrementWithTTL, RE!Abstract!Put, RE!Abstract!Tells
  <2>4. CASE ~RE!Countable(RE!Number(keys[k]), delta, RE!Lowest)
    <3>1. UNCHANGED <<keys, kpttl>> /\ RE!Tells("IncrementWithTTL", RE!Failed)
      BY <1>9, <2>4 DEF RE!IncrementWithTTL
    <3> QED BY <2>2, <2>4, <3>1, REAnswers, RECommands DEF RE!Abstract!IncrementWithTTL
  <2> QED BY <2>3, <2>4
<1>10. ASSUME RE!Refuse PROVE REInv' /\ RE!Abstract!Refuse
  <2>1. kanswer' \in RE!Answer
    BY <1>10 DEF RE!Refuse, RE!Answer
  <2> QED BY <1>10, <2>1 DEF RE!Refuse, RE!Abstract!Refuse, RE!Abstract!Nothing, REInv, RE!RedisTypeOK
<1>11. ASSUME RE!Tick PROVE REInv' /\ RE!Abstract!Tick
  <2>1. kanswer' \in RE!Answer
    BY <1>11 DEF RE!Tick, RE!Answer
  <2>2. REInv'
    BY <1>a, <1>11, <2>1 DEF RE!Tick, REInv, RE!RedisTypeOK
  <2>3. RE!Abstract!Tick
    BY <1>a, <1>11 DEF RE!Tick, RE!Abstract!Tick
  <2> QED BY <2>2, <2>3
<1>12. ASSUME UNCHANGED kVars PROVE REInv' /\ UNCHANGED RE!Abstract!vars
  BY <1>12 DEF kVars, RE!Abstract!vars, REInv, RE!RedisTypeOK
<1> QED
  BY <1>1, <1>2, <1>3, <1>4, <1>5, <1>6, <1>7, <1>8, <1>9, <1>10, <1>11, <1>12
     DEF RE!Next, RE!Abstract!Next

-----------------------------------------------------------------------------
(* The reservations of the Redis store, which are held in the variables of *)
(* those of the memory store.                                              *)

RRInv == RR!TypeOK /\ Cardinality(reservations) <= Limit

LEMMA RRNames ==
  /\ RR!Live = Live
  /\ \A S : RR!Cardinality(S) = Cardinality(S) /\ Pool!Cardinality(S) = Cardinality(S)
<1>1. RR!Live = Live
  BY DEF RR!Live, Live
<1>2. \A S : RR!Cardinality(S) = Cardinality(S) /\ Pool!Cardinality(S) = Cardinality(S)
  BY Zenon DEF RR!Cardinality, Pool!Cardinality, Cardinality
<1> QED BY <1>1, <1>2

LEMMA RRInit == RR!Init => RRInv
  BY PoolAssumption, FS_EmptySet DEF RR!Init, RRInv, RR!TypeOK

\* Every script keeps the set within the limit, and is a step of the pool.
LEMMA RRStep ==
  ASSUME RRInv, [RR!Next]_<<reservations, left, answer>>
  PROVE  RRInv' /\ [Pool!Next]_<<Live, answer>>
<1> USE PoolAssumption
<1>a. /\ reservations \in SUBSET SID /\ left \in [SID -> 0 .. MaxTTL]
      /\ Live \in SUBSET reservations /\ Live \in SUBSET SID
      /\ IsFiniteSet(Live) /\ Cardinality(Live) \in Nat /\ Cardinality(reservations) \in Nat
      /\ Cardinality(Live) <= Cardinality(reservations) /\ Cardinality(reservations) <= Limit
  BY Counting DEF RRInv, RR!TypeOK, Live
<1>1. ASSUME NEW s \in SID, NEW ttl \in 0 .. MaxTTL, RR!luaReserveSession(s, ttl)
      PROVE  RRInv' /\ Pool!Grant(s)
  <2>1. /\ s \in Live \/ Cardinality(Live) < Limit
        /\ reservations' = Live \cup {s} /\ left' = [left EXCEPT ![s] = ttl] /\ answer' = "granted"
    BY <1>1, RRNames DEF RR!luaReserveSession, RR!Fits, RR!Purged
  <2>2. Cardinality(Live \cup {s}) <= Limit
    <3>1. CASE s \in Live
      <4>1. Live \cup {s} = Live
        BY <3>1
      <4> QED BY <1>a, <4>1
    <3>2. CASE s \notin Live
      <4>1. Cardinality(Live \cup {s}) = Cardinality(Live) + 1
        BY <1>a, <3>2, FS_AddElement
      <4> QED BY <1>a, <2>1, <3>2, <4>1
    <3> QED BY <3>1, <3>2
  <2>3. RRInv'
    BY <1>a, <2>1, <2>2 DEF RRInv, RR!TypeOK
  <2>4. Live' \in {Live \cup {s}, Live \ {s}}
    <3>1. \A r \in SID : r # s => (r \in Live' <=> r \in Live)
      BY <1>a, <2>1 DEF Live
    <3>2. Live' \in SUBSET SID
      BY <1>a, <2>1 DEF Live
    <3> QED BY <1>a, <3>1, <3>2
  <2> QED BY <2>1, <2>3, <2>4, RRNames DEF Pool!Grant
<1>2. ASSUME NEW s \in SID, RR!luaReserveRefused(s) PROVE RRInv' /\ Pool!Refuse(s)
  <2>1. /\ s \notin Live /\ Cardinality(Live) >= Limit
        /\ reservations' = Live /\ left' = left /\ answer' = "refused"
    BY <1>a, <1>2, RRNames DEF RR!luaReserveRefused, RR!Fits, RR!Purged
  <2>2. Live' = Live
    BY <1>a, <2>1 DEF Live
  <2>3. RRInv'
    BY <1>a, <2>1 DEF RRInv, RR!TypeOK
  <2> QED BY <2>1, <2>2, <2>3, RRNames DEF Pool!Refuse
<1>3. ASSUME NEW s \in SID, RR!ReleaseSession(s) PROVE RRInv' /\ Pool!Shrink
  <2>1. reservations' = reservations \ {s} /\ left' = left /\ answer' = "none"
    BY <1>3 DEF RR!ReleaseSession
  <2>2. Cardinality(reservations') \in Nat /\ Cardinality(reservations') <= Cardinality(reservations)
    <3>1. reservations' \in SUBSET reservations
      BY <2>1
    <3> QED BY <1>a, <3>1, Counting
  <2>3. RRInv'
    BY <1>a, <2>1, <2>2 DEF RRInv, RR!TypeOK
  <2>4. Live' \in SUBSET Live
    BY <2>1 DEF Live
  <2> QED BY <2>1, <2>3, <2>4 DEF Pool!Shrink
<1>4. ASSUME NEW old \in SID, NEW new \in SID, NEW ttl \in 0 .. MaxTTL,
             RR!luaMoveSessionReservation(old, new, ttl)
      PROVE  RRInv' /\ Pool!Move(old, new)
  <2>1. /\ old \in reservations /\ reservations' = (reservations \ {old}) \cup {new}
        /\ left' = [left EXCEPT ![new] = ttl] /\ answer' = "none"
    BY <1>4 DEF RR!luaMoveSessionReservation
  <2>2. Cardinality(reservations') <= Cardinality(reservations)
    BY <1>a, <2>1, Replacing
  <2>3. /\ reservations' \in SUBSET SID /\ Live' \in SUBSET reservations' /\ Live' \in SUBSET SID
        /\ left' \in [SID -> 0 .. MaxTTL]
    BY <1>a, <2>1 DEF Live
  <2>4. /\ Cardinality(reservations') \in Nat /\ Cardinality(Live') \in Nat
        /\ Cardinality(Live') <= Cardinality(reservations')
    BY <2>3, Counting
  <2>5. RRInv' /\ Cardinality(Live') <= Limit
    BY <1>a, <2>1, <2>2, <2>3, <2>4 DEF RRInv, RR!TypeOK
  <2>6. Live' \in {(Live \ {old}) \cup {new}, Live \ {old, new}}
    <3>1. \A r \in SID : r # new => (r \in Live' <=> r \in Live /\ r # old)
      BY <1>a, <2>1 DEF Live
    <3> QED BY <1>a, <2>3, <3>1
  <2> QED BY <2>1, <2>5, <2>6, RRNames DEF Pool!Move
<1>5. ASSUME RR!Tick PROVE RRInv' /\ Pool!Shrink
  <2>1. Live' \in SUBSET Live
    BY <1>a, <1>5 DEF RR!Tick, Live
  <2>2. RRInv'
    BY <1>a, <1>5 DEF RR!Tick, RRInv, RR!TypeOK
  <2> QED BY <1>5, <2>1, <2>2 DEF RR!Tick, Pool!Shrink
<1>6. ASSUME UNCHANGED <<reservations, left, answer>> PROVE RRInv' /\ UNCHANGED <<Live, answer>>
  BY <1>6 DEF RRInv, RR!TypeOK, Live
<1> QED BY <1>1, <1>2, <1>3, <1>4, <1>5, <1>6 DEF RR!Next, Pool!Next

-----------------------------------------------------------------------------
(* The end of the memory store.                                            *)

\* Whatever users, closers and the janitor do, the mutex and closeOnce have an owner
\* that exists.
LEMMA MCInit == MC!Init => MC!CloseTypeOK
<1> SUFFICES ASSUME MC!Init PROVE MC!CloseTypeOK
  OBVIOUS
<1>1. marked \in BOOLEAN /\ stopped \in BOOLEAN
  BY Zenon DEF MC!Init
<1> QED BY <1>1 DEF MC!Init, MC!CloseTypeOK

LEMMA MCNext == MC!CloseTypeOK /\ [MC!Next]_cVars => MC!CloseTypeOK'
<1> SUFFICES ASSUME MC!CloseTypeOK, [MC!Next]_cVars PROVE MC!CloseTypeOK'
  OBVIOUS
<1> USE DEF MC!CloseTypeOK
<1>1. ASSUME NEW u \in User, MC!Begin(u) \/ MC!Lock(u) \/ MC!Unlock(u) PROVE MC!CloseTypeOK'
  BY <1>1 DEF MC!Begin, MC!Lock, MC!Unlock
<1>2. CASE MC!JanitorTicks \/ MC!JanitorLocks \/ MC!JanitorUnlocks \/ MC!JanitorStops
  BY <1>2 DEF MC!JanitorTicks, MC!JanitorLocks, MC!JanitorUnlocks, MC!JanitorStops
<1>3. ASSUME NEW c \in Closer, MC!CallClose(c) \/ MC!CloseLocks(c) \/ MC!Closing(c) PROVE MC!CloseTypeOK'
  <2>1. marked' \in BOOLEAN /\ stopped' \in BOOLEAN
    BY <1>3, Zenon DEF MC!CallClose, MC!CloseLocks, MC!Closing, MC!Do, MC!CloseAgain, MC!CloseMarks,
                       MC!CloseStops, MC!CloseReturns
  <2> QED BY <1>3, <2>1 DEF MC!CallClose, MC!CloseLocks, MC!Closing, MC!Do, MC!CloseAgain,
                            MC!CloseMarks, MC!CloseStops, MC!CloseReturns, MC!Step
<1>4. CASE UNCHANGED cVars
  BY <1>4 DEF cVars
<1> QED BY <1>1, <1>2, <1>3, <1>4 DEF MC!Next

\* One holds the mutex and one runs the function of closeOnce; once it is over, the store
\* is marked closed, s.stop is closed and the janitor is gone.
CloseOrder ==
  /\ \A u \in User : user[u] = "in" => mu = u
  /\ janitor = "sweeping" => mu = "janitor"
  /\ \A c \in Closer : close[c] = "locked" => mu = c
  /\ \A c \in Closer : close[c] \in {"inside", "locked", "unlocked", "stopped"} <=> once = c
  /\ \A c \in Closer : close[c] = "returned" => once = "over"
  /\ \A c \in Closer : close[c] \in {"unlocked", "stopped"} => marked
  /\ once = "over" => marked /\ janitor = "done"
  /\ stopped => once = "over" \/ \E c \in Closer : close[c] = "stopped"

CloseInv == MC!CloseTypeOK /\ CloseOrder

LEMMA CloseInit == MC!Init => CloseInv
<1> SUFFICES ASSUME MC!Init PROVE CloseInv
  OBVIOUS
<1>1. ~stopped
  BY Zenon DEF MC!Init
<1>2. /\ user = [u \in User |-> "out"] /\ janitor = "select" /\ once = "free"
      /\ close = [c \in Closer |-> "out"]
  BY DEF MC!Init
<1>3. CloseOrder
  BY <1>1, <1>2, GoroutinesAssumption DEF CloseOrder
<1> QED BY <1>3, MCInit DEF CloseInv

\* Where a closer is, and what a step of another leaves of it.
LEMMA CloseStep ==
  ASSUME MC!CloseTypeOK, NEW c \in Closer, NEW a, NEW b, MC!Step(c, a, b)
  PROVE  close[c] = a /\ close'[c] = b /\ \A d \in Closer \ {c} : close'[d] = close[d]
  BY DEF MC!CloseTypeOK, MC!Step

LEMMA CloseNext == CloseInv /\ [MC!Next]_cVars => CloseInv'
<1> SUFFICES ASSUME CloseInv, [MC!Next]_cVars PROVE CloseOrder'
  BY MCNext DEF CloseInv
<1>0. MC!CloseTypeOK /\ CloseOrder
  BY DEF CloseInv
<1>1. ASSUME NEW u \in User, MC!Begin(u) \/ MC!Lock(u) \/ MC!Unlock(u) PROVE CloseOrder'
  <2>1. UNCHANGED <<janitor, once, close, marked, stopped>>
    BY <1>1 DEF MC!Begin, MC!Lock, MC!Unlock
  <2>2. /\ \A v \in User : user'[v] = "in" => mu' = v
        /\ janitor = "sweeping" => mu' = "janitor"
        /\ \A c \in Closer : close[c] = "locked" => mu' = c
    BY <1>0, <1>1, GoroutinesAssumption DEF MC!Begin, MC!Lock, MC!Unlock, CloseOrder, MC!CloseTypeOK
  <2> QED BY <1>0, <2>1, <2>2, Zenon DEF CloseOrder
<1>2. CASE MC!JanitorTicks \/ MC!JanitorLocks \/ MC!JanitorUnlocks \/ MC!JanitorStops
  <2>1. UNCHANGED <<user, once, close, marked, stopped>>
    BY <1>2 DEF MC!JanitorTicks, MC!JanitorLocks, MC!JanitorUnlocks, MC!JanitorStops
  <2>2. /\ \A v \in User : user[v] = "in" => mu' = v
        /\ janitor' = "sweeping" => mu' = "janitor"
        /\ \A c \in Closer : close[c] = "locked" => mu' = c
        /\ once = "over" => janitor' = "done"
    BY <1>0, <1>2, GoroutinesAssumption
    DEF MC!JanitorTicks, MC!JanitorLocks, MC!JanitorUnlocks, MC!JanitorStops, CloseOrder
  <2> QED BY <1>0, <2>1, <2>2, Zenon DEF CloseOrder
<1>3. ASSUME NEW c \in Closer, MC!CallClose(c) PROVE CloseOrder'
  <2>1. MC!Step(c, "out", "called") /\ UNCHANGED <<mu, user, janitor, once, marked, stopped>>
    BY <1>3 DEF MC!CallClose
  <2> QED BY <1>0, <2>1, CloseStep DEF CloseOrder
<1>4. ASSUME NEW c \in Closer, MC!CloseLocks(c) PROVE CloseOrder'
  <2>1. /\ mu = "nobody" /\ mu' = c /\ MC!Step(c, "inside", "locked")
        /\ UNCHANGED <<user, janitor, once, marked, stopped>>
    BY <1>4 DEF MC!CloseLocks
  <2> QED BY <1>0, <2>1, CloseStep, GoroutinesAssumption DEF CloseOrder
<1>5. ASSUME NEW c \in Closer, MC!Do(c) PROVE CloseOrder'
  <2>1. /\ once = "free" /\ once' = c /\ MC!Step(c, "called", "inside")
        /\ UNCHANGED <<mu, user, janitor, marked, stopped>>
    BY <1>5 DEF MC!Do
  <2> QED BY <1>0, <2>1, CloseStep, GoroutinesAssumption DEF CloseOrder
<1>6. ASSUME NEW c \in Closer, MC!CloseAgain(c) PROVE CloseOrder'
  <2>1. /\ once = "over" /\ MC!Step(c, "called", "returned")
        /\ UNCHANGED <<mu, user, janitor, once, marked, stopped>>
    BY <1>6 DEF MC!CloseAgain
  <2> QED BY <1>0, <2>1, CloseStep, GoroutinesAssumption DEF CloseOrder
<1>7. ASSUME NEW c \in Closer, MC!CloseMarks(c) PROVE CloseOrder'
  <2>1. /\ MC!Step(c, "locked", "unlocked") /\ mu' = "nobody"
        /\ UNCHANGED <<user, janitor, once, stopped>>
    BY <1>7 DEF MC!CloseMarks
  <2>2. marked'
    BY <1>7, Zenon DEF MC!CloseMarks
  <2>3. mu = c /\ once = c /\ once # "over"
    BY <1>0, <2>1, CloseStep, GoroutinesAssumption DEF CloseOrder
  <2> QED BY <1>0, <2>1, <2>2, <2>3, CloseStep, GoroutinesAssumption DEF CloseOrder
<1>8. ASSUME NEW c \in Closer, MC!CloseStops(c) PROVE CloseOrder'
  <2>1. /\ MC!Step(c, "unlocked", "stopped") /\ UNCHANGED <<mu, user, janitor, once, marked>>
    BY <1>8 DEF MC!CloseStops
  <2> QED BY <1>0, <2>1, CloseStep DEF CloseOrder
<1>9. ASSUME NEW c \in Closer, MC!CloseReturns(c) PROVE CloseOrder'
  <2>1. /\ janitor = "done" /\ MC!Step(c, "stopped", "returned") /\ once' = "over"
        /\ UNCHANGED <<mu, user, janitor, marked, stopped>>
    BY <1>9 DEF MC!CloseReturns
  <2>2. once = c /\ marked
    BY <1>0, <2>1, CloseStep DEF CloseOrder
  <2> QED BY <1>0, <2>1, <2>2, CloseStep, GoroutinesAssumption DEF CloseOrder
<1>10. CASE UNCHANGED cVars
  <2>1. UNCHANGED <<mu, user, janitor, once, close, marked, stopped>>
    BY <1>10 DEF cVars
  <2> QED BY <1>0, <2>1, Zenon DEF CloseOrder
<1> QED
  BY <1>1, <1>2, <1>3, <1>4, <1>5, <1>6, <1>7, <1>8, <1>9, <1>10 DEF MC!Next, MC!Closing

\* A step closes s.stop only while it is open, and leaves the janitor gone once a Close
\* has returned.
EndsOnce ==
  /\ \A c \in Closer : MC!CloseStops(c) => ~stopped
  /\ (\E c \in Closer : close[c] = "returned") => janitor = "done" /\ janitor' = "done"

LEMMA CloseEndsOnce == ASSUME CloseInv, MC!Next PROVE EndsOnce
<1>1. ASSUME NEW c \in Closer, MC!CloseStops(c) PROVE ~stopped
  <2>1. close[c] = "unlocked" /\ once = c
    BY <1>1, CloseStep DEF MC!CloseStops, CloseInv, CloseOrder
  <2>2. once # "over" /\ \A d \in Closer : close[d] = "stopped" => once = d
    BY <2>1, GoroutinesAssumption DEF CloseInv, CloseOrder
  <2> QED BY <2>1, <2>2 DEF CloseInv, CloseOrder
<1>2. ASSUME \E c \in Closer : close[c] = "returned" PROVE janitor = "done" /\ janitor' = "done"
  <2>1. once = "over" /\ janitor = "done"
    BY <1>2 DEF CloseInv, CloseOrder
  <2>2. CloseInv'
    BY CloseNext
  <2>3. \E c \in Closer : close'[c] = "returned"
    <3>1. PICK c \in Closer : close[c] = "returned"
      BY <1>2
    <3>2. ASSUME NEW d \in Closer, NEW a \in {"out", "called", "inside", "locked", "unlocked", "stopped"}, NEW b, MC!Step(d, a, b)
          PROVE  close'[c] = close[c]
      BY <3>1, <3>2, CloseStep DEF CloseInv
    <3> QED BY <3>1, <3>2 DEF MC!Next, MC!Begin, MC!Lock, MC!Unlock, MC!JanitorTicks, MC!JanitorLocks,
              MC!JanitorUnlocks, MC!JanitorStops, MC!CallClose, MC!CloseLocks, MC!Closing, MC!Do,
              MC!CloseAgain, MC!CloseMarks, MC!CloseStops, MC!CloseReturns
  <2> QED BY <2>1, <2>2, <2>3 DEF CloseInv, CloseOrder
<1> QED BY <1>1, <1>2 DEF EndsOnce

-----------------------------------------------------------------------------
(* Token buckets.  First, about a bucket of either store by itself: t      *)
(* tokens, last updated a ago, m on its meter.                             *)

\* The times since a bucket was updated, by a name that the provers do not look through.
Age == Nat

\* What can be granted without going over the budget is what the bucket holds, and what
\* it would be refilled with.
Covered(t, a, m) == m \in Int /\ m <= Cap /\ m >= Least(Cap, t + a * Rate)

\* A wait that was promised is long enough.
Honest(t, p) == p # NoPromise => p.wait >= 1 /\ t + p.wait * Rate >= p.cost

LEMMA TimesRate ==
  ASSUME NEW x \in Int, NEW y \in Int, x <= y
  PROVE  x * Rate \in Int /\ y * Rate \in Int /\ x * Rate <= y * Rate
  BY BucketsAssumption

\* A wait is rounded up, and never longer than it takes with one token at a time.
LEMMA Rounding ==
  ASSUME NEW missing \in Nat \ {0}
  PROVE  RetryAfter(missing) \in 1 .. missing /\ RetryAfter(missing) * Rate >= missing
<1> DEFINE a == missing + Rate - 1
          q == a \div Rate
<1>1. a \in Nat /\ Rate \in Nat \ {0} /\ missing \in Nat /\ missing >= 1 /\ a >= Rate
  BY BucketsAssumption
<1>2. q \in Int /\ Rate * q <= a /\ a < Rate * q + Rate
  BY <1>1
<1>3. Rate * q >= missing
  BY <1>1, <1>2
<1>4. q >= 1
  BY <1>1, <1>2
<1>5. q <= missing
  BY <1>1, <1>2
<1> QED BY <1>1, <1>2, <1>3, <1>4, <1>5 DEF RetryAfter

\* What products the lemmas below need.
LEMMA Products ==
  ASSUME NEW a \in Age, NEW lag \in Lag
  PROVE  /\ a \in Nat /\ lag \in Nat /\ lag <= Skew /\ Skew \in Nat
         /\ Rate \in Nat /\ Rate >= 1 /\ Burst \in Nat /\ Burst >= 1 /\ Cap \in Nat
         /\ a * Rate \in Nat /\ lag * Rate \in Nat /\ Skew * Rate \in Nat /\ Cap = Burst + Skew * Rate
         /\ lag * Rate <= Skew * Rate /\ Burst <= Cap
         /\ (a - lag) * Rate = a * Rate - lag * Rate
         /\ Rate * (lag - a) = lag * Rate - a * Rate
         /\ (a + 1) * Rate = a * Rate + Rate
         /\ a > lag => (a - lag) * Rate \in Nat
         /\ a <= lag => a * Rate <= lag * Rate
<1>1. /\ a \in Nat /\ lag \in Nat /\ lag <= Skew /\ Skew \in Nat
      /\ Rate \in Nat /\ Rate >= 1 /\ Burst \in Nat /\ Burst >= 1
  BY BucketsAssumption DEF Lag, Age
<1>2. Skew * Rate \in Nat /\ Cap = Burst + Skew * Rate
  BY <1>1 DEF Cap
<1>3. lag * Rate \in Nat /\ lag * Rate <= Skew * Rate /\ a * Rate \in Nat
  BY <1>1, TimesRate
<1>4. (a <= lag => a * Rate <= lag * Rate) /\ (a > lag => (a - lag) * Rate \in Nat)
  BY <1>1, TimesRate
<1>5. /\ (a - lag) * Rate = a * Rate - lag * Rate
      /\ Rate * (lag - a) = lag * Rate - a * Rate
      /\ (a + 1) * Rate = a * Rate + Rate
  BY <1>1
<1> QED BY <1>1, <1>2, <1>3, <1>4, <1>5

\* A bucket that lapses would have been full, where its Window is long enough.
LEMMA LapsedFull ==
  ASSUME NEW b \in Bucket, RefillsInWindow(b), NEW t \in 0 .. Burst, NEW a \in Age, NEW m,
         Covered(t, a, m), a >= Window[b] - Skew
  PROVE  m = Cap
<1>0. 0 \in Lag /\ Skew \in Nat /\ Window[b] \in Nat /\ Burst \in Nat /\ Rate \in Nat
  BY BucketsAssumption DEF Lag
<1>1. a \in Nat /\ a * Rate \in Nat /\ Cap \in Nat /\ Cap = Burst + Skew * Rate
  BY <1>0, Products
<1>2. a * Rate >= (Window[b] - Skew) * Rate
  BY <1>0, <1>1, TimesRate
<1> DEFINE w == Window[b]
<1>3. w \in Nat /\ a * Rate >= (w - Skew) * Rate
  BY <1>0, <1>2
<1>b. Rate * (w - 2 * Skew) >= Burst
  BY Zenon DEF RefillsInWindow
<1> HIDE DEF w
<1>4. a * Rate >= Cap
  <2>1. (w - Skew) * Rate = Rate * (w - 2 * Skew) + Skew * Rate
    <3>1. w \in Int /\ Skew \in Int /\ Rate \in Int
      BY <1>0, <1>3
    <3>2. \A x, y, z \in Int : (x - y) * z = z * (x - 2 * y) + y * z
      BY Z3
    <3> QED BY <3>1, <3>2
  <2> QED BY <1>0, <1>1, <1>3, <1>b, <2>1
<1> QED BY <1>0, <1>1, <1>4 DEF Covered, Least

\* Refilling neither loses tokens nor makes any.
LEMMA Refill ==
  ASSUME NEW t \in 0 .. Burst, NEW a \in Age, NEW lag \in Lag, NEW m, Covered(t, a, m)
  PROVE  LET A == IF a > lag THEN Refilled(t, a - lag) ELSE t
             b == IF a > lag THEN lag ELSE a
         IN  A \in 0 .. Burst /\ A >= t /\ b \in Lag /\ m >= A + b * Rate /\ m <= Cap /\ m \in Int
<1>1. t \in Nat /\ t <= Burst
  BY Products
<1>2. CASE a > lag
  BY <1>1, <1>2, Products DEF Covered, Refilled, Least, Lag
<1>3. CASE ~(a > lag)
  <2>1. /\ a \in Nat /\ a <= lag /\ lag <= Skew /\ lag \in Nat /\ a * Rate \in Nat /\ Skew \in Nat
        /\ a * Rate <= lag * Rate /\ lag * Rate <= Skew * Rate /\ lag * Rate \in Nat
        /\ Cap = Burst + Skew * Rate /\ Cap \in Nat /\ Burst \in Nat
        /\ Skew * Rate \in Nat
    BY <1>3, Products
  <2> DEFINE x == t + a * Rate
  <2>2. x <= Cap /\ x \in Int
    BY <1>1, <2>1
  <2>a. m \in Int /\ m <= Cap /\ m >= Least(Cap, x)
    BY DEF Covered
  <2> HIDE DEF x
  <2>b. m >= x
    BY <2>1, <2>2, <2>a DEF Least
  <2>3. m \in Int /\ m <= Cap /\ m >= t + a * Rate
    BY <2>a, <2>b DEF x
  <2>4. a \in Lag
    BY <2>1 DEF Lag
  <2> QED BY <1>1, <1>3, <2>1, <2>3, <2>4
<1> QED BY <1>2, <1>3

\* What a call leaves of a bucket that is refilled to A and stamped b ago.
LEMMA Consuming ==
  ASSUME NEW A \in 0 .. Burst, NEW b \in Lag, NEW m \in Int, m >= A + b * Rate, m <= Cap, NEW cost \in Cost
  PROVE  LET granted == A >= cost
             t == IF granted THEN A - cost ELSE A
             p == IF granted THEN NoPromise ELSE [wait |-> RetryAfter(cost - A), cost |-> cost]
             n == IF granted THEN m - cost ELSE m
         IN  t \in 0 .. Burst /\ Covered(t, b, n) /\ n >= 0 /\ p \in Promise /\ Honest(t, p)
<1>0. cost \in Nat \ {0} /\ Burst \in Nat /\ Skew \in Nat /\ Rate \in Nat /\ b \in Nat /\ b \in Age
  BY BucketsAssumption DEF Lag, Age
<1>1. b * Rate \in Nat /\ Cap \in Nat
  BY <1>0, Products
<1>2. CASE A >= cost
  <2>1. NoPromise \in Promise
    BY <1>0 DEF NoPromise, Promise
  <2> QED BY <1>0, <1>1, <1>2, <2>1 DEF Covered, Honest, Least
<1>3. CASE ~(A >= cost)
  <2> DEFINE w == RetryAfter(cost - A)
  <2>1. w \in 1 .. (cost - A) /\ w * Rate >= cost - A
    BY <1>0, <1>3, Rounding
  <2> HIDE DEF w
  <2>2. w \in Nat /\ w * Rate \in Int /\ A + w * Rate >= cost
    BY <1>0, <2>1
  <2>3. [wait |-> w, cost |-> cost] \in Promise
    BY <2>2 DEF Promise
  <2>4. Honest(A, [wait |-> w, cost |-> cost])
    BY <2>1, <2>2 DEF Honest
  <2> QED BY <1>0, <1>1, <1>3, <2>3, <2>4 DEF Covered, Least, w
<1> QED BY <1>2, <1>3

\* Who waited for as long as it was told finds what it came for.
LEMMA Waited ==
  ASSUME NEW t \in 0 .. Burst, NEW a \in Age, NEW lag \in Lag, NEW p \in Promise,
         Honest(t, p), p # NoPromise, NEW cost \in Cost, cost <= p.cost, cost <= Burst, a - lag >= p.wait
  PROVE  a > lag /\ Refilled(t, a - lag) >= cost
<1>0. p.wait \in Nat /\ p.cost \in {0} \cup Cost
  BY DEF Promise
<1>a. p.wait >= 1 /\ t + p.wait * Rate >= p.cost
  BY DEF Honest
<1>b. p.wait \in Nat /\ t \in Nat
  BY <1>0, BucketsAssumption
<1>c. p.cost \in Int
  <2>1. CASE p.cost \in Cost
    <3>1. Cost \subseteq Nat \ {0}
      BY BucketsAssumption
    <3>2. \A c \in Cost : c \in Int
      BY <3>1
    <3> QED BY <2>1, <3>2
  <2>2. CASE p.cost = 0
    BY <2>2
  <2> QED BY <1>0, <2>1, <2>2
<1>1. p.wait \in Nat /\ p.cost \in Int /\ p.wait >= 1 /\ t + p.wait * Rate >= p.cost /\ t \in Nat
  BY <1>a, <1>b, <1>c
<1>2. cost \in Nat /\ a \in Nat /\ lag \in Nat /\ Burst \in Nat
  BY Products, BucketsAssumption
<1>3. a > lag /\ p.wait * Rate <= (a - lag) * Rate /\ p.wait * Rate \in Int /\ (a - lag) * Rate \in Int
  BY <1>1, <1>2, TimesRate
<1> QED BY <1>1, <1>2, <1>3 DEF Refilled, Least

\* Time passes.
LEMMA Passing ==
  ASSUME NEW b \in Bucket, NEW t \in 0 .. Burst, NEW a \in Age, NEW m, Covered(t, a, m)
  PROVE  /\ Least(a + 1, MaxAge(b)) \in Nat /\ Least(a + 1, MaxAge(b)) <= MaxAge(b)
         /\ Covered(t, Least(a + 1, MaxAge(b)), Least(m + Rate, Cap))
         /\ Least(m + Rate, Cap) >= m
<1>0. 0 \in Lag /\ MaxAge(b) \in Nat /\ MaxAge(b) >= Skew
  BY BucketsAssumption DEF Lag, MaxAge
<1>1. /\ a \in Nat /\ a * Rate \in Nat /\ Cap \in Nat /\ Rate \in Nat /\ t \in Nat
      /\ (a + 1) * Rate = a * Rate + Rate
  BY <1>0, Products
<1> QED BY <1>0, <1>1 DEF Covered, Least

-----------------------------------------------------------------------------
(* The token buckets of the memory store.                                  *)

\* The inductive invariant: the meter covers what is stored, a bucket is kept until its
\* Window is over by the latest caller's time, and promises are kept.
MBGood(b) ==
  /\ b \notin stored => meter[b] = Cap /\ promise[b] = NoPromise
  /\ b \in stored => /\ Covered(tokens[b], age[b], meter[b])
                     /\ age[b] + bleft[b] >= Window[b] - Skew
                     /\ Honest(tokens[b], promise[b])

MBInv ==
  /\ MB!BucketsTypeOK /\ MB!Bounded /\ MB!WithinBudget /\ MB!RetryHonest
  /\ \A b \in Bucket : MBGood(b)

\* The operators of Buckets are the same in every instance.
LEMMA MBNames ==
  /\ MB!Cap = Cap /\ MB!Lag = Lag /\ \A b : MB!MaxAge(b) = MaxAge(b)
  /\ MB!NoPromise = NoPromise /\ MB!Promise = Promise
  /\ \A x, y : MB!Least(x, y) = Least(x, y) /\ MB!Refilled(x, y) = Refilled(x, y)
  /\ \A x : MB!RetryAfter(x) = RetryAfter(x)
  /\ \A x, y, z : MB!Metered(x, y, z) = Metered(x, y, z)
  BY DEF MB!Cap, Cap, MB!Lag, Lag, MB!MaxAge, MaxAge, MB!NoPromise, NoPromise, MB!Promise, Promise,
         MB!Least, Least, MB!Refilled, Refilled, MB!RetryAfter, RetryAfter,
         MB!Metered, Metered, MB!RefillsInWindow, RefillsInWindow

LEMMA BucketConstants ==
  /\ Cap \in Nat /\ Skew \in Nat /\ Burst \in Nat /\ Rate \in Nat /\ Burst <= Cap
  /\ 0 \in Lag /\ \A lag \in Lag : lag \in Nat /\ lag <= Skew /\ Burst + lag * Rate <= Cap
  /\ \A cost \in Cost : cost \in Nat \ {0}
<1>1. /\ Skew \in Nat /\ Burst \in Nat /\ Rate \in Nat /\ 0 \in Lag /\ 0 \in Age
  BY BucketsAssumption DEF Lag, Age
<1>2. Cap \in Nat /\ Burst <= Cap
  BY <1>1, Products
<1>3. ASSUME NEW lag \in Lag PROVE lag \in Nat /\ lag <= Skew /\ Burst + lag * Rate <= Cap
  <2>1. /\ lag \in Nat /\ lag <= Skew /\ lag * Rate \in Nat /\ Skew * Rate \in Nat /\ lag * Rate <= Skew * Rate
        /\ Cap = Burst + Skew * Rate
    BY <1>1, Products
  <2> QED BY <1>1, <2>1
<1>4. \A cost \in Cost : cost \in Nat \ {0}
  BY BucketsAssumption
<1> QED BY <1>1, <1>2, <1>3, <1>4

LEMMA BucketTimes ==
  ASSUME NEW b \in Bucket
  PROVE  /\ Window[b] \in Nat \ {0} /\ MaxAge(b) \in Nat /\ MaxAge(b) = Window[b] + Skew
         /\ \A lag \in Lag : lag <= MaxAge(b) /\ Window[b] - lag \in -Skew .. Window[b]
  BY BucketsAssumption DEF MaxAge, Lag

LEMMA BucketCounting ==
  ASSUME NEW S \in SUBSET Bucket, NEW T \in SUBSET S
  PROVE  /\ Cardinality(S) \in Nat /\ Cardinality(T) \in Nat
         /\ Cardinality(T) <= Cardinality(S)
         /\ \A b \in S : Cardinality(S \ {b}) = Cardinality(S) - 1
         /\ \A b \in Bucket : Cardinality(S \cup {b}) <= Cardinality(S) + 1
  BY SetCounting, BucketsAssumption

LEMMA MBCardinality == \A S : MB!Cardinality(S) = Cardinality(S)
  BY Zenon DEF MB!Cardinality, Cardinality

\* Whoever uses a bucket that is not stored makes room first.
LEMMA MBRoom ==
  ASSUME MBInv, NEW b \in Bucket, NEW lag \in Lag, NEW kept \in MB!Room(b, lag)
  PROVE  kept \in SUBSET stored /\ Cardinality(kept \cup {b}) <= MaxBuckets
<1> DEFINE U == MB!Unexpired(lag)
<1>0. /\ stored \in SUBSET Bucket /\ U \in SUBSET stored /\ MaxBuckets \in Nat \ {0}
      /\ Cardinality(stored) \in Nat /\ Cardinality(stored) <= MaxBuckets
      /\ Cardinality(U) \in Nat /\ Cardinality(U) <= Cardinality(stored)
  <2>1. stored \in SUBSET Bucket /\ U \in SUBSET stored
    BY DEF MBInv, MB!BucketsTypeOK, MB!Unexpired
  <2>2. Cardinality(stored) <= MaxBuckets
    BY MBCardinality DEF MBInv, MB!Bounded
  <2> QED BY <2>1, <2>2, BucketCounting, BucketsAssumption
<1>1. CASE b \in stored /\ kept = stored
  <2>1. kept \cup {b} = stored
    BY <1>1
  <2> QED BY <1>0, <1>1, <2>1
<1>2. ASSUME kept \in SUBSET stored, Cardinality(kept) < MaxBuckets
      PROVE  kept \in SUBSET stored /\ Cardinality(kept \cup {b}) <= MaxBuckets
  <2>1. kept \in SUBSET Bucket /\ kept \cup {b} \in SUBSET Bucket
    BY <1>0, <1>2
  <2>2. /\ Cardinality(kept) \in Nat /\ Cardinality(kept \cup {b}) \in Nat
        /\ Cardinality(kept \cup {b}) <= Cardinality(kept) + 1
    BY <2>1, BucketCounting
  <2> QED BY <1>0, <1>2, <2>2
<1>3. CASE b \notin stored /\ kept = stored /\ Cardinality(stored) < MaxBuckets
  BY <1>2, <1>3
<1>4. CASE kept = U /\ ~(Cardinality(U) >= MaxBuckets)
  BY <1>0, <1>2, <1>4
<1>5. CASE kept \in MB!EvictedFrom(U)
  <2>1. PICK o \in U : kept = U \ {o}
    BY <1>5 DEF MB!EvictedFrom
  <2>2. U \in SUBSET Bucket /\ kept \in SUBSET stored
    BY <1>0, <2>1
  <2>3. Cardinality(kept) = Cardinality(U) - 1
    BY <2>1, <2>2, BucketCounting
  <2> QED BY <1>0, <1>2, <2>2, <2>3
<1> QED BY <1>1, <1>3, <1>4, <1>5, MBCardinality DEF MB!Room

LEMMA MBTyped ==
  ASSUME MBInv, NEW b \in Bucket
  PROVE  /\ tokens[b] \in 0 .. Burst /\ bleft[b] \in -Skew .. Window[b]
         /\ age[b] \in Nat /\ age[b] \in Age /\ age[b] <= MaxAge(b)
         /\ meter[b] \in Int /\ meter[b] >= 0 /\ promise[b] \in Promise /\ MBGood(b)
  BY MBNames DEF MBInv, MB!BucketsTypeOK, MB!WithinBudget, Age

\* A bucket that is gone, or that its caller finds lapsed, is as good as new, or begins
\* a budget of its own.
LEMMA MBLapsed ==
  ASSUME MBInv, NEW b \in Bucket, b \notin stored \/ bleft[b] <= 0
  PROVE  Metered(b, TRUE, meter[b]) = Cap
<1>1. CASE b \notin stored
  BY <1>1, MBTyped DEF MBGood, Metered
<1>2. CASE b \in stored /\ bleft[b] <= 0 /\ RefillsInWindow(b)
  <2>1. /\ age[b] \in Nat /\ age[b] \in Age /\ bleft[b] \in -Skew .. Window[b] /\ tokens[b] \in 0 .. Burst
        /\ age[b] + bleft[b] >= Window[b] - Skew /\ Covered(tokens[b], age[b], meter[b])
    BY <1>2, MBTyped DEF MBGood
  <2>2. age[b] >= Window[b] - Skew
    BY <1>2, <2>1, BucketConstants, BucketTimes
  <2>3. meter[b] = Cap
    BY <1>2, <2>1, <2>2, LapsedFull
  <2> QED BY <2>3 DEF Metered
<1>3. CASE ~RefillsInWindow(b)
  BY <1>3, Zenon DEF Metered
<1> QED BY <1>1, <1>2, <1>3

LEMMA MBInit == MB!Init => MBInv
<1> SUFFICES ASSUME MB!Init PROVE MBInv
  OBVIOUS
<1>1. NoPromise \in Promise
  BY BucketConstants DEF NoPromise, Promise
<1>2. last = [due |-> FALSE, granted |-> FALSE] /\ last \in [due : BOOLEAN, granted : BOOLEAN]
  BY Zenon DEF MB!Init
<1>3. MB!BucketsTypeOK
  BY <1>1, <1>2, MBNames, BucketConstants, BucketTimes DEF MB!Init, MB!BucketsTypeOK
<1>6. MB!Bounded
  BY MBCardinality, FS_EmptySet, BucketsAssumption DEF MB!Init, MB!Bounded
<1>4. MB!RetryHonest
  BY <1>2 DEF MB!RetryHonest
<1>5. ASSUME NEW b \in Bucket PROVE MBGood(b) /\ meter[b] >= 0
  BY MBNames, BucketConstants DEF MB!Init, MBGood
<1> QED BY <1>3, <1>4, <1>5, <1>6 DEF MBInv, MB!WithinBudget

\* A step is good when it is good for every bucket.
LEMMA MBStep ==
  ASSUME stored' \in SUBSET Bucket, MB!Bounded', last' \in [due : BOOLEAN, granted : BOOLEAN], MB!RetryHonest',
         tokens' = [b \in Bucket |-> tokens'[b]], age' = [b \in Bucket |-> age'[b]],
         bleft' = [b \in Bucket |-> bleft'[b]], meter' = [b \in Bucket |-> meter'[b]],
         promise' = [b \in Bucket |-> promise'[b]],
         \A b \in Bucket : /\ tokens'[b] \in 0 .. Burst /\ age'[b] \in Nat /\ age'[b] <= MaxAge(b)
                           /\ bleft'[b] \in -Skew .. Window[b] /\ meter'[b] \in Int /\ meter'[b] >= 0
                           /\ promise'[b] \in Promise /\ MBGood(b)'
  PROVE  MBInv'
<1>1. /\ tokens' \in [Bucket -> 0 .. Burst] /\ age' \in [Bucket -> Nat]
      /\ bleft' \in [Bucket -> Int] /\ meter' \in [Bucket -> Int] /\ promise' \in [Bucket -> Promise]
  BY BucketTimes, BucketConstants
<1>2. MB!BucketsTypeOK'
  BY <1>1, MBNames DEF MB!BucketsTypeOK
<1> QED BY <1>2 DEF MBInv, MB!WithinBudget

LEMMA MBConsume ==
  ASSUME MBInv, NEW b \in Bucket, NEW cost \in Cost, NEW lag \in Lag, MB!ConsumeToken(b, cost, lag)
  PROVE  MBInv'
<1> DEFINE A == MB!Available(b, lag)
           u == MB!UpdatedAge(b, lag)
           due == MB!Due(b, cost, lag)
           p == IF A >= cost THEN NoPromise ELSE [wait |-> RetryAfter(cost - A), cost |-> cost]
           t == IF A >= cost THEN A - cost ELSE A
           budget == Metered(b, MB!Fresh(b, lag), meter[b])
           n == IF A >= cost THEN budget - cost ELSE budget
<1>1. PICK kept \in MB!Room(b, lag) :
        /\ stored' = kept \cup {b}
        /\ tokens' = [j \in Bucket |-> IF j = b THEN t ELSE IF j \in kept THEN tokens[j] ELSE 0]
        /\ age' = [j \in Bucket |-> IF j = b THEN u ELSE IF j \in kept THEN age[j] ELSE 0]
        /\ bleft' = [j \in Bucket |-> IF j = b THEN Window[b] - lag ELSE IF j \in kept THEN bleft[j] ELSE 0]
        /\ meter' = [j \in Bucket |-> IF j = b THEN n
                                      ELSE IF j \in MB!Unexpired(lag) \ (kept \cup {b}) THEN Cap
                                      ELSE Metered(j, j \notin kept, meter[j])]
        /\ promise' = [j \in Bucket |-> IF j = b THEN p ELSE IF j \in kept THEN promise[j] ELSE NoPromise]
        /\ last' = [due |-> due, granted |-> A >= cost]
  BY MBNames DEF MB!ConsumeToken
<1>2. stored \in SUBSET Bucket
  BY DEF MBInv, MB!BucketsTypeOK
<1>3. kept \in SUBSET stored /\ Cardinality(kept \cup {b}) <= MaxBuckets
  BY MBRoom
<1>4. /\ tokens[b] \in 0 .. Burst /\ bleft[b] \in -Skew .. Window[b]
      /\ age[b] \in Nat /\ age[b] \in Age /\ age[b] <= MaxAge(b)
      /\ meter[b] \in Int /\ promise[b] \in Promise /\ MBGood(b)
  BY MBTyped
<1>5. A \in 0 .. Burst /\ u \in Lag /\ budget \in Int /\ budget >= A + u * Rate /\ budget <= Cap
  <2>1. CASE MB!Fresh(b, lag)
    <3>1. A = Burst /\ u = lag
      BY <2>1 DEF MB!Available, MB!UpdatedAge
    <3>2. b \notin stored \/ bleft[b] <= 0
      BY <1>4, <2>1, BucketConstants DEF MB!Fresh
    <3>3. budget = Cap
      BY <2>1, <3>2, MBLapsed DEF Metered
    <3> QED BY <3>1, <3>3, BucketConstants
  <2>2. CASE ~MB!Fresh(b, lag)
    <3>1. Covered(tokens[b], age[b], meter[b])
      BY <1>4, <2>2 DEF MB!Fresh, MBGood
    <3>2. /\ A = IF age[b] > lag THEN Refilled(tokens[b], age[b] - lag) ELSE tokens[b]
          /\ u = IF age[b] > lag THEN lag ELSE age[b]
      BY <2>2, MBNames DEF MB!Available, MB!UpdatedAge
    <3>3. budget = meter[b]
      BY <2>2 DEF Metered
    <3> HIDE DEF budget
    <3> QED BY <1>4, <3>1, <3>2, <3>3, Refill
  <2> QED BY <2>1, <2>2
<1>6. due => A >= cost
  <2> SUFFICES ASSUME due PROVE A >= cost
    OBVIOUS
  <2>1. promise[b] # NoPromise /\ cost <= promise[b].cost /\ cost <= Burst /\ age[b] - lag >= promise[b].wait
    BY MBNames DEF MB!Due
  <2>2. b \in stored /\ Honest(tokens[b], promise[b])
    BY <1>4, <2>1 DEF MBGood
  <2>3. age[b] > lag /\ Refilled(tokens[b], age[b] - lag) >= cost
    BY <1>4, <2>1, <2>2, Waited
  <2>4. A = Burst \/ A = Refilled(tokens[b], age[b] - lag)
    BY <2>3, MBNames DEF MB!Available
  <2> QED BY <2>1, <2>3, <2>4, BucketConstants
<1>7. t \in 0 .. Burst /\ Covered(t, u, n) /\ n >= 0 /\ p \in Promise /\ Honest(t, p)
  <2> HIDE DEF A, u, budget
  <2> QED BY <1>5, Consuming
<1>8. due \in BOOLEAN /\ (A >= cost) \in BOOLEAN
  <2>1. due \in BOOLEAN
    BY Zenon DEF MB!Due
  <2>2. (A >= cost) \in BOOLEAN
    BY <1>5, BucketConstants
  <2> QED BY <2>1, <2>2
<1> HIDE DEF A, u, due, p, budget, t, n
<1>9. last' \in [due : BOOLEAN, granted : BOOLEAN] /\ MB!RetryHonest'
  BY <1>1, <1>6, <1>8 DEF MB!RetryHonest
<1>10. NoPromise \in Promise
  BY BucketConstants DEF NoPromise, Promise
<1>11. ASSUME NEW j \in Bucket
       PROVE  /\ tokens'[j] \in 0 .. Burst /\ age'[j] \in Nat /\ age'[j] <= MaxAge(j)
              /\ bleft'[j] \in -Skew .. Window[j] /\ meter'[j] \in Int /\ meter'[j] >= 0
              /\ promise'[j] \in Promise /\ MBGood(j)'
  <2>1. CASE j = b
    <3>1. tokens'[j] = t /\ age'[j] = u /\ bleft'[j] = Window[j] - lag /\ meter'[j] = n /\ promise'[j] = p
          /\ j \in stored'
      BY <1>1, <2>1
    <3>2. n \in Int
      BY <1>7 DEF Covered
    <3>3. MBGood(j)'
      <4>1. age'[j] + bleft'[j] >= Window[j] - Skew
        BY <1>5, <3>1, BucketConstants, BucketTimes
      <4> QED BY <1>7, <3>1, <4>1 DEF MBGood
    <3>4. age'[j] \in Nat /\ age'[j] <= MaxAge(j) /\ bleft'[j] \in -Skew .. Window[j]
      BY <1>5, <3>1, BucketConstants, BucketTimes
    <3> QED BY <1>7, <3>1, <3>2, <3>3, <3>4
  <2>2. CASE j # b /\ j \in kept
    <3>1. /\ tokens'[j] = tokens[j] /\ age'[j] = age[j] /\ bleft'[j] = bleft[j]
          /\ promise'[j] = promise[j] /\ j \in stored' /\ j \in stored
          /\ meter'[j] = Metered(j, FALSE, meter[j])
      BY <1>1, <1>3, <2>2
    <3>3. meter'[j] = meter[j]
      BY <3>1 DEF Metered
    <3>2. MBGood(j)'
      BY <3>1, <3>3, MBTyped DEF MBGood
    <3> QED BY <3>1, <3>2, <3>3, MBTyped
  <2>3. CASE j # b /\ j \notin kept
    <3>1. /\ tokens'[j] = 0 /\ age'[j] = 0 /\ bleft'[j] = 0 /\ promise'[j] = NoPromise /\ j \notin stored'
      BY <1>1, <2>3
    <3>2. CASE j \in MB!Unexpired(lag)
      <4>1. meter'[j] = Cap
        BY <1>1, <2>3, <3>2
      <4> QED BY <1>10, <3>1, <4>1, BucketConstants, BucketTimes DEF MBGood
    <3>3. CASE j \notin MB!Unexpired(lag)
      <4>1. meter'[j] = Metered(j, TRUE, meter[j])
        BY <1>1, <2>3, <3>3
      <4>2. j \notin stored \/ bleft[j] <= 0
        BY <3>3, MBTyped, BucketConstants DEF MB!Unexpired
      <4>3. meter'[j] = Cap
        BY <4>1, <4>2, MBLapsed
      <4> QED BY <1>10, <3>1, <4>3, BucketConstants, BucketTimes DEF MBGood
    <3> QED BY <3>2, <3>3
  <2> QED BY <2>1, <2>2, <2>3
<1>12. stored' \in SUBSET Bucket /\ MB!Bounded'
  BY <1>1, <1>2, <1>3, MBCardinality DEF MB!Bounded
<1>13. /\ tokens' = [j \in Bucket |-> tokens'[j]] /\ age' = [j \in Bucket |-> age'[j]]
       /\ bleft' = [j \in Bucket |-> bleft'[j]] /\ meter' = [j \in Bucket |-> meter'[j]]
       /\ promise' = [j \in Bucket |-> promise'[j]]
  BY <1>1
<1> QED BY <1>9, <1>11, <1>12, <1>13, MBStep

LEMMA MBNext == MBInv /\ [MB!Next]_bVars => MBInv'
<1> SUFFICES ASSUME MBInv, [MB!Next]_bVars PROVE MBInv'
  OBVIOUS
<1>0. stored \in SUBSET Bucket /\ NoPromise \in Promise
  BY BucketConstants DEF MBInv, MB!BucketsTypeOK, NoPromise, Promise
<1>1. ASSUME NEW b \in Bucket, NEW cost \in Cost, NEW lag \in Lag, MB!ConsumeToken(b, cost, lag)
      PROVE  MBInv'
  BY <1>1, MBConsume
<1>2. CASE MB!janitor
  <2> DEFINE kept == MB!Unexpired(0)
  <2>1. /\ stored' = kept
        /\ tokens' = [b \in Bucket |-> IF b \in kept THEN tokens[b] ELSE 0]
        /\ age' = [b \in Bucket |-> IF b \in kept THEN age[b] ELSE 0]
        /\ bleft' = [b \in Bucket |-> IF b \in kept THEN bleft[b] ELSE 0]
        /\ promise' = [b \in Bucket |-> IF b \in kept THEN promise[b] ELSE NoPromise]
        /\ meter' = [b \in Bucket |-> Metered(b, b \notin kept, meter[b])] /\ last' = last
    BY <1>2, MBNames DEF MB!janitor
  <2>2. kept \in SUBSET stored
    BY DEF MB!Unexpired
  <2>3. ASSUME NEW b \in Bucket
        PROVE  /\ tokens'[b] \in 0 .. Burst /\ age'[b] \in Nat /\ age'[b] <= MaxAge(b)
               /\ bleft'[b] \in -Skew .. Window[b] /\ meter'[b] \in Int /\ meter'[b] >= 0
               /\ promise'[b] \in Promise /\ MBGood(b)'
    <3>1. CASE b \in kept
      <4>1. meter'[b] = Metered(b, FALSE, meter[b])
        BY <2>1, <3>1
      <4>2. meter'[b] = meter[b]
        BY <4>1 DEF Metered
      <4> HIDE DEF kept
      <4> QED BY <2>1, <2>2, <3>1, <4>2, MBTyped DEF MBGood
    <3>2. CASE b \notin kept
      <4>1. b \notin stored \/ bleft[b] <= 0
        BY <3>2, MBTyped, BucketConstants DEF MB!Unexpired
      <4>3. meter'[b] = Metered(b, TRUE, meter[b])
        BY <2>1, <3>2
      <4>2. meter'[b] = Cap
        BY <4>1, <4>3, MBLapsed
      <4> HIDE DEF kept
      <4> QED BY <1>0, <2>1, <3>2, <4>2, BucketConstants, BucketTimes DEF MBGood
    <3> QED BY <3>1, <3>2
  <2>4. last' \in [due : BOOLEAN, granted : BOOLEAN] /\ MB!RetryHonest'
    BY <2>1 DEF MBInv, MB!BucketsTypeOK, MB!RetryHonest
  <2>5. MB!Bounded'
    <3>1. Cardinality(kept) <= Cardinality(stored) /\ Cardinality(kept) \in Nat /\ Cardinality(stored) \in Nat
      BY <1>0, <2>2, BucketCounting
    <3>2. Cardinality(stored) <= MaxBuckets
      BY MBCardinality DEF MBInv, MB!Bounded
    <3> QED BY <2>1, <3>1, <3>2, MBCardinality, BucketsAssumption DEF MB!Bounded
  <2> HIDE DEF kept
  <2>6. /\ tokens' = [b \in Bucket |-> tokens'[b]] /\ age' = [b \in Bucket |-> age'[b]]
        /\ bleft' = [b \in Bucket |-> bleft'[b]] /\ meter' = [b \in Bucket |-> meter'[b]]
        /\ promise' = [b \in Bucket |-> promise'[b]]
    BY <2>1
  <2> QED BY <1>0, <2>1, <2>2, <2>3, <2>4, <2>5, <2>6, MBStep
<1>3. CASE MB!Tick
  <2>1. /\ age' = [b \in Bucket |-> IF b \in stored THEN Least(age[b] + 1, MaxAge(b)) ELSE 0]
        /\ bleft' = [b \in Bucket |-> IF b \in stored /\ bleft[b] > -Skew THEN bleft[b] - 1 ELSE bleft[b]]
        /\ meter' = [b \in Bucket |-> Least(meter[b] + Rate, Cap)]
        /\ stored' = stored /\ tokens' = tokens /\ promise' = promise
    BY <1>3, MBNames DEF MB!Tick
  <2>2. last' = [due |-> FALSE, granted |-> FALSE] /\ last' \in [due : BOOLEAN, granted : BOOLEAN]
    BY <1>3, Zenon DEF MB!Tick
  <2>3. ASSUME NEW b \in Bucket
        PROVE  /\ tokens'[b] \in 0 .. Burst /\ age'[b] \in Nat /\ age'[b] <= MaxAge(b)
               /\ bleft'[b] \in -Skew .. Window[b] /\ meter'[b] \in Int /\ meter'[b] >= 0
               /\ promise'[b] \in Promise /\ MBGood(b)'
    <3>1. /\ tokens[b] \in 0 .. Burst /\ bleft[b] \in -Skew .. Window[b]
          /\ age[b] \in Nat /\ age[b] \in Age /\ age[b] <= MaxAge(b)
          /\ meter[b] \in Int /\ meter[b] >= 0 /\ promise[b] \in Promise /\ MBGood(b)
      BY MBTyped
    <3>2. bleft'[b] \in -Skew .. Window[b]
      BY <2>1, <3>1, BucketConstants, BucketTimes
    <3>3. CASE b \in stored
      <4>1. Covered(tokens[b], age[b], meter[b])
        BY <3>1, <3>3 DEF MBGood
      <4>2. /\ age'[b] \in Nat /\ age'[b] <= MaxAge(b) /\ Covered(tokens[b], age'[b], meter'[b]) /\ meter'[b] >= meter[b]
        BY <2>1, <3>1, <3>3, <4>1, Passing
      <4>3. age'[b] + bleft'[b] >= Window[b] - Skew
        BY <2>1, <3>1, <3>3, BucketConstants, BucketTimes DEF MBGood, Least
      <4>4. MBGood(b)'
        BY <2>1, <3>1, <3>3, <4>2, <4>3 DEF MBGood
      <4>5. meter'[b] \in Int /\ meter'[b] >= 0
        BY <3>1, <4>2 DEF Covered
      <4> QED BY <2>1, <3>1, <3>2, <4>2, <4>4, <4>5
    <3>4. CASE b \notin stored
      <4>1. meter'[b] = Cap
        BY <2>1, <3>1, <3>4, BucketConstants DEF MBGood, Least
      <4> QED BY <2>1, <3>1, <3>2, <3>4, <4>1, BucketConstants, BucketTimes DEF MBGood
    <3> QED BY <3>3, <3>4
  <2>4. MB!RetryHonest' /\ MB!Bounded'
    BY <2>1, <2>2 DEF MB!RetryHonest, MB!Bounded, MBInv
  <2>5. tokens = [b \in Bucket |-> tokens[b]] /\ promise = [b \in Bucket |-> promise[b]]
    BY DEF MBInv, MB!BucketsTypeOK
  <2>6. /\ tokens' = [b \in Bucket |-> tokens'[b]] /\ age' = [b \in Bucket |-> age'[b]]
        /\ bleft' = [b \in Bucket |-> bleft'[b]] /\ meter' = [b \in Bucket |-> meter'[b]]
        /\ promise' = [b \in Bucket |-> promise'[b]]
    BY <2>1, <2>5
  <2> QED BY <1>0, <2>1, <2>2, <2>3, <2>4, <2>6, MBStep
<1>4. CASE UNCHANGED bVars
  BY <1>4 DEF bVars, MBInv, MB!BucketsTypeOK, MB!Bounded, MB!WithinBudget, MB!RetryHonest, MBGood
<1> QED BY <1>1, <1>2, <1>3, <1>4, MBNames DEF MB!Next

-----------------------------------------------------------------------------
(* The token buckets of the Redis store.                                   *)

\* The inductive invariant, as for the memory store; a bucket is kept for a whole Window
\* by the server's clock.
RBGood(b) ==
  /\ rpttl[b] = 0 => rmeter[b] = Cap /\ rpromise[b] = NoPromise
  /\ rpttl[b] > 0 => /\ Covered(rtokens[b], rage[b], rmeter[b])
                     /\ rage[b] + rpttl[b] >= Window[b]
                     /\ Honest(rtokens[b], rpromise[b])

RBInv == RB!RedisBucketsTypeOK /\ RB!WithinBudget /\ RB!RetryHonest /\ \A b \in Bucket : RBGood(b)

LEMMA RBNames ==
  /\ RB!Cap = Cap /\ RB!Lag = Lag /\ \A b : RB!MaxAge(b) = MaxAge(b)
  /\ RB!NoPromise = NoPromise /\ RB!Promise = Promise
  /\ \A x, y : RB!Least(x, y) = Least(x, y) /\ RB!Refilled(x, y) = Refilled(x, y)
  /\ \A x : RB!RetryAfter(x) = RetryAfter(x)
  /\ \A x, y, z : RB!Metered(x, y, z) = Metered(x, y, z)
  BY DEF RB!Cap, Cap, RB!Lag, Lag, RB!MaxAge, MaxAge, RB!NoPromise, NoPromise, RB!Promise, Promise,
         RB!Least, Least, RB!Refilled, Refilled, RB!RetryAfter, RetryAfter,
         RB!Metered, Metered, RB!RefillsInWindow, RefillsInWindow

LEMMA RBTyped ==
  ASSUME RBInv, NEW b \in Bucket
  PROVE  /\ rtokens[b] \in 0 .. Burst /\ rpttl[b] \in Nat /\ rpttl[b] <= Window[b]
         /\ rage[b] \in Nat /\ rage[b] \in Age /\ rage[b] <= MaxAge(b)
         /\ rmeter[b] \in Int /\ rmeter[b] >= 0 /\ rpromise[b] \in Promise /\ RBGood(b)
  BY RBNames DEF RBInv, RB!RedisBucketsTypeOK, RB!WithinBudget, Age

LEMMA RBInit == RB!Init => RBInv
<1> SUFFICES ASSUME RB!Init PROVE RBInv
  OBVIOUS
<1>1. NoPromise \in Promise
  BY BucketConstants DEF NoPromise, Promise
<1>2. rlast = [due |-> FALSE, granted |-> FALSE] /\ rlast \in [due : BOOLEAN, granted : BOOLEAN]
  BY Zenon DEF RB!Init
<1>3. RB!RedisBucketsTypeOK
  BY <1>1, <1>2, RBNames, BucketConstants, BucketTimes DEF RB!Init, RB!RedisBucketsTypeOK
<1>4. RB!RetryHonest
  BY <1>2 DEF RB!RetryHonest
<1>5. ASSUME NEW b \in Bucket PROVE RBGood(b) /\ rmeter[b] >= 0
  BY RBNames, BucketConstants DEF RB!Init, RBGood
<1> QED BY <1>3, <1>4, <1>5 DEF RBInv, RB!WithinBudget

\* A step is good when it is good for every bucket.
LEMMA RBStep ==
  ASSUME rlast' \in [due : BOOLEAN, granted : BOOLEAN], RB!RetryHonest',
         rtokens' = [b \in Bucket |-> rtokens'[b]], rage' = [b \in Bucket |-> rage'[b]],
         rpttl' = [b \in Bucket |-> rpttl'[b]], rmeter' = [b \in Bucket |-> rmeter'[b]],
         rpromise' = [b \in Bucket |-> rpromise'[b]],
         \A b \in Bucket : /\ rtokens'[b] \in 0 .. Burst /\ rage'[b] \in Nat /\ rage'[b] <= MaxAge(b)
                           /\ rpttl'[b] \in Nat /\ rpttl'[b] <= Window[b] /\ rmeter'[b] \in Int /\ rmeter'[b] >= 0
                           /\ rpromise'[b] \in Promise /\ RBGood(b)'
  PROVE  RBInv'
<1>1. /\ rtokens' \in [Bucket -> 0 .. Burst] /\ rage' \in [Bucket -> Nat]
      /\ rpttl' \in [Bucket -> Nat] /\ rmeter' \in [Bucket -> Int] /\ rpromise' \in [Bucket -> Promise]
  OBVIOUS
<1>2. RB!RedisBucketsTypeOK'
  BY <1>1, RBNames DEF RB!RedisBucketsTypeOK
<1> QED BY <1>2 DEF RBInv, RB!WithinBudget

\* A caller who is behind the bucket sets it back by what its meter regains.
LEMMA SetBack ==
  ASSUME NEW t \in 0 .. Burst, NEW a \in Age, NEW lag \in Lag, NEW m, Covered(t, a, m)
  PROVE  LET A == Refilled(t, IF a > lag THEN a - lag ELSE 0)
             n == Least(m + (IF lag > a THEN Rate * (lag - a) ELSE 0), Cap)
         IN  A \in 0 .. Burst /\ n \in Int /\ n >= A + lag * Rate /\ n <= Cap
<1>0. /\ a \in Nat /\ lag \in Nat /\ Burst \in Nat /\ Cap \in Nat /\ t \in Nat /\ t <= Burst
      /\ a * Rate \in Nat /\ lag * Rate \in Nat /\ Burst + lag * Rate <= Cap /\ Rate \in Nat
      /\ m \in Int /\ m <= Cap
  BY Products, BucketConstants DEF Covered
<1>1. CASE a > lag
  <2>1. Refilled(t, a - lag) \in 0 .. Burst /\ m >= Refilled(t, a - lag) + lag * Rate
    BY <1>1, Refill
  <2>2. Least(m + 0, Cap) = m
    BY <1>0 DEF Least
  <2> QED BY <1>0, <1>1, <2>1, <2>2
<1>2. CASE ~(a > lag)
  <2>1. Refilled(t, 0) = t
    BY <1>0 DEF Refilled, Least
  <2>2. m >= t + a * Rate
    BY <1>0, <1>2, Refill
  <2>3. CASE lag > a
    <3>1. Rate * (lag - a) = lag * Rate - a * Rate
      BY Products
    <3> QED BY <1>0, <1>2, <2>1, <2>2, <2>3, <3>1 DEF Least
  <2>4. CASE lag = a
    <3>1. Least(m + 0, Cap) = m
      BY <1>0 DEF Least
    <3> QED BY <1>0, <1>2, <2>1, <2>2, <2>4, <3>1
  <2> QED BY <1>0, <1>2, <2>3, <2>4
<1> QED BY <1>1, <1>2

LEMMA RBConsume ==
  ASSUME RBInv, NEW b \in Bucket, NEW cost \in Cost, NEW lag \in Lag, RB!luaConsumeToken(b, cost, lag)
  PROVE  RBInv'
<1> DEFINE A == RB!Available(b, lag)
           m == Least(rmeter[b] + RB!Regained(b, lag), Cap)
           due == RB!Due(b, cost, lag)
           p == IF A >= cost THEN NoPromise ELSE [wait |-> RetryAfter(cost - A), cost |-> cost]
           t == IF A >= cost THEN A - cost ELSE A
           n == IF A >= cost THEN m - cost ELSE m
<1>2. /\ rtokens[b] \in 0 .. Burst /\ rpttl[b] \in Nat /\ rpttl[b] <= Window[b]
      /\ rage[b] \in Nat /\ rage[b] \in Age /\ rage[b] <= MaxAge(b)
      /\ rmeter[b] \in Int /\ rpromise[b] \in Promise /\ RBGood(b)
  BY RBTyped
<1>3. A \in 0 .. Burst /\ m \in Int /\ m >= A + lag * Rate /\ m <= Cap
  <2>1. CASE rpttl[b] = 0
    <3>1. A = Burst /\ RB!Regained(b, lag) = 0 /\ rmeter[b] = Cap
      BY <1>2, <2>1 DEF RB!Available, RB!Regained, RBGood
    <3>2. m = Cap
      BY <3>1, BucketConstants DEF Least
    <3> QED BY <3>1, <3>2, BucketConstants
  <2>2. CASE rpttl[b] > 0
    <3>1. Covered(rtokens[b], rage[b], rmeter[b])
      BY <1>2, <2>2 DEF RBGood
    <3>2. /\ A = Refilled(rtokens[b], IF rage[b] > lag THEN rage[b] - lag ELSE 0)
          /\ RB!Regained(b, lag) = IF lag > rage[b] THEN Rate * (lag - rage[b]) ELSE 0
      BY <1>2, <2>2, RBNames DEF RB!Available, RB!Elapsed, RB!Regained
    <3> QED BY <1>2, <3>1, <3>2, SetBack
  <2> QED BY <1>2, <2>1, <2>2, BucketConstants
<1>1. /\ rtokens' = [rtokens EXCEPT ![b] = t]
      /\ rage' = [rage EXCEPT ![b] = lag]
      /\ rpttl' = [rpttl EXCEPT ![b] = Window[b]]
      /\ rmeter' = [rmeter EXCEPT ![b] = n]
      /\ rpromise' = [rpromise EXCEPT ![b] = p]
      /\ rlast' = [due |-> due, granted |-> A >= cost]
  <2>1. n = m - IF A >= cost THEN cost ELSE 0
    BY <1>3
  <2> QED BY <2>1, RBNames DEF RB!luaConsumeToken, RB!UpdatedAge
<1>4. due => A >= cost
  <2> SUFFICES ASSUME due PROVE A >= cost
    OBVIOUS
  <2>1. rpromise[b] # NoPromise /\ cost <= rpromise[b].cost /\ cost <= Burst /\ rage[b] - lag >= rpromise[b].wait
    BY RBNames DEF RB!Due
  <2>2. rpttl[b] > 0 /\ Honest(rtokens[b], rpromise[b])
    BY <1>2, <2>1, BucketConstants DEF RBGood
  <2>3. rage[b] > lag /\ Refilled(rtokens[b], rage[b] - lag) >= cost
    BY <1>2, <2>1, <2>2, Waited
  <2>4. A = Refilled(rtokens[b], rage[b] - lag)
    BY <2>2, <2>3, RBNames DEF RB!Available, RB!Elapsed
  <2> QED BY <2>3, <2>4
<1>5. t \in 0 .. Burst /\ Covered(t, lag, n) /\ n >= 0 /\ p \in Promise /\ Honest(t, p)
  <2> HIDE DEF A, m
  <2> QED BY <1>3, Consuming
<1>6. due \in BOOLEAN /\ (A >= cost) \in BOOLEAN
  <2>1. due \in BOOLEAN
    BY Zenon DEF RB!Due
  <2>2. (A >= cost) \in BOOLEAN
    BY <1>3, BucketConstants
  <2> QED BY <2>1, <2>2
<1> HIDE DEF A, m, due, p, t, n
<1>7. rlast' \in [due : BOOLEAN, granted : BOOLEAN] /\ RB!RetryHonest'
  BY <1>1, <1>4, <1>6 DEF RB!RetryHonest
<1>a. /\ rtokens = [j \in Bucket |-> rtokens[j]] /\ rage = [j \in Bucket |-> rage[j]]
      /\ rpttl = [j \in Bucket |-> rpttl[j]] /\ rmeter = [j \in Bucket |-> rmeter[j]]
      /\ rpromise = [j \in Bucket |-> rpromise[j]]
  BY DEF RBInv, RB!RedisBucketsTypeOK
<1>8. ASSUME NEW j \in Bucket
      PROVE  /\ rtokens'[j] \in 0 .. Burst /\ rage'[j] \in Nat /\ rage'[j] <= MaxAge(j)
             /\ rpttl'[j] \in Nat /\ rpttl'[j] <= Window[j] /\ rmeter'[j] \in Int /\ rmeter'[j] >= 0
             /\ rpromise'[j] \in Promise /\ RBGood(j)'
  <2>1. CASE j = b
    <3>1. rtokens'[j] = t /\ rage'[j] = lag /\ rpttl'[j] = Window[j] /\ rmeter'[j] = n /\ rpromise'[j] = p
      BY <1>1, <1>a, <2>1
    <3>2. n \in Int
      BY <1>5 DEF Covered
    <3>3. RBGood(j)'
      BY <1>5, <3>1, BucketConstants, BucketTimes DEF RBGood
    <3>4. rage'[j] \in Nat /\ rage'[j] <= MaxAge(j) /\ rpttl'[j] \in Nat
      BY <3>1, BucketConstants, BucketTimes
    <3> QED BY <1>5, <3>1, <3>2, <3>3, <3>4
  <2>2. CASE j # b
    <3>1. /\ rtokens'[j] = rtokens[j] /\ rage'[j] = rage[j] /\ rpttl'[j] = rpttl[j]
          /\ rmeter'[j] = rmeter[j] /\ rpromise'[j] = rpromise[j]
      BY <1>1, <1>a, <2>2
    <3>2. RBGood(j)'
      BY <3>1, RBTyped DEF RBGood
    <3> QED BY <3>1, <3>2, RBTyped
  <2> QED BY <2>1, <2>2
<1>9. /\ rtokens' = [j \in Bucket |-> rtokens'[j]] /\ rage' = [j \in Bucket |-> rage'[j]]
      /\ rpttl' = [j \in Bucket |-> rpttl'[j]] /\ rmeter' = [j \in Bucket |-> rmeter'[j]]
      /\ rpromise' = [j \in Bucket |-> rpromise'[j]]
  BY <1>1, <1>a
<1> QED BY <1>7, <1>8, <1>9, RBStep

LEMMA RBNext == RBInv /\ [RB!Next]_rVars => RBInv'
<1> SUFFICES ASSUME RBInv, [RB!Next]_rVars PROVE RBInv'
  OBVIOUS
<1>0. NoPromise \in Promise
  BY BucketConstants DEF NoPromise, Promise
<1>1. ASSUME NEW b \in Bucket, NEW cost \in Cost, NEW lag \in Lag, RB!luaConsumeToken(b, cost, lag)
      PROVE  RBInv'
  BY <1>1, RBConsume
<1>2. CASE RB!Tick
  <2> DEFINE kept == {b \in Bucket : rpttl[b] > 1}
  <2>1. /\ rtokens' = [b \in Bucket |-> IF b \in kept THEN rtokens[b] ELSE 0]
        /\ rage' = [b \in Bucket |-> IF b \in kept THEN Least(rage[b] + 1, MaxAge(b)) ELSE 0]
        /\ rpttl' = [b \in Bucket |-> IF b \in kept THEN rpttl[b] - 1 ELSE 0]
        /\ rmeter' = [b \in Bucket |-> Metered(b, b \notin kept, Least(rmeter[b] + Rate, Cap))]
        /\ rpromise' = [b \in Bucket |-> IF b \in kept THEN rpromise[b] ELSE NoPromise]
    BY <1>2, RBNames DEF RB!Tick
  <2>2. rlast' = [due |-> FALSE, granted |-> FALSE] /\ rlast' \in [due : BOOLEAN, granted : BOOLEAN]
    BY <1>2, Zenon DEF RB!Tick
  <2>3. RB!RetryHonest'
    BY <2>2 DEF RB!RetryHonest
  <2>4. ASSUME NEW b \in Bucket
        PROVE  /\ rtokens'[b] \in 0 .. Burst /\ rage'[b] \in Nat /\ rage'[b] <= MaxAge(b)
               /\ rpttl'[b] \in Nat /\ rpttl'[b] <= Window[b] /\ rmeter'[b] \in Int /\ rmeter'[b] >= 0
               /\ rpromise'[b] \in Promise /\ RBGood(b)'
    <3>1. /\ rtokens[b] \in 0 .. Burst /\ rpttl[b] \in Nat /\ rpttl[b] <= Window[b]
          /\ rage[b] \in Nat /\ rage[b] \in Age /\ rage[b] <= MaxAge(b)
          /\ rmeter[b] \in Int /\ rmeter[b] >= 0 /\ rpromise[b] \in Promise /\ RBGood(b)
      BY RBTyped
    <3>2. CASE rpttl[b] > 1
      <4>1. /\ rtokens'[b] = rtokens[b] /\ rage'[b] = Least(rage[b] + 1, MaxAge(b)) /\ rpttl'[b] = rpttl[b] - 1
            /\ rpromise'[b] = rpromise[b]
        BY <2>1, <3>2
      <4>a. rmeter'[b] = Least(rmeter[b] + Rate, Cap)
        <5>1. rmeter'[b] = Metered(b, FALSE, Least(rmeter[b] + Rate, Cap))
          BY <2>1, <3>2
        <5> QED BY <5>1 DEF Metered
      <4>2. /\ Covered(rtokens[b], rage[b], rmeter[b]) /\ rage[b] + rpttl[b] >= Window[b]
            /\ Honest(rtokens[b], rpromise[b])
        BY <3>1, <3>2 DEF RBGood
      <4>3. /\ rage'[b] \in Nat /\ rage'[b] <= MaxAge(b) /\ Covered(rtokens[b], rage'[b], rmeter'[b])
            /\ rmeter'[b] >= rmeter[b]
        BY <3>1, <4>1, <4>2, <4>a, Passing
      <4>4. rage'[b] + rpttl'[b] >= Window[b] /\ rpttl'[b] > 0
            /\ rpttl'[b] \in Nat /\ rpttl'[b] <= Window[b]
        BY <3>1, <3>2, <4>1, <4>2, BucketConstants, BucketTimes DEF Least
      <4>5. RBGood(b)'
        BY <4>1, <4>2, <4>3, <4>4 DEF RBGood
      <4>6. rmeter'[b] \in Int /\ rmeter'[b] >= 0
        BY <3>1, <4>3 DEF Covered
      <4> QED BY <3>1, <4>1, <4>3, <4>4, <4>5, <4>6
    <3>3. CASE ~(rpttl[b] > 1)
      <4>1. /\ rtokens'[b] = 0 /\ rage'[b] = 0 /\ rpttl'[b] = 0 /\ rpromise'[b] = NoPromise
        BY <2>1, <3>3
      <4>a. rmeter'[b] = Metered(b, TRUE, Least(rmeter[b] + Rate, Cap))
        BY <2>1, <3>3
      <4>2. rmeter'[b] = Cap
        <5>1. CASE rpttl[b] = 0
          <6>1. Least(rmeter[b] + Rate, Cap) = Cap
            BY <3>1, <5>1, BucketConstants DEF RBGood, Least
          <6> QED BY <4>a, <6>1 DEF Metered
        <5>2. CASE rpttl[b] = 1 /\ RefillsInWindow(b)
          <6> DEFINE a == Least(rage[b] + 1, MaxAge(b))
                     m == Least(rmeter[b] + Rate, Cap)
          <6>1. Covered(rtokens[b], rage[b], rmeter[b]) /\ rage[b] + 1 >= Window[b]
            BY <3>1, <5>2 DEF RBGood
          <6>2. a \in Age /\ Covered(rtokens[b], a, m)
            BY <3>1, <6>1, Passing DEF Age
          <6>3. a >= Window[b] - Skew
            BY <3>1, <6>1, BucketConstants, BucketTimes DEF Least
          <6>4. rmeter'[b] = m
            BY <4>a, <5>2, Zenon DEF Metered
          <6> HIDE DEF a, m
          <6>5. m = Cap
            BY <3>1, <5>2, <6>2, <6>3, LapsedFull
          <6> QED BY <6>4, <6>5
        <5>5. CASE ~RefillsInWindow(b)
          BY <4>a, <5>5, Zenon DEF Metered
        <5>3. rpttl[b] \in Nat
          BY <3>1, BucketConstants
        <5>4. rpttl[b] = 0 \/ rpttl[b] = 1
          BY <3>3, <5>3
        <5> QED BY <5>1, <5>2, <5>4, <5>5
      <4>3. RBGood(b)'
        <5>1. rpttl'[b] = 0 /\ rpromise'[b] = NoPromise
          BY <4>1
        <5> QED BY <4>2, <5>1 DEF RBGood
      <4> QED BY <1>0, <4>1, <4>2, <4>3, BucketConstants, BucketTimes
    <3> QED BY <3>2, <3>3
  <2> HIDE DEF kept
  <2>5. /\ rtokens' = [b \in Bucket |-> rtokens'[b]] /\ rage' = [b \in Bucket |-> rage'[b]]
        /\ rpttl' = [b \in Bucket |-> rpttl'[b]] /\ rmeter' = [b \in Bucket |-> rmeter'[b]]
        /\ rpromise' = [b \in Bucket |-> rpromise'[b]]
    BY <2>1
  <2> QED BY <2>2, <2>3, <2>4, <2>5, RBStep
<1>3. CASE UNCHANGED rVars
  BY <1>3 DEF rVars, RBInv, RB!RedisBucketsTypeOK, RB!WithinBudget, RB!RetryHonest, RBGood
<1> QED BY <1>1, <1>2, <1>3, RBNames DEF RB!Next

-----------------------------------------------------------------------------
(* Both stores.                                                            *)

\* The parts do not disturb one another; the reservations are those of one store.
StoresInv ==
  /\ MEInv /\ REInv /\ MBInv /\ RBInv /\ CloseInv
  /\ part # "redis reservations" => Inv
  /\ part = "redis reservations" => RRInv /\ count \in Nat

LEMMA StoresInitInv == StoresInit => StoresInv
<1>1. Init => count \in Nat
  BY DEF Init
<1> QED BY <1>1, MEInit, REInit, MBInit, RBInit, CloseInit, InitInv, RRInit DEF StoresInit, StoresInv

\* What a step is to each part.
LEMMA StoresSteps ==
  ASSUME [StoresNext]_storesVars
  PROVE  /\ part' = part
         /\ part # "redis reservations" => [Next]_vars
         /\ part = "redis reservations" => [RR!Next]_<<reservations, left, answer>> /\ count' = count
         /\ [ME!Next]_eVars /\ [RE!Next]_kVars /\ [MB!Next]_bVars /\ [RB!Next]_rVars /\ [MC!Next]_cVars
         /\ part # "memory entries" => UNCHANGED eVars
         /\ part # "redis entries" => UNCHANGED kVars
<1>1. CASE UNCHANGED storesVars
  <2>1. UNCHANGED <<part, vars, eVars, kVars, bVars, rVars, cVars>>
    BY <1>1 DEF storesVars
  <2> QED BY <2>1 DEF vars
<1>2. CASE StoresNext
  <2>1. CASE part = "memory reservations" /\ Next /\ UNCHANGED <<part, eVars, kVars, bVars, rVars, cVars>>
    BY <2>1
  <2>2. CASE part = "redis reservations" /\ RR!Next /\ UNCHANGED <<part, count, eVars, kVars, bVars, rVars, cVars>>
    BY <2>2
  <2>3. CASE part = "memory entries" /\ ME!Next /\ UNCHANGED <<part, vars, kVars, bVars, rVars, cVars>>
    BY <2>3
  <2>4. CASE part = "redis entries" /\ RE!Next /\ UNCHANGED <<part, vars, eVars, bVars, rVars, cVars>>
    BY <2>4
  <2>5. CASE part = "memory buckets" /\ MB!Next /\ UNCHANGED <<part, vars, eVars, kVars, rVars, cVars>>
    BY <2>5
  <2>6. CASE part = "redis buckets" /\ RB!Next /\ UNCHANGED <<part, vars, eVars, kVars, bVars, cVars>>
    BY <2>6
  <2>7. CASE part = "memory close" /\ MC!Next /\ UNCHANGED <<part, vars, eVars, kVars, bVars, rVars>>
    BY <2>7
  <2> QED BY <1>2, <2>1, <2>2, <2>3, <2>4, <2>5, <2>6, <2>7 DEF StoresNext
<1> QED BY <1>1, <1>2

LEMMA StoresNextInv == StoresInv /\ [StoresNext]_storesVars => StoresInv'
<1> SUFFICES ASSUME StoresInv, [StoresNext]_storesVars PROVE StoresInv'
  OBVIOUS
<1>1. MEInv' /\ REInv' /\ MBInv' /\ RBInv' /\ CloseInv'
  BY StoresSteps, MENext, REStep, MBNext, RBNext, CloseNext DEF StoresInv
<1>2. part # "redis reservations" => Inv'
  BY StoresSteps, NextInv DEF StoresInv
<1>3. part = "redis reservations" => RRInv' /\ count' \in Nat
  BY StoresSteps, RRStep DEF StoresInv
<1> QED BY <1>1, <1>2, <1>3, StoresSteps DEF StoresInv

\* The inductive invariant holds in every state of either store.
THEOREM StoresInvAlways == StoresSpec => []StoresInv
  BY StoresInitInv, StoresNextInv, PTL DEF StoresSpec

\* Everything in either store is well typed, under every sequence of calls, lapses and
\* passes of the janitor.
THEOREM StoresTypesCorrect == StoresSpec => []TypesOK
<1>1. StoresInv => TypesOK
  BY DEF StoresInv, MEInv, REInv, MBInv, RBInv, CloseInv, RRInv, Inv, TypesOK, TypeOK, RR!TypeOK
<1> QED BY <1>1, StoresInvAlways, PTL

\* The reservations of either store stay within the limit.
LEMMA StoresBounds == StoresInv => CounterNotBehind /\ SetBounded /\ WithinLimit
<1>1. StoresInv => CounterNotBehind /\ SetBounded
  BY RRNames DEF StoresInv, Inv, RRInv, CounterNotBehind, SetBounded, RR!SetWithinLimit
<1>2. StoresInv => WithinLimit
  <2> SUFFICES ASSUME StoresInv PROVE WithinLimit
    OBVIOUS
  <2>1. Live \in SUBSET reservations /\ reservations \in SUBSET SID
    BY DEF StoresInv, Inv, RRInv, TypeOK, RR!TypeOK, Live
  <2>2. /\ Cardinality(Live) <= Cardinality(reservations)
        /\ Cardinality(Live) \in Nat /\ Cardinality(reservations) \in Nat
    BY <2>1, Counting
  <2>3. Cardinality(reservations) <= Limit
    <3>1. CASE part = "redis reservations"
      BY <3>1 DEF StoresInv, RRInv
    <3>2. CASE part # "redis reservations"
      <4>1. Inv
        BY <3>2 DEF StoresInv
      <4> QED BY <2>2, <4>1, PoolAssumption DEF Inv, TypeOK, CountCovers
    <3> QED BY <3>1, <3>2
  <2> QED BY <2>2, <2>3, PoolAssumption DEF WithinLimit
<1> QED BY <1>1, <1>2

\* The counter of the memory store's namespace is never behind its map, so that "not
\* full" can be believed without counting (ReserveSession).
THEOREM CounterNeverBehind == StoresSpec => []CounterNotBehind
  BY StoresBounds, StoresInvAlways, PTL

\* The sorted set of the Redis store never holds more than Limit members, lapsed ones
\* included: a move cannot bring a lapsed slot back beyond the limit
\* (luaMoveSessionReservation).
THEOREM SetNeverOverfull == StoresSpec => []SetBounded
  BY StoresBounds, StoresInvAlways, PTL

\* With either store at most Limit sessions hold an unexpired reservation.
THEOREM CapacityOfEither == StoresSpec => []WithinLimit
  BY StoresBounds, StoresInvAlways, PTL

\* Whichever store it is, its reservations implement the pool: nobody is refused while
\* a slot is free, and nobody is granted one beyond the limit.
THEOREM EitherStoreIsAPool == StoresSpec => RefinesPool
<1>1. StoresInit => Pool!Init
  BY DEF StoresInit, Init, Pool!Init, Live
<1>2. StoresInv /\ StoresInv' /\ [StoresNext]_storesVars => [Pool!Next]_<<Live, answer>>
  <2> SUFFICES ASSUME StoresInv, StoresInv', [StoresNext]_storesVars PROVE [Pool!Next]_<<Live, answer>>
    OBVIOUS
  <2>1. CASE part = "redis reservations"
    BY <2>1, StoresSteps, RRStep DEF StoresInv
  <2>2. CASE part # "redis reservations"
    <3>1. Inv /\ Inv' /\ [Next]_vars
      BY <2>2, StoresSteps DEF StoresInv
    <3> QED BY <3>1, StepImplements
  <2> QED BY <2>1, <2>2
<1> QED BY <1>1, <1>2, StoresInvAlways, PTL DEF StoresSpec, RefinesPool, Pool!Spec

\* Neither map of the memory store, entries and buckets, ever holds more than MaxEntries,
\* lapsed ones included: who inserts makes room first (expireLocked,
\* evictOldestEntryLocked, evictOldestBucketLocked).
THEOREM MapStaysBounded == StoresSpec => []MapBounded
<1>1. StoresInv => MapBounded
  BY DEF StoresInv, MEInv, MBInv, MapBounded
<1> QED BY <1>1, StoresInvAlways, PTL

\* Both stores implement TTLStore: every call has the effect and the answer of one
\* operation at one instant, whatever lapsed, was evicted or was swept meanwhile.
THEOREM BothImplementTTLStore == StoresSpec => RefinesStores
<1>1. StoresInit => ME!Abstract!Init /\ RE!Abstract!Init
  BY EntriesAssumption DEF StoresInit, ME!Init, RE!Init, ME!Abstract!Init, RE!Abstract!Init, ME!Live, ME!Stored
<1>2. StoresInv /\ [StoresNext]_storesVars =>
        [part = "memory entries" => ME!Abstract!Next]_(ME!Abstract!vars)
  BY StoresSteps, MEStepImplements DEF StoresInv
<1>3. StoresInv /\ [StoresNext]_storesVars =>
        [part = "redis entries" => RE!Abstract!Next]_(RE!Abstract!vars)
  BY StoresSteps, REStep DEF StoresInv
<1> QED BY <1>1, <1>2, <1>3, StoresInvAlways, PTL DEF StoresSpec, RefinesStores

\* Of any rule Validate lets pass, no bucket of either store grants more than Burst and Rate
\* for every unit of time, with lazy refills, denied calls and callers whose clocks are
\* behind (ConsumeToken, luaConsumeToken); a bucket whose Window is too short to refill it
\* (not RefillsInWindow) begins anew with a full one each time it lapses, any other does not.
THEOREM BudgetsKept == StoresSpec => []WithinBudgets
<1>1. StoresInv => WithinBudgets
  BY DEF StoresInv, MBInv, RBInv, WithinBudgets
<1> QED BY <1>1, StoresInvAlways, PTL

\* Of any rule Validate lets pass, a caller who waits as long as it was told is served, if
\* it asks for no more than Burst and no other call took the tokens meanwhile (RetryAfter
\* of ConsumeToken and luaConsumeToken).
THEOREM RetriesKept == StoresSpec => []RetriesHonest
<1>1. StoresInv => RetriesHonest
  BY DEF StoresInv, MBInv, RBInv, RetriesHonest
<1> QED BY <1>1, StoresInvAlways, PTL

\* However many goroutines close the memory store, its stop channel is closed once
\* (closing it again would panic), and when any Close has returned the janitor is gone and
\* stays gone (Close, janitor in store/memory.go).
THEOREM ClosedOnce == StoresSpec => [][EndsOnce]_cVars
<1>1. StoresInv /\ [StoresNext]_storesVars => [EndsOnce]_cVars
  BY StoresSteps, CloseEndsOnce DEF StoresInv
<1> QED BY <1>1, StoresInvAlways, PTL DEF StoresSpec
=============================================================================
