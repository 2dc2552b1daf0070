------------------------- MODULE SessionLockProofs -------------------------
(***************************************************************************)
(* Mutual exclusion of withSessionLock for any number of goroutines and    *)
(* any timing constants that leave the renewal goroutine a margin, when    *)
(* renewals are neither refused nor late and the key is not evicted.       *)
(* Crashes, lost answers of SetNX and failed releases are allowed.         *)
(***************************************************************************)
EXTENDS SessionLock, TLAPS

\* The key is there exactly as long as its TTL has not run out.
KeyHasTTL == owner = NoToken <=> ttl = 0

\* A token belongs to one running call, and to nobody else.
TokensApart ==
  /\ \A p \in Proc : token[p] = NoToken <=> pc[p] = "idle"
  /\ \A p, q \in Proc : token[p] = token[q] /\ token[p] # NoToken => p = q

\* Renewal goroutines belong to calls that have acquired the lock.
RenewersApart == \A p \in Proc : pc[p] \in {"idle", "trying"} => renewer[p] = "off"

\* The critical section is covered: its token is in the store, its renewal
\* goroutine is alive, and the key outlives the next renewal.
Covered ==
  \A p \in Proc : pc[p] = "critical" =>
    owner = token[p] /\ renewer[p] # "off" /\ ttl >= LockTTL - since[p]

Inv == TypeOK /\ KeyHasTTL /\ TokensApart /\ RenewersApart /\ Covered

\* No key, no call: the invariant holds at the start.
LEMMA InitInv == Init => Inv
  BY LockAssumption
  DEF Init, Inv, TypeOK, KeyHasTTL, TokensApart, RenewersApart, Covered, Due

\* A call that returns, leaving the store as it is, disturbs nobody.
LEMMA ReturnKeepsInv ==
  ASSUME Inv, NEW p \in Proc, Return(p), UNCHANGED <<owner, ttl>> PROVE Inv'
  BY LockAssumption
  DEF Inv, TypeOK, KeyHasTTL, TokensApart, RenewersApart, Covered, Return, Due

\* Neither does one that takes its own key away.
LEMMA ReleaseKeepsInv ==
  ASSUME Inv, NEW p \in Proc, pc[p] = "leaving", CompareAndDelete(p), Return(p) PROVE Inv'
<1>1. CASE owner = token[p]
  <2>1. \A q \in Proc : pc[q] # "critical"
    BY <1>1 DEF Inv, Covered, TokensApart
  <2> QED
    BY <1>1, <2>1, LockAssumption
    DEF Inv, TypeOK, KeyHasTTL, TokensApart, RenewersApart, Covered, Return, CompareAndDelete, Due
<1>2. CASE owner # token[p]
  BY <1>2, ReturnKeepsInv DEF CompareAndDelete
<1> QED BY <1>1, <1>2

\* Time passes: a holder whose renewals are prompt still has TTL left on its key.
LEMMA TickKeepsInv ==
  ASSUME Inv, Tick, "stall" \notin Faults PROVE Inv'
<1> USE LockAssumption DEF Inv
<1>1. Prompt
  BY DEF Tick
<1>2. ASSUME NEW p \in Proc, pc[p] = "critical"
      PROVE  since[p] < Due /\ ttl > 1
  BY <1>1, <1>2 DEF Prompt, Covered, Due, TypeOK
<1>3. TypeOK'
  BY DEF Tick, TypeOK, Lesser, Due
<1>4. KeyHasTTL'
  BY DEF Tick, TypeOK, KeyHasTTL
<1>5. TokensApart' /\ RenewersApart'
  BY DEF Tick, TokensApart, RenewersApart
<1>6. ASSUME NEW p \in Proc, pc[p] = "critical"
      PROVE  owner' = token'[p] /\ renewer'[p] # "off" /\ ttl' >= LockTTL - since'[p]
  <2>1. since'[p] = since[p] + 1 /\ ttl' = ttl - 1 /\ owner' = owner
    BY <1>2, <1>6 DEF Tick, TypeOK, Lesser, Due
  <2> QED
    BY <2>1, <1>6 DEF Tick, Covered, TypeOK, Due
<1>7. Covered'
  BY <1>6 DEF Covered, Tick
<1> QED BY <1>3, <1>4, <1>5, <1>7

\* Every step of withSessionLock, and every fault that leaves leases alone, keeps Inv.
LEMMA NextInv ==
  ASSUME Faults \subseteq {"store", "crash"}, Inv, [Next]_vars PROVE Inv'
<1> USE LockAssumption DEF Inv, TypeOK, KeyHasTTL, TokensApart, RenewersApart, Covered, Due
<1>1. ASSUME NEW p \in Proc, NEW k \in Token, Begin(p, k) PROVE Inv'
  BY <1>1 DEF Begin, lockOwnerToken
<1>2. ASSUME NEW p \in Proc, acquireLock(p) PROVE Inv'
  <2>1. \A q \in Proc : pc[q] # "critical"
    BY <1>2 DEF acquireLock, SetNX
  <2> QED BY <1>2, <2>1 DEF acquireLock, SetNX
<1>3. ASSUME NEW p \in Proc, GiveUp(p) \/ ReleaseFails(p) \/ Crash(p) PROVE Inv'
  BY <1>3, ReturnKeepsInv DEF GiveUp, ReleaseFails, Crash
<1>4. ASSUME NEW p \in Proc, AcquireFails(p) PROVE Inv'
  <2>1. CASE SetNX(p)
    <3>1. \A q \in Proc : pc[q] # "critical"
      BY <2>1 DEF SetNX
    <3> QED BY <1>4, <2>1, <3>1 DEF AcquireFails, SetNX, Return
  <2>2. CASE UNCHANGED <<owner, ttl>>
    BY <1>4, <2>2, ReturnKeepsInv DEF AcquireFails
  <2> QED BY <1>4, <2>1, <2>2 DEF AcquireFails
<1>5. ASSUME NEW p \in Proc, StartTouch(p) PROVE Inv'
  BY <1>5 DEF StartTouch
<1>6. ASSUME NEW p \in Proc, CompareAndTouch(p) PROVE Inv'
  <2>1. CASE owner = token[p]
    BY <1>6, <2>1 DEF CompareAndTouch
  <2>2. CASE owner # token[p]
    BY <1>6, <2>2 DEF CompareAndTouch
  <2> QED BY <2>1, <2>2
<1>7. ASSUME NEW p \in Proc, Leave(p) \/ StopRenewer(p) PROVE Inv'
  BY <1>7 DEF Leave, StopRenewer
<1>8. ASSUME NEW p \in Proc, releaseLock(p) PROVE Inv'
  BY <1>8, ReleaseKeepsInv DEF releaseLock, MayRelease
<1>9. CASE Tick
  BY <1>9, TickKeepsInv
<1>10. CASE UNCHANGED vars
  BY <1>10 DEF vars
<1>11. ~Evict /\ \A p \in Proc : ~TouchFails(p)
  BY DEF Evict, TouchFails
<1> QED
  BY <1>1, <1>2, <1>3, <1>4, <1>5, <1>6, <1>7, <1>8, <1>9, <1>10, <1>11
  DEF Next, Step, Fail

\* The invariant of withSessionLock: whoever is inside owns the key, with enough of
\* its TTL left, in every reachable state.
THEOREM InvAlways == ASSUME Faults \subseteq {"store", "crash"} PROVE Spec => []Inv
  BY InitInv, NextInv, PTL DEF Spec

\* As long as leases are not lost, at most one goroutine runs the function passed
\* to withSessionLock, however long it runs and whoever crashes.
THEOREM MutualExclusion ==
  ASSUME Faults \subseteq {"store", "crash"} PROVE Spec => []Mutex
<1>1. Inv => Mutex
  BY DEF Inv, TypeOK, Covered, TokensApart, Mutex
<1> QED
  BY <1>1, InvAlways, PTL

-----------------------------------------------------------------------------
(* Implementation of LeaseLock.                                            *)

\* The abstract holder, by cases; the token tells who it is.
LEMMA HolderCases ==
  ASSUME Inv
  PROVE  /\ owner = NoToken => Holder = Free
         /\ \A p \in Proc : Owns(p) => Holder = p
         /\ owner # NoToken /\ (\A p \in Proc : ~Owns(p)) => Holder = Orphan
<1>1. ASSUME NEW p \in Proc, Owns(p) PROVE Holder = p
  <2>1. owner # NoToken
    BY <1>1 DEF Owns, Inv, TokensApart
  <2>2. \A q \in Proc : Owns(q) => q = p
    BY <1>1, <2>1 DEF Owns, Inv, TokensApart
  <2> QED BY <1>1, <2>1, <2>2 DEF Holder
<1> QED BY <1>1 DEF Holder

\* The same of the next state.
LEMMA HolderCasesNext ==
  ASSUME Inv'
  PROVE  /\ owner' = NoToken => Holder' = Free
         /\ \A p \in Proc : Owns(p)' => Holder' = p
         /\ owner' # NoToken /\ (\A p \in Proc : ~Owns(p)') => Holder' = Orphan
<1>1. ASSUME NEW p \in Proc, Owns(p)' PROVE Holder' = p
  <2>1. owner' # NoToken
    BY <1>1 DEF Owns, Inv, TokensApart
  <2>2. \A q \in Proc : Owns(q)' => q = p
    BY <1>1, <2>1 DEF Owns, Inv, TokensApart
  <2> QED BY <1>1, <2>1, <2>2 DEF Holder
<1> QED BY <1>1 DEF Holder

\* A step that leaves the key alone and changes nobody's ownership is a stutter.
LEMMA SameHolder ==
  ASSUME Inv, Inv', UNCHANGED owner, \A p \in Proc : Owns(p)' <=> Owns(p)
  PROVE  UNCHANGED Holder
  BY HolderCases, HolderCasesNext

\* Whoever runs fn has the key: the lock is not free, nor anybody else's.
LEMMA InsideHolds ==
  ASSUME Inv, NEW p \in Proc, pc[p] = "critical" PROVE Owns(p) /\ Holder = p
<1>1. Owns(p)
  BY DEF Inv, Covered, Owns
<1> QED BY <1>1, HolderCases

\* A call that returns without touching the key gives the lock up to its TTL.
LEMMA ReturnForsakes ==
  ASSUME Inv, Inv', NEW p \in Proc, Return(p), UNCHANGED <<owner, ttl>>
  PROVE  Abstract!Forsake(p) \/ UNCHANGED <<Holder, Inside>>
<1>1. \A q \in Proc \ {p} : Owns(q)' <=> Owns(q)
  BY DEF Return, Owns, Inv, TypeOK
<1>2. ~Owns(p)' /\ Inside' = Inside \ {p}
  BY DEF Return, Owns, Inside, Inv, TypeOK
<1>3. CASE Owns(p)
  <2>1. \A q \in Proc : ~Owns(q)'
    BY <1>1, <1>2, <1>3 DEF Owns, Inv, TokensApart
  <2>2. owner' # NoToken
    BY <1>3 DEF Owns, Inv, TokensApart
  <2> QED BY <1>2, <1>3, <2>1, <2>2, HolderCases, HolderCasesNext DEF Abstract!Forsake
<1>4. CASE ~Owns(p)
  <2>1. p \notin Inside
    BY <1>4, InsideHolds DEF Inside
  <2> QED BY <1>1, <1>2, <1>4, <2>1, SameHolder
<1> QED BY <1>3, <1>4

\* The key runs out only when its owner has returned from fn or is gone.
LEMMA TickLapses ==
  ASSUME Inv, Inv', Tick
  PROVE  (\E p \in Proc : Abstract!Release(p)) \/ Abstract!Lapse \/ UNCHANGED <<Holder, Inside>>
<1>1. Inside' = Inside /\ \A p \in Proc : token'[p] = token[p] /\ pc'[p] = pc[p]
  BY DEF Tick, Inside
<1>2. CASE owner' = owner
  BY <1>1, <1>2, SameHolder DEF Owns
<1>3. CASE owner' = NoToken /\ owner # NoToken
  <2>1. Holder' = Free
    BY <1>3, HolderCasesNext
  <2>2. CASE \A p \in Proc : ~Owns(p)
    BY <1>1, <1>3, <2>1, <2>2, HolderCases DEF Abstract!Lapse
  <2>3. ASSUME NEW p \in Proc, Owns(p) PROVE Abstract!Release(p)
    <3>1. p \notin Inside
      BY <1>1, <1>3 DEF Inside, Inv, Covered, TokensApart
    <3> QED BY <1>1, <2>1, <2>3, <3>1, HolderCases DEF Abstract!Release
  <2> QED BY <2>2, <2>3
<1> QED BY <1>2, <1>3 DEF Tick

\* Every step acquires, leaves, releases, forsakes, strands or lapses the abstract lock,
\* or leaves it alone.
LEMMA StepImplements ==
  ASSUME Faults \subseteq {"store", "crash"}, Inv, Inv', [Next]_vars
  PROVE  [Abstract!Next]_<<Holder, Inside>>
<1> USE DEF Inv, TypeOK, Owns
<1>1. ASSUME NEW p \in Proc, NEW k \in Token, Begin(p, k) PROVE UNCHANGED <<Holder, Inside>>
  BY <1>1, SameHolder DEF Begin, Inside
<1>2. ASSUME NEW p \in Proc, acquireLock(p) PROVE Abstract!Acquire(p)
  <2>1. Inside' = Inside \cup {p}
    BY <1>2 DEF acquireLock, Inside
  <2> QED
    BY <1>2, <2>1, HolderCases, HolderCasesNext DEF acquireLock, SetNX, Abstract!Acquire
<1>3. ASSUME NEW p \in Proc, GiveUp(p) \/ ReleaseFails(p) \/ Crash(p)
      PROVE  Abstract!Forsake(p) \/ UNCHANGED <<Holder, Inside>>
  BY <1>3, ReturnForsakes DEF GiveUp, ReleaseFails, Crash
<1>4. ASSUME NEW p \in Proc, AcquireFails(p)
      PROVE  Abstract!Strand \/ Abstract!Forsake(p) \/ UNCHANGED <<Holder, Inside>>
  <2>1. CASE SetNX(p)
    <3>1. owner' # NoToken
      BY <1>4, <2>1 DEF AcquireFails, SetNX, TokensApart
    <3>2. \A q \in Proc : ~Owns(q)'
      BY <1>4, <2>1 DEF AcquireFails, SetNX, Return, TokensApart
    <3>3. UNCHANGED Inside
      BY <1>4 DEF AcquireFails, Return, Inside
    <3> QED BY <2>1, <3>1, <3>2, <3>3, HolderCases, HolderCasesNext DEF SetNX, Abstract!Strand
  <2>2. CASE UNCHANGED <<owner, ttl>>
    BY <1>4, <2>2, ReturnForsakes DEF AcquireFails
  <2> QED BY <1>4, <2>1, <2>2 DEF AcquireFails
<1>5. ASSUME NEW p \in Proc, StartTouch(p) \/ CompareAndTouch(p) \/ StopRenewer(p)
      PROVE  UNCHANGED <<Holder, Inside>>
  BY <1>5, SameHolder DEF StartTouch, CompareAndTouch, StopRenewer, Inside
<1>6. ASSUME NEW p \in Proc, Leave(p) PROVE Abstract!Leave(p)
  <2>1. p \in Inside /\ Inside' = Inside \ {p}
    BY <1>6 DEF Leave, Inside
  <2>2. UNCHANGED Holder
    BY <1>6, SameHolder DEF Leave
  <2> QED BY <2>1, <2>2 DEF Abstract!Leave
<1>7. ASSUME NEW p \in Proc, releaseLock(p)
      PROVE  Abstract!Release(p) \/ Abstract!Forsake(p) \/ UNCHANGED <<Holder, Inside>>
  <2>1. CASE owner = token[p]
    <3>1. p \notin Inside /\ Inside' = Inside
      BY <1>7 DEF releaseLock, MayRelease, Return, Inside
    <3> QED
      BY <1>7, <2>1, <3>1, HolderCases, HolderCasesNext
      DEF releaseLock, MayRelease, CompareAndDelete, Abstract!Release
  <2>2. CASE owner # token[p]
    BY <1>7, <2>2, ReturnForsakes DEF releaseLock, CompareAndDelete
  <2> QED BY <2>1, <2>2
<1>8. CASE Tick
  BY <1>8, TickLapses DEF Abstract!Next
<1>9. CASE UNCHANGED vars
  BY <1>9, SameHolder DEF vars, Inside
<1>10. ~Evict /\ \A p \in Proc : ~TouchFails(p)
  BY DEF Evict, TouchFails
<1> QED
  BY <1>1, <1>2, <1>3, <1>4, <1>5, <1>6, <1>7, <1>8, <1>9, <1>10
  DEF Next, Step, Fail, Abstract!Next

\* As long as renewals are prompt and not refused and the key is not evicted, nothing takes
\* the lock from a goroutine while its fn is running, over any number of renewals: the key
\* goes by release, or by its TTL once its holder has returned from fn or is gone, and only
\* then is it taken again.  Fails with refused renewals, stalls or evictions.
THEOREM ImplementsLeaseLock ==
  ASSUME Faults \subseteq {"store", "crash"} PROVE Spec => RefinesLeaseLock
<1>1. Init => Abstract!Init
  BY DEF Init, Abstract!Init, Holder, Inside
<1>2. Inv /\ Inv' /\ [Next]_vars => [Abstract!Next]_<<Holder, Inside>>
  BY StepImplements
<1> QED
  BY <1>1, <1>2, InvAlways, PTL DEF Spec, RefinesLeaseLock, Abstract!Spec

\* LeaseLock says enough for its callers: whatever implements it, withSessionLock or the
\* lock of the admission model, lets a function run only while its caller has the lock,
\* and so alone.
THEOREM LeasesExclude == Abstract!Spec => []Abstract!Exclusive
<1> USE LockAssumption DEF Abstract!Exclusive
<1>1. Abstract!Init => Abstract!Exclusive
  BY DEF Abstract!Init
<1>2. ASSUME Abstract!Exclusive, [Abstract!Next]_<<Holder, Inside>> PROVE Abstract!Exclusive'
  <2>1. ASSUME NEW p \in Proc, Abstract!Acquire(p) \/ Abstract!Leave(p) PROVE Abstract!Exclusive'
    BY <1>2, <2>1 DEF Abstract!Acquire, Abstract!Leave
  <2>2. ASSUME NEW p \in Proc, Abstract!Release(p) \/ Abstract!Forsake(p) PROVE Abstract!Exclusive'
    BY <1>2, <2>2 DEF Abstract!Release, Abstract!Forsake
  <2>3. CASE Abstract!Strand \/ Abstract!Lapse
    BY <1>2, <2>3 DEF Abstract!Strand, Abstract!Lapse
  <2>4. CASE UNCHANGED <<Holder, Inside>>
    BY <1>2, <2>4
  <2> QED BY <1>2, <2>1, <2>2, <2>3, <2>4 DEF Abstract!Next
<1> QED BY <1>1, <1>2, PTL DEF Abstract!Spec

-----------------------------------------------------------------------------
(* What holds even when leases lapse: renewals refused or late, keys evicted. *)

Apart == TypeOK /\ TokensApart

\* Types and the ownership of tokens do not depend on what goes wrong.
LEMMA NextApart ==
  ASSUME Apart, [Next]_vars PROVE Apart'
<1> USE LockAssumption DEF Apart, TypeOK, TokensApart, Due
<1>1. ASSUME NEW p \in Proc, NEW k \in Token, Begin(p, k) PROVE Apart'
  BY <1>1 DEF Begin, lockOwnerToken
<1>2. ASSUME NEW p \in Proc, acquireLock(p) PROVE Apart'
  BY <1>2 DEF acquireLock, SetNX
<1>3. ASSUME NEW p \in Proc, GiveUp(p) \/ ReleaseFails(p) \/ Crash(p) PROVE Apart'
  BY <1>3 DEF GiveUp, ReleaseFails, Crash, Return
<1>4. ASSUME NEW p \in Proc, AcquireFails(p) PROVE Apart'
  BY <1>4 DEF AcquireFails, SetNX, Return
<1>5. ASSUME NEW p \in Proc, StartTouch(p) \/ CompareAndTouch(p) \/ TouchFails(p) PROVE Apart'
  BY <1>5 DEF StartTouch, CompareAndTouch, TouchFails
<1>6. ASSUME NEW p \in Proc, Leave(p) \/ StopRenewer(p) PROVE Apart'
  BY <1>6 DEF Leave, StopRenewer
<1>7. ASSUME NEW p \in Proc, releaseLock(p) PROVE Apart'
  BY <1>7 DEF releaseLock, CompareAndDelete, Return
<1>8. CASE Evict
  BY <1>8 DEF Evict
<1>9. CASE Tick
  BY <1>9 DEF Tick, Lesser
<1>10. CASE UNCHANGED vars
  BY <1>10 DEF vars
<1> QED
  BY <1>1, <1>2, <1>3, <1>4, <1>5, <1>6, <1>7, <1>8, <1>9, <1>10 DEF Next, Step, Fail

\* withSessionLock keeps its state well typed, whatever goes wrong.
THEOREM LockTypes == Spec => []TypeOK
<1>1. Init => Apart
  BY LockAssumption DEF Init, Apart, TypeOK, TokensApart, Due
<1>2. Apart => TypeOK
  BY DEF Apart
<1> QED
  BY <1>1, <1>2, NextApart, PTL DEF Spec

\* A key with TTL left is lost to its holder only by the holder's own step, or by eviction.
LEMMA StepSpares ==
  ASSUME Apart, [Next]_vars, NEW p \in Proc, Owns(p), ttl > 1, ~Owns(p)', ~Evict
  PROVE  pc'[p] # pc[p]
<1> USE DEF Apart, TypeOK, TokensApart, Owns
<1>1. ASSUME NEW q \in Proc, NEW k \in Token, Begin(q, k) PROVE pc'[p] # pc[p]
  BY <1>1 DEF Begin
<1>2. ASSUME NEW q \in Proc, acquireLock(q) \/ AcquireFails(q) PROVE pc'[p] # pc[p]
  BY <1>2 DEF acquireLock, AcquireFails, SetNX, Return
<1>3. ASSUME NEW q \in Proc, GiveUp(q) \/ ReleaseFails(q) \/ Crash(q) PROVE pc'[p] # pc[p]
  BY <1>3 DEF GiveUp, ReleaseFails, Crash, MayRelease, Return
<1>4. ASSUME NEW q \in Proc, StartTouch(q) \/ CompareAndTouch(q) \/ TouchFails(q) PROVE pc'[p] # pc[p]
  BY <1>4 DEF StartTouch, CompareAndTouch, TouchFails
<1>5. ASSUME NEW q \in Proc, Leave(q) \/ StopRenewer(q) PROVE pc'[p] # pc[p]
  BY <1>5 DEF Leave, StopRenewer
<1>6. ASSUME NEW q \in Proc, releaseLock(q) PROVE pc'[p] # pc[p]
  <2>1. CASE q = p
    BY <1>6, <2>1 DEF releaseLock, MayRelease, Return
  <2>2. CASE q # p
    <3>1. owner # token[q]
      BY <1>6, <2>2 DEF releaseLock, MayRelease
    <3> QED BY <1>6, <2>2, <3>1 DEF releaseLock, CompareAndDelete, Return
  <2> QED BY <2>1, <2>2
<1>7. CASE Tick
  BY <1>7 DEF Tick
<1>8. CASE UNCHANGED vars
  BY <1>8 DEF vars
<1> QED
  BY <1>1, <1>2, <1>3, <1>4, <1>5, <1>6, <1>7, <1>8 DEF Next, Step, Fail

\* Nobody takes away somebody else's lock, lapsed leases or not: releases and
\* renewals compare the owner token.
THEOREM NobodyElsesKey == Spec => NobodyElses
<1>1. Init => Apart
  BY LockAssumption DEF Init, Apart, TypeOK, TokensApart, Due
<1>2. ASSUME Apart, [Next]_vars
      PROVE  [\A p \in Proc : Owns(p) /\ ttl > 1 /\ ~Owns(p)' => pc'[p] # pc[p] \/ Evict]_vars
  BY <1>2, StepSpares
<1> QED
  BY <1>1, <1>2, NextApart, PTL DEF Spec, NobodyElses
=============================================================================
