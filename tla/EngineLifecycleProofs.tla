----------------------- MODULE EngineLifecycleProofs -----------------------
(***************************************************************************)
(* Safety of the engine's front door and of Shutdown, for every number of  *)
(* operations and of callers of Shutdown: the engine uses its breaker as   *)
(* CircuitBreaker says, so everything proved of the breaker holds in the   *)
(* engine, the WaitGroup's counter counts, and Shutdown keeps its word.    *)
(***************************************************************************)
EXTENDS EngineLifecycle, CircuitBreakerProofs, FiniteSetTheorems

Counted == {p \in Proc : at[p] \in {"in", "leaving"}}

\* A call that goes straight to the store begins or returns.
Direct(p) == CallDirectly(p) \/ ReturnDirectly(p)

\* The part of the types that needs no counting.
PlainTypes ==
  /\ at \in [Proc -> {"out", "checked", "in", "leaving", "ping", "direct"}]
  /\ phase \in [Closer -> {"out", "calling", "waiting", "closing", "returned"}]
  /\ waiter \in {"none", "started", "asleep", "woken", "done", "panicked"}
  /\ late \subseteq Proc

Flags ==
  /\ draining \in BOOLEAN /\ closed \in BOOLEAN /\ expired \in BOOLEAN
  /\ ownStore \in BOOLEAN /\ storeClosed \in BOOLEAN

\* The WaitGroup counts the operations between their Add(1) and their Done().
Counts == inFlight = Cardinality(Counted)

\* A wait is begun by a Shutdown, which has set draining by then, and one that has
\* ended has seen every operation counted before draining out.
WaitCovers ==
  /\ waiter # "none" => draining
  /\ waiter = "done" => Counted \subseteq late

\* closed is set after a wait that ended, or after a deadline, and whoever let go of
\* closeMu since has closed the store.
ClosedAfterWait ==
  /\ closed /\ ~expired => waiter = "done"
  /\ storeClosed => closed
  /\ \A q \in Closer : phase[q] \in {"closing", "returned"} => closed
  /\ closed /\ closeMuFree => (ownStore => storeClosed)

\* The inductive invariant, Inv being the breaker's.
EngineInv ==
  Inv /\ PlainTypes /\ Flags /\ Counts /\ WaitCovers /\ ClosedAfterWait /\ ClosedOnReturn

\* The engine's steps, as the breaker sees them: CloseStore is the store failing,
\* everything else that meets the breaker is one of its actions.
LEMMA StepRefines == Inv /\ [EngineNext]_allVars => [Next]_vars
<1> SUFFICES ASSUME Inv, [EngineNext]_allVars PROVE [Next]_vars
  OBVIOUS
<1>1. ASSUME NEW p \in Proc,
             Arrive(p) \/ PingArrives(p) \/ Direct(p) \/ Enter(p) \/ Refused(p) \/ Leave(p)
      PROVE  UNCHANGED vars
  BY <1>1 DEF Arrive, PingArrives, Direct, CallDirectly, ReturnDirectly, Enter, Refused, Leave
<1>2. ASSUME NEW p \in Proc, Gate(p) \/ UseStore(p) \/ Report(p) PROVE Next
  BY <1>2, Zenon DEF Gate, UseStore, Report, Next
<1>3. ASSUME NEW q \in Closer, CallShutdown(q) \/ ShutdownAgain(q) \/ Shutdown(q) \/ Drained(q) \/ Deadline(q)
      PROVE  UNCHANGED vars
  BY <1>3 DEF CallShutdown, ShutdownAgain, Shutdown, Drained, Deadline
<1>4. ASSUME NEW q \in Closer, CloseStore(q) PROVE [Next]_vars
  <2>1. up \in BOOLEAN
    BY DEF Inv, TypeOK
  <2>2. up' = (up /\ ~ownStore) /\ UNCHANGED breakerVars
    BY <1>4, Zenon DEF CloseStore
  <2>3. CASE up /\ ownStore
    <3>1. up' = FALSE
      BY <2>2, <2>3, Zenon
    <3>2. StoreFails
      BY <2>2, <2>3, <3>1, Zenon DEF breakerVars, StoreFails
    <3> QED BY <3>2, Zenon DEF Next
  <2>4. CASE ~(up /\ ownStore)
    <3>1. up' = up
      BY <2>1, <2>2, <2>4, Zenon
    <3> QED BY <2>2, <3>1 DEF breakerVars, vars
  <2> QED BY <2>3, <2>4
<1>5. CASE WaitBegins \/ WaitEnds
  BY <1>5 DEF WaitBegins, WaitEnds
<1>6. CASE Environment
  BY <1>6, Zenon DEF Environment, Next
<1>7. CASE UNCHANGED allVars
  BY <1>7 DEF allVars
<1> QED
  BY <1>1, <1>2, <1>3, <1>4, <1>5, <1>6, <1>7, Zenon DEF EngineNext, Operation, Closing, Direct

\* What one step changes of Counted, and so of its cardinality: Add(1) and Done()
\* are called once by every operation, in this order.
LEMMA StepCounts ==
  PlainTypes /\ Counts /\ [EngineNext]_allVars => Counts' /\ IsFiniteSet(Counted)
<1> SUFFICES ASSUME PlainTypes, Counts, [EngineNext]_allVars
             PROVE  Counts' /\ IsFiniteSet(Counted)
  OBVIOUS
<1> USE DEF PlainTypes, Counts
<1>0. IsFiniteSet(Counted) /\ Counted \subseteq Proc
  BY GoroutinesAssumption, FS_Subset DEF Counted
<1>1. ASSUME NEW p \in Proc, Enter(p) PROVE Counts'
  <2>1. Counted' = Counted \cup {p} /\ p \notin Counted /\ inFlight' = inFlight + 1
    BY <1>1 DEF Enter, Move, Counted
  <2> QED BY <1>0, <2>1, FS_AddElement
<1>2. ASSUME NEW p \in Proc, Leave(p) PROVE Counts'
  <2>1. Counted' = Counted \ {p} /\ p \in Counted /\ inFlight' = inFlight - 1
    BY <1>2 DEF Leave, Move, Counted
  <2> QED BY <1>0, <2>1, FS_RemoveElement
<1>3. ASSUME NEW p \in Proc, Arrive(p) \/ PingArrives(p) \/ Direct(p) \/ Refused(p) \/ Report(p)
      PROVE  Counts'
  <2>1. /\ UNCHANGED inFlight
        /\ \/ Move(p, "out", "checked") \/ Move(p, "out", "ping")
           \/ Move(p, "out", "direct") \/ Move(p, "direct", "out")
           \/ Move(p, "in", "leaving") \/ Move(p, "ping", "out")
    BY <1>3, Zenon DEF Arrive, PingArrives, Direct, CallDirectly, ReturnDirectly, Refused, Report
  <2>2. Counted' = Counted
    BY <2>1 DEF Move, Counted
  <2> QED BY <2>1, <2>2
<1>4. ASSUME UNCHANGED <<at, inFlight>> PROVE Counts'
  BY <1>4 DEF Counted
<1>5. ASSUME NEW p \in Proc, Gate(p) \/ UseStore(p) PROVE Counts'
  BY <1>4, <1>5 DEF Gate, UseStore, engineVars
<1>6. ASSUME NEW q \in Closer, CallShutdown(q) \/ Closing(q) \/ Deadline(q) PROVE Counts'
  BY <1>4, <1>6 DEF CallShutdown, Closing, ShutdownAgain, Shutdown, Drained, Deadline, CloseStore
<1>7. ASSUME WaitBegins \/ WaitEnds \/ Environment \/ UNCHANGED allVars PROVE Counts'
  BY <1>4, <1>7 DEF WaitBegins, WaitEnds, Environment, engineVars, allVars
<1> QED
  BY <1>0, <1>1, <1>2, <1>3, <1>5, <1>6, <1>7, Zenon DEF EngineNext, Operation, Direct

\* Every field stays within its type.
LEMMA StepTypes == PlainTypes /\ Flags /\ [EngineNext]_allVars => PlainTypes' /\ Flags'
<1> SUFFICES ASSUME PlainTypes, Flags, [EngineNext]_allVars PROVE PlainTypes' /\ Flags'
  OBVIOUS
<1> USE DEF PlainTypes
<1>1. ASSUME NEW p \in Proc, Arrive(p) \/ PingArrives(p) \/ CallDirectly(p) \/ Operation(p)
      PROVE  PlainTypes' /\ UNCHANGED <<draining, closed, expired, ownStore, storeClosed>>
  <2>1. CASE Arrive(p) \/ PingArrives(p) \/ Direct(p)
    BY <2>1 DEF Arrive, PingArrives, Direct, CallDirectly, ReturnDirectly, Move
  <2>2. CASE Enter(p) \/ Refused(p) \/ Report(p)
    BY <2>2 DEF Enter, Refused, Report, Move
  <2>3. CASE Leave(p)
    BY <2>3 DEF Leave, Move
  <2>4. CASE Gate(p) \/ UseStore(p)
    BY <2>4 DEF Gate, UseStore, engineVars
  <2> QED BY <1>1, <2>1, <2>2, <2>3, <2>4 DEF Operation, Direct
<1>2. ASSUME NEW q \in Closer, CallShutdown(q) \/ Closing(q) \/ Deadline(q) PROVE PlainTypes'
  BY <1>2 DEF CallShutdown, Closing, ShutdownAgain, Shutdown, Drained, Deadline, CloseStore, Hold
<1>3. ASSUME NEW q \in Closer, CallShutdown(q) \/ Closing(q) \/ Deadline(q) PROVE Flags'
  <2>1. CASE CallShutdown(q) \/ ShutdownAgain(q)
    BY <2>1, Zenon DEF Flags, CallShutdown, ShutdownAgain
  <2>2. CASE Shutdown(q)
    BY <2>2, Zenon DEF Flags, Shutdown
  <2>3. CASE Drained(q)
    BY <2>3, Zenon DEF Flags, Drained
  <2>4. CASE Deadline(q)
    BY <2>4, Zenon DEF Flags, Deadline
  <2>5. CASE CloseStore(q)
    BY <2>5, Zenon DEF Flags, CloseStore
  <2> QED BY <1>3, <2>1, <2>2, <2>3, <2>4, <2>5, Zenon DEF Closing
<1>4. CASE WaitBegins \/ WaitEnds \/ Environment \/ UNCHANGED allVars
  <2>1. PlainTypes' /\ UNCHANGED <<draining, closed, expired, ownStore, storeClosed>>
    BY <1>4 DEF WaitBegins, WaitEnds, Environment, engineVars, allVars
  <2> QED BY <2>1, Zenon DEF Flags
<1>5. ASSUME NEW p \in Proc, Arrive(p) \/ PingArrives(p) \/ CallDirectly(p) \/ Operation(p) PROVE Flags'
  BY <1>1, <1>5, Zenon DEF Flags
<1> QED
  BY <1>1, <1>2, <1>3, <1>4, <1>5, Zenon DEF EngineNext

\* An operation that is counted once draining is set is late, and nobody else is
\* under way when the wait ends: the count was 0 then.
LEMMA StepWaitCovers ==
  PlainTypes /\ Counts /\ WaitCovers /\ [EngineNext]_allVars => WaitCovers'
<1> SUFFICES ASSUME PlainTypes, Counts, WaitCovers, [EngineNext]_allVars PROVE WaitCovers'
  OBVIOUS
<1> USE DEF PlainTypes, WaitCovers
<1>0. inFlight = 0 => Counted = {}
  BY StepCounts, FS_EmptySet DEF Counts
<1>1. ASSUME NEW p \in Proc, Enter(p) PROVE WaitCovers'
  <2>1. Counted' = Counted \cup {p}
    BY <1>1 DEF Enter, Move, Counted
  <2>2. waiter = "done" => Counted' \subseteq late'
    BY <1>1, <2>1 DEF Enter
  <2> QED BY <1>1, <2>2, Zenon DEF Enter
<1>2. ASSUME NEW p \in Proc, Leave(p) PROVE WaitCovers'
  <2>1. Counted' = Counted \ {p}
    BY <1>2 DEF Leave, Move, Counted
  <2>2. waiter' # "none" <=> waiter # "none"
    BY <1>2 DEF Leave
  <2>3. waiter' = "done" <=> waiter = "done"
    BY <1>2 DEF Leave
  <2>4. late' = late \ {p} /\ draining' = draining
    BY <1>2 DEF Leave
  <2>5. waiter' # "none" => draining'
    BY <2>2, <2>4, Zenon
  <2> QED BY <2>1, <2>3, <2>4, <2>5
<1>3. ASSUME NEW p \in Proc, Arrive(p) \/ PingArrives(p) \/ Direct(p) \/ Refused(p) \/ Report(p)
      PROVE  WaitCovers'
  <2>1. /\ UNCHANGED <<waiter, late, draining>>
        /\ \/ Move(p, "out", "checked") \/ Move(p, "out", "ping")
           \/ Move(p, "out", "direct") \/ Move(p, "direct", "out")
           \/ Move(p, "in", "leaving") \/ Move(p, "ping", "out")
    BY <1>3, Zenon DEF Arrive, PingArrives, Direct, CallDirectly, ReturnDirectly, Refused, Report
  <2>2. Counted' = Counted
    BY <2>1 DEF Move, Counted
  <2> QED BY <2>1, <2>2
<1>4. ASSUME UNCHANGED <<at, waiter, late, draining>> PROVE WaitCovers'
  BY <1>4 DEF Counted
<1>5. ASSUME NEW p \in Proc, Gate(p) \/ UseStore(p) PROVE WaitCovers'
  BY <1>4, <1>5 DEF Gate, UseStore, engineVars
<1>6. ASSUME NEW q \in Closer, CallShutdown(q) \/ ShutdownAgain(q) \/ Drained(q) \/ Deadline(q) \/ CloseStore(q)
      PROVE  WaitCovers'
  BY <1>4, <1>6 DEF CallShutdown, ShutdownAgain, Drained, Deadline, CloseStore
<1>7. ASSUME NEW q \in Closer, Shutdown(q) PROVE WaitCovers'
  <2>1. draining'
    BY <1>7, Zenon DEF Shutdown
  <2>2. waiter' = "started"
    BY <1>7 DEF Shutdown
  <2> QED BY <2>1, <2>2
<1>8. CASE WaitBegins \/ WaitEnds
  <2>1. Counted' = Counted /\ UNCHANGED <<late, draining>>
    BY <1>8 DEF WaitBegins, WaitEnds, Counted
  <2>2. waiter # "none" /\ (waiter' = "done" => Counted = {})
    BY <1>0, <1>8 DEF WaitBegins, WaitEnds
  <2>3. draining'
    BY <2>1, <2>2, Zenon
  <2> QED BY <2>1, <2>2, <2>3
<1>9. CASE Environment \/ UNCHANGED allVars
  BY <1>4, <1>9 DEF Environment, engineVars, allVars
<1> QED
  BY <1>1, <1>2, <1>3, <1>5, <1>6, <1>7, <1>8, <1>9, Zenon DEF EngineNext, Operation, Closing, Direct

\* closed is the work of a Shutdown that waited or ran out of time, and whoever holds
\* closeMu after that closes the store before letting go of it.
LEMMA StepClosedAfterWait ==
  EngineInv /\ [EngineNext]_allVars => ClosedAfterWait' /\ ClosedOnReturn'
<1> SUFFICES ASSUME EngineInv, [EngineNext]_allVars PROVE ClosedAfterWait' /\ ClosedOnReturn'
  OBVIOUS
<1> USE DEF EngineInv, ClosedAfterWait, ClosedOnReturn
<1>1. ASSUME UNCHANGED <<closed, expired, storeClosed, ownStore, phase>>,
             waiter = "done" => waiter' = "done"
      PROVE  ClosedAfterWait' /\ ClosedOnReturn'
  <2>1. closeMuFree' = closeMuFree
    BY <1>1 DEF closeMuFree
  <2> QED BY <1>1, <2>1, Zenon
<1>2. ASSUME NEW p \in Proc, Arrive(p) \/ PingArrives(p) \/ CallDirectly(p) \/ Operation(p)
      PROVE  ClosedAfterWait' /\ ClosedOnReturn'
  BY <1>1, <1>2 DEF Arrive, PingArrives, CallDirectly, Operation, Enter, Gate, Refused, UseStore,
                    Report, Leave, ReturnDirectly, engineVars
<1>3. CASE WaitBegins \/ WaitEnds \/ Environment \/ UNCHANGED allVars
  BY <1>1, <1>3 DEF WaitBegins, WaitEnds, Environment, engineVars, allVars
<1>4. ASSUME NEW q \in Closer, CallShutdown(q) PROVE ClosedAfterWait' /\ ClosedOnReturn'
  <2>1. /\ UNCHANGED <<closed, expired, storeClosed, ownStore, waiter>>
        /\ \A r \in Closer : phase'[r] \in {"closing", "returned"} => phase'[r] = phase[r]
        /\ closeMuFree' = closeMuFree
    BY <1>4 DEF CallShutdown, Hold, closeMuFree, PlainTypes
  <2> QED BY <2>1
<1>5. ASSUME NEW q \in Closer, ShutdownAgain(q) PROVE ClosedAfterWait' /\ ClosedOnReturn'
  <2>1. UNCHANGED <<closed, expired, storeClosed, ownStore, waiter>> /\ closed /\ closeMuFree
    BY <1>5, Zenon DEF ShutdownAgain, AlreadyClosed
  <2> QED BY <2>1, Zenon
<1>6. ASSUME NEW q \in Closer, Shutdown(q) PROVE ClosedAfterWait' /\ ClosedOnReturn'
  <2>1. UNCHANGED <<closed, expired, storeClosed, ownStore>> /\ ~closed
    BY <1>6, Zenon DEF Shutdown
  <2>2. \A r \in Closer : phase'[r] \notin {"closing", "returned"}
    BY <1>6, <2>1 DEF Shutdown, Hold, PlainTypes
  <2> QED BY <2>1, <2>2
<1>7. ASSUME NEW q \in Closer, Drained(q) \/ Deadline(q) PROVE ClosedAfterWait' /\ ClosedOnReturn'
  <2>1. /\ closed'
        /\ UNCHANGED <<storeClosed, ownStore, waiter>>
        /\ ~expired' => waiter = "done"
    BY <1>7, Zenon DEF Drained, Deadline
  <2>2. ~closeMuFree'
    BY <1>7 DEF Drained, Deadline, Hold, closeMuFree, PlainTypes
  <2>3. \A r \in Closer : phase'[r] = "returned" => phase[r] = "returned"
    BY <1>7 DEF Drained, Deadline, Hold, PlainTypes
  <2> QED BY <2>1, <2>2, <2>3, Zenon
<1>8. ASSUME NEW q \in Closer, CloseStore(q) PROVE ClosedAfterWait' /\ ClosedOnReturn'
  <2>1. closed
    BY <1>8 DEF CloseStore, Hold
  <2>2. storeClosed' = ownStore /\ UNCHANGED <<closed, expired, ownStore, waiter>>
    BY <1>8, Zenon DEF CloseStore
  <2> QED BY <2>1, <2>2, Zenon
<1> QED
  BY <1>2, <1>3, <1>4, <1>5, <1>6, <1>7, <1>8, Zenon DEF EngineNext, Closing

\* A new engine serves nobody and is open.
LEMMA InitEngineInv == EngineInit => EngineInv
<1> SUFFICES ASSUME EngineInit PROVE EngineInv
  OBVIOUS
<1>1. Inv
  BY InitInv DEF EngineInit
<1>2. PlainTypes
  BY DEF EngineInit, PlainTypes
<1>3. Flags
  BY Zenon DEF EngineInit, Flags
<1>4. Counted = {}
  BY DEF EngineInit, Counted
<1>5. Counts
  BY <1>4, FS_EmptySet DEF EngineInit, Counts
<1>6. WaitCovers
  BY DEF EngineInit, WaitCovers
<1>7. ClosedAfterWait /\ ClosedOnReturn
  BY DEF EngineInit, ClosedAfterWait, ClosedOnReturn
<1> QED BY <1>1, <1>2, <1>3, <1>5, <1>6, <1>7 DEF EngineInv

\* Every step of an operation, of a Shutdown and of the wait keeps EngineInv.
LEMMA NextEngineInv == EngineInv /\ [EngineNext]_allVars => EngineInv'
<1> SUFFICES ASSUME EngineInv, [EngineNext]_allVars PROVE EngineInv'
  OBVIOUS
<1>1. Inv'
  BY StepRefines, NextInv DEF EngineInv
<1>2. PlainTypes' /\ Flags'
  BY StepTypes DEF EngineInv
<1>3. Counts'
  BY StepCounts DEF EngineInv
<1>4. WaitCovers'
  BY StepWaitCovers DEF EngineInv
<1>5. ClosedAfterWait' /\ ClosedOnReturn'
  BY StepClosedAfterWait
<1> QED BY <1>1, <1>2, <1>3, <1>4, <1>5 DEF EngineInv

-----------------------------------------------------------------------------

\* The invariant the theorems below rest on, in every reachable state of the engine.
THEOREM EngineInvAlways == EngineSpec => []EngineInv
  BY InitEngineInv, NextEngineInv, PTL DEF EngineSpec

\* Type correctness; in particular the WaitGroup's counter is never negative, which
\* would be a panic of its own, and never above the number of goroutines.
THEOREM EngineTypesCorrect == EngineSpec => []EngineTypeOK
<1>1. EngineInv => EngineTypeOK
  <2> SUFFICES ASSUME EngineInv PROVE EngineTypeOK
    OBVIOUS
  <2>1. Counted \subseteq Proc
    BY DEF Counted
  <2>2. /\ Cardinality(Counted) <= Cardinality(Proc)
        /\ Cardinality(Counted) \in Nat /\ Cardinality(Proc) \in Nat
    BY <2>1, GoroutinesAssumption, FS_Subset, FS_CardinalityType
  <2>3. inFlight \in 0 .. Cardinality(Proc)
    BY <2>2 DEF EngineInv, Counts
  <2> QED BY <2>3, Zenon DEF EngineInv, Inv, PlainTypes, Flags, EngineTypeOK
<1> QED BY <1>1, EngineInvAlways, PTL

\* The engine's use of its breaker is one that CircuitBreaker describes: everything
\* proved there holds in the engine, shutdown included.
THEOREM EngineRefinesBreaker == EngineSpec => RefinesBreaker
<1>1. EngineInit => Init
  BY DEF EngineInit
<1>2. EngineInv /\ [EngineNext]_allVars => [Next]_vars
  BY StepRefines DEF EngineInv
<1> QED BY <1>1, <1>2, EngineInvAlways, PTL DEF EngineSpec, RefinesBreaker, Spec

\* The engine never turns every request away on account of a probe flag that nobody
\* will clear, it trips on exactly FailureThreshold failures in a row, and it leaves
\* OPEN for HALF_OPEN only, after a whole cool-down.
THEOREM EngineBreakerSafe == EngineSpec => []FlagHasOwner /\ []TripCount /\ CoolsDown
  BY EngineRefinesBreaker, FlagOwned, TripCounted, CooledDown, PTL DEF RefinesBreaker

\* A Shutdown whose deadline did not pass closes the store under none of the
\* operations that were counted before it began.
THEOREM CountedAwaited == EngineSpec => []AwaitsCounted
<1>1. EngineInv => AwaitsCounted
  <2> SUFFICES ASSUME EngineInv, storeClosed, ~expired, NEW p \in Proc, at[p] \in {"in", "leaving"}
               PROVE  p \in late
    BY DEF AwaitsCounted
  <2>1. waiter = "done"
    BY Zenon DEF EngineInv, ClosedAfterWait
  <2>2. p \in Counted
    BY DEF Counted
  <2> QED BY <2>1, <2>2 DEF EngineInv, WaitCovers
<1> QED BY <1>1, EngineInvAlways, PTL

\* When any call of Shutdown or Close has returned, the engine is closed, and its own
\* store with it, whichever of the calls did it.
THEOREM ClosedByThen == EngineSpec => []ClosedOnReturn
  BY EngineInvAlways, PTL DEF EngineInv
=============================================================================
