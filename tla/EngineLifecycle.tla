-------------------------- MODULE EngineLifecycle --------------------------
(***************************************************************************)
(* The engine's front door and its end (onionguard.go).  A counted         *)
(* operation looks at draining and closed, counts itself in inFlight, goes *)
(* through the circuit breaker, uses the store, reports, and counts itself *)
(* out; Ping is not counted; and some calls go straight to the store,      *)
(* whatever the engine's state.  Shutdown stops new counted operations,    *)
(* waits for the count or for its deadline, and closes a store of the      *)
(* engine's own.  The breaker is CircuitBreaker's: each step of an         *)
(* operation that meets it is one of its actions.                          *)
(*                                                                         *)
(* A closed store answers nothing but ErrStoreClosed, an infrastructure    *)
(* error to the breaker, so closing it also ends up.                       *)
(***************************************************************************)
EXTENDS CircuitBreaker

CONSTANT Closer       \* goroutines that call Shutdown or Close

\* A program has finitely many goroutines.
ASSUME GoroutinesAssumption == IsFiniteSet(Proc)

VARIABLES
  at,           \* where each operation is: "out", "checked", "in", "leaving", "ping", "direct"
  draining, closed,
  inFlight,     \* the counter of the WaitGroup
  phase,        \* where each call of Shutdown is
  waiter,       \* the goroutine in inFlight.Wait()
  expired,      \* the deadline of a Shutdown passed while it waited
  ownStore,     \* did the engine make its store itself?
  storeClosed,
  late          \* history: operations under way that were counted after draining was set

engineVars == <<at, draining, closed, inFlight, phase, waiter, expired, ownStore, storeClosed, late>>
breakerVars == <<state, failures, left, halfOpenInFlight, pc, result>>
allVars == <<vars, engineVars>>

EngineTypeOK ==
  /\ TypeOK
  /\ at \in [Proc -> {"out", "checked", "in", "leaving", "ping", "direct"}]
  /\ draining \in BOOLEAN /\ closed \in BOOLEAN /\ expired \in BOOLEAN
  /\ ownStore \in BOOLEAN /\ storeClosed \in BOOLEAN
  /\ inFlight \in 0 .. Cardinality(Proc)
  /\ phase \in [Closer -> {"out", "calling", "waiting", "closing", "returned"}]
  /\ waiter \in {"none", "started", "asleep", "woken", "done", "panicked"}
  /\ late \subseteq Proc

EngineInit ==
  /\ Init
  /\ at = [p \in Proc |-> "out"]
  /\ draining = FALSE /\ closed = FALSE /\ expired = FALSE
  /\ ownStore \in BOOLEAN /\ storeClosed = FALSE
  /\ inFlight = 0
  /\ phase = [q \in Closer |-> "out"]
  /\ waiter = "none"
  /\ late = {}

Move(p, from, to) == at[p] = from /\ at' = [at EXCEPT ![p] = to]

-----------------------------------------------------------------------------
(* Operations: AuthorizeRequest, IssueChallenge, ValidateChallenge,        *)
(* RevokeSession and RotateSession are counted, Ping is not; GetChallenge, *)
(* AllowRateLimit, ResolveIdentity and EvaluateSession look at nothing.    *)

\* if e.draining.Load() || e.closed.Load() { return ErrStoreClosed }
Arrive(p) ==
  /\ ~draining /\ ~closed
  /\ Move(p, "out", "checked")
  /\ UNCHANGED <<vars, draining, closed, inFlight, phase, waiter, expired, ownStore, storeClosed, late>>

\* Mutant: an operation does not count itself in.
MutEnter(p) ==
  /\ Move(p, "checked", "in")
  /\ late' = IF draining THEN late \cup {p} ELSE late
  /\ UNCHANGED <<vars, draining, closed, inFlight, phase, waiter, expired, ownStore, storeClosed>>

\* e.inFlight.Add(1), a step of its own.
Enter(p) ==
  /\ Move(p, "checked", "in")
  /\ inFlight' = inFlight + 1
  /\ late' = IF draining THEN late \cup {p} ELSE late
  /\ UNCHANGED <<vars, draining, closed, phase, waiter, expired, ownStore, storeClosed>>

PingArrives(p) ==
  /\ ~closed
  /\ Move(p, "out", "ping")
  /\ UNCHANGED <<vars, draining, closed, inFlight, phase, waiter, expired, ownStore, storeClosed, late>>

\* GetChallenge, AllowRateLimit, ResolveIdentity, EvaluateSession: neither draining nor
\* closed, nor the count, nor the breaker is asked, and nothing is reported.
CallDirectly(p) ==
  /\ Move(p, "out", "direct")
  /\ UNCHANGED <<vars, draining, closed, inFlight, phase, waiter, expired, ownStore, storeClosed, late>>

\* Their store calls have answered, or failed on a closed store.
ReturnDirectly(p) ==
  /\ Move(p, "direct", "out")
  /\ UNCHANGED <<vars, draining, closed, inFlight, phase, waiter, expired, ownStore, storeClosed, late>>

\* Mutant: the error of Allow is not returned.
MutGate(p) ==
  /\ at[p] = "in" /\ pc[p] = "idle"
  /\ pc' = [pc EXCEPT ![p] = "request"]
  /\ UNCHANGED <<state, failures, left, halfOpenInFlight, up, result, engineVars>>

\* authorizeRequest asks Allow; the other operations look at State.
Gate(p) ==
  /\ \/ at[p] = "in" /\ (AllowRequest(p) \/ AllowProbe(p) \/ BypassGate(p))
     \/ at[p] = "ping" /\ BypassGate(p)
  /\ UNCHANGED engineVars

\* Mutant: a refused operation returns without counting itself out.
MutRefused(p) ==
  /\ pc[p] = "idle"
  /\ current(state) = "OPEN" \/ ProbeOut
  /\ Move(p, "in", "out") \/ Move(p, "ping", "out")
  /\ UNCHANGED <<vars, draining, closed, inFlight, phase, waiter, expired, ownStore, storeClosed, late>>

\* ErrCircuitOpen: the circuit is open, or a probe is out already.
Refused(p) ==
  /\ pc[p] = "idle"
  /\ \/ (current(state) = "OPEN" \/ ProbeOut) /\ Move(p, "in", "leaving")
     \/ current(state) = "OPEN" /\ Move(p, "ping", "out")
  /\ UNCHANGED <<vars, draining, closed, inFlight, phase, waiter, expired, ownStore, storeClosed, late>>

UseStore(p) == Operate(p) /\ UNCHANGED engineVars

\* The outcome is reported before the deferred inFlight.Done().
Report(p) ==
  /\ report(p)
  /\ Move(p, "in", "leaving") \/ Move(p, "ping", "out")
  /\ UNCHANGED <<draining, closed, inFlight, phase, waiter, expired, ownStore, storeClosed, late>>

\* e.inFlight.Done(): the last one out wakes the waiter.
Leave(p) ==
  /\ Move(p, "leaving", "out")
  /\ inFlight' = inFlight - 1
  /\ waiter' = IF waiter = "asleep" /\ inFlight = 1 THEN "woken" ELSE waiter
  /\ late' = late \ {p}
  /\ UNCHANGED <<vars, draining, closed, phase, expired, ownStore, storeClosed>>

-----------------------------------------------------------------------------
(* Shutdown, and Close, which is Shutdown with a deadline of 5 s.          *)

Hold(q, from, to) == phase[q] = from /\ phase' = [phase EXCEPT ![q] = to]

CallShutdown(q) ==
  /\ Hold(q, "out", "calling")
  /\ UNCHANGED <<vars, at, draining, closed, inFlight, waiter, expired, ownStore, storeClosed, late>>

closeMuFree == \A q \in Closer : phase[q] \notin {"waiting", "closing"}

\* Mutant: whoever comes second returns as soon as the first has begun.
MutAlreadyClosed(q) == draining

AlreadyClosed(q) == closeMuFree /\ closed

ShutdownAgain(q) ==
  /\ AlreadyClosed(q)
  /\ Hold(q, "calling", "returned")
  /\ UNCHANGED <<vars, at, draining, closed, inFlight, waiter, expired, ownStore, storeClosed, late>>

\* Mutant: draining is set once the wait is over.
MutShutdown(q) ==
  /\ closeMuFree /\ ~closed
  /\ Hold(q, "calling", "waiting")
  /\ waiter' = "started"
  /\ UNCHANGED <<vars, at, draining, closed, inFlight, expired, ownStore, storeClosed, late>>

Shutdown(q) ==
  /\ closeMuFree /\ ~closed
  /\ Hold(q, "calling", "waiting")
  /\ draining' = TRUE
  /\ waiter' = "started"
  /\ UNCHANGED <<vars, at, closed, inFlight, expired, ownStore, storeClosed, late>>

\* inFlight.Wait() returns at once when the count is 0, and sleeps otherwise.
WaitBegins ==
  /\ waiter = "started"
  /\ waiter' = IF inFlight = 0 THEN "done" ELSE "asleep"
  /\ UNCHANGED <<vars, at, draining, closed, inFlight, phase, expired, ownStore, storeClosed, late>>

\* sync.WaitGroup: a sleeper that finds the count moved again when it wakes panics.
WaitEnds ==
  /\ waiter = "woken"
  /\ waiter' = IF inFlight = 0 THEN "done" ELSE "panicked"
  /\ UNCHANGED <<vars, at, draining, closed, inFlight, phase, expired, ownStore, storeClosed, late>>

\* case <-done, then closed.
Drained(q) ==
  /\ waiter = "done"
  /\ Hold(q, "waiting", "closing")
  /\ closed' = TRUE
  /\ UNCHANGED <<vars, at, draining, inFlight, waiter, expired, ownStore, storeClosed, late>>

\* case <-ctx.Done(), then closed.  The waiter stays behind.
Deadline(q) ==
  /\ Hold(q, "waiting", "closing")
  /\ closed' = TRUE /\ expired' = TRUE
  /\ UNCHANGED <<vars, at, draining, inFlight, waiter, ownStore, storeClosed, late>>

CloseStore(q) ==
  /\ Hold(q, "closing", "returned")
  /\ storeClosed' = ownStore
  /\ up' = (up /\ ~ownStore)
  /\ UNCHANGED <<breakerVars, at, draining, closed, inFlight, waiter, expired, ownStore, late>>

-----------------------------------------------------------------------------

Environment ==
  /\ StoreFails \/ (~storeClosed /\ StoreHeals) \/ Tick
  /\ UNCHANGED engineVars

Operation(p) ==
  Enter(p) \/ Gate(p) \/ Refused(p) \/ UseStore(p) \/ Report(p) \/ Leave(p) \/ ReturnDirectly(p)

Closing(q) == ShutdownAgain(q) \/ Shutdown(q) \/ Drained(q) \/ CloseStore(q)

\* A panic ends the process.
EngineNext ==
  /\ waiter # "panicked"
  /\ \/ \E p \in Proc : Arrive(p) \/ PingArrives(p) \/ CallDirectly(p) \/ Operation(p)
     \/ \E q \in Closer : CallShutdown(q) \/ Closing(q) \/ Deadline(q)
     \/ WaitBegins
     \/ WaitEnds
     \/ Environment

EngineSpec == EngineInit /\ [][EngineNext]_allVars

\* Goroutines that can run do run, store calls return, time passes, and requests keep
\* coming.  Nobody is obliged to shut the engine down, and a context need not have a
\* deadline.
EngineFairness ==
  /\ \A p \in Proc : WF_allVars(Arrive(p)) /\ WF_allVars(Operation(p))
  /\ \A q \in Closer : WF_allVars(Closing(q))
  /\ WF_allVars(WaitBegins) /\ WF_allVars(WaitEnds)
  /\ WF_allVars(Tick /\ UNCHANGED engineVars)

FairEngineSpec == EngineSpec /\ EngineFairness

-----------------------------------------------------------------------------

\* The engine uses the breaker as CircuitBreaker says it is used: Allow or State
\* first, one report per call that got in (authorizeRequest, IssueChallenge, Ping).
RefinesBreaker == Spec

\* Until its deadline, Shutdown closes the store under none of the operations that
\* were counted before it began (draining, inFlight.Wait).
AwaitsCounted ==
  storeClosed /\ ~expired => \A p \in Proc : at[p] \in {"in", "leaving"} => p \in late

\* Whichever call of Shutdown has returned, the engine is closed by then, and its own
\* store with it (closeMu, closed).
ClosedOnReturn ==
  (\E q \in Closer : phase[q] = "returned") => closed /\ (ownStore => storeClosed)

\* Shutdown returns without the help of its deadline, unless the WaitGroup panics:
\* every operation counts itself out, refused ones too (inFlight.Done).
ShutdownReturns ==
  \A q \in Closer : (phase[q] = "calling") ~> (phase[q] = "returned" \/ waiter = "panicked")

\* Operations in flight complete before the store is closed, up to the deadline (the
\* comment on Shutdown: "waiting for active in-flight operations to complete up to
\* ctx deadline, and closing the underlying store").
InFlightCompletes ==
  storeClosed /\ ~expired => \A p \in Proc : at[p] # "in"
=============================================================================
