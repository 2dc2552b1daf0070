------------------------ MODULE CircuitBreakerProofs ------------------------
(***************************************************************************)
(* Safety of the circuit breaker for every number of goroutines, every     *)
(* threshold and every cool-down.                                          *)
(***************************************************************************)
EXTENDS CircuitBreaker, TLAPS

\* The inductive invariant.
Inv == TypeOK /\ FlagHasOwner /\ TripCount

\* A new breaker (NewCircuitBreaker) is closed, with no failure and no probe.
LEMMA InitInv == Init => Inv
<1> SUFFICES ASSUME Init PROVE Inv
  OBVIOUS
<1>1. halfOpenInFlight \in BOOLEAN /\ up \in BOOLEAN
  BY Zenon DEF Init
<1>2. 0 \in 0 .. FailureThreshold /\ 0 \in 0 .. CoolDown /\ 0 < FailureThreshold
  BY BreakerAssumption
<1>3. TypeOK
  BY <1>1, <1>2, Zenon DEF Init, TypeOK
<1>4. FlagHasOwner /\ TripCount
  BY <1>2 DEF Init, FlagHasOwner, TripCount
<1> QED
  BY <1>3, <1>4 DEF Inv

\* Every call of Allow, State and report, and every change around them, keeps Inv.
LEMMA NextInv == Inv /\ [Next]_vars => Inv'
<1> SUFFICES ASSUME Inv, [Next]_vars PROVE Inv'
  OBVIOUS
<1> USE BreakerAssumption DEF Inv, TypeOK, FlagHasOwner, TripCount
<1>1. ASSUME NEW p \in Proc, AllowRequest(p) PROVE Inv'
  BY <1>1 DEF AllowRequest
<1>2. ASSUME NEW p \in Proc, AllowProbe(p) PROVE Inv'
  BY <1>2 DEF AllowProbe, current
<1>3. ASSUME NEW p \in Proc, BypassGate(p) PROVE Inv'
  BY <1>3 DEF BypassGate, currentStateLocked, Refreshed, current, transitionLocked
<1>4. ASSUME NEW p \in Proc, Operate(p) PROVE Inv'
  BY <1>4 DEF Operate
<1>5. ASSUME NEW p \in Proc, report(p) PROVE Inv'
  <2>1. CASE result[p] = "ok" /\ state = "HALF_OPEN"
    <3>1. halfOpenInFlight' \in BOOLEAN /\ up' \in BOOLEAN
      BY <1>5, <2>1, Zenon DEF report, reportSuccess, transitionLocked
    <3>2. state' = "CLOSED" /\ failures' = 0 /\ left' = 0
      BY <1>5, <2>1 DEF report, reportSuccess, transitionLocked
    <3> QED BY <1>5, <3>1, <3>2 DEF report
  <2>2. CASE result[p] = "ok" /\ state # "HALF_OPEN"
    <3>1. halfOpenInFlight' \in BOOLEAN /\ up' \in BOOLEAN
      BY <1>5, <2>2, Zenon DEF report, reportSuccess
    <3>2. /\ UNCHANGED <<state, left>>
          /\ failures' = IF state = "CLOSED" THEN 0 ELSE failures
      BY <1>5, <2>2 DEF report, reportSuccess
    <3> QED BY <1>5, <2>2, <3>1, <3>2 DEF report
  <2>3. CASE result[p] # "ok" /\ state = "CLOSED" /\ Trips
    <3>1. halfOpenInFlight' \in BOOLEAN /\ up' \in BOOLEAN
      BY <1>5, <2>3, Zenon DEF report, reportFailure
    <3>2. state' = "OPEN" /\ left' = CoolDown /\ failures' = failures + 1
      BY <1>5, <2>3 DEF report, reportFailure
    <3> QED BY <1>5, <2>3, <3>1, <3>2 DEF report, Trips
  <2>4. CASE result[p] # "ok" /\ state = "CLOSED" /\ ~Trips
    BY <1>5, <2>4 DEF report, reportFailure, Trips
  <2>5. CASE result[p] # "ok" /\ state = "HALF_OPEN"
    <3>1. halfOpenInFlight' \in BOOLEAN /\ up' \in BOOLEAN
      BY <1>5, <2>5, Zenon DEF report, reportFailure, transitionLocked
    <3>2. state' = "OPEN" /\ left' = CoolDown /\ UNCHANGED failures
      BY <1>5, <2>5 DEF report, reportFailure, transitionLocked
    <3> QED BY <1>5, <2>5, <3>1, <3>2 DEF report
  <2>6. CASE result[p] # "ok" /\ state = "OPEN"
    BY <1>5, <2>6 DEF report, reportFailure
  <2> QED BY <2>1, <2>2, <2>3, <2>4, <2>5, <2>6
<1>6. CASE StoreFails
  BY <1>6 DEF StoreFails
<1>7. CASE StoreHeals
  BY <1>7 DEF StoreHeals
<1>8. CASE Tick
  BY <1>8 DEF Tick
<1>9. CASE UNCHANGED vars
  BY <1>9 DEF vars
<1> QED
  BY <1>1, <1>2, <1>3, <1>4, <1>5, <1>6, <1>7, <1>8, <1>9 DEF Next

\* The invariant the other theorems rest on: types, the owner of the probe flag
\* and the count of failures, in every reachable state of the breaker.
THEOREM InvAlways == Spec => []Inv
  BY InitInv, NextInv, PTL DEF Spec

\* A half-open circuit whose probe flag is up has a probe out: Allow never turns
\* every request away for good on account of a flag nobody will clear.
THEOREM FlagOwned == Spec => []FlagHasOwner
  BY InvAlways, PTL DEF Inv

\* A circuit is closed exactly while fewer than FailureThreshold failures are counted.
THEOREM TripCounted == Spec => []TripCount
  BY InvAlways, PTL DEF Inv

\* An open circuit becomes half open, and nothing else, and only after its whole
\* cool-down, whoever reports what in between.
THEOREM CooledDown == Spec => CoolsDown
<1>1. [Next]_vars /\ Inv =>
        [state = "OPEN" /\ state' # "OPEN" => left = 0 /\ state' = "HALF_OPEN"]_vars
  <2> SUFFICES ASSUME [Next]_vars, Inv, state = "OPEN", state' # "OPEN"
               PROVE  left = 0 /\ state' = "HALF_OPEN"
    OBVIOUS
  <2> USE BreakerAssumption DEF Inv, TypeOK
  <2>1. ASSUME NEW p \in Proc, AllowProbe(p) PROVE left = 0 /\ state' = "HALF_OPEN"
    BY <2>1 DEF AllowProbe, current
  <2>2. ASSUME NEW p \in Proc, BypassGate(p) PROVE left = 0 /\ state' = "HALF_OPEN"
    BY <2>2 DEF BypassGate, currentStateLocked, Refreshed, current, transitionLocked
  <2>3. ASSUME NEW p \in Proc, report(p) PROVE FALSE
    BY <2>3 DEF report, reportSuccess, reportFailure
  <2> QED
    BY <2>1, <2>2, <2>3 DEF Next, AllowRequest, Operate, StoreFails, StoreHeals, Tick, vars
<1> QED
  BY <1>1, InvAlways, PTL DEF Spec, CoolsDown
=============================================================================
