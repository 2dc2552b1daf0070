--------------------------- MODULE CircuitBreaker ---------------------------
(***************************************************************************)
(* The circuit breaker (circuit_breaker.go) and the two ways the engine    *)
(* goes through it (onionguard.go): requests are gated by Allow, which     *)
(* lets one probe through when half open; IssueChallenge,                  *)
(* ValidateChallenge, RevokeSession, RotateSession and Ping only look at   *)
(* State.  Both report the outcome of their store calls afterwards.        *)
(*                                                                         *)
(* lastStateChange is kept as the part of the cool-down that is left.      *)
(***************************************************************************)
EXTENDS Integers, FiniteSets

CONSTANTS
  Proc,               \* goroutines
  FailureThreshold,
  CoolDown,
  Bypass              \* do calls that look at State only take place?

ASSUME BreakerAssumption ==
  /\ FailureThreshold \in Nat \ {0}
  /\ CoolDown \in Nat \ {0}
  /\ Bypass \in BOOLEAN

VARIABLES
  state,              \* CircuitClosed, CircuitOpen, CircuitHalfOpen
  failures,           \* consecutive infrastructure failures
  left,               \* what is left of the cool-down, 0 unless open
  halfOpenInFlight,
  up,                 \* does the store answer, without infrastructure errors?
  pc,                 \* "idle", "request" (gated), "probe" (gated, half open), "bypass"
  result              \* outcome of the store calls: "none", "ok", "infra"

vars == <<state, failures, left, halfOpenInFlight, up, pc, result>>

TypeOK ==
  /\ state \in {"CLOSED", "OPEN", "HALF_OPEN"}
  /\ failures \in 0 .. FailureThreshold
  /\ left \in 0 .. CoolDown
  /\ halfOpenInFlight \in BOOLEAN
  /\ up \in BOOLEAN
  /\ pc \in [Proc -> {"idle", "request", "probe", "bypass"}]
  /\ result \in [Proc -> {"none", "ok", "infra"}]

Init ==
  /\ state = "CLOSED" /\ failures = 0 /\ left = 0 /\ halfOpenInFlight = FALSE
  /\ up = TRUE
  /\ pc = [p \in Proc |-> "idle"]
  /\ result = [p \in Proc |-> "none"]

-----------------------------------------------------------------------------

\* Mutant: leaving HALF_OPEN does not clear the probe flag.
MuttransitionLocked(to) ==
  /\ state' = to
  /\ left' = IF to = "OPEN" THEN CoolDown ELSE 0
  /\ UNCHANGED halfOpenInFlight
  /\ failures' = IF to = "CLOSED" THEN 0 ELSE failures

transitionLocked(to) ==
  /\ state' = to
  /\ left' = IF to = "OPEN" THEN CoolDown ELSE 0
  /\ halfOpenInFlight' = FALSE
  /\ failures' = IF to = "CLOSED" THEN 0 ELSE failures

\* Mutant: the cool-down is not waited for.
Mutcurrent(s) == IF s = "OPEN" THEN "HALF_OPEN" ELSE s

\* What currentStateLocked returns: an open circuit whose cool-down is over is half open.
current(s) == IF s = "OPEN" /\ left = 0 THEN "HALF_OPEN" ELSE s

Refreshed == current(state) # state

\* State and the start of Allow move the circuit when it is due.
currentStateLocked ==
  IF Refreshed THEN transitionLocked("HALF_OPEN")
               ELSE UNCHANGED <<state, failures, left, halfOpenInFlight>>

ProbeOut == halfOpenInFlight /\ ~Refreshed

AllowRequest(p) ==
  /\ pc[p] = "idle"
  /\ current(state) = "CLOSED"
  /\ pc' = [pc EXCEPT ![p] = "request"]
  /\ UNCHANGED <<state, failures, left, halfOpenInFlight, up, result>>

AllowProbe(p) ==
  /\ pc[p] = "idle"
  /\ current(state) = "HALF_OPEN"
  /\ ~ProbeOut
  /\ state' = "HALF_OPEN"
  /\ left' = 0
  /\ halfOpenInFlight' = TRUE
  /\ pc' = [pc EXCEPT ![p] = "probe"]
  /\ UNCHANGED <<failures, up, result>>

\* IssueChallenge, ValidateChallenge, RevokeSession, RotateSession, Ping.
BypassGate(p) ==
  /\ Bypass
  /\ pc[p] = "idle"
  /\ current(state) # "OPEN"
  /\ currentStateLocked
  /\ pc' = [pc EXCEPT ![p] = "bypass"]
  /\ UNCHANGED <<up, result>>

\* The store calls of p, with what isInfrastructureError makes of their error.  A
\* call that fails for another reason before it reaches the store is "ok" too.
Operate(p) ==
  /\ pc[p] # "idle"
  /\ result[p] = "none"
  /\ \E r \in IF up THEN {"ok"} ELSE {"ok", "infra"} : result' = [result EXCEPT ![p] = r]
  /\ UNCHANGED <<state, failures, left, halfOpenInFlight, up, pc>>

reportSuccess ==
  IF state = "HALF_OPEN" THEN transitionLocked("CLOSED")
  ELSE /\ failures' = IF state = "CLOSED" THEN 0 ELSE failures
       /\ halfOpenInFlight' = FALSE
       /\ UNCHANGED <<state, left>>

\* Mutant: the threshold is passed before it trips.
MutTrips == failures + 1 > FailureThreshold

Trips == failures + 1 >= FailureThreshold

\* Mutant: a failure is looked at only while closed.
MutreportFailure ==
  \/ /\ state = "CLOSED"
     /\ failures' = failures + 1
     /\ IF Trips THEN state' = "OPEN" /\ left' = CoolDown /\ halfOpenInFlight' = FALSE
                 ELSE UNCHANGED <<state, left, halfOpenInFlight>>
  \/ /\ state # "CLOSED"
     /\ UNCHANGED <<state, failures, left, halfOpenInFlight>>

reportFailure ==
  \/ /\ state = "HALF_OPEN"
     /\ transitionLocked("OPEN")
  \/ /\ state = "CLOSED"
     /\ failures' = failures + 1
     /\ IF Trips THEN state' = "OPEN" /\ left' = CoolDown /\ halfOpenInFlight' = FALSE
                 ELSE UNCHANGED <<state, left, halfOpenInFlight>>
  \/ /\ state = "OPEN"
     /\ UNCHANGED <<state, failures, left, halfOpenInFlight>>

report(p) ==
  /\ result[p] # "none"
  /\ IF result[p] = "ok" THEN reportSuccess ELSE reportFailure
  /\ pc' = [pc EXCEPT ![p] = "idle"]
  /\ result' = [result EXCEPT ![p] = "none"]
  /\ UNCHANGED up

-----------------------------------------------------------------------------

StoreFails == up /\ up' = FALSE /\ UNCHANGED <<state, failures, left, halfOpenInFlight, pc, result>>
StoreHeals == ~up /\ up' = TRUE /\ UNCHANGED <<state, failures, left, halfOpenInFlight, pc, result>>

Tick ==
  /\ left > 0
  /\ left' = left - 1
  /\ UNCHANGED <<state, failures, halfOpenInFlight, up, pc, result>>

Next ==
  \/ \E p \in Proc : AllowRequest(p) \/ AllowProbe(p) \/ BypassGate(p) \/ Operate(p) \/ report(p)
  \/ StoreFails
  \/ StoreHeals
  \/ Tick

Spec == Init /\ [][Next]_vars

\* Store calls return (they have timeouts), their callers report (a defer, or the next
\* statement), time passes, and requests keep arriving.
Fairness ==
  /\ \A p \in Proc : WF_vars(Operate(p)) /\ WF_vars(report(p))
  /\ WF_vars(\E p \in Proc : AllowProbe(p))
  /\ WF_vars(Tick)

FairSpec == Spec /\ Fairness

-----------------------------------------------------------------------------

\* The probe flag of a half-open circuit is always somebody's: a flag left behind
\* would have Allow turn every request away for good (Allow, report).
FlagHasOwner == state = "HALF_OPEN" /\ halfOpenInFlight => \E p \in Proc : pc[p] = "probe"

\* A closed circuit has seen fewer than FailureThreshold failures in a row, and an
\* open or half-open one tripped on exactly that many (report, transitionLocked).
TripCount == (state = "CLOSED") <=> (failures < FailureThreshold)

\* The circuit is half open only after a whole cool-down spent open, whoever
\* reports in between (currentStateLocked).
CoolsDown == [][state = "OPEN" /\ state' # "OPEN" => left = 0 /\ state' = "HALF_OPEN"]_vars

\* Once the store stays healthy the circuit closes and stays closed, however many
\* late reports of failures are still to come in (report).
Recovers == <>[]up => <>[](state = "CLOSED")

\* While a probe is out, no other request is let through as a probe (the comment
\* in Allow: "Probe request is already in progress; fast-fail other requests").
OneProbe == Cardinality({p \in Proc : pc[p] = "probe"}) <= 1
=============================================================================
