------------------------------ MODULE MCEngine ------------------------------
(***************************************************************************)
(* EngineLifecycle for TLC, and beside it, on variables of its own, a      *)
(* circuit breaker with more goroutines and a longer cool-down.  A         *)
(* behaviour is about one of the two.                                      *)
(***************************************************************************)
EXTENDS EngineLifecycle

CONSTANT Caller       \* the goroutines of the breaker on its own

VARIABLES
  alone,    \* which of the two
  astate, afailures, aleft, ahalfOpenInFlight, aup, apc, aresult

Alone == INSTANCE CircuitBreaker
  WITH Proc <- Caller, CoolDown <- CoolDown + 1, state <- astate, failures <- afailures, left <- aleft,
       halfOpenInFlight <- ahalfOpenInFlight, up <- aup, pc <- apc, result <- aresult

avars == <<astate, afailures, aleft, ahalfOpenInFlight, aup, apc, aresult>>
bothVars == <<allVars, avars, alone>>

BothInit == EngineInit /\ Alone!Init /\ alone \in BOOLEAN

BothNext ==
  \/ ~alone /\ EngineNext /\ UNCHANGED <<avars, alone>>
  \/ alone /\ Alone!Next /\ UNCHANGED <<allVars, alone>>

\* EngineFairness, of the behaviours that are about the engine; Fairness asks nothing
\* of a breaker that nobody uses.
BothFairness ==
  LET Serving(A) == ~alone /\ A
  IN  /\ \A p \in Proc : WF_allVars(Serving(Arrive(p))) /\ WF_allVars(Serving(Operation(p)))
      /\ \A q \in Closer : WF_allVars(Serving(Closing(q)))
      /\ WF_allVars(Serving(WaitBegins)) /\ WF_allVars(Serving(WaitEnds))
      /\ WF_allVars(Serving(Tick /\ UNCHANGED engineVars))
      /\ Alone!Fairness

BothSpec == BothInit /\ [][BothNext]_bothVars /\ BothFairness

\* See Recovers: of the breaker on its own.
RecoversAlone == Alone!Recovers
=============================================================================
