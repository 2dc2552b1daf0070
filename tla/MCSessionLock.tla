--------------------------- MODULE MCSessionLock ---------------------------
(***************************************************************************)
(* Instances of SessionLock for TLC: one whose renewals are prompt, and a  *)
(* smaller one, on variables of its own, whose leases may lapse.  A        *)
(* behaviour is about one of the two keys.  There is one token more than   *)
(* goroutines: a key may carry the token of a holder that is gone.         *)
(***************************************************************************)
EXTENDS SessionLock

CONSTANTS LapsingProc, LapsingToken, LapsingFaults

VARIABLES
  lapsing,    \* which of the two
  lowner, lttl, lpc, ltoken, lrenewer, lsince, lwaited

Lapsing == INSTANCE SessionLock
  WITH Proc <- LapsingProc, Token <- LapsingToken, Faults <- LapsingFaults,
       owner <- lowner, ttl <- lttl, pc <- lpc, token <- ltoken,
       renewer <- lrenewer, since <- lsince, waited <- lwaited

lvars == <<lowner, lttl, lpc, ltoken, lrenewer, lsince, lwaited>>
BothVars == <<vars, lvars, lapsing>>

BothInit == Init /\ Lapsing!Init /\ lapsing \in BOOLEAN

BothNext ==
  \/ ~lapsing /\ Next /\ UNCHANGED <<lapsing, lvars>>
  \/ lapsing /\ Lapsing!Next /\ UNCHANGED <<lapsing, vars>>

\* The fairness of SessionLock is that of the prompt instance; the lapsing one has
\* no liveness property.
BothSpec == BothInit /\ [][BothNext]_BothVars /\ Fairness

\* Nobody takes away a lock that is still held, on the key whose leases lapse: a holder
\* that has lost its lease renews and releases too late, and must not hit the key of
\* the goroutine that took over (releaseLock, the renewal goroutine).
NobodyElsesLapsing == Lapsing!NobodyElses
=============================================================================
