---------------------------- MODULE MemoryClose ----------------------------
(***************************************************************************)
(* The end of a MemoryStore (store/memory.go): Close marks the store under *)
(* mu, stops the janitor and waits for it, while the janitor may be        *)
(* waiting for mu itself and operations come and go.                       *)
(***************************************************************************)
CONSTANTS
  User,     \* goroutines that call operations
  Closer    \* goroutines that call Close

VARIABLES
  mu,       \* who holds the mutex: a user, a closer, "janitor" or "nobody"
  user,     \* what each user is doing: "out", "wants", "in"
  janitor,  \* "select", "ticked" (wants mu), "sweeping", "done" (closed s.done)
  once,     \* closeOnce: the closer that runs the function, "free" or "over"
  close,    \* where each closer is
  closed,
  stopped   \* s.stop is closed

vars == <<mu, user, janitor, once, close, closed, stopped>>

CloseTypeOK ==
  /\ user \in [User -> {"out", "wants", "in"}]
  /\ mu = "nobody" \/ mu = "janitor" \/ \E g \in User \cup Closer : mu = g
  /\ janitor \in {"select", "ticked", "sweeping", "done"}
  /\ close \in [Closer -> {"out", "called", "inside", "locked", "unlocked", "stopped", "returned"}]
  /\ once = "free" \/ once = "over" \/ \E c \in Closer : once = c
  /\ closed \in BOOLEAN /\ stopped \in BOOLEAN

Init ==
  /\ mu = "nobody" /\ user = [u \in User |-> "out"] /\ janitor = "select"
  /\ once = "free" /\ close = [c \in Closer |-> "out"]
  /\ closed = FALSE /\ stopped = FALSE

-----------------------------------------------------------------------------

Begin(u) ==
  /\ user[u] = "out" /\ user' = [user EXCEPT ![u] = "wants"]
  /\ UNCHANGED <<mu, janitor, once, close, closed, stopped>>

Lock(u) ==
  /\ mu = "nobody" /\ mu' = u
  /\ user[u] = "wants" /\ user' = [user EXCEPT ![u] = "in"]
  /\ UNCHANGED <<janitor, once, close, closed, stopped>>

\* An operation ends, refused if the store is closed.
Unlock(u) ==
  /\ mu = u /\ mu' = "nobody"
  /\ user' = [user EXCEPT ![u] = "out"]
  /\ UNCHANGED <<janitor, once, close, closed, stopped>>

\* case <-ticker.C
JanitorTicks ==
  /\ janitor = "select" /\ janitor' = "ticked"
  /\ UNCHANGED <<mu, user, once, close, closed, stopped>>

JanitorLocks ==
  /\ mu = "nobody" /\ mu' = "janitor"
  /\ janitor = "ticked" /\ janitor' = "sweeping"
  /\ UNCHANGED <<user, once, close, closed, stopped>>

JanitorUnlocks ==
  /\ janitor = "sweeping" /\ mu' = "nobody"
  /\ janitor' = IF closed THEN "done" ELSE "select"
  /\ UNCHANGED <<user, once, close, closed, stopped>>

\* case <-s.stop
JanitorStops ==
  /\ stopped
  /\ janitor = "select" /\ janitor' = "done"
  /\ UNCHANGED <<mu, user, once, close, closed, stopped>>

Step(c, from, to) == close[c] = from /\ close' = [close EXCEPT ![c] = to]

CallClose(c) == Step(c, "out", "called") /\ UNCHANGED <<mu, user, janitor, once, closed, stopped>>

\* closeOnce.Do: the first caller runs the function, the others wait for its end.
Do(c) ==
  /\ once = "free" /\ once' = c
  /\ Step(c, "called", "inside")
  /\ UNCHANGED <<mu, user, janitor, closed, stopped>>

CloseAgain(c) ==
  /\ once = "over"
  /\ Step(c, "called", "returned")
  /\ UNCHANGED <<mu, user, janitor, once, closed, stopped>>

CloseLocks(c) ==
  /\ mu = "nobody" /\ mu' = c
  /\ Step(c, "inside", "locked")
  /\ UNCHANGED <<user, janitor, once, closed, stopped>>

\* Mutant: mu is kept until Close returns.
MutCloseMarks(c) ==
  /\ Step(c, "locked", "unlocked") /\ closed' = TRUE
  /\ UNCHANGED <<mu, user, janitor, once, stopped>>

CloseMarks(c) ==
  /\ Step(c, "locked", "unlocked") /\ closed' = TRUE
  /\ mu' = "nobody"
  /\ UNCHANGED <<user, janitor, once, stopped>>

CloseStops(c) ==
  /\ Step(c, "unlocked", "stopped") /\ stopped' = TRUE
  /\ UNCHANGED <<mu, user, janitor, once, closed>>

\* <-s.done
CloseReturns(c) ==
  /\ janitor = "done"
  /\ Step(c, "stopped", "returned") /\ once' = "over"
  /\ UNCHANGED <<mu, user, janitor, closed, stopped>>

Closing(c) == Do(c) \/ CloseAgain(c) \/ CloseMarks(c) \/ CloseStops(c) \/ CloseReturns(c)

Next ==
  \/ \E u \in User : Begin(u) \/ Lock(u) \/ Unlock(u)
  \/ JanitorTicks
  \/ JanitorLocks
  \/ JanitorUnlocks
  \/ JanitorStops
  \/ \E c \in Closer : CallClose(c) \/ CloseLocks(c) \/ Closing(c)

Spec == Init /\ [][Next]_vars

\* Operations and the janitor's sweep end, goroutines that can run do run, and a
\* sync.RWMutex starves nobody who waits for it.
Fairness ==
  /\ \A u \in User : WF_vars(Unlock(u))
  /\ WF_vars(JanitorUnlocks) /\ WF_vars(JanitorStops) /\ SF_vars(JanitorLocks)
  /\ \A c \in Closer : WF_vars(Closing(c)) /\ SF_vars(CloseLocks(c))

-----------------------------------------------------------------------------

\* Every Close returns, the second one too, whether the janitor is at rest, waits
\* for the mutex or sweeps when the store is marked closed (Close, janitor).
CloseEnds == \A c \in Closer : (close[c] = "called") ~> (close[c] = "returned")
=============================================================================
