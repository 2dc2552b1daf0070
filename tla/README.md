# A TLA+ model of OnionGuard

OnionGuard is a Go library that admits anonymous clients to a service: a waiting
room, a CAPTCHA challenge, server-side sessions with a bounded lifetime and a
bounded number, all kept in a store (in memory or Redis) that several processes
may share. What makes it hard is that nearly every operation is a sequence of
store calls, that any number of goroutines (and, with Redis, processes) run those
sequences on the same session, and that each call may fail, take effect without
being acknowledged, or be the last one before the process dies.

This directory holds TLA+ modules translated from the source, TLC configurations
that check them on small instances, and proofs that TLAPS checks for every value
of the constants. File and line references are to the repository; `PROJECT.json`
maps every definition to its lines.

## Inventory of the system

| Component | State | Operations | Talks to |
| --- | --- | --- | --- |
| State machine (`admission.go`) | none | `IsLegalTransition` | used by `Transition` |
| Admission engine (`admission.go`) | session records, capacity slots | `Evaluate`, `handleNewClient`, `handleWaitElapsed`, `Transition` | session lock, store |
| Session records (`session.go`) | `session:<id>` keys | save, get, revoke, rotate | session lock, store |
| Challenge service (`challenge.go`) | `challenge:<id>` keys, `ChallengeID` of the session | `Issue`, `Validate`, `Get` | session lock, store |
| Session lock (`lock.go`) | `lock:session:<id>` key, renewal goroutine | `acquireLock`, `releaseLock`, `withSessionLock` | store |
| Circuit breaker (`circuit_breaker.go`) | state, failure count, time of the last change, probe flag | `Allow`, `State`, `report` | engine |
| Reservations (`store/memory.go`, `store/redis.go`) | map and counter; sorted set | `ReserveSession`, `ReleaseSession`, `MoveSessionReservation`, janitor | engine |
| Store entries (`store/memory.go`, `store/redis.go`) | keys with TTL, entry limit | `Get`, `Set`, `Delete`, `GetDel`, `SetNX`, `CompareAndDelete`, `CompareAndTouch`, `Touch`, `IncrementWithTTL`, eviction, janitor, `Close` | everybody |
| Token buckets (both stores) | buckets with a level and a time stamp | `ConsumeToken` | rate limiter |
| Rate limiter (`ratelimit.go`) | none | `Allow`: which bucket, fail open or closed | engine, challenge endpoint |
| Engine (`onionguard.go`) | draining, closed, in-flight count | `AuthorizeRequest`, `IssueChallenge`, `ValidateChallenge`, `RevokeSession`, `RotateSession`, `Ping`, `Shutdown`, `Close`; uncounted `GetChallenge`, `AllowRateLimit`, `ResolveIdentity`, `EvaluateSession` | all of the above |
| Identity (`identity.go`) | none | `ResolveWithSession`, `RateLimitKey` | store |
| Middleware (`middleware/http.go`, `middleware/fiber/fiber.go`) | the client's cookie and page | admission of a request, challenge endpoint | engine |
| Configuration, CAPTCHA rendering, headers | none that changes | | engine |

A request enters through `authorizeRequest`: the breaker lets it in, its session is
read **without a lock**, and `EvaluateFresh` decides on that snapshot. Operations
that change an existing session run inside `withSessionLock`, read the record
again, decide, and then make their writes one by one. First contact writes without
the lock (nobody else knows the id yet). Capacity reservations are written last,
best effort, and their refusals are ignored everywhere but at first contact.

What should be true, component by component:

- sessions move along the legal transitions only; a revoked one stays revoked;
  nobody leaves the waiting room early; a challenge is ruled on at most
  `MaxAttempts` times; rotation gives one heir and the old id is dead; no session
  outlives its absolute lifetime; no more sessions than `MaxConcurrentSessions`;
- the lock: whoever runs `fn` keeps the lock until `fn` has returned, and so runs
  alone, while leases hold; nobody releases or renews somebody else's lock, even when
  they do not; locks of dead holders become free, calls return;
- the breaker: trips on the threshold, stays open for the cool-down, lets one probe
  through at a time, recovers;
- the reservations: never more than the limit, nobody refused while there is room;
- the entries: operations take effect at one instant on keys that vanish when their
  time is up; a full memory store gives up a live key only for a new one, and only
  when nothing in it has lapsed;
- the buckets: no more than burst plus rate times the time passed, except that a
  bucket may start full when it lapses or is evicted, and a refused caller that waits
  as long as it was told is served if `Burst` can pay for its call at all;
- shutdown: operations counted before it are waited for, it returns, and when it has
  returned the engine is closed;
- a request reaches the handler only with a credential or an admitted session,
  visitors with a session are not charged for those without, and a patient client
  gets in.

The list of what is hard to test, with the line where each hazard bites and the
properties that would catch it, is `hazards` in `PROJECT.json`.

## Modules

```
Transitions ── AdmissionFSM (abstract)           LeaseLock (abstract)
     │               ▲ refines                        ▲ refines
 Sessions ────── Admission ── MCAdmission        SessionLock ── MCSessionLock
                     │                                │
             AdmissionProofs ── AdmissionSafetyProofs   SessionLockProofs

                        CircuitBreaker ── MCCircuitBreaker, CircuitBreakerProofs
                              ▲ extends, refines
 Gateway ── MCGateway   EngineLifecycle ── MCEngine, EngineLifecycleProofs
    │
 GatewayProofs

 ReservationPool (abstract)       TTLStore (abstract)           Buckets (rule)
   ▲ refines      ▲                 ▲ refines    ▲               │         │
 MemoryReserv.  RedisReserv.      MemoryEntries RedisEntries  MemoryBuckets RedisBuckets   MemoryClose
   │     └──────────┴───────────────┴── MCStores ─┴──────────────┴─────────┴──────────────────┘
 MemoryReservationsProofs            StoresProofs (extends MCStores)
```

**Transitions** is the table of `IsLegalTransition`. **AdmissionFSM** is the promise
made with it: the state recorded for a session only ever moves along that table.

**Sessions** holds the session record and the stored challenge, and the pure parts
of the handlers: what `handleNewClient` persists (`Admit`), what the end of the wait
makes of a record (`LeaveWaitRoom`), the outcomes of `Validate` (`Expelled`,
`Solved`), rotation (`Rotatable`, `Successor`) and `Transition`. Times are naturals,
0 is Go's zero time. `until` is the store's own expiry of a record, which differs
from the record's `expiresAt`, as in the code. The bounds `Config.Validate` enforces
are `ValidConfig`.

**Admission** composes everything that acts on sessions. A process is a goroutine
serving one call; `pc` says which store call comes next and `task` holds the
handler's locals. The steps of a call are: take the lock (`Call`,
`EvaluateWaiting`); read the record and the clock and decide (one action per
outcome: `handleWaitElapsed`, `Issue`, `ValidateExpired`, `ValidateRetry`,
`ValidateExpel`, `ValidateSolved`, `RotateSession`, `RevokeSession`, `Transition`,
`ReturnEarly`); then one action per store write, in the order of the code
(`WriteChallenge`, `SaveSession`, `DeleteOld`, `SettleReservation`, `Unlock`). Read
and decision are one step because only holders of the lock write the record; when
leases may lapse (`LapsingSpec`, which of the runs only `admission_lease` uses) this makes the
model coarser than the code between a handler's reads, not at its writes. First contact and evaluation are
`Resolve`, `ResolveNew`, `EvaluateOnly`, `HandleNewClient`, `RefuseNewClient`,
`SaveNewClient`, without the lock. A failing store call may or may not have taken
effect, and each handler's compensation is part of its failure action
(`SaveFails`: `Issue` deletes its challenge, `Validate` puts the consumed one back;
`DeleteFails`: `RotateSession` deletes the replacement; `SaveNewClientFails`: the
slot is given back; `ReserveFails`: it is not, and lapses). `Crash` ends a process between any two calls. A deleted or
lapsed record keeps its last state as history, so that the refinement speaks about
a session's whole life. `known`, `origin`, `heir` and `judged` are history variables.
`lock` behaves as LeaseLock says, which is what SessionLock is shown to implement:
under `Spec` no handler loses its lock before its `Unlock`, under `LapsingSpec` one may.
The reservations in Admission are the memory store's.

**LeaseLock** is the lock callers of `withSessionLock` rely on: it has the holder and
the goroutines that are inside `fn`, and a lock may be released, or lapse, only when its
holder is not inside (`Release`), or is gone (`Lapse` of an `Orphan`). There is no step
in which a holder loses the lock while `fn` runs, so a lease that lapses or is evicted
under a holder refutes the refinement: with `"touch"` or `"evict"` among the faults of
the first instance of `lock`, TLC finds `RefinesLeaseLock` violated. **SessionLock** is
`withSessionLock` on one key: token, retry loop with a deadline, `SetNX`, the renewal
goroutine with its ticker and its calls, `fn`, the wait for the goroutine, the
compared release. Time is relative (remaining TTL, time since the last renewal), so
nothing has to be bounded. `Faults` says what goes wrong: failing calls (`"store"`),
deaths (`"crash"`), and what loses a lease: failing renewals (`"touch"`), stalls
(`"stall"`), eviction from a full memory store (`"evict"`).

**CircuitBreaker** has the breaker and its two kinds of caller: requests gated by
`Allow`, and the engine's other operations, which look at `State` and report without
asking. `ErrLockUnavailable` counts as an infrastructure error, so `up = FALSE`
stands for lock contention as well as for an outage; during an outage a call may
still report success (one that fails before it reaches the store).

**ReservationPool** is the promise of a `SessionReservationStore`.
**MemoryReservations** is the map with lapsed entries still in it and the counter
that saves counting; **RedisReservations** is the sorted set and its scripts, where
the score comes from the caller's clock and the purge uses the server's. Both extend
**Reservations**, their common constants.

**TTLStore** is the key-value part of a store as its users take it: atomic
operations on keys that vanish. Its five constants are the ways in which the two
stores may differ: `Capacity` (a full store gives up the key nearest its end),
`Sliding` (`IncrementWithTTL` renews the counter's life in memory and leaves it in
Redis), `Least` (a counter goes below zero in Redis, `memory.go:484` refuses that),
`Unit` (`Touch` sends `EXPIRE`, in whole seconds and one at least, `redis.go:419`),
`Lossy` (the answer is lost, the effect is not). **MemoryEntries** is the map
with lapsed entries still in it: every operation removes or steps over them in its
own way, insertion at `MaxEntries` expires first and then evicts, and `Get` is two
steps (`Get`, `GetRemoves`), because it gives the read lock up before it takes the
write lock; any number of goroutines may be between the two (`rereads`), also for one
key. **RedisEntries** is commands and scripts in the server. Values are small numbers,
with a largest and, for counters, a least one, so that a counter overflows either way,
and one value that is no number; deltas are positive, zero or negative. **Entries** has
what they share.

**MemoryClose** is `MemoryStore.Close`, mutex by mutex: operations come and go, the
janitor ticks, waits for the mutex, sweeps and ends, and each of several closers goes
through `closeOnce`, the mutex, the `stop` channel and the wait for `done`.

**Buckets** is the rule of a bucket, in whole tokens and whole units of time (the unit
retry times are rounded to). **MemoryBuckets** and **RedisBuckets** are the two
`ConsumeToken`. Callers pass the time by their own clock, up to `Skew` behind by the
time the call is carried out. Times are relative again: `age` of a bucket's stamp, time
`left`. `meter` is a history variable, the budget an exact meter would still allow;
for Redis it is credited with what late callers set the stamp back by
(`redis.go:75`), which makes explicit how far the limit can be exceeded: by
`Rate` times the skew for each step back, and not at all with clocks in step.
`promise` and `last` remember the wait a refused caller was told. The constants are
what `Config.Validate` asks of a rule (`config.go:381`) and no more: a `Window` (`Window[b]`,
since scopes have rules of their own) may be too short to refill the bucket, a call may
cost more than `Burst`. `RefillsInWindow` says of a bucket that it lapses only when it
would be full; where it does not, `Metered` ends the stretch of time that `meter` is
about with the lapse.

**EngineLifecycle** extends CircuitBreaker with the way in and the end of the engine.
An operation checks `draining` and `closed` (`Arrive`), counts itself (`Enter`, a step
of its own, as in the code), passes the breaker (`Gate`, `Refused`), uses the store,
reports (`Report`) and counts itself out (`Leave`); `Ping` is not counted. Four calls of
the engine use its store without any of this (`CallDirectly`, `ReturnDirectly`:
`GetChallenge`, `AllowRateLimit`, `ResolveIdentity`, `EvaluateSession`,
`onionguard.go:484-555`): they may be under way in every state, after `Shutdown` too,
and nobody waits for them. `Shutdown`
takes `closeMu`, sets `draining`, starts a goroutine in `inFlight.Wait()`, waits for
it or for its deadline, sets `closed` and closes a store that is the engine's own. The
`sync.WaitGroup` is modelled with what Go documents as misuse: a waiter that wakes up
and finds the count moved again panics, which ends the process. The code does not
exclude that, since `Add` may come after `Wait` has begun.

**Gateway** is the whole path of a request: resolver, rate limiter, admission,
challenge, both middlewares with the challenge endpoint, and in front of them a
browser whose tabs share one cookie jar. Every store call of a request is a step, so
the requests of two tabs interleave in the middle; what runs under a session's lock is
one step here, because Admission looks inside. A request remembers the snapshot it
read (`snap`), the identity made of it, the bucket it was charged to (`key`) and the
cookie its answer will set. `config` is the deployment: waiting room or not, CAPTCHA
or not, net/http or Fiber, fail open or closed. The sessions are those of this browser;
everybody else is `flooded`, the state of the first-contact bucket they all share.
Everything that may go wrong takes one unit of `budget`: failing calls, revocations,
expiry and eviction, lost answers, wrong answers, reloads, credentials that are bad.
`seen` is a history variable.

`Mut...` definitions are mutants: plausible bugs, each of which a property catches.

## What is checked

| Run | Instance | Shows |
| --- | --- | --- |
| `admission_lifecycle` | 2 goroutines, 3 sessions, 1 slot, 1 challenge, 5 time units, no faults, no waiting room | `CapacityBound`, `AbsoluteCeiling`, `RevokedFreesSlot` |
| `admission_faults` | 2 goroutines, 1 session, 2 challenges, waiting room, store failures, crashes, time passes inside calls | `GuessBudget`, `PatienceServed`, `RefinesFSM`, `TypeOK` |
| `admission_rotation_faults` | 2 goroutines, 3 sessions (a replacement is replaced), forced transitions, store failures, crashes | `NoResurrection`, `OneHeir`, `RevokedIsFinal`, `RevokedSlotRunsOut` |
| `lock` | 3 goroutines, 4 tokens, TTL 10, renewal every 3, store failures, crashes, fair; a second key with 2 goroutines, failing renewals, stalls and eviction | `Mutex`, `RefinesLeaseLock`, `OrphanFreed`, `CallReturns`, `TypeOK`; `NobodyElsesLapsing` on the second key |
| `engine` | 2 operations, 2 closers, own or foreign store, threshold 2, cool-down 1, fair; beside it a breaker with 4 goroutines and cool-down 2 | `AwaitsCounted`, `ClosedOnReturn`, `ShutdownReturns`, `RefinesBreaker`, `FlagHasOwner`, `TripCount`, `CoolsDown`, `EngineTypeOK`; `RecoversAlone` of the breaker beside it |
| `stores` | reservations: 4 sessions, 2 slots; entries: 3 keys, 2 places in memory, 2 keys in Redis with a second of 2 units; buckets: 2 keys, 1 place, rate 2, burst 3, costs 1, 3 and 4, windows 4 and 2, skew 1; close: 2 users, 2 closers | `RefinesPool`, `WithinLimit`, `CounterNotBehind`, `SetBounded`, `RefinesStores`, `MapBounded`, `WithinBudgets`, `RetriesHonest`, `CloseEnds`, `TypesOK` |
| `gateway` | 2 tabs (HTML and API) with 1 event, and 1 tab with 3 events in three deployments (net/http with both barriers; Fiber with CAPTCHA only; fail-open with waiting room only); 3 session ids | `OnlyTheAdmitted`, `Isolated`, `Served`, `GatewayTypeOK` |

Five more runs are expected to fail; they are described below. `PatienceServed` is
checked without forced transitions: an operator may end a wait early on purpose.
`RevokedFreesSlot` is checked without faults: a failing release leaves the slot to
lapse by itself, and `RevokedSlotRunsOut`, checked with failing store calls and crashes,
says that it does. `CapacityBound` is checked without a waiting room: with one it fails
(`admission_capacity_expelled`). The run `stores` explores the parts of the two
stores, which share no state, from different initial states of one specification;
`engine` and `lock` do the same with their two instances.

What the properties of the newer modules say:

- `RefinesStores`: whatever lazy removal does, users of the store cannot tell it from
  TTLStore. A `Get` that comes back to remove a lapsed entry must look again, since a
  `Set` may have come in between.
- `WithinBudgets`: in no stretch of time does a bucket that is not evicted grant more
  than its rule, with refusals and late callers in between, and with lapses too where
  the bucket would be full by the time it lapses (`Rate * (Window - 2 * Skew) >= Burst`).
  `Config.Validate` does not ask for that: with Rate 1/s, Burst 100 and Window 60 s a
  bucket that was emptied starts full after a minute of rest. For such a bucket the
  property speaks of the time between two lapses. `b1` is a bucket of the first kind,
  `b2` of the second.
- `RetriesHonest`: a caller that comes back when it was told to, for no more than
  `Burst`, is not refused again (unless another call came in between). `Config.Validate`
  lets `Cost` exceed `Burst`; such a call is told a wait and refused every time (cost 4
  in the run, with burst 3), and the property leaves it out.
- `MapBounded` is about both maps of the memory store, entries and buckets.
- `RevokedSlotRunsOut`: once a revocation is recorded, whatever fails or dies before
  its slot is released (`session.go:218`, `admission.go:477`), and whatever calls come
  later, nobody extends the slot or takes it again, so it is free when it was going to be.
- `RefinesLeaseLock`: no holder loses the lock while `fn` runs.
- `AwaitsCounted` is what `Shutdown` does guarantee; the stronger sentence of its
  comment is refuted below. `ShutdownReturns` is without the help of a deadline.
- `RefinesBreaker`: the engine follows the protocol of the breaker, so what is checked
  and proved of CircuitBreaker holds inside the engine.
- `OnlyTheAdmitted`: the handler runs for a credential that validated, or for a session
  that was admitted at some moment of that very request. That it be admitted at the
  end of the request as well is not true, and not promised: the decision is made on a
  snapshot.
- `Isolated`: a request is charged to the bucket of all newcomers only if its session
  was missing at some moment; README of the repository: a flood leaves visitors with a
  session alone.
- `Served`: once floods end, every tab that goes on (reload, follow redirects, answer
  what is shown) reaches the content and stays there, whatever order the answers, and
  the cookies in them, arrived in.

Bounds. Two goroutines suffice for every race on one lock: one inside a call, one
entering; the lock runs have three, so that a lapsed holder meets two others. Two
challenges let a second one be issued after an expulsion, three sessions let a
rotated session be rotated again. `MaxTime` is large enough for each lifetime
(`WaitTime` + grace, `CaptchaTTL` + grace, `SessionTTL`, `AbsLifetime`) to run out
at least once; `Slow` lets time pass inside calls, and the runs without it are those
whose question is about interleaving rather than deadlines. The lock's numbers keep
the proportions of the code (TTL 10 s, renewal every TTL/3, 2 s per renewal call and
2 s of retrying). The set of ids is finite in the model: an exhausted set stands
for the entropy error of `GenerateSessionID`. Two places for three keys make every
insertion path meet a full map with and without lapsed entries in it; one place for
two buckets does that for buckets; a second of two units lets `Touch` cut a TTL of 3
and raise one of 1; `Skew` 1 lets a caller be late by a whole unit. Two
operations and two closers give every order of check, count and close; a third
operation adds nothing to a race between one count and one waiter, and the breaker,
which needs more (a probe, two late reports and a newcomer), has its four goroutines
beside. In Gateway two tabs are enough for one cookie to overwrite another, and three
events for a record to be lost, a call to fail and an answer to be wrong in one visit;
three ids suffice because at most three sessions of a browser are in use at a time
(one in the jar, one per request), and a forgotten one is free again. Symmetry is used for goroutines,
identifiers and tokens in runs without liveness properties only. Deadlock is not
checked for Admission, where the model's clock and ids run out, for EngineLifecycle
and the stores, which end closed, and for Gateway, which may rest when every tab shows
the content.

Fairness. The runs `lock`, `engine`, `stores` and `gateway` need it. For the lock: goroutines that can run do run, time
passes, `fn` returns (every handler makes finitely many store calls, each with a
timeout), and a closed `stop` channel is eventually picked by `select`, which
chooses among ready cases at random (strong fairness of `StopRenewer`). For the
breaker: store calls return, callers report (a `defer`, or the next statement), the
cool-down passes and requests keep coming. For the engine: the same, and the
goroutines of `Shutdown` run; nobody is obliged to shut down, and no deadline is
obliged to pass. For `Close`: a goroutine waiting for a `sync.RWMutex` is not passed
over for ever (strong fairness of the steps that take it), sweeps and operations end.
For the gateway: the server goes on with a request, answers arrive unless they are
lost, the client goes on, waits end. Nothing that costs a unit of `budget` is fair.

### Where the code does something else than its documentation says

Five runs are expected to fail, and TLC's counterexamples show how:

- `admission_capacity_expelled`: an expulsion (`challenge.go:217`) extends a session
  but not its capacity slot; the slot lapses, a newcomer takes it, and there are more
  usable sessions than `MaxConcurrentSessions` ("Global concurrent session capacity
  bound", `README.md:225`).
- `admission_expired`: `Transition` (`admission.go:446`) revives a session that is
  past its expiry ("Expired or revoked sessions can never be reactivated",
  `README.md:355`).
- `admission_lease`: a handler whose lock lapsed (`lock.go:120` stops renewing after
  one failure and tells nobody) saves its record over a revocation (same sentence).
- `breaker_probes`: a late report of an older request (`circuit_breaker.go:195`)
  clears the probe flag while the probe is out, and a second probe is let through
  (comment at `circuit_breaker.go:146`).
- `shutdown_race`: operations check `draining` (`onionguard.go:268`) before they call
  `inFlight.Add(1)`; `Shutdown` can run in between, find the count at zero and close
  the store under an operation that was neither rejected nor waited for ("waiting for
  active in-flight operations to complete up to ctx deadline, and closing the
  underlying store", `onionguard.go:202`).

## What is proved

All theorems hold for any set of goroutines, sessions, challenges and tokens and any
configuration that satisfies the named assumptions, with the time and id bounds of
the runs gone or arbitrary.

- **AdmissionProofs**: `TypeCorrect`. `TypeOK` alone is not inductive: a handler's
  locals must fit the stage it is at (a record about to be saved has a positive TTL
  or none is saved, a challenge write names a challenge). `WellFormed` says so per
  stage, and `TypeInv` adds it.
- **AdmissionSafetyProofs**, for every combination of store failures and crashes, for
  leases that renewals keep alive (`Spec`; `admission_lease` shows with `LapsingSpec`
  that this is needed) unless said otherwise. The inductive invariant `Inv` says: a process past `Call` holds
  the session's lock (`LockHeld`); an id being created has one creator and no record
  (`Births`, `Unborn`); locks belong to sessions somebody knows or is creating
  (`Tenants`); and the record a process is about to save is a legal move from the one
  that is stored *now* (`Plans`). The last is what the refinement needs, and it is
  preserved because no other process can write the record in between. From it follow
  `ImplementsFSM` and `RevokedForGood`. The other theorems each add an invariant about
  stored records *and* pending decisions, since a bad decision does its harm only when
  it is written:
  - `RotatedStaysGone` and `OneHeirOnly`, from `Rotations`: a session with an heir has no
    record, and whoever is going to write a record works on a session that has none.
  - `CeilingKept`, from `Ceilings`: every stored record, and every one about to be
    stored, carries its lineage's ceiling and expires by it, unless it is revoked or
    expired. The lineage's beginning is a history variable that rotation copies.
  - `PatienceAlwaysServed`, from `Patience`, assuming `"transition" \notin Ops`: an
    operator may end a wait by hand.
  - `RevokedSlotsRunOut`, under all faults, from `Bookings`: a call that is about to
    book a slot has just saved the record, not a revoked one, and nobody has changed it
    since. With a failing release, or a crash before it, the slot is left to lapse, and
    does.
  - `RevokedSlotFreed`, from `Slots`, assuming `Faults = {}`: a slot of a revoked session
    is about to be released by the very call that revoked it.
  - `GuessesLimited`, from `Guesses`, under all faults, assuming `MaxAttempts > 0`
    (`config.go:362` asks for it when the CAPTCHA is on). A challenge that is stored has
    counted every ruling on it; one that a handler has consumed is held by that handler
    alone, with its count; and one that is put back after a failure comes back with a
    higher count. That a challenge belongs to one session, whose lock the handler has,
    is what keeps two handlers from ruling on the same copy (`Named`, `Handling`).
  - `CapacityHeld`: `CapacityBound`, assuming `Faults = {}`, `"transition" \notin Ops`,
    `~Slow` (a call takes no time) and `~(WaitRoom /\ Captcha)`. It takes three
    invariants. `SlotsBounded` counts the slots taken, lapsed ones included. `Terms` says
    that a record is kept no longer than it is valid, so that what can be read has not
    expired (`GoneWhenExpired`); the code gets there by shortening the time to live while a
    challenge is open and giving it back afterwards. `Lodged` says that every session a
    client has is in a slot that still runs, and runs until the session expires unless the
    one call that is at it (`Owns`: it is creating it, or has its lock) is about to extend
    the slot; `Holds` says per stage of a call what it has in hand to keep it so. The record
    is written before the slot, everywhere but on first contact, and the slot of a rotated
    session moves after its record; it holds because the old slot still runs when the call
    gets there, so that an extension or a move is never refused, and because no two calls
    are at one session (`Apart`): sessions usable at one time have slots of their own.
    Each hypothesis is needed: TLC refutes `CapacityBound` on the instance of
    `admission_lifecycle` with `Slow` set, with `"transition"` among the operations, with
    failing store calls, and with crashes, and `admission_capacity_expelled` refutes it
    with both gates.
  - `LocksAreLeases`, for all faults: for every session, the lock and the handlers that
    run under it (`Running`: past `Call` and before `unlock`) are a behaviour of LeaseLock.
    So what `Spec` takes for granted of the lock, that nobody loses it before his
    `Unlock`, is what LeaseLock says, and `ImplementsLeaseLock` shows under which
    condition `withSessionLock` provides it. The theorem is not true of `LapsingSpec`:
    `LeaseLapses` frees a lock whose handler is running, which is no step of LeaseLock.
  - What does not depend on the lock, proved of `LapsingSpec` for all faults:
    `CeilingNeedsNoLock` (of which `CeilingKept` is the case of locks that are kept),
    `TypesNeedNoLock`, `SlotsNeverOverbooked`, `GoneWhenExpired`. They rest on `Ids`, the
    conjuncts of `Inv` that say whose an id is: an id is fresh random text, and a handler
    that lost its lock still writes under an id that it read or made. As everywhere under
    `LapsingSpec`, a handler's read and its decision are one step. All else needs the lock:
    with `LapsingSpec` in place of `Spec`, TLC refutes `GuessBudget`, `PatienceServed`,
    `NoResurrection` and `OneHeir` on the runs' instances, as `admission_lease` refutes
    `RevokedIsFinal`.
- **SessionLockProofs**: `MutualExclusion` and `ImplementsLeaseLock`, assuming
  `Faults \subseteq {"store", "crash"}`, and `LeasesExclude`: in LeaseLock whoever is
  inside has the lock, so one function runs at a time. The key fact is `Covered`: a holder's key
  has at least `LockTTL` minus the time since its last renewal left, and prompt
  renewals (`TouchEvery + TouchMax < LockTTL`, in the code 3.3 s + 2 s < 10 s) keep
  that positive. So the assumption behind `Spec` of Admission is discharged exactly when
  renewals are neither refused nor late and the store does not evict the key.
  Without that condition, for all faults: `LockTypes` and `NobodyElsesKey`. Their
  inductive invariant is only that no two goroutines hold the same token
  (`TokensApart`): then a compared release or renewal cannot hit another's key.
- **CircuitBreakerProofs**: `FlagOwned`, `TripCounted`, `CooledDown`.
- **MemoryReservationsProofs**: `CounterCovers`, `CapacityKept`, `ImplementsPool`.
  The counter may run ahead of the map (a move onto an id already there), never
  behind; that is why "not full" can be believed without looking and "full" cannot.
- **EngineLifecycleProofs**, for any finite set of goroutines
  (`GoroutinesAssumption`) and any number of closers: `EngineTypesCorrect`,
  `CountedAwaited`, `ClosedByThen`, `EngineRefinesBreaker`, and through the last one
  `EngineBreakerSafe`, the breaker's own theorems inside the engine. `Counts` equates
  the WaitGroup with the number of operations between `Add(1)` and `Done()`, so it is
  never negative; `WaitCovers` says that a wait that ended has seen out everybody
  counted before `draining` was set; `ClosedAfterWait` ties `closed` to such a wait or to
  a deadline, and the store to `closed` and `closeMu`.
- **GatewayProofs**, for any number of tabs, sessions and events: `GatewayTypesCorrect`,
  `HandlerGuarded`, `FloodsIsolated`. The invariant is one conjunct per tab, `Sound`: a
  request's identity is the one its credentials gave it, the snapshot it decides on was
  true at some moment of the request (`seen`), it has seen its session missing if it has
  no id or a key of the shared bucket, and an answer that shows the content has its
  reason. No conjunct relates two tabs: what other requests do to the record can only
  make a snapshot old.
- **StoresProofs**, about the specification that `stores` checks, `StoresSpec`:
  `BothImplementTTLStore` (every operation of both stores is one atomic operation of
  TTLStore, under the mapping that forgets lapsed entries), `MapStaysBounded`,
  `EitherStoreIsAPool`, `CapacityOfEither`, `SetNeverOverfull`, `CounterNeverBehind`,
  `BudgetsKept`, `RetriesKept`, `StoresTypesCorrect`. The entries of Redis need that a
  key is there exactly as long as it has a time to live (`REInv`), so `IncrementWithTTL`
  leaves no counter without one; and that a TTL in whole seconds is one still
  (`WholeUnits`). The buckets need `Covered`: the exact meter is never below what the
  bucket holds and would be refilled with; a bucket that is dropped would be full by
  then, or (`~RefillsInWindow`) its meter starts anew. `BucketsAssumption` is what
  `Config.Validate` asks for and nothing else. `Honest` keeps a promised wait long enough
  from refusal to return, for calls that cost no more than `Burst`.
  Of Close, `ClosedOnce`, from `CloseOrder`: one goroutine has the mutex, one runs the
  function of `closeOnce`, and when that is over the store is marked closed and the janitor
  gone; so nobody closes the `stop` channel again, and no Close returns before the janitor
  has ended.

Two things the proofs found, both corrected: in Gateway, arms of a CASE overlapped, and a
CASE with two true arms has no determined value (TLC takes the first); and `AbsoluteCeiling`
used to bound revoked and expired records too. It is not true of those, given time, because
`Transition` to EXPIRED writes the present as the expiry; they admit nobody. It now speaks
of live sessions, and says of them that they have an expiry at all.

Only model-checked: liveness (`OrphanFreed`, `CallReturns`, `RecoversAlone`,
`ShutdownReturns`, `CloseEnds`, `Served`), which the prover does not do. Every invariant
and action property of the passing runs is proved (`NobodyElsesLapsing` is the second
instance of `NobodyElses`, which is proved for all faults; `NobodyElses` on the first
instance, where no lease lapses, would say no more than `Mutex` and is not checked),
`CapacityBound` only under hypotheses that `admission_lifecycle` meets.

## Not modelled

- CAPTCHA rendering (`captcha.go`), metrics, masking, JSON and HTML: no state. The
  answer to a challenge is right or wrong.
- `NewRedisStore`: addresses, Sentinel, Cluster, TLS and connection pools are I/O of the
  client library. Its retries are further commands to the server.
- `RedisStore.closed` is read and written without synchronisation (`redis.go:494`); a
  reader that misses it gets an error from the closed client instead, which the model
  of failing calls has.
- The middlewares' body limits, refusals of other methods, security headers and
  redirect targets; where a token stands in a request (`extractAPIToken`).
- `Retry-After` headers are truncated to seconds (`http.go:315`), while the Redis store
  answers in milliseconds: a client that obeys the header may come early. The buckets
  of the model count in whole units, in which nothing is lost.
- The limiter's fixed-window fallback for stores without token buckets, stores without
  reservations or without `CompareAndTouch`, and a disabled breaker: the two stores of
  the library have all of these, and the others are not in the repository.
- The rest of `Config.Validate`: limits on sizes.

## Plan

The modules planned are written, and every safety property of the passing runs is proved.
What remains:

1. `CapacityBound` with faults, in a weaker form: how many sessions may be usable beyond
   the limit, and for how long, after a reservation that failed.
2. `LapsingSpec` with a handler's reads as steps of their own.
3. Liveness stays with TLC.
