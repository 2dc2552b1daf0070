---------------------------- MODULE SessionLock ----------------------------
(***************************************************************************)
(* withSessionLock (lock.go) on one key of the store: an owner token set   *)
(* with SetNX and a TTL, a renewal goroutine that touches it while fn      *)
(* runs, and a release that compares the token.                            *)
(*                                                                         *)
(* Time passes in Tick.  Only differences of times matter, so the store's  *)
(* expiry is the remaining TTL of the key and the renewal timer is the     *)
(* time since the TTL was last set; nothing is bounded.                    *)
(***************************************************************************)
EXTENDS Integers

CONSTANTS
  Proc,          \* goroutines that want the lock
  Token,         \* owner tokens
  NoToken,       \* the key is absent
  Free, Orphan,  \* as in LeaseLock
  LockTTL,       \* admissionLockTTL
  TouchEvery,    \* admissionLockTTL / 3
  TouchMax,      \* timeout of one renewal call, and lateness of its timer
  Patience,      \* how long acquireLock retries
  Faults         \* "store", "crash"; "touch", "stall", "evict" lose the lease

ASSUME LockAssumption ==
  /\ LockTTL \in Nat /\ TouchEvery \in Nat \ {0} /\ TouchMax \in Nat /\ Patience \in Nat
  /\ TouchEvery + TouchMax < LockTTL
  /\ NoToken \notin Token
  /\ Free \notin Proc /\ Orphan \notin Proc /\ Free # Orphan
  /\ Faults \subseteq {"store", "crash", "touch", "stall", "evict"}

VARIABLES
  owner,    \* the token stored under the key, or NoToken
  ttl,      \* how long the store will keep it
  pc,       \* where each withSessionLock call is
  token,    \* the owner token of the call
  renewer,  \* its renewal goroutine: "off", "sleep" or in a "touch" call
  since,    \* time since the call last set the key's TTL
  waited    \* time the call has been trying

vars == <<owner, ttl, pc, token, renewer, since, waited>>

Due == TouchEvery + TouchMax

TypeOK ==
  /\ owner \in Token \cup {NoToken}
  /\ ttl \in 0 .. LockTTL
  /\ pc \in [Proc -> {"idle", "trying", "critical", "leaving"}]
  /\ token \in [Proc -> Token \cup {NoToken}]
  /\ renewer \in [Proc -> {"off", "sleep", "touch"}]
  /\ since \in [Proc -> 0 .. Due]
  /\ waited \in [Proc -> 0 .. Patience]

Init ==
  /\ owner = NoToken /\ ttl = 0
  /\ pc = [p \in Proc |-> "idle"]
  /\ token = [p \in Proc |-> NoToken]
  /\ renewer = [p \in Proc |-> "off"]
  /\ since = [p \in Proc |-> 0]
  /\ waited = [p \in Proc |-> 0]

-----------------------------------------------------------------------------

\* Sixteen random bytes: a token nobody has, not even an abandoned key.
lockOwnerToken(k) == k # owner /\ \A q \in Proc : token[q] # k

Begin(p, k) ==
  /\ pc[p] = "idle"
  /\ lockOwnerToken(k)
  /\ pc' = [pc EXCEPT ![p] = "trying"]
  /\ token' = [token EXCEPT ![p] = k]
  /\ waited' = [waited EXCEPT ![p] = 0]
  /\ UNCHANGED <<owner, ttl, renewer, since>>

\* Mutant: Set in place of SetNX.
MutSetNX(p) == owner' = token[p] /\ ttl' = LockTTL

\* SetNX: the key is set only where there is none.
SetNX(p) == owner = NoToken /\ owner' = token[p] /\ ttl' = LockTTL

acquireLock(p) ==
  /\ pc[p] = "trying"
  /\ waited[p] < Patience
  /\ SetNX(p)
  /\ pc' = [pc EXCEPT ![p] = "critical"]
  /\ renewer' = [renewer EXCEPT ![p] = "sleep"]
  /\ since' = [since EXCEPT ![p] = 0]
  /\ UNCHANGED <<token, waited>>

\* The call returns and forgets its token.
Return(p) ==
  /\ pc' = [pc EXCEPT ![p] = "idle"]
  /\ token' = [token EXCEPT ![p] = NoToken]
  /\ renewer' = [renewer EXCEPT ![p] = "off"]
  /\ since' = [since EXCEPT ![p] = 0]
  /\ waited' = [waited EXCEPT ![p] = 0]

\* Mutant: the deadline of the retry loop is never found to have passed.
MutGiveUp(p) ==
  /\ pc[p] = "trying"
  /\ waited[p] > Patience
  /\ Return(p)
  /\ UNCHANGED <<owner, ttl>>

\* The deadline has passed: ErrLockUnavailable.
GiveUp(p) ==
  /\ pc[p] = "trying"
  /\ waited[p] >= Patience
  /\ Return(p)
  /\ UNCHANGED <<owner, ttl>>

\* SetNX returns an error (or ctx is done); the key may have been set all the same.
AcquireFails(p) ==
  /\ "store" \in Faults
  /\ pc[p] = "trying"
  /\ SetNX(p) \/ UNCHANGED <<owner, ttl>>
  /\ Return(p)

-----------------------------------------------------------------------------

\* The ticker fires.
StartTouch(p) ==
  /\ renewer[p] = "sleep"
  /\ since[p] >= TouchEvery
  /\ renewer' = [renewer EXCEPT ![p] = "touch"]
  /\ UNCHANGED <<owner, ttl, pc, token, since, waited>>

\* Mutant: the TTL is added to what is left of it.
MutCompareAndTouch(p) ==
  /\ renewer[p] = "touch"
  /\ owner = token[p]
  /\ ttl' = ttl + LockTTL
  /\ since' = [since EXCEPT ![p] = 0]
  /\ renewer' = [renewer EXCEPT ![p] = "sleep"]
  /\ UNCHANGED <<owner, pc, token, waited>>

\* Mutant: the key is renewed for the ticker's interval, not for the lock's TTL.
MutRenewShort(p) ==
  /\ renewer[p] = "touch"
  /\ owner = token[p]
  /\ ttl' = TouchEvery
  /\ since' = [since EXCEPT ![p] = 0]
  /\ renewer' = [renewer EXCEPT ![p] = "sleep"]
  /\ UNCHANGED <<owner, pc, token, waited>>

\* CompareAndTouch: renews our token only; otherwise the goroutine stops.
CompareAndTouch(p) ==
  /\ renewer[p] = "touch"
  /\ IF owner = token[p]
       THEN /\ ttl' = LockTTL
            /\ since' = [since EXCEPT ![p] = 0]
            /\ renewer' = [renewer EXCEPT ![p] = "sleep"]
       ELSE /\ renewer' = [renewer EXCEPT ![p] = "off"]
            /\ UNCHANGED <<ttl, since>>
  /\ UNCHANGED <<owner, pc, token, waited>>

\* One failed renewal ends the renewing, and fn is not told.
TouchFails(p) ==
  /\ "touch" \in Faults
  /\ renewer[p] = "touch"
  /\ renewer' = [renewer EXCEPT ![p] = "off"]
  /\ UNCHANGED <<owner, ttl, pc, token, since, waited>>

\* fn has returned; stop is closed.
Leave(p) ==
  /\ pc[p] = "critical"
  /\ pc' = [pc EXCEPT ![p] = "leaving"]
  /\ UNCHANGED <<owner, ttl, token, renewer, since, waited>>

\* The renewal goroutine sees stop, once it is not in a call.
StopRenewer(p) ==
  /\ pc[p] = "leaving"
  /\ renewer[p] = "sleep"
  /\ renewer' = [renewer EXCEPT ![p] = "off"]
  /\ UNCHANGED <<owner, ttl, pc, token, since, waited>>

\* Mutant: the key is deleted without looking at the token.
MutCompareAndDelete(p) == owner' = NoToken /\ ttl' = 0

CompareAndDelete(p) ==
  IF owner = token[p] THEN owner' = NoToken /\ ttl' = 0 ELSE UNCHANGED <<owner, ttl>>

\* <-done
MayRelease(p) == pc[p] = "leaving" /\ renewer[p] = "off"

releaseLock(p) ==
  /\ MayRelease(p)
  /\ CompareAndDelete(p)
  /\ Return(p)

\* The error of a release is dropped; the key is left to its TTL.
ReleaseFails(p) ==
  /\ "store" \in Faults
  /\ MayRelease(p)
  /\ Return(p)
  /\ UNCHANGED <<owner, ttl>>

-----------------------------------------------------------------------------

Crash(p) ==
  /\ "crash" \in Faults
  /\ pc[p] # "idle"
  /\ Return(p)
  /\ UNCHANGED <<owner, ttl>>

\* The memory store is full and evicts the entry nearest its expiry.
Evict ==
  /\ "evict" \in Faults
  /\ owner # NoToken
  /\ owner' = NoToken /\ ttl' = 0
  /\ UNCHANGED <<pc, token, renewer, since, waited>>

\* Renewal goroutines are scheduled, and their calls answered, in time.
Prompt == \A p \in Proc : renewer[p] # "off" => since[p] < Due

Lesser(a, b) == IF a < b THEN a ELSE b

\* Mutant: SetNX takes a key whose TTL has run out for a key that is there.
MutTick ==
  /\ "stall" \in Faults \/ Prompt
  /\ ttl' = IF ttl > 0 THEN ttl - 1 ELSE 0
  /\ waited' = [p \in Proc |-> IF pc[p] = "trying"
                                 THEN Lesser(waited[p] + 1, Patience) ELSE waited[p]]
  /\ UNCHANGED <<owner, pc, token, renewer, since>>

\* A key whose TTL has run out counts as absent for every later call.
Tick ==
  /\ "stall" \in Faults \/ Prompt
  /\ ttl' = IF ttl > 0 THEN ttl - 1 ELSE 0
  /\ owner' = IF ttl > 1 THEN owner ELSE NoToken
  /\ since' = [p \in Proc |-> IF pc[p] \in {"critical", "leaving"}
                                THEN Lesser(since[p] + 1, Due) ELSE since[p]]
  /\ waited' = [p \in Proc |-> IF pc[p] = "trying"
                                 THEN Lesser(waited[p] + 1, Patience) ELSE waited[p]]
  /\ UNCHANGED <<pc, token, renewer>>

Step(p) ==
  \/ acquireLock(p) \/ GiveUp(p)
  \/ StartTouch(p) \/ CompareAndTouch(p)
  \/ Leave(p) \/ StopRenewer(p) \/ releaseLock(p)

Fail(p) == AcquireFails(p) \/ TouchFails(p) \/ ReleaseFails(p) \/ Crash(p)

Next ==
  \/ \E p \in Proc : (\E k \in Token : Begin(p, k)) \/ Step(p) \/ Fail(p)
  \/ Evict
  \/ Tick

Spec == Init /\ [][Next]_vars

\* Goroutines that can run do run, and time passes.  fn returns: every handler
\* makes finitely many store calls.  Strong fairness for StopRenewer: select picks
\* among its ready cases at random, so a closed stop is not passed over for ever.
Fairness ==
  /\ \A p \in Proc : /\ WF_vars(GiveUp(p)) /\ WF_vars(Leave(p)) /\ WF_vars(releaseLock(p))
                     /\ WF_vars(StartTouch(p)) /\ WF_vars(CompareAndTouch(p))
                     /\ SF_vars(StopRenewer(p))
  /\ WF_vars(Tick)

FairSpec == Spec /\ Fairness

-----------------------------------------------------------------------------

\* At most one goroutine runs fn for the session (withSessionLock), whatever the
\* length of fn, as long as renewals are prompt and not refused.
Mutex == \A p, q \in Proc : pc[p] = "critical" /\ pc[q] = "critical" => p = q

\* p has the lock, in the store's eyes too.
Owns(p) == pc[p] \in {"critical", "leaving"} /\ owner = token[p]

Holder == IF owner = NoToken THEN Free
          ELSE IF \E p \in Proc : Owns(p) THEN CHOOSE p \in Proc : Owns(p)
          ELSE Orphan

\* The calls whose fn is running.
Inside == {p \in Proc : pc[p] = "critical"}

\* withSessionLock implements the lock its callers rely on: the key stays its holder's
\* for as long as fn runs, over any number of renewals, and goes by its TTL only when
\* the holder has returned from fn or is gone.
Abstract == INSTANCE LeaseLock WITH lock <- Holder, inside <- Inside
RefinesLeaseLock == Abstract!Spec

\* Even after somebody's lease has lapsed, nobody else takes away a lock that is
\* still held: it goes by its holder's own step, by its TTL or by eviction
\* (releaseLock and the renewal goroutine compare the owner token).  Checked where
\* leases do lapse, see NobodyElsesLapsing in MCSessionLock.
NobodyElses ==
  [][\A p \in Proc : Owns(p) /\ ttl > 1 /\ ~Owns(p)' => pc'[p] # pc[p] \/ Evict]_vars

\* A lock whose holder died becomes free (the TTL of the key, acquireLock).
OrphanFreed == (Holder = Orphan) ~> (Holder # Orphan)

\* withSessionLock returns: neither the retry loop nor the wait for the renewal
\* goroutine lasts for ever.
CallReturns == \A p \in Proc : (pc[p] # "idle") ~> (pc[p] = "idle")
=============================================================================
