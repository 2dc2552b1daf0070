----------------------------- MODULE Admission -----------------------------
(***************************************************************************)
(* Requests acting on the sessions of one store: admission.go, session.go, *)
(* challenge.go.  Each process p is a goroutine serving one call.  A call  *)
(* runs in steps: it takes the per-session lock, reads the record and the  *)
(* clock and decides (one step, "held"), then performs its store writes,   *)
(* one step each, in the order of the code: challenge ("chal"), session    *)
(* ("save"), removal of the old session ("del"), capacity reservation      *)
(* ("resv"), release of the lock ("unlock").  What it decided is carried   *)
(* in task[p], the handler's local variables.  First contact and           *)
(* evaluation ("fresh", "reserved") run without the lock, as in the code.  *)
(***************************************************************************)
EXTENDS Sessions, FiniteSets

CONSTANTS
  Proc,             \* goroutines
  Free, Orphan,     \* lock values: nobody; a holder that will never release
  Ops,              \* the API calls clients and operators make
  Faults,           \* which failures happen: "store", "crash"
  Slow,             \* may time pass while a call is running?
  MaxTime           \* bound of the model clock

ASSUME ProcAssumption == Free \notin Proc /\ Orphan \notin Proc /\ Free # Orphan

ASSUME ScopeAssumption ==
  /\ Ops \subseteq {"issue", "validate", "rotate", "revoke", "transition"}
  /\ Faults \subseteq {"store", "crash"}
  /\ Slow \in BOOLEAN /\ MaxTime \in Nat

VARIABLES
  now,      \* the clock
  sess,     \* sess[s]: the session record stored under s
  chal,     \* chal[c]: the challenge stored under c
  resv,     \* resv[s]: expiry of the capacity reservation of s, 0 when none
  lock,     \* lock[s]: who holds "lock:session:" s
  pc,       \* where each process is
  task,     \* what it is doing: its arguments and locals
  known,    \* session ids that have been handed to a client
  origin,   \* history: when the lineage of s was first admitted, 0 if s is not generated
  heir,     \* history: the session id a rotation of s returned
  judged    \* history: answers to c the server has ruled on

store == <<sess, chal, resv>>
history == <<known, origin, heir, judged>>
vars == <<now, store, lock, pc, task, history>>

Stage == {"idle", "fresh", "reserved", "held", "chal", "save", "del", "resv", "unlock"}
Locked == {"held", "chal", "save", "del", "resv", "unlock"}

Task == [op : {"none", "new", "wait"} \cup Ops,
         sid : SID \cup {NoSID},          \* the session the call is about
         id : SID \cup {NoSID},           \* the session id it writes
         rec : Session, ttl : Int,        \* the record it writes, for how long
         cid : CID \cup {NoCID}, ch : StoredChallenge, chTTL : Int,
         chOp : {"none", "set", "drop", "consume"},
         after : {"none", "renew", "exact", "release", "move"}]

NoTask == [op |-> "none", sid |-> NoSID, id |-> NoSID, rec |-> NoSession, ttl |-> 0,
           cid |-> NoCID, ch |-> NoChallenge, chTTL |-> 0,
           chOp |-> "none", after |-> "none"]

TypeOK ==
  /\ now \in Nat \ {0}
  /\ sess \in [SID -> Session]
  /\ chal \in [CID -> StoredChallenge]
  /\ resv \in [SID -> Nat]
  /\ lock \in [SID -> Proc \cup {Free, Orphan}]
  /\ pc \in [Proc -> Stage]
  /\ task \in [Proc -> Task]
  /\ known \in SUBSET SID
  /\ origin \in [SID -> Nat]
  /\ heir \in [SID -> SID \cup {NoSID}]
  /\ judged \in [CID -> Nat]

Init ==
  /\ now = 1
  /\ sess = [s \in SID |-> NoSession]
  /\ chal = [c \in CID |-> NoChallenge]
  /\ resv = [s \in SID |-> 0]
  /\ lock = [s \in SID |-> Free]
  /\ pc = [p \in Proc |-> "idle"]
  /\ task = [p \in Proc |-> NoTask]
  /\ known = {}
  /\ origin = [s \in SID |-> 0]
  /\ heir = [s \in SID |-> NoSID]
  /\ judged = [c \in CID |-> 0]

-----------------------------------------------------------------------------
(* The store as the handlers see it.                                       *)

HasSession(s) == sess[s].until > now
HasChallenge(c) == c \in CID /\ chal[c].until > now

\* A deleted or lapsed record is unreadable; its last state stays as history.
GoneSession(s) == [NoSession EXCEPT !.state = sess[s].state]
GoneChallenge(c) == [NoChallenge EXCEPT !.sid = chal[c].sid]

Members(r) == {s \in SID : r[s] # 0}

\* The namespace is recounted, and swept, only when it looks full.
Swept == IF Cardinality(Members(resv)) >= MaxSessions
           THEN [s \in SID |-> IF resv[s] > now THEN resv[s] ELSE 0]
           ELSE resv

\* Mutant: one reservation too many.
MutHasRoom(s) == resv[s] # 0 \/ Cardinality(Members(Swept)) <= MaxSessions

HasRoom(s) == resv[s] # 0 \/ Cardinality(Members(Swept)) < MaxSessions

\* ReserveSession: a member is only re-dated, a newcomer needs room.
Reserve(s, e) == IF resv[s] # 0 THEN [resv EXCEPT ![s] = e]
                 ELSE IF HasRoom(s) THEN [Swept EXCEPT ![s] = e]
                 ELSE Swept

Release(s) == [resv EXCEPT ![s] = 0]

MoveReservation(old, new, e) ==
  IF resv[old] # 0 THEN [resv EXCEPT ![old] = 0, ![new] = e] ELSE resv

-----------------------------------------------------------------------------
(* First contact and evaluation: no lock is held.                          *)

Become(p, stage, t) ==
  /\ pc' = [pc EXCEPT ![p] = stage]
  /\ task' = [task EXCEPT ![p] = t]

\* authorizeRequest with a cookie: the stored record, a snapshot from now on.
\* In any other state than WAITING the evaluation that follows writes nothing.
Resolve(p, s) ==
  /\ pc[p] = "idle"
  /\ s \in known
  /\ HasSession(s)
  /\ sess[s].state = "WAITING"
  /\ Become(p, "fresh", [NoTask EXCEPT !.sid = s, !.id = s, !.rec = sess[s]])
  /\ UNCHANGED <<now, store, lock, history>>

\* authorizeRequest without a usable cookie: a candidate session in memory.
ResolveNew(p, s) ==
  /\ pc[p] = "idle"
  /\ origin[s] = 0
  /\ Become(p, "fresh", [NoTask EXCEPT !.op = "new", !.sid = s, !.id = s, !.rec = NewSession(now)])
  /\ origin' = [origin EXCEPT ![s] = now]
  /\ UNCHANGED <<now, store, lock, known, heir, judged>>

\* Evaluate decides on the snapshot alone, or does not get the lock: it is held for
\* too long, or the store fails.
EvaluateOnly(p) ==
  /\ pc[p] = "fresh"
  /\ task[p].op # "new"
  /\ WaitOver(task[p].rec, now) => lock[task[p].sid] # Free \/ "store" \in Faults
  /\ Become(p, "idle", NoTask)
  /\ UNCHANGED <<now, store, lock, history>>

\* Evaluate finds the wait over in its snapshot and asks for the lock.
EvaluateWaiting(p) ==
  /\ pc[p] = "fresh"
  /\ task[p].op # "new"
  /\ WaitOver(task[p].rec, now)
  /\ lock[task[p].sid] = Free
  /\ lock' = [lock EXCEPT ![task[p].sid] = p]
  /\ Become(p, "held", [NoTask EXCEPT !.op = "wait", !.sid = task[p].sid, !.id = task[p].sid])
  /\ UNCHANGED <<now, store, history>>

\* handleNewClient up to the reservation.
HandleNewClient(p) ==
  LET s == task[p].id
      r == Admit(task[p].rec, now)
  IN  /\ pc[p] = "fresh"
      /\ task[p].op = "new"
      /\ HasRoom(s)
      /\ resv' = Reserve(s, r.expiresAt)
      /\ origin' = [origin EXCEPT ![s] = now]
      /\ Become(p, "reserved", [task[p] EXCEPT !.rec = r, !.ttl = r.expiresAt - now])
      /\ UNCHANGED <<now, sess, chal, lock, known, heir, judged>>

\* handleNewClient at capacity: ErrCapacityExceeded.
RefuseNewClient(p) ==
  /\ pc[p] = "fresh"
  /\ task[p].op = "new"
  /\ ~HasRoom(task[p].id)
  /\ resv' = Reserve(task[p].id, now)
  /\ Become(p, "idle", NoTask)
  /\ UNCHANGED <<now, sess, chal, lock, history>>

Stored(r, ttl) == [r EXCEPT !.until = now + ttl]

SaveNewClient(p) ==
  LET t == task[p]
  IN  /\ pc[p] = "reserved"
      /\ sess' = [sess EXCEPT ![t.id] = Stored(t.rec, t.ttl)]
      /\ known' = known \cup {t.id}
      /\ Become(p, "idle", NoTask)
      /\ UNCHANGED <<now, chal, resv, lock, origin, heir, judged>>

-----------------------------------------------------------------------------
(* Calls that hold the session's lock.                                     *)

\* Mutant: the critical section is entered whoever holds the lock.
MutMayEnter(s) == TRUE

\* acquireLock succeeds by SetNX only; a caller it refuses retries or gives up.
MayEnter(s) == lock[s] = Free

Call(p, op, s) ==
  /\ pc[p] = "idle"
  /\ s \in known
  /\ MayEnter(s)
  /\ lock' = [lock EXCEPT ![s] = p]
  /\ Become(p, "held", [NoTask EXCEPT !.op = op, !.sid = s, !.id = s])
  /\ UNCHANGED <<now, store, history>>

\* p is in the critical section of op and has the stored record in hand.
Holding(p, op) == pc[p] = "held" /\ task[p].op = op /\ HasSession(task[p].sid)

handleWaitElapsed(p) ==
  LET t == task[p]
      r == LeaveWaitRoom(sess[t.sid], now)
  IN  /\ Holding(p, "wait")
      /\ StillOver(sess[t.sid], now)
      /\ r.expiresAt > now
      /\ Become(p, "save", [t EXCEPT !.rec = r, !.ttl = r.expiresAt - now, !.after = "renew"])
      /\ UNCHANGED <<now, store, lock, history>>

\* loadPublicChallenge: the challenge the record names can still be answered.
Answerable(r) == HasChallenge(r.challenge) /\ now < chal[r.challenge].expiresAt

\* How long a challenge issued for r is kept.
ChallengeLife(r) == IF r.expiresAt # 0 THEN Lower(CaptchaTTL, r.expiresAt - now) ELSE CaptchaTTL

Issuable(r) == /\ r.state = "CHALLENGE_REQUIRED"
               /\ ~IsExpired(r, now)
               /\ ChallengeLife(r) > 0

FreshCID(c) == chal[c].sid = NoSID /\ \A q \in Proc : task[q].cid # c

\* Issue: a live challenge is handed out again, unless it cannot be read.
Issue(p, c) ==
  LET t   == task[p]
      r   == sess[t.sid]
      ttl == ChallengeLife(r)
  IN  /\ Holding(p, "issue")
      /\ Issuable(r)
      /\ Answerable(r) => "store" \in Faults
      /\ FreshCID(c)
      /\ Become(p, "chal",
           [t EXCEPT !.rec = [r EXCEPT !.challenge = c],
                     !.ttl = Lower(RemainingTTL(r, now, ttl), ttl),
                     !.cid = c, !.chOp = "set", !.chTTL = ttl,
                     !.ch = [sid |-> t.sid, attempts |-> 0,
                             expiresAt |-> now + CaptchaTTL, until |-> 0]])
      /\ UNCHANGED <<now, store, lock, history>>

\* Mutant: any session that names a challenge may answer it.
MutMayAnswer(r) == HasChallenge(r.challenge)

MayAnswer(r) == r.state = "CHALLENGE_REQUIRED" /\ HasChallenge(r.challenge)

\* Validate up to its verdict.  The answer is right or wrong; nobody else knows.
Validating(p) == Holding(p, "validate") /\ MayAnswer(sess[task[p].sid])

ValidateExpired(p) ==
  LET t == task[p]
      c == sess[t.sid].challenge
  IN  /\ Validating(p)
      /\ now >= chal[c].expiresAt
      /\ Become(p, "chal", [t EXCEPT !.cid = c, !.ch = chal[c], !.chOp = "drop"])
      /\ UNCHANGED <<now, store, lock, history>>

\* Mutant: one wrong answer too many.
MutLastAttempt(c) == chal[c].attempts + 1 > MaxAttempts

LastAttempt(c) == chal[c].attempts + 1 >= MaxAttempts

ValidateRetry(p) ==
  LET t == task[p]
      c == sess[t.sid].challenge
  IN  /\ Validating(p)
      /\ now < chal[c].expiresAt
      /\ ~LastAttempt(c)
      /\ Become(p, "chal", [t EXCEPT !.cid = c, !.ch = [chal[c] EXCEPT !.attempts = @ + 1],
                                     !.chOp = "set", !.chTTL = chal[c].expiresAt - now])
      /\ UNCHANGED <<now, store, lock, history>>

ValidateExpel(p) ==
  LET t == task[p]
      c == sess[t.sid].challenge
      r == Expelled(sess[t.sid], now)
  IN  /\ Validating(p)
      /\ now < chal[c].expiresAt
      /\ LastAttempt(c)
      /\ Become(p, "chal", [t EXCEPT !.cid = c, !.ch = chal[c], !.chOp = "drop",
                                     !.rec = r, !.ttl = RemainingTTL(r, now, SessionTTL)])
      /\ UNCHANGED <<now, store, lock, history>>

ValidateSolved(p) ==
  LET t == task[p]
      c == sess[t.sid].challenge
      r == Solved(sess[t.sid], now)
  IN  /\ Validating(p)
      /\ now < chal[c].expiresAt
      /\ Become(p, "chal", [t EXCEPT !.cid = c, !.ch = chal[c], !.chOp = "consume",
                                     !.chTTL = chal[c].expiresAt - now,
                                     !.rec = r, !.ttl = r.expiresAt - now, !.after = "exact"])
      /\ UNCHANGED <<now, store, lock, history>>

RotateSession(p, n) ==
  LET t == task[p]
      r == sess[t.sid]
  IN  /\ Holding(p, "rotate")
      /\ Rotatable(r, now)
      /\ origin[n] = 0
      /\ origin' = [origin EXCEPT ![n] = origin[t.sid]]
      /\ Become(p, "save", [t EXCEPT !.id = n, !.rec = Successor(r, now), !.after = "move",
                                     !.ttl = Ceiling(r, now + SessionTTL) - now])
      /\ UNCHANGED <<now, store, lock, known, heir, judged>>

\* Mutant: the slot of a revoked session is left to expire.
MutRevocation(t, r) == [t EXCEPT !.rec = Revoked(r), !.ttl = RevokeTTL]

\* Mutant: the slot is kept as long as the record, as other saves keep it.
MutRetained(t, r) == [t EXCEPT !.rec = Revoked(r), !.ttl = RevokeTTL, !.after = "renew"]

Revocation(t, r) == [t EXCEPT !.rec = Revoked(r), !.ttl = RevokeTTL, !.after = "release"]

RevokeSession(p) ==
  /\ Holding(p, "revoke")
  /\ ~IsRevoked(sess[task[p].sid])
  /\ Become(p, "save", Revocation(task[p], sess[task[p].sid]))
  /\ UNCHANGED <<now, store, lock, history>>

Transition(p, event, to) ==
  LET t   == task[p]
      r   == sess[t.sid]
      ttl == TransitionTTL(r, to, now)
  IN  /\ Holding(p, "transition")
      /\ r.state # to
      /\ IsLegalTransition(r.state, event, to)
      /\ ttl > 0
      /\ Become(p, "save", [t EXCEPT !.rec = Transitioned(r, to, now), !.ttl = ttl,
                                     !.after = CASE to \in {"REVOKED", "EXPIRED"} -> "release"
                                                 [] to = "ADMITTED" -> "renew"
                                                 [] OTHER -> "none"])
      /\ UNCHANGED <<now, store, lock, history>>

\* The conditions under which a handler goes on to write.
Proceeds(p) ==
  LET r == sess[task[p].sid]
  IN  \/ Holding(p, "wait") /\ StillOver(r, now) /\ LeaveWaitRoom(r, now).expiresAt > now
      \/ Holding(p, "issue") /\ Issuable(r) /\ ~Answerable(r)
      \/ Validating(p)
      \/ Holding(p, "rotate") /\ Rotatable(r, now)
      \/ Holding(p, "revoke") /\ ~IsRevoked(r)

\* A bound of the model: an exhausted id set stands for the entropy error
\* that GenerateSessionID may return.
OutOfIds(op) == \/ op = "issue" /\ \A c \in CID : ~FreshCID(c)
                \/ op = "rotate" /\ \A n \in SID : origin[n] # 0

\* The early returns: the record is missing, in the wrong state, past its time;
\* the requested move is illegal; a read of the store, or the entropy source, fails.
ReturnEarly(p) ==
  /\ pc[p] = "held"
  /\ Proceeds(p) => "store" \in Faults \/ OutOfIds(task[p].op)
  /\ Become(p, "unlock", task[p])
  /\ UNCHANGED <<now, store, lock, history>>

-----------------------------------------------------------------------------
(* The writes of a call, in the order the handler makes them.              *)

\* fn has returned; its locals are gone, but for what a rotation hands out.
Done(t) == [NoTask EXCEPT !.op = t.op, !.sid = t.sid, !.id = t.id, !.after = t.after]

Goto(p, stage) == Become(p, stage, IF stage = "unlock" THEN Done(task[p]) ELSE task[p])

\* fn has returned an error: only the release of the lock is left.
Abandon(p) == Become(p, "unlock", [Done(task[p]) EXCEPT !.after = "none"])

ChallengeWritten(t) ==
  [chal EXCEPT ![t.cid] = IF t.chOp = "set" THEN [t.ch EXCEPT !.until = now + t.chTTL]
                                            ELSE GoneChallenge(t.cid)]

AfterChallenge(t) == IF t.ttl > 0 THEN "save" ELSE "unlock"

\* The verdict on an answer is returned once the write that records it is done.
Ruled(t) == IF t.op = "validate" THEN [judged EXCEPT ![t.cid] = @ + 1] ELSE judged

WriteChallenge(p) ==
  LET t == task[p]
  IN  /\ pc[p] = "chal"
      /\ chal' = ChallengeWritten(t)
      /\ judged' = IF t.chOp = "set" THEN Ruled(t) ELSE judged
      /\ Goto(p, AfterChallenge(t))
      /\ UNCHANGED <<now, sess, resv, lock, known, origin, heir>>

SaveSession(p) ==
  LET t == task[p]
  IN  /\ pc[p] = "save"
      /\ sess' = [sess EXCEPT ![t.id] = Stored(t.rec, t.ttl)]
      /\ judged' = Ruled(t)
      /\ Goto(p, CASE t.after = "none" -> "unlock" [] t.after = "move" -> "del" [] OTHER -> "resv")
      /\ UNCHANGED <<now, chal, resv, lock, known, origin, heir>>

\* RotateSession removes the session it replaces.
DeleteOld(p) ==
  /\ pc[p] = "del"
  /\ sess' = [sess EXCEPT ![task[p].sid] = GoneSession(task[p].sid)]
  /\ Goto(p, "resv")
  /\ UNCHANGED <<now, chal, resv, lock, history>>

\* Whether the reservation is granted is not looked at.
SettleReservation(p) ==
  LET t == task[p]
  IN  /\ pc[p] = "resv"
      /\ resv' = CASE t.after = "renew"   -> Reserve(t.id, now + t.ttl)
                   [] t.after = "exact"   -> Reserve(t.id, t.rec.expiresAt)
                   [] t.after = "release" -> Release(t.id)
                   [] t.after = "move"    -> MoveReservation(t.sid, t.id, t.rec.expiresAt)
      /\ Goto(p, "unlock")
      /\ UNCHANGED <<now, sess, chal, lock, history>>

\* The call returns; a completed rotation hands out the new session id.
Return(p) ==
  LET t == task[p]
  IN  /\ pc[p] = "unlock"
      /\ IF t.after = "move"
           THEN known' = known \cup {t.id} /\ heir' = [heir EXCEPT ![t.sid] = t.id]
           ELSE UNCHANGED <<known, heir>>
      /\ Become(p, "idle", NoTask)
      /\ UNCHANGED <<now, store, origin, judged>>

\* releaseLock compares the owner token: only the holder's own lock is removed.
Unlock(p) ==
  /\ Return(p)
  /\ lock' = [lock EXCEPT ![task[p].sid] = IF @ = p THEN Free ELSE @]

-----------------------------------------------------------------------------
(* Failures.  A failed store call may or may not have taken effect.        *)

ChallengeWriteFails(p) ==
  LET t == task[p]
  IN  /\ "store" \in Faults
      /\ pc[p] = "chal"
      /\ \/ chal' = ChallengeWritten(t)
         \/ UNCHANGED chal
      /\ IF t.chOp = "drop" THEN Goto(p, AfterChallenge(t)) ELSE Abandon(p)
      /\ UNCHANGED <<now, sess, resv, lock, history>>

\* Issue takes its challenge back, Validate puts the consumed one back; either may fail too.
SaveFails(p) ==
  LET t == task[p]
  IN  /\ "store" \in Faults
      /\ pc[p] = "save"
      /\ \/ sess' = [sess EXCEPT ![t.id] = Stored(t.rec, t.ttl)]
         \/ UNCHANGED sess
      /\ \/ UNCHANGED chal
         \/ /\ t.op = "issue"
            /\ chal' = [chal EXCEPT ![t.cid] = GoneChallenge(t.cid)]
         \/ /\ t.chOp = "consume"
            /\ chal' = [chal EXCEPT ![t.cid] = [t.ch EXCEPT !.until = now + t.chTTL]]
      /\ Abandon(p)
      /\ UNCHANGED <<now, resv, lock, history>>

\* RotateSession takes the replacement back, best effort.
DeleteFails(p) ==
  LET t    == task[p]
      left == [sess EXCEPT ![t.sid] = GoneSession(t.sid)]
      new  == GoneSession(t.id)
  IN  /\ "store" \in Faults
      /\ pc[p] = "del"
      /\ sess' \in {sess, left, [sess EXCEPT ![t.id] = new], [left EXCEPT ![t.id] = new]}
      /\ Abandon(p)
      /\ UNCHANGED <<now, chal, resv, lock, history>>

ReservationFails(p) ==
  /\ "store" \in Faults
  /\ pc[p] = "resv"
  /\ Goto(p, "unlock")
  /\ UNCHANGED <<now, store, lock, history>>

\* handleNewClient gets an error for an answer to its reservation and returns it.
ReserveFails(p) ==
  LET t == task[p]
  IN  /\ "store" \in Faults
      /\ pc[p] = "fresh"
      /\ t.op = "new"
      /\ resv' \in {resv, Reserve(t.id, Admit(t.rec, now).expiresAt)}
      /\ Become(p, "idle", NoTask)
      /\ UNCHANGED <<now, sess, chal, lock, history>>

\* handleNewClient gives the slot back, best effort.
SaveNewClientFails(p) ==
  LET t == task[p]
  IN  /\ "store" \in Faults
      /\ pc[p] = "reserved"
      /\ \/ sess' = [sess EXCEPT ![t.id] = Stored(t.rec, t.ttl)]
         \/ UNCHANGED sess
      /\ resv' \in {resv, Release(t.id)}
      /\ Become(p, "idle", NoTask)
      /\ UNCHANGED <<now, chal, lock, history>>

\* The lock stays until its TTL runs out; the caller never learns.
UnlockFails(p) ==
  /\ "store" \in Faults
  /\ Return(p)
  /\ lock' = [lock EXCEPT ![task[p].sid] = IF @ = p THEN Orphan ELSE @]

\* The process dies between two store calls.
Crash(p) ==
  /\ "crash" \in Faults
  /\ pc[p] # "idle"
  /\ lock' = [s \in SID |-> IF lock[s] = p THEN Orphan ELSE lock[s]]
  /\ Become(p, "idle", NoTask)
  /\ UNCHANGED <<now, store, history>>

\* SetNX took the lock but its answer was lost; acquireLock returns the error.
AcquireFails(s) ==
  /\ "store" \in Faults
  /\ s \in known
  /\ lock[s] = Free
  /\ lock' = [lock EXCEPT ![s] = Orphan]
  /\ UNCHANGED <<now, store, pc, task, history>>

\* A lock nobody renews lapses after admissionLockTTL.
OrphanExpires(s) ==
  /\ lock[s] = Orphan
  /\ lock' = [lock EXCEPT ![s] = Free]
  /\ UNCHANGED <<now, store, pc, task, history>>

\* A lock lapses, or is evicted, under a holder that is still running.
LeaseLapses(s) ==
  /\ lock[s] \in Proc
  /\ lock' = [lock EXCEPT ![s] = Free]
  /\ UNCHANGED <<now, store, pc, task, history>>

-----------------------------------------------------------------------------

\* The store forgets what has reached its TTL.
Tick ==
  /\ now < MaxTime
  /\ Slow \/ \A p \in Proc : pc[p] = "idle"
  /\ now' = now + 1
  /\ sess' = [s \in SID |-> IF sess[s].until > now' THEN sess[s] ELSE GoneSession(s)]
  /\ chal' = [c \in CID |-> IF chal[c].until > now' THEN chal[c] ELSE GoneChallenge(c)]
  /\ UNCHANGED <<resv, lock, pc, task, history>>

\* The store's janitor drops lapsed reservations.
Janitor ==
  /\ resv' = [s \in SID |-> IF resv[s] > now THEN resv[s] ELSE 0]
  /\ UNCHANGED <<now, sess, chal, lock, pc, task, history>>

Entry(p) ==
  \/ \E s \in SID : Resolve(p, s) \/ ResolveNew(p, s)
  \/ EvaluateOnly(p) \/ EvaluateWaiting(p)
  \/ HandleNewClient(p) \/ RefuseNewClient(p) \/ SaveNewClient(p)
  \/ \E op \in Ops, s \in SID : Call(p, op, s)

Decide(p) ==
  \/ handleWaitElapsed(p)
  \/ \E c \in CID : Issue(p, c)
  \/ ValidateExpired(p) \/ ValidateRetry(p) \/ ValidateExpel(p) \/ ValidateSolved(p)
  \/ \E n \in SID : RotateSession(p, n)
  \/ RevokeSession(p)
  \/ \E event \in Event, to \in State : Transition(p, event, to)
  \/ ReturnEarly(p)

Write(p) ==
  \/ WriteChallenge(p) \/ SaveSession(p) \/ DeleteOld(p)
  \/ SettleReservation(p) \/ Unlock(p)

Fail(p) ==
  \/ ChallengeWriteFails(p) \/ SaveFails(p) \/ DeleteFails(p) \/ ReservationFails(p)
  \/ ReserveFails(p) \/ SaveNewClientFails(p) \/ UnlockFails(p) \/ Crash(p)

Next ==
  \/ \E p \in Proc : Entry(p) \/ Decide(p) \/ Write(p) \/ Fail(p)
  \/ \E s \in SID : AcquireFails(s) \/ OrphanExpires(s)
  \/ Tick
  \/ Janitor

Spec == Init /\ [][Next]_vars

\* Spec takes it that renewals reach the store in time.  In LapsingSpec a running
\* handler may also lose its lock, which no write of the code checks for.
LapsingSpec == Init /\ [][Next \/ \E s \in SID : LeaseLapses(s)]_vars

-----------------------------------------------------------------------------
(* Properties.                                                             *)

\* Implements the table of legal moves: whatever requests interleave, the state
\* recorded under a session id (by SaveSession, admission.go, challenge.go and
\* session.go alike) moves only along IsLegalTransition.
FSM == INSTANCE AdmissionFSM WITH st <- [s \in SID |-> sess[s].state]
RefinesFSM == FSM!Spec

\* A session leaves the waiting room only WaitTime after the moment it (last)
\* entered it, even when the request that moves it decided on an older snapshot
\* (handleWaitElapsed's re-check, Validate's expulsion resetting FirstSeen).
PatienceServed ==
  [][\A s \in SID :
       /\ HasSession(s)
       /\ sess[s].state = "WAITING"
       /\ sess'[s].state \in {"CHALLENGE_REQUIRED", "ADMITTED"}
       => now - sess[s].firstSeen >= WaitTime]_vars

\* However often it is rotated, no live session outlasts AbsLifetime after its
\* lineage was first admitted (handleNewClient, RotateSession, Validate,
\* handleWaitElapsed, Transition).
AbsoluteCeiling ==
  AbsLifetime > 0 =>
    \A s \in SID : HasSession(s) /\ sess[s].state \notin {"REVOKED", "EXPIRED"} =>
      sess[s].expiresAt > 0 /\ sess[s].expiresAt <= origin[s] + AbsLifetime

\* Concurrent rotations of one session return one new session id between them
\* (RotateSession).
OneHeir == [][\A s \in SID : heir[s] # NoSID => heir'[s] = heir[s]]_vars

\* A session that was rotated away never comes back, whatever call was still
\* running on it (the remark on stale request objects in evaluate).
NoResurrection == \A s \in SID : heir[s] # NoSID => ~HasSession(s)

\* No challenge is ruled on more than MaxAttempts times, however many answers
\* race (Validate).
GuessBudget == \A c \in CID : judged[c] <= MaxAttempts

\* A revoked session holds no capacity slot once the revocation has returned
\* (RevokeSession, Transition).
RevokedFreesSlot ==
  \A s \in SID : sess[s].state = "REVOKED" /\ lock[s] = Free => resv[s] = 0

\* Whichever store call fails and wherever the process dies between recording a
\* revocation and releasing its slot, no call extends that slot or takes it again: it
\* is held no longer than it already was (RevokeSession, Transition; the reservations
\* of rotation, Validate and handleWaitElapsed, whose failures nobody looks at).
RevokedSlotRunsOut ==
  [][\A s \in SID : sess[s].state = "REVOKED" => resv'[s] <= resv[s]]_vars

\* A session that was revoked never has another state (README.md:
\* "Expired or revoked sessions can never be reactivated").
RevokedIsFinal ==
  [][\A s \in SID : sess[s].state = "REVOKED" => sess'[s].state = "REVOKED"]_vars

Usable(s, r, t) == s \in known /\ r.until > t /\ ~IsRevoked(r) /\ ~IsExpired(r, t)

\* A session whose expiry has passed is never usable again (same sentence).
ExpiredIsFinal ==
  [][\A s \in SID : HasSession(s) /\ IsExpired(sess[s], now)
                      => ~Usable(s, sess'[s], now')]_vars

\* No more sessions are usable at a time than MaxConcurrentSessions (README.md:
\* "Global concurrent session capacity bound").
CapacityBound == Cardinality({s \in SID : Usable(s, sess[s], now)}) <= MaxSessions
=============================================================================
