-------------------------- MODULE AdmissionProofs --------------------------
(***************************************************************************)
(* Admission is well typed, keeps its critical sections apart and moves    *)
(* every session along the table of legal moves only, for any number of    *)
(* goroutines, sessions and challenges and any configuration that          *)
(* Config.Validate accepts, with store failures and crashes, as long as    *)
(* renewals keep the lease of a running holder alive (Spec, not            *)
(* LapsingSpec).                                                           *)
(***************************************************************************)
EXTENDS Admission, TLAPS

-----------------------------------------------------------------------------
(* The decisions on records return records.                                *)

\* A cut-off expiry is a time, and not beyond the one asked for.
LEMMA CeilingType ==
  ASSUME NEW r \in Session, NEW t \in Nat
  PROVE  Ceiling(r, t) \in Nat /\ Ceiling(r, t) <= t
  BY DEF Ceiling, Session

\* handleNewClient persists a record with a future, in one of the first states.
LEMMA AdmitType ==
  ASSUME NEW r \in Session, NEW t \in Nat
  PROVE  /\ Admit(r, t) \in Session
         /\ Admit(r, t).expiresAt > t
         /\ Admit(r, t).state \in {"WAITING", "CHALLENGE_REQUIRED", "ADMITTED"}
<1> DEFINE abs  == IF AbsLifetime > 0 THEN t + AbsLifetime ELSE 0
           life == IF WaitRoom THEN WaitTime + WaitGrace
                   ELSE IF Captcha THEN CaptchaTTL + CaptchaGrace ELSE SessionTTL
           ra   == [r EXCEPT !.absExpiresAt = abs]
<1>1. abs \in Nat /\ (abs # 0 => abs > t) /\ life \in Nat \ {0}
  BY ConfigAssumption DEF ValidConfig
<1> HIDE DEF abs, life
<1>2. ra \in Session /\ ra.absExpiresAt = abs
  BY <1>1 DEF Session
<1>3. Ceiling(ra, t + life) \in Nat /\ Ceiling(ra, t + life) > t
  BY <1>1, <1>2 DEF Ceiling
<1> QED BY <1>1, <1>3, ConfigAssumption DEF ValidConfig, Admit, Session, State, abs, life, ra

\* Leaving the waiting room yields a record.
LEMMA LeaveType ==
  ASSUME NEW r \in Session, NEW t \in Nat
  PROVE  LeaveWaitRoom(r, t) \in Session
<1>1. Ceiling(r, t + (IF Captcha THEN CaptchaTTL + CaptchaGrace ELSE SessionTTL)) \in Nat
  BY CeilingType, ConfigAssumption DEF ValidConfig
<1> QED BY <1>1, ConfigAssumption DEF ValidConfig, LeaveWaitRoom, Session, State

\* So does the expulsion of a client that has used up its attempts.
LEMMA ExpelledType ==
  ASSUME NEW r \in Session, NEW t \in Nat
  PROVE  Expelled(r, t) \in Session
<1>1. Ceiling(r, t + WaitTime + WaitGrace) \in Nat
  BY CeilingType, ConfigAssumption DEF ValidConfig
<1> QED BY <1>1, ConfigAssumption DEF ValidConfig, Expelled, Session, State

\* And its admission, its rotation and its revocation.
LEMMA OutcomeType ==
  ASSUME NEW r \in Session, NEW t \in Nat
  PROVE  Solved(r, t) \in Session /\ Successor(r, t) \in Session /\ Revoked(r) \in Session
<1>1. Ceiling(r, t + SessionTTL) \in Nat
  BY CeilingType, ConfigAssumption DEF ValidConfig
<1>2. Solved(r, t) \in Session
  BY <1>1 DEF Solved, Session, State
<1>3. Successor(r, t) \in Session
  <2> DEFINE e == Ceiling(r, t + SessionTTL)
             n == r.renewals + 1
  <2>1. e \in Nat /\ n \in Nat
    BY <1>1 DEF Session
  <2>2. Successor(r, t) = [r EXCEPT !.state = "ADMITTED", !.challenge = NoCID,
                                    !.renewals = n, !.expiresAt = e]
    BY DEF Successor, Session
  <2> HIDE DEF e, n
  <2> QED BY <2>1, <2>2 DEF Session, State
<1>4. Revoked(r) \in Session
  BY DEF Revoked, Session, State
<1> QED BY <1>2, <1>3, <1>4

\* And an operator's transition.
LEMMA TransitionedType ==
  ASSUME NEW r \in Session, NEW t \in Nat, NEW to \in State
  PROVE  Transitioned(r, to, t) \in Session /\ TransitionTTL(r, to, t) \in Int
<1>1. Ceiling(r, t + SessionTTL) \in Nat
  BY CeilingType, ConfigAssumption DEF ValidConfig
<1> DEFINE e == CASE to = "ADMITTED" -> Ceiling(r, t + SessionTTL)
                  [] to = "REVOKED"  -> 0
                  [] to = "EXPIRED"  -> t
                  [] OTHER           -> r.expiresAt
<1>2. e \in Nat
  BY <1>1 DEF Session
<1>3. Transitioned(r, to, t) = [r EXCEPT !.state = to, !.expiresAt = e]
  BY DEF Transitioned, Session
<1> HIDE DEF e
<1>4. Transitioned(r, to, t) \in Session
  BY <1>2, <1>3 DEF Session
<1>5. TransitionTTL(r, to, t) \in Int
  BY <1>1, ConfigAssumption DEF ValidConfig, TransitionTTL
<1> QED BY <1>4, <1>5

\* The remaining lifetime of a record is a number.
LEMMA RemainingType ==
  ASSUME NEW r \in Session, NEW t \in Nat, NEW f \in Int
  PROVE  RemainingTTL(r, t, f) \in Int
  BY DEF RemainingTTL, Session

\* What SaveSession stores is a record.
LEMMA StoredType ==
  ASSUME NEW r \in Session, NEW ttl \in Nat, now \in Nat
  PROVE  Stored(r, ttl) \in Session /\ Stored(r, ttl).state = r.state
<1> DEFINE e == now + ttl
<1>1. e \in Nat
  OBVIOUS
<1>2. Stored(r, ttl) = [r EXCEPT !.until = e]
  BY DEF Stored
<1> HIDE DEF e
<1> QED BY <1>1, <1>2 DEF Session

\* A reservation table stays one.
LEMMA ReserveType ==
  ASSUME TypeOK, NEW s \in SID, NEW e \in Nat
  PROVE  /\ Reserve(s, e) \in [SID -> Nat]
         /\ Release(s) \in [SID -> Nat]
         /\ \A old \in SID : MoveReservation(old, s, e) \in [SID -> Nat]
<1>1. Swept \in [SID -> Nat]
  BY DEF Swept, TypeOK
<1>2. Reserve(s, e) \in [SID -> Nat]
  BY <1>1 DEF Reserve, TypeOK
<1>3. Release(s) \in [SID -> Nat]
  BY DEF Release, TypeOK
<1>4. \A old \in SID : MoveReservation(old, s, e) \in [SID -> Nat]
  BY DEF MoveReservation, TypeOK
<1> QED BY <1>2, <1>3, <1>4

-----------------------------------------------------------------------------
(* The locals of a call, by the stage it has reached.                      *)

WellFormed(stage, t) ==
  /\ t \in Task
  /\ stage # "idle" => t.sid \in SID /\ t.id \in SID
  /\ stage \in {"reserved", "save", "del", "resv"} => t.ttl > 0
  /\ stage \in {"fresh", "reserved", "held", "chal"} => t.id = t.sid /\ t.after # "move"
  /\ stage \in {"save", "resv"} /\ t.after # "move" => t.id = t.sid
  /\ stage = "reserved" => t.op = "new"
  /\ stage = "held" => t.ttl = 0 /\ t.after = "none" /\ t.chOp = "none"
  /\ stage = "chal" => t.cid \in CID
  /\ stage = "del" => t.after = "move"
  /\ stage = "resv" => t.after # "none"
  /\ t.chOp \in {"set", "consume"} => t.chTTL > 0

TypeInv == TypeOK /\ \A p \in Proc : WellFormed(pc[p], task[p])

\* A step of p leaves the locals of the others alone.
LEMMA BecomeKeeps ==
  ASSUME TypeInv, NEW p \in Proc, NEW stage \in Stage, NEW t,
         WellFormed(stage, t), Become(p, stage, t)
  PROVE  /\ pc' \in [Proc -> Stage] /\ task' \in [Proc -> Task]
         /\ \A q \in Proc : WellFormed(pc'[q], task'[q])
<1>1. t \in Task
  BY DEF WellFormed
<1> QED BY <1>1 DEF TypeInv, TypeOK, Become

\* The empty task suits an idle process.
LEMMA IdleWellFormed == WellFormed("idle", NoTask)
  BY DEF WellFormed, NoTask, Task, Locked, NoSession, NoChallenge, Session, StoredChallenge, State

\* A finished call keeps only its name and its session ids.
LEMMA DoneWellFormed ==
  ASSUME NEW stage \in Locked, NEW t, WellFormed(stage, t)
  PROVE  WellFormed("unlock", Done(t)) /\ WellFormed("unlock", [Done(t) EXCEPT !.after = "none"])
<1>1. t \in Task /\ t.sid \in SID /\ t.id \in SID
  BY DEF WellFormed, Locked
<1>2. NoTask \in Task
  BY IdleWellFormed DEF WellFormed
<1>3. Done(t) \in Task /\ Done(t).sid = t.sid /\ Done(t).id = t.id /\ Done(t).chOp = "none"
  BY <1>1, <1>2 DEF Done, Task, NoTask
<1> HIDE DEF Done
<1> QED BY <1>1, <1>3 DEF WellFormed, Task

\* First contact and evaluation keep the types.
LEMMA EntryTypes ==
  ASSUME TypeInv, NEW p \in Proc, Entry(p) PROVE TypeInv'
<1> USE DEF TypeInv
<1>0. NoTask \in Task
  BY IdleWellFormed DEF WellFormed
<1>1. ASSUME NEW s \in SID, Resolve(p, s) PROVE TypeInv'
  <2> DEFINE t == [NoTask EXCEPT !.sid = s, !.id = s, !.rec = sess[s]]
  <2>1. WellFormed("fresh", t)
    BY <1>0 DEF WellFormed, NoTask, Task, TypeOK, Locked
  <2> HIDE DEF t
  <2>2. Become(p, "fresh", t)
    BY <1>1 DEF Resolve, t
  <2> QED BY <1>1, <2>1, <2>2, BecomeKeeps DEF Resolve, TypeOK, store, history, Stage
<1>2. ASSUME NEW s \in SID, ResolveNew(p, s) PROVE TypeInv'
  <2> DEFINE t == [NoTask EXCEPT !.op = "new", !.sid = s, !.id = s, !.rec = NewSession(now)]
  <2>1. NewSession(now) \in Session
    BY DEF NewSession, NoSession, Session, State, TypeOK
  <2>2. WellFormed("fresh", t)
    BY <1>0, <2>1 DEF WellFormed, NoTask, Task, Locked
  <2> HIDE DEF t
  <2>3. Become(p, "fresh", t)
    BY <1>2 DEF ResolveNew, t
  <2> QED BY <1>2, <2>2, <2>3, BecomeKeeps DEF ResolveNew, TypeOK, store, history, Stage
<1>3. ASSUME EvaluateOnly(p) PROVE TypeInv'
  BY <1>3, IdleWellFormed, BecomeKeeps DEF EvaluateOnly, TypeOK, store, history, Stage
<1>4. ASSUME NEW s \in SID, NEW op \in {"wait"} \cup Ops,
             Become(p, "held", [NoTask EXCEPT !.op = op, !.sid = s, !.id = s]),
             lock' = [lock EXCEPT ![s] = p], UNCHANGED <<now, store, history>>
      PROVE  TypeInv'
  <2> DEFINE t == [NoTask EXCEPT !.op = op, !.sid = s, !.id = s]
  <2>1. WellFormed("held", t)
    BY <1>0 DEF WellFormed, NoTask, Task, Locked
  <2> HIDE DEF t
  <2>2. Become(p, "held", t)
    BY <1>4 DEF t
  <2> QED BY <1>4, <2>1, <2>2, BecomeKeeps DEF TypeOK, store, history, Stage
<1>5. ASSUME EvaluateWaiting(p) PROVE TypeInv'
  <2>1. task[p].sid \in SID
    BY <1>5 DEF EvaluateWaiting, WellFormed
  <2> QED BY <1>5, <2>1, <1>4 DEF EvaluateWaiting
<1>6. ASSUME NEW op \in Ops, NEW s \in SID, Call(p, op, s) PROVE TypeInv'
  BY <1>6, <1>4 DEF Call
<1>7. ASSUME HandleNewClient(p) PROVE TypeInv'
  <2> DEFINE s == task[p].id
             r == Admit(task[p].rec, now)
             ttl == r.expiresAt - now
             t == [task[p] EXCEPT !.rec = r, !.ttl = ttl]
  <2>1. task[p] \in Task /\ task[p].rec \in Session /\ s \in SID
    BY <1>7 DEF HandleNewClient, WellFormed, Task
  <2>2. r \in Session /\ r.expiresAt > now /\ r.expiresAt \in Nat
    BY <2>1, AdmitType DEF TypeOK, Session
  <2>3. resv' \in [SID -> Nat]
    BY <1>7, <2>1, <2>2, ReserveType DEF HandleNewClient
  <2>4. Become(p, "reserved", t)
    BY <1>7 DEF HandleNewClient
  <2>a. ttl \in Int /\ ttl > 0
    BY <2>2 DEF TypeOK
  <2> HIDE DEF r, ttl
  <2>5. t \in Task /\ t.ttl > 0
    BY <2>1, <2>2, <2>a DEF Task
  <2>6. WellFormed("reserved", t)
    BY <1>7, <2>1, <2>5 DEF HandleNewClient, WellFormed, Locked, Task
  <2> HIDE DEF t
  <2> QED BY <1>7, <2>3, <2>4, <2>6, BecomeKeeps DEF HandleNewClient, TypeOK, Stage
<1>8. ASSUME RefuseNewClient(p) PROVE TypeInv'
  <2>1. task[p].id \in SID
    BY <1>8 DEF RefuseNewClient, WellFormed
  <2>2. resv' \in [SID -> Nat]
    BY <1>8, <2>1, ReserveType DEF RefuseNewClient, TypeOK
  <2> QED
    BY <1>8, <2>2, IdleWellFormed, BecomeKeeps DEF RefuseNewClient, TypeOK, history, Stage
<1>9. ASSUME SaveNewClient(p) PROVE TypeInv'
  <2>1. task[p].id \in SID /\ task[p].rec \in Session /\ task[p].ttl \in Int /\ task[p].ttl > 0
    BY <1>9 DEF SaveNewClient, WellFormed, Task
  <2>2. Stored(task[p].rec, task[p].ttl) \in Session
    BY <2>1, StoredType DEF TypeOK
  <2> QED
    BY <1>9, <2>1, <2>2, IdleWellFormed, BecomeKeeps DEF SaveNewClient, TypeOK, Stage
<1> QED
  BY <1>1, <1>2, <1>3, <1>5, <1>6, <1>7, <1>8, <1>9 DEF Entry

\* A call in its critical section, before it has decided.
LEMMA HeldTask ==
  ASSUME TypeInv, NEW p \in Proc, pc[p] = "held"
  PROVE  /\ task[p] \in Task /\ task[p].sid \in SID /\ task[p].id = task[p].sid
         /\ task[p].ttl = 0 /\ task[p].after = "none" /\ task[p].chOp = "none"
         /\ sess[task[p].sid] \in Session /\ now \in Nat /\ now > 0
  BY DEF TypeInv, TypeOK, WellFormed

\* A decision to save record r for ttl.
LEMMA SaveDecided ==
  ASSUME TypeInv, NEW p \in Proc, pc[p] = "held", NEW n \in SID, NEW r \in Session,
         NEW ttl \in Int, ttl > 0, NEW after \in {"none", "renew", "exact", "release", "move"},
         after # "move" => n = task[p].sid,
         UNCHANGED <<now, store, lock, known, heir, judged>>,
         origin' \in [SID -> Nat],
         NEW t, t = [task[p] EXCEPT !.id = n, !.rec = r, !.ttl = ttl, !.after = after],
         Become(p, "save", t)
  PROVE  TypeInv'
<1>1. t \in Task /\ t.sid = task[p].sid /\ t.id = n /\ t.ttl = ttl /\ t.after = after
      /\ t.chOp = "none"
  BY HeldTask DEF Task
<1>2. WellFormed("save", t)
  BY <1>1, HeldTask DEF WellFormed, Locked
<1> QED BY <1>2, BecomeKeeps DEF TypeInv, TypeOK, store, Stage

\* A decision that starts with a write to a challenge.
LEMMA ChallengeDecided ==
  ASSUME TypeInv, NEW p \in Proc, pc[p] = "held", UNCHANGED <<now, store, lock, history>>,
         NEW u \in Task, u.sid = task[p].sid, u.id = task[p].id, u.cid \in CID,
         u.chOp \in {"set", "consume"} => u.chTTL > 0, u.after # "move",
         Become(p, "chal", u)
  PROVE  TypeInv'
<1>1. WellFormed("chal", u)
  BY HeldTask DEF WellFormed, Locked
<1> QED BY <1>1, BecomeKeeps DEF TypeInv, TypeOK, store, history, Stage

\* The decisions under the lock keep the types.
LEMMA DecideTypes ==
  ASSUME TypeInv, NEW p \in Proc, Decide(p) PROVE TypeInv'
<1> DEFINE t == task[p]
           r == sess[t.sid]
           c == r.challenge
<1>0. pc[p] = "held"
  BY DEF Decide, Holding, handleWaitElapsed, Issue, Validating, ValidateExpired, ValidateRetry,
         ValidateExpel, ValidateSolved, RotateSession, RevokeSession, Transition, ReturnEarly
<1>a. /\ t \in Task /\ t.sid \in SID /\ t.id = t.sid /\ t.ttl = 0 /\ t.after = "none"
      /\ t.chOp = "none" /\ r \in Session /\ now \in Nat /\ now > 0 /\ origin \in [SID -> Nat]
  BY <1>0, HeldTask DEF TypeInv, TypeOK
<1>1. ASSUME handleWaitElapsed(p) PROVE TypeInv'
  <2> DEFINE x == LeaveWaitRoom(r, now)
             ttl == x.expiresAt - now
  <2>1. x \in Session /\ ttl \in Int /\ ttl > 0
    BY <1>1, <1>a, LeaveType DEF handleWaitElapsed, Session
  <2>2. Become(p, "save", [t EXCEPT !.rec = x, !.ttl = ttl, !.after = "renew"])
    BY <1>1 DEF handleWaitElapsed
  <2>3. [t EXCEPT !.rec = x, !.ttl = ttl, !.after = "renew"]
          = [t EXCEPT !.id = t.sid, !.rec = x, !.ttl = ttl, !.after = "renew"]
    BY <1>a DEF Task
  <2> HIDE DEF x, ttl
  <2> QED
    BY <1>0, <1>1, <1>a, <2>1, <2>2, <2>3, SaveDecided DEF handleWaitElapsed, history
<1>2. ASSUME NEW d \in CID, Issue(p, d) PROVE TypeInv'
  <2> DEFINE life == ChallengeLife(r)
             x    == [r EXCEPT !.challenge = d]
             ttl  == Lower(RemainingTTL(r, now, life), life)
             e    == now + CaptchaTTL
             ch   == [sid |-> t.sid, attempts |-> 0, expiresAt |-> e, until |-> 0]
  <2>1. life \in Int /\ life > 0
    BY <1>2, <1>a, ConfigAssumption DEF ValidConfig, Issue, Issuable, ChallengeLife, Lower, Session
  <2>2. ttl \in Int
    BY <1>a, <2>1, RemainingType DEF Lower
  <2>3. x \in Session
    BY <1>a DEF Session
  <2>4. e \in Nat
    BY <1>a, ConfigAssumption DEF ValidConfig
  <2> HIDE DEF life, x, ttl, e
  <2>5. ch \in StoredChallenge
    BY <1>a, <2>4 DEF StoredChallenge
  <2> HIDE DEF ch
  <2> DEFINE u == [t EXCEPT !.rec = x, !.ttl = ttl, !.cid = d, !.chOp = "set",
                            !.chTTL = life, !.ch = ch]
  <2>6. Become(p, "chal", u)
    BY <1>2 DEF Issue, life, x, ttl, e, ch
  <2>7. /\ u \in Task /\ u.sid = t.sid /\ u.id = t.id /\ u.cid = d
        /\ u.chTTL = life /\ u.after = "none"
    BY <1>a, <2>1, <2>2, <2>3, <2>5 DEF Task
  <2> HIDE DEF u
  <2> QED
    BY <1>0, <1>2, <2>1, <2>6, <2>7, ChallengeDecided DEF Issue
<1>b. ASSUME Validating(p)
      PROVE  /\ c \in CID /\ chal[c] \in StoredChallenge
             /\ chal[c].expiresAt \in Nat /\ chal[c].attempts \in Nat
  BY <1>b DEF Validating, MayAnswer, HasChallenge, TypeInv, TypeOK, StoredChallenge
<1>3. ASSUME ValidateExpired(p) PROVE TypeInv'
  <2> DEFINE u == [t EXCEPT !.cid = c, !.ch = chal[c], !.chOp = "drop"]
  <2>1. Become(p, "chal", u)
    BY <1>3 DEF ValidateExpired
  <2>2. c \in CID /\ chal[c] \in StoredChallenge
    BY <1>3, <1>b DEF ValidateExpired
  <2>3. /\ u \in Task /\ u.sid = t.sid /\ u.id = t.id /\ u.cid = c
        /\ u.chOp = "drop" /\ u.after = "none"
    BY <1>a, <2>2 DEF Task
  <2> HIDE DEF u
  <2> QED BY <1>0, <1>3, <2>1, <2>2, <2>3, ChallengeDecided DEF ValidateExpired
<1>4. ASSUME ValidateRetry(p) PROVE TypeInv'
  <2> DEFINE n   == chal[c].attempts + 1
             ch  == [chal[c] EXCEPT !.attempts = n]
             ttl == chal[c].expiresAt - now
             u   == [t EXCEPT !.cid = c, !.ch = ch, !.chOp = "set", !.chTTL = ttl]
  <2>1. n \in Nat /\ chal[c] \in StoredChallenge /\ ttl \in Int /\ ttl > 0 /\ c \in CID
    BY <1>4, <1>a, <1>b DEF ValidateRetry
  <2>2. Become(p, "chal", u)
    BY <1>4, <2>1 DEF ValidateRetry, StoredChallenge
  <2> HIDE DEF n, ttl
  <2>3. ch \in StoredChallenge
    BY <2>1 DEF StoredChallenge
  <2> HIDE DEF ch
  <2>4. /\ u \in Task /\ u.sid = t.sid /\ u.id = t.id /\ u.cid = c
        /\ u.chTTL = ttl /\ u.after = "none"
    BY <1>a, <2>1, <2>3 DEF Task
  <2> HIDE DEF u
  <2> QED BY <1>0, <1>4, <2>1, <2>2, <2>4, ChallengeDecided DEF ValidateRetry
<1>5. ASSUME ValidateExpel(p) PROVE TypeInv'
  <2> DEFINE x   == Expelled(r, now)
             ttl == RemainingTTL(x, now, SessionTTL)
             u   == [t EXCEPT !.cid = c, !.ch = chal[c], !.chOp = "drop", !.rec = x, !.ttl = ttl]
  <2>1. x \in Session
    BY <1>a, ExpelledType
  <2>2. ttl \in Int
    BY <1>a, <2>1, RemainingType, ConfigAssumption DEF ValidConfig
  <2>3. Become(p, "chal", u)
    BY <1>5 DEF ValidateExpel
  <2>4. c \in CID /\ chal[c] \in StoredChallenge
    BY <1>5, <1>b DEF ValidateExpel
  <2> HIDE DEF x, ttl
  <2>5. /\ u \in Task /\ u.sid = t.sid /\ u.id = t.id /\ u.cid = c
        /\ u.chOp = "drop" /\ u.after = "none"
    BY <1>a, <2>1, <2>2, <2>4 DEF Task
  <2> HIDE DEF u
  <2> QED BY <1>0, <1>5, <2>3, <2>4, <2>5, ChallengeDecided DEF ValidateExpel
<1>6. ASSUME ValidateSolved(p) PROVE TypeInv'
  <2> DEFINE x     == Solved(r, now)
             ttl   == x.expiresAt - now
             chTTL == chal[c].expiresAt - now
             u     == [t EXCEPT !.cid = c, !.ch = chal[c], !.chOp = "consume", !.chTTL = chTTL,
                                !.rec = x, !.ttl = ttl, !.after = "exact"]
  <2>1. x \in Session
    BY <1>a, OutcomeType
  <2>2. ttl \in Int
    BY <1>a, <2>1 DEF Session
  <2>3. chTTL \in Int /\ chTTL > 0 /\ c \in CID /\ chal[c] \in StoredChallenge
    BY <1>6, <1>a, <1>b DEF ValidateSolved
  <2>4. Become(p, "chal", u)
    BY <1>6 DEF ValidateSolved
  <2> HIDE DEF x, ttl, chTTL
  <2>5. /\ u \in Task /\ u.sid = t.sid /\ u.id = t.id /\ u.cid = c
        /\ u.chTTL = chTTL /\ u.after = "exact"
    BY <1>a, <2>1, <2>2, <2>3 DEF Task
  <2> HIDE DEF u
  <2> QED BY <1>0, <1>6, <2>3, <2>4, <2>5, ChallengeDecided DEF ValidateSolved
<1>7. ASSUME NEW n \in SID, RotateSession(p, n) PROVE TypeInv'
  <2> DEFINE x   == Successor(r, now)
             ttl == Ceiling(r, now + SessionTTL) - now
  <2>1. x \in Session
    BY <1>a, OutcomeType
  <2>2. ttl \in Int /\ ttl > 0
    BY <1>7, <1>a, CeilingType, ConfigAssumption DEF ValidConfig, RotateSession, Rotatable
  <2>3. Become(p, "save", [t EXCEPT !.id = n, !.rec = x, !.after = "move", !.ttl = ttl])
    BY <1>7 DEF RotateSession
  <2> HIDE DEF x, ttl
  <2>4. [t EXCEPT !.id = n, !.rec = x, !.after = "move", !.ttl = ttl]
          = [t EXCEPT !.id = n, !.rec = x, !.ttl = ttl, !.after = "move"]
    BY <1>a DEF Task
  <2>5. origin' \in [SID -> Nat]
    BY <1>7, <1>a DEF RotateSession
  <2> QED
    BY <1>0, <1>7, <2>1, <2>2, <2>3, <2>4, <2>5, SaveDecided DEF RotateSession
<1>8. ASSUME RevokeSession(p) PROVE TypeInv'
  <2> DEFINE x == Revoked(r)
  <2>1. x \in Session /\ RevokeTTL \in Int /\ RevokeTTL > 0
    BY <1>a, OutcomeType, ConfigAssumption DEF ValidConfig
  <2>2. Become(p, "save", [t EXCEPT !.rec = x, !.ttl = RevokeTTL, !.after = "release"])
    BY <1>8 DEF RevokeSession, Revocation
  <2> HIDE DEF x
  <2>3. [t EXCEPT !.rec = x, !.ttl = RevokeTTL, !.after = "release"]
          = [t EXCEPT !.id = t.sid, !.rec = x, !.ttl = RevokeTTL, !.after = "release"]
    BY <1>a DEF Task
  <2> QED
    BY <1>0, <1>8, <1>a, <2>1, <2>2, <2>3, SaveDecided DEF RevokeSession, history
<1>9. ASSUME NEW event \in Event, NEW to \in State, Transition(p, event, to) PROVE TypeInv'
  <2> DEFINE x     == Transitioned(r, to, now)
             ttl   == TransitionTTL(r, to, now)
             after == CASE to \in {"REVOKED", "EXPIRED"} -> "release"
                        [] to = "ADMITTED" -> "renew"
                        [] OTHER -> "none"
  <2>1. x \in Session /\ ttl \in Int /\ ttl > 0
    BY <1>9, <1>a, TransitionedType DEF Transition
  <2>2. after \in {"release", "renew", "none"}
    OBVIOUS
  <2>3. Become(p, "save", [t EXCEPT !.rec = x, !.ttl = ttl, !.after = after])
    BY <1>9 DEF Transition
  <2> HIDE DEF x, ttl, after
  <2>4. [t EXCEPT !.rec = x, !.ttl = ttl, !.after = after]
          = [t EXCEPT !.id = t.sid, !.rec = x, !.ttl = ttl, !.after = after]
    BY <1>a DEF Task
  <2> QED
    BY <1>0, <1>9, <1>a, <2>1, <2>2, <2>3, <2>4, SaveDecided DEF Transition, history
<1>10. ASSUME ReturnEarly(p) PROVE TypeInv'
  <2>1. WellFormed("unlock", t)
    BY <1>0, <1>a DEF WellFormed, Locked, TypeInv
  <2> QED BY <1>10, <2>1, BecomeKeeps DEF ReturnEarly, TypeInv, TypeOK, store, history, Stage
<1> QED
  BY <1>1, <1>2, <1>3, <1>4, <1>5, <1>6, <1>7, <1>8, <1>9, <1>10 DEF Decide

\* Moving on to the next write, or to the release of the lock, keeps the locals in order.
LEMMA GotoKeeps ==
  ASSUME TypeInv, NEW p \in Proc, pc[p] \in Locked, NEW stage \in Locked,
         Goto(p, stage), stage # "unlock" => WellFormed(stage, task[p])
  PROVE  /\ pc' \in [Proc -> Stage] /\ task' \in [Proc -> Task]
         /\ \A q \in Proc : WellFormed(pc'[q], task'[q])
<1>1. WellFormed(pc[p], task[p])
  BY DEF TypeInv
<1>2. stage \in Stage
  BY DEF Locked, Stage
<1>3. CASE stage = "unlock"
  BY <1>1, <1>2, <1>3, DoneWellFormed, BecomeKeeps DEF Goto
<1>4. CASE stage # "unlock"
  BY <1>2, <1>4, BecomeKeeps DEF Goto
<1> QED BY <1>3, <1>4

\* So does giving up.
LEMMA AbandonKeeps ==
  ASSUME TypeInv, NEW p \in Proc, pc[p] \in Locked, Abandon(p)
  PROVE  /\ pc' \in [Proc -> Stage] /\ task' \in [Proc -> Task]
         /\ \A q \in Proc : WellFormed(pc'[q], task'[q])
<1>1. WellFormed("unlock", [Done(task[p]) EXCEPT !.after = "none"])
  BY DoneWellFormed DEF TypeInv
<1> QED BY <1>1, BecomeKeeps DEF Abandon, Stage

\* A deleted record is still a record, and a challenge that is put back a challenge.
LEMMA StoreTypes ==
  ASSUME TypeOK
  PROVE  /\ \A s \in SID : GoneSession(s) \in Session /\ GoneSession(s).state = sess[s].state
         /\ \A c \in CID : GoneChallenge(c) \in StoredChallenge
         /\ \A ch \in StoredChallenge, ttl \in Nat :
              [ch EXCEPT !.until = now + ttl] \in StoredChallenge
<1>1. \A s \in SID : GoneSession(s) \in Session /\ GoneSession(s).state = sess[s].state
  BY DEF GoneSession, NoSession, Session, TypeOK
<1>2. \A c \in CID : GoneChallenge(c) \in StoredChallenge
  BY DEF GoneChallenge, NoChallenge, StoredChallenge, TypeOK
<1>3. ASSUME NEW ch \in StoredChallenge, NEW ttl \in Nat
      PROVE  [ch EXCEPT !.until = now + ttl] \in StoredChallenge
  <2> DEFINE e == now + ttl
  <2>1. e \in Nat
    BY DEF TypeOK
  <2> HIDE DEF e
  <2>2. [ch EXCEPT !.until = e] \in StoredChallenge
    BY <2>1 DEF StoredChallenge
  <2> QED BY <2>2 DEF e
<1> QED BY <1>1, <1>2, <1>3

\* What WriteChallenge and its failure leave behind.
LEMMA ChallengeWrittenType ==
  ASSUME TypeInv, NEW p \in Proc, pc[p] = "chal"
  PROVE  ChallengeWritten(task[p]) \in [CID -> StoredChallenge]
<1> DEFINE t == task[p]
<1>1. /\ t.cid \in CID /\ t.ch \in StoredChallenge
      /\ (t.chOp = "set" => t.chTTL \in Nat)
  BY DEF TypeInv, WellFormed, Task
<1>2. t.chOp = "set" => [t.ch EXCEPT !.until = now + t.chTTL] \in StoredChallenge
  BY <1>1, StoreTypes DEF TypeInv
<1>3. GoneChallenge(t.cid) \in StoredChallenge
  BY <1>1, StoreTypes DEF TypeInv
<1> QED BY <1>1, <1>2, <1>3 DEF ChallengeWritten, TypeInv, TypeOK

\* The step after a challenge write is taken with its locals in order.
LEMMA AfterChallengeKeeps ==
  ASSUME TypeInv, NEW p \in Proc, pc[p] = "chal", Goto(p, AfterChallenge(task[p]))
  PROVE  /\ pc' \in [Proc -> Stage] /\ task' \in [Proc -> Task]
         /\ \A q \in Proc : WellFormed(pc'[q], task'[q])
<1>1. AfterChallenge(task[p]) \in Locked /\ pc[p] \in Locked
  BY DEF AfterChallenge, Locked
<1>2. AfterChallenge(task[p]) # "unlock" => WellFormed(AfterChallenge(task[p]), task[p])
  BY DEF AfterChallenge, WellFormed, TypeInv, Locked
<1> QED BY <1>1, <1>2, GotoKeeps

\* A ruling counts.
LEMMA RuledType ==
  ASSUME TypeOK, NEW t PROVE Ruled(t) \in [CID -> Nat]
<1>1. judged \in [CID -> Nat] /\ \A c \in CID : judged[c] + 1 \in Nat
  BY DEF TypeOK
<1>2. [judged EXCEPT ![t.cid] = judged[t.cid] + 1] \in [CID -> Nat]
  BY <1>1
<1> QED BY <1>1, <1>2 DEF Ruled

\* The return of a call keeps them, whatever becomes of the lock.
LEMMA ReturnTypes ==
  ASSUME TypeInv, NEW p \in Proc, Return(p), NEW v \in {Free, Orphan},
         lock' = [lock EXCEPT ![task[p].sid] = IF @ = p THEN v ELSE @]
  PROVE  TypeInv'
<1> DEFINE t == task[p]
<1>0. TypeOK
  BY DEF TypeInv
<1>1. t.sid \in SID /\ t.id \in SID
  BY DEF Return, TypeInv, WellFormed
<1>2. lock' \in [SID -> Proc \cup {Free, Orphan}]
  BY <1>0, <1>1 DEF TypeOK
<1>3. known' \in SUBSET SID /\ heir' \in [SID -> SID \cup {NoSID}]
  BY <1>0, <1>1 DEF Return, TypeOK
<1> QED
  BY <1>0, <1>2, <1>3, IdleWellFormed, BecomeKeeps DEF Return, TypeInv, TypeOK, store, Stage

\* The writes of a call keep the types.
LEMMA WriteTypes ==
  ASSUME TypeInv, NEW p \in Proc, Write(p) PROVE TypeInv'
<1> DEFINE t == task[p]
<1>0. TypeOK
  BY DEF TypeInv
<1>1. ASSUME WriteChallenge(p) PROVE TypeInv'
  <2>1. chal' \in [CID -> StoredChallenge]
    BY <1>1, ChallengeWrittenType DEF WriteChallenge
  <2>2. judged' \in [CID -> Nat]
    BY <1>0, <1>1, RuledType DEF WriteChallenge, TypeOK
  <2> QED
    BY <1>0, <1>1, <2>1, <2>2, AfterChallengeKeeps DEF WriteChallenge, TypeInv, TypeOK
<1>2. ASSUME SaveSession(p) PROVE TypeInv'
  <2>1. WellFormed("save", t) /\ t \in Task /\ t.rec \in Session /\ t.ttl \in Nat /\ now \in Nat
    BY <1>2 DEF SaveSession, TypeInv, TypeOK, WellFormed, Task
  <2>2. sess' \in [SID -> Session]
    BY <1>0, <1>2, <2>1, StoredType DEF SaveSession, TypeOK
  <2>3. judged' \in [CID -> Nat]
    BY <1>0, <1>2, RuledType DEF SaveSession
  <2> DEFINE next == CASE t.after = "none" -> "unlock" [] t.after = "move" -> "del" [] OTHER -> "resv"
  <2>4. Goto(p, next)
    BY <1>2 DEF SaveSession
  <2>5. next \in Locked /\ (next # "unlock" => WellFormed(next, t))
    BY <2>1 DEF WellFormed, Locked
  <2> HIDE DEF next
  <2>6. pc[p] \in Locked
    BY <1>2 DEF SaveSession, Locked
  <2> QED
    BY <1>0, <1>2, <2>2, <2>3, <2>4, <2>5, <2>6, GotoKeeps DEF SaveSession, TypeInv, TypeOK
<1>3. ASSUME DeleteOld(p) PROVE TypeInv'
  <2>1. WellFormed("del", t)
    BY <1>3 DEF DeleteOld, TypeInv
  <2>2. WellFormed("resv", t) /\ pc[p] \in Locked /\ "resv" \in Locked
    BY <1>3, <2>1 DEF DeleteOld, WellFormed, Locked
  <2>3. sess' \in [SID -> Session]
    BY <1>0, <1>3, StoreTypes DEF DeleteOld, TypeOK
  <2> QED
    BY <1>0, <1>3, <2>2, <2>3, GotoKeeps DEF DeleteOld, TypeInv, TypeOK, history
<1>4. ASSUME SettleReservation(p) PROVE TypeInv'
  <2>1. /\ t.sid \in SID /\ t.id \in SID /\ t.rec.expiresAt \in Nat /\ now + t.ttl \in Nat
        /\ t.after \in {"renew", "exact", "release", "move"}
    BY <1>0, <1>4 DEF SettleReservation, TypeInv, TypeOK, WellFormed, Task, Session
  <2>2. resv' \in [SID -> Nat]
    BY <1>0, <1>4, <2>1, ReserveType DEF SettleReservation
  <2>3. pc[p] \in Locked /\ "unlock" \in Locked
    BY <1>4 DEF SettleReservation, Locked
  <2> QED
    BY <1>0, <1>4, <2>2, <2>3, GotoKeeps DEF SettleReservation, TypeInv, TypeOK, history
<1>5. ASSUME Unlock(p) PROVE TypeInv'
  BY <1>5, ReturnTypes DEF Unlock
<1> QED BY <1>1, <1>2, <1>3, <1>4, <1>5 DEF Write

\* Failures keep the types.
LEMMA FailTypes ==
  ASSUME TypeInv, NEW p \in Proc, Fail(p) PROVE TypeInv'
<1> DEFINE t == task[p]
<1>0. TypeOK
  BY DEF TypeInv
<1>1. ASSUME ChallengeWriteFails(p) PROVE TypeInv'
  <2>1. chal' \in [CID -> StoredChallenge]
    BY <1>0, <1>1, ChallengeWrittenType DEF ChallengeWriteFails, TypeOK
  <2>2. pc[p] \in Locked /\ pc[p] = "chal"
    BY <1>1 DEF ChallengeWriteFails, Locked
  <2> QED
    BY <1>0, <1>1, <2>1, <2>2, AfterChallengeKeeps, AbandonKeeps
    DEF ChallengeWriteFails, TypeInv, TypeOK, history
<1>2. ASSUME SaveFails(p) PROVE TypeInv'
  <2>1. /\ t \in Task /\ t.rec \in Session /\ t.ttl \in Nat /\ now \in Nat
        /\ t.ch \in StoredChallenge /\ (t.chOp = "consume" => t.chTTL \in Nat)
    BY <1>2 DEF SaveFails, TypeInv, TypeOK, WellFormed, Task
  <2>a. Stored(t.rec, t.ttl) \in Session
    BY <2>1, StoredType
  <2>2. sess' \in [SID -> Session]
    BY <1>0, <1>2, <2>a DEF SaveFails, TypeOK
  <2>3. t.chOp = "consume" => [t.ch EXCEPT !.until = now + t.chTTL] \in StoredChallenge
    BY <1>0, <2>1, StoreTypes
  <2>4. chal' \in [CID -> StoredChallenge]
    BY <1>0, <1>2, <2>3, StoreTypes DEF SaveFails, TypeOK
  <2>5. pc[p] \in Locked
    BY <1>2 DEF SaveFails, Locked
  <2> QED
    BY <1>0, <1>2, <2>2, <2>4, <2>5, AbandonKeeps DEF SaveFails, TypeInv, TypeOK, history
<1>3. ASSUME DeleteFails(p) PROVE TypeInv'
  <2>1. pc[p] \in Locked /\ t.sid \in SID /\ t.id \in SID
    BY <1>3 DEF DeleteFails, Locked, TypeInv, WellFormed
  <2>2. sess' \in [SID -> Session]
    BY <1>0, <1>3, <2>1, StoreTypes DEF DeleteFails, TypeOK
  <2> QED
    BY <1>0, <1>3, <2>1, <2>2, AbandonKeeps DEF DeleteFails, TypeInv, TypeOK, history
<1>4. ASSUME ReservationFails(p) PROVE TypeInv'
  <2>1. pc[p] \in Locked /\ "unlock" \in Locked
    BY <1>4 DEF ReservationFails, Locked
  <2> QED
    BY <1>0, <1>4, <2>1, GotoKeeps DEF ReservationFails, TypeInv, TypeOK, store, history
<1>5. ASSUME SaveNewClientFails(p) PROVE TypeInv'
  <2>1. /\ t.id \in SID /\ t.rec \in Session /\ t.ttl \in Nat /\ now \in Nat
    BY <1>5 DEF SaveNewClientFails, TypeInv, TypeOK, WellFormed, Task
  <2>a. Stored(t.rec, t.ttl) \in Session
    BY <2>1, StoredType
  <2>2. sess' \in [SID -> Session]
    BY <1>0, <1>5, <2>a DEF SaveNewClientFails, TypeOK
  <2>3. resv' \in [SID -> Nat]
    BY <1>0, <1>5, <2>1 DEF SaveNewClientFails, Release, TypeOK
  <2> QED
    BY <1>0, <1>5, <2>2, <2>3, IdleWellFormed, BecomeKeeps
    DEF SaveNewClientFails, TypeInv, TypeOK, history, Stage
<1>6. ASSUME UnlockFails(p) PROVE TypeInv'
  BY <1>6, ReturnTypes DEF UnlockFails
<1>7. ASSUME Crash(p) PROVE TypeInv'
  <2>1. lock' \in [SID -> Proc \cup {Free, Orphan}]
    BY <1>0, <1>7 DEF Crash, TypeOK
  <2> QED
    BY <1>0, <1>7, <2>1, IdleWellFormed, BecomeKeeps
    DEF Crash, TypeInv, TypeOK, store, history, Stage
<1>8. ASSUME ReserveFails(p) PROVE TypeInv'
  <2>1. t.id \in SID /\ t.rec \in Session /\ now \in Nat
    BY <1>8 DEF ReserveFails, TypeInv, TypeOK, WellFormed, Task
  <2>2. Admit(t.rec, now).expiresAt \in Nat
    BY <2>1, AdmitType DEF Session
  <2>3. resv' \in [SID -> Nat]
    BY <1>0, <1>8, <2>1, <2>2, ReserveType DEF ReserveFails, TypeOK
  <2> QED
    BY <1>0, <1>8, <2>3, IdleWellFormed, BecomeKeeps
    DEF ReserveFails, TypeInv, TypeOK, history, Stage
<1> QED BY <1>1, <1>2, <1>3, <1>4, <1>5, <1>6, <1>7, <1>8 DEF Fail

\* The store and the clock on their own keep the types.
LEMMA BackgroundTypes ==
  ASSUME TypeInv,
         (\E s \in SID : AcquireFails(s) \/ OrphanExpires(s)) \/ Tick \/ Janitor
  PROVE  TypeInv'
<1>0. TypeOK
  BY DEF TypeInv
<1>1. ASSUME NEW s \in SID, AcquireFails(s) \/ OrphanExpires(s) PROVE TypeInv'
  BY <1>0, <1>1 DEF AcquireFails, OrphanExpires, TypeInv, TypeOK, store, history
<1>2. ASSUME Tick PROVE TypeInv'
  <2>1. sess' \in [SID -> Session] /\ chal' \in [CID -> StoredChallenge]
    BY <1>0, <1>2, StoreTypes DEF Tick, TypeOK
  <2> QED BY <1>0, <1>2, <2>1 DEF Tick, TypeInv, TypeOK, history
<1>3. ASSUME Janitor PROVE TypeInv'
  <2>1. resv' \in [SID -> Nat]
    BY <1>0, <1>3 DEF Janitor, TypeOK
  <2> QED BY <1>0, <1>3, <2>1 DEF Janitor, TypeInv, TypeOK, history
<1> QED BY <1>1, <1>2, <1>3

\* The initial state is well typed.
LEMMA InitTypes == Init => TypeInv
<1> SUFFICES ASSUME Init PROVE TypeInv
  OBVIOUS
<1>1. NoTask \in Task /\ NoSession \in Session /\ NoChallenge \in StoredChallenge
  BY IdleWellFormed DEF WellFormed, NoSession, NoChallenge, Session, StoredChallenge, State
<1>2. TypeOK
  BY <1>1 DEF Init, TypeOK, Stage
<1> QED BY <1>2, IdleWellFormed DEF Init, TypeInv

\* Every step keeps the types.
LEMMA NextTypes == TypeInv /\ [Next]_vars => TypeInv'
<1>1. ASSUME TypeInv, UNCHANGED vars PROVE TypeInv'
  BY <1>1 DEF TypeInv, TypeOK, vars, store, history
<1> QED
  BY <1>1, EntryTypes, DecideTypes, WriteTypes, FailTypes, BackgroundTypes DEF Next

\* The locals of every call are in order at all times.
THEOREM WellTyped == Spec => []TypeInv
  BY InitTypes, NextTypes, PTL DEF Spec

\* Type correctness: no handler stores a negative expiry, an unknown state or a
\* half-built record, whatever calls interleave, fail or die (Admission's TypeOK).
THEOREM TypeCorrect == Spec => []TypeOK
  BY WellTyped, PTL DEF TypeInv

-----------------------------------------------------------------------------
(* What a step of p changes, read off the handlers once.                   *)

Acts(p) == Entry(p) \/ Decide(p) \/ Write(p) \/ Fail(p)

\* p writes its record under s.
Writes(p, s) == /\ pc[p] \in {"reserved", "save"} /\ s = task[p].id
                /\ sess'[s] = Stored(task[p].rec, task[p].ttl)

\* p gives s an heir.
Succeeds(p, s) == /\ pc[p] = "unlock" /\ task[p].after = "move" /\ s = task[p].sid
                  /\ heir'[s] = task[p].id

\* p has a new id for the lineage of its session, or for a new client's.
Begets(p, s) == \/ origin[s] = 0
                \/ /\ pc[p] = "fresh" /\ task[p].op = "new" /\ s = task[p].id
                   /\ origin'[s] = now

\* A deleted or lapsed record keeps its state, a challenge its session.
LEMMA GoneFields ==
  ASSUME TypeOK
  PROVE  /\ \A s \in SID : GoneSession(s).until = 0 /\ GoneSession(s).state = sess[s].state
         /\ \A c \in CID : /\ GoneChallenge(c).until = 0 /\ GoneChallenge(c).attempts = 0
                           /\ GoneChallenge(c).sid = chal[c].sid
  BY DEF GoneSession, NoSession, GoneChallenge, NoChallenge, TypeOK, Session, StoredChallenge

\* A record changes by the planned write of p, or goes.
LEMMA SessionEffect ==
  ASSUME TypeInv, NEW p \in Proc, Acts(p), NEW s \in SID
  PROVE  sess'[s] = sess[s] \/ sess'[s] = GoneSession(s) \/ Writes(p, s)
<1>0. TypeInv /\ sess \in [SID -> Session]
  BY DEF TypeInv, TypeOK
<1>2. ASSUME Entry(p), ~SaveNewClient(p) PROVE UNCHANGED sess
  BY <1>2 DEF Entry, Resolve, ResolveNew, EvaluateOnly, EvaluateWaiting, HandleNewClient,
              RefuseNewClient, Call, store
<1>3. ASSUME Decide(p) PROVE UNCHANGED sess
  BY <1>3 DEF Decide, handleWaitElapsed, Issue, ValidateExpired, ValidateRetry, ValidateExpel,
              ValidateSolved, RotateSession, RevokeSession, Transition, ReturnEarly, store
<1>4. ASSUME DeleteOld(p) \/ DeleteFails(p)
      PROVE  sess'[s] = sess[s] \/ sess'[s] = GoneSession(s)
  <2>1. task[p].sid \in SID /\ task[p].id \in SID
    BY <1>0, <1>4 DEF DeleteOld, DeleteFails, TypeInv, WellFormed
  <2> QED BY <1>0, <1>4, <2>1 DEF DeleteOld, DeleteFails
<1>5. ASSUME WriteChallenge(p) \/ SettleReservation(p) \/ Unlock(p)
                \/ ChallengeWriteFails(p) \/ ReservationFails(p) \/ UnlockFails(p) \/ Crash(p)
                \/ ReserveFails(p)
      PROVE  UNCHANGED sess
  BY <1>5 DEF WriteChallenge, SettleReservation, Unlock, ChallengeWriteFails, ReservationFails,
              UnlockFails, Crash, ReserveFails, Return, store
<1>6. ASSUME SaveNewClient(p) \/ SaveSession(p) \/ SaveFails(p) \/ SaveNewClientFails(p)
      PROVE  sess'[s] = sess[s] \/ Writes(p, s)
  <2>1. \/ UNCHANGED sess
        \/ /\ pc[p] \in {"reserved", "save"}
           /\ sess' = [sess EXCEPT ![task[p].id] = Stored(task[p].rec, task[p].ttl)]
    BY <1>6 DEF SaveNewClient, SaveSession, SaveFails, SaveNewClientFails
  <2> QED BY <1>0, <2>1 DEF Writes
<1> QED BY <1>2, <1>3, <1>4, <1>5, <1>6 DEF Acts, Write, Fail

\* The history of ids: an heir is named by the rotation that returns, a lineage by
\* the call that begins it.
LEMMA HistoryEffect ==
  ASSUME TypeInv, NEW p \in Proc, Acts(p)
  PROVE  /\ now' = now /\ known \subseteq known'
         /\ \A s \in SID : heir'[s] = heir[s] \/ Succeeds(p, s)
         /\ \A s \in SID : origin'[s] = origin[s] \/ Begets(p, s)
<1>0. TypeInv /\ heir \in [SID -> SID \cup {NoSID}] /\ origin \in [SID -> Nat]
  BY DEF TypeInv, TypeOK
<1>1. now' = now
  BY DEF Acts, Entry, Decide, Write, Fail, Resolve, ResolveNew, EvaluateOnly, EvaluateWaiting,
         HandleNewClient, RefuseNewClient, SaveNewClient, Call,
         handleWaitElapsed, Issue, ValidateExpired, ValidateRetry, ValidateExpel,
         ValidateSolved, RotateSession, RevokeSession, Transition, ReturnEarly,
         WriteChallenge, SaveSession, DeleteOld, SettleReservation, Unlock, Return,
         ChallengeWriteFails, SaveFails, DeleteFails, ReservationFails, ReserveFails,
         SaveNewClientFails, UnlockFails, Crash
<1>2. ASSUME ~Return(p), ~SaveNewClient(p) PROVE UNCHANGED known
  BY <1>2
  DEF Acts, Entry, Decide, Write, Fail, Resolve, ResolveNew, EvaluateOnly, EvaluateWaiting,
         HandleNewClient, RefuseNewClient, Call,
         handleWaitElapsed, Issue, ValidateExpired, ValidateRetry, ValidateExpel,
         ValidateSolved, RotateSession, RevokeSession, Transition, ReturnEarly,
         WriteChallenge, SaveSession, DeleteOld, SettleReservation, Unlock,
         ChallengeWriteFails, SaveFails, DeleteFails, ReservationFails, ReserveFails,
         SaveNewClientFails, UnlockFails, Crash, history
<1>3. ASSUME ~Return(p) PROVE UNCHANGED heir
  BY <1>3
  DEF Acts, Entry, Decide, Write, Fail, Resolve, ResolveNew, EvaluateOnly, EvaluateWaiting,
         HandleNewClient, RefuseNewClient, SaveNewClient, Call,
         handleWaitElapsed, Issue, ValidateExpired, ValidateRetry, ValidateExpel,
         ValidateSolved, RotateSession, RevokeSession, Transition, ReturnEarly,
         WriteChallenge, SaveSession, DeleteOld, SettleReservation, Unlock,
         ChallengeWriteFails, SaveFails, DeleteFails, ReservationFails, ReserveFails,
         SaveNewClientFails, UnlockFails, Crash, history
<1>4. ASSUME Return(p)
      PROVE  known \subseteq known' /\ \A s \in SID : heir'[s] = heir[s] \/ Succeeds(p, s)
  <2>1. pc[p] = "unlock" /\ task[p].sid \in SID
    BY <1>0, <1>4 DEF Return, TypeInv, WellFormed
  <2>2. CASE task[p].after = "move"
    <3>1. known' = known \cup {task[p].id} /\ heir' = [heir EXCEPT ![task[p].sid] = task[p].id]
      BY <1>4, <2>2 DEF Return
    <3> QED BY <1>0, <2>1, <2>2, <3>1 DEF Succeeds
  <2>3. CASE task[p].after # "move"
    BY <1>4, <2>3 DEF Return
  <2> QED BY <2>2, <2>3
<1>5. ASSUME HandleNewClient(p) PROVE \A s \in SID : origin'[s] = origin[s] \/ Begets(p, s)
  <2>1. /\ pc[p] = "fresh" /\ task[p].op = "new" /\ task[p].id \in SID
        /\ origin' = [origin EXCEPT ![task[p].id] = now]
    BY <1>0, <1>5 DEF HandleNewClient, TypeInv, WellFormed
  <2> QED BY <1>0, <2>1 DEF Begets
<1>6. ASSUME NEW n \in SID, ResolveNew(p, n) \/ RotateSession(p, n)
      PROVE  \A s \in SID : origin'[s] = origin[s] \/ Begets(p, s)
  <2>1. PICK v : origin[n] = 0 /\ origin' = [origin EXCEPT ![n] = v]
    BY <1>6 DEF ResolveNew, RotateSession
  <2> QED BY <1>0, <2>1 DEF Begets
<1>7. ASSUME ~HandleNewClient(p), \A n \in SID : ~ResolveNew(p, n) /\ ~RotateSession(p, n)
      PROVE  UNCHANGED origin
  BY <1>7
  DEF Acts, Entry, Decide, Write, Fail, Resolve, EvaluateOnly, EvaluateWaiting,
         RefuseNewClient, SaveNewClient, Call,
         handleWaitElapsed, Issue, ValidateExpired, ValidateRetry, ValidateExpel,
         ValidateSolved, RevokeSession, Transition, ReturnEarly,
         WriteChallenge, SaveSession, DeleteOld, SettleReservation, Unlock, Return,
         ChallengeWriteFails, SaveFails, DeleteFails, ReservationFails, ReserveFails,
         SaveNewClientFails, UnlockFails, Crash, history
<1>8. ASSUME SaveNewClient(p) PROVE known \subseteq known' 
  BY <1>8 DEF SaveNewClient
<1> QED BY <1>1, <1>2, <1>3, <1>4, <1>5, <1>6, <1>7, <1>8

\* The decisions p may take under the lock, field by field.  After every one but a
\* rotation's, what p writes is the record of its own session.
Waited(u) ==
  LET r == sess[u.sid]
  IN  /\ u.op = "wait" /\ u.chOp = "none" /\ u.after = "renew"
      /\ StillOver(r, now) /\ u.rec = LeaveWaitRoom(r, now) /\ u.ttl = u.rec.expiresAt - now

Issued(u) ==
  LET r == sess[u.sid]
  IN  /\ u.op = "issue" /\ u.chOp = "set" /\ u.after = "none"
      /\ Issuable(r) /\ u.cid \in CID /\ FreshCID(u.cid)
      /\ u.rec = [r EXCEPT !.challenge = u.cid]
      /\ u.ch.sid = u.sid /\ u.ch.attempts = 0
      /\ u.ttl <= RemainingTTL(r, now, ChallengeLife(r))

Answered(u) ==
  LET r == sess[u.sid]
  IN  /\ u.op = "validate" /\ MayAnswer(r) /\ u.cid = r.challenge
      /\ \/ u.ch = chal[u.cid] /\ u.chOp = "drop" /\ u.after = "none" /\ u.ttl = 0
         \/ /\ u.ch = chal[u.cid] /\ u.chOp = "drop" /\ u.after = "none"
            /\ u.rec = Expelled(r, now) /\ u.ttl = RemainingTTL(u.rec, now, SessionTTL)
         \/ /\ u.ch = chal[u.cid] /\ u.chOp = "consume" /\ u.after = "exact"
            /\ u.rec = Solved(r, now) /\ u.ttl = u.rec.expiresAt - now
         \/ /\ u.ch = [chal[u.cid] EXCEPT !.attempts = @ + 1] /\ ~LastAttempt(u.cid)
            /\ u.chOp = "set" /\ u.after = "none" /\ u.ttl = 0

Rotated(u) ==
  LET r == sess[u.sid]
  IN  /\ u.op = "rotate" /\ u.chOp = "none" /\ u.after = "move"
      /\ Rotatable(r, now) /\ u.rec = Successor(r, now) /\ u.ttl = u.rec.expiresAt - now
      /\ u.id \in SID /\ origin[u.id] = 0
      /\ origin' = [origin EXCEPT ![u.id] = origin[u.sid]]

Revoking(u) ==
  LET r == sess[u.sid]
  IN  u.op = "revoke" /\ u.chOp = "none" /\ u.after = "release" /\ u.rec = Revoked(r)

Moved(u) ==
  LET r == sess[u.sid]
  IN  /\ u.op = "transition" /\ u.chOp = "none" /\ u.after # "move"
      /\ \E event \in Event, to \in State :
           /\ IsLegalTransition(r.state, event, to) /\ u.rec = Transitioned(r, to, now)
           /\ to = "REVOKED" => u.after = "release"

Decision(p, stage, u) ==
  /\ pc[p] = "held" /\ u.sid = task[p].sid /\ HasSession(u.sid)
  /\ UNCHANGED <<now, store, lock, known, heir, judged>>
  /\ \/ stage = "save" /\ Rotated(u)
     \/ /\ u.id = u.sid /\ UNCHANGED origin
        /\ \/ stage = "save" /\ (Waited(u) \/ Revoking(u) \/ Moved(u))
           \/ stage = "chal" /\ (Issued(u) \/ Answered(u))

\* A call decides, or returns early.
LEMMA Decisions ==
  ASSUME TypeInv, NEW p \in Proc, Decide(p)
  PROVE  \/ ReturnEarly(p)
         \/ \E stage, u : Become(p, stage, u) /\ Decision(p, stage, u)
<1> DEFINE t == task[p]
           r == sess[t.sid]
           c == r.challenge
<1>0. pc[p] = "held"
  BY DEF Decide, Holding, handleWaitElapsed, Issue, Validating, ValidateExpired, ValidateRetry,
         ValidateExpel, ValidateSolved, RotateSession, RevokeSession, Transition, ReturnEarly
<1>a. /\ t \in Task /\ t.sid \in SID /\ t.id = t.sid /\ t.ttl = 0 /\ t.after = "none"
      /\ t.chOp = "none" /\ r \in Session
  BY <1>0, HeldTask
<1> USE DEF history
<1>1. ASSUME handleWaitElapsed(p) PROVE \E stage, u : Become(p, stage, u) /\ Decision(p, stage, u)
  <2> DEFINE x == LeaveWaitRoom(r, now)
             u == [t EXCEPT !.rec = x, !.ttl = x.expiresAt - now, !.after = "renew"]
  <2>1. /\ Become(p, "save", u) /\ Holding(p, "wait") /\ StillOver(r, now)
        /\ UNCHANGED <<now, store, lock, history>>
    BY <1>1 DEF handleWaitElapsed
  <2>2. /\ u.sid = t.sid /\ u.id = t.id /\ u.op = t.op /\ u.rec = LeaveWaitRoom(r, now)
        /\ u.after = "renew" /\ u.chOp = "none" /\ u.ttl = u.rec.expiresAt - now
    BY <1>a DEF Task
  <2> HIDE DEF u, x
  <2> QED BY <1>0, <1>a, <2>1, <2>2 DEF Decision, Waited, Holding
<1>2. ASSUME NEW d \in CID, Issue(p, d)
      PROVE  \E stage, u : Become(p, stage, u) /\ Decision(p, stage, u)
  <2> DEFINE life == ChallengeLife(r)
             x    == [r EXCEPT !.challenge = d]
             ttl  == Lower(RemainingTTL(r, now, life), life)
             ch   == [sid |-> t.sid, attempts |-> 0, expiresAt |-> now + CaptchaTTL, until |-> 0]
             u    == [t EXCEPT !.rec = x, !.ttl = ttl, !.cid = d, !.chOp = "set",
                               !.chTTL = life, !.ch = ch]
  <2>1. /\ Become(p, "chal", u) /\ Holding(p, "issue") /\ Issuable(r) /\ FreshCID(d)
        /\ UNCHANGED <<now, store, lock, history>>
    BY <1>2 DEF Issue
  <2>a. ch.sid = t.sid /\ ch.attempts = 0
    OBVIOUS
  <2> HIDE DEF ch
  <2>b. now \in Nat /\ life \in Int
    BY <1>a, ConfigAssumption DEF ChallengeLife, Lower, Session, ValidConfig, TypeInv, TypeOK
  <2>c. RemainingTTL(r, now, life) \in Int
    BY <1>a, <2>b, RemainingType
  <2>d. ttl <= RemainingTTL(r, now, ChallengeLife(r))
    BY <2>b, <2>c DEF Lower
  <2> HIDE DEF life, ttl
  <2>2. /\ u.sid = t.sid /\ u.id = t.id /\ u.op = t.op /\ u.rec = [r EXCEPT !.challenge = d]
        /\ u.after = "none" /\ u.chOp = "set" /\ u.cid = d /\ u.ch = ch /\ u.ttl = ttl
    BY <1>a DEF Task
  <2> HIDE DEF u, x
  <2> QED BY <1>0, <1>a, <2>1, <2>a, <2>d, <2>2 DEF Decision, Issued, Holding
<1>3. ASSUME ValidateExpired(p) PROVE \E stage, u : Become(p, stage, u) /\ Decision(p, stage, u)
  <2> DEFINE u == [t EXCEPT !.cid = c, !.ch = chal[c], !.chOp = "drop"]
  <2>1. Become(p, "chal", u) /\ Validating(p) /\ UNCHANGED <<now, store, lock, history>>
    BY <1>3 DEF ValidateExpired
  <2>2. /\ u.sid = t.sid /\ u.id = t.id /\ u.op = t.op /\ u.ttl = 0
        /\ u.after = "none" /\ u.chOp = "drop" /\ u.cid = c /\ u.ch = chal[c]
    BY <1>a DEF Task
  <2> HIDE DEF u
  <2> QED BY <1>0, <1>a, <2>1, <2>2 DEF Decision, Answered, Validating, Holding
<1>4. ASSUME ValidateRetry(p) PROVE \E stage, u : Become(p, stage, u) /\ Decision(p, stage, u)
  <2> DEFINE ch == [chal[c] EXCEPT !.attempts = @ + 1]
             u  == [t EXCEPT !.cid = c, !.ch = ch, !.chOp = "set",
                             !.chTTL = chal[c].expiresAt - now]
  <2>1. /\ Become(p, "chal", u) /\ Validating(p) /\ ~LastAttempt(c)
        /\ UNCHANGED <<now, store, lock, history>>
    BY <1>4 DEF ValidateRetry
  <2>2. /\ u.sid = t.sid /\ u.id = t.id /\ u.op = t.op /\ u.ttl = 0
        /\ u.after = "none" /\ u.chOp = "set" /\ u.cid = c /\ u.ch = ch
    BY <1>a DEF Task
  <2> HIDE DEF u
  <2> QED BY <1>0, <1>a, <2>1, <2>2 DEF Decision, Answered, Validating, Holding
<1>5. ASSUME ValidateExpel(p) PROVE \E stage, u : Become(p, stage, u) /\ Decision(p, stage, u)
  <2> DEFINE x == Expelled(r, now)
             u == [t EXCEPT !.cid = c, !.ch = chal[c], !.chOp = "drop",
                            !.rec = x, !.ttl = RemainingTTL(x, now, SessionTTL)]
  <2>1. Become(p, "chal", u) /\ Validating(p) /\ UNCHANGED <<now, store, lock, history>>
    BY <1>5 DEF ValidateExpel
  <2> HIDE DEF x
  <2>2. /\ u.sid = t.sid /\ u.id = t.id /\ u.op = t.op /\ u.rec = x
        /\ u.after = "none" /\ u.chOp = "drop" /\ u.cid = c /\ u.ch = chal[c]
        /\ u.ttl = RemainingTTL(x, now, SessionTTL)
    BY <1>a DEF Task
  <2> HIDE DEF u
  <2> QED BY <1>0, <1>a, <2>1, <2>2 DEF Decision, Answered, Validating, Holding, x
<1>6. ASSUME ValidateSolved(p) PROVE \E stage, u : Become(p, stage, u) /\ Decision(p, stage, u)
  <2> DEFINE x == Solved(r, now)
             u == [t EXCEPT !.cid = c, !.ch = chal[c], !.chOp = "consume",
                            !.chTTL = chal[c].expiresAt - now,
                            !.rec = x, !.ttl = x.expiresAt - now, !.after = "exact"]
  <2>1. Become(p, "chal", u) /\ Validating(p) /\ UNCHANGED <<now, store, lock, history>>
    BY <1>6 DEF ValidateSolved
  <2> HIDE DEF x
  <2>2. /\ u.sid = t.sid /\ u.id = t.id /\ u.op = t.op /\ u.rec = x
        /\ u.after = "exact" /\ u.chOp = "consume" /\ u.cid = c /\ u.ch = chal[c]
        /\ u.ttl = x.expiresAt - now
    BY <1>a DEF Task
  <2> HIDE DEF u
  <2> QED BY <1>0, <1>a, <2>1, <2>2 DEF Decision, Answered, Validating, Holding, x
<1>7. ASSUME NEW n \in SID, RotateSession(p, n)
      PROVE  \E stage, u : Become(p, stage, u) /\ Decision(p, stage, u)
  <2> DEFINE x == Successor(r, now)
             u == [t EXCEPT !.id = n, !.rec = x, !.after = "move",
                            !.ttl = Ceiling(r, now + SessionTTL) - now]
  <2>1. /\ Become(p, "save", u) /\ Holding(p, "rotate") /\ Rotatable(r, now) /\ origin[n] = 0
        /\ origin' = [origin EXCEPT ![n] = origin[t.sid]]
        /\ UNCHANGED <<now, store, lock, known, heir, judged>>
    BY <1>7 DEF RotateSession
  <2>a. x.expiresAt = Ceiling(r, now + SessionTTL)
    BY <1>a DEF Successor, Session
  <2> HIDE DEF x
  <2>2. /\ u.sid = t.sid /\ u.id = n /\ u.op = t.op /\ u.rec = x
        /\ u.after = "move" /\ u.chOp = "none" /\ u.ttl = x.expiresAt - now
    BY <1>a, <2>a DEF Task
  <2> HIDE DEF u
  <2> QED BY <1>0, <1>a, <2>1, <2>2 DEF Decision, Rotated, Holding, x
<1>8. ASSUME RevokeSession(p) PROVE \E stage, u : Become(p, stage, u) /\ Decision(p, stage, u)
  <2> DEFINE x == Revoked(r)
             u == [t EXCEPT !.rec = x, !.ttl = RevokeTTL, !.after = "release"]
  <2>1. Become(p, "save", u) /\ Holding(p, "revoke") /\ UNCHANGED <<now, store, lock, history>>
    BY <1>8 DEF RevokeSession, Revocation
  <2> HIDE DEF x
  <2>2. /\ u.sid = t.sid /\ u.id = t.id /\ u.op = t.op /\ u.rec = x
        /\ u.after = "release" /\ u.chOp = "none"
    BY <1>a DEF Task
  <2> HIDE DEF u
  <2> QED BY <1>0, <1>a, <2>1, <2>2 DEF Decision, Revoking, Holding, x
<1>9. ASSUME NEW event \in Event, NEW to \in State, Transition(p, event, to)
      PROVE  \E stage, u : Become(p, stage, u) /\ Decision(p, stage, u)
  <2> DEFINE x     == Transitioned(r, to, now)
             after == CASE to \in {"REVOKED", "EXPIRED"} -> "release"
                        [] to = "ADMITTED" -> "renew"
                        [] OTHER -> "none"
             u     == [t EXCEPT !.rec = x, !.ttl = TransitionTTL(r, to, now), !.after = after]
  <2>1. /\ Become(p, "save", u) /\ Holding(p, "transition")
        /\ IsLegalTransition(r.state, event, to) /\ UNCHANGED <<now, store, lock, history>>
    BY <1>9 DEF Transition
  <2>a. after # "move" /\ (to = "REVOKED" => after = "release")
    OBVIOUS
  <2> HIDE DEF x, after
  <2>2. /\ u.sid = t.sid /\ u.id = t.id /\ u.op = t.op /\ u.rec = x
        /\ u.after = after /\ u.chOp = "none"
    BY <1>a DEF Task
  <2> HIDE DEF u
  <2> QED BY <1>0, <1>a, <2>1, <2>a, <2>2 DEF Decision, Moved, Holding, x
<1> QED
  BY <1>1, <1>2, <1>3, <1>4, <1>5, <1>6, <1>7, <1>8, <1>9 DEF Decide

\* What a finished or abandoned call keeps.
LEMMA DoneFields ==
  ASSUME NEW t \in Task
  PROVE  /\ Done(t).sid = t.sid /\ Done(t).id = t.id /\ Done(t).after = t.after
         /\ [Done(t) EXCEPT !.after = "none"].sid = t.sid
         /\ [Done(t) EXCEPT !.after = "none"].after = "none"
  BY DEF Done, NoTask, Task

\* How far a step takes p, and with which locals.
Progress(p, stage, u) ==
  \/ stage = "idle" /\ u = NoTask
  \/ /\ stage = "fresh" /\ UNCHANGED <<sess, known>>
     /\ \/ u.op # "new" /\ u.sid \in known
        \/ /\ u.op = "new" /\ u.rec.challenge = NoCID /\ origin[u.id] = 0
           /\ origin' = [origin EXCEPT ![u.id] = now]
  \/ /\ stage = "reserved" /\ pc[p] = "fresh" /\ task[p].op = "new"
     /\ u.op = "new" /\ u.id = task[p].id
     /\ u.rec = Admit(task[p].rec, now) /\ u.ttl = u.rec.expiresAt - now
     /\ resv' = Reserve(u.id, u.rec.expiresAt) /\ HasRoom(u.id)
     /\ origin' = [origin EXCEPT ![u.id] = now]
  \/ /\ stage = "held"
     /\ u.sid \in known \/ (pc[p] = "fresh" /\ task[p].op # "new" /\ u.sid = task[p].sid)
  \/ /\ stage = "unlock" /\ pc[p] \in Locked /\ u.sid = task[p].sid
     /\ u.after = "move" => pc[p] = "resv" /\ task[p].after = "move" /\ u.id = task[p].id
  \/ /\ stage = "save" /\ pc[p] = "chal" /\ u = task[p] /\ u.ttl > 0
     /\ u.chOp = "drop" \/ WriteChallenge(p)
  \/ stage = "del" /\ pc[p] = "save" /\ u = task[p] /\ Writes(p, u.id)
  \/ stage = "resv" /\ pc[p] = "save" /\ u = task[p] /\ u.after # "move" /\ Writes(p, u.id)
  \/ stage = "resv" /\ pc[p] = "del" /\ u = task[p] /\ sess'[u.sid] = GoneSession(u.sid)
  \/ Decision(p, stage, u)

\* Every step of p is progress of this kind.
LEMMA Progresses ==
  ASSUME TypeInv, NEW p \in Proc, Acts(p)
  PROVE  \E stage, u : Become(p, stage, u) /\ Progress(p, stage, u)
<1> DEFINE t == task[p]
<1>0. TypeInv /\ sess \in [SID -> Session] /\ t \in Task
  BY DEF TypeInv, TypeOK
<1>1. ASSUME Become(p, "idle", NoTask)
      PROVE  \E stage, u : Become(p, stage, u) /\ Progress(p, stage, u)
  BY <1>1 DEF Progress
<1>2. ASSUME Entry(p) PROVE \E stage, u : Become(p, stage, u) /\ Progress(p, stage, u)
  <2>1. ASSUME NEW s \in SID, Resolve(p, s)
        PROVE  \E stage, u : Become(p, stage, u) /\ Progress(p, stage, u)
    <3> DEFINE u == [NoTask EXCEPT !.sid = s, !.id = s, !.rec = sess[s]]
    <3>1. /\ Become(p, "fresh", u) /\ u.op = "none" /\ u.sid = s /\ s \in known
          /\ UNCHANGED <<sess, known>>
      BY <2>1 DEF Resolve, NoTask, store, history
    <3> HIDE DEF u
    <3> QED BY <3>1 DEF Progress
  <2>2. ASSUME NEW s \in SID, ResolveNew(p, s)
        PROVE  \E stage, u : Become(p, stage, u) /\ Progress(p, stage, u)
    <3> DEFINE u == [NoTask EXCEPT !.op = "new", !.sid = s, !.id = s, !.rec = NewSession(now)]
    <3>1. /\ Become(p, "fresh", u) /\ u.op = "new" /\ u.id = s /\ u.rec.challenge = NoCID
          /\ origin[s] = 0 /\ origin' = [origin EXCEPT ![s] = now] /\ UNCHANGED <<sess, known>>
      BY <2>2 DEF ResolveNew, NoTask, NewSession, NoSession, store
    <3> HIDE DEF u
    <3> QED BY <3>1 DEF Progress
  <2>3. ASSUME EvaluateWaiting(p)
        PROVE  \E stage, u : Become(p, stage, u) /\ Progress(p, stage, u)
    <3> DEFINE u == [NoTask EXCEPT !.op = "wait", !.sid = t.sid, !.id = t.sid]
    <3>1. pc[p] = "fresh" /\ t.op # "new" /\ Become(p, "held", u) /\ u.sid = t.sid
      BY <2>3 DEF EvaluateWaiting, NoTask
    <3> HIDE DEF u
    <3> QED BY <3>1 DEF Progress
  <2>4. ASSUME NEW op \in Ops, NEW s \in SID, Call(p, op, s)
        PROVE  \E stage, u : Become(p, stage, u) /\ Progress(p, stage, u)
    <3> DEFINE u == [NoTask EXCEPT !.op = op, !.sid = s, !.id = s]
    <3>1. Become(p, "held", u) /\ u.sid = s /\ s \in known
      BY <2>4 DEF Call, NoTask
    <3> HIDE DEF u
    <3> QED BY <3>1 DEF Progress
  <2>5. ASSUME HandleNewClient(p)
        PROVE  \E stage, u : Become(p, stage, u) /\ Progress(p, stage, u)
    <3> DEFINE r == Admit(t.rec, now)
               u == [t EXCEPT !.rec = r, !.ttl = r.expiresAt - now]
    <3>1. /\ pc[p] = "fresh" /\ t.op = "new" /\ Become(p, "reserved", u)
          /\ origin' = [origin EXCEPT ![t.id] = now]
          /\ resv' = Reserve(t.id, r.expiresAt) /\ HasRoom(t.id)
      BY <2>5 DEF HandleNewClient
    <3> HIDE DEF r
    <3>2. u.id = t.id /\ u.op = t.op /\ u.rec = r /\ u.ttl = r.expiresAt - now
      BY <1>0 DEF Task
    <3> HIDE DEF u
    <3> QED BY <3>1, <3>2 DEF Progress, r
  <2> QED BY <1>1, <1>2, <2>1, <2>2, <2>3, <2>4, <2>5
          DEF Entry, EvaluateOnly, RefuseNewClient, SaveNewClient
<1>3. ASSUME NEW u, Become(p, "unlock", u), pc[p] \in Locked, u.sid = t.sid,
             u.after = "move" => pc[p] = "resv" /\ t.after = "move" /\ u.id = t.id
      PROVE  \E stage, v : Become(p, stage, v) /\ Progress(p, stage, v)
  BY <1>3 DEF Progress
<1>4. ASSUME pc[p] \in Locked,
             Abandon(p) \/ (Goto(p, "unlock") /\ (pc[p] = "resv" \/ t.after # "move"))
      PROVE  \E stage, v : Become(p, stage, v) /\ Progress(p, stage, v)
  BY <1>0, <1>3, <1>4, DoneFields DEF Abandon, Goto
<1>5. ASSUME Decide(p) PROVE \E stage, u : Become(p, stage, u) /\ Progress(p, stage, u)
  <2>1. CASE ReturnEarly(p)
    <3>1. Become(p, "unlock", t) /\ t.after # "move" /\ pc[p] \in Locked
      BY <1>0, <2>1, HeldTask DEF ReturnEarly, Locked
    <3> QED BY <1>3, <3>1
  <2> QED BY <1>0, <1>5, <2>1, Decisions DEF Progress
<1>6. ASSUME pc[p] = "chal", Goto(p, AfterChallenge(t)), t.chOp = "drop" \/ WriteChallenge(p)
      PROVE  \E stage, u : Become(p, stage, u) /\ Progress(p, stage, u)
  <2>1. t.after # "move"
    BY <1>0, <1>6 DEF TypeInv, WellFormed
  <2>2. CASE t.ttl > 0
    <3>1. Become(p, "save", t)
      BY <1>6, <2>2 DEF Goto, AfterChallenge
    <3> QED BY <1>6, <2>2, <3>1 DEF Progress
  <2>3. CASE ~(t.ttl > 0)
    BY <1>4, <1>6, <2>1, <2>3 DEF AfterChallenge, Locked
  <2> QED BY <2>2, <2>3
<1>7. ASSUME SaveSession(p) PROVE \E stage, u : Become(p, stage, u) /\ Progress(p, stage, u)
  <2>1. t.id \in SID /\ pc[p] = "save"
    BY <1>0, <1>7 DEF SaveSession, TypeInv, WellFormed
  <2>2. Writes(p, t.id)
    BY <1>0, <1>7, <2>1 DEF SaveSession, Writes
  <2>3. CASE t.after = "none"
    BY <1>4, <1>7, <2>3 DEF SaveSession, Locked
  <2>4. CASE t.after = "move"
    <3>1. Become(p, "del", t)
      BY <1>7, <2>4 DEF SaveSession, Goto
    <3> QED BY <2>1, <2>2, <3>1 DEF Progress
  <2>5. CASE t.after \notin {"none", "move"}
    <3>1. Become(p, "resv", t)
      BY <1>7, <2>5 DEF SaveSession, Goto
    <3> QED BY <2>1, <2>2, <2>5, <3>1 DEF Progress
  <2> QED BY <2>3, <2>4, <2>5
<1>8. ASSUME DeleteOld(p) PROVE \E stage, u : Become(p, stage, u) /\ Progress(p, stage, u)
  <2>1. t.sid \in SID /\ pc[p] = "del"
    BY <1>0, <1>8 DEF DeleteOld, TypeInv, WellFormed
  <2>2. Become(p, "resv", t) /\ sess'[t.sid] = GoneSession(t.sid)
    BY <1>0, <1>8, <2>1 DEF DeleteOld, Goto
  <2> QED BY <2>1, <2>2 DEF Progress
<1>9. ASSUME Write(p) PROVE \E stage, u : Become(p, stage, u) /\ Progress(p, stage, u)
  <2>1. CASE WriteChallenge(p)
    BY <1>6, <2>1 DEF WriteChallenge
  <2>2. CASE SettleReservation(p)
    BY <1>4, <2>2 DEF SettleReservation, Locked
  <2>3. CASE Unlock(p)
    BY <1>1, <2>3 DEF Unlock, Return
  <2> QED BY <1>7, <1>8, <1>9, <2>1, <2>2, <2>3 DEF Write
<1>10. ASSUME Fail(p) PROVE \E stage, u : Become(p, stage, u) /\ Progress(p, stage, u)
  <2>1. CASE ChallengeWriteFails(p)
    BY <1>4, <1>6, <2>1 DEF ChallengeWriteFails, Locked
  <2>2. CASE SaveFails(p) \/ DeleteFails(p) \/ ReservationFails(p)
    BY <1>4, <2>2 DEF SaveFails, DeleteFails, ReservationFails, Locked
  <2>3. CASE ReserveFails(p) \/ SaveNewClientFails(p) \/ Crash(p)
    BY <1>1, <2>3 DEF ReserveFails, SaveNewClientFails, Crash
  <2>4. CASE UnlockFails(p)
    BY <1>1, <2>4 DEF UnlockFails, Return
  <2> QED BY <1>10, <2>1, <2>2, <2>3, <2>4 DEF Fail
<1> QED BY <1>2, <1>5, <1>9, <1>10 DEF Acts

\* The store and the clock: records and reservations stay or go.
Rests ==
  /\ UNCHANGED <<pc, task, known, origin, heir, judged>> /\ now' >= now
  /\ now' # now => Slow \/ \A p \in Proc : pc[p] = "idle"
  /\ now' = now => UNCHANGED sess
  /\ \A s \in SID : sess'[s] = sess[s] \/ sess'[s] = GoneSession(s)
  /\ \A c \in CID : chal'[c] = chal[c] \/ chal'[c] = GoneChallenge(c)
  /\ \A s \in SID : resv'[s] = resv[s] \/ (resv'[s] = 0 /\ resv[s] <= now)
  /\ resv' \in [SID -> Nat]

\* A step is of one call, or of the store.
LEMMA Steps ==
  ASSUME TypeInv, [Next]_vars PROVE Rests \/ \E p \in Proc : Acts(p)
<1>0. TypeOK
  BY DEF TypeInv
<1>1. ASSUME UNCHANGED vars PROVE Rests
  BY <1>0, <1>1 DEF Rests, vars, store, history, TypeOK
<1>2. ASSUME NEW s \in SID, AcquireFails(s) \/ OrphanExpires(s) PROVE Rests
  BY <1>0, <1>2 DEF Rests, AcquireFails, OrphanExpires, store, history, TypeOK
<1>3. ASSUME Tick PROVE Rests
  BY <1>0, <1>3 DEF Rests, Tick, history, TypeOK
<1>4. ASSUME Janitor PROVE Rests
  BY <1>0, <1>4 DEF Rests, Janitor, history, TypeOK
<1> QED BY <1>1, <1>2, <1>3, <1>4 DEF Next, Acts

\* p puts a challenge into the store: a new one, a wrong answer counted, or one it
\* took back.
Keeps(p, c) == /\ c = task[p].cid
               /\ chal'[c] = [task[p].ch EXCEPT !.until = now + task[p].chTTL]
               /\ \/ pc[p] = "chal" /\ task[p].chOp = "set"
                  \/ pc[p] = "save" /\ task[p].chOp = "consume" /\ judged' = judged

\* p rules on an answer.
Rules(p, c) == /\ c = task[p].cid /\ task[p].op = "validate" /\ judged'[c] = judged[c] + 1
               /\ \/ pc[p] = "chal" /\ task[p].chOp = "set" /\ Keeps(p, c)
                  \/ pc[p] = "save" /\ Writes(p, task[p].id) /\ chal' = chal

\* A challenge changes by the planned write of p, or goes.
LEMMA ChallengeEffect ==
  ASSUME TypeInv, NEW p \in Proc, Acts(p), NEW c \in CID
  PROVE  /\ chal'[c] = chal[c] \/ chal'[c] = GoneChallenge(c) \/ Keeps(p, c)
         /\ judged'[c] = judged[c] \/ Rules(p, c)
<1> DEFINE t == task[p]
<1>0. /\ TypeInv /\ chal \in [CID -> StoredChallenge] /\ judged \in [CID -> Nat]
      /\ sess \in [SID -> Session]
  BY DEF TypeInv, TypeOK
<1>1. ASSUME chal' = ChallengeWritten(t), pc[p] = "chal"
      PROVE  /\ chal'[c] = chal[c] \/ chal'[c] = GoneChallenge(c) \/ Keeps(p, c)
             /\ t.chOp = "set" /\ c = t.cid => Keeps(p, c)
  BY <1>0, <1>1 DEF ChallengeWritten, Keeps
<1>2. Ruled(t)[c] = judged[c] \/ (t.op = "validate" /\ c = t.cid /\ Ruled(t)[c] = judged[c] + 1)
  BY <1>0 DEF Ruled
<1>3. CASE WriteChallenge(p)
  <2>1. /\ pc[p] = "chal" /\ chal' = ChallengeWritten(t)
        /\ judged' = IF t.chOp = "set" THEN Ruled(t) ELSE judged
    BY <1>3 DEF WriteChallenge
  <2> QED BY <1>1, <1>2, <2>1 DEF Rules
<1>4. CASE ChallengeWriteFails(p)
  <2>1. /\ pc[p] = "chal" /\ judged' = judged /\ (chal' = ChallengeWritten(t) \/ chal' = chal)
    BY <1>4 DEF ChallengeWriteFails, history
  <2> QED BY <1>1, <2>1
<1>5. CASE SaveSession(p)
  <2>1. pc[p] = "save" /\ chal' = chal /\ judged' = Ruled(t) /\ t.id \in SID
    BY <1>0, <1>5 DEF SaveSession, TypeInv, WellFormed
  <2>2. Writes(p, t.id)
    BY <1>0, <1>5, <2>1 DEF SaveSession, Writes
  <2> QED BY <1>2, <2>1, <2>2 DEF Rules
<1>6. CASE SaveFails(p)
  <2>1. /\ pc[p] = "save" /\ judged' = judged
        /\ \/ chal' = chal
           \/ chal' = [chal EXCEPT ![t.cid] = GoneChallenge(t.cid)]
           \/ /\ t.chOp = "consume"
              /\ chal' = [chal EXCEPT ![t.cid] = [t.ch EXCEPT !.until = now + t.chTTL]]
    BY <1>6 DEF SaveFails, history
  <2> QED BY <1>0, <2>1 DEF Keeps
<1>7. ASSUME ~WriteChallenge(p), ~ChallengeWriteFails(p), ~SaveSession(p), ~SaveFails(p)
      PROVE  chal' = chal /\ judged' = judged
  BY <1>7
  DEF Acts, Entry, Decide, Write, Fail, Resolve, ResolveNew, EvaluateOnly, EvaluateWaiting,
      HandleNewClient, RefuseNewClient, SaveNewClient, Call,
      handleWaitElapsed, Issue, ValidateExpired, ValidateRetry, ValidateExpel, ValidateSolved,
      RotateSession, RevokeSession, Transition, ReturnEarly, DeleteOld, SettleReservation,
      Unlock, Return, DeleteFails, ReservationFails, ReserveFails, SaveNewClientFails,
      UnlockFails, Crash, store, history
<1> QED BY <1>3, <1>4, <1>5, <1>6, <1>7
=============================================================================
