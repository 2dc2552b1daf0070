------------------------------ MODULE Sessions ------------------------------
(***************************************************************************)
(* The session record (session.go), the stored challenge (challenge.go)    *)
(* and the pure decisions taken on them.  Times are naturals; 0 is Go's    *)
(* zero time.Time, which the code reads as "not set".                      *)
(***************************************************************************)
EXTENDS Integers, Transitions

CONSTANTS
  SID, CID,           \* session and challenge identifiers
  NoSID, NoCID,       \* the empty string in their place
  WaitRoom, Captcha,  \* which gates the configuration enables
  WaitTime,           \* time a client spends in the waiting room
  WaitGrace,          \* the 10 minutes a waiting session outlives WaitTime
  CaptchaTTL,         \* lifetime of a challenge
  CaptchaGrace,       \* the 5 minutes a challenged session outlives it
  SessionTTL,         \* lifetime of an admitted session
  AbsLifetime,        \* SessionAbsoluteLifetime, 0 when disabled
  RevokeTTL,          \* retention of a revoked record
  ExpireTTL,          \* retention of an expired record
  MaxAttempts,        \* wrong answers a challenge takes
  MaxRenewals,        \* rotations per lineage, 0 when unlimited
  MaxSessions         \* MaxConcurrentSessions

ASSUME IdAssumption == NoSID \notin SID /\ NoCID \notin CID

\* Config.Validate refuses to start the engine otherwise.
ValidConfig ==
  /\ WaitRoom \in BOOLEAN /\ Captcha \in BOOLEAN
  /\ WaitTime \in Nat /\ (WaitRoom => WaitTime > 0)
  /\ CaptchaTTL \in Nat /\ (Captcha => CaptchaTTL > 0)
  /\ WaitGrace \in Nat \ {0} /\ CaptchaGrace \in Nat \ {0}
  /\ SessionTTL \in Nat \ {0}
  /\ RevokeTTL \in Nat \ {0} /\ ExpireTTL \in Nat \ {0}
  /\ MaxAttempts \in Nat /\ (Captcha => MaxAttempts > 0)
  /\ MaxSessions \in Nat \ {0}
  /\ AbsLifetime \in Nat /\ MaxRenewals \in Nat

ASSUME ConfigAssumption == ValidConfig

\* A session as it is stored, and until when the store keeps it (0: deleted).
Session == [state : State, firstSeen : Nat, expiresAt : Nat, absExpiresAt : Nat,
            renewals : Nat, challenge : CID \cup {NoCID}, until : Nat]

StoredChallenge == [sid : SID \cup {NoSID}, attempts : Nat, expiresAt : Nat, until : Nat]

NoSession == [state |-> "NEW", firstSeen |-> 0, expiresAt |-> 0, absExpiresAt |-> 0,
              renewals |-> 0, challenge |-> NoCID, until |-> 0]

NoChallenge == [sid |-> NoSID, attempts |-> 0, expiresAt |-> 0, until |-> 0]

-----------------------------------------------------------------------------

IsExpired(r, t) == \/ r.state = "EXPIRED"
                   \/ r.expiresAt # 0 /\ t >= r.expiresAt

IsRevoked(r) == r.state = "REVOKED"

Lower(a, b) == IF a < b THEN a ELSE b

\* Mutant of Ceiling: the cap forgotten.
MutUncapped(r, t) == t

\* Every expiry the code assigns is cut off at the absolute lifetime.
Ceiling(r, t) == IF r.absExpiresAt # 0 /\ r.absExpiresAt < t THEN r.absExpiresAt ELSE t

RemainingTTL(r, t, fallback) ==
  IF r.expiresAt > t THEN r.expiresAt - t
  ELSE IF r.absExpiresAt > t THEN r.absExpiresAt - t
  ELSE fallback

\* NewSession: the candidate that lives in memory until it is first saved.
NewSession(t) == [NoSession EXCEPT !.firstSeen = t]

\* The record handleNewClient persists for candidate r.
Admit(r, t) ==
  LET abs  == IF AbsLifetime > 0 THEN t + AbsLifetime ELSE 0
      life == IF WaitRoom THEN WaitTime + WaitGrace
              ELSE IF Captcha THEN CaptchaTTL + CaptchaGrace ELSE SessionTTL
  IN  [r EXCEPT !.state = IF WaitRoom THEN "WAITING"
                          ELSE IF Captcha THEN "CHALLENGE_REQUIRED" ELSE "ADMITTED",
                !.absExpiresAt = abs,
                !.expiresAt = Ceiling([r EXCEPT !.absExpiresAt = abs], t + life)]

\* evaluate: the snapshot is live and has waited long enough.
WaitOver(r, t) == /\ r.state = "WAITING"
                  /\ ~IsExpired(r, t)
                  /\ t - r.firstSeen >= WaitTime

\* Mutant of StillOver: the snapshot's word is taken for the time waited.
MutStillOver(r, t) == r.state = "WAITING" /\ ~IsExpired(r, t)

\* handleWaitElapsed asks again of the record it re-reads under the lock.
StillOver(r, t) == WaitOver(r, t)

LeaveWaitRoom(r, t) ==
  [r EXCEPT !.state = IF Captcha THEN "CHALLENGE_REQUIRED" ELSE "ADMITTED",
            !.expiresAt = Ceiling(r, t + (IF Captcha THEN CaptchaTTL + CaptchaGrace
                                                     ELSE SessionTTL))]

\* Validate after the last attempt: back to the end of the waiting room, if there is one.
Expelled(r, t) ==
  LET e == Ceiling(r, t + WaitTime + WaitGrace)
      x == [r EXCEPT !.challenge = NoCID]
  IN  IF WaitRoom
        THEN [x EXCEPT !.state = "WAITING", !.firstSeen = t,
                       !.expiresAt = IF e > t THEN e ELSE @]
        ELSE x

Solved(r, t) == [r EXCEPT !.state = "ADMITTED", !.challenge = NoCID,
                          !.expiresAt = Ceiling(r, t + SessionTTL)]

Rotatable(r, t) == /\ ~IsRevoked(r)
                   /\ ~IsExpired(r, t)
                   /\ r.state \in {"ADMITTED", "ROTATING"}
                   /\ MaxRenewals > 0 => r.renewals < MaxRenewals
                   /\ Ceiling(r, t + SessionTTL) > t

\* The replacement RotateSession builds for r.
Successor(r, t) == [r EXCEPT !.state = "ADMITTED", !.challenge = NoCID,
                             !.renewals = @ + 1,
                             !.expiresAt = Ceiling(r, t + SessionTTL)]

\* Mutant: the revoked record is dated back.
MutRevoked(r) == [r EXCEPT !.state = "REVOKED", !.expiresAt = 0 - RevokeTTL]

Revoked(r) == [r EXCEPT !.state = "REVOKED", !.expiresAt = 0]

\* AdmissionEngine.Transition: the record and the TTL it is saved with.
Transitioned(r, to, t) ==
  [r EXCEPT !.state = to,
            !.expiresAt = CASE to = "ADMITTED" -> Ceiling(r, t + SessionTTL)
                            [] to = "REVOKED"  -> 0
                            [] to = "EXPIRED"  -> t
                            [] OTHER           -> @]

TransitionTTL(r, to, t) == CASE to = "ADMITTED" -> Ceiling(r, t + SessionTTL) - t
                             [] to = "REVOKED"  -> RevokeTTL
                             [] to = "EXPIRED"  -> ExpireTTL
                             [] OTHER           -> SessionTTL
=============================================================================
